SPECIFICATION FairClientSpec
CONSTANTS
    Runs = {r1}
    Clients = {k1}
    MaxFaults = 1
    Files = {f1}
    MaxWrites = 1
    Direct = {}
    MaxCrashes = 1
PROPERTIES
    DrivesEnd
    RunsResolve
    LedgersSettle
