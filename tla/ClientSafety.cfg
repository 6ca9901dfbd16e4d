SPECIFICATION ClientSpec
CONSTANTS
    Runs = {r1, r2}
    Clients = {k1}
    MaxFaults = 1
    Files = {f1, f2}
    MaxWrites = 1
    Direct = {r2}
    MaxCrashes = 1
INVARIANTS
    NothingForgotten
    SeenHasLedger
PROPERTIES
    NothingLost
