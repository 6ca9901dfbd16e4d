SPECIFICATION PairOrBatchSpec
CONSTANTS
    Runs = {r1, r2}
    Procs = {p1, b1}
    Batch = {b1}
    Observers = {}
    Inodes = {i1, i2}
    NoLock = NoLock
    Nobody = Nobody
    Request <- FileToExact
    Arrivals <- AllArrivals
    InitialDest <- MissingDest
    MaxCrashes = 1
    MaxIOErrors = 1
PROPERTIES
    QueuedRunsEnd
    InvocationsEnd
