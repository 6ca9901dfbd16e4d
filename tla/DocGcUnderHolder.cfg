SPECIFICATION EitherSpec
CONSTANTS
    Runs = {r1}
    Procs = {p1}
    Batch = {}
    Observers = {g1}
    Inodes = {i1, i2}
    NoLock = NoLock
    Nobody = Nobody
    Request <- FileRequest
    Arrivals <- Abandoned
    InitialDest <- DirectoryDest
    MaxCrashes = 0
    MaxIOErrors = 0
    Callers = {}
    Uploads = {"ok", "unsupported"}
    MaxBeats = 0
    Collectors = {g1}
    Askers = {}
    MaxStarts = 1
INVARIANTS
    HolderKeepsRun
