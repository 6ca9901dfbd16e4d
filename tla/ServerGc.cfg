SPECIFICATION FairEitherSpec
CONSTANTS
    Runs = {r1}
    Procs = {p1}
    Batch = {}
    Observers = {g1}
    Inodes = {i1, i2}
    NoLock = NoLock
    Nobody = Nobody
    Request <- FileRequest
    Arrivals <- ReadyOrAbandoned
    InitialDest <- DirectoryDest
    MaxCrashes = 1
    MaxIOErrors = 0
    Callers = {c1}
    Uploads = {"ok", "unsupported"}
    MaxBeats = 1
    Collectors = {g1}
    Askers = {}
    MaxStarts = 1
PROPERTIES
    ImplementsContract
    VerdictObservable
    EverythingCollected
