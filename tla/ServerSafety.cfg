SPECIFICATION ApartSpec
CONSTANTS
    Runs = {r1}
    Procs = {p1}
    Batch = {}
    Observers = {g1, o1}
    Inodes = {i1, i2}
    NoLock = NoLock
    Nobody = Nobody
    Request <- FileRequest
    Arrivals <- ReadyOnly
    InitialDest <- DirectoryDest
    MaxCrashes = 0
    MaxIOErrors = 0
    Callers = {c1, c2}
    Uploads = {"ok", "unsupported"}
    MaxBeats = 1
    Collectors = {g1}
    Askers = {o1}
    MaxStarts = 1
INVARIANTS
    FinishedRunsWhole
PROPERTIES
    RetriesAgree
    AnswerWasTrue
CHECK_DEADLOCK FALSE
