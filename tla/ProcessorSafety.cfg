SPECIFICATION Spec
CONSTANTS
    Runs = {r1}
    Procs = {p1, b1}
    Batch = {b1}
    Observers = {o1}
    Inodes = {i1}
    NoLock = NoLock
    Nobody = Nobody
    Request <- FileToExact
    Arrivals <- AllArrivals
    InitialDest <- MissingDest
    MaxCrashes = 2
    MaxIOErrors = 2
INVARIANTS
    TypeOK
    MutualExclusion
    TerminalPublished
    NoReplayAfterPublication
    DoneMeansImported
    OneTarget
    AnswersStayTrue
PROPERTIES
    ForeignUntouched
    ImplementsLifecycle
