SPECIFICATION RemoteSpec
CONSTANTS
    Letters = {"a"}
    Others <- Specials
    NameSize = 3
    PathSize = 3
    PipeSize = 1
    TailSize = 2
    MaxOutput = 4
    MaxErrors = 1
    Descendants = {d1}
INVARIANTS
    CallsUnderstood
    OutcomesAreTrue
    AnswerIsWhole
PROPERTY
    CommandsEnd
CHECK_DEADLOCK FALSE
