SPECIFICATION Spec
CONSTANTS
    Nodes <- SomeNodes
    Folders <- SomeFolders
    Patterns <- AllPatterns
    Operands <- SomeOperands
    Brackets <- SomeBrackets
    CharOrder <- Bytes
    SourceName <- S
    MaxFailures = 1
    MaxChanges = 2
INVARIANTS
    RootsDisjoint
    LayoutKept
    OnlySelectedGo
    NothingSelectedStays
CHECK_DEADLOCK FALSE
