SPECIFICATION Spec
CONSTANTS
    Versions <- SomeVersions
    Current <- This
INVARIANTS
    StatusReadersAgree
    LeaseReadersAgree
    ProgressReadersAgree
    AcceptedIsProcessable
PROPERTIES
    EndsReadable
    ForeignLeftInPlace
