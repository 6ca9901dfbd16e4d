SPECIFICATION Spec
CONSTANTS
    Versions <- SomeVersions
    Current <- This
PROPERTY
    ForeignLeaseNotCondemned
