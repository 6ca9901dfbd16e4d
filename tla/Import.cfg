SPECIFICATION Spec
CONSTANTS
    Configs <- SomeConfigs
    Tool = "transcode"
    Programs = {"ffmpeg"}
    EntryName <- Video
    Intent = "terminal_dot"
    MaxWrites = 2
    MaxEdits = 1
    MaxMeddling = 1
    MaxCrashes = 1
    MaxEvents = 2
INVARIANTS
    WorkedAsListed
    ImportedHasOutputs
    RefusalsHaveCauses
CHECK_DEADLOCK FALSE
