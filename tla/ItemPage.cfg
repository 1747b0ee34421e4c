SPECIFICATION Spec
CONSTANTS
    Items = {"mine", "theirs"}
    Owned = {"mine"}
    Default = {"mine"}
    Builds <- OneBuild
    States = {"ReviewRequest"}
    Picks = {4, 5}
    MaxCalls = 2
    Fails = TRUE
INVARIANTS
    TypeOK
    ControlsTrackFlags
    AgreesWithService
CHECK_DEADLOCK FALSE
