SPECIFICATION Spec
CONSTANTS
    Items = {"mine", "theirs"}
    Owned = {"mine"}
    Default = {"mine"}
    Builds <- TwoBuilds
    States = {"Trash", "ReviewRequest"}
    Picks = {5}
    MaxCalls = 2
    Fails = FALSE
INVARIANTS
    ComboSettles
CHECK_DEADLOCK FALSE
