SPECIFICATION Spec
CONSTANTS
    Items = {"mine", "theirs"}
    Owned = {"mine"}
    Builds = {"latest", "beta"}
    Latest = "latest"
    Media <- Pictures
    MaxHistory = 5
    LateData = TRUE
    LoadsFail = FALSE
INVARIANTS
    TypeOK
    PicturesHaveData
PROPERTIES
    ImplementsBrowser
CHECK_DEADLOCK FALSE
