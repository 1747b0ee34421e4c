SPECIFICATION Spec
CONSTANTS
    Items = {"mine"}
    Owned = {"mine"}
    Entries <- BuildAndMedia
    MaxCalls = 2
    Others = TRUE
    Fails = FALSE
    ServiceChecks = TRUE
INVARIANTS
    TypeOK
    RefreshSelects
PROPERTIES
    SelectionIsSilent
CHECK_DEADLOCK FALSE
