SPECIFICATION Spec
CONSTANTS
    Items = {"mine", "other"}
    Owned = {"mine", "other"}
    Entries <- BuildOrMedia
    MaxCalls = 2
    Others = FALSE
    Fails = TRUE
    ServiceChecks = TRUE
INVARIANTS
    FormSettles
    AgreesWithService
CHECK_DEADLOCK FALSE
