SPECIFICATION Spec
CONSTANTS
    Options <- TwoOptions
    Default <- Defaulted
    Implicit <- Switches
    Values <- Chosen
    ReadBack <- CutOff
    Paths = {"store.config"}
    DefaultPath = "store.config"
INVARIANTS
    DebugUnbuffered
CHECK_DEADLOCK FALSE
