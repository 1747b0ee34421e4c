SPECIFICATION Spec
CONSTANTS
    Options <- TwoOptions
    Default <- Defaulted
    Implicit <- Switches
    Values <- Chosen
    ReadBack <- CutOff
    Paths = {"store.config"}
    DefaultPath = "store.config"
INVARIANTS
    TypeOK
    CommandLineWins
    PreviousSurvives
    GeneratedReproduces
CHECK_DEADLOCK FALSE
