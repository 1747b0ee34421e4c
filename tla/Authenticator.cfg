SPECIFICATION Spec
CONSTANTS
    c1 = c1
    c2 = c2
    c3 = c3
    Conns = {c1, c2, c3}
    MaxActive = 2
    AuthData <- MCAuthData
SYMMETRY ConnSymmetry
INVARIANTS
    TypeOK
    OneAuthPath
    CountCoversAccepted
    OfflineIsTrue
    TokenIsCurrent
    OnlyPinnedAccount
    WaitsOnlyBehindRefused
PROPERTIES
    ImplementsSession
CHECK_DEADLOCK FALSE
