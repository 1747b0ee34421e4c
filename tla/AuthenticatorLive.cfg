SPECIFICATION FairSpec
CONSTANTS
    c1 = c1
    c2 = c2
    c3 = c3
    Conns = {c1, c2}
    MaxActive = 2
    AuthData <- SmallAuthData
PROPERTIES
    ChangeDrainsQueue
    OfflineIsShown
CHECK_DEADLOCK FALSE
