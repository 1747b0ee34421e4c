SPECIFICATION FairSpec
CONSTANTS
    MaxRequests = 3
    PoolCapacity = 2
INVARIANTS
    OnlyPoolAndMonitorDangle
PROPERTIES
    EndsAfterQuit
CHECK_DEADLOCK FALSE
