SPECIFICATION FairSpec
CONSTANTS
    MaxApps = 5
    StartFetchCount = 3
    FetchCount = 2
    PoolCapacity = 3
    Flaggable <- MCFlaggable
INVARIANTS
    TypeOK
    EngineChecksHold
    NoDuplicateFetch
    RowsMatchEngine
    FlagsComplete
    PoolNeverFull
PROPERTIES
    CountStable
    ImplementsCatalog
    FetchSettles
    CatalogueCompletes
CHECK_DEADLOCK FALSE
