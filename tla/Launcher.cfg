SPECIFICATION Spec
CONSTANTS
    BinPath <- Bin
    Certs <- CertDir
    PathTexts <- Joins
    MaxEntries = 3
    QtEnvs <- QtDirs
    UserArgs <- NoArgs
INVARIANTS
    PathFindsQt
    CertsInBin
CHECK_DEADLOCK FALSE
