SPECIFICATION FairSpec
CONSTANTS
    NbUnits = 1
    ParseThreads = 1
    SaveAst = FALSE
PROPERTIES
    ScanTerminates
CHECK_DEADLOCK FALSE
