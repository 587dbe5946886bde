SPECIFICATION FairSpec
CONSTANTS
    NbUnits = 3
    ParseThreads = 2
    SaveAst = TRUE
INVARIANTS
    EachUnitOnce
    CompleteAtEnd
    CommitInOrder
    StuckOnlyAtTheLast
PROPERTIES
    EndsOrSticks
\* scanSln returns, or blocks for ever in next()
CHECK_DEADLOCK FALSE
