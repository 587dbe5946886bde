SPECIFICATION FairSpec
CONSTANTS
    MaxTasks = 3
    MaxThreads = 3
    InitialCount = 1
    ThreadCounts <- MCThreadCounts
    SizeMax = 255
INVARIANTS
    CounterExact
    SerialWhenSingle
    PillBalance
PROPERTIES
    WaitReturns
    QueuedTaskEnds
    DtorReturns
    PoolSpec
\* with poison values in the queue the destructor really blocks for ever
CHECK_DEADLOCK FALSE
