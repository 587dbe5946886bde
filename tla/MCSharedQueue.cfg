SPECIFICATION FairQueueSpec
CONSTANTS
    p1 = p1
    p2 = p2
    c1 = c1
    c2 = c2
    c3 = c3
    NoThread = NoThread
    Producer <- MCProducer
    Consumer <- MCConsumer
    Peeker <- MCPeeker
    MaxWrites = 4
INVARIANTS
    ExactlyOnceInOrder
    NoLostWakeup
PROPERTIES
    SleeperServed
\* every thread may be asleep once all the elements are taken
CHECK_DEADLOCK FALSE
