SPECIFICATION FeedFairSpec
CONSTANTS
    Executors = {"e1", "e2"}
    Instruments = {"a", "b"}
    Stgys <- TwoExecutors
    Universe <- Markets
    Failing = {"s2", "s3"}
    DropTick = {"e1"}
    MaxTicks = 2
    MaxRestart = 1
PROPERTIES
    TicksInOrder
    TicksArrive
CHECK_DEADLOCK FALSE
