SPECIFICATION LockFairSpec
CONSTANTS
    Threads = {t1, t2, t3}
    WriteFirst = TRUE
    NestedReads = TRUE
    NestedWrites = FALSE
    MaxDepth = 2
INVARIANTS
    ExclusiveWrite
PROPERTIES
    PromisedLock
    WriterGetsIn
CHECK_DEADLOCK FALSE
