CONSTANTS
    Threads = {t1, t2, t3, t4}
    InitCount = 1
    MaxCount = 2
SPECIFICATION AllSpec
INVARIANTS TypesOK NoLostWakeup SlowPathBalance
PROPERTIES ImplementSemaphores TimedWaitReturns
\* every caller of fast_semaphore may be waiting, and nobody left to post
CHECK_DEADLOCK FALSE
