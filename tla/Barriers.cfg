CONSTANTS
    Threads = {t1, t2, t3, t4}
    FewerThreads = {t1, t2, t3}
    MaxRounds = 3
    Results <- AllResults
    MaxLate = 3
    Expected = 2
SPECIFICATION AllSpec
INVARIANTS Consistent StrandedOnlyIfLapped
PROPERTIES NobodyEarly WaitersPass
\* a lapped thread leaves everybody waiting; so do flex_barrier and latch
CHECK_DEADLOCK FALSE
