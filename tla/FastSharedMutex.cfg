CONSTANTS
    Threads = {t1, t2, t3, t4}
    TryCallers = {t1}
    MaxReaders = 7
    MaxInt = 4          \* unlock() narrows from the third failed call on
    MaxPhantoms = 3
SPECIFICATION FairSpec
INVARIANTS TypeOK DrainBalance
PROPERTIES WriterServed ImplementsLock
\* a failed try_lock keeps the writers' mutex
CHECK_DEADLOCK FALSE
