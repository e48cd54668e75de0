CONSTANTS
    Threads = {t1, t2, t3}
    MaxReaders = 2
    NoThread = NoThread
    MaxCount = 2
    m1 = m1
    m2 = m2
    m3 = m3
    Mutexes = {m1, m2, m3}
    Orders <- OpposedOrders
    Objects = {l1, l2, l3}
SPECIFICATION AllSpec
INVARIANTS Consistent NoLostWakeup NothingKept
PROPERTIES EnteredWriterServed LoneCallerServed ImplementLocks
