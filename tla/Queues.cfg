CONSTANTS
    Threads = {t1, t2, t3}
    Items = {a, b}
    Capacity = 2
    NoItem = NoItem
SPECIFICATION FairSpec
INVARIANTS Consistent NoLostWakeup
PROPERTIES ImplementsFifo
\* everybody may wait in pop() of an empty ring
CHECK_DEADLOCK FALSE
