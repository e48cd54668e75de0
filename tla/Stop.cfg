CONSTANTS
    Threads = {t1, t2, t3}
    Callbacks = {c1, c2}
    NoThread = NoThread
    NoCallback = NoCallback
    Tokens = {k1, k2}
    Sources = {o1, o2}
    States = {x, y}
    MaxSources = 5
SPECIFICATION AllSpec
INVARIANTS Consistent NoUseAfterDestroy
PROPERTIES RequestLeavesNothing EveryCallbackServed DestructorReturns
\* every callback object used up and every reference given back
CHECK_DEADLOCK FALSE
