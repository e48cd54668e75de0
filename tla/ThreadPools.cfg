CONSTANTS
    Objects = {x1, x2, j1, j2}
    Jthreads = {j1, j2}
    Ids = {i1, i2}
    Null = Null
    PoolSize = 2
    Posters = {p1, p2}
    Tasks = {a, b, c}
SPECIFICATION AllSpec
INVARIANTS Consistent TaskInOnePlace
PROPERTIES EveryTaskRuns DestructorReturns
\* an aborted program; workers asleep when every task has run
CHECK_DEADLOCK FALSE
