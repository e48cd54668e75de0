CONSTANTS
    Objects = {x1, j1}
    Jthreads = {j1}
    Ids = {i1, i2}
    Null = Null
SPECIFICATION Spec
INVARIANT DetachedDestructible
CHECK_DEADLOCK FALSE
