CONSTANTS
    Threads = {t1, t2, t3, t4}
SPECIFICATION AllSpec
INVARIANTS TypesOK ExclusiveWord NoLostWakeup NoLostSignal
PROPERTIES ImplementsEvent OpenGatePassesAll ImplementsMutex
