SPECIFICATION Spec
CONSTANTS
    m1 = m1
    m2 = m2
    t1 = t1
    t2 = t2
    Nobody = nobody
    Messages = {m1}
    TaskIds = {t1}
    Modes = {"template_en"}
    MaxAttempts = 1
    PoolSize = 1
    MaxPending = 1
    MaxRequests = 2
    MaxFaults = 1
CHECK_DEADLOCK FALSE
INVARIANT AckedIsKept
