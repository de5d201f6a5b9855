SPECIFICATION FairSpec
CONSTANTS
    m1 = m1
    m2 = m2
    t1 = t1
    t2 = t2
    Nobody = nobody
    Messages = {m1, m2}
    TaskIds = {t1}
    Modes = {"ai_en", "handoff_en"}
    MaxAttempts = 2
    PoolSize = 2
    MaxPending = 2
    MaxRequests = 2
    MaxFaults = 2
CHECK_DEADLOCK FALSE
INVARIANTS
    TypeOK
    OneReplyPerMessage
    RowTellsTheTruth
    AiJobsAreOrderly
PROPERTY StoppedIsReported
