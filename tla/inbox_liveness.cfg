SPECIFICATION FairSpec
CONSTANTS
    e1 = e1
    e2 = e2
    h1 = h1
    h2 = h2
    t1 = t1
    t2 = t2
    Events = {e1}
    LeadEvents = {e1}
    Webhooks = {h1}
    Poller = poller
    Nobody = nobody
    TaskIds = {t1, t2}
    NoTask = noTask
    MaxAttempts = 1
    MaxCache = 1
    MaxFaults = 3
CHECK_DEADLOCK FALSE
PROPERTIES EveryCommentIsResolved ReplyLockIsGranted
