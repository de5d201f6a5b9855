SPECIFICATION Spec
CONSTANTS
    e1 = e1
    e2 = e2
    h1 = h1
    h2 = h2
    t1 = t1
    t2 = t2
    Events = {e1, e2}
    LeadEvents = {e1, e2}
    Webhooks = {h1}
    Poller = poller
    Nobody = nobody
    TaskIds = {t1}
    NoTask = noTask
    MaxAttempts = 1
    MaxCache = 1
    MaxFaults = 2
SYMMETRY CommentSymmetry
CHECK_DEADLOCK FALSE
INVARIANTS AcceptedIsDurable ReplySectionIsExclusive
