SPECIFICATION FairSpec
CONSTANTS
    l1 = l1
    l2 = l2
    t1 = t1
    t2 = t2
    Nobody = nobody
    Leads = {l1}
    TaskIds = {t1, t2}
    MaxAttempts = 2
    DryRun = FALSE
    MaxFaults = 3
CHECK_DEADLOCK FALSE
INVARIANTS
    FollowUpsInOrder
    WritesAreKept
PROPERTY FollowUpsEnd
