CONSTANTS
    c1 = c1
    g1 = g1
    g2 = g2
    poller = poller
    slot = slot
    Posts = {c1, g1, g2}
    SlotPosts = {c1}
    Carousels = {c1}
    Gated = {g1, g2}
    Jobs = {poller, slot}
    SlotJobs = {slot}
    Tools = {}
    Nothing = Nothing
    MaxTries = 2
    MaxSlots = 2
    FaultKinds = {"claim", "gate", "make", "wait", "publish", "mark", "write", "lookup", "list", "clear", "apply", "slack", "crash"}
    MaxFaults = 2
SPECIFICATION MCSpec
INVARIANTS
    TypeOK
    ListedOrTold
    DailyCap
PROPERTIES
    ImplementsContract
CHECK_DEADLOCK FALSE
