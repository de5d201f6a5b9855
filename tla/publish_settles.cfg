CONSTANTS
    c1 = c1
    g1 = g1
    g2 = g2
    poller = poller
    slot = slot
    Posts = {c1, g1}
    SlotPosts = {c1}
    Carousels = {c1}
    Gated = {g1}
    Jobs = {poller, slot}
    SlotJobs = {slot}
    Tools = {}
    Nothing = Nothing
    MaxTries = 1
    MaxSlots = 1
    FaultKinds = {"claim", "gate", "make", "wait", "publish", "mark", "write", "lookup", "list", "clear", "apply", "crash"}
    MaxFaults = 2
SPECIFICATION MCFairSpec
PROPERTIES
    EventuallySettled
CHECK_DEADLOCK FALSE
