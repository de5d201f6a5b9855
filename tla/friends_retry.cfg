SPECIFICATION Spec
CONSTANTS
    People = {p1}
    NoPerson = NoPerson
    Groups = {g1}
    FriendCap = 2
    MaxPerRun = 1
    MaxFaults = 0
INVARIANT NextSlotRetries
