SPECIFICATION PartsSpec
CONSTANTS
    MaxRounds = 2
    MaxDefects = 2
    a1 = a1
    a2 = a2
    Accounts <- MCAccounts
    SlideCount = 2
    Cap = 3
    MaxItems = 2
    MaxAgain = 2
    MaxSketches = 5
    MaxLosses = 1
    Targets = 2
    Assets = 3
    ReadyTarget = 2
    ReadyCap = 3
    Breaker = 2
    MaxLost = 1
    h1 = h1
    h2 = h2
    u1 = u1
    g1 = g1
    g2 = g2
    Threads = {h1, h2}
    Users = {u1, Nobody}
    Nobody = Nobody
    Budget = 2
    Cooldown = 2
    Day = 2
    Threshold = 2
    LastTick = 3
    MaxSlips = 2
    FailThreshold = 2
    Stale = 2
    Suppress = 3
    MaxMishaps = 3
    MaxChanges = 4
    Launchers = {g1, g2}
    NoLauncher = NoLauncher
    MaxWrites = 1
    MaxCommits = 1
    MaxDogs = 2
    MaxByHand = 1
    p1 = p1
    p2 = p2
    People = {p1, p2}
    NoPerson = NoPerson
    Groups = {g1, g2}
    FriendCap = 2
    CallCap = 1
    MaxTries = 2
    MaxPerRun = 1
    MaxFaults = 2
INVARIANTS
    TextIsSound
    SketchesAreSound
    ReuseIsSound
    RepliesAreRare
    AlertsAreKept
    BootIsSound
    FriendsAreSound
    CallsAreSound
PROPERTY CheckpointStopsTheDay
\* A text ends; the sketches, the posts, the slips, the launchers' commits and the
\* policies of the bounds are used up.
CHECK_DEADLOCK FALSE
