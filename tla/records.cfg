SPECIFICATION RecordsSpec
CONSTANTS
    r1 = r1
    r2 = r2
    r3 = r3
    t1 = t1
    i1 = i1
    f1 = f1
    p1 = p1
    a1 = a1
    a2 = a2
    Candidates = {r1, r2, r3}
    Tabs = {t1}
    ChunkSize = 2
    MaxBatches = 2
    MaxFaults = 2
    Items = {i1}
    NoItem = NoItem
    Approved = i1
    MaxFailures = 2
    PatchBudget = 2
    PostBudget = 1
    MaxBreaks = 2
    MaxTurns = 2
    Routes = {f1}
    NoRoute = NoRoute
    Pictures = {p1}
    NoPicture = NoPicture
    Addresses = {a1, a2}
    Ceiling = 1
    MaxOpens = 2
    MaxDays = 2
    MaxSlips = 1
    l1 = l1
    l2 = l2
    Last = 2
    Lists = {l1, l2}
    Threshold = 2
    MaxEdits = 2
    MaxCommands = 4
    MaxFailed = 2
INVARIANTS
    ReviewIsSound
    ExportIsSound
    CrawlIsSound
    CutoverIsSound
\* The faults and the batches of the bound are used up.
CHECK_DEADLOCK FALSE
