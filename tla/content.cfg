SPECIFICATION FairSpec
CONSTANTS
    launcher = launcher
    manual = manual
    NoRun = NoRun
    Runs <- MCRuns
    Sources <- MCSources
    Days <- MCDays
    Slides = 2
    MaxFaults = 2
INVARIANTS
    SavedOnce
    WaitingIsPublishable
    VaultIsTrue
PROPERTY
    BacklogIsSaved
\* Both days may pass with every source used.
CHECK_DEADLOCK FALSE
