SPECIFICATION Spec
CONSTANTS
    v1 = v1
    f1 = f1
    m1 = m1
    Videos = {v1}
    Feeds = {f1}
    Manuals = {m1}
    MaxRuns = 2
    MaxChanges = 1
    MaxCrashes = 1
INVARIANTS
    RowTellsRun
    FeedLaunchesOnce
PROPERTIES
    QueuedIsLaunched
CHECK_DEADLOCK FALSE
