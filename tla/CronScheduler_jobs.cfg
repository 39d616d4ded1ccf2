SPECIFICATION FairSpec
CONSTANTS
    t1 = t1
    t2 = t2
    r1 = r1
    e1 = e1
    Ticks = {t1, t2}
    Requests = {r1}
    Editors = {e1}
    Edits = {"pause", "resume", "delete"}
    Jobs <- MCJobs
    AlertAfter = 2
    Cooldown = 3
    None = None
    Horizon = 4
    MaxCrashes = 1
CONSTRAINT NotLost
INVARIANTS
    RowTruthful
    RunsSpaced
    AlertsSpaced
PROPERTIES
    OccurrencesRun
CHECK_DEADLOCK FALSE
