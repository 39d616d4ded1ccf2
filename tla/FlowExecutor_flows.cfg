SPECIFICATION Spec
CONSTANTS
    t = t
    a = a
    b = b
    c = c
    d = d
    None = None
    Graphs <- MCGraphs
    Launches <- MCLaunches
    MaxCommand = 2
INVARIANTS
    RunsAsDrawn
    ApprovedBeforeExec
    RunsOnce
    LogIsTruthful
PROPERTIES
    Settles
CHECK_DEADLOCK FALSE
