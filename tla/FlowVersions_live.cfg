SPECIFICATION Spec
CONSTANTS
    s1 = s1
    s2 = s2
    p1 = p1
    p2 = p2
    d1 = d1
    g1 = g1
    g2 = g2
    bad = bad
    Savers = {s1, s2}
    Publishers = {p1, p2}
    Deleters = {d1}
    Graphs = {g1, g2, bad}
    Valid = {g1, g2}
    NoGraph = NoGraph
    MaxVersion = 3
SYMMETRY Symmetry
INVARIANTS
    LiveIsValid
    JobsFollowLive
PROPERTIES
    SnapshotsStay
CHECK_DEADLOCK FALSE
