SPECIFICATION Spec
CONSTANTS
    r1 = r1
    r2 = r2
    r3 = r3
    c1 = c1
    Runs = {r1, r2, r3}
    Cancellers = {c1}
    MaxOpen = 2
SYMMETRY Symmetry
INVARIANTS
    FlowTellsTasks
    SequencesUnique
PROPERTIES
    ClosedStaysClosed
CHECK_DEADLOCK FALSE
