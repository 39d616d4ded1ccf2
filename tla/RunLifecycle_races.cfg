SPECIFICATION Spec
CONSTANTS
    t1 = t1
    r1 = r1
    c1 = c1
    e1 = e1
    e2 = e2
    n1 = n1
    n2 = n2
    Tickers = {t1}
    Reviewers = {r1}
    Cancellers = {c1}
    Executors = {e1, e2}
    Nodes = {n1, n2}
    NoNode = NoNode
    MaxParks = 2
    MaxCrashes = 1
SYMMETRY Symmetry
INVARIANTS
    FinishedRecorded
    WaitingHasRequest
    DecidedWorkIsRecorded
PROPERTIES
    TerminalIsFinal
    ImplementsContract
CHECK_DEADLOCK FALSE
