SPECIFICATION LiveSpec
CONSTANTS
    t1 = t1
    t2 = t2
    r1 = r1
    e1 = e1
    e2 = e2
    n1 = n1
    Tickers = {t1, t2}
    Reviewers = {r1}
    Cancellers = {}
    Executors = {e1, e2}
    Nodes = {n1}
    NoNode = NoNode
    MaxParks = 2
    MaxCrashes = 0
INVARIANTS
    SingleExecution
PROPERTIES
    RunSettles
CHECK_DEADLOCK FALSE
