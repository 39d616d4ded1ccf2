SPECIFICATION BSpec
CONSTANTS
    s1 = s1
    s2 = s2
    r1 = r1
    m1 = m1
    f1 = f1
    h1 = h1
    h2 = h2
    Sockets = {s1, s2}
    Requests = {r1}
    None = None
    MaxTimers = 1
    Messages = {m1}
    Flows = {f1}
    Handlers = {h1, h2}
    NoMessage = NoMessage
INVARIANTS
    CallsHeld
    HeardOnce
PROPERTIES
    RequestsSettle
CHECK_DEADLOCK FALSE
