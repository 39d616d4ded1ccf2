SPECIFICATION Spec
CONSTANTS
    u1 = u1
    s1 = s1
    s2 = s2
    t1 = t1
    t2 = t2
    r1 = r1
    r2 = r2
    r3 = r3
    Users = {u1}
    Sessions = {s1, s2}
    Tokens = {t1, t2}
    Requests = {r1, r2, r3}
    MaxPasswords = 3
SYMMETRY Symmetry
INVARIANTS
    TokensSpent
    ResetEndsSessions
