SPECIFICATION MembersSpec
CONSTANTS
    u1 = u1
    u2 = u2
    i1 = i1
    r1 = r1
    r2 = r2
    Users = {u1, u2}
    Invites = {i1}
    Requests = {r1, r2}
SYMMETRY Symmetry
INVARIANTS
    RolesEarned
    
CHECK_DEADLOCK FALSE
