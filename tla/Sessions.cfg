SPECIFICATION Spec
CONSTANTS
    u1 = u1
    c1 = c1
    c2 = c2
    Users <- mcUsers
    Callers <- mcCallers
    AccessLife = 1
    SessionLife = 1
    RefreshLife = 2
    MaxTime = 2
INVARIANTS
    OutStaysOut
    RefreshOnce
    DropsAll
SYMMETRY Symmetry
CHECK_DEADLOCK FALSE
