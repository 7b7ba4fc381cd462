SPECIFICATION Spec
CONSTANTS
    Users = {u1}
    Sessions = {s1}
    Memberships = {waiter, manager}
    Calls = {c1, c2}
    None = None
    AccessTTL = 1
    IdleTTL = 2
    MaxTTL = 3
    MaxTime = 3
    MaxCalls = 5
SYMMETRY Symmetry
INVARIANT AdmittedInTime
INVARIANT LifetimeBounded
CHECK_DEADLOCK FALSE
