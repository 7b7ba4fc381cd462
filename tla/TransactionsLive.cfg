SPECIFICATION Spec
CONSTANTS
    Users = {u1, u2}
    Businesses = {b1, b2}
    Ids = {i1}
    Fields = {f1}
    Values = {x, y}
    Readings <- MCReadings
    Respelled = {}
    u1 = u1
    u2 = u2
    b1 = b1
    b2 = b2
    Memberships <- MCMemberships
    i1 = i1
    f1 = f1
    x = x
    y = y
    None = None
    MaxMoves = 1
    MaxTyped = 1
    MaxCalls = 2
    MaxRewrites = 1
SYMMETRY Symmetry
INVARIANT LogExplainsRow
PROPERTY WritersConcerned
PROPERTY DeletedStaysDeleted
CHECK_DEADLOCK FALSE
