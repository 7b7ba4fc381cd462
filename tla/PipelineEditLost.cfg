SPECIFICATION Spec
CONSTANTS
    Users = {u1}
    Businesses = {b1}
    Photos = {p1}
    Payments = {x1, x2}
    Jobs = {j1, j2}
    LegacyJobs = {}
    Workers = {w1}
    u1 = u1
    b1 = b1
    p1 = p1
    x1 = x1
    x2 = x2
    j1 = j1
    j2 = j2
    w1 = w1
    Readable <- MCReadable
    None = None
    Unstorable = Unstorable
    MaxAttempts = 3
    MaxStalls = 1
    BadTimestamps = FALSE
    Resends = TRUE
    MaxErrors = 0
    MaxOutages = 0
    MaxMoves = 0
    MaxEdits = 1
    MaxDeletes = 0
    MaxTogether = 4
INVARIANT EditsPreserved
CHECK_DEADLOCK FALSE
