SPECIFICATION Spec
CONSTANTS
    Users = {u1}
    Businesses = {b1}
    Photos = {p1, p2}
    Payments = {x1}
    Jobs = {j1, j2}
    LegacyJobs = {}
    Workers = {w1, w2}
    u1 = u1
    b1 = b1
    p1 = p1
    p2 = p2
    x1 = x1
    j1 = j1
    j2 = j2
    w1 = w1
    w2 = w2
    Readable <- MCReadable
    None = None
    Unstorable = Unstorable
    MaxAttempts = 3
    MaxStalls = 1
    BadTimestamps = FALSE
    Resends = FALSE
    MaxErrors = 0
    MaxOutages = 0
    MaxMoves = 0
    MaxEdits = 0
    MaxDeletes = 0
    MaxTogether = 4
INVARIANT DuplicatesFlagged
CHECK_DEADLOCK FALSE
