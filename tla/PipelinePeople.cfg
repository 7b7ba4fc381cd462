SPECIFICATION Spec
CONSTANTS
    Users = {u1}
    Businesses = {b1, b2}
    Photos = {p1, p2}
    Payments = {x1}
    Jobs = {j1, j2}
    LegacyJobs = {j1}
    Workers = {w1, w2}
    u1 = u1
    b1 = b1
    b2 = b2
    p1 = p1
    p2 = p2
    x1 = x1
    j1 = j1
    j2 = j2
    w1 = w1
    w2 = w2
    Readable <- MCReadable
    None = None
    Unstorable = Unstorable
    MaxAttempts = 3
    MaxStalls = 1
    BadTimestamps = TRUE
    Resends = TRUE
    MaxErrors = 0
    MaxOutages = 0
    MaxMoves = 2
    MaxEdits = 1
    MaxDeletes = 1
    MaxTogether = 4
SYMMETRY Symmetry
INVARIANT TypeOK
INVARIANT RecordedIsComplete
INVARIANT AttributedAtAcceptance
INVARIANT UnflaggedOverlapped
PROPERTY DuplicateFlagGrounded
CHECK_DEADLOCK FALSE
