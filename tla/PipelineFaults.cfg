SPECIFICATION FairSpec
CONSTANTS
    Users = {u1}
    Businesses = {b1}
    Photos = {p1}
    Payments = {}
    Jobs = {j1, j2}
    LegacyJobs = {}
    Workers = {w1, w2}
    u1 = u1
    b1 = b1
    p1 = p1
    j1 = j1
    j2 = j2
    w1 = w1
    w2 = w2
    Readable <- MCReadable
    None = None
    Unstorable = Unstorable
    MaxAttempts = 2
    MaxStalls = 1
    BadTimestamps = FALSE
    Resends = TRUE
    MaxErrors = 1
    MaxOutages = 1
    MaxMoves = 0
    MaxEdits = 0
    MaxDeletes = 1
    MaxTogether = 2
INVARIANT NeverLost
INVARIANT RowImageAvailable
PROPERTY ImplementsLedger
PROPERTY AckedReceiptStored
CHECK_DEADLOCK FALSE
