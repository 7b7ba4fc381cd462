SPECIFICATION Spec
CONSTANTS
    g1 = g1
    Updates = {u1, u2}
    Albums = {g1}
    Kinds <- Everything
    People <- Someone
    Limit = 1
    None = None
    MaxUpdates = 3
    MaxChanges = 1
    MaxTroubles = 1
    MaxLapses = 1
SYMMETRY Symmetry
INVARIANT ActsWithinRights
INVARIANT TruthfulReplies
INVARIANT AcknowledgedOnce
INVARIANT ThrottledFairly
PROPERTY RefusalsEnd
CHECK_DEADLOCK FALSE
