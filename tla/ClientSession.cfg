SPECIFICATION Spec
CONSTANTS
    Requests = {r1, r2}
    Leaves = {r2}
    Refused <- MCRefused
    r1 = r1
    None = None
    AccessTTL = 1
    IdleTTL = 2
    Lifetime = 3
    ProofTTL = 1
    AccessMargin = 1
    IdleMargin = 1
    MinDelay = 1
    MaxTime = 3
    MaxChanges = 1
    MaxToggles = 1
    MaxFailures = 1
INVARIANT EffectOnce
INVARIANT TurnedAwayForCause
INVARIANT VisibleSessionLasts
PROPERTY RequestsEnd
CHECK_DEADLOCK FALSE
