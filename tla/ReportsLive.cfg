SPECIFICATION Spec
CONSTANTS
    Users = {u1}
    Businesses = {b1, b2}
    Banks = {k1}
    Days = {1, 2}
    u1 = u1
    b1 = b1
    b2 = b2
    k1 = k1
    Memberships <- MCMemberships
    Ranges <- MCRanges
    Receipts <- MCReceipts
    None = None
    PageSize = 1
    LinkTTL = 1
    MaxRows = 2
    MaxWrites = 1
    MaxTime = 2
    MaxMoves = 1
INVARIANT CardMatchesTable
INVARIANT PagesCover
INVARIANT FileMatchesTable
INVARIANT ExportInTime
CHECK_DEADLOCK FALSE
