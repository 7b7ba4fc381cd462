SPECIFICATION Spec
CONSTANTS
    o = o
    m = m
    w = w
    x = x
    b1 = b1
    b2 = b2
    Accounts = {o, m, x}
    Businesses = {b1, b2}
    Invites = {i1}
    Requests = {r1, r2}
    None = None
    Operations = {"language", "promote", "demote", "remove", "leave", "invite", "start", "revoke", "open", "lapse", "register", "approve", "reject", "suspend", "unsuspend"}
    Staff <- Team
    MaxRequests = 4
SYMMETRY Symmetry
INVARIANT TypeOK
INVARIANT OneOwner
INVARIANT ManagersGrantedByOwner
INVARIANT StaffOnlyAfterActivation
INVARIANT NoMembershipWithoutInvite
PROPERTY ManagersEndedByOwnerOrSelf
CHECK_DEADLOCK FALSE
