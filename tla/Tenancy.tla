------------------------------ MODULE Tenancy ------------------------------
(***************************************************************************)
(* The tables behind tenancy - users, businesses and invites - and the     *)
(* requests that work on them.  Several requests are in flight at once; one *)
(* action is what a request does between two awaits.  StaffOps, InviteOps   *)
(* and RegistrationOps define the operations, Membership composes them.     *)
(***************************************************************************)
EXTENDS Naturals, FiniteSets

CONSTANTS
    Accounts,       \* Telegram accounts; users.telegramUserId is unique, so one row each
    Businesses,     \* identities of Businesses
    Invites,        \* identities of Invites
    Requests,       \* requests that may be in flight at once
    Operations,     \* the operations people issue in this instance
    Staff,          \* the users table at the start
    None,           \* null
    MaxRequests     \* bound: requests issued in all

VARIABLES
    users,          \* users[a]: the row of account a, or None
    businesses,     \* businesses[b]: its row; status "none" until it is registered
    invites,        \* invites[i]: its row; status "none" until it is created
    requests,       \* requests[r]: where a request stands and what it has read
    past,           \* history: grants of the manager role, Businesses approved and activated
    issued          \* how many requests were issued

vars == <<users, businesses, invites, requests, past, issued>>

Roles == {"waiter", "manager", "owner"}
User == [biz: Businesses, role: Roles, active: BOOLEAN]
Statuses == {"none", "pending", "active", "rejected", "suspended"}
Business == [status: Statuses, owner: Accounts \cup {None}]
InviteStatuses == {"none", "pending", "redeemed", "revoked", "expired"}
Invite == [status: InviteStatuses, to: Accounts \cup {None}, biz: Businesses \cup {None},
           role: {"waiter", "manager"}, by: Accounts \cup {None}, late: BOOLEAN]

\* A request waits at "pc" for its next database call.  "actor", "row" and
\* "state" are rows it has read, so possibly stale.
Stages == {"idle", "language", "teammate", "save", "remove", "leave",
           "invitees", "replace", "insert", "find", "member", "admit", "redeemed", "revoke",
           "entry", "expire", "account", "create", "revise", "decide"}
Request == [pc: Stages, by: Accounts \cup {None}, actor: User \cup {None},
            target: Accounts \cup {None}, row: User \cup {None}, role: Roles \cup {None},
            inv: Invites \cup {None}, biz: Businesses \cup {None}, state: Business \cup {None},
            todo: SUBSET Accounts, then: Stages \cup {"approve"}]

ASSUME BoundAssumption == MaxRequests \in Nat
ASSUME NoneAssumption == None \notin Accounts \cup Businesses \cup Invites \cup User \cup Roles
ASSUME StaffAssumption ==
    /\ Staff \in [Accounts -> User \cup {None}]
    /\ \A a \in Accounts : Staff[a] # None =>
         /\ Staff[a].active
         /\ \E o \in Accounts :
              Staff[o] # None /\ Staff[o].biz = Staff[a].biz /\ Staff[o].role = "owner"
    /\ \A a, o \in Accounts :
         (/\ Staff[a] # None /\ Staff[a].role = "owner"
          /\ Staff[o] # None /\ Staff[o].role = "owner"
          /\ Staff[a].biz = Staff[o].biz) => a = o

Idle == [pc |-> "idle", by |-> None, actor |-> None, target |-> None, row |-> None,
         role |-> None, inv |-> None, biz |-> None, state |-> None, todo |-> {}, then |-> "idle"]
NoInvite == [status |-> "none", to |-> None, biz |-> None, role |-> "waiter", by |-> None,
             late |-> FALSE]
NoBusiness == [status |-> "none", owner |-> None]

\* findByTelegramId and findById: active memberships only.
Active(a) == users[a] # None /\ users[a].active
Owns(a, b) == Active(a) /\ users[a].biz = b /\ users[a].role = "owner"
AnyPending(a) == {i \in Invites : invites[i].status = "pending"}    \* mutant: not bound to a
PendingFor(a) == {i \in Invites : invites[i].status = "pending" /\ invites[i].to = a}

\* The pending Invites in the set are revoked.
Revoke(set) ==
    invites' = [i \in Invites |-> IF i \in set THEN [invites[i] EXCEPT !.status = "revoked"]
                                 ELSE invites[i]]

\* A new request of the given operation starts in slot r with request record q.
Begin(operation, r, q) ==
    /\ operation \in Operations
    /\ requests[r] = Idle
    /\ issued < MaxRequests
    /\ issued' = issued + 1
    /\ requests' = [requests EXCEPT ![r] = q]

\* Request r goes on as q.
Continue(r, q) == requests' = [requests EXCEPT ![r] = q] /\ UNCHANGED issued

InitialOwner(b) ==
    IF \E a \in Accounts : Staff[a] # None /\ Staff[a].biz = b /\ Staff[a].role = "owner"
      THEN [status |-> "active",
            owner |-> CHOOSE a \in Accounts :
                        Staff[a] # None /\ Staff[a].biz = b /\ Staff[a].role = "owner"]
      ELSE NoBusiness

IsManager(row) == row # None /\ row.role = "manager"

Init ==
    /\ users = Staff
    /\ businesses = [b \in Businesses |-> InitialOwner(b)]
    /\ invites = [i \in Invites |-> NoInvite]
    /\ requests = [r \in Requests |-> Idle]
    /\ past = [managers |-> {<<a, Staff[a].biz>> : a \in {x \in Accounts : IsManager(Staff[x])}},
               approved |-> {b \in Businesses : InitialOwner(b) # NoBusiness},
               activated |-> {b \in Businesses : InitialOwner(b) # NoBusiness}]
    /\ issued = 0

TypeOK ==
    /\ users \in [Accounts -> User \cup {None}]
    /\ businesses \in [Businesses -> Business]
    /\ invites \in [Invites -> Invite]
    /\ requests \in [Requests -> Request]
    /\ past \in [managers: SUBSET (Accounts \X Businesses), approved: SUBSET Businesses,
                 activated: SUBSET Businesses]
    /\ issued \in 0..MaxRequests
=============================================================================
