-------------------------- MODULE RegistrationOps --------------------------
(* Registrations and the Platform Owner's decisions about Businesses. *)
EXTENDS Tenancy

\* The Mini App asks for the entry state...
OpenMiniApp(r, a) ==
    /\ Begin("open", r, [Idle EXCEPT !.pc = "entry", !.by = a])
    /\ UNCHANGED <<users, businesses, invites, past>>

\* ...or submits a registration, submitSelfRegistration...
Register(r, a) ==
    /\ Begin("register", r, [Idle EXCEPT !.pc = "entry", !.by = a, !.then = "account"])
    /\ UNCHANGED <<users, businesses, invites, past>>

\* ...and a pending Invite takes precedence, unless it is past its date: then it
\* is expired first.
ReadEntry(r) ==
    LET q == requests[r] IN
    /\ q.pc = "entry"
    /\ \/ PendingFor(q.by) = {} /\ Continue(r, IF q.then = "idle" THEN Idle ELSE [q EXCEPT !.pc = q.then])
       \/ \E i \in PendingFor(q.by) :
            Continue(r, IF invites[i].late THEN [q EXCEPT !.pc = "expire", !.inv = i] ELSE Idle)
    /\ UNCHANGED <<users, businesses, invites, past>>

\* The account's row and its Business are read: a new account registers, the
\* owner of a rejected Business revises it, anyone else gets the current state.
Revisable(a) == users[a].active /\ businesses[users[a].biz].status = "rejected"

ReadAccount(r) ==
    LET q == requests[r] IN
    /\ q.pc = "account"
    /\ Continue(r, IF users[q.by] = None THEN [q EXCEPT !.pc = "create", !.then = "idle"]
                   ELSE IF Revisable(q.by)
                     THEN [q EXCEPT !.pc = "revise", !.row = users[q.by], !.then = "idle",
                                    !.biz = users[q.by].biz, !.state = businesses[users[q.by].biz]]
                     ELSE Idle)
    /\ UNCHANGED <<users, businesses, invites, past>>

\* telegramUserId is unique.
Unregistered(a) == users[a] = None

\* One transaction inserts the Business and its prospective owner; a second
\* submission fails on the unique account.  Both answer with the entry state.
CreateBusiness(r) ==
    LET q == requests[r] IN
    /\ q.pc = "create"
    /\ \/ /\ Unregistered(q.by)
          /\ \E b \in Businesses :
               /\ businesses[b] = NoBusiness
               /\ businesses' = [businesses EXCEPT ![b] = [status |-> "pending", owner |-> q.by]]
               /\ users' = [users EXCEPT ![q.by] = [biz |-> b, role |-> "owner", active |-> TRUE]]
       \/ ~Unregistered(q.by) /\ UNCHANGED <<users, businesses>>
    /\ Continue(r, [q EXCEPT !.pc = "entry"])
    /\ UNCHANGED <<invites, past>>

\* The revised Business goes back to pending; the user entity is saved after it.
Revise(r) ==
    LET q == requests[r] IN
    /\ q.pc = "revise"
    /\ businesses' = [businesses EXCEPT ![q.biz] = [q.state EXCEPT !.status = "pending"]]
    /\ Continue(r, [q EXCEPT !.pc = "save", !.target = q.by])
    /\ UNCHANGED <<users, invites, past>>

-----------------------------------------------------------------------------

\* The statuses each decision starts from; from another it is refused or a no-op.
\* Rejecting a rejected Business again saves a changed reason.
Decidable(decision) ==
    CASE decision = "approve" -> {"pending"}
      [] decision = "reject" -> {"pending", "rejected"}
      [] decision = "suspend" -> {"pending", "active", "rejected"}
      [] decision = "unsuspend" -> {"suspended"}
Outcome(decision) ==
    CASE decision \in {"approve", "unsuspend"} -> "active"
      [] decision = "reject" -> "rejected"
      [] decision = "suspend" -> "suspended"
Decisions == {"approve", "reject", "suspend", "unsuspend"}

\* The Platform Owner decides: the Business is read and its status checked...
Decide(r, b, decision) ==
    /\ businesses[b].status \in Decidable(decision)
    /\ Begin(decision, r, [Idle EXCEPT !.pc = "decide", !.biz = b,
                !.then = IF decision = "approve" THEN "approve" ELSE "idle",
                !.state = [businesses[b] EXCEPT !.status = Outcome(decision)]])
    /\ UNCHANGED <<users, businesses, invites, past>>

\* ...and the entity saved.  promoteRegistrantToOwner then finds the registrant
\* an owner already, see OneOwner.
SaveDecision(r) ==
    LET q == requests[r] IN
    /\ q.pc = "decide"
    /\ businesses' = [businesses EXCEPT ![q.biz] = q.state]
    /\ past' = [past EXCEPT
                  !.approved = IF q.then = "approve" THEN @ \cup {q.biz} ELSE @,
                  !.activated = IF q.state.status = "active" THEN @ \cup {q.biz} ELSE @]
    /\ Continue(r, Idle)
    /\ UNCHANGED <<users, invites>>

RegistrationBegin(r, a) == OpenMiniApp(r, a) \/ Register(r, a)
RegistrationStep(r) ==
    ReadEntry(r) \/ ReadAccount(r) \/ CreateBusiness(r) \/ Revise(r) \/ SaveDecision(r)
DecisionBegin(r) == \E b \in Businesses, decision \in Decisions : Decide(r, b, decision)
=============================================================================
