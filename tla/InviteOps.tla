----------------------------- MODULE InviteOps -----------------------------
(* Invites: the bot's invite flow, redemption on /start, revocation and expiry. *)
EXTENDS Tenancy

\* getInvitableRoles: a manager invites waiters, the owner managers too.
BothRoles(role) == IF role = "waiter" THEN {} ELSE {"waiter", "manager"}     \* mutant
InvitableRoles(role) ==
    IF role = "owner" THEN {"waiter", "manager"} ELSE IF role = "manager" THEN {"waiter"} ELSE {}

\* The picker's answer reaches the bot, which checks the identity it resolved.
AnyStatus(a) == TRUE                        \* mutant: the Business need not be active
MayInvite(a) == businesses[users[a].biz].status = "active"

InviteBatch(r, a, role, chosen) ==
    /\ Active(a)
    /\ MayInvite(a)
    /\ role \in InvitableRoles(users[a].role)
    /\ chosen # {}
    /\ Begin("invite", r, [Idle EXCEPT !.pc = "invitees", !.by = a, !.biz = users[a].biz,
                                       !.role = role, !.todo = chosen])
    /\ UNCHANGED <<users, businesses, invites, past>>

\* Goes on with the next invitee, or answers when there is none left.
NextInvitee(q) == IF q.todo = {q.target} THEN Idle
                  ELSE [q EXCEPT !.pc = "invitees", !.target = None, !.todo = @ \ {q.target}]

\* create(): an active member is skipped...
CheckInvitee(r, x) ==
    LET q == [requests[r] EXCEPT !.target = x] IN
    /\ q.pc = "invitees"
    /\ x \in q.todo
    /\ Continue(r, IF Active(x) THEN NextInvitee(q) ELSE [q EXCEPT !.pc = "replace"])
    /\ UNCHANGED <<users, businesses, invites, past>>

\* ...any pending Invite of that account is revoked...
ReplacePending(r) ==
    LET q == requests[r] IN
    /\ q.pc = "replace"
    /\ Revoke(PendingFor(q.target))
    /\ Continue(r, [q EXCEPT !.pc = "insert"])
    /\ UNCHANGED <<users, businesses, past>>

\* ...and the new one inserted, unless uq_invite_pending_invitee or an error
\* forbids it: then the batch goes on without it.
InsertInvite(r) ==
    LET q == requests[r] IN
    /\ q.pc = "insert"
    /\ \/ /\ PendingFor(q.target) = {}
          /\ \E i \in Invites :
               /\ invites[i].status = "none"
               /\ invites' = [invites EXCEPT ![i] =
                    [status |-> "pending", to |-> q.target, biz |-> q.biz, role |-> q.role,
                     by |-> q.by, late |-> FALSE]]
          /\ past' = IF q.role = "manager" /\ Owns(q.by, q.biz)
                       THEN [past EXCEPT !.managers = @ \cup {<<q.target, q.biz>>}]
                       ELSE past
       \/ UNCHANGED <<invites, past>>
    /\ Continue(r, NextInvitee(q))
    /\ UNCHANGED <<users, businesses>>

\* An account without active membership starts the bot.
StartBot(r, a) ==
    /\ ~Active(a)
    /\ Begin("start", r, [Idle EXCEPT !.pc = "find", !.by = a])
    /\ UNCHANGED <<users, businesses, invites, past>>

\* redeem(): the pending Invite is read; one past its date is to be expired.
FindInvite(r) ==
    LET q == requests[r] IN
    /\ q.pc = "find"
    /\ \/ PendingFor(q.by) = {} /\ Continue(r, Idle)
       \/ \E i \in PendingFor(q.by) :
            Continue(r, [q EXCEPT !.pc = IF invites[i].late THEN "expire" ELSE "member", !.inv = i])
    /\ UNCHANGED <<users, businesses, invites, past>>

Misnamed(i, status) == invites' = [invites EXCEPT ![i].status = "accepted"]   \* mutant

\* A status is saved over whatever the Invite has become since it was read.
SetInvite(i, status) == invites' = [invites EXCEPT ![i].status = status]

ExpireInvite(r) ==
    LET q == requests[r] IN
    /\ q.pc = "expire"
    /\ SetInvite(q.inv, "expired")
    /\ Continue(r, IF q.then = "idle" THEN Idle ELSE [q EXCEPT !.pc = q.then, !.inv = None])
    /\ UNCHANGED <<users, businesses, past>>

\* joinBusiness(): an account that is an active member by now is a conflict.
ReadMember(r) ==
    LET q == requests[r] IN
    /\ q.pc = "member"
    /\ Continue(r, IF Active(q.by) THEN Idle ELSE [q EXCEPT !.pc = "admit", !.row = users[q.by]])
    /\ UNCHANGED <<users, businesses, invites, past>>

\* The row of a former member is reactivated, or one inserted: an insert loses
\* against any row made since, for telegramUserId is unique.
Upsert(q) == FALSE                          \* mutant: an insert that replaces the row
InsertLoses(q) == q.row = None /\ users[q.by] # None

Admit(r) ==
    LET q == requests[r] IN
    /\ q.pc = "admit"
    /\ users' = IF InsertLoses(q) THEN users
                ELSE [users EXCEPT ![q.by] = [biz |-> invites[q.inv].biz,
                                              role |-> invites[q.inv].role, active |-> TRUE]]
    /\ Continue(r, IF InsertLoses(q) THEN Idle ELSE [q EXCEPT !.pc = "redeemed", !.row = None])
    /\ UNCHANGED <<businesses, invites, past>>

\* The language chosen before /start is saved with the new row: see ReadLanguage.
SaveRedeemed(r) ==
    LET q == requests[r] IN
    /\ q.pc = "redeemed"
    /\ SetInvite(q.inv, "redeemed")
    /\ Continue(r, [q EXCEPT !.pc = "language"])
    /\ UNCHANGED <<users, businesses, past>>

\* DELETE /invites/:inviteId by a manager or owner of the Invite's Business.
RevokeInvite(r, a, i) ==
    /\ Active(a)
    /\ users[a].role \in {"manager", "owner"}
    /\ invites[i].status = "pending"
    /\ invites[i].biz = users[a].biz
    /\ Begin("revoke", r, [Idle EXCEPT !.pc = "revoke", !.by = a, !.inv = i])
    /\ UNCHANGED <<users, businesses, invites, past>>

SaveRevoked(r) ==
    LET q == requests[r] IN
    /\ q.pc = "revoke"
    /\ SetInvite(q.inv, "revoked")
    /\ Continue(r, Idle)
    /\ UNCHANGED <<users, businesses, past>>

\* expiresAt passes.
InviteLapses(i) ==
    /\ "lapse" \in Operations
    /\ invites[i].status = "pending"
    /\ ~invites[i].late
    /\ invites' = [invites EXCEPT ![i].late = TRUE]
    /\ UNCHANGED <<users, businesses, requests, past, issued>>

InviteBegin(r, a) ==
    \/ StartBot(r, a)
    \/ \E role \in {"waiter", "manager"}, chosen \in SUBSET Accounts : InviteBatch(r, a, role, chosen)
    \/ \E i \in Invites : RevokeInvite(r, a, i)
InviteStep(r) ==
    \/ \E x \in Accounts : CheckInvitee(r, x)
    \/ ReplacePending(r) \/ InsertInvite(r) \/ FindInvite(r) \/ ExpireInvite(r)
    \/ ReadMember(r) \/ Admit(r) \/ SaveRedeemed(r) \/ SaveRevoked(r)
=============================================================================
