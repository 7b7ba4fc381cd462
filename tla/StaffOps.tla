------------------------------ MODULE StaffOps ------------------------------
(* Staff management and account settings: UsersService and StaffController. *)
EXTENDS Tenancy

\* PATCH of the language, the bot's language button...
UpdateLanguage(r, a) ==
    /\ Active(a)
    /\ Begin("language", r, [Idle EXCEPT !.pc = "language", !.by = a])
    /\ UNCHANGED <<users, businesses, invites, past>>

\* ...the row is read, and saved whole with the language.
ReadLanguage(r) ==
    LET q == requests[r] IN
    /\ q.pc = "language"
    /\ Continue(r, IF Active(q.by)
                     THEN [q EXCEPT !.pc = "save", !.target = q.by, !.row = users[q.by], !.inv = None]
                     ELSE Idle)
    /\ UNCHANGED <<users, businesses, invites, past>>

\* The Owner promotes or demotes: guard and controller read the actor...
ChangeRole(r, a, target, role) ==
    /\ Active(a)
    /\ users[a].role = "owner"
    /\ Begin(IF role = "manager" THEN "promote" ELSE "demote", r,
             [Idle EXCEPT !.pc = "teammate", !.by = a, !.actor = users[a], !.target = target,
                          !.role = role])
    /\ UNCHANGED <<users, businesses, invites, past>>

\* ...then findActiveTeammate reads the target, which must have the other role...
TeammateOf(q) ==
    /\ Active(q.target)
    /\ users[q.target].biz = q.actor.biz
    /\ users[q.target].role = IF q.role = "manager" THEN "waiter" ELSE "manager"

ReadTeammate(r) ==
    LET q == requests[r] IN
    /\ q.pc = "teammate"
    /\ Continue(r, IF TeammateOf(q)
                     THEN [q EXCEPT !.pc = "save", !.row = [users[q.target] EXCEPT !.role = q.role]]
                     ELSE Idle)
    /\ past' = IF TeammateOf(q) /\ q.role = "manager"
                 THEN [past EXCEPT !.managers = @ \cup {<<q.target, q.actor.biz>>}]
                 ELSE past
    /\ UNCHANGED <<users, businesses, invites>>

\* ...and the entity read before is saved: every column of it that differs from
\* the table by now is written back.
SaveUser(r) ==
    LET q == requests[r] IN
    /\ q.pc = "save"
    /\ users' = [users EXCEPT ![q.target] = q.row]
    /\ Continue(r, Idle)
    /\ UNCHANGED <<businesses, invites, past>>

\* DELETE /staff/:userId by a manager or the owner.
Remove(r, a, target) ==
    /\ Active(a)
    /\ users[a].role \in {"manager", "owner"}
    /\ Begin("remove", r, [Idle EXCEPT !.pc = "remove", !.by = a, !.actor = users[a], !.target = target])
    /\ UNCHANGED <<users, businesses, invites, past>>

\* DELETE /account/membership.
Leave(r, a) ==
    /\ Active(a)
    /\ Begin("leave", r, [Idle EXCEPT !.pc = "leave", !.by = a, !.actor = users[a], !.target = a])
    /\ UNCHANGED <<users, businesses, invites, past>>

\* endMembership's checks, on the target's row locked in the transaction and the
\* actor's row as it was read before.
AnyManager(q) == TRUE                       \* mutant: managers may remove managers
MayRemove(q) == users[q.target].role = "manager" => q.actor.role = "owner"

MayEnd(q) ==
    /\ Active(q.target)
    /\ users[q.target].biz = q.actor.biz
    /\ users[q.target].role # "owner"
    /\ q.pc = "remove" => MayRemove(q) /\ q.actor.role \in {"manager", "owner"}

\* A departing manager's pending Invites of that Business are revoked with it.
Forsaken(a) == {i \in Invites : /\ invites[i].status = "pending"
                                /\ invites[i].by = a
                                /\ invites[i].biz = users[a].biz
                                /\ users[a].role = "manager"}

EndMembership(r) ==
    LET q == requests[r] IN
    /\ q.pc \in {"remove", "leave"}
    /\ \/ /\ MayEnd(q)
          /\ users' = [users EXCEPT ![q.target].active = FALSE]
          /\ Revoke(Forsaken(q.target))
       \/ ~MayEnd(q) /\ UNCHANGED <<users, invites>>
    /\ Continue(r, Idle)
    /\ UNCHANGED <<businesses, past>>

StaffBegin(r, a) ==
    \/ UpdateLanguage(r, a) \/ Leave(r, a)
    \/ \E target \in Accounts :
         Remove(r, a, target) \/ \E role \in {"waiter", "manager"} : ChangeRole(r, a, target, role)
StaffStep(r) == ReadLanguage(r) \/ ReadTeammate(r) \/ SaveUser(r) \/ EndMembership(r)
=============================================================================
