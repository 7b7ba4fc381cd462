----------------------------- MODULE Membership -----------------------------
(* Staff, Invites and Registrations together: who belongs to which Business. *)
EXTENDS StaffOps, InviteOps, RegistrationOps

Next ==
    \/ \E r \in Requests, a \in Accounts : StaffBegin(r, a) \/ InviteBegin(r, a) \/ RegistrationBegin(r, a)
    \/ \E r \in Requests : DecisionBegin(r)
    \/ \E r \in Requests : StaffStep(r) \/ InviteStep(r) \/ RegistrationStep(r)
    \/ \E i \in Invites : InviteLapses(i)

Spec == Init /\ [][Next]_vars

-----------------------------------------------------------------------------
(* Properties *)

\* "Exactly one per Business": the registrant of a Business is its active Owner and
\* nobody else has that role in it, whatever redemptions, registrations and stale
\* saves race; so approveBusiness never has a registrant left to promote.
OneOwner ==
    \A b \in Businesses : businesses[b].status # "none" =>
        /\ {a \in Accounts : users[a] # None /\ users[a].biz = b /\ users[a].role = "owner"}
             = {businesses[b].owner}
        /\ Active(businesses[b].owner)

\* "The only role that can add Managers": a manager got the role from the Owner of
\* that very Business, by a promotion or an Invite, even when an entity read
\* before a demotion or a removal is saved after it.
ManagersGrantedByOwner ==
    \A a \in Accounts : Active(a) /\ users[a].role = "manager" =>
        <<a, users[a].biz>> \in past.managers

\* Nobody works for a Business that never was active: a prospective Owner cannot
\* staff a Business before the decision about it.
StaffOnlyAfterActivation ==
    \A a \in Accounts : Active(a) /\ users[a].role # "owner" => users[a].biz \in past.activated

\* An Invite is bound to its Telegram account: whoever is a waiter or manager of a
\* Business was on its staff from the start or has an Invite of that Business.
NoMembershipWithoutInvite ==
    \A a \in Accounts : Active(a) /\ users[a].role # "owner" =>
        \/ Staff[a] # None /\ Staff[a].biz = users[a].biz
        \/ \E i \in Invites : invites[i].to = a /\ invites[i].biz = users[a].biz

\* "The only role that can remove Managers": a manager's membership ends by the
\* manager's own request, or by one of the Owner of that Business, also when
\* the promotion comes between the request and its check.
ManagersEndedByOwnerOrSelf ==
    [][\A a \in Accounts : Active(a) /\ users[a].role = "manager" /\ ~users'[a].active =>
         \E r \in Requests :
            /\ requests[r].target = a
            /\ requests[r].pc \in {"remove", "leave"}
            /\ requests[r].by = a \/ Owns(requests[r].by, users[a].biz)]_vars

-----------------------------------------------------------------------------
(* What the documents say and the code does not keep. *)

\* Membership ends when the member leaves or is removed, and starts again only
\* through a new Invite.
EndedStaysEnded ==
    [][\A a \in Accounts : users[a] # None /\ ~users[a].active /\ users'[a].active =>
         \E r \in Requests : requests[r].pc = "admit" /\ requests[r].by = a]_vars

\* "activated only after Platform Owner approval".
ActiveWasApproved ==
    \A b \in Businesses : businesses[b].status = "active" => b \in past.approved
=============================================================================
