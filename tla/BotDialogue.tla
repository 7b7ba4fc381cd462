---------------------------- MODULE BotDialogue ----------------------------
(* ConversationService: commands, buttons and the invite dialogue. *)
EXTENDS Chat

\* getLanguage: the profile before the session.
DialogueLang(u) == IF updates[u].who.lang # None THEN updates[u].who.lang
                   ELSE IF session.lang # None THEN session.lang ELSE "en"
HasLanguage(u) == updates[u].who.lang # None \/ session.lang # None

Say(u, what) ==
    Continue(u, [updates[u] EXCEPT !.pc = "answer", !.said = what, !.lang = DialogueLang(u)])

InvitableRoles(role) ==
    CASE role = "owner" -> {"waiter", "manager"} [] role = "manager" -> {"waiter"} [] OTHER -> {}
IsMember(row) == row.role # "none" /\ row.status = "active"
MayInvite(row, role) == IsMember(row) /\ role \in InvitableRoles(row.role)
AnyMember(row, role) == IsMember(row)                            \* mutant of MaySelect
MaySelect(row, role) == MayInvite(row, role)

\* The states of a Business that every command answers with.
ForgetsPending == {"suspended", "rejected"}                      \* mutant
Closed == {"suspended", "pending", "rejected"}
StandingReply(u) == updates[u].who.status \in Closed /\ Say(u, updates[u].who.status)
Open(u) == updates[u].who.status \notin Closed

NothingElse == UNCHANGED <<person, offer, albums, limiter, past, spent>>

\* handleStart; the Platform Owner, who has no row, is only welcomed.
Start(u) ==
    LET q == updates[u] IN
    /\ q.pc = "start"
    /\ \/ ~HasLanguage(u) /\ Say(u, "askLanguage") /\ UNCHANGED session
       \/ HasLanguage(u) /\ StandingReply(u) /\ UNCHANGED session
       \/ /\ HasLanguage(u)
          /\ Open(u)
          /\ q.arg # "invite"
          /\ IF IsMember(q.who) THEN Say(u, "greeting") ELSE Continue(u, [q EXCEPT !.pc = "redeem"])
          /\ UNCHANGED session
    /\ NothingElse

\* beginInviteFlow: /invite, its menu button, and /start with that payload.
BeginInviteFlow(u) ==
    \/ StandingReply(u) /\ UNCHANGED session
    \/ Open(u) /\ InvitableRoles(updates[u].who.role) = {} /\ Say(u, "onlyManagers") /\ UNCHANGED session
    \/ /\ Open(u)
       /\ InvitableRoles(updates[u].who.role) # {}
       /\ session' = [session EXCEPT !.inviting = TRUE]
       /\ Say(u, "chooseRole")

Invite(u) ==
    /\ \/ updates[u].pc = "invite"
       \/ updates[u].pc = "start" /\ updates[u].arg = "invite" /\ HasLanguage(u) /\ Open(u)
    /\ BeginInviteFlow(u)
    /\ NothingElse

\* redeem(): the Invite admits the person (InviteOps has its steps), or fails
\* with a conflict when another update has redeemed it meanwhile.
Redeem(u) ==
    LET q == updates[u] IN
    /\ q.pc = "redeem"
    /\ \/ offer = None /\ Say(u, "register") /\ UNCHANGED <<person, offer>>
       \/ /\ offer # None
          /\ person.role = "none"
          /\ Becomes([person EXCEPT !.role = offer, !.status = "active",
                                    !.lang = IF @ = None THEN "en" ELSE @],
                     [updates EXCEPT ![u].pc = IF session.lang # None THEN "keep" ELSE "answer",
                                     ![u].said = "redeemed", ![u].lang = DialogueLang(u)])
          /\ offer' = None
       \/ offer # None /\ person.role # "none" /\ Continue(u, Redelivered(q)) /\ UNCHANGED <<person, offer>>
    /\ UNCHANGED <<session, albums, limiter, past, spent>>

\* updateLanguage on the row: fails when the membership has ended.
SaveLanguage(u, language, row) ==
    \/ /\ person.role # "none"
       /\ Becomes([person EXCEPT !.lang = language],
                  [updates EXCEPT ![u].pc = "answer", ![u].who = row])
    \/ person.role = "none" /\ Continue(u, Redelivered(updates[u])) /\ UNCHANGED person

\* The language chosen before /start is saved with the new membership.
Keep(u) ==
    /\ updates[u].pc = "keep"
    /\ SaveLanguage(u, updates[u].lang, Nobody)
    /\ UNCHANGED <<offer, session, albums, limiter, past, spent>>

\* handleRegisterCommand.
Register(u) ==
    /\ updates[u].pc = "register"
    /\ \/ StandingReply(u)
       \/ Open(u) /\ Say(u, IF IsMember(updates[u].who) THEN "already" ELSE "register")
    /\ UNCHANGED session
    /\ NothingElse

\* handleRegistrationText: the receipt button of the menu.
Submit(u) ==
    /\ updates[u].pc = "submit"
    /\ IF IsMember(updates[u].who) THEN Say(u, "submitReceipt")
       ELSE Continue(u, [updates[u] EXCEPT !.pc = "start"])
    /\ UNCHANGED session
    /\ NothingElse

\* handleCallbackQuery: a language button, which continues /start for someone
\* who had no language yet.
Language(u) ==
    LET q == updates[u] IN
    /\ q.pc = "language"
    /\ session' = [session EXCEPT !.lang = q.arg]
    /\ Continue(u, [q EXCEPT !.pc = IF q.who.role # "none" THEN "save" ELSE "answer",
                             !.goesOn = ~HasLanguage(u), !.said = "languageSaved", !.lang = q.arg])
    /\ NothingElse

Save(u) ==
    /\ updates[u].pc = "save"
    /\ SaveLanguage(u, updates[u].arg, [updates[u].who EXCEPT !.lang = updates[u].arg])
    /\ UNCHANGED <<offer, session, albums, limiter, past, spent>>

Cleared == [session EXCEPT !.inviting = FALSE, !.role = None]

\* handleInviteRoleCallbackQuery: a role button, possibly of an old message.
ChooseRole(u) ==
    LET q == updates[u] IN
    /\ q.pc = "role"
    /\ \/ /\ MayInvite(q.who, q.arg)
          /\ session' = [session EXCEPT !.role = q.arg, !.inviting = TRUE]
          /\ Say(u, "pick")
       \/ ~MayInvite(q.who, q.arg) /\ session' = Cleared /\ Say(u, "refused")
    /\ NothingElse

\* handleUserShared: the picker's answer.
Share(u) ==
    LET q == updates[u] IN
    /\ q.pc = "share"
    /\ \/ (~session.inviting \/ session.role = None) /\ Continue(u, Idle) /\ UNCHANGED session
       \/ /\ session.inviting /\ session.role # None
          /\ \/ /\ q.who.status # "active"
                /\ session' = Cleared
                /\ Say(u, IF q.who.status \in Closed THEN q.who.status ELSE "onlyManagers")
             \/ /\ q.who.status = "active"
                /\ ~MaySelect(q.who, session.role)
                /\ session' = Cleared
                /\ Continue(u, [q EXCEPT !.pc = "answer", !.said = "refused", !.arg = session.role,
                                         !.lang = DialogueLang(u)])
             \/ /\ q.who.status = "active"
                /\ MaySelect(q.who, session.role)
                /\ Continue(u, [q EXCEPT !.pc = "batch", !.arg = session.role])
                /\ UNCHANGED session
    /\ NothingElse

\* createBatch, whose Invites InviteOps models; the dialogue ends with it.
CreateBatch(u) ==
    /\ updates[u].pc = "batch"
    /\ session' = Cleared
    /\ Say(u, "invited")
    /\ NothingElse

\* An error of the batch, or of the reply to it, is answered as a failure.
InviteFails(u) ==
    /\ \/ updates[u].pc = "batch"
       \/ updates[u].pc = "answer" /\ updates[u].said = "invited"
    /\ Spend("troubles", MaxTroubles)
    /\ session' = Cleared
    /\ Say(u, "notInvited")
    /\ UNCHANGED <<person, offer, albums, limiter, past>>

DialogueStep(u) ==
    \/ Start(u) \/ Invite(u) \/ Redeem(u) \/ Keep(u) \/ Register(u) \/ Submit(u) \/ Language(u)
    \/ Save(u) \/ ChooseRole(u) \/ Share(u) \/ CreateBatch(u) \/ InviteFails(u)
=============================================================================
