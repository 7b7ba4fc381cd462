-------------------------------- MODULE Chat --------------------------------
(***************************************************************************)
(* One person's private chat with the bot: the updates Telegram delivers to *)
(* the webhook, several of them in flight at once, the session Telegraf     *)
(* keeps in memory for the chat, and the person's row as everybody else     *)
(* changes it meanwhile.  BotDialogue and BotReceipts are the handlers,     *)
(* TelegramBot composes them.                                               *)
(***************************************************************************)
EXTENDS Naturals, FiniteSets

CONSTANTS
    Updates,        \* updates that may be in flight at once
    Albums,         \* media groups of the chat
    Kinds,          \* what the person sends in this instance
    People,         \* who the person may be at the start
    Limit,          \* photos allowed in one window
    None,           \* null, undefined
    MaxUpdates,     \* bound: updates in all
    MaxChanges,     \* bound: changes of the row by others
    MaxTroubles,    \* bound: failing calls and restarts of the process
    MaxLapses       \* bound: windows that end

VARIABLES
    person,         \* the person's active membership; role "none" without one
    offer,          \* the role of the pending Invite for the person, or None
    session,        \* ctx.session of the chat
    updates,        \* updates[u]: where an update stands, and its ctx.state
    albums,         \* mediaGroupAcks
    limiter,        \* the counter of the chat in Redis, and which window it counts
    past,           \* history of photos, for the properties
    spent           \* the bounded events so far

vars == <<person, offer, session, updates, albums, limiter, past, spent>>

Langs == {"en", "am"}
Roles == {"none", "waiter", "manager", "owner"}
Person == [role: Roles, status: {"none", "pending", "active", "rejected", "suspended"},
           lang: Langs \cup {None}]
Nobody == [role |-> "none", status |-> "none", lang |-> None]
Session == [inviting: BOOLEAN, role: {"waiter", "manager", None}, lang: Langs \cup {None}]
NoSession == [inviting |-> FALSE, role |-> None, lang |-> None]

Handlers == {"start", "register", "invite", "submit", "language", "role", "share", "photo"}
Stages == Handlers \cup {"idle", "identify", "save", "redeem", "keep", "batch", "expire",
                         "enqueue", "ack", "answer"}
Args == {None, "invite", "edited", "waiter", "manager"} \cup Langs \cup Albums
Replies == {"none", "askLanguage", "languageSaved", "suspended", "pending", "rejected", "greeting",
            "redeemed", "register", "already", "submitReceipt", "onlyManagers", "chooseRole",
            "refused", "pick", "invited", "notInvited", "unknown", "throttled", "received"}

\* "seen" holds every row the person had while the update was in flight.
Update == [pc: Stages, kind: Handlers \cup {"none"}, arg: Args, who: Person, seen: SUBSET Person,
           lang: Langs \cup {None}, said: Replies, goesOn: BOOLEAN, count: Nat, window: Nat]
Idle == [pc |-> "idle", kind |-> "none", arg |-> None, who |-> Nobody, seen |-> {}, lang |-> None,
         said |-> "none", goesOn |-> FALSE, count |-> 0, window |-> 0]

\* The buttons of a language carry one, and who has no membership has no standing.
Standing(row) == row.role = "none" <=> row.status = "none"
ASSUME KindsAssumption ==
    /\ Kinds \subseteq Handlers \X Args
    /\ \A k \in Kinds : k[1] = "language" => k[2] \in Langs
ASSUME PeopleAssumption == People \subseteq {p \in Person : Standing(p)} /\ People # {}
ASSUME BoundsAssumption ==
    {Limit, MaxUpdates, MaxChanges, MaxTroubles, MaxLapses} \subseteq Nat
ASSUME NoneAssumption ==
    /\ None \notin Langs \cup {"waiter", "manager"} \cup Albums
    /\ None \notin [count: Nat, timer: BOOLEAN]

Init ==
    /\ person \in People
    /\ offer = None
    /\ session = NoSession
    /\ updates = [u \in Updates |-> Idle]
    /\ albums = [g \in Albums |-> None]
    /\ limiter = [count |-> 0, ttl |-> FALSE, window |-> 0]
    /\ past = [queued |-> 0, told |-> 0, lost |-> 0,
               granted |-> [w \in 0..MaxLapses |-> 0], noticed |-> [w \in 0..MaxLapses |-> 0]]
    /\ spent = [updates |-> 0, changes |-> 0, troubles |-> 0]

Spend(what, bound) == spent[what] < bound /\ spent' = [spent EXCEPT ![what] = @ + 1]

\* Update u goes on as q.
Continue(u, q) == updates' = [updates EXCEPT ![u] = q]

\* The row becomes p, while the updates stand as in "now".
Becomes(p, now) ==
    /\ person' = p
    /\ updates' = [u \in Updates |-> IF now[u].pc = "idle" THEN now[u]
                                     ELSE [now[u] EXCEPT !.seen = @ \cup {p}]]

-----------------------------------------------------------------------------
(* The webhook and its middleware. *)

Arrive(u, kind, arg) ==
    /\ updates[u] = Idle
    /\ <<kind, arg>> \in Kinds
    /\ Spend("updates", MaxUpdates)
    /\ Continue(u, [Idle EXCEPT !.pc = "identify", !.kind = kind, !.arg = arg, !.seen = {person}])
    /\ UNCHANGED <<person, offer, session, albums, limiter, past>>

\* resolveIdentity: ctx.state is read once, before the handler runs.
Resolved == IF person.role = "none" THEN Nobody ELSE person

Identify(u) ==
    LET q == updates[u] IN
    /\ q.pc = "identify"
    /\ Continue(u, [q EXCEPT !.pc = q.kind, !.who = Resolved])
    /\ UNCHANGED <<person, offer, session, albums, limiter, past, spent>>

\* A handler throws: the webhook answers 500 and Telegram delivers the update again.
Redelivered(q) == [Idle EXCEPT !.pc = "identify", !.kind = q.kind, !.arg = q.arg, !.seen = {person}]

\* ctx.reply.  The batch's reply is inside its try: see InviteFails.
Answer(u) ==
    LET q == updates[u] IN
    /\ q.pc = "answer"
    /\ Continue(u, IF q.goesOn THEN [q EXCEPT !.pc = "start", !.goesOn = FALSE] ELSE Idle)
    /\ past' = IF q.said = "received" THEN [past EXCEPT !.told = @ + 1] ELSE past
    /\ UNCHANGED <<person, offer, session, albums, limiter, spent>>

AnswerFails(u) ==
    LET q == updates[u] IN
    /\ q.pc = "answer"
    /\ q.said # "invited"
    /\ Spend("troubles", MaxTroubles)
    /\ Continue(u, Redelivered(q))
    /\ past' = IF q.said = "received" THEN [past EXCEPT !.lost = @ + 1] ELSE past
    /\ UNCHANGED <<person, offer, session, albums, limiter>>

-----------------------------------------------------------------------------
(* What everybody else does meanwhile. *)

\* Registration and the Platform Owner's decisions, promotion and demotion, the
\* end of a membership, suspension: the row of the person as it may become.
Successors(p) ==
    CASE p.role = "none" /\ p.lang # None -> {}        \* a former member keeps the row
      [] p.role = "none" /\ p.lang = None ->
             {[p EXCEPT !.role = "owner", !.status = "pending", !.lang = l] : l \in Langs}
      [] p.role = "owner" -> {[p EXCEPT !.status = s] : s \in
             CASE p.status = "pending" -> {"active", "rejected", "suspended"}
               [] p.status = "active" -> {"suspended"}
               [] p.status = "rejected" -> {"pending", "suspended"}
               [] p.status = "suspended" -> {"active"}}
      [] p.role \in {"waiter", "manager"} ->
             {[p EXCEPT !.role = r] : r \in {"waiter", "manager"} \ {p.role}}
             \cup {[p EXCEPT !.role = "none", !.status = "none"]}
             \cup {[p EXCEPT !.status = IF p.status = "active" THEN "suspended" ELSE "active"]}

RowChanges ==
    /\ Spend("changes", MaxChanges)
    /\ \E p \in Successors(person) : Becomes(p, updates)
    /\ UNCHANGED <<offer, session, albums, limiter, past>>

\* PATCH of the language by the Mini App.
MiniAppLanguage ==
    /\ person.role # "none"
    /\ Spend("changes", MaxChanges)
    /\ \E l \in Langs \ {person.lang} : Becomes([person EXCEPT !.lang = l], updates)
    /\ UNCHANGED <<offer, session, albums, limiter, past>>

\* Somebody invites the person.
Invited ==
    /\ person.role = "none"
    /\ Spend("changes", MaxChanges)
    /\ offer' \in {"waiter", "manager"}
    /\ UNCHANGED <<person, session, updates, albums, limiter, past>>
=============================================================================
