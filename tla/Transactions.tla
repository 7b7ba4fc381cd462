---------------------------- MODULE Transactions ----------------------------
(***************************************************************************)
(* Correcting and deleting Transactions: the edit screen of the Mini App,  *)
(* the PATCH and DELETE handlers behind it and the EditLog.  Several       *)
(* people have a Transaction open at once, with what they were shown when  *)
(* they opened it; the server reads the row, then writes in a second step, *)
(* and so does the worker when the photo of a Transaction comes again.     *)
(***************************************************************************)
EXTENDS Naturals, Sequences

CONSTANTS
    Users,          \* Telegram accounts with a users row
    Businesses,     \* tenants
    Ids,            \* Transactions
    Fields,         \* amount, bankName, transactionId, timestamp
    Values,         \* what a field may hold
    Memberships,\* the memberships there are: a Business and a role in it
    Readings,   \* what may be read off a receipt
    Respelled,      \* fields whose stored spelling differs from the edited one: 100.50 is not "100.5"
    None,           \* null
    MaxMoves,       \* bound: changes of membership
    MaxTyped,       \* bound: fields typed into
    MaxCalls,       \* bound: saves and deletions
    MaxRewrites     \* bound: redeliveries of a receipt that has a Transaction

Roles == {"waiter", "manager", "owner", "platform_owner"}
Membership == {m \in [biz: Businesses \cup {None}, role: Roles] :
                 m.biz = None <=> m.role = "platform_owner"}

ASSUME NoneAssumption == None \notin Users \cup Businesses \cup Ids \cup Values
ASSUME MembershipsAssumption == Memberships \subseteq Membership
ASSUME FieldsAssumption == Readings \subseteq [Fields -> Values \cup {None}] /\ Respelled \subseteq Fields
ASSUME BoundsAssumption == {MaxMoves, MaxTyped, MaxCalls, MaxRewrites} \subseteq Nat

VARIABLES
    member,     \* member[u]: the Business and role of the active users row, or None
    rows,       \* the transactions table
    log,        \* log[i][f]: the EditLog of a field of a Transaction, oldest entry first
    screens,    \* the edit screen each person has open
    calls,      \* calls[u][op]: the request of a person in progress
    leaving,    \* who will be taken back to the list by the timer of a save
    repairs,    \* redeliveries that have read their row and not saved it yet
    concerned,  \* history: who had to do with a Transaction since their request in progress began
    past,       \* history: the Business each Transaction came to, which were written by two at once
    spent       \* how much of each bound is used up

vars == <<member, rows, log, screens, calls, leaving, repairs, concerned, past, spent>>

-----------------------------------------------------------------------------
(* Data *)

Form == [Fields -> Values \cup {None}]
Row == [biz: Businesses, user: Users, status: {"recorded", "needs_review"}, form: Form]
ASSUME RowAssumption == None \notin Row
Repair == [id: Ids, seen: Row]
Entry == [old: Values \cup {None}, new: Values \cup {None}, by: Users]
Screen == [id: Ids \cup {None}, form: Form, dirty: BOOLEAN, review: BOOLEAN]
Ops == {"edit", "delete"}
Call == [pc: {"idle", "sent", "read", "write", "answer"}, id: Ids \cup {None}, body: Form,
         auth: Memberships \cup {None}, seen: Row \cup {None}, here: BOOLEAN]

NoLog == [f \in Fields |-> <<>>]
Blank == [f \in Fields |-> None]
Away == [id |-> None, form |-> Blank, dirty |-> FALSE, review |-> FALSE]
NoCall == [pc |-> "idle", id |-> None, body |-> Blank, auth |-> None, seen |-> None, here |-> FALSE]

Kinds == {"moves", "typed", "calls", "rewrites"}
Bound(what) == CASE what = "moves" -> MaxMoves [] what = "typed" -> MaxTyped
                 [] what = "calls" -> MaxCalls [] what = "rewrites" -> MaxRewrites
Spend(what) == spent[what] < Bound(what) /\ spent' = [spent EXCEPT ![what] = @ + 1]

Complete(form) == \A f \in Fields : form[f] # None

-----------------------------------------------------------------------------
(* Who may do what *)

\* applyAuthScope: what a person's queries return.
InScope(u, m, row) ==
    \/ m.role = "platform_owner"
    \/ m.biz = row.biz /\ (m.role = "waiter" => row.user = u)

\* verifyTransactionAccess: a Waiter's own rows of any Business, a Business's rows
\* for its other members.
AnyWaiter(u, m, row) == m.role # "manager" \/ m.biz = row.biz       \* mutant
MayWrite(u, m, row) ==
    \/ m.role = "platform_owner"
    \/ m.role = "waiter" /\ row.user = u
    \/ m.role \in {"manager", "owner"} /\ m.biz = row.biz

\* The pairs of a person and a Transaction that is theirs to look after; for those who
\* run its Business also while it is deleted, as a redelivery may bring it back.
Concerned == {p \in Users \X Ids :
    LET m == member[p[1]]
        row == rows[p[2]] IN
    \/ row # None /\ row.user = p[1]
    \/ m # None /\ m.role \in {"manager", "owner"} /\ m.biz = past.home[p[2]]
    \/ m # None /\ m.role = "platform_owner"}

Init ==
    /\ member \in [Users -> Memberships]
    /\ rows = [i \in Ids |-> None]
    /\ log = [i \in Ids |-> NoLog]
    /\ screens = [u \in Users |-> Away]
    /\ calls = [u \in Users |-> [op \in Ops |-> NoCall]]
    /\ leaving = {}
    /\ concerned = {}
    /\ repairs = {}
    /\ past = [home |-> [i \in Ids |-> None], crossed |-> {}]
    /\ spent = [what \in Kinds |-> 0]

-----------------------------------------------------------------------------
(* The world around *)

\* The pipeline stores a Transaction with what was read off the receipt.
StatusOf(form) == IF Complete(form) THEN "recorded" ELSE "needs_review"

Arrive(i, u, form) ==
    /\ past.home[i] = None
    /\ member[u] # None /\ member[u].role # "platform_owner"
    /\ rows' = [rows EXCEPT ![i] = [biz |-> member[u].biz, user |-> u,
                                    status |-> StatusOf(form), form |-> form]]
    /\ past' = [past EXCEPT !.home[i] = member[u].biz]
    /\ UNCHANGED <<member, log, screens, calls, leaving, repairs, spent>>

\* repairIdempotentRedelivery: the photo came again; the row is read...
FindExisting(i) ==
    /\ rows[i] # None
    /\ Spend("rewrites")
    /\ repairs' = repairs \cup {[id |-> i, seen |-> rows[i]]}
    /\ UNCHANGED <<member, rows, log, screens, calls, leaving, past>>

\* ...overlaid with its sender, anyone who was in that Business then, and with what was
\* read off the photo this time, status included...
Repaired(row, u, form) ==
    [row EXCEPT !.user = u, !.status = StatusOf(form),
        !.form = [f \in Fields |-> IF form[f] # None THEN form[f] ELSE row.form[f]]]

\* ...and save() writes every column, or inserts the row again when it is gone by then.
SaveRepair(r, u, form) ==
    /\ rows' = [rows EXCEPT ![r.id] = Repaired(r.seen, u, form)]
    /\ repairs' = repairs \ {r}
    /\ past' = [past EXCEPT !.crossed = @ \cup {r.id}]
    /\ UNCHANGED <<member, log, screens, calls, leaving, spent>>

\* The save fails, or its process dies first.
DropRepair(r) ==
    /\ repairs' = repairs \ {r}
    /\ UNCHANGED <<member, rows, log, screens, calls, leaving, past, spent>>

\* A membership ends, begins elsewhere or changes its role.
Move(u, m) ==
    /\ member[u] # m
    /\ member[u] # None => member[u].role # "platform_owner"
    /\ m # None => m.role # "platform_owner"
    /\ Spend("moves")
    /\ member' = [member EXCEPT ![u] = m]
    /\ UNCHANGED <<rows, log, screens, calls, leaving, repairs, past>>

-----------------------------------------------------------------------------
(* The edit screen *)

\* getTransaction answers, on opening and on a refresh: the form follows the server
\* until somebody types into it. Out of scope, the page shows an error instead.
Seeded(s, row) ==
    [s EXCEPT !.review = (row.status = "needs_review"),
              !.form = IF s.dirty THEN s.form ELSE row.form]

Load(u, i) ==
    /\ screens[u].id \in {None, i}
    /\ rows[i] # None /\ member[u] # None /\ InScope(u, member[u], rows[i])
    /\ screens' = [screens EXCEPT ![u] = Seeded([@ EXCEPT !.id = i], rows[i])]
    /\ UNCHANGED <<member, rows, log, calls, leaving, repairs, past, spent>>

Type(u, f, v) ==
    /\ screens[u].id # None
    /\ Spend("typed")
    /\ screens' = [screens EXCEPT ![u] = [@ EXCEPT !.form = [screens[u].form EXCEPT ![f] = v],
                                                   !.dirty = TRUE]]
    /\ UNCHANGED <<member, rows, log, calls, leaving, repairs, past>>

\* The request goes on without its screen.
Unmounted(u) == [calls EXCEPT ![u] = [op \in Ops |->
    IF calls[u][op].pc # "idle" THEN [calls[u][op] EXCEPT !.here = FALSE] ELSE calls[u][op]]]

Leave(u) ==
    /\ screens[u].id # None
    /\ screens' = [screens EXCEPT ![u] = Away]
    /\ calls' = Unmounted(u)
    /\ UNCHANGED <<member, rows, log, leaving, repairs, past, spent>>

\* The timer a save has started fires, wherever its person is by then.
GoToList(u) ==
    /\ u \in leaving
    /\ leaving' = leaving \ {u}
    /\ screens' = [screens EXCEPT ![u] = Away]
    /\ calls' = Unmounted(u)
    /\ UNCHANGED <<member, rows, log, repairs, past, spent>>

Send(u, op, body) ==
    /\ screens[u].id # None
    /\ calls[u][op].pc = "idle"
    /\ Spend("calls")
    /\ calls' = [calls EXCEPT ![u][op] = [NoCall EXCEPT
                   !.pc = "sent", !.id = screens[u].id, !.body = body, !.here = TRUE]]
    /\ UNCHANGED <<member, rows, log, screens, leaving, repairs, past>>

\* Save is enabled once no field is empty, and sends the whole form.
PressSave(u) == Complete(screens[u].form) /\ Send(u, "edit", screens[u].form)

\* Delete is offered on a Transaction shown as Needs Review.
PressDelete(u) == screens[u].review /\ Send(u, "delete", Blank)

-----------------------------------------------------------------------------
(* The handlers *)

\* Nothing comes back: an error answer, a lost connection, a restart.
Fail(u, op) ==
    /\ calls[u][op].pc # "idle"
    /\ calls' = [calls EXCEPT ![u][op] = NoCall]
    /\ UNCHANGED <<member, rows, log, screens, leaving, repairs, past, spent>>

\* The guard finds the live membership.
Admit(u, op) ==
    /\ calls[u][op].pc = "sent"
    /\ member[u] # None
    /\ calls' = [calls EXCEPT ![u][op] = [@ EXCEPT !.pc = "read", !.auth = member[u]]]
    /\ UNCHANGED <<member, rows, log, screens, leaving, repairs, past, spent>>

\* update() and remove() read the row and check access; remove() its status too.
StatusAllows(op, row) == op = "delete" => row.status = "needs_review"

ReadRow(u, op) ==
    LET c == calls[u][op]
        row == rows[c.id] IN
    /\ c.pc = "read"
    /\ row # None
    /\ MayWrite(u, c.auth, row)
    /\ StatusAllows(op, row)
    /\ calls' = [calls EXCEPT ![u][op] = [@ EXCEPT !.pc = "write", !.seen = row]]
    /\ UNCHANGED <<member, rows, log, screens, leaving, repairs, past, spent>>

\* One entry per field that differs, as strings, from the row read before.
Differs(seen, body, f) == body[f] # seen.form[f] \/ f \in Respelled

NewOnly(u, c, f) == [old |-> c.body[f], new |-> c.seen.form[f], by |-> u]     \* mutant: swapped
EntryFor(u, c, f) == [old |-> c.seen.form[f], new |-> c.body[f], by |-> u]

\* The columns are updated by id: a row that is gone by now stays gone.
SavesEntity(c) == [c.seen EXCEPT !.form = c.body]       \* mutant: inserts what it has read
AfterUpdate(c) == IF rows[c.id] = None THEN None ELSE [rows[c.id] EXCEPT !.form = c.body]

\* One database transaction: the entries, then the columns; without a row it is undone.
Commit(u) ==
    LET c == calls[u]["edit"] IN
    /\ c.pc = "write"
    /\ AfterUpdate(c) # None
    /\ log' = [log EXCEPT ![c.id] = [f \in Fields |->
                 IF Differs(c.seen, c.body, f) THEN Append(log[c.id][f], EntryFor(u, c, f))
                 ELSE log[c.id][f]]]
    /\ rows' = [rows EXCEPT ![c.id] = AfterUpdate(c)]
    /\ calls' = [calls EXCEPT ![u]["edit"].pc = "answer"]
    /\ past' = [past EXCEPT !.crossed =
                  IF rows[c.id] # None /\ rows[c.id].form = c.seen.form THEN @ ELSE @ \cup {c.id}]
    /\ UNCHANGED <<member, screens, leaving, repairs, spent>>

\* By id, whatever the row has become; its entries go with it.
DeleteRow(u) ==
    LET c == calls[u]["delete"] IN
    /\ c.pc = "write"
    /\ rows' = [rows EXCEPT ![c.id] = None]
    /\ log' = [log EXCEPT ![c.id] = NoLog]
    /\ calls' = [calls EXCEPT ![u]["delete"].pc = "answer"]
    /\ UNCHANGED <<member, screens, leaving, repairs, past, spent>>

\* onSuccess of a save: the form follows the server again, what was typed since
\* included, and the timer starts.
Saved(u) ==
    /\ calls[u]["edit"].pc = "answer"
    /\ screens' = IF calls[u]["edit"].here THEN [screens EXCEPT ![u].dirty = FALSE] ELSE screens
    /\ leaving' = leaving \cup {u}
    /\ calls' = [calls EXCEPT ![u]["edit"] = NoCall]
    /\ UNCHANGED <<member, rows, log, repairs, past, spent>>

\* onSuccess of a deletion: back to the list.
Deleted(u) ==
    /\ calls[u]["delete"].pc = "answer"
    /\ screens' = [screens EXCEPT ![u] = Away]
    /\ calls' = [Unmounted(u) EXCEPT ![u]["delete"] = NoCall]
    /\ UNCHANGED <<member, rows, log, leaving, repairs, past, spent>>

-----------------------------------------------------------------------------

SomeWorld ==
    \/ \E u \in Users, i \in Ids, form \in Readings : Arrive(i, u, form)
    \/ \E i \in Ids : FindExisting(i)
    \/ \E r \in repairs : DropRepair(r) \/ \E u \in Users, form \in Readings : SaveRepair(r, u, form)
    \/ \E u \in Users, m \in Memberships \cup {None} : Move(u, m)

SomeScreen == \E u \in Users :
    \/ \E i \in Ids : Load(u, i)
    \/ \E f \in Fields, v \in Values \cup {None} : Type(u, f, v)
    \/ Leave(u) \/ GoToList(u) \/ PressSave(u) \/ PressDelete(u)

SomeCall == \E u \in Users :
    \/ \E op \in Ops : Admit(u, op) \/ ReadRow(u, op) \/ Fail(u, op)
    \/ Commit(u) \/ DeleteRow(u) \/ Saved(u) \/ Deleted(u)

\* History is kept for the people who have a request in progress.
Remembered == {p \in concerned \cup Concerned' : \E op \in Ops : calls'[p[1]][op].pc # "idle"}

Next == (SomeWorld \/ SomeScreen \/ SomeCall) /\ concerned' = Remembered

Spec == Init /\ [][Next]_vars

-----------------------------------------------------------------------------
(* Properties *)

TypeOK ==
    /\ member \in [Users -> Memberships \cup {None}]
    /\ rows \in [Ids -> Row \cup {None}]
    /\ log \in [Ids -> [Fields -> Seq(Entry)]]
    /\ screens \in [Users -> Screen]
    /\ calls \in [Users -> [Ops -> Call]]
    /\ leaving \subseteq Users
    /\ repairs \subseteq Repair
    /\ concerned \subseteq Users \X Ids
    /\ past \in [home: [Ids -> Businesses \cup {None}], crossed: SUBSET Ids]
    /\ spent \in [Kinds -> Nat]

\* A request changes or deletes a Transaction only of somebody whose it was to look
\* after while the request ran: their own receipt, or one of a Business they managed.
\* Roles, memberships and rows change between the screen, the guard, the access check
\* and the write.
WritersConcerned ==
    [][\A u \in Users, op \in Ops :
         calls[u][op].pc = "write" /\ calls'[u][op].pc = "answer" =>
            <<u, calls[u][op].id>> \in concerned]_vars

\* The EditLog explains a Transaction: its entries chain, each continuing where the
\* one before ended, and the last ends in what the row holds. Holds for the
\* Transactions no other write crossed between the read and the write of a save.
Chains(entries) == \A n \in 1 .. Len(entries) - 1 : entries[n + 1].old = entries[n].new

LogExplainsRow ==
    \A i \in Ids, f \in Fields :
        LET entries == log[i][f] IN
        i \notin past.crossed /\ entries # <<>> =>
            /\ Chains(entries)
            /\ rows[i] # None /\ entries[Len(entries)].new = rows[i].form[f]

\* A Transaction is deleted for good once no redelivery is left that read it before: no
\* save or deletion in progress brings it back, nor can a later redelivery find it. A
\* redelivery that did read it before does bring it back, as save() inserts a missing row.
BeingRepaired(i) == \E r \in repairs : r.id = i

DeletedStaysDeleted ==
    [][\A i \in Ids : past.home[i] # None /\ rows[i] = None /\ ~BeingRepaired(i) =>
         rows'[i] = None /\ ~BeingRepaired(i)']_vars

-----------------------------------------------------------------------------
(* What the documents say and the code does not keep; see the README. *)

\* "All edits to Transactions are written to the existing EditLog": a field that a
\* save changes gets an entry in the same step.
EditsLogged ==
    [][\A u \in Users : calls[u]["edit"].pc = "write" /\ calls'[u]["edit"].pc = "answer" =>
         LET i == calls[u]["edit"].id IN
         \A f \in Fields : rows'[i].form[f] # rows[i].form[f] => log'[i][f] # log[i][f]]_vars
=============================================================================
