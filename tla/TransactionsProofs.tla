-------------------------- MODULE TransactionsProofs --------------------------
(***************************************************************************)
(* Proofs about Transactions, for any number of people, Businesses,        *)
(* Transactions and fields.  A request is checked against a membership and *)
(* a row it has read earlier; what makes its write legitimate is that a    *)
(* Transaction, once here, keeps its Business for life, even where a       *)
(* redelivery brings it back after its deletion.                           *)
(***************************************************************************)
EXTENDS Transactions, TLAPS

Past == [home: [Ids -> Businesses \cup {None}], crossed: SUBSET Ids]
Arrived == {i \in Ids : past.home[i] # None}

\* A row, and what a redelivery has read of it, are of the Business it came to.
Homes ==
    /\ \A i \in Ids : rows[i] # None => rows[i].biz = past.home[i]
    /\ \A r \in repairs : r.seen.biz = past.home[r.id]

\* A request and an open screen are about a Transaction that has arrived.
Arrivals ==
    /\ \A u \in Users : screens[u].id # None => screens[u].id \in Arrived
    /\ \A u \in Users, op \in Ops : calls[u][op].pc # "idle" => calls[u][op].id \in Arrived

\* Who is concerned now is on record while a request of theirs runs...
OnRecord ==
    \A p \in Concerned : (\E op \in Ops : calls[p[1]][op].pc # "idle") => p \in concerned

\* ...and whoever the access check will let through has been concerned, or is.
Accounted ==
    \A u \in Users, op \in Ops :
        LET c == calls[u][op] IN
        /\ c.pc = "read" /\ c.auth.role = "platform_owner" =>
             member[u] # None /\ member[u].role = "platform_owner"
        /\ c.pc = "read" /\ c.auth.role \in {"manager", "owner"} =>
             (past.home[c.id] = c.auth.biz => <<u, c.id>> \in concerned)
        /\ c.pc = "write" => <<u, c.id>> \in concerned

\* The entries go with their row.
LogWithRow == \A i \in Ids : rows[i] = None => log[i] = NoLog

\* A request about to write has read a row.
HasRead == \A u \in Users, op \in Ops : calls[u][op].pc = "write" => calls[u][op].seen \in Row

Inv == TypeOK /\ Homes /\ Arrivals /\ OnRecord /\ Accounted /\ LogWithRow /\ HasRead /\ LogExplainsRow

-----------------------------------------------------------------------------
(* Types *)

LEMMA SpendType == ASSUME TypeOK, NEW what \in Kinds, Spend(what) PROVE spent' \in [Kinds -> Nat]
BY DEF Spend, TypeOK

LEMMA NoneOfThese == Away \in Screen /\ NoCall \in Call /\ NoLog \in [Fields -> Seq(Entry)]
BY DEF Away, NoCall, NoLog, Screen, Call, Blank, Form

\* One call goes on as c.
LEMMA CallType ==
    ASSUME TypeOK, NEW u \in Users, NEW op \in Ops, NEW c \in Call, calls' = [calls EXCEPT ![u][op] = c]
    PROVE  calls' \in [Users -> [Ops -> Call]]
<1>1. [calls[u] EXCEPT ![op] = c] \in [Ops -> Call]  BY DEF TypeOK
<1>2. QED  BY <1>1 DEF TypeOK

LEMMA UnmountedType == ASSUME TypeOK, NEW u \in Users PROVE Unmounted(u) \in [Users -> [Ops -> Call]]
<1> DEFINE mine == [op \in Ops |-> IF calls[u][op].pc # "idle" THEN [calls[u][op] EXCEPT !.here = FALSE]
                                   ELSE calls[u][op]]
<1>1. ASSUME NEW op \in Ops PROVE [calls[u][op] EXCEPT !.here = FALSE] \in Call /\ calls[u][op] \in Call
  <2>1. calls[u][op] \in Call  BY DEF TypeOK
  <2>2. QED  BY <2>1 DEF Call
<1>2. mine \in [Ops -> Call]  BY <1>1
<1>3. Unmounted(u) = [calls EXCEPT ![u] = mine]  BY DEF Unmounted
<1> HIDE DEF mine
<1>4. QED  BY <1>2, <1>3 DEF TypeOK

LEMMA RepairedType ==
    ASSUME NEW row \in Row, NEW u \in Users, NEW form \in Readings
    PROVE  Repaired(row, u, form) \in Row /\ Repaired(row, u, form).biz = row.biz
<1> DEFINE over == [f \in Fields |-> IF form[f] # None THEN form[f] ELSE row.form[f]]
<1>1. over \in Form  BY FieldsAssumption DEF Form, Row
<1>2. StatusOf(form) \in {"recorded", "needs_review"}  BY DEF StatusOf
<1>3. Repaired(row, u, form) = [row EXCEPT !.user = u, !.status = StatusOf(form), !.form = over]
  BY DEF Repaired
<1> HIDE DEF over
<1>4. QED  BY <1>1, <1>2, <1>3 DEF Row

LEMMA WorldType == ASSUME TypeOK, SomeWorld PROVE
    /\ member' \in [Users -> Memberships \cup {None}]
    /\ rows' \in [Ids -> Row \cup {None}]
    /\ repairs' \subseteq Repair
    /\ past' \in Past
    /\ spent' \in [Kinds -> Nat]
    /\ UNCHANGED <<log, screens, calls, leaving>>
<1> USE DEF Past
<1>1. ASSUME NEW i \in Ids, NEW u \in Users, NEW form \in Readings, Arrive(i, u, form)
      PROVE  /\ rows' \in [Ids -> Row \cup {None}] /\ past' \in Past
             /\ UNCHANGED <<member, log, screens, calls, leaving, repairs, spent>>
  <2> DEFINE row == [biz |-> member[u].biz, user |-> u, status |-> StatusOf(form), form |-> form]
  <2>1. member[u] \in Membership /\ member[u].role # "platform_owner"
    BY <1>1, MembershipsAssumption DEF Arrive, TypeOK
  <2>2. member[u].biz \in Businesses  BY <2>1 DEF Membership
  <2>3. form \in Form  BY FieldsAssumption DEF Form
  <2>4. row \in Row  BY <2>2, <2>3 DEF Row, StatusOf
  <2>5. rows' = [rows EXCEPT ![i] = row]  BY <1>1 DEF Arrive
  <2> HIDE DEF row
  <2>6. past' \in Past  BY <1>1, <2>2 DEF Arrive, TypeOK
  <2>7. rows' \in [Ids -> Row \cup {None}]  BY <2>4, <2>5 DEF TypeOK
  <2>8. UNCHANGED <<member, log, screens, calls, leaving, repairs, spent>>  BY <1>1 DEF Arrive
  <2>9. QED  BY <2>6, <2>7, <2>8
<1>2. ASSUME NEW r \in repairs, NEW u \in Users, NEW form \in Readings, SaveRepair(r, u, form)
      PROVE  /\ rows' \in [Ids -> Row \cup {None}] /\ past' \in Past /\ repairs' \subseteq Repair
             /\ UNCHANGED <<member, log, screens, calls, leaving, spent>>
  <2>1. r.id \in Ids /\ r.seen \in Row  BY DEF TypeOK, Repair
  <2>2. Repaired(r.seen, u, form) \in Row  BY <2>1, RepairedType
  <2>3. past' \in Past  BY <1>2, <2>1 DEF SaveRepair, TypeOK
  <2>4. QED  BY <1>2, <2>1, <2>2, <2>3 DEF SaveRepair, TypeOK
<1>3. ASSUME NEW i \in Ids, FindExisting(i)
      PROVE  /\ repairs' \subseteq Repair /\ spent' \in [Kinds -> Nat]
             /\ UNCHANGED <<member, rows, log, screens, calls, leaving, past>>
  <2>1. "rewrites" \in Kinds  BY DEF Kinds
  <2>2. spent' \in [Kinds -> Nat]  BY <1>3, <2>1, SpendType DEF FindExisting
  <2>3. rows[i] \in Row  BY <1>3 DEF FindExisting, TypeOK
  <2>4. [id |-> i, seen |-> rows[i]] \in Repair  BY <2>3 DEF Repair
  <2>5. QED  BY <1>3, <2>2, <2>4 DEF FindExisting, TypeOK
<1>4. ASSUME NEW r \in repairs, DropRepair(r)
      PROVE  /\ repairs' \subseteq Repair
             /\ UNCHANGED <<member, rows, log, screens, calls, leaving, past, spent>>
  BY <1>4 DEF DropRepair, TypeOK
<1>5. ASSUME NEW u \in Users, NEW m \in Memberships \cup {None}, Move(u, m)
      PROVE  /\ member' \in [Users -> Memberships \cup {None}]
             /\ spent' \in [Kinds -> Nat]
             /\ UNCHANGED <<rows, log, screens, calls, leaving, repairs, past>>
  <2>1. "moves" \in Kinds  BY DEF Kinds
  <2>2. QED  BY <1>5, <2>1, SpendType DEF Move, TypeOK
<1>6. TypeOK  OBVIOUS
<1>7. QED  BY <1>1, <1>2, <1>3, <1>4, <1>5, <1>6 DEF SomeWorld, TypeOK

LEMMA ScreenType == ASSUME TypeOK, SomeScreen PROVE
    /\ screens' \in [Users -> Screen]
    /\ calls' \in [Users -> [Ops -> Call]]
    /\ leaving' \subseteq Users
    /\ spent' \in [Kinds -> Nat]
    /\ UNCHANGED <<member, rows, log, repairs, past>>
<1>1. ASSUME NEW u \in Users, NEW i \in Ids, Load(u, i)
      PROVE  screens' \in [Users -> Screen] /\ UNCHANGED <<member, rows, log, calls, leaving, repairs, past, spent>>
  <2> DEFINE s == [screens[u] EXCEPT !.id = i]
  <2>1. screens[u] \in Screen /\ rows[i] \in Row  BY <1>1 DEF Load, TypeOK
  <2>2. s \in Screen  BY <2>1 DEF Screen
  <2>3. rows[i].form \in Form  BY <2>1 DEF Row
  <2>4. Seeded(s, rows[i]) \in Screen  BY <2>2, <2>3 DEF Seeded, Screen
  <2>5. screens' = [screens EXCEPT ![u] = Seeded(s, rows[i])]  BY <1>1 DEF Load
  <2> HIDE DEF s
  <2>6. QED  BY <1>1, <2>4, <2>5 DEF Load, TypeOK
<1>2. ASSUME NEW u \in Users, NEW f \in Fields, NEW v \in Values \cup {None}, Type(u, f, v)
      PROVE  /\ screens' \in [Users -> Screen] /\ spent' \in [Kinds -> Nat]
             /\ UNCHANGED <<member, rows, log, calls, leaving, repairs, past>>
  <2> DEFINE form == [screens[u].form EXCEPT ![f] = v]
             s == [screens[u] EXCEPT !.form = form, !.dirty = TRUE]
  <2>1. screens[u] \in Screen  BY DEF TypeOK
  <2>2. form \in Form  BY <2>1 DEF Screen, Form
  <2>3. screens' = [screens EXCEPT ![u] = s]  BY <1>2 DEF Type
  <2> HIDE DEF form
  <2>4. s \in Screen  BY <2>1, <2>2 DEF Screen
  <2> HIDE DEF s
  <2>5. "typed" \in Kinds  BY DEF Kinds
  <2>6. QED  BY <1>2, <2>3, <2>4, <2>5, SpendType DEF Type, TypeOK
<1>3. ASSUME NEW u \in Users, Leave(u) \/ GoToList(u)
      PROVE  /\ screens' \in [Users -> Screen] /\ calls' \in [Users -> [Ops -> Call]]
             /\ leaving' \subseteq Users /\ UNCHANGED <<member, rows, log, repairs, past, spent>>
  <2>1. calls' \in [Users -> [Ops -> Call]]  BY <1>3, UnmountedType DEF Leave, GoToList
  <2>2. screens' = [screens EXCEPT ![u] = Away]  BY <1>3 DEF Leave, GoToList
  <2>3. screens' \in [Users -> Screen]  BY <2>2, NoneOfThese DEF TypeOK
  <2>4. leaving' \subseteq Users /\ UNCHANGED <<member, rows, log, repairs, past, spent>>
    BY <1>3 DEF Leave, GoToList, TypeOK
  <2>5. QED  BY <2>1, <2>3, <2>4
<1>4. ASSUME NEW u \in Users, NEW op \in Ops, NEW body \in Form, Send(u, op, body)
      PROVE  /\ calls' \in [Users -> [Ops -> Call]] /\ spent' \in [Kinds -> Nat]
             /\ UNCHANGED <<member, rows, log, screens, leaving, repairs, past>>
  <2> DEFINE c == [NoCall EXCEPT !.pc = "sent", !.id = screens[u].id, !.body = body,
                                 !.here = TRUE]
  <2>1. screens[u].id \in Ids \cup {None}  BY DEF TypeOK, Screen
  <2>2. c \in Call  BY <2>1, NoneOfThese DEF Call
  <2>3. calls' = [calls EXCEPT ![u][op] = c]  BY <1>4 DEF Send
  <2> HIDE DEF c
  <2>4. "calls" \in Kinds  BY DEF Kinds
  <2>5. QED  BY <1>4, <2>2, <2>3, <2>4, CallType, SpendType DEF Send
<1>5. "edit" \in Ops /\ "delete" \in Ops /\ Blank \in Form  BY DEF Ops, Blank, Form
<1>6. \A u \in Users : screens[u].form \in Form  BY DEF TypeOK, Screen
<1>7. QED  BY <1>1, <1>2, <1>3, <1>4, <1>5, <1>6 DEF SomeScreen, PressSave, PressDelete, TypeOK

LEMMA CallStepType == ASSUME TypeOK, HasRead, Arrivals, SomeCall PROVE
    /\ rows' \in [Ids -> Row \cup {None}]
    /\ log' \in [Ids -> [Fields -> Seq(Entry)]]
    /\ screens' \in [Users -> Screen]
    /\ calls' \in [Users -> [Ops -> Call]]
    /\ leaving' \subseteq Users
    /\ past' \in Past
    /\ UNCHANGED <<member, repairs, spent>>
<1> USE DEF Past
<1>1. ASSUME NEW u \in Users, NEW op \in Ops, Admit(u, op)
      PROVE  calls' \in [Users -> [Ops -> Call]]
  <2> DEFINE c == [calls[u][op] EXCEPT !.pc = "read", !.auth = member[u]]
  <2>1. calls[u][op] \in Call /\ member[u] \in Memberships \cup {None}  BY DEF TypeOK
  <2>2. c \in Call  BY <2>1 DEF Call
  <2>3. QED  BY <1>1, <2>2, CallType DEF Admit
<1>2. ASSUME NEW u \in Users, NEW op \in Ops, ReadRow(u, op)
      PROVE  calls' \in [Users -> [Ops -> Call]]
  <2> DEFINE row == rows[calls[u][op].id]
             c == [calls[u][op] EXCEPT !.pc = "write", !.seen = row]
  <2>1. calls[u][op] \in Call  BY DEF TypeOK
  <2>2. calls[u][op].id \in Ids  BY <1>2 DEF ReadRow, Arrivals, Arrived, TypeOK
  <2>3. row \in Row  BY <1>2, <2>2 DEF ReadRow, TypeOK
  <2>4. c \in Call  BY <2>1, <2>3 DEF Call
  <2>5. QED  BY <1>2, <2>4, CallType DEF ReadRow
<1>3. ASSUME NEW u \in Users, NEW op \in Ops, Fail(u, op)
      PROVE  calls' \in [Users -> [Ops -> Call]]
  BY <1>3, NoneOfThese, CallType DEF Fail
<1>4. ASSUME NEW u \in Users, Commit(u)
      PROVE  /\ rows' \in [Ids -> Row \cup {None}] /\ log' \in [Ids -> [Fields -> Seq(Entry)]]
             /\ calls' \in [Users -> [Ops -> Call]]
             /\ past' \in Past
  <2> DEFINE c == calls[u]["edit"]
             more == [f \in Fields |-> IF Differs(c.seen, c.body, f)
                                         THEN Append(log[c.id][f], EntryFor(u, c, f))
                                         ELSE log[c.id][f]]
             answered == [c EXCEPT !.pc = "answer"]
  <2>1. "edit" \in Ops  BY DEF Ops
  <2>2. c \in Call /\ c.id \in Ids /\ c.seen \in Row
    BY <1>4, <2>1 DEF Commit, Arrivals, Arrived, HasRead, TypeOK
  <2>3. c.body \in Form /\ c.seen.form \in Form  BY <2>2 DEF Call, Row
  <2>4. AfterUpdate(c) \in Row \cup {None}
    <3>1. rows[c.id] \in Row \cup {None}  BY <2>2 DEF TypeOK
    <3>2. QED  BY <2>3, <3>1 DEF AfterUpdate, Row
  <2>5. more \in [Fields -> Seq(Entry)]
    <3>1. ASSUME NEW f \in Fields PROVE log[c.id][f] \in Seq(Entry) /\ EntryFor(u, c, f) \in Entry
      BY <2>2, <2>3 DEF TypeOK, EntryFor, Entry, Form
    <3>2. QED  BY <3>1
  <2>6. answered \in Call  BY <2>2 DEF Call
  <2>7. /\ rows' = [rows EXCEPT ![c.id] = AfterUpdate(c)] /\ log' = [log EXCEPT ![c.id] = more]
        /\ calls' = [calls EXCEPT ![u]["edit"] = answered]
    BY <1>4 DEF Commit
  <2>8. past' \in Past  BY <1>4, <2>2 DEF Commit, TypeOK
  <2> HIDE DEF c, more, answered
  <2>9. QED  BY <2>1, <2>4, <2>5, <2>6, <2>7, <2>8 DEF TypeOK
<1>5. ASSUME NEW u \in Users, DeleteRow(u)
      PROVE  /\ rows' \in [Ids -> Row \cup {None}] /\ log' \in [Ids -> [Fields -> Seq(Entry)]]
             /\ calls' \in [Users -> [Ops -> Call]]
  <2> DEFINE c == calls[u]["delete"]
             answered == [c EXCEPT !.pc = "answer"]
  <2>1. "delete" \in Ops  BY DEF Ops
  <2>2. c \in Call  BY <2>1 DEF TypeOK
  <2>3. answered \in Call  BY <2>2 DEF Call
  <2>4. calls' = [calls EXCEPT ![u]["delete"] = answered]  BY <1>5 DEF DeleteRow
  <2>5. rows' = [rows EXCEPT ![c.id] = None] /\ log' = [log EXCEPT ![c.id] = NoLog]
    BY <1>5 DEF DeleteRow
  <2> HIDE DEF c, answered
  <2>6. rows' \in [Ids -> Row \cup {None}] /\ log' \in [Ids -> [Fields -> Seq(Entry)]]
    BY <2>5, NoneOfThese DEF TypeOK
  <2>7. QED  BY <2>1, <2>3, <2>4, <2>6, CallType
<1>6. ASSUME NEW u \in Users, Saved(u)
      PROVE  /\ screens' \in [Users -> Screen] /\ calls' \in [Users -> [Ops -> Call]]
             /\ leaving' \subseteq Users
  <2> DEFINE s == [screens[u] EXCEPT !.dirty = FALSE]
  <2>1. s \in Screen  BY DEF TypeOK, Screen
  <2>2. screens' = screens \/ screens' = [screens EXCEPT ![u] = s]  BY <1>6 DEF Saved
  <2> HIDE DEF s
  <2>3. "edit" \in Ops  BY DEF Ops
  <2>4. QED  BY <1>6, <2>1, <2>2, <2>3, NoneOfThese, CallType DEF Saved, TypeOK
<1>7. ASSUME NEW u \in Users, Deleted(u)
      PROVE  screens' \in [Users -> Screen] /\ calls' \in [Users -> [Ops -> Call]]
  <2>1. calls' = [Unmounted(u) EXCEPT ![u]["delete"] = NoCall]  BY <1>7 DEF Deleted
  <2>2. calls' \in [Users -> [Ops -> Call]]  BY <2>1, NoneOfThese, UnmountedType
  <2>3. QED  BY <1>7, <2>2, NoneOfThese DEF Deleted, TypeOK
<1>8. QED
  <2>1. ASSUME NEW u \in Users, NEW op \in Ops, Admit(u, op) \/ ReadRow(u, op) \/ Fail(u, op)
        PROVE  UNCHANGED <<member, rows, log, screens, leaving, repairs, past, spent>>
    BY <2>1 DEF Admit, ReadRow, Fail
  <2>2. ASSUME NEW u \in Users, Commit(u) \/ DeleteRow(u)
        PROVE  UNCHANGED <<member, screens, leaving, repairs, spent>> /\ (DeleteRow(u) => UNCHANGED past)
    BY <2>2 DEF Commit, DeleteRow
  <2>3. ASSUME NEW u \in Users, Saved(u) \/ Deleted(u)
        PROVE  UNCHANGED <<member, rows, log, repairs, past, spent>> /\ (Deleted(u) => UNCHANGED leaving)
    BY <2>3 DEF Saved, Deleted
  <2>4. QED  BY <1>1, <1>2, <1>3, <1>4, <1>5, <1>6, <1>7, <2>1, <2>2, <2>3 DEF SomeCall, TypeOK

LEMMA TypeNext == Inv /\ [Next]_vars => TypeOK'
<1> SUFFICES ASSUME Inv, [Next]_vars PROVE TypeOK'
  OBVIOUS
<1>1. CASE UNCHANGED vars  BY <1>1 DEF vars, Inv, TypeOK
<1>2. CASE Next
  <2>1. concerned' \subseteq Users \X Ids
    BY <1>2 DEF Next, Remembered, Concerned, Inv, TypeOK
  <2>2. CASE SomeWorld  BY <2>1, <2>2, WorldType DEF Inv, TypeOK, Past
  <2>3. CASE SomeScreen  BY <2>1, <2>3, ScreenType DEF Inv, TypeOK
  <2>4. CASE SomeCall  BY <2>1, <2>4, CallStepType DEF Inv, TypeOK, Past
  <2>5. QED  BY <1>2, <2>2, <2>3, <2>4 DEF Next
<1>3. QED  BY <1>1, <1>2

-----------------------------------------------------------------------------
(* What a step may do to a row, to a membership, to a request. *)

\* A Transaction keeps its Business for life, and whatever writes a row, or reads one for
\* a repair, is of that Business.
LEMMA RowsKept ==
    ASSUME Inv, [Next]_vars, NEW i \in Ids
    PROVE  /\ i \in Arrived => i \in Arrived' /\ past'.home[i] = past.home[i]
           /\ rows'[i] # None => rows'[i].biz = past'.home[i]
           /\ \A r \in repairs' : r.id = i => r.seen.biz = past'.home[i]
<1> DEFINE Kept == /\ i \in Arrived => i \in Arrived' /\ past'.home[i] = past.home[i]
                   /\ rows'[i] # None => rows'[i].biz = past'.home[i]
                   /\ \A r \in repairs' : r.id = i => r.seen.biz = past'.home[i]
<1>1. /\ rows \in [Ids -> Row \cup {None}] /\ past \in Past /\ repairs \subseteq Repair
      /\ rows[i] # None => rows[i].biz = past.home[i]
      /\ \A r \in repairs : r.seen.biz = past.home[r.id]
  BY DEF Inv, TypeOK, Homes, Past
<1>2. ASSUME past'.home = past.home, rows'[i] # None => rows'[i].biz = past.home[i],
             repairs' \subseteq repairs
      PROVE  Kept
  BY <1>1, <1>2 DEF Arrived
<1>3. ASSUME NEW j \in Ids, NEW u \in Users, NEW form \in Readings, Arrive(j, u, form) PROVE Kept
  <2>1. /\ past' = [past EXCEPT !.home = [past.home EXCEPT ![j] = member[u].biz]]
        /\ past.home[j] = None /\ UNCHANGED repairs
    BY <1>3 DEF Arrive
  <2>2. past'.home = [past.home EXCEPT ![j] = member[u].biz]  BY <1>1, <2>1 DEF Past
  <2>3. CASE i # j
    <3>1. rows'[i] = rows[i] /\ past'.home[i] = past.home[i]  BY <1>1, <1>3, <2>2, <2>3 DEF Arrive, Past
    <3>2. QED  BY <1>1, <2>1, <3>1 DEF Arrived
  <2>4. CASE i = j
    <3>1. rows'[i].biz = member[u].biz /\ past'.home[i] = member[u].biz
      BY <1>1, <1>3, <2>2, <2>4 DEF Arrive, Past
    <3>2. \A r \in repairs : r.id # i
      <4> SUFFICES ASSUME NEW r \in repairs, r.id = i PROVE FALSE
        OBVIOUS
      <4>1. r.seen \in Row  BY <1>1 DEF Repair
      <4>2. r.seen.biz \in Businesses /\ r.seen.biz = None  BY <1>1, <2>1, <2>4, <4>1 DEF Row
      <4>3. QED  BY <4>2, NoneAssumption
    <3>3. i \notin Arrived  BY <2>1, <2>4 DEF Arrived
    <3>4. QED  BY <2>1, <3>1, <3>2, <3>3
  <2>5. QED  BY <2>3, <2>4
<1>4. ASSUME NEW j \in Ids, FindExisting(j) PROVE Kept
  <2>1. /\ UNCHANGED <<rows, past>> /\ rows[j] # None
        /\ repairs' = repairs \cup {[id |-> j, seen |-> rows[j]]}
    BY <1>4 DEF FindExisting
  <2>2. rows[j].biz = past.home[j]  BY <2>1 DEF Inv, Homes
  <2>3. QED  BY <1>1, <2>1, <2>2 DEF Arrived
<1>5. ASSUME NEW r \in repairs, NEW u \in Users, NEW form \in Readings, SaveRepair(r, u, form)
      PROVE  Kept
  <2>1. r.id \in Ids /\ r.seen \in Row /\ r.seen.biz = past.home[r.id]  BY <1>1 DEF Repair
  <2>2. Repaired(r.seen, u, form).biz = past.home[r.id]  BY <2>1, RepairedType
  <2>3. past'.home = past.home /\ repairs' \subseteq repairs
    BY <1>1, <1>5 DEF SaveRepair, Past
  <2>4. rows' = [rows EXCEPT ![r.id] = Repaired(r.seen, u, form)]  BY <1>5 DEF SaveRepair
  <2>5. rows'[i] # None => rows'[i].biz = past.home[i]
    <3>1. CASE i = r.id  BY <1>1, <2>2, <2>4, <3>1
    <3>2. CASE i # r.id  BY <1>1, <2>4, <3>2
    <3>3. QED  BY <3>1, <3>2
  <2>6. QED  BY <1>2, <2>3, <2>5
<1>6. ASSUME NEW u \in Users, Commit(u) PROVE Kept
  <2> DEFINE c == calls[u]["edit"]
  <2>1. /\ AfterUpdate(c) # None /\ rows' = [rows EXCEPT ![c.id] = AfterUpdate(c)]
        /\ past'.home = past.home /\ UNCHANGED repairs
    BY <1>1, <1>6 DEF Commit, Past
  <2>2. i # c.id => rows'[i] = rows[i]  BY <1>1, <2>1
  <2>3. i = c.id => rows[i] # None /\ rows'[i].biz = rows[i].biz
    BY <1>1, <2>1 DEF AfterUpdate, Row
  <2>4. QED  BY <1>1, <1>2, <2>1, <2>2, <2>3
<1>7. ASSUME NEW u \in Users, DeleteRow(u) PROVE Kept
  <2>1. UNCHANGED <<past, repairs>> /\ (rows'[i] # None => rows'[i] = rows[i])
    BY <1>1, <1>7 DEF DeleteRow
  <2>2. QED  BY <1>1, <1>2, <2>1
<1>8. ASSUME UNCHANGED <<rows, past, repairs>> PROVE Kept  BY <1>1, <1>2, <1>8
<1>9. CASE SomeWorld
  <2>1. ASSUME NEW r \in repairs, DropRepair(r) PROVE Kept  BY <1>1, <1>2, <2>1 DEF DropRepair
  <2>2. QED  BY <1>3, <1>4, <1>5, <1>8, <1>9, <2>1 DEF SomeWorld, Move
<1>10. CASE SomeScreen  BY <1>8, <1>10, ScreenType DEF Inv
<1>11. CASE SomeCall
  <2>1. ASSUME NEW u \in Users, Saved(u) \/ Deleted(u) PROVE Kept
    BY <1>8, <2>1 DEF Saved, Deleted
  <2>2. ASSUME NEW u \in Users, NEW op \in Ops, Admit(u, op) \/ ReadRow(u, op) \/ Fail(u, op)
        PROVE Kept
    BY <1>8, <2>2 DEF Admit, ReadRow, Fail
  <2>3. QED  BY <1>6, <1>7, <1>11, <2>1, <2>2 DEF SomeCall
<1>12. CASE UNCHANGED vars  BY <1>8, <1>12 DEF vars
<1>13. QED  BY <1>9, <1>10, <1>11, <1>12 DEF Next

\* The Platform Owner has no other membership, ever.
LEMMA PlatformStays ==
    ASSUME Inv, [Next]_vars, NEW u \in Users, member[u] # None, member[u].role = "platform_owner"
    PROVE  member'[u] = member[u]
<1>1. CASE SomeWorld
  <2>1. ASSUME NEW v \in Users, NEW m \in Memberships \cup {None}, Move(v, m)
        PROVE  member'[u] = member[u]
    BY <2>1 DEF Move, Inv, TypeOK
  <2>2. QED  BY <1>1, <2>1 DEF SomeWorld, Arrive, FindExisting, SaveRepair, DropRepair
<1>2. CASE SomeScreen  BY <1>2, ScreenType DEF Inv
<1>3. CASE SomeCall  BY <1>3, CallStepType DEF Inv
<1>4. CASE UNCHANGED vars  BY <1>4 DEF vars
<1>5. QED  BY <1>1, <1>2, <1>3, <1>4 DEF Next

Same(d, c) == d.pc = c.pc /\ d.id = c.id /\ d.auth = c.auth /\ d.seen = c.seen

LEMMA OneCallChanges ==
    ASSUME TypeOK, NEW u \in Users, NEW op \in Ops, NEW d, calls' = [calls EXCEPT ![u][op] = d],
           NEW v \in Users, NEW o \in Ops
    PROVE  (u = v /\ op = o /\ calls'[v][o] = d) \/ calls'[v][o] = calls[v][o]
BY DEF TypeOK

LEMMA UnmountedSame ==
    ASSUME TypeOK, NEW u \in Users, NEW v \in Users, NEW o \in Ops
    PROVE  Same(Unmounted(u)[v][o], calls[v][o])
<1>1. calls[v][o] \in Call  BY DEF TypeOK
<1>2. Same([calls[v][o] EXCEPT !.here = FALSE], calls[v][o])  BY <1>1 DEF Same, Call
<1>3. \/ Unmounted(u)[v][o] = calls[v][o]
      \/ Unmounted(u)[v][o] = [calls[v][o] EXCEPT !.here = FALSE]
  BY DEF Unmounted, TypeOK
<1>4. QED  BY <1>2, <1>3 DEF Same

\* A request stays as it is, ends, is sent from the open screen, or takes one step.
LEMMA CallSteps ==
    ASSUME Inv, [Next]_vars, NEW v \in Users, NEW o \in Ops
    PROVE  \/ Same(calls'[v][o], calls[v][o])
           \/ calls'[v][o].pc = "idle"
           \/ calls'[v][o].pc = "sent" /\ calls'[v][o].id = screens[v].id /\ screens[v].id # None
           \/ Admit(v, o) /\ calls'[v][o] = [calls[v][o] EXCEPT !.pc = "read", !.auth = member[v]]
           \/ /\ ReadRow(v, o)
              /\ calls'[v][o] = [calls[v][o] EXCEPT !.pc = "write", !.seen = rows[calls[v][o].id]]
           \/ /\ calls[v][o].pc = "write" /\ calls'[v][o].pc = "answer"
              /\ calls'[v][o].id = calls[v][o].id
<1> DEFINE Steps ==
           \/ Same(calls'[v][o], calls[v][o])
           \/ calls'[v][o].pc = "idle"
           \/ calls'[v][o].pc = "sent" /\ calls'[v][o].id = screens[v].id /\ screens[v].id # None
           \/ Admit(v, o) /\ calls'[v][o] = [calls[v][o] EXCEPT !.pc = "read", !.auth = member[v]]
           \/ /\ ReadRow(v, o)
              /\ calls'[v][o] = [calls[v][o] EXCEPT !.pc = "write", !.seen = rows[calls[v][o].id]]
           \/ /\ calls[v][o].pc = "write" /\ calls'[v][o].pc = "answer"
              /\ calls'[v][o].id = calls[v][o].id
<1>1. TypeOK /\ "edit" \in Ops /\ "delete" \in Ops /\ NoCall.pc = "idle"
  BY DEF Inv, Ops, NoCall
<1>2. ASSUME calls'[v][o] = calls[v][o] PROVE Steps  BY <1>2 DEF Same
<1>3. ASSUME NEW u \in Users, NEW op \in Ops, NEW body, Send(u, op, body) PROVE Steps
  <2> DEFINE d == [NoCall EXCEPT !.pc = "sent", !.id = screens[u].id, !.body = body,
                                 !.here = TRUE]
  <2>1. d.pc = "sent" /\ d.id = screens[u].id  BY DEF NoCall
  <2>2. calls' = [calls EXCEPT ![u][op] = d] /\ screens[u].id # None  BY <1>3 DEF Send
  <2> HIDE DEF d
  <2>3. QED  BY <1>1, <1>2, <2>1, <2>2, OneCallChanges
<1>4. ASSUME NEW u \in Users, NEW op \in Ops, Admit(u, op) PROVE Steps
  <2> DEFINE d == [calls[u][op] EXCEPT !.pc = "read", !.auth = member[u]]
  <2>1. calls' = [calls EXCEPT ![u][op] = d]  BY <1>4 DEF Admit
  <2>2. (u = v /\ op = o /\ calls'[v][o] = d) \/ calls'[v][o] = calls[v][o]
    BY <1>1, <2>1, OneCallChanges
  <2>3. QED  BY <1>2, <1>4, <2>2
<1>5. ASSUME NEW u \in Users, NEW op \in Ops, ReadRow(u, op) PROVE Steps
  <2> DEFINE d == [calls[u][op] EXCEPT !.pc = "write", !.seen = rows[calls[u][op].id]]
  <2>1. calls' = [calls EXCEPT ![u][op] = d]  BY <1>5 DEF ReadRow
  <2>2. (u = v /\ op = o /\ calls'[v][o] = d) \/ calls'[v][o] = calls[v][o]
    BY <1>1, <2>1, OneCallChanges
  <2>3. QED  BY <1>2, <1>5, <2>2
<1>6. ASSUME NEW u \in Users, NEW op \in Ops, calls[u][op].pc = "write",
             calls' = [calls EXCEPT ![u][op].pc = "answer"]
      PROVE  Steps
  <2> DEFINE d == [calls[u][op] EXCEPT !.pc = "answer"]
  <2>1. calls[u][op] \in Call  BY <1>1 DEF TypeOK
  <2>2. d.pc = "answer" /\ d.id = calls[u][op].id  BY <2>1 DEF Call
  <2>3. calls' = [calls EXCEPT ![u][op] = d]  BY <1>6
  <2> HIDE DEF d
  <2>4. QED  BY <1>1, <1>2, <1>6, <2>2, <2>3, OneCallChanges
<1>7. ASSUME NEW u \in Users, calls' = Unmounted(u) PROVE Steps
  BY <1>1, <1>7, UnmountedSame
<1>8. ASSUME NEW u \in Users, NEW op \in Ops, calls' = [calls EXCEPT ![u][op] = NoCall] PROVE Steps
  BY <1>1, <1>2, <1>8, OneCallChanges
<1>9. ASSUME NEW u \in Users, Deleted(u) PROVE Steps
  <2>1. calls' = [Unmounted(u) EXCEPT ![u]["delete"] = NoCall]  BY <1>9 DEF Deleted
  <2>2. Unmounted(u) \in [Users -> [Ops -> Call]]  BY <1>1, UnmountedType
  <2>3. calls'[v][o] = NoCall \/ calls'[v][o] = Unmounted(u)[v][o]  BY <2>1, <2>2
  <2>4. QED  BY <1>1, <2>3, UnmountedSame
<1>10. CASE SomeWorld
  <2>1. UNCHANGED calls  BY <1>1, <1>10, WorldType
  <2>2. QED  BY <1>2, <2>1
<1>11. CASE SomeScreen
  BY <1>1, <1>2, <1>3, <1>7, <1>11
  DEF SomeScreen, Load, Type, Leave, GoToList, PressSave, PressDelete
<1>12. CASE SomeCall
  BY <1>1, <1>4, <1>5, <1>6, <1>8, <1>9, <1>12 DEF SomeCall, Fail, Commit, DeleteRow, Saved
<1>13. CASE UNCHANGED vars  BY <1>2, <1>13 DEF vars
<1>14. QED  BY <1>10, <1>11, <1>12, <1>13 DEF Next

-----------------------------------------------------------------------------
(* The invariant, conjunct by conjunct. *)

LEMMA ScreenSteps ==
    ASSUME Inv, [Next]_vars, NEW v \in Users
    PROVE  screens'[v].id # None => screens'[v].id \in Arrived
<1> DEFINE Fine == screens'[v].id # None => screens'[v].id \in Arrived
<1>1. /\ screens \in [Users -> Screen] /\ Away.id = None
      /\ screens[v].id # None => screens[v].id \in Arrived
  BY DEF Inv, TypeOK, Arrivals, Away
<1>2. ASSUME screens'[v].id = screens[v].id PROVE Fine  BY <1>1, <1>2
<1>3. ASSUME NEW u \in Users, NEW i \in Ids, Load(u, i) PROVE Fine
  <2> DEFINE s == [screens[u] EXCEPT !.id = i]
  <2>1. s \in [id: {i}, form: Form, dirty: BOOLEAN, review: BOOLEAN]  BY <1>1 DEF Screen
  <2>2. Seeded(s, rows[i]).id = i  BY <2>1 DEF Seeded
  <2>3. screens' = [screens EXCEPT ![u] = Seeded(s, rows[i])] /\ i \in Arrived
    <3>1. rows[i] # None  BY <1>3 DEF Load
    <3>2. rows[i] \in Row /\ rows[i].biz = past.home[i]  BY <3>1 DEF Inv, TypeOK, Homes
    <3>3. past.home[i] # None  BY <3>2, NoneAssumption DEF Row
    <3>4. QED  BY <1>3, <3>3 DEF Load, Arrived
  <2> HIDE DEF s
  <2>4. QED  BY <1>1, <2>2, <2>3
<1>4. ASSUME NEW u \in Users, NEW f \in Fields, NEW w \in Values \cup {None}, Type(u, f, w) PROVE Fine
  BY <1>1, <1>4 DEF Type, Screen
<1>5. ASSUME NEW u \in Users, screens' = [screens EXCEPT ![u] = Away] PROVE Fine
  BY <1>1, <1>5
<1>6. ASSUME NEW u \in Users, Saved(u) PROVE Fine
  <2>1. screens' = screens \/ screens' = [screens EXCEPT ![u].dirty = FALSE]  BY <1>6 DEF Saved
  <2>2. QED  BY <1>1, <2>1 DEF Screen
<1>7. CASE SomeWorld
  <2>1. UNCHANGED screens  BY <1>7, WorldType DEF Inv
  <2>2. QED  BY <1>2, <2>1
<1>8. CASE SomeScreen
  BY <1>2, <1>3, <1>4, <1>5, <1>8
  DEF SomeScreen, Leave, GoToList, PressSave, PressDelete, Send
<1>9. CASE SomeCall
  BY <1>2, <1>5, <1>6, <1>9 DEF SomeCall, Admit, ReadRow, Fail, Commit, DeleteRow, Deleted
<1>10. CASE UNCHANGED vars  BY <1>2, <1>10 DEF vars
<1>11. QED  BY <1>7, <1>8, <1>9, <1>10 DEF Next

LEMMA HomesNext == ASSUME Inv, [Next]_vars PROVE Homes'
<1>1. \A r \in repairs' : r.id \in Ids
  BY TypeNext DEF TypeOK, Repair
<1>2. QED  BY <1>1, RowsKept DEF Homes

LEMMA ArrivalsNext == ASSUME Inv, [Next]_vars PROVE Arrivals'
<1>1. Arrived \subseteq Ids  BY DEF Arrived
<1>2. \A u \in Users : screens'[u].id # None => screens'[u].id \in Arrived'
  <2> SUFFICES ASSUME NEW u \in Users, screens'[u].id # None PROVE screens'[u].id \in Arrived'
    OBVIOUS
  <2>1. screens'[u].id \in Arrived  BY ScreenSteps
  <2>2. screens'[u].id \in Ids  BY <1>1, <2>1
  <2>3. QED  BY <2>1, <2>2, RowsKept
<1>3. ASSUME NEW u \in Users, NEW op \in Ops, calls'[u][op].pc # "idle"
      PROVE  calls'[u][op].id \in Arrived'
  <2>1. calls[u][op] \in Call /\ (calls[u][op].pc # "idle" => calls[u][op].id \in Arrived)
    BY DEF Inv, TypeOK, Arrivals
  <2>2. calls'[u][op].id \in Arrived
    <3>1. CASE Same(calls'[u][op], calls[u][op])  BY <1>3, <2>1, <3>1 DEF Same
    <3>2. CASE calls'[u][op].id = screens[u].id /\ screens[u].id # None
      BY <3>2 DEF Inv, Arrivals
    <3>3. CASE Admit(u, op) /\ calls'[u][op] = [calls[u][op] EXCEPT !.pc = "read", !.auth = member[u]]
      BY <2>1, <3>3 DEF Admit, Call
    <3>4. CASE /\ ReadRow(u, op)
               /\ calls'[u][op] = [calls[u][op] EXCEPT !.pc = "write", !.seen = rows[calls[u][op].id]]
      BY <2>1, <3>4 DEF ReadRow, Call
    <3>5. CASE calls[u][op].pc = "write" /\ calls'[u][op].id = calls[u][op].id
      BY <2>1, <3>5
    <3>6. QED  BY <1>3, <3>1, <3>2, <3>3, <3>4, <3>5, CallSteps
  <2>3. calls'[u][op].id \in Ids  BY <1>1, <2>2
  <2>4. QED  BY <2>2, <2>3, RowsKept
<1>4. QED  BY <1>2, <1>3 DEF Arrivals

LEMMA HasReadNext == ASSUME Inv, [Next]_vars PROVE HasRead'
<1> SUFFICES ASSUME NEW u \in Users, NEW op \in Ops, calls'[u][op].pc = "write"
             PROVE  calls'[u][op].seen \in Row
  BY DEF HasRead
<1>1. calls[u][op] \in Call  BY DEF Inv, TypeOK
<1>2. CASE Same(calls'[u][op], calls[u][op])  BY <1>2 DEF Same, Inv, HasRead
<1>3. CASE Admit(u, op) /\ calls'[u][op] = [calls[u][op] EXCEPT !.pc = "read", !.auth = member[u]]
  BY <1>1, <1>3 DEF Call
<1>4. CASE /\ ReadRow(u, op)
           /\ calls'[u][op] = [calls[u][op] EXCEPT !.pc = "write", !.seen = rows[calls[u][op].id]]
  <2>1. calls[u][op].id \in Ids /\ rows[calls[u][op].id] # None
    BY <1>4 DEF ReadRow, Inv, Arrivals, Arrived, TypeOK
  <2>2. QED  BY <1>1, <1>4, <2>1 DEF Call, Inv, TypeOK
<1>5. QED  BY <1>2, <1>3, <1>4, CallSteps

\* What is on record stays there as long as a request of that person runs.
LEMMA RecordKept ==
    ASSUME Inv, [Next]_vars, NEW u \in Users, NEW i, <<u, i>> \in concerned,
           NEW op \in Ops, calls'[u][op].pc # "idle"
    PROVE  <<u, i>> \in concerned'
<1>1. CASE Next
  <2>1. concerned' = Remembered  BY <1>1 DEF Next
  <2>2. QED  BY <2>1 DEF Remembered
<1>2. CASE UNCHANGED vars  BY <1>2 DEF vars
<1>3. QED  BY <1>1, <1>2

LEMMA OnRecordNext == ASSUME Inv, [Next]_vars PROVE OnRecord'
<1>1. CASE Next
  <2>1. concerned' = Remembered  BY <1>1 DEF Next
  <2>2. QED  BY <2>1 DEF Remembered, OnRecord
<1>2. CASE UNCHANGED vars  BY <1>2 DEF vars, Inv, OnRecord, Concerned
<1>3. QED  BY <1>1, <1>2

LEMMA ConcernedNow ==
    ASSUME Inv, NEW u \in Users, NEW op \in Ops, calls[u][op].pc # "idle",
           NEW i \in Ids,
           \/ rows[i] # None /\ rows[i].user = u
           \/ member[u] # None /\ member[u].role \in {"manager", "owner"} /\ member[u].biz = past.home[i]
           \/ member[u] # None /\ member[u].role = "platform_owner"
    PROVE  <<u, i>> \in concerned
<1>1. <<u, i>> \in Concerned  BY DEF Concerned
<1>2. QED  BY <1>1 DEF Inv, OnRecord

LEMMA AccountedNext == ASSUME Inv, [Next]_vars PROVE Accounted'
<1> SUFFICES ASSUME NEW u \in Users, NEW op \in Ops
             PROVE  LET c == calls'[u][op] IN
                    /\ c.pc = "read" /\ c.auth.role = "platform_owner" =>
                         member'[u] # None /\ member'[u].role = "platform_owner"
                    /\ c.pc = "read" /\ c.auth.role \in {"manager", "owner"} =>
                         (past'.home[c.id] = c.auth.biz => <<u, c.id>> \in concerned')
                    /\ c.pc = "write" => <<u, c.id>> \in concerned'
  BY DEF Accounted
<1> DEFINE c == calls[u][op]
           d == calls'[u][op]
<1>1. c \in Call /\ (c.pc # "idle" => c.id \in Arrived) /\ Arrived \subseteq Ids
  BY DEF Inv, TypeOK, Arrivals, Arrived
<1>2. CASE Same(d, c)
  <2>1. c.pc = "read" /\ c.auth.role = "platform_owner" =>
          member'[u] # None /\ member'[u].role = "platform_owner"
    BY PlatformStays DEF Inv, Accounted
  <2>2. ASSUME c.pc = "read", c.auth.role \in {"manager", "owner"},
               past'.home[c.id] = c.auth.biz
        PROVE  <<u, c.id>> \in concerned'
    <3>1. past.home[c.id] = c.auth.biz  BY <1>1, <2>2, RowsKept
    <3>2. <<u, c.id>> \in concerned  BY <2>2, <3>1 DEF Inv, Accounted
    <3>3. d.pc # "idle"  BY <1>2, <2>2 DEF Same
    <3>4. QED  BY <3>2, <3>3, RecordKept
  <2>3. ASSUME c.pc = "write" PROVE <<u, c.id>> \in concerned'
    <3>1. <<u, c.id>> \in concerned /\ d.pc # "idle"  BY <1>2, <2>3 DEF Same, Inv, Accounted
    <3>2. QED  BY <3>1, RecordKept
  <2>4. QED  BY <1>2, <2>1, <2>2, <2>3 DEF Same
\* At the guard: what the person manages now is on record now.
<1>3. CASE Admit(u, op) /\ d = [c EXCEPT !.pc = "read", !.auth = member[u]]
  <2>1. /\ d.pc = "read" /\ d.id = c.id /\ d.auth = member[u] /\ c.pc = "sent" /\ member[u] # None
        /\ UNCHANGED <<member, past>>
    <3>1. c.pc = "sent" /\ member[u] # None /\ UNCHANGED <<member, past>>  BY <1>3 DEF Admit
    <3> HIDE DEF c, d
    <3>2. d.pc = "read" /\ d.id = c.id /\ d.auth = member[u]  BY <1>1, <1>3 DEF Call
    <3>3. QED  BY <3>1, <3>2
  <2>2. ASSUME member[u].role \in {"manager", "owner"}, past.home[c.id] = member[u].biz
        PROVE  <<u, c.id>> \in concerned'
    <3>1. <<u, c.id>> \in concerned  BY <1>1, <2>1, <2>2, ConcernedNow
    <3>2. QED  BY <2>1, <3>1, RecordKept
  <2>3. QED  BY <2>1, <2>2
\* At the access check: whoever passes is concerned, or was at the guard.
<1>4. CASE ReadRow(u, op) /\ d = [c EXCEPT !.pc = "write", !.seen = rows[c.id]]
  <2>1. /\ d.pc = "write" /\ d.id = c.id /\ c.pc = "read" /\ c.id \in Ids /\ rows[c.id] # None
        /\ MayWrite(u, c.auth, rows[c.id])
    <3>1. c.pc = "read" /\ rows[c.id] # None /\ MayWrite(u, c.auth, rows[c.id])  BY <1>4 DEF ReadRow
    <3> HIDE DEF c, d
    <3>2. d.pc = "write" /\ d.id = c.id  BY <1>1, <1>4 DEF Call
    <3>3. QED  BY <1>1, <3>1, <3>2
  <2>2. CASE c.auth.role = "platform_owner"
    <3>1. member[u] # None /\ member[u].role = "platform_owner"  BY <2>1, <2>2 DEF Inv, Accounted
    <3>2. <<u, c.id>> \in concerned  BY <2>1, <3>1, ConcernedNow
    <3>3. QED  BY <2>1, <3>2, RecordKept
  <2>3. CASE rows[c.id].user = u
    <3>1. <<u, c.id>> \in concerned  BY <2>1, <2>3, ConcernedNow
    <3>2. QED  BY <2>1, <3>1, RecordKept
  <2>4. CASE c.auth.role \in {"manager", "owner"} /\ c.auth.biz = rows[c.id].biz
    <3>1. past.home[c.id] = c.auth.biz  BY <2>1, <2>4 DEF Inv, Homes
    <3>2. <<u, c.id>> \in concerned  BY <2>1, <2>4, <3>1 DEF Inv, Accounted
    <3>3. QED  BY <2>1, <3>2, RecordKept
  <2>5. QED  BY <2>1, <2>2, <2>3, <2>4 DEF MayWrite
<1>5. QED  BY <1>2, <1>3, <1>4, CallSteps

-----------------------------------------------------------------------------
(* The EditLog. *)

\* An entry that starts where the chain ends makes a longer chain.
LEMMA ChainsAppend ==
    ASSUME NEW entries \in Seq(Entry), Chains(entries), NEW e \in Entry,
           entries # <<>> => e.old = entries[Len(entries)].new
    PROVE  /\ Append(entries, e) # <<>> /\ Chains(Append(entries, e))
           /\ Append(entries, e)[Len(Append(entries, e))] = e
<1> DEFINE longer == Append(entries, e)
<1>1. Len(longer) = Len(entries) + 1 /\ longer[Len(longer)] = e /\ Len(entries) \in Nat  OBVIOUS
<1>2. \A n \in 1 .. Len(entries) : longer[n] = entries[n]  OBVIOUS
<1>3. ASSUME NEW n \in 1 .. Len(longer) - 1 PROVE longer[n + 1].old = longer[n].new
  <2>1. n \in 1 .. Len(entries)  BY <1>1
  <2>2. CASE n < Len(entries)
    <3>1. n \in 1 .. Len(entries) - 1 /\ n + 1 \in 1 .. Len(entries)  BY <1>1, <2>1, <2>2
    <3>2. longer[n + 1] = entries[n + 1] /\ longer[n] = entries[n]  BY <1>2, <2>1, <3>1
    <3>3. entries[n + 1].old = entries[n].new  BY <3>1 DEF Chains
    <3>4. QED  BY <3>2, <3>3
  <2>3. CASE n = Len(entries)
    <3>1. entries # <<>>  BY <2>1, <2>3
    <3>2. longer[n + 1] = e /\ longer[n] = entries[n]  BY <1>1, <1>2, <2>1, <2>3
    <3>3. QED  BY <2>3, <3>1, <3>2
  <2>4. QED  BY <1>1, <2>1, <2>2, <2>3
<1>4. longer # <<>>  BY <1>1
<1> HIDE DEF longer
<1>5. Chains(longer)  BY <1>3 DEF Chains
<1>6. QED  BY <1>1, <1>4, <1>5 DEF longer

Explained(i, f) ==
    i \notin past.crossed /\ log[i][f] # <<>> =>
        /\ Chains(log[i][f])
        /\ rows[i] # None /\ log[i][f][Len(log[i][f])].new = rows[i].form[f]

\* A save of which nothing crossed writes over the very form its entries start from.
LEMMA CommitExplains ==
    ASSUME Inv, NEW u \in Users, Commit(u), NEW i \in Ids, NEW f \in Fields
    PROVE  Explained(i, f)' /\ (rows'[i] = None => log'[i] = NoLog)
<1> DEFINE c == calls[u]["edit"]
<1>1. c \in Call /\ c.pc = "write" /\ c.id \in Ids /\ c.seen \in Row
  BY DEF Commit, Ops, Inv, TypeOK, HasRead, Arrivals, Arrived
<1>2. c.body \in Form /\ c.seen.form \in Form  BY <1>1 DEF Call, Row
<1>3. /\ AfterUpdate(c) # None /\ rows' = [rows EXCEPT ![c.id] = AfterUpdate(c)]
      /\ past' = [past EXCEPT !.crossed = IF rows[c.id] # None /\ rows[c.id].form = c.seen.form
                                            THEN past.crossed ELSE past.crossed \cup {c.id}]
  BY DEF Commit
<1>4. log' = [log EXCEPT ![c.id] = [g \in Fields |->
                IF Differs(c.seen, c.body, g) THEN Append(log[c.id][g], EntryFor(u, c, g))
                ELSE log[c.id][g]]]
  BY DEF Commit
<1>5. /\ rows \in [Ids -> Row \cup {None}] /\ log \in [Ids -> [Fields -> Seq(Entry)]]
      /\ past \in Past
      /\ Explained(i, f) /\ (rows[i] = None => log[i] = NoLog)
  BY DEF Inv, TypeOK, LogExplainsRow, LogWithRow, Explained, Past
<1>6. past.crossed \subseteq past'.crossed  BY <1>3, <1>5 DEF Past
<1>7. CASE i # c.id
  <2>1. rows'[i] = rows[i] /\ log'[i] = log[i]  BY <1>3, <1>4, <1>5, <1>7
  <2>2. QED  BY <1>5, <1>6, <2>1 DEF Explained
<1>8. CASE i = c.id
  <2>1. rows[i] # None /\ rows'[i] = [rows[i] EXCEPT !.form = c.body] /\ rows'[i] # None
    BY <1>1, <1>3, <1>5, <1>8 DEF AfterUpdate
  <2>2. rows'[i].form = c.body  BY <1>5, <2>1 DEF Row
  <2>3. log'[i][f] = IF Differs(c.seen, c.body, f) THEN Append(log[i][f], EntryFor(u, c, f))
                     ELSE log[i][f]
    BY <1>4, <1>5, <1>8
  <2>4. SUFFICES ASSUME i \notin past'.crossed, log'[i][f] # <<>>
                 PROVE  Chains(log'[i][f]) /\ log'[i][f][Len(log'[i][f])].new = c.body[f]
    BY <2>1, <2>2 DEF Explained
  <2>5. i \notin past.crossed  BY <1>6, <2>4
  <2>6. rows[i].form = c.seen.form  BY <1>3, <1>5, <1>8, <2>4
  <2> DEFINE entries == log[i][f]
             e == EntryFor(u, c, f)
  <2>7. /\ entries \in Seq(Entry) /\ e \in Entry /\ e.old = c.seen.form[f] /\ e.new = c.body[f]
    BY <1>2, <1>5 DEF EntryFor, Entry, Form
  <2>8. entries # <<>> => Chains(entries) /\ entries[Len(entries)].new = c.seen.form[f]
    BY <1>5, <2>5, <2>6 DEF Explained
  <2>9. Chains(entries)
    <3>1. CASE entries = <<>>
      <4>1. Len(entries) = 0  BY <3>1
      <4>2. QED  BY <4>1 DEF Chains
    <3>2. QED  BY <2>8, <3>1
  <2>10. CASE Differs(c.seen, c.body, f)
    <3>1. log'[i][f] = Append(entries, e)  BY <2>3, <2>10
    <3> HIDE DEF entries, e
    <3>2. QED  BY <2>7, <2>8, <2>9, <3>1, ChainsAppend
  <2>11. CASE ~Differs(c.seen, c.body, f)
    BY <2>3, <2>4, <2>8, <2>11 DEF Differs
  <2>12. QED  BY <2>10, <2>11
<1>9. QED  BY <1>7, <1>8

LEMMA LogNext ==
    ASSUME Inv, [Next]_vars, NEW i \in Ids, NEW f \in Fields
    PROVE  Explained(i, f)' /\ (rows'[i] = None => log'[i] = NoLog)
<1> DEFINE Fine == Explained(i, f)' /\ (rows'[i] = None => log'[i] = NoLog)
<1>1. /\ rows \in [Ids -> Row \cup {None}] /\ log \in [Ids -> [Fields -> Seq(Entry)]]
      /\ past \in Past
      /\ Explained(i, f) /\ (rows[i] = None => log[i] = NoLog)
      /\ repairs \subseteq Repair
  BY DEF Inv, TypeOK, LogExplainsRow, LogWithRow, Explained, Past
<1>2. ASSUME UNCHANGED <<rows, log, past>> PROVE Fine  BY <1>1, <1>2 DEF Explained
<1>3. NoLog[f] = <<>>  BY DEF NoLog
<1>4. ASSUME NEW j \in Ids, NEW u \in Users, NEW form \in Readings, Arrive(j, u, form) PROVE Fine
  <2>1. /\ past'.crossed = past.crossed /\ UNCHANGED log /\ past.home[j] = None
        /\ i # j => rows'[i] = rows[i]
    BY <1>1, <1>4 DEF Arrive, Past
  <2>2. i = j => log[i] = NoLog
    <3>1. rows[j] # None => rows[j] \in Row /\ rows[j].biz = None  BY <2>1 DEF Inv, Homes, TypeOK
    <3>2. rows[j] = None  BY <3>1, NoneAssumption DEF Row
    <3>3. QED  BY <1>1, <3>2
  <2>3. QED  BY <1>1, <1>3, <2>1, <2>2 DEF Explained
<1>5. ASSUME NEW r \in repairs, NEW u \in Users, NEW form \in Readings, SaveRepair(r, u, form)
      PROVE  Fine
  <2>1. r.id \in Ids /\ r.seen \in Row  BY <1>1 DEF Repair
  <2>2. /\ past'.crossed = past.crossed \cup {r.id} /\ UNCHANGED log
        /\ i # r.id => rows'[i] = rows[i]
    BY <1>1, <1>5 DEF SaveRepair, Past
  <2>3. i = r.id => rows'[i] # None
    <3>1. rows' = [rows EXCEPT ![r.id] = Repaired(r.seen, u, form)]  BY <1>5 DEF SaveRepair
    <3>2. Repaired(r.seen, u, form) \in Row  BY <2>1, RepairedType
    <3>3. QED  BY <1>1, <3>1, <3>2, RowAssumption
  <2>4. QED  BY <1>1, <2>2, <2>3 DEF Explained
<1>6. ASSUME NEW u \in Users, Commit(u) PROVE Fine  BY <1>6, CommitExplains
<1>7. ASSUME NEW u \in Users, DeleteRow(u) PROVE Fine
  <2> DEFINE k == calls[u]["delete"].id
  <2>1. /\ UNCHANGED past /\ (i # k => rows'[i] = rows[i] /\ log'[i] = log[i])
        /\ i = k => log'[i] = NoLog
    BY <1>1, <1>7 DEF DeleteRow
  <2>2. QED  BY <1>1, <1>3, <2>1 DEF Explained
<1>8. CASE SomeWorld  BY <1>2, <1>4, <1>5, <1>8 DEF SomeWorld, FindExisting, DropRepair, Move
<1>9. CASE SomeScreen  BY <1>2, <1>9, ScreenType DEF Inv
<1>10. CASE SomeCall
  BY <1>2, <1>6, <1>7, <1>10 DEF SomeCall, Admit, ReadRow, Fail, Saved, Deleted
<1>11. CASE UNCHANGED vars  BY <1>2, <1>11 DEF vars
<1>12. QED  BY <1>8, <1>9, <1>10, <1>11 DEF Next

-----------------------------------------------------------------------------
(* The invariant, and what follows from it. *)

LEMMA InitInv == Init => Inv
<1> SUFFICES ASSUME Init PROVE Inv
  OBVIOUS
<1>1. TypeOK  BY NoneOfThese, BoundsAssumption DEF Init, TypeOK, Kinds
<1>2. Homes /\ Arrivals  BY DEF Init, Homes, Arrivals, Away, NoCall
<1>3. OnRecord  BY DEF Init, OnRecord, NoCall, Concerned
<1>4. Accounted /\ HasRead  BY DEF Init, Accounted, HasRead, NoCall
<1>5. LogWithRow /\ LogExplainsRow  BY DEF Init, LogWithRow, LogExplainsRow, NoLog
<1>6. QED  BY <1>1, <1>2, <1>3, <1>4, <1>5 DEF Inv

LEMMA NextInv == Inv /\ [Next]_vars => Inv'
<1> SUFFICES ASSUME Inv, [Next]_vars PROVE Inv'
  OBVIOUS
<1>1. TypeOK'  BY TypeNext
<1>2. Homes' /\ Arrivals' /\ OnRecord' /\ Accounted' /\ HasRead'
  BY HomesNext, ArrivalsNext, OnRecordNext, AccountedNext, HasReadNext
<1>3. \A i \in Ids, f \in Fields : Explained(i, f)'  BY LogNext
<1>4. LogExplainsRow'  BY <1>3 DEF Explained, LogExplainsRow
<1>5. LogWithRow'
  <2> SUFFICES ASSUME NEW i \in Ids, rows'[i] = None PROVE log'[i] = NoLog
    BY DEF LogWithRow
  <2>1. CASE Fields # {}  BY <2>1, LogNext
  <2>2. CASE Fields = {}  BY <1>1, <2>2 DEF TypeOK, NoLog
  <2>3. QED  BY <2>1, <2>2
<1>6. QED  BY <1>1, <1>2, <1>4, <1>5 DEF Inv

\* The invariant the theorems below rest on: a request carries, from the guard on, what
\* entitles its person to the write, and rows keep their Business for life.
THEOREM Inductive == Spec => []Inv
<1>1. QED  BY InitInv, NextInv, PTL DEF Spec

\* Type correctness of the edit screens, the requests, the rows and the EditLog.
THEOREM TypeCorrect == Spec => []TypeOK
<1>1. Inv => TypeOK  BY DEF Inv
<1>2. QED  BY <1>1, Inductive, PTL

\* The EditLog of a Transaction no other write crossed chains and ends in what its row
\* holds: update() writes the entries and the columns in one database transaction.
THEOREM LogExplained == Spec => []LogExplainsRow
<1>1. Inv => LogExplainsRow  BY DEF Inv
<1>2. QED  BY <1>1, Inductive, PTL

\* update() and remove() write only to a Transaction that was its person's to look after
\* at the guard or at the access check, however much time passes until the write.
THEOREM WritersWereConcerned == Spec => WritersConcerned
<1>1. ASSUME Inv, NEW u \in Users, NEW op \in Ops, calls[u][op].pc = "write"
      PROVE  <<u, calls[u][op].id>> \in concerned
  BY <1>1 DEF Inv, Accounted
<1>2. Inv /\ [Next]_vars =>
        [\A u \in Users, op \in Ops :
           calls[u][op].pc = "write" /\ calls'[u][op].pc = "answer" =>
              <<u, calls[u][op].id>> \in concerned]_vars
  BY <1>1
<1>3. QED  BY <1>2, Inductive, PTL DEF Spec, WritersConcerned

\* What a step leaves of a deleted Transaction that no redelivery has read.
LEMMA GoneForGood ==
    ASSUME Inv, [Next]_vars, NEW i \in Ids, past.home[i] # None, rows[i] = None, ~BeingRepaired(i)
    PROVE  rows'[i] = None /\ ~BeingRepaired(i)'
<1> DEFINE Gone == rows'[i] = None /\ ~BeingRepaired(i)'
<1>1. rows \in [Ids -> Row \cup {None}] /\ \A r \in repairs : r.id # i
  BY DEF Inv, TypeOK, BeingRepaired
<1>2. ASSUME rows'[i] = None, repairs' \subseteq repairs PROVE Gone
  BY <1>1, <1>2 DEF BeingRepaired
<1>3. ASSUME NEW j \in Ids, NEW u \in Users, NEW form \in Readings, Arrive(j, u, form) PROVE Gone
  <2>1. i # j /\ UNCHANGED repairs  BY <1>3 DEF Arrive
  <2>2. rows'[i] = rows[i]  BY <1>1, <1>3, <2>1 DEF Arrive
  <2>3. QED  BY <1>2, <2>1, <2>2
<1>4. ASSUME NEW j \in Ids, FindExisting(j) PROVE Gone
  <2>1. j # i /\ UNCHANGED rows /\ repairs' = repairs \cup {[id |-> j, seen |-> rows[j]]}
    BY <1>4 DEF FindExisting
  <2>2. QED  BY <1>1, <2>1 DEF BeingRepaired
<1>5. ASSUME NEW r \in repairs, NEW u \in Users, NEW form \in Readings, SaveRepair(r, u, form)
      PROVE  Gone
  <2>1. r.id # i /\ repairs' \subseteq repairs  BY <1>1, <1>5 DEF SaveRepair
  <2>2. rows'[i] = rows[i]  BY <1>1, <1>5, <2>1 DEF SaveRepair
  <2>3. QED  BY <1>2, <2>1, <2>2
<1>6. ASSUME NEW u \in Users, Commit(u) PROVE Gone
  <2>1. UNCHANGED repairs /\ rows' = [rows EXCEPT ![calls[u]["edit"].id] = AfterUpdate(calls[u]["edit"])]
        /\ AfterUpdate(calls[u]["edit"]) # None
    BY <1>6 DEF Commit
  <2>2. calls[u]["edit"].id # i  BY <2>1 DEF AfterUpdate
  <2>3. rows'[i] = rows[i]  BY <1>1, <2>1, <2>2
  <2>4. QED  BY <1>2, <2>1, <2>3
<1>7. ASSUME NEW u \in Users, DeleteRow(u) PROVE Gone
  BY <1>1, <1>2, <1>7 DEF DeleteRow
<1>8. ASSUME UNCHANGED <<rows, repairs>> PROVE Gone  BY <1>2, <1>8
<1>9. CASE SomeWorld
  <2>1. ASSUME NEW r \in repairs, DropRepair(r) PROVE Gone  BY <1>2, <2>1 DEF DropRepair
  <2>2. QED  BY <1>3, <1>4, <1>5, <1>8, <1>9, <2>1 DEF SomeWorld, Move
<1>10. CASE SomeScreen  BY <1>8, <1>10, ScreenType DEF Inv
<1>11. CASE SomeCall
  <2>1. ASSUME NEW u \in Users, Saved(u) \/ Deleted(u) PROVE Gone
    BY <1>8, <2>1 DEF Saved, Deleted
  <2>2. ASSUME NEW u \in Users, NEW op \in Ops, Admit(u, op) \/ ReadRow(u, op) \/ Fail(u, op)
        PROVE Gone
    BY <1>8, <2>2 DEF Admit, ReadRow, Fail
  <2>3. QED  BY <1>6, <1>7, <1>11, <2>1, <2>2 DEF SomeCall
<1>12. CASE UNCHANGED vars  BY <1>8, <1>12 DEF vars
<1>13. QED  BY <1>9, <1>10, <1>11, <1>12 DEF Next

\* A Transaction that remove() deleted is gone for good once no redelivery is left that
\* read it before: update() writes by id and undoes its entries when the row is gone, a
\* later redelivery finds no row, and one that did read it is the only way back.
THEOREM StaysDeleted == Spec => DeletedStaysDeleted
<1>1. Inv /\ [Next]_vars =>
        [\A i \in Ids : past.home[i] # None /\ rows[i] = None /\ ~BeingRepaired(i) =>
           rows'[i] = None /\ ~BeingRepaired(i)']_vars
  BY GoneForGood
<1>2. QED  BY <1>1, Inductive, PTL DEF Spec, DeletedStaysDeleted
=============================================================================
