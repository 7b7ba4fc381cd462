---------------------------- MODULE ReportsProofs ----------------------------
(***************************************************************************)
(* Proofs about Reports, for any number of senders, tenants, Transactions, *)
(* pages and any lifetime of a link.  A count, a table and a file are      *)
(* answers of different moments; what relates them is that an answer given *)
(* at the present version still describes the present rows (Counted,       *)
(* Listed, Filed), and that an answer of an earlier version no longer      *)
(* changes.                                                                *)
(***************************************************************************)
EXTENDS Reports, FiniteSetTheorems, TLAPS

\* What a query finds in the rows rs.
FoundIn(rs, m, q) == {i \in DOMAIN rs : rs[i] # None /\ InScope(m, rs[i]) /\ Matches(q, rs[i])}

\* A link is never younger than the loss of the membership it was made under.
LinkType == [query: Filters, auth: Memberships, age: Nat, lost: Nat, named: BOOLEAN]
Aged == link # None => link \in LinkType /\ link.lost <= link.age

\* What the first queries of the dashboard counted, if nothing was written since.
Counted ==
    dash.stage # 0 =>
        /\ dash.began <= version
        /\ dash.began = version =>
             \A n \in 1 .. 6 : n < dash.stage =>
               \A c \in CardsOf[n] :
                 dash.count[c] = Cardinality(FoundIn(rows, dash.auth, With(c, dash.range)))

\* The pages leafed through are the newest Transactions of the table.
Rank(found, i) == Cardinality({j \in found : j >= i})
Newest(found, n) == {i \in found : Rank(found, i) <= n}

Listed ==
    table.open =>
        /\ table.listed <= version
        /\ table.listed = version =>
             table.total = Cardinality(FoundIn(rows, table.auth, table.filters))
        /\ table.listed = version /\ table.whole =>
             /\ table.seen = Newest(FoundIn(rows, table.auth, table.filters), table.page * PageSize)
             /\ table.given = Cardinality(table.seen)

\* A table opened by a card has its dashboard beside it, with the card's count.
Opened ==
    table.card # None => dash.stage = 7 /\ table.filters = Linked(table.card, dash.range)

FileType == [auth: Memberships, filters: Filters, at: Nat, total: Nat, lost: Nat]
Filed ==
    file # None =>
        /\ file \in FileType
        /\ file.lost <= LinkTTL
        /\ file.at <= version
        /\ file.at = version => file.total = Cardinality(FoundIn(rows, file.auth, file.filters))

Inv == /\ TypeOK /\ version \in Nat
       /\ Aged /\ Counted /\ Listed /\ Opened /\ Filed
       /\ CardMatchesTable /\ FileMatchesTable

-----------------------------------------------------------------------------
(* Queries. *)

LEMMA FoundIs == ASSUME NEW m, NEW q PROVE Found(m, q) = FoundIn(rows, m, q)
BY DEF Found, FoundIn

LEMMA FoundFinite ==
    ASSUME NEW rs, NEW n \in Nat, DOMAIN rs \subseteq 1 .. n, NEW m, NEW q
    PROVE  /\ FoundIn(rs, m, q) \subseteq DOMAIN rs
           /\ FoundIn(rs, m, q) \subseteq 1 .. n
           /\ IsFiniteSet(FoundIn(rs, m, q))
           /\ Cardinality(FoundIn(rs, m, q)) \in Nat
<1>1. FoundIn(rs, m, q) \subseteq DOMAIN rs  BY DEF FoundIn
<1>2. IsFiniteSet(1 .. n)  BY FS_Interval
<1>3. IsFiniteSet(FoundIn(rs, m, q))  BY <1>1, <1>2, FS_Subset
<1>4. QED  BY <1>1, <1>3, FS_CardinalityType

LEMMA RankBounds ==
    ASSUME NEW n \in Nat, NEW found \in SUBSET (1 .. n), NEW i \in found
    PROVE  Rank(found, i) \in Nat /\ 1 <= Rank(found, i) /\ Rank(found, i) <= Cardinality(found)
<1> DEFINE above == {j \in found : j >= i}
<1>1. IsFiniteSet(1 .. n)  BY FS_Interval
<1>2. IsFiniteSet(found)  BY <1>1, FS_Subset
<1>3. above \subseteq found /\ i \in above  OBVIOUS
<1>4. IsFiniteSet(above) /\ Cardinality(above) <= Cardinality(found)  BY <1>2, <1>3, FS_Subset
<1>5. Cardinality(above) \in Nat  BY <1>4, FS_CardinalityType
<1>6. Cardinality(above) # 0  BY <1>3, <1>4, FS_EmptySet
<1>7. QED  BY <1>4, <1>5, <1>6 DEF Rank

\* A page adds the next PageSize Transactions to the newest, and none a second time.
LEMMA PageAdds ==
    ASSUME NEW n \in Nat, NEW found \in SUBSET (1 .. n), NEW p \in Nat \ {0}
    PROVE  /\ Newest(found, (p - 1) * PageSize) \cup PageOf(found, p) = Newest(found, p * PageSize)
           /\ Newest(found, (p - 1) * PageSize) \cap PageOf(found, p) = {}
           /\ IsFiniteSet(Newest(found, (p - 1) * PageSize))
           /\ IsFiniteSet(PageOf(found, p))
           /\ PageOf(found, p) \subseteq found
<1> DEFINE a == (p - 1) * PageSize
           b == p * PageSize
<1>1. PageSize \in Nat  BY BoundsAssumption
<1>2. a \in Nat /\ b \in Nat /\ b = a + PageSize
  <2>1. p - 1 \in Nat /\ p = (p - 1) + 1  OBVIOUS
  <2>2. \A x \in Nat : (x + 1) * PageSize = x * PageSize + PageSize  BY <1>1
  <2>3. \A x \in Nat : x * PageSize \in Nat  BY <1>1
  <2>4. QED  BY <1>1, <2>1, <2>2, <2>3
<1>3. PageOf(found, p) = {i \in found : Rank(found, i) \in a + 1 .. b}
  BY DEF PageOf, Rank
<1> HIDE DEF a, b
<1>4. \A i \in found : Rank(found, i) \in Nat  BY RankBounds
<1>5. IsFiniteSet(found)
  <2>1. IsFiniteSet(1 .. n)  BY FS_Interval
  <2>2. QED  BY <2>1, FS_Subset
<1>6. Newest(found, a) \subseteq found /\ PageOf(found, p) \subseteq found
  BY <1>3 DEF Newest
<1>7. IsFiniteSet(Newest(found, a)) /\ IsFiniteSet(PageOf(found, p))
  BY <1>5, <1>6, FS_Subset
<1>8. Newest(found, a) \cup PageOf(found, p) = Newest(found, b)
  <2>1. ASSUME NEW i \in found
        PROVE  Rank(found, i) <= b <=> Rank(found, i) <= a \/ Rank(found, i) \in a + 1 .. b
    <3>1. Rank(found, i) \in Nat  BY <1>4
    <3>2. QED  BY <1>1, <1>2, <3>1
  <2>2. QED  BY <1>3, <2>1 DEF Newest
<1>9. Newest(found, a) \cap PageOf(found, p) = {}
  BY <1>2, <1>3, <1>4 DEF Newest
<1>10. QED  BY <1>6, <1>7, <1>8, <1>9 DEF a, b

\* Nothing has a rank of zero: the first page starts from nothing.
LEMMA NothingBefore ==
    ASSUME NEW n \in Nat, NEW found \in SUBSET (1 .. n)
    PROVE  Newest(found, (1 - 1) * PageSize) = {}
<1>1. (1 - 1) * PageSize = 0  BY BoundsAssumption
<1>2. \A i \in found : Rank(found, i) \in Nat /\ 1 <= Rank(found, i)  BY RankBounds
<1>3. ASSUME NEW i \in found, Rank(found, i) <= 0 PROVE FALSE
  <2>1. Rank(found, i) \in Nat /\ 1 <= Rank(found, i)  BY <1>2
  <2>2. QED  BY <1>3, <2>1
<1>4. Newest(found, 0) = {}  BY <1>3 DEF Newest
<1>5. QED  BY <1>1, <1>4

-----------------------------------------------------------------------------
(* Shapes. *)

TableType(rs) ==
    [open: BOOLEAN, auth: Memberships \cup {None}, card: Cards \cup {None},
     filters: Filters, page: Nat, total: Nat, listed: Nat,
     seen: SUBSET DOMAIN rs, given: Nat, whole: BOOLEAN]

DashType == [stage: 0 .. 7, auth: Memberships \cup {None}, range: Period,
             count: [Cards -> Nat], began: Nat]

LEMMA NoFiltersType == NoFilters \in Filters
BY DEF NoFilters, Filters

LEMMA CardsType == Cards \subseteq Filters
<1>1. \A u \in Users : WaiterCard(u) \in Filters  BY NoFiltersType DEF WaiterCard, Filters
<1>2. \A b \in Banks : BankCard(b) \in Filters  BY NoFiltersType DEF BankCard, Filters
<1>3. {ReviewCard, DuplicateCard, EditedCard} \subseteq Filters
  BY NoFiltersType DEF ReviewCard, DuplicateCard, EditedCard, Filters
<1>4. \A n \in 1 .. 6 : CardsOf[n] \subseteq Filters
  BY <1>1, <1>2, <1>3, NoFiltersType DEF CardsOf
<1>5. QED  BY <1>4 DEF Cards

LEMMA WithType ==
    ASSUME NEW c \in Filters, NEW r \in Period
    PROVE  With(c, r) \in Filters /\ Linked(c, r) \in Filters
<1>1. ASSUME NEW d \in Days \cup {None}
      PROVE  {Midnight(d), LastSecond(d), LastMoment(d)} \subseteq Instants \cup {None}
  BY DEF Midnight, LastSecond, LastMoment, Instants
<1>2. r.from \in Days \cup {None} /\ r.to \in Days \cup {None}  BY DEF Period
<1>3. QED  BY <1>1, <1>2 DEF With, Linked, Filters

\* No day of a period ends before the last second of it, and no instant lies between.
LEMMA EndsOfDay ==
    ASSUME NEW d \in Days, NEW a \in Instants
    PROVE  /\ MainPart(d) # None /\ LastPart(d) # None
           /\ a <= LastPart(d) <=> a <= MainPart(d) \/ a = LastPart(d)
           /\ ~(LastPart(d) <= MainPart(d))
<1>1. MainPart(d) \in Instants /\ LastPart(d) \in Instants  BY DEF Instants
<1>2. MainPart(d) # None /\ LastPart(d) # None  BY <1>1, NoneAssumption
<1>3. d \in Nat /\ a \in Nat  BY DaysAssumption DEF Instants, MainPart, LastPart
<1>4. QED  BY <1>2, <1>3 DEF MainPart, LastPart

\* The query of a table a card has opened finds what the card counted and, in the last
\* second of its period, what the card left out.
LateIn(rs, q) == {i \in DOMAIN rs : rs[i] # None /\ q.to # None /\ rs[i].at = q.to}

LEMMA LinkedFinds ==
    ASSUME NEW rs, NEW n \in Nat, DOMAIN rs \subseteq 1 .. n,
           \A i \in DOMAIN rs : rs[i] \in Row \cup {None},
           NEW m, NEW c \in Filters, NEW r \in Period
    PROVE  Cardinality(FoundIn(rs, m, Linked(c, r)))
             = Cardinality(FoundIn(rs, m, With(c, r)))
               + Cardinality(FoundIn(rs, m, Linked(c, r)) \cap LateIn(rs, Linked(c, r)))
<1> DEFINE w == With(c, r)
           l == Linked(c, r)
           counted == FoundIn(rs, m, w)
           found == FoundIn(rs, m, l)
           late == found \cap LateIn(rs, l)
<1>1. /\ w.to = LastSecond(r.to) /\ l.to = LastMoment(r.to)
      /\ l.from = w.from /\ l.status = w.status /\ l.user = w.user /\ l.bank = w.bank
      /\ l.dup = w.dup /\ l.edited = w.edited
  <2>1. w \in Filters /\ l \in Filters  BY WithType
  <2>2. QED  BY <2>1 DEF With, Linked, Filters
<1>2. r.to \in Days \cup {None}  BY DEF Period
<1> HIDE DEF w, l
<1>3. ASSUME NEW i \in DOMAIN rs, rs[i] # None
      PROVE  /\ Matches(l, rs[i]) <=> Matches(w, rs[i]) \/ (Matches(l, rs[i]) /\ i \in LateIn(rs, l))
             /\ ~(Matches(w, rs[i]) /\ i \in LateIn(rs, l))
  <2> DEFINE row == rs[i]
  <2>1. row.at \in Instants \cup {None}  BY <1>3 DEF Row
  <2>2. InRange(l, row) <=> InRange(w, row) \/ (InRange(l, row) /\ l.to # None /\ row.at = l.to)
    <3>1. CASE r.to = None
      <4>1. l.to = None /\ w.to = None  BY <1>1, <3>1 DEF LastSecond, LastMoment
      <4>2. QED  BY <1>1, <4>1 DEF InRange
    <3>2. CASE r.to # None /\ row.at # None
      <4>1. l.to = LastPart(r.to) /\ w.to = MainPart(r.to)  BY <1>1, <3>2 DEF LastSecond, LastMoment
      <4>2. r.to \in Days /\ row.at \in Instants  BY <1>2, <2>1, <3>2
      <4>3. l.to # None /\ w.to # None /\ (row.at <= l.to <=> row.at <= w.to \/ row.at = l.to)
        BY <4>1, <4>2, EndsOfDay
      <4>4. QED  BY <1>1, <3>2, <4>3 DEF InRange
    <3>3. CASE r.to # None /\ row.at = None
      <4>1. l.to = LastPart(r.to) /\ w.to = MainPart(r.to) /\ r.to \in Days
        BY <1>1, <1>2, <3>3 DEF LastSecond, LastMoment
      <4>2. l.to # None /\ w.to # None
        <5>1. l.to \in Instants /\ w.to \in Instants  BY <4>1 DEF Instants
        <5>2. QED  BY <5>1, NoneAssumption
      <4>3. QED  BY <3>3, <4>2 DEF InRange
    <3>4. QED  BY <3>1, <3>2, <3>3
  <2>3. ~(InRange(w, row) /\ l.to # None /\ row.at = l.to)
    <3>1. CASE r.to = None  BY <1>1, <3>1 DEF LastMoment
    <3>2. CASE r.to # None
      <4>1. l.to = LastPart(r.to) /\ w.to = MainPart(r.to) /\ r.to \in Days
        BY <1>1, <1>2, <3>2 DEF LastSecond, LastMoment
      <4>2. l.to \in Instants /\ w.to \in Instants  BY <4>1 DEF Instants
      <4>3. w.to # None /\ ~(l.to <= w.to)  BY <4>1, <4>2, EndsOfDay
      <4>4. QED  BY <4>3 DEF InRange
    <3>3. QED  BY <3>1, <3>2
  <2>4. i \in LateIn(rs, l) <=> l.to # None /\ row.at = l.to  BY <1>3 DEF LateIn
  <2> HIDE DEF row
  <2>5. /\ Matches(l, row) <=> Matches(w, row) \/ (Matches(l, row) /\ i \in LateIn(rs, l))
        /\ ~(Matches(w, row) /\ i \in LateIn(rs, l))
    BY <1>1, <2>2, <2>3, <2>4 DEF Matches
  <2>6. QED  BY <2>5 DEF row
<1>4. found = counted \cup late /\ counted \cap late = {}
  <2>1. ASSUME NEW i
        PROVE  /\ i \in found <=> i \in counted \/ i \in late
               /\ ~(i \in counted /\ i \in late)
    <3>1. i \in found <=> i \in DOMAIN rs /\ rs[i] # None /\ InScope(m, rs[i]) /\ Matches(l, rs[i])
      BY DEF FoundIn
    <3>2. i \in counted <=> i \in DOMAIN rs /\ rs[i] # None /\ InScope(m, rs[i]) /\ Matches(w, rs[i])
      BY DEF FoundIn
    <3>3. i \in late <=> i \in found /\ i \in LateIn(rs, l)  OBVIOUS
    <3> HIDE DEF found, counted, late
    <3>4. QED  BY <1>3, <3>1, <3>2, <3>3
  <2> HIDE DEF found, counted, late
  <2>2. QED  BY <2>1
<1>5. IsFiniteSet(counted) /\ IsFiniteSet(found)  BY FoundFinite
<1>6. IsFiniteSet(late)  BY <1>5, FS_Subset
<1>7. Cardinality(counted) \in Nat /\ Cardinality(late) \in Nat  BY <1>5, <1>6, FS_CardinalityType
<1>8. Cardinality(counted \cap late) = 0  BY <1>4, FS_EmptySet
<1>9. Cardinality(counted \cup late)
        = Cardinality(counted) + Cardinality(late) - Cardinality(counted \cap late)
  BY <1>5, <1>6, FS_Union
<1>10. Cardinality(found) = Cardinality(counted) + Cardinality(late)
  <2> HIDE DEF found, counted, late
  <2>1. QED  BY <1>4, <1>7, <1>8, <1>9
<1>11. QED  BY <1>10 DEF w, l

LEMMA ClosedDashType == ClosedDash \in DashType
<1>1. [c \in Cards |-> 0] \in [Cards -> Nat]  OBVIOUS
<1>2. NoRange \in Period  BY DEF NoRange, Period
<1>3. QED  BY <1>1, <1>2 DEF ClosedDash, DashType

\* A dashboard asked for.
LEMMA DashBegun ==
    ASSUME NEW d \in DashType, NEW m \in Memberships, NEW r \in Period, NEW v \in Nat
    PROVE  [d EXCEPT !.stage = 1, !.auth = m, !.range = r, !.began = v] \in DashType
<1>1. 1 \in 0 .. 7  OBVIOUS
<1>2. QED  BY <1>1 DEF DashType

LEMMA ClosedTableType == ASSUME NEW rs PROVE ClosedTable \in TableType(rs)
BY NoFiltersType DEF ClosedTable, TableType

LEMMA Types ==
    TypeOK <=> /\ DOMAIN rows \subseteq 1 .. MaxRows
               /\ \A i \in DOMAIN rows : rows[i] \in Row \cup {None}
               /\ viewer \in Memberships \cup {None}
               /\ telegramIds \in [Users -> {None, "user", "telegram"}]
               /\ dash \in DashType
               /\ table \in TableType(rows)
               /\ file # None => file.filters \in Filters /\ file.total \in Nat
BY DEF TypeOK, DashType, TableType

LEMMA Bounds == PageSize \in Nat /\ LinkTTL \in Nat /\ MaxRows \in Nat
BY BoundsAssumption

LEMMA LearnTypes ==
    ASSUME TypeOK, NEW s
    PROVE  /\ FromList(s) \in [Users -> {None, "user", "telegram"}]
           /\ FromSummary(s) \in [Users -> {None, "user", "telegram"}]
BY DEF TypeOK, FromList, FromSummary

-----------------------------------------------------------------------------
(* Asking for a page. *)

\* The table as asked for: its pages before this one, its card, its dashboard.
Asked(t) ==
    /\ t \in TableType(rows)
    /\ t.page # 0
    /\ t.card # None => dash.stage = 7 /\ t.filters = Linked(t.card, dash.range)
    /\ t.whole => /\ t.seen = Newest(FoundIn(rows, viewer, t.filters), (t.page - 1) * PageSize)
                  /\ t.given = Cardinality(t.seen)

LEMMA ListType ==
    ASSUME Inv, NEW t, Asked(t), List(t)
    PROVE  TypeOK'
<1> DEFINE found == FoundIn(rows, viewer, t.filters)
           page == PageOf(found, t.page)
           seen == t.seen \cup page
           given == t.given + Cardinality(page)
           total == Cardinality(found)
<1>1. /\ t \in TableType(rows) /\ t.page \in Nat \ {0} /\ DOMAIN rows \subseteq 1 .. MaxRows
      /\ viewer \in Memberships \cup {None} /\ dash \in DashType
  BY Types DEF Inv, Asked, TableType
<1>2. found \in SUBSET (1 .. MaxRows) /\ found \subseteq DOMAIN rows /\ total \in Nat
  BY <1>1, FoundFinite, Bounds
<1>3. page \subseteq found /\ IsFiniteSet(page)  BY <1>1, <1>2, PageAdds, Bounds
<1>4. Cardinality(page) \in Nat  BY <1>3, FS_CardinalityType
<1>5. seen \in SUBSET DOMAIN rows /\ given \in Nat
  BY <1>1, <1>2, <1>3, <1>4 DEF TableType
<1>6. table' \in {[t EXCEPT !.open = TRUE, !.auth = viewer, !.total = total,
                     !.seen = seen, !.given = given, !.listed = version],
                  [t EXCEPT !.open = FALSE]}
  BY FoundIs DEF List
<1> HIDE DEF total, seen, given
<1>7. [t EXCEPT !.open = TRUE, !.auth = viewer, !.total = total,
         !.seen = seen, !.given = given, !.listed = version] \in TableType(rows)
  BY <1>1, <1>2, <1>5 DEF TableType, Inv
<1>8. [t EXCEPT !.open = FALSE] \in TableType(rows)  BY <1>1 DEF TableType
<1>9. telegramIds' \in [Users -> {None, "user", "telegram"}]
  BY LearnTypes, Types DEF List, Inv
<1>10. dash' \in DashType  BY <1>1, ClosedDashType DEF List
<1>11. rows' = rows /\ viewer' = viewer /\ file' = None  BY DEF List
<1>12. QED
  BY <1>1, <1>6, <1>7, <1>8, <1>9, <1>10, <1>11, Types
     DEF TypeOK, DashType, TableType, Inv

LEMMA ListInv ==
    ASSUME Inv, NEW t, Asked(t), List(t)
    PROVE  Inv'
<1> DEFINE found == FoundIn(rows, viewer, t.filters)
           page == PageOf(found, t.page)
<1>1. /\ t \in TableType(rows) /\ t.page \in Nat \ {0} /\ DOMAIN rows \subseteq 1 .. MaxRows
      /\ dash \in DashType /\ version \in Nat
  BY Types DEF Inv, Asked, TableType
<1>2. found \in SUBSET (1 .. MaxRows)  BY <1>1, FoundFinite, Bounds
<1>3. rows' = rows /\ version' = version /\ viewer' = viewer /\ link' = None /\ file' = None
      /\ dash' = (IF t.card = None THEN ClosedDash ELSE dash)
  BY DEF List
<1>4. TypeOK'  BY ListType
<1>5. Counted'
  <2>1. CASE dash' = dash  BY <1>3, <2>1 DEF Inv, Counted
  <2>2. CASE dash' = ClosedDash  BY <2>2 DEF Counted, ClosedDash
  <2>3. QED  BY <1>3, <2>1, <2>2
<1>6. CASE ~Resolved(t.filters)
  <2>1. table' = [t EXCEPT !.open = FALSE]  BY <1>6 DEF List
  <2>2. ~table'.open /\ table'.card = t.card /\ table'.filters = t.filters
    BY <1>1, <2>1 DEF TableType
  <2>3. Opened'  BY <1>3, <2>2 DEF Opened, Asked
  <2>4. QED
    BY <1>1, <1>3, <1>4, <1>5, <2>2, <2>3
    DEF Inv, Aged, Listed, Filed, CardMatchesTable, FileMatchesTable
<1>7. CASE Resolved(t.filters)
  <2> DEFINE seen == t.seen \cup page
             given == t.given + Cardinality(page)
             total == Cardinality(found)
  <2>1. table' = [t EXCEPT !.open = TRUE, !.auth = viewer, !.total = total,
                    !.seen = seen, !.given = given, !.listed = version]
    BY <1>7, FoundIs DEF List
  <2> HIDE DEF seen, given, total
  <2>2. /\ table'.open /\ table'.auth = viewer /\ table'.card = t.card /\ table'.total = total
        /\ table'.filters = t.filters /\ table'.page = t.page /\ table'.listed = version
        /\ table'.seen = seen /\ table'.given = given /\ table'.whole = t.whole
    BY <1>1, <2>1 DEF TableType
  <2>3. Opened'  BY <1>3, <2>2 DEF Opened, Asked
  <2>4. t.whole => seen = Newest(found, t.page * PageSize) /\ given = Cardinality(seen)
    <3> SUFFICES ASSUME t.whole PROVE seen = Newest(found, t.page * PageSize) /\ given = Cardinality(seen)
      OBVIOUS
    <3>1. t.seen = Newest(found, (t.page - 1) * PageSize) /\ t.given = Cardinality(t.seen)
      BY DEF Asked
    <3>2. /\ t.seen \cup page = Newest(found, t.page * PageSize)
          /\ t.seen \cap page = {}
          /\ IsFiniteSet(t.seen) /\ IsFiniteSet(page)
      <4> DEFINE before == Newest(found, (t.page - 1) * PageSize)
      <4>1. t.seen = before  BY <3>1
      <4> HIDE DEF found
      <4>2. /\ before \cup PageOf(found, t.page) = Newest(found, t.page * PageSize)
            /\ before \cap PageOf(found, t.page) = {}
            /\ IsFiniteSet(before) /\ IsFiniteSet(PageOf(found, t.page))
        BY <1>1, <1>2, PageAdds, Bounds
      <4> HIDE DEF before
      <4>3. QED  BY <4>1, <4>2
    <3>3. Cardinality(t.seen) \in Nat /\ Cardinality(page) \in Nat
      BY <3>2, FS_CardinalityType
    <3>4. Cardinality(t.seen \cup page)
            = Cardinality(t.seen) + Cardinality(page) - Cardinality(t.seen \cap page)
      BY <3>2, FS_Union
    <3>5. Cardinality(t.seen \cap page) = 0  BY <3>2, FS_EmptySet
    <3>6. QED  BY <3>1, <3>2, <3>3, <3>4, <3>5 DEF seen, given
  <2>5. Listed'
    BY <1>1, <1>3, <2>2, <2>4 DEF Listed, total
  <2>6. CardMatchesTable'
    <3> DEFINE late == found \cap LateIn(rows, t.filters)
    <3>0. t.card # None => dash' = dash  BY <1>3
    <3>a. Found(table.auth, table.filters)' = found /\ LeftOut(table.filters)' = LateIn(rows, t.filters)
      BY <1>3, <2>2 DEF Found, FoundIn, LeftOut, LateIn
    <3> HIDE DEF found
    <3> SUFFICES ASSUME t.card # None, dash.began = version, dash.auth = viewer
                 PROVE  total = dash.count[t.card] + Cardinality(late)
      BY <1>3, <2>2, <3>0, <3>a DEF CardMatchesTable
    <3>1. dash.stage = 7 /\ t.filters = Linked(t.card, dash.range) /\ t.card \in Cards
      BY <1>1 DEF Asked, TableType
    <3>2. PICK n \in 1 .. 6 : t.card \in CardsOf[n]  BY <3>1 DEF Cards
    <3>3. n < dash.stage  BY <3>1, <3>2
    <3>4. dash.count[t.card] = Cardinality(FoundIn(rows, dash.auth, With(t.card, dash.range)))
      BY <3>1, <3>2, <3>3 DEF Inv, Counted
    <3>5. Cardinality(FoundIn(rows, viewer, Linked(t.card, dash.range)))
            = Cardinality(FoundIn(rows, viewer, With(t.card, dash.range)))
              + Cardinality(FoundIn(rows, viewer, Linked(t.card, dash.range))
                            \cap LateIn(rows, Linked(t.card, dash.range)))
      <4>1. t.card \in Filters /\ dash.range \in Period /\ MaxRows \in Nat
        BY <1>1, <3>1, CardsType, Bounds DEF DashType
      <4>2. \A i \in DOMAIN rows : rows[i] \in Row \cup {None}  BY Types DEF Inv
      <4>3. QED  BY <1>1, <4>1, <4>2, LinkedFinds
    <3>6. QED  BY <3>1, <3>4, <3>5 DEF total, found
  <2>7. QED
    BY <1>1, <1>3, <1>4, <1>5, <2>3, <2>5, <2>6 DEF Inv, Aged, Filed, FileMatchesTable
<1>8. QED  BY <1>6, <1>7

\* A table opened anew, with whatever filters.
LEMMA AskedAnew ==
    ASSUME Inv, NEW c \in Cards \cup {None}, NEW q \in Filters,
           NEW t \in TableType(rows), t.page = 1, t.seen = {}, t.given = 0, t.card = c, t.filters = q,
           c # None => dash.stage = 7 /\ q = Linked(c, dash.range)
    PROVE  Asked(t)
<1>4. FoundIn(rows, viewer, q) \in SUBSET (1 .. MaxRows)
  BY FoundFinite, Bounds, Types DEF Inv
<1>5. Newest(FoundIn(rows, viewer, q), (1 - 1) * PageSize) = {}  BY <1>4, NothingBefore, Bounds
<1>6. Cardinality({}) = 0  BY FS_EmptySet
<1>7. QED  BY <1>5, <1>6 DEF Asked

LEMMA OpenCardInv == ASSUME Inv, NEW card \in Cards, OpenCard(card) PROVE Inv'
<1> DEFINE q == Linked(card, dash.range)
           t == [ClosedTable EXCEPT !.card = card, !.filters = q]
<1>1. dash \in DashType  BY Types DEF Inv
<1>2. q \in Filters /\ q = Linked(card, dash.range)
  BY <1>1, CardsType, WithType DEF DashType
<1>3. dash.stage = 7 /\ List(t)  BY DEF OpenCard
<1> HIDE DEF q
<1>4. /\ t \in TableType(rows) /\ t.page = 1 /\ t.seen = {} /\ t.given = 0
      /\ t.card = card /\ t.filters = q
  BY <1>2, NoFiltersType DEF ClosedTable, TableType
<1> HIDE DEF t
<1>5. Asked(t)  BY <1>2, <1>3, <1>4, AskedAnew
<1>6. QED  BY <1>3, <1>5, ListInv

LEMMA OpenTableInv == ASSUME Inv, OpenTable PROVE Inv'
<1>1. /\ ClosedTable.page = 1 /\ ClosedTable.seen = {} /\ ClosedTable.given = 0
      /\ ClosedTable.card = None /\ ClosedTable.filters = NoFilters
  BY DEF ClosedTable
<1>2. Asked(ClosedTable)  BY <1>1, AskedAnew, NoFiltersType, ClosedTableType
<1>3. QED  BY <1>2, ListInv DEF OpenTable

LEMMA ChooseUserInv == ASSUME Inv, NEW u \in Users, ChooseUser(u) PROVE Inv'
<1> DEFINE q == [table.filters EXCEPT !.user = u]
           t == [ClosedTable EXCEPT !.filters = q]
<1>1. table \in TableType(rows)  BY Types DEF Inv
<1>2. q \in Filters  BY <1>1 DEF TableType, Filters
<1>3. List(t)  BY DEF ChooseUser
<1> HIDE DEF q
<1>4. /\ t \in TableType(rows) /\ t.page = 1 /\ t.seen = {} /\ t.given = 0
      /\ t.card = None /\ t.filters = q
  BY <1>2 DEF ClosedTable, TableType
<1> HIDE DEF t
<1>5. Asked(t)  BY <1>2, <1>4, AskedAnew
<1>6. QED  BY <1>3, <1>5, ListInv

LEMMA NextPageInv == ASSUME Inv, NextPage PROVE Inv'
<1> DEFINE whole == table.whole /\ table.listed = version /\ table.auth = viewer
           p == table.page + 1
           t == [table EXCEPT !.page = p, !.card = None, !.whole = whole]
<1>1. table \in TableType(rows) /\ table.open /\ Listed  BY Types DEF Inv, NextPage
<1>2. p \in Nat /\ p # 0 /\ p - 1 = table.page /\ whole \in BOOLEAN
  BY <1>1 DEF TableType
<1>3. List(t)  BY <1>1 DEF NextPage
<1> HIDE DEF p
<1>4. /\ t \in TableType(rows) /\ t.page = p /\ t.card = None /\ t.whole = whole
      /\ t.seen = table.seen /\ t.given = table.given /\ t.filters = table.filters
  <2> HIDE DEF whole
  <2>1. QED  BY <1>1, <1>2 DEF TableType
<1>5. whole => /\ table.seen = Newest(FoundIn(rows, viewer, table.filters), table.page * PageSize)
               /\ table.given = Cardinality(table.seen)
  BY <1>1 DEF Listed
<1> HIDE DEF t, whole
<1>6. Asked(t)  BY <1>2, <1>4, <1>5 DEF Asked
<1>7. QED  BY <1>3, <1>6, ListInv

-----------------------------------------------------------------------------
(* The other steps. *)

\* Whatever is written makes every answer one of an earlier version.
LEMMA WriteInv ==
    ASSUME Inv, TypeOK', version' = version + 1,
           UNCHANGED <<dash, table, link, file>>
    PROVE  Inv'
<1>1. version \in Nat /\ dash.began \in Nat /\ table.listed \in Nat
  BY Types DEF Inv, DashType, TableType
<1>2. file # None => file.at \in Nat  BY DEF Inv, Filed, FileType
<1>3. Aged' /\ Opened' /\ FileMatchesTable'
  BY DEF Inv, Aged, Opened, FileMatchesTable
<1>8. CardMatchesTable'
  <2>1. table.card # None => dash.began <= version  BY DEF Inv, Opened, Counted
  <2>2. table.card # None => dash'.began # version'  BY <1>1, <2>1
  <2>3. QED  BY <2>2 DEF CardMatchesTable
<1>4. Counted'  BY <1>1 DEF Inv, Counted
<1>5. Listed'  BY <1>1 DEF Inv, Listed
<1>6. Filed'  BY <1>1, <1>2 DEF Inv, Filed
<1>7. QED  BY <1>1, <1>3, <1>4, <1>5, <1>6, <1>8 DEF Inv

LEMMA ArriveInv == ASSUME Inv, NEW row \in Receipts, Arrive(row) PROVE Inv'
<1> DEFINE n == Cardinality(DOMAIN rows)
<1>1. DOMAIN rows \subseteq 1 .. MaxRows /\ row \in Row
  BY Types, InstancesAssumption DEF Inv
<1>2. n \in Nat
  <2>1. IsFiniteSet(1 .. MaxRows)  BY Bounds, FS_Interval
  <2>2. IsFiniteSet(DOMAIN rows)  BY <1>1, <2>1, FS_Subset
  <2>3. QED  BY <2>2, FS_CardinalityType
<1>3. /\ n < MaxRows
      /\ rows' = [i \in DOMAIN rows \cup {n + 1} |-> IF i \in DOMAIN rows THEN rows[i] ELSE row]
  BY DEF Arrive
<1> HIDE DEF n
<1>4. DOMAIN rows' = DOMAIN rows \cup {n + 1}  BY <1>3
<1>5. n + 1 \in 1 .. MaxRows  BY <1>2, <1>3, Bounds
<1>6. \A i \in DOMAIN rows' : rows'[i] \in Row \cup {None}
  BY <1>1, <1>3, <1>4, Types DEF Inv
<1>7. table \in TableType(rows')  BY <1>4, Types DEF TableType, Inv
<1>8. TypeOK'
  BY <1>1, <1>4, <1>5, <1>6, <1>7, Types DEF Arrive, Inv, TypeOK, TableType
<1>9. QED  BY <1>8, WriteInv DEF Arrive

LEMMA ChangeInv ==
    ASSUME Inv, NEW i \in DOMAIN rows, NEW row \in Receipts \cup {None}, Change(i, row)
    PROVE  Inv'
<1>1. row \in Row \cup {None}  BY InstancesAssumption
<1>2. rows' = [rows EXCEPT ![i] = row]  BY DEF Change
<1>3. DOMAIN rows' = DOMAIN rows  BY <1>2
<1>4. \A k \in DOMAIN rows' : rows'[k] \in Row \cup {None}
  BY <1>1, <1>2, <1>3, Types DEF Inv
<1>5. TypeOK'  BY <1>3, <1>4 DEF Change, Inv, TypeOK
<1>6. QED  BY <1>5, WriteInv DEF Change

\* A step that leaves the rows, the dashboard and the table alone.
LEMMA CardKept ==
    ASSUME CardMatchesTable, UNCHANGED <<rows, version, dash, table>>
    PROVE  CardMatchesTable'
<1>1. Found(table.auth, table.filters)' = Found(table.auth, table.filters)  BY DEF Found
<1>2. LeftOut(table.filters)' = LeftOut(table.filters)  BY DEF LeftOut
<1>3. QED  BY <1>1, <1>2 DEF CardMatchesTable

\* A step that leaves the rows and the answers alone.
LEMMA AnswersKept ==
    ASSUME Inv, TypeOK', Aged', UNCHANGED <<rows, version, dash, table, file>>
    PROVE  Inv'
<1>1. CardMatchesTable'  BY CardKept DEF Inv
<1>2. QED  BY <1>1 DEF Inv, Counted, Listed, Opened, Filed, FileMatchesTable

LEMMA MoveInv == ASSUME Inv, NEW m \in Memberships \cup {None}, Move(m) PROVE Inv'
<1>1. TypeOK'  BY DEF Move, Inv, TypeOK
<1>2. Aged'  BY DEF Move, Inv, Aged
<1>3. QED  BY <1>1, <1>2, AnswersKept DEF Move

LEMMA TickInv == ASSUME Inv, Tick PROVE Inv'
<1> DEFINE lost == IF viewer = link.auth THEN 0 ELSE link.lost + 1
           age == link.age + 1
<1>1. link \in LinkType /\ link.lost <= link.age  BY DEF Tick, Inv, Aged
<1>2. lost \in Nat /\ age \in Nat /\ lost <= age  BY <1>1 DEF LinkType
<1>3. link' = [link EXCEPT !.age = age, !.lost = lost]  BY <1>1 DEF Tick, LinkType
<1> HIDE DEF lost, age
<1>4. link' \in LinkType /\ link'.lost <= link'.age  BY <1>1, <1>2, <1>3 DEF LinkType
<1>5. TypeOK'  BY DEF Tick, Inv, TypeOK
<1>6. QED  BY <1>4, <1>5, AnswersKept DEF Tick, Aged

LEMMA CreateLinkInv == ASSUME Inv, CreateLink PROVE Inv'
<1>1. table.filters \in Filters /\ viewer \in Memberships
  BY Types DEF CreateLink, IsManager, Inv, TableType
<1>2. Resolved(table.filters) \in BOOLEAN  BY DEF Resolved
<1>3. link' \in LinkType /\ link'.lost <= link'.age
  BY <1>1, <1>2 DEF CreateLink, LinkType
<1>4. TypeOK'  BY DEF CreateLink, Inv, TypeOK
<1>5. QED  BY <1>3, <1>4, AnswersKept DEF CreateLink, Aged

LEMMA SummariseInv == ASSUME Inv, NEW range \in Ranges, Summarise(range) PROVE Inv'
<1>1. range \in Period /\ viewer \in Memberships /\ version \in Nat
  BY Types, InstancesAssumption DEF Summarise, IsManager, Inv
<1>2. dash' = [ClosedDash EXCEPT !.stage = 1, !.auth = viewer, !.range = range, !.began = version]
  BY DEF Summarise
<1>3. dash' \in DashType
  BY <1>1, <1>2, ClosedDashType, DashBegun
<1>4. dash'.stage = 1 /\ dash'.began = version  BY <1>2 DEF ClosedDash
<1>5. /\ rows' = rows /\ version' = version /\ viewer' = viewer /\ telegramIds' = telegramIds
      /\ table' = ClosedTable /\ link' = None /\ file' = None
  BY DEF Summarise
<1>6. TypeOK'
  BY <1>3, <1>5, ClosedTableType DEF TypeOK, DashType, TableType, Inv
<1>7. Counted'  BY <1>1, <1>4, <1>5 DEF Counted
<1>8. ~table'.open /\ table'.card = None  BY <1>5 DEF ClosedTable
<1>9. QED
  BY <1>1, <1>5, <1>6, <1>7, <1>8
  DEF Inv, Aged, Listed, Opened, Filed, CardMatchesTable, FileMatchesTable

LEMMA QueryInv == ASSUME Inv, Query PROVE Inv'
<1> DEFINE n == dash.stage
           counted == CardsOf[n]
           size(c) == Cardinality(FoundIn(rows, dash.auth, With(c, dash.range)))
           count == [c \in Cards |-> IF c \in counted THEN size(c) ELSE dash.count[c]]
<1>1. /\ dash \in DashType /\ DOMAIN rows \subseteq 1 .. MaxRows /\ version \in Nat
      /\ n \in 1 .. 6
  BY Types DEF Inv, Query
<1>2. dash' = [dash EXCEPT !.stage = n + 1, !.count = count]
  BY <1>1, FoundIs DEF Query, DashType
<1>3. count \in [Cards -> Nat]
  <2>1. \A c \in Cards : size(c) \in Nat  BY <1>1, FoundFinite, Bounds
  <2>2. QED  BY <1>1, <2>1 DEF DashType
<1>4. \A c \in Cards : count[c] = IF c \in counted THEN size(c) ELSE dash.count[c]
  OBVIOUS
<1> HIDE DEF count
<1>5. /\ dash' \in DashType /\ dash'.stage = n + 1 /\ dash'.count = count
      /\ dash'.began = dash.began /\ dash'.auth = dash.auth /\ dash'.range = dash.range
  <2>1. n + 1 \in 0 .. 7  BY <1>1
  <2> HIDE DEF n
  <2> HIDE DEF counted, size
  <2>2. dash \in DashType /\ version \in Nat  BY <1>1
  <2>3. dash' \in DashType  BY <1>2, <1>3, <2>1, <2>2 DEF DashType
  <2>4. /\ dash'.stage = n + 1 /\ dash'.count = count
        /\ dash'.began = dash.began /\ dash'.auth = dash.auth /\ dash'.range = dash.range
    BY <1>2, <2>2 DEF DashType
  <2>5. QED  BY <2>3, <2>4
<1>6. telegramIds' \in [Users -> {None, "user", "telegram"}]
  BY LearnTypes, Types DEF Query, Inv
<1>7. /\ rows' = rows /\ version' = version /\ viewer' = viewer
      /\ table' = table /\ link' = link /\ file' = file
  BY DEF Query
<1>8. TypeOK'  BY <1>5, <1>6, <1>7 DEF Inv, TypeOK, DashType
<1>9. table.card = None  BY <1>1 DEF Inv, Opened
<1>10. Counted'
  <2>1. dash.began <= version  BY <1>1 DEF Inv, Counted
  <2>2. ASSUME dash.began = version, NEW k \in 1 .. 6, k < n + 1, NEW c \in CardsOf[k]
        PROVE  count[c] = size(c)
    <3>1. c \in Cards  BY DEF Cards
    <3>2. CASE c \in counted  BY <1>4, <3>1, <3>2
    <3>3. CASE c \notin counted
      <4>1. k < n  BY <1>1, <2>2, <3>3
      <4>2. dash.count[c] = size(c)  BY <1>1, <2>2, <4>1 DEF Inv, Counted
      <4>3. QED  BY <1>4, <3>1, <3>3, <4>2
    <3>4. QED  BY <3>2, <3>3
  <2>3. QED  BY <1>5, <1>7, <2>1, <2>2 DEF Counted
<1>11. QED
  BY <1>7, <1>8, <1>9, <1>10
  DEF Inv, Aged, Listed, Opened, Filed, CardMatchesTable, FileMatchesTable

\* A file served now has what its query finds now, and so has the table it was
\* asked for from, if that was listed now.
LEMMA ServedInv ==
    ASSUME Inv, NEW m \in Memberships, NEW q \in Filters, NEW lost \in Nat, lost <= LinkTTL,
           Served(m, q, q, lost),
           UNCHANGED <<rows, version, viewer, moves, telegramIds, dash, table, link>>
    PROVE  Inv'
<1> DEFINE total == Cardinality(FoundIn(rows, m, q))
<1>1. total \in Nat /\ version \in Nat  BY FoundFinite, Bounds, Types DEF Inv
<1>2. file' = [auth |-> m, filters |-> q, at |-> version, total |-> total, lost |-> lost]
  BY FoundIs DEF Served
<1> HIDE DEF total
<1>3. /\ file' \in FileType /\ file'.auth = m /\ file'.filters = q /\ file'.at = version
      /\ file'.total = total /\ file'.lost = lost
  BY <1>1, <1>2 DEF FileType
<1>4. TypeOK'  BY <1>1, <1>3 DEF Inv, TypeOK
<1>5. Filed'  BY <1>1, <1>3 DEF Filed, total
<1>6. FileMatchesTable'  BY <1>3 DEF FileMatchesTable, Inv, Listed, total
<1>7. CardMatchesTable'  BY CardKept DEF Inv
<1>8. QED
  BY <1>4, <1>5, <1>6, <1>7 DEF Inv, Aged, Counted, Listed, Opened

LEMMA ExportInv == ASSUME Inv, Export PROVE Inv'
<1>1. table.filters \in Filters /\ viewer \in Memberships
  BY Types DEF Export, IsManager, Inv, TableType
<1>2. 0 <= LinkTTL  BY Bounds
<1>3. QED  BY <1>1, <1>2, ServedInv DEF Export

LEMMA DownloadInv == ASSUME Inv, Download PROVE Inv'
<1>1. link \in LinkType /\ link.lost <= link.age /\ link.age <= LinkTTL
  BY DEF Download, Verified, Inv, Aged
<1>2. link.auth \in Memberships /\ link.query \in Filters /\ link.lost \in Nat /\ link.lost <= LinkTTL
  BY <1>1, Bounds DEF LinkType
<1>3. Served(link.auth, link.query, link.query, link.lost)
      /\ UNCHANGED <<rows, version, viewer, moves, telegramIds, dash, table, link>>
  BY DEF Download, Payload
<1>4. QED  BY <1>2, <1>3, ServedInv

-----------------------------------------------------------------------------
(* The theorems. *)

LEMMA InitInv == Init => Inv
<1> SUFFICES ASSUME Init PROVE Inv
  OBVIOUS
<1>1. DOMAIN rows = {} /\ viewer \in Memberships  BY DEF Init
<1>2. TypeOK
  BY <1>1, ClosedDashType, ClosedTableType DEF Init, TypeOK, DashType, TableType
<1>3. dash.stage = 0 /\ ~table.open /\ table.card = None /\ link = None /\ file = None /\ version = 0
  BY DEF Init, ClosedDash, ClosedTable
<1>4. QED
  BY <1>2, <1>3
  DEF Inv, Aged, Counted, Listed, Opened, Filed, CardMatchesTable, FileMatchesTable

LEMMA StepInv == Inv /\ [Next]_vars => Inv'
<1> SUFFICES ASSUME Inv, [Next]_vars PROVE Inv'
  OBVIOUS
<1>1. CASE SomeWrite  BY <1>1, ArriveInv, ChangeInv DEF SomeWrite
<1>2. CASE SomeLook
  BY <1>2, SummariseInv, OpenCardInv, ChooseUserInv, QueryInv, OpenTableInv, NextPageInv,
     ExportInv, CreateLinkInv, DownloadInv
  DEF SomeLook
<1>3. CASE Tick  BY <1>3, TickInv
<1>4. ASSUME NEW m \in Memberships \cup {None}, Move(m) PROVE Inv'  BY <1>4, MoveInv
<1>5. CASE UNCHANGED vars
  <2>1. TypeOK'  BY <1>5 DEF vars, Inv, TypeOK
  <2>2. Aged'  BY <1>5 DEF vars, Inv, Aged
  <2>3. QED  BY <1>5, <2>1, <2>2, AnswersKept DEF vars
<1>6. QED  BY <1>1, <1>2, <1>3, <1>4, <1>5 DEF Next

\* Every answer given at the present version describes the present rows.
THEOREM Inductive == Spec => []Inv
BY InitInv, StepInv, PTL DEF Spec

\* Summaries, pages and files keep to their forms, whatever is stored between two queries.
THEOREM TypeCorrect == Spec => []TypeOK
<1>1. Inv => TypeOK  BY DEF Inv
<1>2. QED  BY <1>1, Inductive, PTL

\* The table a card of the dashboard opens has as many rows as the card says and those
\* of the last second of its period, which the two pages end differently, unless a write
\* came between the first of the six queries and the list.
THEOREM CardsAgree == Spec => []CardMatchesTable
<1>1. Inv => CardMatchesTable  BY DEF Inv
<1>2. QED  BY <1>1, Inductive, PTL

\* Leafing through to the last page shows every matching Transaction exactly once.
THEOREM PagesComplete == Spec => []PagesCover
<1>1. Inv => PagesCover
  <2> SUFFICES ASSUME Inv, table.open, table.whole, ~HasMore(table), table.listed = version
               PROVE  /\ table.seen = Found(table.auth, table.filters)
                      /\ table.given = Cardinality(table.seen)
    BY DEF PagesCover
  <2> DEFINE found == FoundIn(rows, table.auth, table.filters)
             last == table.page * PageSize
  <2>1. /\ table.total = Cardinality(found) /\ table.seen = Newest(found, last)
        /\ table.given = Cardinality(table.seen)
    BY DEF Inv, Listed
  <2>2. found \in SUBSET (1 .. MaxRows) /\ Cardinality(found) \in Nat
    BY FoundFinite, Bounds, Types DEF Inv
  <2>3. last \in Nat
    <3>1. table.page \in Nat  BY Types DEF Inv, TableType
    <3>2. \A x \in Nat : x * PageSize \in Nat  BY Bounds
    <3>3. QED  BY <3>1, <3>2
  <2>4. ~(last < table.total)  BY DEF HasMore
  <2> HIDE DEF last, found
  <2>5. \A i \in found : Rank(found, i) \in Nat /\ Rank(found, i) <= Cardinality(found)
    BY <2>2, RankBounds, Bounds
  <2>6. Newest(found, last) = found
    <3>1. ASSUME NEW i \in found PROVE Rank(found, i) <= last
      <4>1. Rank(found, i) \in Nat /\ Rank(found, i) <= Cardinality(found)  BY <2>5
      <4>2. Cardinality(found) \in Nat /\ Cardinality(found) <= last  BY <2>1, <2>2, <2>3, <2>4
      <4>3. QED  BY <2>3, <4>1, <4>2
    <3>2. QED  BY <3>1 DEF Newest
  <2>7. QED  BY <2>1, <2>6, FoundIs DEF found
<1>2. QED  BY <1>1, Inductive, PTL

\* The Excel file has the rows of the table it was asked for from.
THEOREM FilesAgree == Spec => []FileMatchesTable
<1>1. Inv => FileMatchesTable  BY DEF Inv
<1>2. QED  BY <1>1, Inductive, PTL

\* Nobody is served the Transactions of a Business longer after losing it than an
\* export link lives.
THEOREM LinksExpire == Spec => []ExportInTime
<1>1. Inv => ExportInTime  BY DEF Inv, Filed, ExportInTime
<1>2. QED  BY <1>1, Inductive, PTL
==============================================================================
