------------------------------- MODULE Reports -------------------------------
(***************************************************************************)
(* Looking at Transactions: the dashboard of the Mini App, the table its   *)
(* cards open, page by page, and the Excel export, directly or through a   *)
(* signed link.  The summary behind the dashboard is six queries, and      *)
(* Transactions arrive, change and go between any two requests.            *)
(***************************************************************************)
EXTENDS Naturals, FiniteSets

CONSTANTS
    Users,          \* the people who send receipts
    Businesses,     \* tenants
    Banks,          \* bank names
    Days,           \* calendar days in Addis Ababa, in order
    Memberships,    \* the memberships the viewer may have
    Ranges,         \* the periods that may be chosen, a subset of Period
    Receipts,       \* the Transactions that may be stored, a subset of Row
    None,           \* null
    PageSize,       \* PAGE_SIZE
    LinkTTL,        \* EXPORT_LINK_TTL_SECONDS, in units of the clock
    MaxRows,        \* bound: Transactions stored
    MaxWrites,      \* bound: changes of stored Transactions
    MaxTime,        \* bound: how old a link is allowed to get
    MaxMoves        \* bound: changes of the viewer's membership

VARIABLES
    rows,       \* the Transactions, by the order of createdAt
    version,    \* history: how many writes there were
    viewer,     \* the Business and role of who looks at all this, or None
    moves,      \* how often that changed
    telegramIds,\* the client's map from user ids to Telegram ids: which of the two it holds
    dash,       \* the dashboard
    table,      \* the transactions table
    link,       \* the export link handed to Telegram
    file        \* the last Excel file served

vars == <<rows, version, viewer, moves, telegramIds, dash, table, link, file>>

-----------------------------------------------------------------------------
(* Data *)

\* Timestamps and the bounds of queries, as far as the pages tell them apart: a day up to
\* 23:59:59, and what is left of its last second, up to 23:59:59.999.
MainPart(day) == 2 * day
LastPart(day) == 2 * day + 1
Instants == {MainPart(d) : d \in Days} \cup {LastPart(d) : d \in Days}

Row == [biz: Businesses, user: Users, bank: Banks \cup {None}, at: Instants \cup {None},
        status: {"recorded", "needs_review"}, dup: BOOLEAN, edited: BOOLEAN]
Roles == {"waiter", "manager", "owner"}
Membership == [biz: Businesses, role: Roles]
Period == [from: Days \cup {None}, to: Days \cup {None}]
Filters == [from: Instants \cup {None}, to: Instants \cup {None},
            status: {"recorded", "needs_review", None}, user: Users \cup {None},
            bank: Banks \cup {None}, dup: BOOLEAN, edited: BOOLEAN]

NoFilters == [from |-> None, to |-> None, status |-> None, user |-> None, bank |-> None,
              dup |-> FALSE, edited |-> FALSE]

ASSUME InstancesAssumption == Receipts \subseteq Row /\ Ranges \subseteq Period /\ Memberships \subseteq Membership
ASSUME NoneAssumption == None \notin Users \cup Banks \cup Days \cup Instants \cup Row \cup Membership
ASSUME DaysAssumption == Days \subseteq Nat
ASSUME BoundsAssumption ==
    /\ PageSize \in Nat \ {0} /\ LinkTTL \in Nat
    /\ {MaxRows, MaxWrites, MaxTime, MaxMoves} \subseteq Nat

-----------------------------------------------------------------------------
(* Queries *)

\* applyAuthScope. Who looks is none of those who send receipts, so as a Waiter sees none.
InScope(m, row) == m.biz = row.biz /\ m.role # "waiter"

\* What buildFilteredQuery lets through. A Transaction without a timestamp is in no
\* range of dates.
InRange(q, row) == /\ q.from # None => row.at # None /\ row.at >= q.from
                   /\ q.to # None => row.at # None /\ row.at <= q.to

Matches(q, row) ==
    /\ InRange(q, row)
    /\ q.status # None => row.status = q.status
    /\ q.user # None => row.user = q.user
    /\ q.bank # None => row.bank = q.bank
    /\ q.dup => row.dup
    /\ q.edited => row.edited

Found(m, q) == {i \in DOMAIN rows : rows[i] # None /\ InScope(m, rows[i]) /\ Matches(q, rows[i])}

\* The newest first, from (page - 1) * limit on.
SkipsOneMore(found, page) ==                        \* mutant
    {i \in found : Cardinality({j \in found : j >= i}) \in (page - 1) * PageSize + 2 .. page * PageSize}
PageOf(found, page) ==
    {i \in found : Cardinality({j \in found : j >= i}) \in (page - 1) * PageSize + 1 .. page * PageSize}

\* RolesGuard with the roles its routes name, then validateManagerAccess.
CanActivate(m) == m.role \in {"manager", "owner"}
IsManager(m) == m # None /\ CanActivate(m)

\* The backend filters by Telegram id; it refuses a user id in its place.
Resolved(q) == q.user # None => telegramIds[q.user] = "telegram"

\* What the client learns from a list, and what it enters in lieu of a Telegram id
\* for those a summary names.
FromList(page) == [u \in Users |->
    IF \E i \in page : rows[i].user = u THEN "telegram" ELSE telegramIds[u]]
FromSummary(named) == [u \in Users |->
    IF telegramIds[u] = None /\ u \in named THEN "user" ELSE telegramIds[u]]

-----------------------------------------------------------------------------
(* State *)

\* A card is the filter it adds to the dates of the dashboard.
ReviewCard == [NoFilters EXCEPT !.status = "needs_review"]
DuplicateCard == [NoFilters EXCEPT !.dup = TRUE]
EditedCard == [NoFilters EXCEPT !.edited = TRUE]
WaiterCard(u) == [NoFilters EXCEPT !.user = u]
BankCard(b) == [NoFilters EXCEPT !.bank = b]

\* The cards each query of getSummary counts, in order.
CardsOf == << {NoFilters}, {WaiterCard(u) : u \in Users}, {BankCard(b) : b \in Banks},
              {ReviewCard}, {DuplicateCard}, {EditedCard} >>
Cards == UNION {CardsOf[n] : n \in 1 .. 6}

\* rangeFor: from midnight, to 23:59:59 of the last day if there is one.
Midnight(day) == IF day = None THEN None ELSE MainPart(day)
LastSecond(day) == IF day = None THEN None ELSE MainPart(day)
With(card, range) == [card EXCEPT !.from = Midnight(range.from), !.to = LastSecond(range.to)]

NoRange == [from |-> None, to |-> None]
ClosedDash == [stage |-> 0, auth |-> None, range |-> NoRange, count |-> [c \in Cards |-> 0],
               began |-> 0]
\* "seen" and "given" are history: what the pages up to this one have shown, if they
\* are "whole", that is if nothing has changed since the first.
ClosedTable == [open |-> FALSE, auth |-> None, card |-> None, filters |-> NoFilters, page |-> 1,
                total |-> 0, listed |-> 0, seen |-> {}, given |-> 0, whole |-> TRUE]

Init ==
    /\ rows = [i \in {} |-> None]
    /\ version = 0
    /\ viewer \in {m \in Memberships : IsManager(m)}
    /\ moves = 0
    /\ telegramIds = [u \in Users |-> None]
    /\ dash = ClosedDash
    /\ table = ClosedTable
    /\ link = None
    /\ file = None

-----------------------------------------------------------------------------
(* The world around *)

Arrive(row) ==
    /\ Cardinality(DOMAIN rows) < MaxRows
    /\ rows' = [i \in DOMAIN rows \cup {Cardinality(DOMAIN rows) + 1} |->
                  IF i \in DOMAIN rows THEN rows[i] ELSE row]
    /\ version' = version + 1
    /\ UNCHANGED <<viewer, moves, telegramIds, dash, table, link, file>>

\* An edit, a repair or a deletion.
Change(i, row) ==
    /\ version < Cardinality(DOMAIN rows) + MaxWrites
    /\ rows[i] # None /\ row # rows[i]
    /\ row # None => row.biz = rows[i].biz
    /\ rows' = [rows EXCEPT ![i] = row]
    /\ version' = version + 1
    /\ UNCHANGED <<viewer, moves, telegramIds, dash, table, link, file>>

Move(m) ==
    /\ m # viewer
    /\ moves < MaxMoves
    /\ viewer' = m
    /\ moves' = moves + 1
    /\ UNCHANGED <<rows, version, telegramIds, dash, table, link, file>>

\* Time matters to a link: its age, and how long ago who made it lost the Business.
Tick ==
    /\ link # None
    /\ link.age < MaxTime
    /\ link' = [link EXCEPT !.age = @ + 1, !.lost = IF viewer = link.auth THEN 0 ELSE @ + 1]
    /\ UNCHANGED <<rows, version, viewer, moves, telegramIds, dash, table, file>>

-----------------------------------------------------------------------------
(* Dashboard *)

\* A period without an end, or dates picked by hand.
Summarise(range) ==
    /\ dash.stage \in {0, 7}
    /\ IsManager(viewer)
    /\ dash' = [ClosedDash EXCEPT !.stage = 1, !.auth = viewer, !.range = range, !.began = version]
    /\ table' = ClosedTable
    /\ link' = None /\ file' = None
    /\ UNCHANGED <<rows, version, viewer, moves, telegramIds>>

\* One of the six queries of getSummary; the last answers the client.
Query ==
    /\ dash.stage \in 1 .. 6
    /\ LET counted == CardsOf[dash.stage]
           found(c) == Found(dash.auth, With(c, dash.range)) IN
         /\ dash' = [dash EXCEPT !.stage = @ + 1,
                       !.count = [c \in Cards |-> IF c \in counted THEN Cardinality(found(c)) ELSE @[c]]]
         /\ telegramIds' = IF dash.stage = 6
                            THEN FromSummary({u \in Users : dash.count[WaiterCard(u)] > 0})
                            ELSE telegramIds
    /\ UNCHANGED <<rows, version, viewer, moves, table, link, file>>

-----------------------------------------------------------------------------
(* Table *)

\* The client asks for a page, leaving the dashboard and the exports made before
\* (bound: a link is opened before its table is left); the answer tells it the
\* Telegram ids of its rows.
List(t) ==
    LET found == Found(viewer, t.filters)
        page == PageOf(found, t.page) IN
    /\ viewer # None
    /\ IF Resolved(t.filters)
         THEN /\ table' = [t EXCEPT !.open = TRUE, !.auth = viewer, !.total = Cardinality(found),
                              !.seen = @ \cup page, !.given = @ + Cardinality(page),
                              !.listed = version]
              /\ telegramIds' = FromList(page)
         ELSE table' = [t EXCEPT !.open = FALSE] /\ UNCHANGED telegramIds
    /\ dash' = IF t.card = None THEN ClosedDash ELSE dash
    /\ link' = None /\ file' = None
    /\ UNCHANGED <<rows, version, viewer, moves>>

\* A card of the dashboard opens the table with its filter and the two dates, of which
\* the table's query makes midnight and 23:59:59.999. The three attention cards are
\* always there, waiters and banks only if they have any.
LastMoment(day) == IF day = None THEN None ELSE LastPart(day)
NoDates(card, range) == card                        \* mutant: the dates are forgotten
Linked(card, range) == [card EXCEPT !.from = Midnight(range.from), !.to = LastMoment(range.to)]

OpenCard(card) ==
    /\ dash.stage = 7
    /\ card # NoFilters
    /\ card \in CardsOf[2] \cup CardsOf[3] => dash.count[card] > 0
    /\ List([ClosedTable EXCEPT !.card = card, !.filters = Linked(card, dash.range)])

\* A waiter or bank is chosen among those on the page shown.
ChooseUser(u) ==
    /\ table.open
    /\ \E i \in table.seen : rows[i] # None /\ rows[i].user = u
    /\ List([ClosedTable EXCEPT !.filters = [table.filters EXCEPT !.user = u]])

OpenTable == List(ClosedTable)

HasMore(t) == t.page * PageSize < t.total

\* On to the next page; the pages before it are remembered as long as nothing changes.
NextPage ==
    /\ table.open
    /\ HasMore(table)
    /\ List([table EXCEPT !.page = @ + 1, !.card = None,
                          !.whole = @ /\ table.listed = version /\ table.auth = viewer])

-----------------------------------------------------------------------------
(* Export *)

Served(m, q, asked, lost) ==
    file' = [auth |-> m, filters |-> asked, at |-> version, total |-> Cardinality(Found(m, q)),
             lost |-> lost]

\* In a browser: one authenticated request.
Export ==
    /\ table.open
    /\ IsManager(viewer)
    /\ Resolved(table.filters)
    /\ Served(viewer, table.filters, table.filters, 0)
    /\ UNCHANGED <<rows, version, viewer, moves, telegramIds, dash, table, link>>

\* In Telegram: a link that carries the query and who asked...
ForgetsFlags(q) == [q EXCEPT !.dup = FALSE, !.edited = FALSE]     \* mutant
Payload(q) == q

CreateLink ==
    /\ table.open
    /\ IsManager(viewer)
    /\ link' = [query |-> table.filters, auth |-> viewer, age |-> 0, lost |-> 0,
                named |-> Resolved(table.filters)]
    /\ UNCHANGED <<rows, version, viewer, moves, telegramIds, dash, table, file>>

\* ...and is good, for whoever opens it and as often as they like, until it expires.
AnyTime(l) == TRUE                                  \* mutant
Verified(l) == l.age <= LinkTTL

Download ==
    /\ link # None
    /\ Verified(link)
    /\ link.named
    /\ Served(link.auth, Payload(link.query), link.query, link.lost)
    /\ UNCHANGED <<rows, version, viewer, moves, telegramIds, dash, table, link>>

-----------------------------------------------------------------------------

SomeWrite == \/ \E row \in Receipts : Arrive(row)
             \/ \E i \in DOMAIN rows, row \in Receipts \cup {None} : Change(i, row)
SomeLook == \/ \E range \in Ranges : Summarise(range)
            \/ \E card \in Cards : OpenCard(card)
            \/ \E u \in Users : ChooseUser(u)
            \/ Query \/ OpenTable \/ NextPage \/ Export \/ CreateLink \/ Download

Next == SomeWrite \/ SomeLook \/ Tick \/ \E m \in Memberships \cup {None} : Move(m)

Spec == Init /\ [][Next]_vars

-----------------------------------------------------------------------------
(* Properties *)

TypeOK ==
    /\ DOMAIN rows \subseteq 1 .. MaxRows
    /\ \A i \in DOMAIN rows : rows[i] \in Row \cup {None}
    /\ viewer \in Memberships \cup {None}
    /\ telegramIds \in [Users -> {None, "user", "telegram"}]
    /\ dash \in [stage: 0 .. 7, auth: Memberships \cup {None}, range: Period,
                 count: [Cards -> Nat], began: Nat]
    /\ table \in [open: BOOLEAN, auth: Memberships \cup {None}, card: Cards \cup {None},
                  filters: Filters, page: Nat, total: Nat, listed: Nat,
                  seen: SUBSET DOMAIN rows, given: Nat, whole: BOOLEAN]
    /\ file # None => file.filters \in Filters /\ file.total \in Nat

\* The table a card opens holds as many Transactions as the card says and those of the
\* last second of the period, which the card leaves out, if no write came in since the
\* first of the six queries behind the card: the grouping of the summary and the filter
\* of the list agree, and so do the two ends of the two pages' periods but for that
\* second. Without an end the two numbers are the same.
LeftOut(q) == {i \in DOMAIN rows : rows[i] # None /\ q.to # None /\ rows[i].at = q.to}

CardMatchesTable ==
    /\ table.open /\ table.card # None
    /\ dash.began = version /\ table.listed = version /\ dash.auth = table.auth
    => table.total = dash.count[table.card]
         + Cardinality(Found(table.auth, table.filters) \cap LeftOut(table.filters))

\* Leafing through to the last page shows every Transaction that matches exactly
\* once, unless one is written meanwhile.
PagesCover ==
    /\ table.open /\ table.whole /\ ~HasMore(table)
    /\ table.listed = version
    => /\ table.seen = Found(table.auth, table.filters)
       /\ table.given = Cardinality(table.seen)

\* The Excel file has the rows of the table it was asked for from, by link or
\* directly ("pagination and Excel export use the same result set").
FileMatchesTable ==
    /\ file # None /\ table.open
    /\ file.auth = table.auth /\ file.filters = table.filters /\ file.at = table.listed
    => file.total = table.total

\* Nobody gets the Transactions of a Business they have not managed for longer than
\* an export link lives.
ExportInTime == file # None => file.lost <= LinkTTL

-----------------------------------------------------------------------------
(* What the documents say and the code does not keep; see the README. *)

\* "Maps userId -> telegramUserId, populated from the summary/staff lookups so waiter
\* filtering can translate": a card opens its table.
CardOpensTable == table.card # None => table.open
=============================================================================
