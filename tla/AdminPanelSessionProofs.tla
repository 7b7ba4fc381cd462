----------------------- MODULE AdminPanelSessionProofs -----------------------
(***************************************************************************)
(* Proofs about AdminPanelSession, for any number of users, sessions and   *)
(* concurrent calls, any lifetimes and any bounds.  The invariant says     *)
(* what a record in Redis, a record about to be written and a call past    *)
(* the session check owe to the times the session was stored.              *)
(***************************************************************************)
EXTENDS AdminPanelSession, TLAPS

Known(s, stored) == s \in Sessions /\ stored[s] # None

\* A record expires no later than the lifetimes allow.
Within(rec, born, renewed) ==
    rec \in Session /\ rec.expires <= born + MaxTTL /\ rec.idle <= renewed + IdleTTL

\* What a call holds at each of its stages.
HasFields(q, stored) ==
    /\ q.pc # "idle" => q.user \in Users
    /\ q.pc \in {"index", "confirm", "renew", "write", "answer", "first", "live", "second", "serve",
                 "revoke", "delete", "unindex"} => Known(q.sid, stored)
    /\ q.pc \in {"store", "index", "confirm", "write", "answer", "first", "live", "second", "serve"}
         => q.as \in Memberships
    /\ q.pc = "unindex" => q.rec \in Session
HasMembership(q, live) ==
    /\ q.pc # "idle" => live[q.user] \in q.held
    /\ q.pc \in {"answer", "second", "serve"} => q.as \in q.held
HasTimes(q, stored, time) ==
    /\ q.began <= time
    /\ q.pc = "store" => Within(q.rec, time, time)
    /\ q.pc = "write" => Within(q.rec, stored[q.sid].born, time)
    /\ q.pc \in {"live", "second", "serve"} => /\ q.began < stored[q.sid].born + MaxTTL
                                               /\ q.began < stored[q.sid].renewed + IdleTTL

CallOK(q, live, stored, time) ==
    HasFields(q, stored) /\ HasMembership(q, live) /\ HasTimes(q, stored, time)

StoreOK(redis, stored) ==
    \A s \in Sessions : redis[s] # None =>
        stored[s] # None /\ Within(redis[s], stored[s].born, stored[s].renewed)
TokensOK(ts, stored) == \A t \in ts : stored[t.sid] # None
PastOK(stored, time) ==
    \A s \in Sessions : stored[s] # None => stored[s].born <= time /\ stored[s].renewed <= time

Inv == /\ TypeOK
       /\ StoreOK(store, past)
       /\ TokensOK(tokens, past)
       /\ PastOK(past, now)
       /\ \A c \in Calls : CallOK(calls[c], member, past, now)

\* The history of a session only grows.
PastKept(stored, stored2) ==
    \A s \in Sessions : stored[s] # None =>
        /\ stored2[s] # None
        /\ stored2[s].born = stored[s].born
        /\ stored[s].renewed <= stored2[s].renewed

-----------------------------------------------------------------------------
(* What carries over from one state to the next. *)

LEMMA CallCarries ==
    ASSUME NEW q \in Call, NEW live, NEW stored \in [Sessions -> Stored \cup {None}],
           NEW stored2 \in [Sessions -> Stored \cup {None}], NEW time \in Nat, NEW time2 \in Nat,
           CallOK(q, live, stored, time), PastKept(stored, stored2), time <= time2
    PROVE  CallOK(q, live, stored2, time2)
<1>1. \A s \in Sessions : stored[s] # None =>
        /\ stored[s] \in Stored /\ stored2[s] \in Stored
        /\ stored2[s].born = stored[s].born /\ stored[s].renewed <= stored2[s].renewed
  BY DEF PastKept
<1>2. HasFields(q, stored2)  BY DEF CallOK, HasFields, Known, PastKept
<1>3. HasMembership(q, live)  BY DEF CallOK
<1>4. HasTimes(q, stored2, time2)
  <2>1. q.began <= time2  BY DEF CallOK, HasTimes, Call
  <2>2. q.pc = "store" => Within(q.rec, time2, time2)
    BY LifetimeAssumption DEF CallOK, HasTimes, Within, Session
  <2>3. q.pc = "write" => Within(q.rec, stored2[q.sid].born, time2)
    BY <1>1, LifetimeAssumption DEF CallOK, HasFields, Known, HasTimes, Within, Session, Stored
  <2>4. q.pc \in {"live", "second", "serve"} => /\ q.began < stored2[q.sid].born + MaxTTL
                                                /\ q.began < stored2[q.sid].renewed + IdleTTL
    BY <1>1, LifetimeAssumption DEF CallOK, HasFields, Known, HasTimes, Stored, Call
  <2>5. QED  BY <2>1, <2>2, <2>3, <2>4 DEF HasTimes
<1>5. QED  BY <1>2, <1>3, <1>4 DEF CallOK

\* A step of one call.
LEMMA StepKeeps ==
    ASSUME Inv, NEW c \in Calls, NEW q \in Call, calls' = [calls EXCEPT ![c] = q],
           UNCHANGED <<member, now>>,
           store' \in [Sessions -> Session \cup {None}], index' \in [Users -> SUBSET Sessions],
           tokens' \subseteq Token, past' \in [Sessions -> Stored \cup {None}],
           issued' \in 0..MaxCalls,
           PastKept(past, past'), StoreOK(store', past'), TokensOK(tokens', past'),
           PastOK(past', now), CallOK(q, member, past', now)
    PROVE  Inv'
<1>1. calls' \in [Calls -> Call]  BY DEF Inv, TypeOK
<1>2. TypeOK'  BY <1>1 DEF Inv, TypeOK
<1>3. ASSUME NEW d \in Calls PROVE CallOK(calls'[d], member', past', now')
  <2>1. CASE d = c
    <3>1. calls'[d] = q  BY <2>1 DEF Inv, TypeOK
    <3>2. QED  BY <3>1
  <2>2. CASE d # c
    <3>1. calls'[d] = calls[d]  BY <2>2 DEF Inv, TypeOK
    <3>2. calls[d] \in Call /\ CallOK(calls[d], member, past, now)  BY DEF Inv, TypeOK
    <3>3. now \in Nat /\ past \in [Sessions -> Stored \cup {None}]
      BY LifetimeAssumption DEF Inv, TypeOK
    <3>4. CallOK(calls[d], member, past', now)  BY <3>2, <3>3, CallCarries
    <3>5. QED  BY <3>1, <3>4
  <2>3. QED  BY <2>1, <2>2
<1>4. QED  BY <1>2, <1>3 DEF Inv

LEMMA PastStays ==
    ASSUME Inv PROVE PastKept(past, past)
BY DEF Inv, TypeOK, Stored, PastKept

\* A step that only reads, or changes the index.
LEMMA ReadKeeps ==
    ASSUME Inv, NEW c \in Calls, NEW q \in Call, Continue(c, q),
           UNCHANGED <<member, store, tokens, past>>, index' \in [Users -> SUBSET Sessions],
           CallOK(q, member, past, now)
    PROVE  Inv'
<1>1. /\ store' \in [Sessions -> Session \cup {None}] /\ tokens' \subseteq Token
      /\ past' \in [Sessions -> Stored \cup {None}] /\ issued' \in 0..MaxCalls
  BY DEF Continue, Inv, TypeOK
<1>2. StoreOK(store', past') /\ TokensOK(tokens', past') /\ PastOK(past', now)  BY DEF Inv
<1>3. PastKept(past, past') /\ CallOK(q, member, past', now)  BY PastStays
<1>4. calls' = [calls EXCEPT ![c] = q] /\ UNCHANGED <<member, now>>  BY DEF Continue
<1>5. QED  BY <1>1, <1>2, <1>3, <1>4, StepKeeps

LEMMA BeginKeeps ==
    ASSUME Inv, NEW c \in Calls, NEW q \in Call, Begin(c, q),
           UNCHANGED <<member, store, index, tokens, past, now>>, q.user \in Users,
           CallOK([q EXCEPT !.began = now, !.held = {member[q.user]}], member, past, now)
    PROVE  Inv'
<1> DEFINE b == [q EXCEPT !.began = now, !.held = {member[q.user]}]
<1>1. now \in Nat /\ member[q.user] \in Memberships \cup {None}
  BY LifetimeAssumption DEF Inv, TypeOK
<1>2. b \in Call  BY <1>1 DEF Call
<1>3. calls' = [calls EXCEPT ![c] = b]  BY DEF Begin
<1>4. issued' \in 0..MaxCalls  BY LifetimeAssumption DEF Begin, Inv, TypeOK
<1>5. /\ store' \in [Sessions -> Session \cup {None}] /\ tokens' \subseteq Token
      /\ past' \in [Sessions -> Stored \cup {None}] /\ index' \in [Users -> SUBSET Sessions]
  BY DEF Inv, TypeOK
<1>6. StoreOK(store', past') /\ TokensOK(tokens', past') /\ PastOK(past', now)  BY DEF Inv
<1>7. PastKept(past, past') /\ CallOK(b, member, past', now)  BY PastStays
<1> HIDE DEF b
<1>8. QED  BY <1>2, <1>3, <1>4, <1>5, <1>6, <1>7, StepKeeps

LEMMA IdleOK == ASSUME Inv PROVE Idle \in Call /\ CallOK(Idle, member, past, now)
<1>1. Idle \in Call  BY DEF Idle, Call, Stages
<1>2. now \in Nat  BY LifetimeAssumption DEF Inv, TypeOK
<1>3. CallOK(Idle, member, past, now)
  BY <1>2 DEF Idle, CallOK, HasFields, HasMembership, HasTimes
<1>4. QED  BY <1>1, <1>3

\* A finished call owes nothing.
LEMMA IdleOwesNothing ==
    ASSUME NEW live, NEW stored, NEW time \in Nat PROVE CallOK(Idle, live, stored, time)
BY DEF Idle, CallOK, HasFields, HasMembership, HasTimes

LEMMA Typed ==
    ASSUME Inv
    PROVE  /\ now \in Nat
           /\ \A c \in Calls : calls[c] \in Call /\ CallOK(calls[c], member, past, now)
           /\ \A u \in Users : member[u] \in Memberships \cup {None}
           /\ \A s \in Sessions : past[s] # None => past[s] \in Stored
           /\ \A s \in Sessions : store[s] # None => store[s] \in Session
           /\ \A t \in tokens : t \in Token /\ past[t.sid] # None
BY LifetimeAssumption DEF Inv, TypeOK, TokensOK

-----------------------------------------------------------------------------
(* Calls that begin. *)

LEMMA NewSessionWithin ==
    ASSUME Inv, NEW u \in Users, NEW m \in Memberships
    PROVE  Within(NewSession(u, m), now, now)
<1>1. now \in Nat  BY Typed
<1>2. QED  BY <1>1, LifetimeAssumption DEF NewSession, Within, Session, Earlier

LEMMA SignInKeeps ==
    ASSUME Inv, NEW c \in Calls, NEW u \in Users, SignIn(c, u) PROVE Inv'
<1> DEFINE rec == NewSession(u, member[u])
           q == [Idle EXCEPT !.pc = "store", !.user = u, !.as = member[u], !.rec = rec]
           b == [q EXCEPT !.began = now, !.held = {member[q.user]}]
<1>1. member[u] \in Memberships /\ now \in Nat  BY Typed DEF SignIn
<1>2. Within(rec, now, now)  BY <1>1, NewSessionWithin
<1>3. Begin(c, q) /\ UNCHANGED <<member, store, index, tokens, past, now>>  BY DEF SignIn
<1> HIDE DEF rec
<1>4. q \in Call /\ q.user = u  BY <1>1, <1>2 DEF Idle, Call, Stages, Within
<1>5. /\ b.pc = "store" /\ b.user = u /\ b.as = member[u] /\ b.rec = rec
      /\ b.began = now /\ b.held = {member[u]}
  BY DEF Idle
<1>6. CallOK(b, member, past, now)
  BY <1>1, <1>2, <1>5 DEF CallOK, HasFields, HasMembership, HasTimes
<1> HIDE DEF b, q
<1>7. QED  BY <1>3, <1>4, <1>6, BeginKeeps DEF b

\* A call about a session the client holds a token for.
LEMMA TokenCallKeeps ==
    ASSUME Inv, NEW c \in Calls, NEW t \in tokens, NEW stage \in {"renew", "revoke", "first"},
           NEW q \in Call, q.pc = stage, q.user = t.user, q.sid = t.sid,
           stage = "first" => q.as \in Memberships,
           Begin(c, q), UNCHANGED <<member, store, index, tokens, past, now>>
    PROVE  Inv'
<1> DEFINE b == [q EXCEPT !.began = now, !.held = {member[q.user]}]
<1>1. t \in Token /\ past[t.sid] # None /\ now \in Nat  BY Typed
<1>2. t.user \in Users /\ t.sid \in Sessions  BY <1>1 DEF Token
<1>3. /\ b.pc = stage /\ b.user = t.user /\ b.sid = t.sid /\ b.as = q.as
      /\ b.began = now /\ b.held = {member[t.user]}
  BY DEF Call
<1> HIDE DEF b
<1>4. CallOK(b, member, past, now)
  BY <1>1, <1>2, <1>3 DEF CallOK, HasFields, Known, HasMembership, HasTimes
<1>5. QED  BY <1>2, <1>4, BeginKeeps DEF b

LEMMA TokenBeginKeeps ==
    ASSUME Inv, NEW c \in Calls, NEW t \in tokens, Refresh(c, t) \/ Request(c, t) \/ Logout(c, t)
    PROVE  Inv'
<1>1. t.user \in Users /\ t.sid \in Sessions /\ t.as \in Memberships /\ t.exp \in Nat
  BY Typed DEF Token
<1>2. CASE Refresh(c, t)
  <2> DEFINE q == [Idle EXCEPT !.pc = "renew", !.user = t.user, !.sid = t.sid]
  <2>1. q \in Call /\ q.pc = "renew" /\ q.user = t.user /\ q.sid = t.sid
    BY <1>1 DEF Idle, Call, Stages
  <2>2. Begin(c, q) /\ UNCHANGED <<member, store, index, tokens, past, now>>  BY <1>2 DEF Refresh
  <2> HIDE DEF q
  <2>3. QED  BY <2>1, <2>2, TokenCallKeeps
<1>3. CASE Request(c, t)
  <2> DEFINE q == [Idle EXCEPT !.pc = "first", !.user = t.user, !.sid = t.sid, !.as = t.as,
                               !.exp = t.exp]
  <2>1. q \in Call /\ q.pc = "first" /\ q.user = t.user /\ q.sid = t.sid /\ q.as \in Memberships
    BY <1>1 DEF Idle, Call, Stages
  <2>2. Begin(c, q) /\ UNCHANGED <<member, store, index, tokens, past, now>>  BY <1>3 DEF Request
  <2> HIDE DEF q
  <2>3. QED  BY <2>1, <2>2, TokenCallKeeps
<1>4. CASE Logout(c, t)
  <2> DEFINE q == [Idle EXCEPT !.pc = "revoke", !.user = t.user, !.sid = t.sid]
  <2>1. q \in Call /\ q.pc = "revoke" /\ q.user = t.user /\ q.sid = t.sid
    BY <1>1 DEF Idle, Call, Stages
  <2>2. Begin(c, q) /\ UNCHANGED <<member, store, index, tokens, past, now>>  BY <1>4 DEF Logout
  <2> HIDE DEF q
  <2>3. QED  BY <2>1, <2>2, TokenCallKeeps
<1>5. QED  BY <1>2, <1>3, <1>4

-----------------------------------------------------------------------------
(* Calls that go on. *)

\* A call that only moves to a stage no later check depends on.
LEMMA MoveKeeps ==
    ASSUME Inv, NEW c \in Calls, NEW stage \in {"revoke", "confirm", "live"},
           CallOK([calls[c] EXCEPT !.pc = stage], member, past, now),
           Continue(c, [calls[c] EXCEPT !.pc = stage]),
           UNCHANGED <<member, store, tokens, past>>, index' \in [Users -> SUBSET Sessions]
    PROVE  Inv'
<1>1. calls[c] \in Call  BY Typed
<1>2. stage \in Stages  BY DEF Stages
<1>3. [calls[c] EXCEPT !.pc = stage] \in Call  BY <1>1, <1>2 DEF Call
<1>4. QED  BY <1>3, ReadKeeps

LEMMA CallStepKeeps ==
    ASSUME Inv, NEW c \in Calls, CallStep(c) PROVE Inv'
<1> DEFINE p == calls[c]
<1>1. p \in Call /\ CallOK(p, member, past, now) /\ now \in Nat  BY Typed
<1>2. index \in [Users -> SUBSET Sessions]  BY DEF Inv, TypeOK
<1>3. ASSUME Continue(c, Idle), UNCHANGED <<member, store, tokens, past>>,
             index' \in [Users -> SUBSET Sessions]
      PROVE Inv'
  BY <1>3, IdleOK, ReadKeeps
<1>4. CASE StoreSession(c)
  <2>1. /\ p.pc = "store" /\ p.user \in Users /\ p.as \in Memberships /\ Within(p.rec, now, now)
        /\ member[p.user] \in p.held
    BY <1>1, <1>4 DEF StoreSession, CallOK, HasFields, HasMembership, HasTimes
  <2>2. PICK s \in Sessions :
          /\ past[s] = None
          /\ store' = [store EXCEPT ![s] = p.rec]
          /\ past' = [past EXCEPT ![s] = [born |-> now, renewed |-> now]]
          /\ Continue(c, [p EXCEPT !.pc = "index", !.sid = s, !.rec = None])
    BY <1>4 DEF StoreSession
  <2> DEFINE new == [born |-> now, renewed |-> now]
             q == [p EXCEPT !.pc = "index", !.sid = s, !.rec = None]
  <2>3. new \in Stored /\ new.born = now /\ new.renewed = now  BY <1>1 DEF Stored
  <2>4. new # None  BY <2>3, NoneAssumption
  <2> HIDE DEF new
  <2>5. past \in [Sessions -> Stored \cup {None}] /\ store \in [Sessions -> Session \cup {None}]
    BY DEF Inv, TypeOK
  <2>6. /\ past'[s] = new
        /\ \A d \in Sessions \ {s} : past'[d] = past[d]
        /\ past' \in [Sessions -> Stored \cup {None}]
    BY <2>2, <2>3, <2>5 DEF new
  <2>7. /\ store'[s] = p.rec
        /\ \A d \in Sessions \ {s} : store'[d] = store[d]
        /\ store' \in [Sessions -> Session \cup {None}]
    BY <2>1, <2>2, <2>5 DEF Within
  <2>8. StoreOK(store', past')
    BY <2>1, <2>3, <2>4, <2>6, <2>7 DEF StoreOK, Inv
  <2>9. PastKept(past, past') /\ PastOK(past', now)
    <3>1. PastKept(past, past')  BY <2>2, <2>6, PastStays DEF PastKept
    <3>2. PastOK(past', now)  BY <1>1, <2>3, <2>6 DEF PastOK, Inv
    <3>3. QED  BY <3>1, <3>2
  <2>10. TokensOK(tokens', past')
    <3>1. tokens' = tokens  BY <1>4 DEF StoreSession
    <3>2. \A t \in tokens : t.sid \in Sessions /\ past[t.sid] # None  BY Typed DEF Token
    <3>3. QED  BY <2>4, <2>6, <3>1, <3>2 DEF TokensOK
  <2>11. q \in Call
    <3>1. "index" \in Stages  BY DEF Stages
    <3>2. QED  BY <1>1, <3>1 DEF Call
  <2>12. /\ q.pc = "index" /\ q.sid = s /\ q.user = p.user /\ q.as = p.as /\ q.held = p.held
         /\ q.began = p.began
    BY <1>1 DEF Call
  <2>13. p.began <= now  BY <1>1 DEF CallOK, HasTimes
  <2>14. CallOK(q, member, past', now)
    BY <2>1, <2>4, <2>6, <2>12, <2>13 DEF CallOK, HasFields, Known, HasMembership, HasTimes
  <2>15. calls' = [calls EXCEPT ![c] = q] /\ UNCHANGED <<member, now, index, tokens, issued>>
    BY <1>4, <2>2 DEF StoreSession, Continue
  <2>16. index' \in [Users -> SUBSET Sessions] /\ tokens' \subseteq Token /\ issued' \in 0..MaxCalls
    BY <2>15 DEF Inv, TypeOK
  <2> HIDE DEF q
  <2>17. QED
    BY <2>6, <2>7, <2>8, <2>9, <2>10, <2>11, <2>14, <2>15, <2>16, StepKeeps
<1>5. CASE IndexSession(c)
  <2>1. p.pc = "index" /\ p.user \in Users /\ p.sid \in Sessions
    BY <1>1, <1>5 DEF IndexSession, CallOK, HasFields, Known
  <2>2. index' \in [Users -> SUBSET Sessions]  BY <1>2, <1>5, <2>1 DEF IndexSession
  <2>3. CallOK([p EXCEPT !.pc = "confirm"], member, past, now)
    BY <1>1, <2>1 DEF Call, CallOK, HasFields, Known, HasMembership, HasTimes
  <2>4. QED  BY <1>5, <2>2, <2>3, MoveKeeps DEF IndexSession
<1>6. CASE Confirm(c)
  <2>1. p.pc = "confirm" /\ p.user \in Users /\ p.as \in Memberships /\ member[p.user] \in p.held
    BY <1>1, <1>6 DEF Confirm, CallOK, HasFields, HasMembership
  <2>2. UNCHANGED <<member, store, index, tokens, past>>  BY <1>6 DEF Confirm
  <2>3. CASE Unchanged(p)
    <3> DEFINE q == [p EXCEPT !.pc = "answer", !.exp = now + AccessTTL]
    <3>1. "answer" \in Stages /\ now + AccessTTL \in Nat  BY <1>1, LifetimeAssumption DEF Stages
    <3>2. q \in Call  BY <1>1, <3>1 DEF Call
    <3>3. CallOK(q, member, past, now)
      BY <1>1, <2>1, <2>3 DEF Unchanged, Call, CallOK, HasFields, Known, HasMembership, HasTimes
    <3>4. Continue(c, q)  BY <1>6, <2>3 DEF Confirm
    <3>5. QED  BY <1>2, <2>2, <3>2, <3>3, <3>4, ReadKeeps
  <2>4. CASE ~Unchanged(p)
    <3>1. CallOK([p EXCEPT !.pc = "revoke"], member, past, now)
      BY <1>1, <2>1 DEF Call, CallOK, HasFields, Known, HasMembership, HasTimes
    <3>2. Continue(c, [p EXCEPT !.pc = "revoke"])  BY <1>6, <2>4 DEF Confirm
    <3>3. QED  BY <1>2, <2>2, <3>1, <3>2, MoveKeeps
  <2>5. QED  BY <2>3, <2>4
<1>7. CASE Answer(c)
  <2> DEFINE t == [sid |-> p.sid, user |-> p.user, as |-> p.as, exp |-> p.exp]
  <2>1. /\ p.user \in Users /\ p.sid \in Sessions /\ past[p.sid] # None /\ p.as \in Memberships
        /\ p.exp \in Nat
    BY <1>1, <1>7 DEF Answer, CallOK, HasFields, Known, Call
  <2>2. t \in Token /\ t.sid = p.sid  BY <2>1 DEF Token
  <2>3. tokens' = tokens \cup {t} /\ Continue(c, Idle) /\ UNCHANGED <<member, store, index, past>>
    BY <1>7 DEF Answer
  <2> HIDE DEF t
  <2>4. tokens' \subseteq Token  BY <2>2, <2>3 DEF Inv, TypeOK
  <2>5. TokensOK(tokens', past')  BY <2>1, <2>2, <2>3 DEF TokensOK, Inv
  <2>6. /\ store' \in [Sessions -> Session \cup {None}] /\ index' \in [Users -> SUBSET Sessions]
        /\ past' \in [Sessions -> Stored \cup {None}] /\ issued' \in 0..MaxCalls
        /\ calls' = [calls EXCEPT ![c] = Idle] /\ UNCHANGED <<member, now>>
    BY <2>3 DEF Continue, Inv, TypeOK
  <2>7. StoreOK(store', past') /\ PastOK(past', now) /\ PastKept(past, past')
    BY <2>3, PastStays DEF Inv
  <2>8. Idle \in Call /\ CallOK(Idle, member, past', now)  BY <1>1, IdleOK, IdleOwesNothing
  <2>9. QED  BY <2>4, <2>5, <2>6, <2>7, <2>8, StepKeeps
<1>8. CASE RenewRead(c)
  <2> DEFINE rec == store[p.sid]
  <2>1. /\ p.pc = "renew" /\ p.user \in Users /\ p.sid \in Sessions /\ past[p.sid] # None
        /\ member[p.user] \in p.held /\ p.began <= now
    BY <1>1, <1>8 DEF RenewRead, CallOK, HasFields, Known, HasMembership, HasTimes
  <2>2. UNCHANGED <<member, store, index, tokens, past>>  BY <1>8 DEF RenewRead
  <2>3. CASE rec = None
    <3>1. Continue(c, Idle)  BY <1>8, <2>3 DEF RenewRead
    <3>2. QED  BY <1>2, <1>3, <2>2, <3>1
  <2>4. CASE rec # None /\ Expired(rec)
    <3>1. CallOK([p EXCEPT !.pc = "revoke"], member, past, now)
      BY <1>1, <2>1 DEF Call, CallOK, HasFields, Known, HasMembership, HasTimes
    <3>2. Continue(c, [p EXCEPT !.pc = "revoke"])  BY <1>8, <2>4 DEF RenewRead
    <3>3. QED  BY <1>2, <2>2, <3>1, <3>2, MoveKeeps
  <2>5. CASE rec # None /\ ~Expired(rec)
    <3> DEFINE new == Renewed(rec)
               q == [p EXCEPT !.pc = "write", !.as = rec.as, !.rec = new]
    <3>1. /\ rec \in Session /\ rec.expires <= past[p.sid].born + MaxTTL
          /\ past[p.sid].born \in Nat
      BY <2>1, <2>5, Typed DEF Inv, StoreOK, Within, Stored
    <3>2. Within(new, past[p.sid].born, now)
      BY <1>1, <3>1, LifetimeAssumption DEF Renewed, Within, Session, Earlier
    <3>3. rec.as \in Memberships  BY <3>1 DEF Session
    <3>4. Continue(c, q)  BY <1>8, <2>5 DEF RenewRead
    <3> HIDE DEF new
    <3>5. q \in Call
      <4>1. "write" \in Stages /\ new \in Session  BY <3>2 DEF Stages, Within
      <4>2. QED  BY <1>1, <3>3, <4>1 DEF Call
    <3>6. /\ q.pc = "write" /\ q.user = p.user /\ q.sid = p.sid /\ q.as = rec.as /\ q.rec = new
          /\ q.held = p.held /\ q.began = p.began
      BY <1>1 DEF Call
    <3>7. CallOK(q, member, past, now)
      BY <2>1, <3>2, <3>3, <3>6 DEF CallOK, HasFields, Known, HasMembership, HasTimes
    <3> HIDE DEF q
    <3>8. QED  BY <1>2, <2>2, <3>4, <3>5, <3>7, ReadKeeps
  <2>6. QED  BY <2>3, <2>4, <2>5
<1>9. CASE RenewWrite(c)
  <2> DEFINE s == p.sid
             q == [p EXCEPT !.pc = "confirm", !.rec = None]
  <2>1. /\ p.pc = "write" /\ p.user \in Users /\ s \in Sessions /\ past[s] # None
        /\ p.as \in Memberships /\ member[p.user] \in p.held /\ p.began <= now
        /\ Within(p.rec, past[s].born, now)
    BY <1>1, <1>9 DEF RenewWrite, CallOK, HasFields, Known, HasMembership, HasTimes
  <2>2. past[s] \in Stored /\ past[s].renewed <= now /\ past[s].born <= now
    BY <2>1, Typed DEF Inv, PastOK
  <2> DEFINE new == [past[s] EXCEPT !.renewed = now]
  <2>3. new \in Stored /\ new.born = past[s].born /\ new.renewed = now  BY <1>1, <2>2 DEF Stored
  <2>4. new # None  BY <2>3, NoneAssumption
  <2>5. /\ store' = [store EXCEPT ![s] = p.rec]
        /\ past' = [past EXCEPT ![s] = new]
        /\ Continue(c, q) /\ UNCHANGED <<member, index, tokens>>
    BY <1>9 DEF RenewWrite
  <2> HIDE DEF new
  <2>6. past \in [Sessions -> Stored \cup {None}] /\ store \in [Sessions -> Session \cup {None}]
    BY DEF Inv, TypeOK
  <2>7. /\ past'[s] = new
        /\ \A d \in Sessions \ {s} : past'[d] = past[d]
        /\ past' \in [Sessions -> Stored \cup {None}]
    BY <2>1, <2>3, <2>5, <2>6
  <2>8. /\ store'[s] = p.rec
        /\ \A d \in Sessions \ {s} : store'[d] = store[d]
        /\ store' \in [Sessions -> Session \cup {None}]
    BY <2>1, <2>5, <2>6 DEF Within
  <2>9. StoreOK(store', past')  BY <2>1, <2>3, <2>4, <2>7, <2>8 DEF StoreOK, Inv
  <2>10. PastKept(past, past')
    BY <2>2, <2>3, <2>4, <2>7, PastStays DEF PastKept
  <2>11. PastOK(past', now)  BY <1>1, <2>2, <2>3, <2>7 DEF PastOK, Inv
  <2>12. TokensOK(tokens', past')
    <3>1. \A t \in tokens : t.sid \in Sessions /\ past[t.sid] # None  BY Typed DEF Token
    <3>2. QED  BY <2>4, <2>5, <2>7, <3>1 DEF TokensOK
  <2>13. q \in Call
    <3>1. "confirm" \in Stages  BY DEF Stages
    <3>2. QED  BY <1>1, <3>1 DEF Call
  <2>14. /\ q.pc = "confirm" /\ q.sid = s /\ q.user = p.user /\ q.as = p.as /\ q.held = p.held
         /\ q.began = p.began
    BY <1>1 DEF Call
  <2>15. CallOK(q, member, past', now)
    BY <2>1, <2>4, <2>7, <2>14 DEF CallOK, HasFields, Known, HasMembership, HasTimes
  <2>16. /\ calls' = [calls EXCEPT ![c] = q] /\ UNCHANGED <<member, now>>
         /\ index' \in [Users -> SUBSET Sessions] /\ tokens' \subseteq Token
         /\ issued' \in 0..MaxCalls
    BY <2>5 DEF Continue, Inv, TypeOK
  <2> HIDE DEF q, s
  <2>17. QED
    BY <2>7, <2>8, <2>9, <2>10, <2>11, <2>12, <2>13, <2>15, <2>16, StepKeeps
<1>10. CASE AssertActive(c)
  <2> DEFINE rec == store[p.sid]
  <2>1. /\ p.pc \in {"first", "second"} /\ p.user \in Users /\ p.sid \in Sessions
        /\ past[p.sid] # None /\ p.as \in Memberships /\ member[p.user] \in p.held
        /\ p.began <= now /\ (p.pc = "second" => p.as \in p.held)
    BY <1>1, <1>10 DEF AssertActive, CallOK, HasFields, Known, HasMembership, HasTimes
  <2>2. UNCHANGED <<member, store, index, tokens, past>>  BY <1>10 DEF AssertActive
  <2>3. CASE rec = None
    <3>1. Continue(c, Idle)  BY <1>10, <2>3 DEF AssertActive
    <3>2. QED  BY <1>2, <1>3, <2>2, <3>1
  <2>4. CASE rec # None /\ Expired(rec)
    <3>1. CallOK([p EXCEPT !.pc = "revoke"], member, past, now)
      BY <1>1, <2>1 DEF Call, CallOK, HasFields, Known, HasMembership, HasTimes
    <3>2. Continue(c, [p EXCEPT !.pc = "revoke"])  BY <1>10, <2>4 DEF AssertActive
    <3>3. QED  BY <1>2, <2>2, <3>1, <3>2, MoveKeeps
  <2>5. CASE rec # None /\ ~Expired(rec)
    <3> DEFINE stage == IF p.pc = "first" THEN "live" ELSE "serve"
               q == [p EXCEPT !.pc = stage]
    <3>1. /\ rec \in Session /\ rec.expires <= past[p.sid].born + MaxTTL
          /\ rec.idle <= past[p.sid].renewed + IdleTTL
          /\ past[p.sid].born \in Nat /\ past[p.sid].renewed \in Nat
      BY <2>1, <2>5, Typed DEF Inv, StoreOK, Within, Stored
    <3>2. p.began \in Nat  BY <1>1 DEF Call
    <3>3. p.began < past[p.sid].born + MaxTTL /\ p.began < past[p.sid].renewed + IdleTTL
      BY <1>1, <2>1, <2>5, <3>1, <3>2, LifetimeAssumption DEF Expired, Session
    <3>4. q \in Call
      <4>1. stage \in Stages  BY DEF Stages
      <4>2. QED  BY <1>1, <4>1 DEF Call
    <3>5. /\ q.pc = stage /\ q.user = p.user /\ q.sid = p.sid /\ q.as = p.as
          /\ q.held = p.held /\ q.began = p.began
      BY <1>1 DEF Call
    <3>6. CallOK(q, member, past, now)
      BY <2>1, <3>3, <3>5 DEF CallOK, HasFields, Known, HasMembership, HasTimes
    <3>7. Continue(c, q)  BY <1>10, <2>5 DEF AssertActive
    <3> HIDE DEF q
    <3>8. QED  BY <1>2, <2>2, <3>4, <3>6, <3>7, ReadKeeps
  <2>6. QED  BY <2>3, <2>4, <2>5
<1>11. CASE GuardLive(c)
  <2>1. /\ p.pc = "live" /\ p.user \in Users /\ p.as \in Memberships /\ member[p.user] \in p.held
    BY <1>1, <1>11 DEF GuardLive, CallOK, HasFields, HasMembership
  <2>2. UNCHANGED <<member, store, index, tokens, past>>  BY <1>11 DEF GuardLive
  <2>3. ASSUME NEW stage \in {"serve", "second"}, Unchanged(p),
               Continue(c, [p EXCEPT !.pc = stage])
        PROVE Inv'
    <3> DEFINE q == [p EXCEPT !.pc = stage]
    <3>1. q \in Call
      <4>1. stage \in Stages  BY DEF Stages
      <4>2. QED  BY <1>1, <4>1 DEF Call
    <3>2. CallOK(q, member, past, now)
      BY <1>1, <2>1, <2>3 DEF Unchanged, Call, CallOK, HasFields, Known, HasMembership, HasTimes
    <3>3. QED  BY <1>2, <2>2, <2>3, <3>1, <3>2, ReadKeeps
  <2>4. CASE Continue(c, Idle)  BY <1>2, <1>3, <2>2, <2>4
  <2>5. CASE Continue(c, [p EXCEPT !.pc = "revoke"])
    <3>1. CallOK([p EXCEPT !.pc = "revoke"], member, past, now)
      BY <1>1, <2>1 DEF Call, CallOK, HasFields, Known, HasMembership, HasTimes
    <3>2. QED  BY <1>2, <2>2, <2>5, <3>1, MoveKeeps
  <2>6. QED  BY <1>11, <2>3, <2>4, <2>5 DEF GuardLive
<1>12. CASE Serve(c)  BY <1>2, <1>3, <1>12 DEF Serve
<1>13. CASE RevokeRead(c)
  <2> DEFINE q == [p EXCEPT !.pc = "delete", !.rec = store[p.sid]]
  <2>1. p.pc = "revoke" /\ p.user \in Users /\ p.sid \in Sessions /\ past[p.sid] # None
    BY <1>1, <1>13 DEF RevokeRead, CallOK, HasFields, Known
  <2>2. store[p.sid] \in Session \cup {None}  BY <2>1, Typed
  <2>3. q \in Call
    <3>1. "delete" \in Stages  BY DEF Stages
    <3>2. QED  BY <1>1, <2>2, <3>1 DEF Call
  <2>4. CallOK(q, member, past, now)
    BY <1>1, <2>1 DEF Call, CallOK, HasFields, Known, HasMembership, HasTimes
  <2>5. QED  BY <1>2, <1>13, <2>3, <2>4, ReadKeeps DEF RevokeRead
<1>14. CASE RevokeDelete(c)
  <2>1. /\ p.pc = "delete" /\ p.user \in Users /\ p.sid \in Sessions /\ past[p.sid] # None
        /\ member[p.user] \in p.held /\ p.began <= now
    BY <1>1, <1>14 DEF RevokeDelete, CallOK, HasFields, Known, HasMembership, HasTimes
  <2> DEFINE q == IF p.rec = None THEN Idle ELSE [p EXCEPT !.pc = "unindex"]
  <2>2. /\ store' = [store EXCEPT ![p.sid] = None]
        /\ Continue(c, q) /\ UNCHANGED <<member, index, tokens, past>>
    BY <1>14 DEF RevokeDelete
  <2>3. q \in Call /\ CallOK(q, member, past, now)
    <3>1. CASE p.rec = None  BY <3>1, IdleOK
    <3>2. CASE p.rec # None
      <4>1. "unindex" \in Stages  BY DEF Stages
      <4>2. [p EXCEPT !.pc = "unindex"] \in Call  BY <1>1, <4>1 DEF Call
      <4>3. p.rec \in Session  BY <1>1, <3>2 DEF Call
      <4>4. CallOK([p EXCEPT !.pc = "unindex"], member, past, now)
        BY <1>1, <2>1, <4>3 DEF Call, CallOK, HasFields, Known, HasMembership, HasTimes
      <4>5. QED  BY <3>2, <4>2, <4>4
    <3>3. QED  BY <3>1, <3>2
  <2> HIDE DEF q
  <2>4. store' \in [Sessions -> Session \cup {None}]  BY <2>2 DEF Inv, TypeOK
  <2>5. StoreOK(store', past')  BY <2>2 DEF StoreOK, Inv, TypeOK
  <2>6. /\ index' \in [Users -> SUBSET Sessions] /\ tokens' \subseteq Token
        /\ past' \in [Sessions -> Stored \cup {None}] /\ issued' \in 0..MaxCalls
        /\ calls' = [calls EXCEPT ![c] = q] /\ UNCHANGED <<member, now>>
    BY <2>2 DEF Continue, Inv, TypeOK
  <2>7. TokensOK(tokens', past') /\ PastOK(past', now) /\ PastKept(past, past')
        /\ CallOK(q, member, past', now)
    BY <2>2, <2>3, PastStays DEF Inv
  <2>8. QED  BY <2>3, <2>4, <2>5, <2>6, <2>7, StepKeeps
<1>15. CASE Unindex(c)
  <2>1. p.rec.user \in Users
    BY <1>1, <1>15 DEF Unindex, CallOK, HasFields, Session
  <2>2. index' \in [Users -> SUBSET Sessions]  BY <1>2, <1>15, <2>1 DEF Unindex
  <2>3. QED  BY <1>3, <1>15, <2>2 DEF Unindex
<1>16. CASE ListSessions(c)
  <2> DEFINE q == [p EXCEPT !.pc = "wipe", !.todo = index[p.user]]
  <2>1. p.pc = "list" /\ p.user \in Users
    BY <1>1, <1>16 DEF ListSessions, CallOK, HasFields
  <2>2. q \in Call
    <3>1. "wipe" \in Stages  BY DEF Stages
    <3>2. index[p.user] \subseteq Sessions  BY <1>2, <2>1
    <3>3. QED  BY <1>1, <3>1, <3>2 DEF Call
  <2>3. CallOK(q, member, past, now)
    BY <1>1, <2>1 DEF Call, CallOK, HasFields, Known, HasMembership, HasTimes
  <2>4. QED  BY <1>2, <1>16, <2>2, <2>3, ReadKeeps DEF ListSessions
<1>17. CASE Wipe(c)
  <2>1. p.user \in Users  BY <1>1, <1>17 DEF Wipe, CallOK, HasFields
  <2>2. /\ store' = [s \in Sessions |-> IF s \in p.todo THEN None ELSE store[s]]
        /\ index' = [index EXCEPT ![p.user] = {}]
        /\ Continue(c, Idle) /\ UNCHANGED <<member, tokens, past>>
    BY <1>17 DEF Wipe
  <2>3. store' \in [Sessions -> Session \cup {None}] /\ StoreOK(store', past')
    BY <2>2 DEF StoreOK, Inv, TypeOK
  <2>4. /\ index' \in [Users -> SUBSET Sessions] /\ tokens' \subseteq Token
        /\ past' \in [Sessions -> Stored \cup {None}] /\ issued' \in 0..MaxCalls
        /\ calls' = [calls EXCEPT ![c] = Idle] /\ UNCHANGED <<member, now>>
    BY <1>2, <2>1, <2>2 DEF Continue, Inv, TypeOK
  <2>5. TokensOK(tokens', past') /\ PastOK(past', now) /\ PastKept(past, past')
    BY <2>2, PastStays DEF Inv
  <2>6. Idle \in Call /\ CallOK(Idle, member, past', now)  BY <1>1, IdleOK, IdleOwesNothing
  <2>7. QED  BY <2>3, <2>4, <2>5, <2>6, StepKeeps
<1>18. CASE Fail(c)  BY <1>2, <1>3, <1>18 DEF Fail
<1>19. QED
  BY <1>4, <1>5, <1>6, <1>7, <1>8, <1>9, <1>10, <1>11, <1>12, <1>13, <1>14, <1>15, <1>16, <1>17,
     <1>18
  DEF CallStep

-----------------------------------------------------------------------------
(* Changes of membership, and the passing of time. *)

\* A call of the user whose membership changes has seen the new one.
LEMMA AwareCallOK ==
    ASSUME NEW q \in Call, NEW u \in Users, NEW m \in Memberships \cup {None},
           NEW live \in [Users -> Memberships \cup {None}], NEW stored, NEW time,
           HasFields(q, stored), HasTimes(q, stored, time),
           q.pc # "idle" /\ q.user # u => live[q.user] \in q.held,
           q.pc \in {"answer", "second", "serve"} => q.as \in q.held,
           NEW r, r = IF q.user = u THEN [q EXCEPT !.held = q.held \cup {m}] ELSE q
    PROVE  r \in Call /\ CallOK(r, [live EXCEPT ![u] = m], stored, time)
<1>1. CASE q.user = u
  <2>1. r = [q EXCEPT !.held = q.held \cup {m}]  BY <1>1
  <2>2. r \in Call  BY <2>1 DEF Call
  <2>3. /\ r.pc = q.pc /\ r.user = q.user /\ r.sid = q.sid /\ r.as = q.as /\ r.rec = q.rec
        /\ r.began = q.began /\ r.held = q.held \cup {m}
    BY <2>1 DEF Call
  <2>4. HasFields(r, stored)  BY <2>3 DEF HasFields
  <2>5. HasTimes(r, stored, time)  BY <2>3 DEF HasTimes
  <2>6. HasMembership(r, [live EXCEPT ![u] = m])  BY <1>1, <2>3 DEF HasMembership
  <2>7. QED  BY <2>2, <2>4, <2>5, <2>6 DEF CallOK
<1>2. CASE q.user # u
  <2>1. r = q  BY <1>2
  <2>2. HasMembership(q, [live EXCEPT ![u] = m])
    <3>1. q.pc # "idle" => q.user \in Users  BY DEF HasFields
    <3>2. q.pc # "idle" => [live EXCEPT ![u] = m][q.user] = live[q.user]  BY <1>2, <3>1
    <3>3. QED  BY <1>2, <3>2 DEF HasMembership
  <2>3. QED  BY <2>1, <2>2 DEF CallOK
<1>3. QED  BY <1>1, <1>2

LEMMA AwareKeeps ==
    ASSUME Inv, NEW u \in Users, NEW m \in Memberships \cup {None}, NEW cs \in [Calls -> Call],
           \A d \in Calls : /\ HasFields(cs[d], past) /\ HasTimes(cs[d], past, now)
                            /\ cs[d].pc # "idle" /\ cs[d].user # u
                                 => member[cs[d].user] \in cs[d].held
                            /\ cs[d].pc \in {"answer", "second", "serve"}
                                 => cs[d].as \in cs[d].held,
           member' = [member EXCEPT ![u] = m], calls' = Aware(cs, u, m),
           issued' \in 0..MaxCalls, UNCHANGED <<store, index, tokens, past, now>>
    PROVE  Inv'
<1>1. member \in [Users -> Memberships \cup {None}]  BY DEF Inv, TypeOK
<1>2. member' \in [Users -> Memberships \cup {None}]  BY <1>1
<1>3. ASSUME NEW d \in Calls
      PROVE calls'[d] \in Call /\ CallOK(calls'[d], member', past', now')
  <2> DEFINE r == IF cs[d].user = u THEN [cs[d] EXCEPT !.held = cs[d].held \cup {m}] ELSE cs[d]
  <2>1. calls'[d] = r  BY DEF Aware
  <2>2. cs[d] \in Call  OBVIOUS
  <2> HIDE DEF r
  <2>3. r \in Call /\ CallOK(r, [member EXCEPT ![u] = m], past, now)
    BY <1>1, <2>2, AwareCallOK DEF r
  <2>4. QED  BY <2>1, <2>3
<1>4. calls' \in [Calls -> Call]  BY <1>3 DEF Aware
<1>5. TypeOK'  BY <1>2, <1>4 DEF Inv, TypeOK
<1>6. StoreOK(store', past') /\ TokensOK(tokens', past') /\ PastOK(past', now')  BY DEF Inv
<1>7. QED  BY <1>3, <1>5, <1>6 DEF Inv

LEMMA ChangeKeeps ==
    ASSUME Inv, NEW c \in Calls, NEW u \in Users, NEW m \in Memberships \cup {None},
           ChangeMembership(c, u, m)
    PROVE  Inv'
<1> DEFINE q == [Idle EXCEPT !.pc = "list", !.user = u]
           cs == [calls EXCEPT ![c] = q]
<1>1. q \in Call
  <2>1. "list" \in Stages  BY DEF Stages
  <2>2. QED  BY <2>1 DEF Idle, Call
<1>2. q.pc = "list" /\ q.user = u /\ q.began = 0  BY DEF Idle
<1> HIDE DEF q
<1>3. cs \in [Calls -> Call]  BY <1>1 DEF Inv, TypeOK
<1>4. ASSUME NEW d \in Calls
      PROVE /\ HasFields(cs[d], past) /\ HasTimes(cs[d], past, now)
            /\ cs[d].pc # "idle" /\ cs[d].user # u => member[cs[d].user] \in cs[d].held
            /\ cs[d].pc \in {"answer", "second", "serve"} => cs[d].as \in cs[d].held
  <2>1. CASE d = c
    <3>1. cs[d] = q  BY <2>1 DEF Inv, TypeOK
    <3>2. now \in Nat  BY Typed
    <3>3. HasFields(q, past)  BY <1>2 DEF HasFields
    <3>4. HasTimes(q, past, now)  BY <1>2, <3>2 DEF HasTimes
    <3> HIDE DEF cs
    <3>5. QED  BY <1>2, <3>1, <3>3, <3>4
  <2>2. CASE d # c
    <3>1. cs[d] = calls[d]  BY <2>2 DEF Inv, TypeOK
    <3> HIDE DEF cs
    <3>2. CallOK(calls[d], member, past, now)  BY Typed
    <3>3. QED  BY <3>1, <3>2 DEF CallOK, HasMembership
  <2>3. QED  BY <2>1, <2>2
<1>5. /\ member' = [member EXCEPT ![u] = m] /\ calls' = Aware(cs, u, m)
      /\ UNCHANGED <<store, index, tokens, past, now>>
  BY DEF ChangeMembership, q
<1>6. issued' \in 0..MaxCalls  BY LifetimeAssumption DEF ChangeMembership, Inv, TypeOK
<1> HIDE DEF cs
<1>7. QED  BY <1>3, <1>4, <1>5, <1>6, AwareKeeps

LEMMA RejoinKeeps ==
    ASSUME Inv, NEW u \in Users, NEW m \in Memberships, Rejoin(u, m) PROVE Inv'
<1>1. calls \in [Calls -> Call]  BY DEF Inv, TypeOK
<1>2. ASSUME NEW d \in Calls
      PROVE /\ HasFields(calls[d], past) /\ HasTimes(calls[d], past, now)
            /\ calls[d].pc # "idle" /\ calls[d].user # u => member[calls[d].user] \in calls[d].held
            /\ calls[d].pc \in {"answer", "second", "serve"} => calls[d].as \in calls[d].held
  BY Typed DEF CallOK, HasMembership
<1>3. issued' \in 0..MaxCalls  BY LifetimeAssumption DEF Rejoin, Inv, TypeOK
<1>4. /\ member' = [member EXCEPT ![u] = m] /\ calls' = Aware(calls, u, m)
      /\ UNCHANGED <<store, index, tokens, past, now>>
  BY DEF Rejoin
<1>5. QED  BY <1>1, <1>2, <1>3, <1>4, AwareKeeps

LEMMA LapseKeeps ==
    ASSUME Inv, NEW s \in Sessions, Lapse(s) PROVE Inv'
<1>1. /\ store' = [store EXCEPT ![s] = None]
      /\ UNCHANGED <<member, index, tokens, calls, past, now, issued>>
  BY DEF Lapse
<1>2. TypeOK'  BY <1>1 DEF Inv, TypeOK
<1>3. StoreOK(store', past')  BY <1>1 DEF StoreOK, Inv, TypeOK
<1>4. /\ TokensOK(tokens', past') /\ PastOK(past', now')
      /\ \A c \in Calls : CallOK(calls'[c], member', past', now')
  BY <1>1 DEF Inv
<1>5. QED  BY <1>2, <1>3, <1>4 DEF Inv

LEMMA TickKeeps == ASSUME Inv, Tick PROVE Inv'
<1>1. now' = now + 1 /\ UNCHANGED <<member, store, index, tokens, calls, past, issued>>
  BY DEF Tick
<1>2. now \in Nat /\ now' \in Nat /\ now <= now'  BY <1>1, Typed
<1>3. TypeOK'  BY <1>1, LifetimeAssumption DEF Tick, Inv, TypeOK
<1>4. StoreOK(store', past') /\ TokensOK(tokens', past')  BY <1>1 DEF Inv
<1>5. PastOK(past', now')  BY <1>1, <1>2, Typed DEF Inv, PastOK, Stored
<1>6. ASSUME NEW c \in Calls PROVE CallOK(calls'[c], member', past', now')
  <2>1. calls[c] \in Call /\ CallOK(calls[c], member, past, now)  BY Typed
  <2>2. past \in [Sessions -> Stored \cup {None}] /\ PastKept(past, past)
    BY PastStays DEF Inv, TypeOK
  <2>3. CallOK(calls[c], member, past, now')  BY <1>2, <2>1, <2>2, CallCarries
  <2>4. QED  BY <1>1, <2>3
<1>7. QED  BY <1>3, <1>4, <1>5, <1>6 DEF Inv

-----------------------------------------------------------------------------
(* The theorems. *)

\* The invariant holds initially and every action keeps it.
THEOREM Inductive == Spec => []Inv
<1>1. Init => Inv
  <2>1. SUFFICES ASSUME Init PROVE Inv  OBVIOUS
  <2>2. Idle \in Call  BY DEF Idle, Call, Stages
  <2>3. TypeOK
    BY <2>1, <2>2, LifetimeAssumption DEF Init, TypeOK
  <2>4. StoreOK(store, past) /\ TokensOK(tokens, past) /\ PastOK(past, now)
    BY <2>1 DEF Init, StoreOK, TokensOK, PastOK
  <2>5. \A c \in Calls : CallOK(calls[c], member, past, now)
    BY <2>1, IdleOwesNothing DEF Init
  <2>6. QED  BY <2>3, <2>4, <2>5 DEF Inv
<1>2. Inv /\ [Next]_vars => Inv'
  <2>1. SUFFICES ASSUME Inv, [Next]_vars PROVE Inv'  OBVIOUS
  <2>2. CASE Next
    BY <2>1, <2>2, CallStepKeeps, SignInKeeps, TokenBeginKeeps, ChangeKeeps, RejoinKeeps,
       LapseKeeps, TickKeeps
    DEF Next
  <2>3. CASE UNCHANGED vars
    BY <2>1, <2>3 DEF vars, Inv, TypeOK, StoreOK, TokensOK, PastOK
  <2>4. QED  BY <2>1, <2>2, <2>3
<1>3. QED  BY <1>1, <1>2, PTL DEF Spec

\* Every variable keeps its type: sessions, tokens and the calls in flight are
\* records of the shape the code gives them, whatever overlaps.
THEOREM TypeCorrect == Spec => []TypeOK
<1>1. Inv => TypeOK  BY DEF Inv
<1>2. QED  BY <1>1, Inductive, PTL

\* However logins, renewals, requests, revocations and failures overlap, a request
\* runs and a token is issued only for a membership its user held during the call
\* (OptionalJwtAuthGuard's live check and the second read of the auth service).
THEOREM AdmissionSound == Spec => []AdmittedInTime
<1>1. Inv => AdmittedInTime  BY DEF Inv, CallOK, HasMembership, AdmittedInTime
<1>2. QED  BY <1>1, Inductive, PTL

\* No renewal extends a session's absolute lifetime, and no request that begins
\* after the idle timeout or that lifetime runs (create, renew, assertActive).
THEOREM LifetimeSound == Spec => []LifetimeBounded
<1>1. Inv => LifetimeBounded  BY DEF Inv, CallOK, HasTimes, LifetimeBounded
<1>2. QED  BY <1>1, Inductive, PTL
==============================================================================
