--------------------------- MODULE AuthSessionProofs ---------------------------
(***************************************************************************)
(* Proofs about AuthSession, for any number of requests and any lifetimes. *)
(* A request relies on an exchange that others may have started and on a   *)
(* session the server may have forgotten; the invariant says what holds of *)
(* each while the world does not move, and who is excused when it does.    *)
(***************************************************************************)
EXTENDS AuthSession, FiniteSetTheorems, TLAPS

\* Session s is alive at time t for membership m.
Stands(s, t, m) == s.of = m /\ t < s.idle /\ t < s.end

\* No session outlives what its last renewal gave it.
SessionsAt(ss, t) ==
    /\ IsFiniteSet(DOMAIN ss) /\ DOMAIN ss = 1 .. Cardinality(DOMAIN ss)
    /\ \A n \in DOMAIN ss : /\ ss[n] \in Session
                            /\ ss[n].idle <= t + IdleTTL /\ ss[n].idle <= ss[n].end

\* An answer is of a session of the server, which only gets younger...
Describes(a, ss) ==
    /\ a \in Auth /\ a.sid \in DOMAIN ss
    /\ a.of = ss[a.sid].of /\ a.end = ss[a.sid].end
    /\ a.idle <= ss[a.sid].idle
\* ...and is good for what it says as long as the world has not moved.
InTime(a, t, m, ss) ==
    /\ t <= a.exp /\ t < a.idle /\ a.idle \in {a.end, t + IdleTTL}
    /\ Stands(ss[a.sid], t, m)

\* An exchange on its way.
Sound(e, t, m, ss) ==
    /\ e.sid # None => e.sid \in DOMAIN ss
    /\ e.answer # None => Describes(e.answer, ss)
    /\ e.answer # None /\ ~e.overtaken => InTime(e.answer, t, m, ss)

Known ==
    /\ SessionsAt(sessions, now)
    /\ auth # None => Describes(auth, sessions)
    /\ exchange # None => Sound(exchange, now, member, sessions)

\* Who waits for a first answer, and who for another one in place of a renewal.
Waits(x, e, a) ==
    /\ x.pc = "ensure" => e # None /\ a = None
    /\ x.pc = "again" => e # None /\ e.sid = None
Waiting == \A r \in Requests : Waits(req[r], exchange, auth)

\* What a request may count on that nothing got in the way of.
Clear(x, t, m, ss) ==
    /\ x.pc = "resent" => /\ x.status # "rejected"
                          /\ x.status = None => /\ x.token # None /\ t <= x.token.exp
                                                /\ Stands(ss[x.token.sid], t, m)
    /\ x.pc = "over" => x.status \notin {"rejected", "failed"}
Excuses == \A r \in Requests :
    /\ req[r].token # None => req[r].token.sid \in DOMAIN sessions
    /\ req[r].pc \in {"sent", "resent"} => req[r].status # "failed"
    /\ r \notin excused => Clear(req[r], now, member, sessions)

\* What has been carried out is not tried again.
Carried(n, x) ==
    /\ n \in {0, 1}
    /\ n = 1 => \/ x.pc \in {"sent", "resent"} /\ x.status \in {"ok", "lost"}
                \/ x.pc = "over"
CarriedOut == \A r \in Requests : Carried(effects[r], req[r])

Inv == TypeOK /\ Known /\ Waiting /\ Excuses /\ CarriedOut

\* The heartbeat is due before the session is idle too long, or is renewing it.
Shown ==
    steady /\ auth # None =>
        /\ auth.idle = auth.end \/ now < auth.idle
        /\ heartbeat = None => exchange # None
        /\ heartbeat # None => /\ now <= heartbeat
                               /\ auth.idle = auth.end \/ heartbeat < auth.idle

-----------------------------------------------------------------------------
(* Data *)

LEMMA Numbers ==
    /\ AccessTTL \in Nat /\ ProofTTL \in Nat /\ AccessMargin \in Nat /\ IdleMargin \in Nat
    /\ IdleTTL \in Nat /\ IdleTTL > 0 /\ Lifetime \in Nat /\ Lifetime > 0
    /\ MinDelay \in Nat /\ MinDelay > 0
    /\ MaxTime \in Nat /\ MaxChanges \in Nat
BY TimesAssumption, BoundsAssumption

LEMMA Nones == /\ None \notin Nat /\ None \notin Auth /\ None \notin Token /\ None \notin Exchange
               /\ None \notin {"ok", "refused", "rejected", "failed", "lost"}
BY NoneAssumption DEF Outcomes

LEMMA LeastIs ==
    ASSUME NEW a \in Int, NEW b \in Int
    PROVE  /\ Least(a, b) \in {a, b} /\ Least(a, b) <= a /\ Least(a, b) <= b
           /\ Most(a, b) \in {a, b} /\ Most(a, b) >= a /\ Most(a, b) >= b
BY DEF Least, Most

\* The heartbeat is due later, and before the idle end if the answer is good for all of it.
LEMMA RefreshInIs ==
    ASSUME NEW a \in Auth, NEW t \in Nat, now = t
    PROVE  /\ t + RefreshIn(a) \in Nat /\ t <= t + RefreshIn(a)
           /\ IdleMargin # 0 /\ MinDelay < IdleTTL /\ a.idle = t + IdleTTL => t + RefreshIn(a) < a.idle
<1> DEFINE x == a.idle - now - IdleMargin
           y == a.exp - now - AccessMargin
<1>1. a.idle \in Nat /\ a.exp \in Nat  BY DEF Auth
<1>2. x \in Int /\ y \in Int  BY <1>1, Numbers
<1>3. Least(x, y) \in {x, y} /\ Least(x, y) <= x  BY <1>2, LeastIs
<1>4. RefreshIn(a) \in {MinDelay, Least(x, y)} /\ RefreshIn(a) >= MinDelay
  BY <1>2, <1>3, Numbers, LeastIs DEF RefreshIn
<1>5. RefreshIn(a) \in Nat  BY <1>2, <1>3, <1>4, Numbers
<1>6. ASSUME IdleMargin # 0, MinDelay < IdleTTL, a.idle = t + IdleTTL
      PROVE  t + RefreshIn(a) < a.idle
  <2>1. x < IdleTTL  BY <1>6, Numbers
  <2>2. RefreshIn(a) < IdleTTL  BY <1>2, <1>3, <1>4, <1>6, <2>1, Numbers
  <2>3. QED  BY <1>5, <1>6, <2>2, Numbers
<1>7. QED  BY <1>5, <1>6

\* Types of what TypeOK leaves inside.
LEMMA Types ==
    ASSUME TypeOK
    PROVE  /\ now \in Nat
           /\ member # None => member \in Nat
           /\ auth # None => auth \in Auth
           /\ exchange # None => exchange \in Exchange
           /\ \A r \in Requests : req[r] \in Request
BY Numbers DEF TypeOK, Memberships

\* Sessions that are new or have become younger.
Grown(ss, tt) ==
    /\ DOMAIN ss \subseteq DOMAIN tt
    /\ \A n \in DOMAIN ss : tt[n].of = ss[n].of /\ tt[n].end = ss[n].end /\ ss[n].idle <= tt[n].idle

LEMMA Younger ==
    ASSUME NEW ss, NEW tt, NEW t \in Nat, NEW m, SessionsAt(ss, t), SessionsAt(tt, t), Grown(ss, tt)
    PROVE  /\ \A a : Describes(a, ss) => Describes(a, tt)
           /\ \A n \in DOMAIN ss : Stands(ss[n], t, m) => Stands(tt[n], t, m)
           /\ \A e : Sound(e, t, m, ss) => Sound(e, t, m, tt)
           /\ \A x : (x.token # None => x.token.sid \in DOMAIN ss) /\ Clear(x, t, m, ss) => Clear(x, t, m, tt)
<1>1. \A n \in DOMAIN ss : /\ ss[n].idle \in Nat /\ ss[n].end \in Nat
                           /\ tt[n].idle \in Nat /\ tt[n].end \in Nat
  BY DEF SessionsAt, Grown, Session
<1>2. \A n \in DOMAIN ss : Stands(ss[n], t, m) => Stands(tt[n], t, m)
  BY <1>1 DEF Stands, Grown
<1>3. ASSUME NEW a, Describes(a, ss) PROVE Describes(a, tt)
  <2>1. a.idle \in Nat /\ a.sid \in DOMAIN ss  BY <1>3 DEF Describes, Auth
  <2>2. QED  BY <1>1, <1>3, <2>1 DEF Describes, Grown
<1>4. \A a : Describes(a, ss) /\ InTime(a, t, m, ss) => InTime(a, t, m, tt)
  BY <1>2 DEF Describes, InTime
<1>5. \A e : Sound(e, t, m, ss) => Sound(e, t, m, tt)
  BY <1>3, <1>4 DEF Sound, Grown
<1>6. \A x : (x.token # None => x.token.sid \in DOMAIN ss) /\ Clear(x, t, m, ss) => Clear(x, t, m, tt)
  BY <1>2 DEF Clear
<1>7. QED  BY <1>2, <1>3, <1>5, <1>6

-----------------------------------------------------------------------------
(* The world *)

\* An exchange overtaken owes nothing in time.
LEMMA OvertakenIs ==
    ASSUME TypeOK, NEW t, NEW m, exchange # None => Sound(exchange, now, member, sessions)
    PROVE  /\ Overtaken \in Exchange \cup {None}
           /\ exchange = None <=> Overtaken = None
           /\ exchange # None => Overtaken.sid = exchange.sid /\ Sound(Overtaken, t, m, sessions)
<1>1. CASE exchange = None  BY <1>1 DEF Overtaken
<1>2. CASE exchange # None
  <2>1. exchange \in Exchange  BY <1>2, Types
  <2>2. /\ Overtaken \in Exchange /\ Overtaken.overtaken /\ Overtaken.sid = exchange.sid
        /\ Overtaken.answer = exchange.answer
    BY <1>2, <2>1 DEF Overtaken, Exchange
  <2>3. QED  BY <1>2, <2>2, Nones DEF Sound
<1>3. QED  BY <1>1, <1>2

LEMMA TickInv == ASSUME Inv, Tick PROVE Inv'
<1>1. TypeOK /\ now \in Nat /\ now < MaxTime /\ now' = now + 1
  BY Types DEF Inv, Tick
<1>2. /\ sessions' = sessions /\ member' = member /\ auth' = auth /\ req' = req
      /\ exchange' = Overtaken /\ effects' = effects /\ heartbeat' = heartbeat /\ visible' = visible
      /\ excused' = excused \cup {r \in Requests : req[r].pc = "resent"}
  BY DEF Tick
<1>3. /\ exchange' \in Exchange \cup {None}
      /\ exchange = None <=> exchange' = None
      /\ exchange # None => exchange'.sid = exchange.sid /\ Sound(exchange', now', member', sessions')
  BY <1>1, <1>2, OvertakenIs DEF Inv, Known
<1>4. SessionsAt(sessions, now')
  <2>1. \A n \in DOMAIN sessions : sessions[n] \in Session /\ sessions[n].idle \in Nat
    BY DEF Inv, Known, SessionsAt, Session
  <2>2. \A n \in DOMAIN sessions : sessions[n].idle <= now' + IdleTTL
    BY <1>1, <2>1, Numbers DEF Inv, Known, SessionsAt
  <2>3. QED  BY <2>2 DEF Inv, Known, SessionsAt
<1>5. TypeOK'
  <2>1. now' \in 0 .. MaxTime  BY <1>1, Numbers
  <2>2. steady' \in BOOLEAN  BY DEF Tick, Inv, TypeOK
  <2>3. excused' \subseteq Requests  BY <1>1, <1>2 DEF TypeOK
  <2>4. QED  BY <1>1, <1>2, <1>3, <2>1, <2>2, <2>3 DEF TypeOK, Memberships
<1>6. Known'  BY <1>2, <1>3, <1>4 DEF Inv, Known
<1>7. Waiting'  BY <1>2, <1>3 DEF Inv, Waiting, Waits
<1>8. Excuses'  BY <1>2 DEF Inv, Excuses, Clear
<1>9. CarriedOut'  BY <1>2 DEF Inv, CarriedOut
<1>10. QED  BY <1>5, <1>6, <1>7, <1>8, <1>9 DEF Inv

LEMMA ChangeInv == ASSUME Inv, NEW m \in Memberships, Change(m) PROVE Inv'
<1>1. /\ sessions' = sessions /\ now' = now /\ auth' = auth /\ req' = req
      /\ exchange' = Overtaken /\ effects' = effects /\ heartbeat' = heartbeat /\ visible' = visible
      /\ excused' = excused \cup {r \in Requests : req[r].pc \notin {"idle", "over"}}
      /\ member' = m /\ steady' = steady
  BY DEF Change
<1>2. /\ exchange' \in Exchange \cup {None}
      /\ exchange = None <=> exchange' = None
      /\ exchange # None => exchange'.sid = exchange.sid /\ Sound(exchange', now', member', sessions')
  BY <1>1, OvertakenIs DEF Inv, Known
<1>3. TypeOK'  BY <1>1, <1>2 DEF Inv, TypeOK, Memberships
<1>4. Known'  BY <1>1, <1>2 DEF Inv, Known
<1>5. Waiting'  BY <1>1, <1>2 DEF Inv, Waiting, Waits
<1>6. Excuses'  BY <1>1 DEF Inv, Excuses, Clear
<1>7. CarriedOut'  BY <1>1 DEF Inv, CarriedOut
<1>8. QED  BY <1>3, <1>4, <1>5, <1>6, <1>7 DEF Inv

LEMMA ServeInv == ASSUME Inv, NEW r \in Requests, Serve(r) PROVE Inv'
<1> DEFINE x == req[r]
           s == IF ~Valid(x.token) THEN "rejected"
                ELSE IF <<r, member>> \in Refused THEN "refused" ELSE "ok"
<1>1. TypeOK /\ x \in Request /\ x.pc \in {"sent", "resent"} /\ x.status = None
  BY Types DEF Inv, Serve
<1>2. s \in {"rejected", "refused", "ok"} /\ (s # "rejected" <=> Valid(x.token))
  OBVIOUS
<1>3. /\ req' = [req EXCEPT ![r].status = s]
      /\ effects' = IF s = "ok" THEN [effects EXCEPT ![r] = @ + 1] ELSE effects
      /\ sessions' = sessions /\ now' = now /\ auth' = auth /\ heartbeat' = heartbeat
      /\ visible' = visible /\ steady' = steady
  BY DEF Serve
<1>4. \/ UNCHANGED <<member, exchange, excused>>
      \/ /\ member' = None /\ exchange' = Overtaken
         /\ excused' = excused \cup {q \in Requests : req[q].pc \notin {"idle", "over"}}
  BY DEF Serve
<1>5. s # "rejected" <=> /\ x.token # None /\ now <= x.token.exp
                         /\ Stands(sessions[x.token.sid], now, member)
  BY <1>2 DEF Valid, Alive, Stands
<1> HIDE DEF s
<1>6. /\ \A q \in Requests : q # r => req'[q] = req[q]
      /\ req'[r] \in Request /\ req'[r].pc = x.pc /\ req'[r].token = x.token /\ req'[r].status = s
  BY <1>1, <1>2, <1>3 DEF TypeOK, Request, Outcomes
<1> HIDE DEF x
<1>7. /\ exchange' \in Exchange \cup {None}
      /\ exchange = None <=> exchange' = None
      /\ exchange # None => exchange'.sid = exchange.sid /\ Sound(exchange', now', member', sessions')
  <2>1. CASE UNCHANGED <<member, exchange, excused>>
    BY <1>1, <1>3, <2>1, Types DEF Inv, Known
  <2>2. CASE exchange' = Overtaken
    BY <1>1, <1>3, <2>2, OvertakenIs DEF Inv, Known
  <2>3. QED  BY <1>4, <2>1, <2>2
<1>8. Carried(effects'[r], req'[r])
  <2>1. Carried(effects[r], x)  BY DEF Inv, CarriedOut, x
  <2>2. effects[r] = 0  BY <1>1, <2>1, Nones DEF Carried
  <2>3. effects'[r] = IF s = "ok" THEN 1 ELSE 0  BY <1>1, <1>3, <2>2 DEF TypeOK
  <2>4. QED  BY <1>1, <1>6, <2>3 DEF Carried
<1>9. CarriedOut'
  <2>1. \A q \in Requests : q # r => effects'[q] = effects[q]  BY <1>1, <1>3 DEF TypeOK
  <2>2. QED  BY <1>6, <1>8, <2>1 DEF Inv, CarriedOut
<1>10. TypeOK'
  <2>1. req' \in [Requests -> Request]
    <3>1. DOMAIN req' = Requests  BY <1>1, <1>3 DEF TypeOK
    <3>2. \A q \in Requests : req'[q] \in Request  BY <1>1, <1>6, Types
    <3>3. req' = [q \in Requests |-> req'[q]]  BY <1>1, <1>3 DEF TypeOK
    <3>4. QED  BY <3>2, <3>3
  <2>2. effects' \in [Requests -> Nat]  BY <1>1, <1>3 DEF TypeOK
  <2>3. member' \in Memberships  BY <1>1, <1>4 DEF TypeOK, Memberships
  <2>4. excused' \subseteq Requests  BY <1>1, <1>4 DEF TypeOK
  <2>5. QED  BY <1>1, <1>3, <1>7, <2>1, <2>2, <2>3, <2>4 DEF TypeOK, Memberships
<1>11. Known'  BY <1>3, <1>7 DEF Inv, Known
<1>12. Waiting'
  <2>1. \A q \in Requests : Waits(req[q], exchange, auth)  BY DEF Inv, Waiting
  <2>2. Waits(req'[r], exchange', auth')  BY <1>1, <1>6 DEF Waits
  <2>3. \A q \in Requests : q # r => Waits(req'[q], exchange', auth')
    BY <1>3, <1>6, <1>7, <2>1 DEF Waits
  <2>4. QED  BY <2>2, <2>3 DEF Waiting
<1>13. Excuses'
  <2>1. CASE UNCHANGED <<member, exchange, excused>>
    <3>1. ASSUME r \notin excused PROVE Clear(req'[r], now, member, sessions)
      <4>1. Clear(x, now, member, sessions)  BY <3>1 DEF Inv, Excuses, x
      <4>2. x.pc = "resent" => s # "rejected"  BY <1>1, <1>5, <4>1 DEF Clear
      <4>3. QED  BY <1>1, <1>2, <1>6, <4>2, Nones DEF Clear
    <3>2. QED  BY <1>1, <1>2, <1>3, <1>6, <2>1, <3>1 DEF Inv, Excuses, x
  <2>2. CASE excused' = excused \cup {q \in Requests : req[q].pc \notin {"idle", "over"}}
    <3>1. r \in excused'  BY <1>1, <2>2 DEF x
    <3>2. \A q \in Requests : q \notin excused' => Clear(req'[q], now', member', sessions')
      BY <1>6, <2>2, <3>1 DEF Inv, Excuses, Clear
    <3>3. \A q \in Requests :
            /\ req'[q].token # None => req'[q].token.sid \in DOMAIN sessions'
            /\ req'[q].pc \in {"sent", "resent"} => req'[q].status # "failed"
      BY <1>1, <1>2, <1>3, <1>6 DEF Inv, Excuses, x
    <3>4. QED  BY <3>2, <3>3 DEF Excuses
  <2>3. QED  BY <1>4, <2>1, <2>2
<1>14. QED  BY <1>9, <1>10, <1>11, <1>12, <1>13 DEF Inv

\* An answer of the server: a session grows, and the exchange is answered.
LEMMA AnswerInv ==
    ASSUME Inv, exchange # None,
           UNCHANGED <<now, member, auth, heartbeat, visible, req, effects, excused, steady>>,
           SessionsAt(sessions', now), Grown(sessions, sessions'),
           exchange' \in Exchange, exchange'.sid = exchange.sid,
           Sound(exchange', now, member, sessions')
    PROVE  Inv' /\ exchange' # None
<1>1. TypeOK /\ now \in Nat  BY Types DEF Inv
<1>2. TypeOK'  BY <1>1 DEF TypeOK, SessionsAt, Memberships
<1>3. Known'  BY <1>1, Nones, Younger DEF Inv, Known
<1>4. Waiting'  BY Nones DEF Inv, Waiting, Waits
<1>5. Excuses'
  <2>1. \A r \in Requests : req[r].token # None => req[r].token.sid \in DOMAIN sessions'
    BY DEF Inv, Excuses, Grown
  <2>2. \A r \in Requests : r \notin excused => Clear(req[r], now, member, sessions')
    BY <1>1, Younger DEF Inv, Known, Excuses
  <2>3. QED  BY <2>1, <2>2 DEF Inv, Excuses
<1>6. CarriedOut'  BY DEF Inv, CarriedOut
<1>7. QED  BY <1>2, <1>3, <1>4, <1>5, <1>6, Nones DEF Inv

LEMMA ServeRefreshInv == ASSUME Inv, ServeRefresh PROVE Inv' /\ exchange' # None
<1> DEFINE sid == exchange.sid
           old == sessions[sid]
           idle == Least(old.end, now + IdleTTL)
           slid == [old EXCEPT !.idle = idle]
           answer == [sid |-> sid, of |-> slid.of, exp |-> now + AccessTTL, idle |-> slid.idle, end |-> slid.end]
<1>1. /\ TypeOK /\ now \in Nat /\ exchange \in Exchange /\ exchange # None /\ sid # None
      /\ sid \in DOMAIN sessions /\ SessionsAt(sessions, now)
      /\ Sound(exchange, now, member, sessions)
  BY Types DEF ServeRefresh, Inv, Known, Sound
<1>2. old \in Session /\ old.idle \in Nat /\ old.end \in Nat /\ old.of \in Nat
      /\ old.idle <= now + IdleTTL /\ old.idle <= old.end
  BY <1>1 DEF SessionsAt, Session
<1>3. idle \in Nat /\ idle \in {old.end, now + IdleTTL} /\ idle <= old.end /\ idle <= now + IdleTTL
      /\ old.idle <= idle
  BY <1>1, <1>2, Numbers, LeastIs
<1>4. UNCHANGED <<now, member, auth, heartbeat, visible, req, effects, excused, steady>>
  BY DEF ServeRefresh, history
<1>5. CASE Alive(old)
  <2>1. /\ sessions' = [sessions EXCEPT ![sid] = slid]
        /\ exchange' = [exchange EXCEPT !.at = "answered", !.answer = answer]
    BY <1>5 DEF ServeRefresh, Answer
  <2>2. Stands(old, now, member)  BY <1>5 DEF Alive, Stands
  <2> HIDE DEF idle
  <2>3. slid \in Session /\ slid.of = old.of /\ slid.end = old.end /\ slid.idle = idle
    BY <1>2, <1>3 DEF Session
  <2> HIDE DEF old, slid
  <2>4. /\ answer \in Auth /\ answer.sid = sid /\ answer.of = old.of /\ answer.end = old.end
        /\ answer.idle = idle /\ answer.exp = now + AccessTTL
    <3>1. sid \in Nat  BY <1>1 DEF Exchange
    <3>2. QED  BY <1>1, <1>2, <1>3, <2>3, <3>1, Numbers DEF Auth
  <2> HIDE DEF answer, sid
  <2>5. DOMAIN sessions' = DOMAIN sessions /\ sessions'[sid] = slid
        /\ \A n \in DOMAIN sessions : n # sid => sessions'[n] = sessions[n]
    BY <1>1, <2>1
  <2>6. SessionsAt(sessions', now)
    <3>1. /\ IsFiniteSet(DOMAIN sessions)
          /\ DOMAIN sessions = 1 .. Cardinality(DOMAIN sessions)
          /\ \A n \in DOMAIN sessions : /\ sessions[n] \in Session
                                        /\ sessions[n].idle <= now + IdleTTL
                                        /\ sessions[n].idle <= sessions[n].end
      BY <1>1 DEF SessionsAt
    <3>2. \A n \in DOMAIN sessions : /\ sessions'[n] \in Session
                                     /\ sessions'[n].idle <= now + IdleTTL
                                     /\ sessions'[n].idle <= sessions'[n].end
      BY <1>1, <1>3, <2>3, <2>5, <3>1
    <3>3. QED  BY <2>5, <3>1, <3>2 DEF SessionsAt
  <2>7. Grown(sessions, sessions')
    <3>1. \A n \in DOMAIN sessions : sessions[n].idle \in Nat  BY <1>1 DEF SessionsAt, Session
    <3>2. QED  BY <1>1, <1>3, <2>3, <2>5, <3>1 DEF Grown, old
  <2>8. /\ exchange' \in Exchange /\ exchange'.sid = sid /\ exchange'.answer = answer
        /\ exchange'.overtaken = exchange.overtaken
    BY <1>1, <2>1, <2>4 DEF Exchange, sid
  <2>9. Describes(answer, sessions')  BY <1>1, <1>3, <2>3, <2>4, <2>5 DEF Describes
  <2>10. InTime(answer, now, member, sessions')
    <3>1. now <= answer.exp  BY <1>1, <2>4, Numbers
    <3>2. now < idle  BY <1>1, <1>2, <1>3, <2>2, Numbers DEF Stands
    <3>3. Stands(sessions'[sid], now, member)  BY <2>2, <2>3, <2>5, <3>2 DEF Stands
    <3>4. QED  BY <1>3, <2>4, <3>1, <3>2, <3>3 DEF InTime
  <2>11. Sound(exchange', now, member, sessions')
    BY <1>1, <2>5, <2>8, <2>9, <2>10 DEF Sound
  <2>12. QED  BY <1>1, <1>4, <2>6, <2>7, <2>8, <2>11, AnswerInv DEF sid
<1>6. CASE ~Alive(old)
  <2>1. /\ sessions' = sessions
        /\ \E b \in BOOLEAN : exchange' = [exchange EXCEPT !.at = "answered", !.overtaken = @ \/ b]
    BY <1>6 DEF ServeRefresh
  <2>2. /\ exchange' \in Exchange /\ exchange'.sid = exchange.sid
        /\ exchange'.answer = exchange.answer
        /\ exchange.overtaken => exchange'.overtaken
    BY <1>1, <2>1 DEF Exchange
  <2>3. Sound(exchange', now, member, sessions')  BY <1>1, <2>1, <2>2 DEF Sound
  <2>4. Grown(sessions, sessions')
    <3>1. \A n \in DOMAIN sessions : sessions[n].idle \in Nat  BY <1>1 DEF SessionsAt, Session
    <3>2. QED  BY <2>1, <3>1 DEF Grown
  <2>5. QED  BY <1>1, <1>4, <2>1, <2>2, <2>3, <2>4, AnswerInv
<1>7. QED  BY <1>5, <1>6

LEMMA ServeTelegramInv == ASSUME Inv, ServeTelegram PROVE Inv' /\ exchange' # None
<1> DEFINE sid == Cardinality(DOMAIN sessions) + 1
           idle == Least(now + Lifetime, now + IdleTTL)
           new == [of |-> member, idle |-> idle, end |-> now + Lifetime]
           answer == [sid |-> sid, of |-> new.of, exp |-> now + AccessTTL, idle |-> new.idle, end |-> new.end]
<1>1. /\ TypeOK /\ now \in Nat /\ exchange \in Exchange /\ exchange # None /\ exchange.sid = None
      /\ SessionsAt(sessions, now) /\ Sound(exchange, now, member, sessions)
  BY Types DEF ServeTelegram, Inv, Known
<1>2. UNCHANGED <<now, member, auth, heartbeat, visible, req, effects, excused, steady>>
  BY DEF ServeTelegram, history
<1>3. \A n \in DOMAIN sessions : /\ sessions[n] \in Session /\ sessions[n].idle \in Nat
                                 /\ sessions[n].idle <= now + IdleTTL
                                 /\ sessions[n].idle <= sessions[n].end
  BY <1>1 DEF SessionsAt, Session
<1>4. CASE member # None /\ now <= ProofTTL
  <2>1. /\ sessions' = [n \in 1 .. sid |-> IF n = sid THEN new ELSE sessions[n]]
        /\ exchange' = [exchange EXCEPT !.at = "answered", !.answer = answer]
    BY <1>4 DEF ServeTelegram, Answer
  <2>2. member \in Nat  BY <1>1, <1>4, Types
  <2>3. /\ idle \in Nat /\ idle \in {now + Lifetime, now + IdleTTL}
        /\ idle <= now + Lifetime /\ idle <= now + IdleTTL /\ now < idle
    BY <1>1, Numbers, LeastIs
  <2> HIDE DEF idle
  <2>4. new \in Session /\ new.of = member /\ new.idle = idle /\ new.end = now + Lifetime
    BY <1>1, <2>2, <2>3, Numbers DEF Session
  <2> HIDE DEF new
  <2>5. Cardinality(DOMAIN sessions) \in Nat /\ DOMAIN sessions = 1 .. Cardinality(DOMAIN sessions)
    BY <1>1, FS_CardinalityType DEF SessionsAt
  <2>6. sid \in Nat /\ DOMAIN sessions \subseteq 1 .. sid /\ sid \in 1 .. sid /\ sid \notin DOMAIN sessions
    BY <2>5
  <2>7. /\ answer \in Auth /\ answer.sid = sid /\ answer.of = member /\ answer.end = now + Lifetime
        /\ answer.idle = idle /\ answer.exp = now + AccessTTL
    BY <1>1, <2>2, <2>3, <2>4, <2>6, Numbers DEF Auth
  <2> HIDE DEF answer, sid
  <2>8. /\ DOMAIN sessions' = 1 .. sid /\ sessions'[sid] = new
        /\ \A n \in DOMAIN sessions : sessions'[n] = sessions[n]
        /\ \A n \in 1 .. sid : n # sid => n \in DOMAIN sessions
    <3>1. \A n \in 1 .. sid : n # sid => n \in DOMAIN sessions  BY <2>5 DEF sid
    <3>2. QED  BY <2>1, <2>6, <3>1
  <2>9. SessionsAt(sessions', now)
    <3>1. IsFiniteSet(1 .. sid) /\ Cardinality(1 .. sid) = sid  BY <2>6, FS_Interval
    <3>2. ASSUME NEW n \in 1 .. sid
          PROVE  /\ sessions'[n] \in Session
                 /\ sessions'[n].idle <= now + IdleTTL /\ sessions'[n].idle <= sessions'[n].end
      BY <1>3, <2>3, <2>4, <2>8
    <3>3. QED  BY <2>8, <3>1, <3>2 DEF SessionsAt
  <2>10. Grown(sessions, sessions')  BY <1>3, <2>6, <2>8 DEF Grown
  <2>11. /\ exchange' \in Exchange /\ exchange'.sid = None /\ exchange'.answer = answer
    BY <1>1, <2>1, <2>7 DEF Exchange
  <2>12. Describes(answer, sessions')  BY <2>3, <2>4, <2>6, <2>7, <2>8 DEF Describes
  <2>13. InTime(answer, now, member, sessions')
    <3>1. now <= answer.exp  BY <1>1, <2>7, Numbers
    <3>2. now < now + Lifetime  BY <1>1, Numbers
    <3>3. QED  BY <2>3, <2>4, <2>7, <2>8, <3>1, <3>2 DEF InTime, Stands
  <2>14. Sound(exchange', now, member, sessions')
    BY <2>11, <2>12, <2>13 DEF Sound
  <2>15. QED  BY <1>1, <1>2, <2>9, <2>10, <2>11, <2>14, AnswerInv
<1>5. CASE ~(member # None /\ now <= ProofTTL)
  <2>1. exchange' = [exchange EXCEPT !.at = "answered"] /\ sessions' = sessions
    BY <1>5 DEF ServeTelegram
  <2>2. /\ exchange' \in Exchange /\ exchange'.sid = exchange.sid
        /\ exchange'.answer = exchange.answer /\ exchange'.overtaken = exchange.overtaken
    BY <1>1, <2>1 DEF Exchange
  <2>3. Sound(exchange', now, member, sessions')  BY <1>1, <2>1, <2>2 DEF Sound
  <2>4. Grown(sessions, sessions')  BY <1>3, <2>1 DEF Grown
  <2>5. QED  BY <1>1, <1>2, <2>1, <2>2, <2>3, <2>4, AnswerInv
<1>6. QED  BY <1>4, <1>5

-----------------------------------------------------------------------------
(* The client *)

LEMMA Exchanges ==
    ASSUME TypeOK
    PROVE  /\ SignIn \in Exchange /\ SignIn.sid = None
           /\ auth # None => Renewal(auth) \in Exchange
           /\ exchange # None => RefreshExchange = exchange /\ AuthenticateFromTelegram = exchange
           /\ AuthenticateFromTelegram \in Exchange /\ RefreshExchange \in Exchange
<1>1. auth # None => auth \in Auth  BY Types
<1>2. auth # None => auth.sid \in Nat  BY <1>1 DEF Auth
<1>3. SignIn \in Exchange /\ SignIn.sid = None  BY DEF SignIn, Exchange
<1>4. auth # None => Renewal(auth) \in Exchange  BY <1>2 DEF Renewal, Exchange
<1>5. exchange # None => exchange \in Exchange  BY Types
<1>6. QED  BY <1>1, <1>3, <1>4, <1>5 DEF RefreshExchange, AuthenticateFromTelegram

\* An exchange that begins owes nothing yet.
LEMMA BegunSound ==
    ASSUME Inv
    PROVE  /\ \A t, m, ss : Sound(SignIn, t, m, ss)
           /\ auth # None => Sound(Renewal(auth), now, member, sessions)
           /\ Sound(RefreshExchange, now, member, sessions)
           /\ Sound(AuthenticateFromTelegram, now, member, sessions)
<1>1. \A t, m, ss : Sound(SignIn, t, m, ss)  BY DEF SignIn, Sound
<1>2. auth # None => Sound(Renewal(auth), now, member, sessions)
  BY DEF Renewal, Sound, Inv, Known, Describes
<1>3. QED  BY <1>1, <1>2 DEF RefreshExchange, AuthenticateFromTelegram, Inv, Known

\* A message that goes out with the token of an answer.
LEMMA OutIs ==
    ASSUME NEW pc \in {"sent", "resent"}, NEW a, a # None, Describes(a, sessions), TypeOK
    PROVE  /\ Out(pc, a) \in Request /\ Out(pc, a).pc = pc /\ Out(pc, a).status = None
           /\ Out(pc, a).token # None /\ Out(pc, a).token.sid = a.sid /\ Out(pc, a).token.exp = a.exp
<1>1. a \in Auth /\ a.sid \in Nat /\ a.exp \in Nat  BY DEF Describes, Auth
<1>2. TokenOf(a) \in Token /\ TokenOf(a).sid = a.sid /\ TokenOf(a).exp = a.exp
  BY <1>1 DEF TokenOf, Token
<1>3. QED  BY <1>2, Nones DEF Out, Request, Stages

LEMMA OverIs ==
    ASSUME NEW s \in Outcomes
    PROVE  Over(s) \in Request /\ Over(s).pc = "over" /\ Over(s).status = s /\ Over(s).token = None
BY DEF Over, Request, Stages

\* A step of the client by one request.
LEMMA OneRequest ==
    ASSUME TypeOK, NEW r \in Requests, NEW x \in Request, req' = [req EXCEPT ![r] = x]
    PROVE  /\ req' \in [Requests -> Request] /\ req'[r] = x
           /\ \A q \in Requests : q # r => req'[q] = req[q]
BY DEF TypeOK

LEMMA StartInv == ASSUME Inv, NEW r \in Requests, Start(r) PROVE Inv'
<1>1. TypeOK /\ req[r].pc = "idle" /\ req[r] \in Request  BY Types DEF Inv, Start
<1>2. UNCHANGED <<now, member, sessions, auth, heartbeat, visible, effects, excused, steady>>
  BY DEF Start, world, history
<1>3. PICK x \in Request :
        /\ req' = [req EXCEPT ![r] = x]
        /\ \/ /\ x.pc = "sent" /\ x.status = None /\ auth # None
              /\ x.token # None /\ x.token.sid \in DOMAIN sessions /\ exchange' = exchange
           \/ /\ x.pc = "ensure" /\ auth = None /\ x.token = req[r].token
              /\ exchange' = AuthenticateFromTelegram
  <2>1. CASE auth # None
    <3>1. Describes(auth, sessions)  BY <2>1 DEF Inv, Known
    <3>2. auth.sid \in DOMAIN sessions  BY <3>1 DEF Describes
    <3>3. /\ Out("sent", auth) \in Request /\ Out("sent", auth).pc = "sent"
          /\ Out("sent", auth).status = None /\ Out("sent", auth).token # None
          /\ Out("sent", auth).token.sid \in DOMAIN sessions
      BY <1>1, <2>1, <3>1, <3>2, OutIs
    <3>4. req' = [req EXCEPT ![r] = Out("sent", auth)] /\ exchange' = exchange
      BY <2>1 DEF Start
    <3>5. QED  BY <2>1, <3>3, <3>4
  <2>2. CASE auth = None
    <3> DEFINE x == [req[r] EXCEPT !.pc = "ensure"]
    <3>1. x \in Request /\ x.pc = "ensure" /\ x.token = req[r].token
      BY <1>1 DEF Request, Stages
    <3>2. req' = [req EXCEPT ![r] = x] /\ exchange' = AuthenticateFromTelegram
      BY <2>2 DEF Start
    <3>3. QED  BY <2>2, <3>1, <3>2
  <2>3. QED  BY <2>1, <2>2
<1>4. /\ req' \in [Requests -> Request] /\ req'[r] = x
      /\ \A q \in Requests : q # r => req'[q] = req[q]
  BY <1>1, <1>3, OneRequest
<1>5. /\ exchange' \in Exchange \cup {None}
      /\ exchange # None => exchange' = exchange
      /\ x.pc = "ensure" => exchange' # None
      /\ exchange' # None => Sound(exchange', now, member, sessions)
  BY <1>1, <1>3, Exchanges, BegunSound, Nones, Types DEF Inv, Known
<1>6. TypeOK'  BY <1>2, <1>4, <1>5 DEF Inv, TypeOK, Memberships
<1>7. Known'  BY <1>2, <1>5 DEF Inv, Known
<1>8. Waiting'  BY <1>2, <1>3, <1>4, <1>5 DEF Inv, Waiting, Waits
<1>9. Excuses'
  <2>1. /\ x.token # None => x.token.sid \in DOMAIN sessions
        /\ x.pc \in {"sent", "resent"} => x.status # "failed"
        /\ Clear(x, now, member, sessions)
    BY <1>3, Nones DEF Clear, Inv, Excuses
  <2>2. QED  BY <1>2, <1>4, <2>1 DEF Inv, Excuses
<1>10. CarriedOut'
  <2>1. Carried(effects[r], req[r])  BY DEF Inv, CarriedOut
  <2>2. Carried(effects[r], x)  BY <1>1, <2>1 DEF Carried
  <2>3. QED  BY <1>2, <1>4, <2>2 DEF Inv, CarriedOut
<1>11. QED  BY <1>6, <1>7, <1>8, <1>9, <1>10 DEF Inv

LEMMA LoseInv == ASSUME Inv, NEW r \in Requests, Lose(r) PROVE Inv'
<1> DEFINE x == [req[r] EXCEPT !.status = "lost"]
<1>1. TypeOK /\ req[r].pc \in {"sent", "resent"} /\ req[r] \in Request  BY Types DEF Inv, Lose
<1>2. UNCHANGED <<now, member, sessions, auth, exchange, heartbeat, visible, effects, excused, steady>>
  BY DEF Lose, world, client
<1>3. /\ x \in Request /\ x.pc = req[r].pc /\ x.token = req[r].token /\ x.status = "lost"
      /\ req' = [req EXCEPT ![r] = x]
  BY <1>1 DEF Request, Outcomes, Lose
<1> HIDE DEF x
<1>4. /\ req' \in [Requests -> Request] /\ req'[r] = x
      /\ \A q \in Requests : q # r => req'[q] = req[q]
  BY <1>1, <1>3, OneRequest
<1>5. TypeOK'  BY <1>2, <1>4 DEF Inv, TypeOK, Memberships
<1>6. Known'  BY <1>2 DEF Inv, Known
<1>7. Waiting'  BY <1>1, <1>2, <1>3, <1>4 DEF Inv, Waiting, Waits
<1>8. Excuses'  BY <1>1, <1>2, <1>3, <1>4, Nones DEF Inv, Excuses, Clear
<1>9. CarriedOut'  BY <1>1, <1>2, <1>3, <1>4 DEF Inv, CarriedOut, Carried
<1>10. QED  BY <1>5, <1>6, <1>7, <1>8, <1>9 DEF Inv

LEMMA ReceiveInv == ASSUME Inv, NEW r \in Requests, Receive(r) PROVE Inv'
<1>1. TypeOK /\ req[r] \in Request /\ req[r].pc \in {"sent", "resent"} /\ req[r].status # None
  BY Types DEF Inv, Receive
<1>2. /\ UNCHANGED <<now, member, sessions, visible, effects, excused>>
      /\ auth' = (IF Leaving(r) THEN None ELSE auth)
      /\ heartbeat' = (IF Leaving(r) THEN None ELSE heartbeat)
      /\ steady' \in BOOLEAN
  BY <1>1 DEF Receive, world, TypeOK
<1>3. req[r].status \in Outcomes  BY <1>1 DEF Request
<1>4. PICK x \in Request :
        /\ req' = [req EXCEPT ![r] = x] /\ x.token = None
        /\ \/ /\ x.pc = "refresh" /\ x.status = None /\ auth' = auth
              /\ req[r].status \in {"rejected", "refused"} /\ exchange' = RefreshExchange
           \/ /\ x.pc = "over" /\ x.status = req[r].status /\ exchange' = exchange
              /\ req[r].pc = "sent" => req[r].status # "rejected"
  <2>1. CASE TriesAgain(req[r])
    <3> DEFINE x == [Fresh EXCEPT !.pc = "refresh"]
    <3>1. x \in Request /\ x.pc = "refresh" /\ x.status = None /\ x.token = None
      BY DEF Fresh, Request, Stages
    <3>2. req[r].status \in {"rejected", "refused"} /\ ~Leaving(r)
      BY <2>1 DEF TriesAgain, Leaving
    <3>3. req' = [req EXCEPT ![r] = x] /\ exchange' = RefreshExchange
      BY <2>1 DEF Receive
    <3>4. QED  BY <1>2, <3>1, <3>2, <3>3
  <2>2. CASE ~TriesAgain(req[r])
    <3>1. req' = [req EXCEPT ![r] = Over(req[r].status)] /\ exchange' = exchange
      BY <2>2 DEF Receive
    <3>2. req[r].pc = "sent" => req[r].status # "rejected"  BY <2>2 DEF TriesAgain
    <3>3. QED  BY <1>3, <3>1, <3>2, OverIs
  <2>3. QED  BY <2>1, <2>2
<1>5. /\ req' \in [Requests -> Request] /\ req'[r] = x
      /\ \A q \in Requests : q # r => req'[q] = req[q]
  BY <1>1, <1>4, OneRequest
<1>6. /\ exchange' \in Exchange \cup {None}
      /\ exchange # None => exchange' = exchange
      /\ exchange' # None => Sound(exchange', now, member, sessions)
  BY <1>1, <1>4, Exchanges, BegunSound, Types DEF Inv, Known
<1>7. TypeOK'  BY <1>2, <1>5, <1>6 DEF Inv, TypeOK, Memberships
<1>8. Known'  BY <1>2, <1>6 DEF Inv, Known
<1>9. Waiting'  BY <1>2, <1>4, <1>5, <1>6 DEF Inv, Waiting, Waits
<1>10. Excuses'
  <2>1. ASSUME r \notin excused PROVE Clear(x, now, member, sessions)
    <3>1. Clear(req[r], now, member, sessions) /\ req[r].status # "failed"
      BY <1>1, <2>1 DEF Inv, Excuses
    <3>2. QED  BY <1>1, <1>4, <3>1 DEF Clear
  <2>2. QED  BY <1>2, <1>4, <1>5, <2>1 DEF Inv, Excuses
<1>11. CarriedOut'
  <2>1. Carried(effects[r], req[r])  BY DEF Inv, CarriedOut
  <2>2. Carried(effects[r], x)  BY <1>1, <1>4, <2>1 DEF Carried
  <2>3. QED  BY <1>2, <1>5, <2>2 DEF Inv, CarriedOut
<1>12. QED  BY <1>7, <1>8, <1>9, <1>10, <1>11 DEF Inv

LEMMA AcceptedInv == ASSUME Inv, Accepted PROVE Inv'
<1> DEFINE a == exchange.answer
<1>1. /\ TypeOK /\ now \in Nat /\ exchange # None /\ exchange \in Exchange /\ a # None
      /\ Sound(exchange, now, member, sessions)
  BY Types DEF Inv, Accepted, Known
<1>2. /\ UNCHANGED <<now, member, sessions, visible, effects>>
      /\ auth' = a /\ exchange' = None /\ heartbeat' = ScheduleHeartbeat(a, visible, heartbeat)
      /\ steady' = (visible /\ ~exchange.overtaken)
      /\ excused' = IF exchange.overtaken THEN excused \cup Waiters ELSE excused
      /\ req' = [r \in Requests |->
                   CASE req[r].pc = "ensure" -> Out("sent", a)
                     [] req[r].pc \in {"refresh", "again"} -> Out("resent", a)
                     [] OTHER -> req[r]]
  BY DEF Accepted, world
<1>3. Describes(a, sessions) /\ (~exchange.overtaken => InTime(a, now, member, sessions))
  BY <1>1 DEF Sound
<1>4. a \in Auth /\ a.sid \in DOMAIN sessions  BY <1>3 DEF Describes
<1> HIDE DEF a
<1>5. ASSUME NEW pc \in {"sent", "resent"}
      PROVE  /\ Out(pc, a) \in Request /\ Out(pc, a).pc = pc /\ Out(pc, a).status = None
             /\ Out(pc, a).token # None /\ Out(pc, a).token.sid = a.sid /\ Out(pc, a).token.exp = a.exp
  BY <1>1, <1>3, OutIs
<1>6. ASSUME NEW r \in Requests
      PROVE  \/ req[r].pc \notin {"ensure", "refresh", "again"} /\ req'[r] = req[r]
             \/ req[r].pc = "ensure" /\ req'[r] = Out("sent", a)
             \/ req[r].pc \in {"refresh", "again"} /\ req'[r] = Out("resent", a)
  BY <1>2
<1>7. TypeOK'
  <2>1. \A r \in Requests : req'[r] \in Request  BY <1>1, <1>5, <1>6, Types
  <2>2. req' \in [Requests -> Request]  BY <1>2, <2>1
  <2>3. /\ heartbeat' \in Nat \cup {None}
        /\ heartbeat' # None => visible
    <3>1. now + RefreshIn(a) \in Nat  BY <1>1, <1>4, RefreshInIs
    <3>2. QED  BY <1>1, <1>2, <3>1 DEF ScheduleHeartbeat, TypeOK
  <2>4. steady' \in BOOLEAN /\ excused' \subseteq Requests
    BY <1>1, <1>2 DEF TypeOK, Waiters, Exchange
  <2>5. QED  BY <1>1, <1>2, <1>4, <2>2, <2>3, <2>4, Nones DEF TypeOK, Memberships
<1>8. Known'  BY <1>2, <1>3 DEF Inv, Known
<1>9. Waiting'
  <2>1. \A r \in Requests : req'[r].pc \notin {"ensure", "again"}  BY <1>5, <1>6
  <2>2. QED  BY <2>1 DEF Waiting, Waits
<1>10. Excuses'
  <2> SUFFICES ASSUME NEW r \in Requests
               PROVE  /\ req'[r].token # None => req'[r].token.sid \in DOMAIN sessions
                      /\ req'[r].pc \in {"sent", "resent"} => req'[r].status # "failed"
                      /\ r \notin excused' => Clear(req'[r], now, member, sessions)
    BY <1>2 DEF Excuses
  <2>1. CASE req'[r] = req[r]  BY <1>2, <2>1 DEF Inv, Excuses
  <2>2. CASE req'[r] # req[r]
    <3>1. PICK pc \in {"sent", "resent"} : req'[r] = Out(pc, a)  BY <1>6, <2>2
    <3>2. r \in Waiters  BY <1>6, <2>2 DEF Waiters
    <3>3. r \notin excused' => InTime(a, now, member, sessions)  BY <1>2, <1>3, <3>2
    <3>4. QED  BY <1>4, <1>5, <3>1, <3>3, Nones DEF Clear, InTime
  <2>3. QED  BY <2>1, <2>2
<1>11. CarriedOut'
  <2>1. ASSUME NEW r \in Requests PROVE Carried(effects[r], req'[r])
    <3>1. Carried(effects[r], req[r])  BY DEF Inv, CarriedOut
    <3>2. QED  BY <1>6, <3>1 DEF Carried
  <2>2. QED  BY <1>2, <2>1 DEF CarriedOut
<1>12. QED  BY <1>7, <1>8, <1>9, <1>10, <1>11 DEF Inv

\* An exchange that came to nothing: who waited for it is told, or asks again, and
\* whoever is told without being excused only wanted to renew.
LEMMA FailureInv ==
    ASSUME Inv, exchange # None, NEW a \in {auth, None},
           UNCHANGED <<now, member, sessions, visible, effects>>,
           auth' = a, heartbeat' = IF a = None THEN None ELSE heartbeat,
           req' = AfterFailure(a), exchange' = Reensure(a), steady' = FALSE,
           excused \subseteq excused', excused' \subseteq Requests,
           \A q \in Waiters : q \notin excused' => req[q].pc = "refresh" /\ a = None
    PROVE  Inv'
<1>1. TypeOK /\ (a # None => Describes(a, sessions))  BY DEF Inv, Known
<1>2. a # None => a \in Auth /\ a.sid \in DOMAIN sessions  BY <1>1 DEF Describes
<1>3. Over("failed") \in Request /\ Over("failed").pc = "over" /\ Over("failed").status = "failed"
      /\ Over("failed").token = None
  BY OverIs DEF Outcomes
<1>4. a # None => /\ Out("resent", a) \in Request /\ Out("resent", a).pc = "resent"
                  /\ Out("resent", a).status = None /\ Out("resent", a).token # None
                  /\ Out("resent", a).token.sid = a.sid
  BY <1>1, OutIs
<1> DEFINE asks == [Fresh EXCEPT !.pc = "again"]
<1>5. asks \in Request /\ asks.pc = "again" /\ asks.token = None /\ asks.status = None
  BY DEF Fresh, Request, Stages
<1> HIDE DEF asks
<1>6. ASSUME NEW r \in Requests
      PROVE  \/ req[r].pc \notin {"ensure", "refresh", "again"} /\ req'[r] = req[r]
             \/ req[r].pc \in {"ensure", "again"} /\ req'[r] = Over("failed")
             \/ req[r].pc = "refresh" /\ a # None /\ req'[r] = Out("resent", a)
             \/ req[r].pc = "refresh" /\ a = None /\ req'[r] = asks
  BY DEF AfterFailure, asks
<1>7. exchange' \in {SignIn, None} /\ \A r \in Requests : req'[r].pc = "again" => exchange' = SignIn
  <2>1. exchange' \in {SignIn, None}  BY DEF Reensure
  <2>2. ASSUME NEW r \in Requests, req'[r].pc = "again" PROVE exchange' = SignIn
    <3>1. req[r].pc = "refresh" /\ a = None  BY <1>3, <1>4, <1>6, <2>2
    <3>2. QED  BY <3>1 DEF Reensure
  <2>3. QED  BY <2>1, <2>2
<1>8. TypeOK'
  <2>1. \A r \in Requests : req'[r] \in Request  BY <1>1, <1>3, <1>4, <1>5, <1>6, Types
  <2>2. req' = [r \in Requests |-> req'[r]]  BY DEF AfterFailure
  <2>3. req' \in [Requests -> Request]  BY <2>1, <2>2
  <2>4. exchange' \in Exchange \cup {None}  BY <1>1, <1>7, Exchanges
  <2>5. QED  BY <1>1, <2>3, <2>4 DEF TypeOK, Memberships
<1>9. Known'  BY <1>1, <1>7, BegunSound DEF Inv, Known
<1>10. Waiting'
  <2>1. \A r \in Requests : req'[r].pc # "ensure"  BY <1>3, <1>4, <1>5, <1>6
  <2>2. exchange' = SignIn => exchange' # None /\ exchange'.sid = None
    BY <1>1, Exchanges, Nones
  <2>3. QED  BY <1>7, <2>1, <2>2 DEF Waiting, Waits
<1>11. Excuses'
  <2> SUFFICES ASSUME NEW r \in Requests
               PROVE  /\ req'[r].token # None => req'[r].token.sid \in DOMAIN sessions
                      /\ req'[r].pc \in {"sent", "resent"} => req'[r].status # "failed"
                      /\ r \notin excused' => Clear(req'[r], now, member, sessions)
    BY DEF Excuses
  <2>1. CASE req'[r] = req[r]  BY <2>1 DEF Inv, Excuses
  <2>2. CASE req'[r] # req[r]
    <3>1. r \in Waiters  BY <1>6, <2>2 DEF Waiters
    <3>2. r \notin excused' => req'[r] = asks  BY <1>6, <2>2, <3>1
    <3>3. QED  BY <1>2, <1>3, <1>4, <1>5, <1>6, <2>2, <3>2, Nones DEF Clear
  <2>3. QED  BY <2>1, <2>2
<1>12. CarriedOut'
  <2>1. ASSUME NEW r \in Requests PROVE Carried(effects[r], req'[r])
    <3>1. Carried(effects[r], req[r])  BY DEF Inv, CarriedOut
    <3>2. QED  BY <1>6, <3>1 DEF Carried
  <2>2. QED  BY <2>1 DEF CarriedOut
<1>13. QED  BY <1>8, <1>9, <1>10, <1>11, <1>12 DEF Inv

LEMMA DeniedInv == ASSUME Inv, Denied PROVE Inv'
<1> DEFINE a == AfterDenial(auth)
<1>1. a \in {auth, None} /\ (exchange.sid # None => a = None)  BY DEF AfterDenial
<1>2. /\ exchange # None /\ UNCHANGED <<now, member, sessions, visible, effects>>
      /\ auth' = a /\ heartbeat' = IF a = None THEN None ELSE heartbeat
      /\ req' = AfterFailure(a) /\ exchange' = Reensure(a) /\ steady' = FALSE
      /\ excused' = IF exchange.sid = None \/ exchange.overtaken \/ auth = None
                      THEN excused \cup Waiters ELSE excused
  BY DEF Denied, world
<1> HIDE DEF a
<1>3. excused \subseteq excused' /\ excused' \subseteq Requests
  BY <1>2 DEF Inv, TypeOK, Waiters
<1>4. ASSUME NEW q \in Waiters, q \notin excused' PROVE req[q].pc = "refresh" /\ a = None
  <2>1. exchange.sid # None /\ auth # None  BY <1>2, <1>4
  <2>2. q \in Requests /\ req[q].pc \in {"ensure", "refresh", "again"}  BY DEF Waiters
  <2>3. Waits(req[q], exchange, auth)  BY <2>2 DEF Inv, Waiting
  <2>4. QED  BY <1>1, <2>1, <2>2, <2>3 DEF Waits
<1>5. QED  BY <1>1, <1>2, <1>3, <1>4, FailureInv

LEMMA FailedInv == ASSUME Inv, Failed PROVE Inv'
<1>1. /\ exchange # None /\ UNCHANGED <<now, member, sessions, visible, effects>>
      /\ auth' = auth /\ heartbeat' = heartbeat
      /\ req' = AfterFailure(auth) /\ exchange' = Reensure(auth) /\ steady' = FALSE
      /\ excused' = excused \cup Waiters
  BY DEF Failed, world
<1>2. heartbeat' = IF auth = None THEN None ELSE heartbeat  BY <1>1 DEF Inv, TypeOK
<1>3. excused \subseteq excused' /\ excused' \subseteq Requests
  BY <1>1 DEF Inv, TypeOK, Waiters
<1>4. \A q \in Waiters : q \in excused'  BY <1>1
<1>5. QED  BY <1>1, <1>2, <1>3, <1>4, FailureInv

LEMMA BeatInv == ASSUME Inv, Beat PROVE Inv'
<1>1. /\ UNCHANGED <<now, member, sessions, auth, visible, req, effects, excused, steady>>
      /\ heartbeat' = None /\ exchange' \in {exchange, RefreshExchange}
  BY DEF Beat, world, history
<1>2. /\ exchange' \in Exchange \cup {None}
      /\ exchange # None => exchange' = exchange
      /\ exchange' # None => Sound(exchange', now, member, sessions)
  BY <1>1, Exchanges, BegunSound, Types DEF Inv, Known
<1>3. TypeOK'  BY <1>1, <1>2 DEF Inv, TypeOK, Memberships
<1>4. Known'  BY <1>1, <1>2 DEF Inv, Known
<1>5. Waiting'  BY <1>1, <1>2 DEF Inv, Waiting, Waits
<1>6. Excuses' /\ CarriedOut'  BY <1>1 DEF Inv, Excuses, CarriedOut
<1>7. QED  BY <1>3, <1>4, <1>5, <1>6 DEF Inv

LEMMA ToggleInv == ASSUME Inv, Toggle PROVE Inv'
<1>1. /\ UNCHANGED <<now, member, sessions, auth, exchange, req, effects, excused>>
      /\ visible' = ~visible /\ steady' = FALSE
      /\ heartbeat' = IF visible THEN None ELSE ScheduleHeartbeat(auth, TRUE, heartbeat)
  BY DEF Toggle, world
<1>2. TypeOK /\ now \in Nat /\ (auth # None => auth \in Auth)  BY Types DEF Inv
<1>3. /\ heartbeat' \in Nat \cup {None}
      /\ heartbeat' # None => auth # None /\ ~visible
  BY <1>1, <1>2, RefreshInIs DEF ScheduleHeartbeat, TypeOK
<1>4. TypeOK'  BY <1>1, <1>2, <1>3 DEF TypeOK, Memberships
<1>5. Known' /\ Waiting' /\ Excuses' /\ CarriedOut'
  BY <1>1 DEF Inv, Known, Waiting, Excuses, CarriedOut
<1>6. QED  BY <1>4, <1>5 DEF Inv

-----------------------------------------------------------------------------
(* The theorems. *)

LEMMA InitInv == Init => Inv
<1> SUFFICES ASSUME Init PROVE Inv
  OBVIOUS
<1>1. \A r \in Requests : req[r] = Fresh /\ effects[r] = 0  BY DEF Init
<1>2. Fresh \in Request /\ Fresh.pc = "idle" /\ Fresh.token = None
  BY DEF Fresh, Request, Stages
<1>3. DOMAIN sessions = {}  BY DEF Init
<1>4. TypeOK
  <2>1. 0 \in 0 .. MaxTime /\ 0 \in Memberships  BY Numbers DEF Memberships
  <2>2. QED  BY <1>2, <1>3, <2>1 DEF Init, TypeOK
<1>5. SessionsAt(sessions, now)
  <2>1. Cardinality({}) = 0 /\ IsFiniteSet({})  BY FS_EmptySet
  <2>2. 1 .. 0 = {}  OBVIOUS
  <2>3. QED  BY <1>3, <2>1, <2>2 DEF SessionsAt
<1>6. Known  BY <1>5 DEF Init, Known
<1>7. Waiting /\ Excuses /\ CarriedOut
  BY <1>1, <1>2 DEF Waiting, Waits, Excuses, Clear, CarriedOut, Carried
<1>8. QED  BY <1>4, <1>6, <1>7 DEF Inv

LEMMA StepInv == Inv /\ [Next]_vars => Inv'
<1> SUFFICES ASSUME Inv, [Next]_vars PROVE Inv'
  OBVIOUS
<1>1. CASE Reply
  BY <1>1, ServeRefreshInv, ServeTelegramInv, AcceptedInv, DeniedInv, BeatInv DEF Reply
<1>2. CASE Failed \/ Toggle \/ Tick  BY <1>2, FailedInv, ToggleInv, TickInv
<1>3. ASSUME NEW m \in Memberships, Change(m) PROVE Inv'  BY <1>3, ChangeInv
<1>4. ASSUME NEW r \in Requests, Start(r) \/ Serve(r) \/ Receive(r) \/ Lose(r) PROVE Inv'
  BY <1>4, StartInv, ServeInv, ReceiveInv, LoseInv
<1>5. CASE UNCHANGED vars
  BY <1>5 DEF vars, Inv, TypeOK, Memberships, Known, Waiting, Excuses, CarriedOut
<1>6. QED  BY <1>1, <1>2, <1>3, <1>4, <1>5 DEF Next

\* What a request may count on holds however many share an exchange.
THEOREM Inductive == Spec => []Inv
BY InitInv, StepInv, PTL DEF Spec

\* The client's state keeps to its form, and its timer runs only for an answer and while the
\* page is shown.
THEOREM TypeCorrect == Spec => []TypeOK
<1>1. Inv => TypeOK  BY DEF Inv
<1>2. QED  BY <1>1, Inductive, PTL

\* A request is carried out at most once, for all that it is tried twice and its
\* answers get lost.
THEOREM CarriedOutOnce == Spec => []EffectOnce
<1>1. Inv => EffectOnce  BY DEF Inv, CarriedOut, Carried, EffectOnce
<1>2. QED  BY <1>1, Inductive, PTL

\* A request is turned away for want of a session only if something got in its way.
THEOREM TurnedAwayRightly == Spec => []TurnedAwayForCause
<1>1. Inv => TurnedAwayForCause  BY DEF Inv, Excuses, Clear, TurnedAwayForCause
<1>2. QED  BY <1>1, Inductive, PTL

\* The heartbeat keeps a session the page shows alive to the end of its lifetime, with
\* any margins that leave it time: it is due before the idle end of every answer.
THEOREM HeartbeatKeeps ==
    ASSUME IdleMargin # 0, MinDelay < IdleTTL
    PROVE  Spec => []VisibleSessionLasts
<1>1. Init => Shown  BY DEF Init, Shown
<1>2. Inv /\ Shown /\ [Next]_vars => Shown'
  <2> SUFFICES ASSUME Inv, Shown, [Next]_vars, steady', auth' # None
               PROVE  /\ auth'.idle = auth'.end \/ now' < auth'.idle
                      /\ heartbeat' = None => exchange' # None
                      /\ heartbeat' # None => /\ now' <= heartbeat'
                                              /\ auth'.idle = auth'.end \/ heartbeat' < auth'.idle
    BY DEF Shown
  <2>1. TypeOK /\ now \in Nat /\ (auth # None => auth \in Auth) /\ heartbeat \in Nat \cup {None}
        /\ steady \in BOOLEAN
    BY Types DEF Inv, TypeOK
  <2>2. exchange # None => exchange \in Exchange  BY <2>1, Types
  <2>3. CASE UNCHANGED <<now, auth, heartbeat, steady>> /\ (exchange # None => exchange' # None)
    BY <2>3 DEF Shown
  <2>4. CASE Tick
    <3>1. /\ steady /\ exchange = None /\ (heartbeat = None \/ heartbeat > now)
          /\ now' = now + 1 /\ auth' = auth /\ heartbeat' = heartbeat
      BY <2>1, <2>4 DEF Tick
    <3>2. /\ heartbeat # None /\ heartbeat \in Nat /\ auth \in Auth /\ now + 1 <= heartbeat
          /\ auth.idle = auth.end \/ heartbeat < auth.idle
      BY <2>1, <3>1 DEF Shown
    <3>3. auth.idle \in Nat  BY <3>2 DEF Auth
    <3>4. QED  BY <2>1, <3>1, <3>2, <3>3
  <2>5. CASE Accepted
    <3> DEFINE a == exchange.answer
    <3>1. /\ visible /\ ~exchange.overtaken /\ exchange # None /\ a # None /\ auth' = a
          /\ heartbeat' = now + RefreshIn(a) /\ now' = now
      BY <2>5 DEF Accepted, ScheduleHeartbeat, world
    <3>2. Describes(a, sessions) /\ InTime(a, now, member, sessions)
      BY <3>1 DEF Inv, Known, Sound
    <3>3. a \in Auth /\ now < a.idle /\ a.idle \in {a.end, now + IdleTTL}
      BY <3>2 DEF Describes, InTime
    <3> HIDE DEF a
    <3>4. heartbeat' \in Nat /\ now <= heartbeat' /\ (a.idle = now + IdleTTL => heartbeat' < a.idle)
      BY <2>1, <3>1, <3>3, RefreshInIs
    <3>5. QED  BY <3>1, <3>3, <3>4, Nones
  <2>6. CASE Denied \/ Failed \/ Toggle  BY <2>6 DEF Denied, Failed, Toggle
  <2>7. CASE Beat
    <3>1. heartbeat # None /\ heartbeat' = None /\ now' = now /\ auth' = auth /\ steady
      BY <2>7 DEF Beat, world, history
    <3>2. visible  BY <2>1, <3>1 DEF TypeOK
    <3>3. exchange' = RefreshExchange  BY <2>7, <3>2 DEF Beat
    <3>4. exchange' # None  BY <2>1, <3>3, Exchanges, Nones
    <3>5. QED  BY <3>1, <3>4 DEF Shown
  <2>8. CASE ServeRefresh \/ ServeTelegram
    <3>1. UNCHANGED <<now, auth, heartbeat, steady>> /\ exchange # None
      BY <2>8 DEF ServeRefresh, ServeTelegram, history
    <3>2. exchange' # None  BY <2>8, ServeRefreshInv, ServeTelegramInv
    <3>3. QED  BY <2>3, <3>1, <3>2
  <2>9. ASSUME NEW m \in Memberships, Change(m) PROVE UNCHANGED <<now, auth, heartbeat, steady>>
        /\ (exchange # None => exchange' # None)
    BY <2>1, <2>9, OvertakenIs DEF Change, Inv, Known
  <2>10. ASSUME NEW r \in Requests, Start(r) \/ Serve(r) \/ Lose(r)
         PROVE  UNCHANGED <<now, auth, heartbeat, steady>> /\ (exchange # None => exchange' # None)
    <3>1. CASE Start(r)
      BY <2>1, <3>1, Exchanges DEF Start, world, history
    <3>2. CASE Serve(r)
      BY <2>1, <3>2, OvertakenIs DEF Serve, Inv, Known
    <3>3. CASE Lose(r)  BY <3>3 DEF Lose, world, client
    <3>4. QED  BY <2>10, <3>1, <3>2, <3>3
  <2>11. ASSUME NEW r \in Requests, Receive(r)
         PROVE  UNCHANGED <<now, auth, heartbeat, steady>> /\ (exchange # None => exchange' # None)
    <3>1. ~Leaving(r)  BY <2>11 DEF Receive
    <3>2. QED  BY <2>1, <2>11, <3>1, Exchanges DEF Receive, world
  <2>12. CASE UNCHANGED vars  BY <2>3, <2>12 DEF vars
  <2>13. QED
    BY <2>3, <2>4, <2>5, <2>6, <2>7, <2>8, <2>9, <2>10, <2>11, <2>12 DEF Next, Reply
<1>3. Inv /\ Shown => VisibleSessionLasts
  <2> SUFFICES ASSUME Inv, Shown, steady, auth # None, auth.of = member, now < auth.end
               PROVE  Alive(sessions[auth.sid])
    BY DEF VisibleSessionLasts
  <2> DEFINE s == sessions[auth.sid]
  <2>1. auth \in Auth /\ s \in Session /\ auth.of = s.of /\ auth.end = s.end /\ auth.idle <= s.idle
        /\ now \in Nat
    BY Types DEF Inv, Known, Describes, SessionsAt
  <2>2. auth.idle \in Nat /\ s.idle \in Nat /\ now < auth.idle
    BY <2>1 DEF Shown, Auth, Session
  <2>3. QED  BY <2>1, <2>2 DEF Alive
<1>4. QED  BY <1>1, <1>2, <1>3, Inductive, InitInv, StepInv, PTL DEF Spec
==============================================================================
