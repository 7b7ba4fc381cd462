------------------------------ MODULE AuthSession ------------------------------
(***************************************************************************)
(* The session the Mini App keeps: one exchange with the server at a time, *)
(* shared by every request that needs it, a heartbeat that renews while    *)
(* the page is visible, and requests that renew and try again once when    *)
(* they are turned away.  The server is abstract here: it knows a session  *)
(* or it does not (AdminPanelSession has the details).                     *)
(***************************************************************************)
EXTENDS Integers, FiniteSets

CONSTANTS
    Requests,       \* calls of HttpFetcher.request
    Leaves,         \* those that end the membership
    Refused,        \* <<r, m>> where RolesGuard or the handler answers r of membership m with 403
    None,           \* null
    AccessTTL,      \* life of an access token
    IdleTTL,        \* life of a session that is not renewed
    Lifetime,       \* life of a session
    ProofTTL,       \* how long the initData of this page is fresh
    AccessMargin,   \* how long before each of them the heartbeat is due
    IdleMargin,
    MinDelay,       \* the least delay of a heartbeat
    MaxTime,        \* bound: the clock
    MaxChanges,     \* bound: changes of the membership
    MaxToggles,     \* bound: how often the page is hidden or shown
    MaxFailures     \* bound: exchanges lost on the network

ASSUME RequestsAssumption == Leaves \subseteq Requests /\ Refused \subseteq Requests \X Nat
ASSUME TimesAssumption ==
    /\ {AccessTTL, ProofTTL, AccessMargin, IdleMargin} \subseteq Nat
    /\ {IdleTTL, Lifetime, MinDelay} \subseteq Nat \ {0}
ASSUME BoundsAssumption == {MaxTime, MaxChanges, MaxToggles, MaxFailures} \subseteq Nat

VARIABLES
    now,        \* the clock
    member,     \* which membership the user has, counted by changes, or None
    sessions,   \* sessions[n]: the n-th session created
    auth,       \* the last successful answer, token included
    exchange,   \* inFlight: the exchange on its way
    heartbeat,  \* when the timer is due
    visible,    \* document.visibilityState
    req,        \* the requests
    effects,    \* history: how often the handler of a request did what it was asked
    excused,    \* history: requests the world got in the way of
    steady,     \* history: renewed in time since the last answer, all of it visibly
    spent       \* how much of each bound is used up

vars == <<now, member, sessions, auth, exchange, heartbeat, visible, req, effects,
          excused, steady, spent>>
world == <<now, member, sessions>>
client == <<auth, exchange, heartbeat, visible>>
history == <<effects, excused, steady, spent>>

-----------------------------------------------------------------------------
(* Data *)

Session == [of: Nat, idle: Nat, end: Nat]
Auth == [sid: Nat, of: Nat, exp: Nat, idle: Nat, end: Nat]
Token == [sid: Nat, exp: Nat]
\* An exchange renews the session sid, or exchanges initData where sid is None.
Exchange == [sid: Nat \cup {None}, at: {"sent", "answered"}, answer: Auth \cup {None}, overtaken: BOOLEAN]
\* "ensure", "refresh" and "again" wait for the exchange; "sent" and "resent" for the
\* server, whose answer is "status".
Stages == {"idle", "ensure", "sent", "refresh", "again", "resent", "over"}
Outcomes == {"ok", "refused", "rejected", "failed", "lost"}
Request == [pc: Stages, token: Token \cup {None}, status: Outcomes \cup {None}]

ASSUME NoneAssumption == None \notin Nat \cup Auth \cup Token \cup Exchange \cup Outcomes

Fresh == [pc |-> "idle", token |-> None, status |-> None]
Least(a, b) == IF a < b THEN a ELSE b
Most(a, b) == IF a > b THEN a ELSE b

Init ==
    /\ now = 0
    /\ member = 0
    /\ sessions = [n \in {} |-> None]
    /\ auth = None
    /\ exchange = None
    /\ heartbeat = None
    /\ visible = TRUE
    /\ req = [r \in Requests |-> Fresh]
    /\ effects = [r \in Requests |-> 0]
    /\ excused = {}
    /\ steady = FALSE
    /\ spent = [changes |-> 0, toggles |-> 0, failures |-> 0]

-----------------------------------------------------------------------------
(* Server *)

Alive(s) == s.of = member /\ now < s.idle /\ now < s.end

\* The guards let a token through.
Valid(token) == token # None /\ now <= token.exp /\ Alive(sessions[token.sid])

Answer(sid, s) == [sid |-> sid, of |-> s.of, exp |-> now + AccessTTL, idle |-> s.idle, end |-> s.end]

\* /auth/refresh slides the idle end of a session that is alive.
ServeRefresh ==
    /\ exchange # None /\ exchange.at = "sent" /\ exchange.sid # None
    /\ LET sid == exchange.sid
           slid == [sessions[sid] EXCEPT !.idle = Least(sessions[sid].end, now + IdleTTL)] IN
       IF Alive(sessions[sid])
         THEN /\ sessions' = [sessions EXCEPT ![sid] = slid]
              /\ exchange' = [exchange EXCEPT !.at = "answered", !.answer = Answer(sid, slid)]
         ELSE /\ exchange' = [exchange EXCEPT !.at = "answered", !.overtaken = @ \/ sessions[sid].of # member]
              /\ UNCHANGED sessions
    /\ UNCHANGED <<now, member, auth, heartbeat, visible, req, history>>

\* /auth/telegram creates a session while initData is fresh.
ServeTelegram ==
    /\ exchange # None /\ exchange.at = "sent" /\ exchange.sid = None
    /\ LET sid == Cardinality(DOMAIN sessions) + 1
           new == [of |-> member, idle |-> Least(now + Lifetime, now + IdleTTL), end |-> now + Lifetime] IN
       IF member # None /\ now <= ProofTTL
         THEN /\ sessions' = [n \in 1 .. sid |-> IF n = sid THEN new ELSE sessions[n]]
              /\ exchange' = [exchange EXCEPT !.at = "answered", !.answer = Answer(sid, new)]
         ELSE exchange' = [exchange EXCEPT !.at = "answered"] /\ UNCHANGED sessions
    /\ UNCHANGED <<now, member, auth, heartbeat, visible, req, history>>

\* The world has moved on while the exchange was on its way.
Overtaken == IF exchange = None THEN None ELSE [exchange EXCEPT !.overtaken = TRUE]

\* The guards and the handler of a request. Whoever leaves has no membership after it.
Serve(r) ==
    LET status == IF ~Valid(req[r].token) THEN "rejected"
                  ELSE IF <<r, member>> \in Refused THEN "refused" ELSE "ok" IN
    /\ req[r].pc \in {"sent", "resent"} /\ req[r].status = None
    /\ req' = [req EXCEPT ![r].status = status]
    /\ effects' = IF status = "ok" THEN [effects EXCEPT ![r] = @ + 1] ELSE effects
    /\ IF status = "ok" /\ r \in Leaves
         THEN /\ member' = None
              /\ exchange' = Overtaken
              /\ excused' = excused \cup {q \in Requests : req[q].pc \notin {"idle", "over"}}
         ELSE UNCHANGED <<member, exchange, excused>>
    /\ UNCHANGED <<now, sessions, auth, heartbeat, visible, steady, spent>>

\* A promotion, demotion or removal; another Business may follow.
Change(m) ==
    /\ member # m
    /\ m \in {spent.changes + 1, None}
    /\ spent.changes < MaxChanges
    /\ member' = m
    /\ spent' = [spent EXCEPT !.changes = @ + 1]
    /\ exchange' = Overtaken
    /\ excused' = excused \cup {r \in Requests : req[r].pc \notin {"idle", "over"}}
    /\ UNCHANGED <<now, sessions, auth, heartbeat, visible, req, effects, steady>>

\* Time passes.
Tick ==
    /\ now < MaxTime
    /\ now' = now + 1
    /\ exchange' = Overtaken
    /\ excused' = excused \cup {r \in Requests : req[r].pc = "resent"}
    /\ steady' = (steady /\ exchange = None /\ (heartbeat = None \/ heartbeat > now))
    /\ UNCHANGED <<member, sessions, auth, heartbeat, visible, req, effects, spent>>

-----------------------------------------------------------------------------
(* Client *)

\* scheduleHeartbeat
AtTheEnd(a) == Most(MinDelay, a.end - now - IdleMargin)     \* mutant: the wrong expiry
RefreshIn(a) ==
    Most(MinDelay, Least(a.idle - now - IdleMargin, a.exp - now - AccessMargin))
ScheduleHeartbeat(a, shown, timer) ==
    IF a = None \/ ~shown THEN timer ELSE now + RefreshIn(a)

Renewal(a) == [sid |-> a.sid, at |-> "sent", answer |-> None, overtaken |-> FALSE]
SignIn == [sid |-> None, at |-> "sent", answer |-> None, overtaken |-> FALSE]

\* authenticateFromTelegram and refresh: whoever comes second shares what is in flight.
AuthenticateFromTelegram == IF exchange # None THEN exchange ELSE SignIn
RefreshExchange ==
    IF exchange # None THEN exchange ELSE IF auth = None THEN SignIn ELSE Renewal(auth)

TokenOf(a) == IF a = None THEN None ELSE [sid |-> a.sid, exp |-> a.exp]

\* What goes out first, and again.
Out(pc, a) == [pc |-> pc, token |-> TokenOf(a), status |-> None]
Over(status) == [pc |-> "over", token |-> None, status |-> status]

Waiters == {r \in Requests : req[r].pc \in {"ensure", "refresh", "again"}}

\* request(): ensure() has an answer, or waits for one.
Start(r) ==
    /\ req[r].pc = "idle"
    /\ IF auth # None
         THEN req' = [req EXCEPT ![r] = Out("sent", auth)] /\ UNCHANGED exchange
         ELSE /\ req' = [req EXCEPT ![r].pc = "ensure"]
              /\ exchange' = AuthenticateFromTelegram
    /\ UNCHANGED <<world, auth, heartbeat, visible, history>>

\* The first time an answer says no, the session is renewed and the request sent again.
TriesAlways(x) == x.status \in {"rejected", "refused"}                      \* mutant
TriesLost(x) == x.pc = "sent" /\ x.status \in {"rejected", "refused", "lost"}     \* mutant
TriesAgain(x) == x.pc = "sent" /\ x.status \in {"rejected", "refused"}

\* After leaving, the client forgets its session, whatever exchange is on its way.
Leaving(r) == req[r].status = "ok" /\ r \in Leaves

Receive(r) ==
    LET x == req[r]
        left == Leaving(r) IN
    /\ x.pc \in {"sent", "resent"} /\ x.status # None
    /\ IF TriesAgain(x)
         THEN req' = [req EXCEPT ![r] = [Fresh EXCEPT !.pc = "refresh"]] /\ exchange' = RefreshExchange
         ELSE req' = [req EXCEPT ![r] = Over(x.status)] /\ UNCHANGED exchange
    /\ auth' = IF left THEN None ELSE auth
    /\ heartbeat' = IF left THEN None ELSE heartbeat
    /\ steady' = (steady /\ ~left)
    /\ UNCHANGED <<world, visible, effects, excused, spent>>

\* The request or its answer is lost.
Lose(r) ==
    /\ req[r].pc \in {"sent", "resent"} /\ req[r].status # "lost"
    /\ spent.failures < MaxFailures
    /\ spent' = [spent EXCEPT !.failures = @ + 1]
    /\ req' = [req EXCEPT ![r].status = "lost"]
    /\ UNCHANGED <<world, client, effects, excused, steady>>

\* The exchange succeeded: setAuth, and all who waited go on.
Accepted ==
    /\ exchange # None /\ exchange.at = "answered" /\ exchange.answer # None
    /\ auth' = exchange.answer
    /\ heartbeat' = ScheduleHeartbeat(exchange.answer, visible, heartbeat)
    /\ exchange' = None
    /\ req' = [r \in Requests |->
                 CASE req[r].pc = "ensure" -> Out("sent", exchange.answer)
                   [] req[r].pc \in {"refresh", "again"} -> Out("resent", exchange.answer)
                   [] OTHER -> req[r]]
    /\ steady' = (visible /\ ~exchange.overtaken)
    /\ excused' = IF exchange.overtaken THEN excused \cup Waiters ELSE excused
    /\ UNCHANGED <<world, visible, effects, spent>>

\* It did not. Who wanted to renew asks ensure() for whatever there is: the answer from
\* before if the network was at fault, initData otherwise.
AfterFailure(a) == [r \in Requests |->
    CASE req[r].pc \in {"ensure", "again"} -> Over("failed")
      [] req[r].pc = "refresh" /\ a # None -> Out("resent", a)
      [] req[r].pc = "refresh" /\ a = None -> [Fresh EXCEPT !.pc = "again"]
      [] OTHER -> req[r]]
Reensure(a) == IF a = None /\ \E r \in Requests : req[r].pc = "refresh" THEN SignIn ELSE None

KeepsAuth(a) == a           \* mutant: the session is not cleared
AfterDenial(a) == IF exchange.sid = None THEN a ELSE None

Denied ==
    LET left == AfterDenial(auth) IN
    /\ exchange # None /\ exchange.at = "answered" /\ exchange.answer = None
    /\ auth' = left
    /\ heartbeat' = IF left = None THEN None ELSE heartbeat
    /\ req' = AfterFailure(left)
    /\ exchange' = Reensure(left)
    /\ steady' = FALSE
    /\ excused' = IF exchange.sid = None \/ exchange.overtaken \/ auth = None
                    THEN excused \cup Waiters ELSE excused
    /\ UNCHANGED <<world, visible, effects, spent>>

Failed ==
    /\ exchange # None
    /\ spent.failures < MaxFailures
    /\ spent' = [spent EXCEPT !.failures = @ + 1]
    /\ req' = AfterFailure(auth)
    /\ exchange' = Reensure(auth)
    /\ steady' = FALSE
    /\ excused' = excused \cup Waiters
    /\ UNCHANGED <<world, auth, heartbeat, visible, effects>>

\* The timer of the heartbeat.
Beat ==
    /\ heartbeat # None /\ now >= heartbeat
    /\ heartbeat' = None
    /\ exchange' = IF visible THEN RefreshExchange ELSE exchange
    /\ UNCHANGED <<world, auth, visible, req, history>>

\* visibilitychange; the listener is there once an exchange has succeeded.
Toggle ==
    /\ spent.toggles < MaxToggles
    /\ spent' = [spent EXCEPT !.toggles = @ + 1]
    /\ visible' = ~visible
    /\ heartbeat' = IF visible THEN None ELSE ScheduleHeartbeat(auth, TRUE, heartbeat)
    /\ steady' = FALSE
    /\ UNCHANGED <<world, auth, exchange, req, effects, excused>>

-----------------------------------------------------------------------------

Memberships == 0 .. MaxChanges \cup {None}

Reply == ServeRefresh \/ ServeTelegram \/ Accepted \/ Denied \/ Beat

Next ==
    \/ Reply \/ Failed \/ Toggle \/ Tick
    \/ \E m \in Memberships : Change(m)
    \/ \E r \in Requests : Start(r) \/ Serve(r) \/ Receive(r) \/ Lose(r)

Fairness == WF_vars(Reply) /\ \A r \in Requests : WF_vars(Serve(r)) /\ WF_vars(Receive(r))

Spec == Init /\ [][Next]_vars /\ Fairness

-----------------------------------------------------------------------------
(* Properties *)

TypeOK ==
    /\ now \in 0 .. MaxTime
    /\ member \in Memberships
    /\ \A n \in DOMAIN sessions : sessions[n] \in Session
    /\ auth \in Auth \cup {None}
    /\ exchange \in Exchange \cup {None}
    /\ heartbeat \in Nat \cup {None}
    /\ heartbeat # None => auth # None /\ visible
    /\ visible \in BOOLEAN
    /\ req \in [Requests -> Request]
    /\ effects \in [Requests -> Nat]
    /\ excused \subseteq Requests
    /\ steady \in BOOLEAN

\* A request is carried out at most once, for all that it is tried twice and its
\* answers get lost.
EffectOnce == \A r \in Requests : effects[r] <= 1

\* A request is turned away for want of a session only if the world got in its way: the
\* membership changed, the network failed or time passed while its renewal or its retry
\* was out, somebody left the Business and forgot the session while its renewal was
\* out, or the initData it fell back on was refused. However many requests share the
\* exchange that renews, and whoever started it.
TurnedAwayForCause ==
    \A r \in Requests :
        req[r].pc = "over" /\ req[r].status \in {"rejected", "failed"} => r \in excused

\* While the page stays visible and the network prompt, the heartbeat keeps the session
\* alive to the end of its lifetime ("Open, visible Admin Panel sessions can last
\* through a long work shift").
VisibleSessionLasts ==
    /\ steady /\ auth # None
    /\ auth.of = member /\ now < auth.end
    => Alive(sessions[auth.sid])

\* Every request comes to an end: nobody waits for an exchange that is over, nor is
\* tried a third time.
RequestsEnd == \A r \in Requests : req[r].pc # "idle" ~> req[r].pc = "over"
=============================================================================
