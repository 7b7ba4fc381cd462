-------------------------- MODULE AdminPanelSession --------------------------
(***************************************************************************)
(* Admin Panel Sessions: sign-in, renewal, the guards of every request,    *)
(* logout, and the revocation that follows a change of membership.  Redis  *)
(* holds the sessions; several calls are in flight and one action is what  *)
(* a call does between two awaits.                                         *)
(***************************************************************************)
EXTENDS Naturals

CONSTANTS
    Users,          \* users; the Platform Owner is one whose membership never changes
    Sessions,       \* session ids
    Memberships,    \* a Business and a role in it
    Calls,          \* calls that may be in flight at once
    None,           \* null
    AccessTTL, IdleTTL, MaxTTL,     \* lifetimes of an access token and of a session
    MaxTime,        \* bound: how far the clock runs
    MaxCalls        \* bound: calls and changes of membership in all

VARIABLES
    member,         \* member[u]: the membership of the user's active row, or None
    store,          \* store[s]: the session's record in Redis, or None
    index,          \* index[u]: the set admin-panel-user-sessions of the user
    tokens,         \* the access tokens clients hold
    calls,          \* calls[c]: where a call stands and what it has read
    past,           \* history: when each session was stored first and last
    now,            \* the clock, in units of the lifetimes
    issued          \* how many calls and changes there were

vars == <<member, store, index, tokens, calls, past, now, issued>>

Session == [user: Users, as: Memberships, expires: Nat, idle: Nat]
Token == [sid: Sessions, user: Users, as: Memberships, exp: Nat]
Stages == {"idle", "store", "index", "confirm", "renew", "write", "answer", "first", "live",
           "second", "serve", "revoke", "delete", "unindex", "list", "wipe"}
\* "held" is history: every membership the user had since the call began.
Call == [pc: Stages, user: Users \cup {None}, sid: Sessions \cup {None},
         as: Memberships \cup {None}, rec: Session \cup {None}, exp: Nat,
         todo: SUBSET Sessions, began: Nat, held: SUBSET (Memberships \cup {None})]
Stored == [born: Nat, renewed: Nat]

ASSUME LifetimeAssumption ==
    /\ AccessTTL \in Nat \ {0} /\ IdleTTL \in Nat \ {0} /\ MaxTTL \in Nat \ {0}
    /\ MaxTime \in Nat /\ MaxCalls \in Nat
ASSUME NoneAssumption ==
    /\ None \notin Users \cup Sessions \cup Memberships
    /\ None \notin Session \cup Stored

Idle == [pc |-> "idle", user |-> None, sid |-> None, as |-> None, rec |-> None, exp |-> 0,
         todo |-> {}, began |-> 0, held |-> {}]

Init ==
    /\ member \in [Users -> Memberships \cup {None}]
    /\ store = [s \in Sessions |-> None]
    /\ index = [u \in Users |-> {}]
    /\ tokens = {}
    /\ calls = [c \in Calls |-> Idle]
    /\ past = [s \in Sessions |-> None]
    /\ now = 0
    /\ issued = 0

Begin(c, q) ==
    /\ calls[c] = Idle
    /\ issued < MaxCalls
    /\ issued' = issued + 1
    /\ calls' = [calls EXCEPT ![c] = [q EXCEPT !.began = now, !.held = {member[q.user]}]]

Continue(c, q) == calls' = [calls EXCEPT ![c] = q] /\ UNCHANGED <<now, issued>>

Earlier(a, b) == IF a < b THEN a ELSE b

\* The live row is the one the session was made for.
AnyRow(q) == TRUE                           \* mutant: trusts the revocation in Redis
Unchanged(q) == member[q.user] = q.as

-----------------------------------------------------------------------------
(* Signing in: authenticateFromInitData and create. *)

NewSession(u, m) == [user |-> u, as |-> m, expires |-> now + MaxTTL,
                     idle |-> Earlier(now + MaxTTL, now + IdleTTL)]

SignIn(c, u) ==
    /\ member[u] # None
    /\ Begin(c, [Idle EXCEPT !.pc = "store", !.user = u, !.as = member[u],
                             !.rec = NewSession(u, member[u])])
    /\ UNCHANGED <<member, store, index, tokens, past, now>>

StoreSession(c) ==
    LET q == calls[c] IN
    /\ q.pc = "store"
    /\ \E s \in Sessions :
         /\ past[s] = None
         /\ store' = [store EXCEPT ![s] = q.rec]
         /\ past' = [past EXCEPT ![s] = [born |-> now, renewed |-> now]]
         /\ Continue(c, [q EXCEPT !.pc = "index", !.sid = s, !.rec = None])
    /\ UNCHANGED <<member, index, tokens>>

\* The set's own expiry, renewed by every sign-in, outlives the sessions in it.
IndexSession(c) ==
    LET q == calls[c] IN
    /\ q.pc = "index"
    /\ index' = [index EXCEPT ![q.user] = @ \cup {q.sid}]
    /\ Continue(c, [q EXCEPT !.pc = "confirm"])
    /\ UNCHANGED <<member, store, tokens, past>>

\* The user is read again, after sign-in and after renewal.
Confirm(c) ==
    LET q == calls[c] IN
    /\ q.pc = "confirm"
    /\ Continue(c, IF Unchanged(q) THEN [q EXCEPT !.pc = "answer", !.exp = now + AccessTTL]
                   ELSE [q EXCEPT !.pc = "revoke"])
    /\ UNCHANGED <<member, store, index, tokens, past>>

Answer(c) ==
    LET q == calls[c] IN
    /\ q.pc = "answer"
    /\ tokens' = tokens \cup {[sid |-> q.sid, user |-> q.user, as |-> q.as, exp |-> q.exp]}
    /\ Continue(c, Idle)
    /\ UNCHANGED <<member, store, index, past>>

-----------------------------------------------------------------------------
(* Renewal: refreshAdminPanelSession and renew. *)

Expired(rec) == rec.expires <= now \/ rec.idle <= now

\* Only the idle expiry slides.
BothSlide(rec) == [rec EXCEPT !.expires = now + MaxTTL, !.idle = now + IdleTTL]    \* mutant
Renewed(rec) == [rec EXCEPT !.idle = Earlier(rec.expires, now + IdleTTL)]

\* The client presents the refresh token it got with the session.
Refresh(c, t) ==
    /\ Begin(c, [Idle EXCEPT !.pc = "renew", !.user = t.user, !.sid = t.sid])
    /\ UNCHANGED <<member, store, index, tokens, past, now>>

RenewRead(c) ==
    LET q == calls[c]
        rec == store[q.sid] IN
    /\ q.pc = "renew"
    /\ Continue(c, IF rec = None THEN Idle
                   ELSE IF Expired(rec) THEN [q EXCEPT !.pc = "revoke"]
                   ELSE [q EXCEPT !.pc = "write", !.as = rec.as, !.rec = Renewed(rec)])
    /\ UNCHANGED <<member, store, index, tokens, past>>

\* The record is written over whatever happened to the key since it was read.
RenewWrite(c) ==
    LET q == calls[c] IN
    /\ q.pc = "write"
    /\ store' = [store EXCEPT ![q.sid] = q.rec]
    /\ past' = [past EXCEPT ![q.sid].renewed = now]
    /\ Continue(c, [q EXCEPT !.pc = "confirm", !.rec = None])
    /\ UNCHANGED <<member, index, tokens>>

-----------------------------------------------------------------------------
(* The guards of a request. *)

Request(c, t) ==
    /\ t.exp >= now
    /\ Begin(c, [Idle EXCEPT !.pc = "first", !.user = t.user, !.sid = t.sid, !.as = t.as,
                             !.exp = t.exp])
    /\ UNCHANGED <<member, store, index, tokens, past, now>>

\* assertActive, in OptionalJwtAuthGuard and on some routes again in JwtAuthGuard.
AssertActive(c) ==
    LET q == calls[c]
        rec == store[q.sid] IN
    /\ q.pc \in {"first", "second"}
    /\ Continue(c, IF rec = None THEN Idle
                   ELSE IF Expired(rec) THEN [q EXCEPT !.pc = "revoke"]
                   ELSE [q EXCEPT !.pc = IF q.pc = "first" THEN "live" ELSE "serve"])
    /\ UNCHANGED <<member, store, index, tokens, past>>

GuardLive(c) ==
    LET q == calls[c] IN
    /\ q.pc = "live"
    /\ \/ Unchanged(q) /\ Continue(c, [q EXCEPT !.pc = "serve"])
       \/ Unchanged(q) /\ Continue(c, IF q.exp < now THEN Idle ELSE [q EXCEPT !.pc = "second"])
       \/ ~Unchanged(q) /\ Continue(c, [q EXCEPT !.pc = "revoke"])
    /\ UNCHANGED <<member, store, index, tokens, past>>

\* The handler runs.
Serve(c) ==
    /\ calls[c].pc = "serve"
    /\ Continue(c, Idle)
    /\ UNCHANGED <<member, store, index, tokens, past>>

-----------------------------------------------------------------------------
(* Revocation: of one session, and of all of a user's. *)

Logout(c, t) ==
    /\ Begin(c, [Idle EXCEPT !.pc = "revoke", !.user = t.user, !.sid = t.sid])
    /\ UNCHANGED <<member, store, index, tokens, past, now>>

RevokeRead(c) ==
    LET q == calls[c] IN
    /\ q.pc = "revoke"
    /\ Continue(c, [q EXCEPT !.pc = "delete", !.rec = store[q.sid]])
    /\ UNCHANGED <<member, store, index, tokens, past>>

RevokeDelete(c) ==
    LET q == calls[c] IN
    /\ q.pc = "delete"
    /\ store' = [store EXCEPT ![q.sid] = None]
    /\ Continue(c, IF q.rec = None THEN Idle ELSE [q EXCEPT !.pc = "unindex"])
    /\ UNCHANGED <<member, index, tokens, past>>

Unindex(c) ==
    LET q == calls[c] IN
    /\ q.pc = "unindex"
    /\ index' = [index EXCEPT ![q.rec.user] = @ \ {q.sid}]
    /\ Continue(c, Idle)
    /\ UNCHANGED <<member, store, tokens, past>>

Aware(cs, u, m) ==
    [d \in Calls |-> IF cs[d].user = u THEN [cs[d] EXCEPT !.held = @ \cup {m}] ELSE cs[d]]

\* A promotion, demotion or removal has been committed; revokeAllForUser follows.
ChangeMembership(c, u, m) ==
    /\ member[u] \notin {None, m}
    /\ calls[c] = Idle
    /\ issued < MaxCalls
    /\ issued' = issued + 1
    /\ member' = [member EXCEPT ![u] = m]
    /\ calls' = Aware([calls EXCEPT ![c] = [Idle EXCEPT !.pc = "list", !.user = u]], u, m)
    /\ UNCHANGED <<store, index, tokens, past, now>>

ListSessions(c) ==
    LET q == calls[c] IN
    /\ q.pc = "list"
    /\ Continue(c, [q EXCEPT !.pc = "wipe", !.todo = index[q.user]])
    /\ UNCHANGED <<member, store, index, tokens, past>>

Wipe(c) ==
    LET q == calls[c] IN
    /\ q.pc = "wipe"
    /\ store' = [s \in Sessions |-> IF s \in q.todo THEN None ELSE store[s]]
    /\ index' = [index EXCEPT ![q.user] = {}]
    /\ Continue(c, Idle)
    /\ UNCHANGED <<member, tokens, past>>

\* A former member comes back.
Rejoin(u, m) ==
    /\ member[u] = None
    /\ issued < MaxCalls
    /\ issued' = issued + 1
    /\ member' = [member EXCEPT ![u] = m]
    /\ calls' = Aware(calls, u, m)
    /\ UNCHANGED <<store, index, tokens, past, now>>

-----------------------------------------------------------------------------

\* A Redis or database call fails, the answer is lost, or the process restarts;
\* what revocation could not do is only logged.
Fail(c) ==
    /\ calls[c].pc # "idle"
    /\ Continue(c, Idle)
    /\ UNCHANGED <<member, store, index, tokens, past>>

\* Redis drops a key some time after the idle expiry it was written with.
Lapse(s) ==
    /\ store[s] # None
    /\ store[s].idle <= now
    /\ store' = [store EXCEPT ![s] = None]
    /\ UNCHANGED <<member, index, tokens, calls, past, now, issued>>

Tick ==
    /\ now < MaxTime
    /\ now' = now + 1
    /\ UNCHANGED <<member, store, index, tokens, calls, past, issued>>

CallStep(c) ==
    \/ StoreSession(c) \/ IndexSession(c) \/ Confirm(c) \/ Answer(c)
    \/ RenewRead(c) \/ RenewWrite(c)
    \/ AssertActive(c) \/ GuardLive(c) \/ Serve(c)
    \/ RevokeRead(c) \/ RevokeDelete(c) \/ Unindex(c)
    \/ ListSessions(c) \/ Wipe(c) \/ Fail(c)

Next ==
    \/ \E c \in Calls : CallStep(c)
    \/ \E c \in Calls, u \in Users : SignIn(c, u)
    \/ \E c \in Calls, t \in tokens : Refresh(c, t) \/ Request(c, t) \/ Logout(c, t)
    \/ \E c \in Calls, u \in Users, m \in Memberships \cup {None} : ChangeMembership(c, u, m)
    \/ \E u \in Users, m \in Memberships : Rejoin(u, m)
    \/ \E s \in Sessions : Lapse(s)
    \/ Tick

Spec == Init /\ [][Next]_vars

-----------------------------------------------------------------------------
(* Properties *)

TypeOK ==
    /\ member \in [Users -> Memberships \cup {None}]
    /\ store \in [Sessions -> Session \cup {None}]
    /\ index \in [Users -> SUBSET Sessions]
    /\ tokens \subseteq Token
    /\ calls \in [Calls -> Call]
    /\ past \in [Sessions -> Stored \cup {None}]
    /\ now \in 0..MaxTime
    /\ issued \in 0..MaxCalls

\* "Membership and role changes must take effect immediately even if Redis cleanup is
\* unavailable": a request is served, and a token issued, only for a membership the
\* user had at some moment since that call began, whatever renewals revive.
AdmittedInTime ==
    \A c \in Calls : calls[c].pc \in {"serve", "answer"} => calls[c].as \in calls[c].held

\* "A 30-minute idle timeout and a 12-hour absolute lifetime": a request that begins
\* after either is never served, however renewals and revocations overlap.
LifetimeBounded ==
    \A c \in Calls : calls[c].pc = "serve" =>
        LET s == past[calls[c].sid] IN
        calls[c].began < s.born + MaxTTL /\ calls[c].began < s.renewed + IdleTTL
=============================================================================
