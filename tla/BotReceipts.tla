---------------------------- MODULE BotReceipts ----------------------------
(* ReceiptService and RateLimitService: photos, their limit, and albums. *)
EXTENDS BotDialogue

\* getLanguage of this service: the session before the profile.
ReceiptLang(u) == IF session.lang # None THEN session.lang
                  ELSE IF updates[u].who.lang # None THEN updates[u].who.lang ELSE "en"

Respond(u, what) ==
    Continue(u, [updates[u] EXCEPT !.pc = "answer", !.said = what, !.lang = ReceiptLang(u)])

\* RateLimitService.consume: the counter is incremented...
UpToLimit(n) == IF n > Limit THEN n ELSE n + 1                   \* mutant: counts what it lets pass
Incremented(n) == n + 1

\* processPhotoMessage, for a new and for an edited message.
Photo(u) ==
    LET q == updates[u]
        n == Incremented(limiter.count) IN
    /\ q.pc = "photo"
    /\ \/ q.who.role = "none" /\ Respond(u, "unknown") /\ UNCHANGED limiter
       \/ /\ q.who.status \in Closed
          /\ Respond(u, q.who.status)
          /\ UNCHANGED limiter
       \/ /\ IsMember(q.who)
          /\ limiter' = [limiter EXCEPT !.count = n]
          /\ Continue(u, [q EXCEPT !.pc = "expire", !.count = n, !.window = limiter.window])
    /\ UNCHANGED <<person, offer, session, albums, past, spent>>

\* ...and given its expiry unless it has one: NX.
FirstOnly(q) == q.count = 1 /\ limiter.count > 0                 \* mutant of Expires
Expires(q) == limiter.count > 0
Allowed(q) == q.count <= Limit

Verdict(u) ==
    LET q == updates[u] IN
    /\ q.pc = "expire"
    /\ limiter' = IF Expires(q) THEN [limiter EXCEPT !.ttl = TRUE] ELSE limiter
    /\ past' = IF Allowed(q) THEN [past EXCEPT !.granted[q.window] = @ + 1]
               ELSE IF q.count = Limit + 1 THEN [past EXCEPT !.noticed[q.window] = @ + 1]
               ELSE past
    /\ IF Allowed(q) THEN Continue(u, [q EXCEPT !.pc = "enqueue"])
       ELSE IF q.count = Limit + 1 THEN Respond(u, "throttled")
       ELSE Continue(u, Idle)
    /\ UNCHANGED <<person, offer, session, albums, spent>>

\* An error of Redis lets the photo pass.
LimiterFails(u) ==
    LET q == updates[u] IN
    /\ \/ q.pc = "expire"
       \/ q.pc = "photo" /\ IsMember(q.who)
    /\ Spend("troubles", MaxTroubles)
    /\ Continue(u, [q EXCEPT !.pc = "enqueue"])
    /\ UNCHANGED <<person, offer, session, albums, limiter, past>>

WindowEnds ==
    /\ limiter.ttl
    /\ limiter.window < MaxLapses
    /\ limiter' = [count |-> 0, ttl |-> FALSE, window |-> limiter.window + 1]
    /\ UNCHANGED <<person, offer, session, updates, albums, past, spent>>

Enqueue(u) ==
    /\ updates[u].pc = "enqueue"
    /\ past' = [past EXCEPT !.queued = @ + 1]
    /\ Continue(u, [updates[u] EXCEPT !.pc = "ack"])
    /\ UNCHANGED <<person, offer, session, albums, limiter, spent>>

EnqueueFails(u) ==
    /\ updates[u].pc = "enqueue"
    /\ Spend("troubles", MaxTroubles)
    /\ Continue(u, Redelivered(updates[u]))
    /\ UNCHANGED <<person, offer, session, albums, limiter, past>>

-----------------------------------------------------------------------------

\* sendMediaGroupAck: a single photo is acknowledged at once, those of an album
\* together when its timer fires.
NewAck == [count |-> 1, timer |-> TRUE]
OneMore(ack) == IF ack = None THEN NewAck ELSE [ack EXCEPT !.count = @ + 1]
Ack(u) ==
    LET q == updates[u] IN
    /\ q.pc = "ack"
    /\ \/ q.arg \notin Albums /\ Respond(u, "received") /\ UNCHANGED albums
       \/ /\ q.arg \in Albums
          /\ albums' = [albums EXCEPT ![q.arg] = OneMore(@)]
          /\ Continue(u, Idle)
    /\ UNCHANGED <<person, offer, session, limiter, past, spent>>

Kept(ack) == [ack EXCEPT !.timer = FALSE]                        \* mutant: the entry stays in the Map
Fired(ack) == None

AlbumTimer(g) ==
    /\ albums[g] # None
    /\ albums[g].timer
    /\ albums' = [albums EXCEPT ![g] = Fired(@)]
    /\ past' = [past EXCEPT !.told = @ + albums[g].count]
    /\ UNCHANGED <<person, offer, session, updates, limiter, spent>>

ReceiptStep(u) ==
    \/ Photo(u) \/ Verdict(u) \/ LimiterFails(u) \/ Enqueue(u) \/ EnqueueFails(u) \/ Ack(u)
=============================================================================
