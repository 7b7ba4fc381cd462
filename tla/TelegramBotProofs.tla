-------------------------- MODULE TelegramBotProofs --------------------------
(***************************************************************************)
(* Proofs about TelegramBot, for any number of updates in flight, albums   *)
(* and windows of the limit.  An update carries the identity it resolved   *)
(* at its start; what makes its replies true and its acts legitimate is    *)
(* that this identity is one the person had while the update was there.    *)
(***************************************************************************)
EXTENDS TelegramBot, FiniteSetTheorems, TLAPS

\* Where ctx.state is still going to be read.
Reads(q) == q.goesOn \/ q.pc \in Handlers \cup {"save", "redeem", "batch", "expire", "enqueue", "ack"}

\* An update in flight, by what is yet to come of it.
Sound(q) == IF q.pc = "idle" THEN q = Idle ELSE
    /\ q.kind \in Handlers
    /\ \A row \in q.seen : Standing(row)
    /\ q.kind = "language" => q.arg \in Langs
    /\ q.pc \in Handlers \ {"start"} => q.kind = q.pc
    /\ q.pc = "save" => q.kind = "language" /\ q.said = "languageSaved"
    /\ q.goesOn => q.pc \in {"save", "answer"} /\ q.said = "languageSaved"
    /\ Reads(q) => \E row \in q.seen : row.role = q.who.role /\ row.status = q.who.status
    /\ q.pc = "redeem" => q.who.role = "none"
    /\ q.pc = "keep" => /\ q.said = "redeemed" /\ q.lang \in Langs
                        /\ \E row \in q.seen : row.role # "none"
    /\ q.pc = "batch" => MayInvite(q.who, q.arg)
    /\ q.pc \in {"expire", "enqueue", "ack"} => IsMember(q.who)
    /\ q.pc = "answer" => \E row \in q.seen : Fits(q.said, row, q.arg)

Good(q) == q \in Update /\ Sound(q)
Sees(q, row) == q.pc # "idle" => row \in q.seen

Chatting ==
    /\ person \in Person /\ Standing(person)
    /\ updates \in [Updates -> Update]
    /\ \A u \in Updates : Good(updates[u]) /\ Sees(updates[u], person)

\* Photos about to be let through, or refused with the notice, in window w.
Passing(w) == {u \in Updates : updates[u].pc = "expire" /\ updates[u].window = w /\ updates[u].count <= Limit}
Noticing(w) == {u \in Updates : updates[u].pc = "expire" /\ updates[u].window = w /\ updates[u].count = Limit + 1}

Counted == \A w \in 0..MaxLapses :
    /\ IsFiniteSet(Passing(w)) /\ IsFiniteSet(Noticing(w))
    /\ past.granted[w] + Cardinality(Passing(w)) <= Limit
    /\ past.noticed[w] + Cardinality(Noticing(w)) <= 1
    /\ w = limiter.window =>
         /\ past.granted[w] + Cardinality(Passing(w)) <= limiter.count
         /\ limiter.count <= Limit => past.noticed[w] = 0 /\ Noticing(w) = {}
    /\ w > limiter.window => /\ past.granted[w] = 0 /\ past.noticed[w] = 0
                             /\ Passing(w) = {} /\ Noticing(w) = {}

\* TypeOK, but for the number of photos lost, which takes the books of Booked to bound.
Histories(lost) == [queued: Nat, told: Nat, lost: {lost}, granted: [0..MaxLapses -> Nat],
                    noticed: [0..MaxLapses -> Nat]]
Typed ==
    /\ offer \in {"waiter", "manager", None}
    /\ session \in Session
    /\ albums \in [Albums -> [count: Nat \ {0}, timer: BOOLEAN] \cup {None}]
    /\ limiter \in [count: Nat, ttl: BOOLEAN, window: 0..MaxLapses]
    /\ \E lost : past \in Histories(lost)
    /\ spent \in [updates: 0..MaxUpdates, changes: 0..MaxChanges, troubles: 0..MaxTroubles]

Inv == Typed /\ Chatting /\ Counted

-----------------------------------------------------------------------------
(* Types *)

SpentType == spent' \in [updates: 0..MaxUpdates, changes: 0..MaxChanges, troubles: 0..MaxTroubles]
AlbumsType == albums' \in [Albums -> [count: Nat \ {0}, timer: BOOLEAN] \cup {None}]
LimiterType == limiter' \in [count: Nat, ttl: BOOLEAN, window: 0..MaxLapses]
PastType == \E lost : past' \in Histories(lost)

LEMMA Bounds == /\ Limit \in Nat /\ MaxUpdates \in Nat /\ MaxChanges \in Nat
                /\ MaxTroubles \in Nat /\ MaxLapses \in Nat
BY BoundsAssumption

LEMMA SpendType ==
    ASSUME Typed, \/ Spend("updates", MaxUpdates) \/ Spend("changes", MaxChanges)
                   \/ Spend("troubles", MaxTroubles)
    PROVE  SpentType
<1>1. spent \in [updates: 0..MaxUpdates, changes: 0..MaxChanges, troubles: 0..MaxTroubles]
  BY DEF Typed
<1>2. CASE Spend("updates", MaxUpdates)
  <2>1. spent.updates < MaxUpdates /\ spent' = [spent EXCEPT !.updates = @ + 1]  BY <1>2 DEF Spend
  <2>2. QED  BY <1>1, <2>1, Bounds DEF SpentType
<1>3. CASE Spend("changes", MaxChanges)
  <2>1. spent.changes < MaxChanges /\ spent' = [spent EXCEPT !.changes = @ + 1]  BY <1>3 DEF Spend
  <2>2. QED  BY <1>1, <2>1, Bounds DEF SpentType
<1>4. CASE Spend("troubles", MaxTroubles)
  <2>1. spent.troubles < MaxTroubles /\ spent' = [spent EXCEPT !.troubles = @ + 1]  BY <1>4 DEF Spend
  <2>2. QED  BY <1>1, <2>1, Bounds DEF SpentType
<1>5. QED  BY <1>2, <1>3, <1>4

LEMMA OneMoreType == ASSUME NEW S, NEW f \in [S -> Nat], NEW w PROVE [f EXCEPT ![w] = f[w] + 1] \in [S -> Nat]
<1>1. CASE w \in S
  <2>1. f[w] + 1 \in Nat  BY <1>1
  <2>2. QED  BY <1>1, <2>1
<1>2. CASE w \notin S
  <2>1. [f EXCEPT ![w] = f[w] + 1] = f  BY <1>2
  <2>2. QED  BY <2>1
<1>3. QED  BY <1>1, <1>2

LEMMA Cleaned == ASSUME Typed PROVE Cleared \in Session
BY DEF Cleared, Session, Typed

LEMMA LangType == ASSUME Typed, Chatting, NEW u \in Updates
                  PROVE  DialogueLang(u) \in Langs /\ ReceiptLang(u) \in Langs
<1>1. updates[u].who.lang \in Langs \cup {None} /\ session.lang \in Langs \cup {None}
  <2>1. updates[u] \in Update /\ session \in Session  BY DEF Chatting, Typed
  <2>2. updates[u].who \in Person  BY <2>1 DEF Update
  <2>3. QED  BY <2>1, <2>2 DEF Person, Session
<1>2. QED  BY <1>1 DEF DialogueLang, ReceiptLang, Langs

LEMMA DialogueRest ==
    ASSUME Inv, NEW u \in Updates, DialogueStep(u)
    PROVE  /\ offer' \in {"waiter", "manager", None} /\ session' \in Session /\ SpentType
           /\ UNCHANGED <<albums, limiter, past>>
<1> DEFINE Fine == /\ offer' \in {"waiter", "manager", None} /\ session' \in Session /\ SpentType
                   /\ UNCHANGED <<albums, limiter, past>>
<1>1. Typed /\ session \in Session /\ Cleared \in Session /\ updates[u] \in Update /\ Good(updates[u])
  BY Cleaned DEF Inv, Typed, Chatting
<1>2. ASSUME UNCHANGED spent PROVE SpentType  BY <1>1, <1>2 DEF SpentType, Typed
<1>3. CASE Start(u)  BY <1>1, <1>2, <1>3 DEF Start, NothingElse, Typed
<1>4. CASE Invite(u)
  <2>1. session' = session \/ session' = [session EXCEPT !.inviting = TRUE]
    BY <1>4 DEF Invite, BeginInviteFlow
  <2>2. session' \in Session  BY <1>1, <2>1 DEF Session
  <2>3. QED  BY <1>1, <1>2, <1>4, <2>2 DEF Invite, NothingElse, Typed
<1>5. CASE Redeem(u)  BY <1>1, <1>2, <1>5 DEF Redeem, Typed
<1>6. CASE Keep(u)  BY <1>1, <1>2, <1>6 DEF Keep, Typed
<1>7. CASE Register(u)  BY <1>1, <1>2, <1>7 DEF Register, NothingElse, Typed
<1>8. CASE Submit(u)  BY <1>1, <1>2, <1>8 DEF Submit, NothingElse, Typed
<1>9. CASE Language(u)
  <2>1. updates[u].arg \in Langs  BY <1>1, <1>9 DEF Good, Sound, Language, Handlers
  <2>2. session' = [session EXCEPT !.lang = updates[u].arg]  BY <1>9 DEF Language
  <2>3. session' \in Session  BY <1>1, <2>1, <2>2 DEF Session
  <2>4. QED  BY <1>1, <1>2, <1>9, <2>3 DEF Language, NothingElse, Typed
<1>10. CASE Save(u)  BY <1>1, <1>2, <1>10 DEF Save, Typed
<1>11. CASE ChooseRole(u)
  <2>1. CASE MayInvite(updates[u].who, updates[u].arg) /\ session' = [session EXCEPT !.role = updates[u].arg, !.inviting = TRUE]
    <3>1. updates[u].arg \in {"waiter", "manager"}  BY <2>1 DEF MayInvite, InvitableRoles
    <3>2. session' \in Session  BY <1>1, <2>1, <3>1 DEF Session
    <3>3. QED  BY <1>1, <1>2, <1>11, <3>2 DEF ChooseRole, NothingElse, Typed
  <2>2. CASE session' = Cleared  BY <1>1, <1>2, <1>11, <2>2 DEF ChooseRole, NothingElse, Typed
  <2>3. QED  BY <1>11, <2>1, <2>2 DEF ChooseRole
<1>12. CASE Share(u)  BY <1>1, <1>2, <1>12 DEF Share, NothingElse, Typed
<1>13. CASE CreateBatch(u)  BY <1>1, <1>2, <1>13 DEF CreateBatch, NothingElse, Typed
<1>14. CASE InviteFails(u)  BY <1>1, <1>14, SpendType DEF InviteFails, Typed
<1>15. QED
  BY <1>3, <1>4, <1>5, <1>6, <1>7, <1>8, <1>9, <1>10, <1>11, <1>12, <1>13, <1>14 DEF DialogueStep

LEMMA ReceiptRest ==
    ASSUME Inv, NEW u \in Updates, ReceiptStep(u)
    PROVE  /\ AlbumsType /\ LimiterType /\ PastType /\ SpentType
           /\ UNCHANGED <<person, offer, session>>
<1> DEFINE Fine == /\ AlbumsType /\ LimiterType /\ PastType /\ SpentType
                   /\ UNCHANGED <<person, offer, session>>
<1>1. Typed /\ updates[u] \in Update  BY DEF Inv, Chatting
<1>2. ASSUME UNCHANGED spent PROVE SpentType  BY <1>1, <1>2 DEF SpentType, Typed
<1>3. ASSUME UNCHANGED albums PROVE AlbumsType  BY <1>1, <1>3 DEF AlbumsType, Typed
<1>4. ASSUME UNCHANGED limiter PROVE LimiterType  BY <1>1, <1>4 DEF LimiterType, Typed
<1>5. ASSUME UNCHANGED past PROVE PastType  BY <1>1, <1>5 DEF PastType, Typed
<1>6. CASE Photo(u)
  <2>1. limiter' = limiter \/ limiter' = [limiter EXCEPT !.count = limiter.count + 1]
    BY <1>6 DEF Photo, Incremented
  <2>2. LimiterType  BY <1>1, <2>1 DEF LimiterType, Typed
  <2>3. QED  BY <1>2, <1>3, <1>5, <1>6, <2>2 DEF Photo
<1>7. CASE Verdict(u)
  <2>1. LimiterType
    <3>1. limiter' = limiter \/ limiter' = [limiter EXCEPT !.ttl = TRUE]  BY <1>7 DEF Verdict
    <3>2. QED  BY <1>1, <3>1 DEF LimiterType, Typed
  <2>2. PastType
    <3> DEFINE w == updates[u].window
    <3>1. \/ past' = past
          \/ past' = [past EXCEPT !.granted = [past.granted EXCEPT ![w] = past.granted[w] + 1]]
          \/ past' = [past EXCEPT !.noticed = [past.noticed EXCEPT ![w] = past.noticed[w] + 1]]
      BY <1>7 DEF Verdict
    <3>2. /\ [past.granted EXCEPT ![w] = past.granted[w] + 1] \in [0..MaxLapses -> Nat]
          /\ [past.noticed EXCEPT ![w] = past.noticed[w] + 1] \in [0..MaxLapses -> Nat]
      <4>1. past.granted \in [0..MaxLapses -> Nat] /\ past.noticed \in [0..MaxLapses -> Nat]
        BY <1>1 DEF Typed, Histories
      <4> HIDE DEF w
      <4>2. QED  BY <4>1, OneMoreType
    <3>3. QED  BY <1>1, <3>1, <3>2 DEF PastType, Typed, Histories
  <2>3. QED  BY <1>2, <1>3, <1>7, <2>1, <2>2 DEF Verdict
<1>8. CASE LimiterFails(u)  BY <1>1, <1>3, <1>4, <1>5, <1>8, SpendType DEF LimiterFails
<1>9. CASE Enqueue(u)
  <2>1. PastType  BY <1>1, <1>9 DEF Enqueue, PastType, Typed, Histories
  <2>2. QED  BY <1>2, <1>3, <1>4, <1>9, <2>1 DEF Enqueue
<1>10. CASE EnqueueFails(u)  BY <1>1, <1>3, <1>4, <1>5, <1>10, SpendType DEF EnqueueFails
<1>11. CASE Ack(u)
  <2> DEFINE g == updates[u].arg
  <2>1. ASSUME g \in Albums PROVE OneMore(albums[g]) \in [count: Nat \ {0}, timer: BOOLEAN]
    <3>1. NewAck \in [count: Nat \ {0}, timer: BOOLEAN]  BY DEF NewAck
    <3>2. ASSUME NEW a \in [count: Nat \ {0}, timer: BOOLEAN]
          PROVE  [a EXCEPT !.count = a.count + 1] \in [count: Nat \ {0}, timer: BOOLEAN]
      OBVIOUS
    <3>3. QED  BY <1>1, <2>1, <3>1, <3>2 DEF OneMore, Typed
  <2>2. \/ albums' = albums
        \/ g \in Albums /\ albums' = [albums EXCEPT ![g] = OneMore(albums[g])]
    BY <1>11 DEF Ack
  <2>3. AlbumsType  BY <1>1, <1>3, <2>1, <2>2 DEF Typed, AlbumsType
  <2>4. QED  BY <1>2, <1>4, <1>5, <1>11, <2>3 DEF Ack
<1>12. QED  BY <1>6, <1>7, <1>8, <1>9, <1>10, <1>11 DEF ReceiptStep

-----------------------------------------------------------------------------
(* The updates in flight *)

LEMMA Each == ASSUME Chatting, NEW u \in Updates
              PROVE  updates[u] \in Update /\ Sound(updates[u]) /\ Sees(updates[u], person)
BY DEF Chatting, Good

LEMMA ContinueGood ==
    ASSUME Chatting, NEW u \in Updates, NEW q, Good(q), Sees(q, person), Continue(u, q), UNCHANGED person
    PROVE  Chatting'
<1>1. updates' = [updates EXCEPT ![u] = q] /\ q \in Update  BY DEF Continue, Good
<1>2. updates' \in [Updates -> Update]  BY <1>1 DEF Chatting
<1>3. ASSUME NEW v \in Updates PROVE Good(updates[v])' /\ Sees(updates[v], person)'
  <2>1. updates'[v] = q \/ updates'[v] = updates[v]  BY <1>1 DEF Chatting
  <2>2. Good(updates'[v]) /\ Sees(updates'[v], person)  BY <2>1 DEF Chatting
  <2>3. QED  BY <2>2 DEF Good, Sound, Sees
<1>4. QED  BY <1>2, <1>3 DEF Chatting

LEMMA IdleGood == Good(Idle) /\ \A row : Sees(Idle, row)
<1>1. Nobody \in Person  BY DEF Nobody, Person, Roles
<1>2. Idle \in Update  BY <1>1 DEF Idle, Update, Stages, Replies, Args
<1>3. QED  BY <1>2 DEF Good, Sound, Sees, Idle

\* What the person becomes leaves every update as sound as it was.
LEMMA SeesMore ==
    ASSUME NEW q, Good(q), q.pc # "idle", NEW p \in Person, Standing(p)
    PROVE  LET more == [q EXCEPT !.seen = q.seen \cup {p}] IN
           Good(more) /\ Sees(more, p)
<1> DEFINE more == [q EXCEPT !.seen = q.seen \cup {p}]
<1>1. q \in Update /\ Sound(q)  BY DEF Good
<1>2. more \in Update  BY <1>1 DEF Update
<1>3. /\ more.pc = q.pc /\ more.kind = q.kind /\ more.arg = q.arg /\ more.who = q.who /\ more.lang = q.lang
      /\ more.said = q.said /\ more.goesOn = q.goesOn /\ more.seen = q.seen \cup {p}
  BY <1>1 DEF Update
<1> HIDE DEF more
<1>4. Sound(more)  BY <1>1, <1>3 DEF Sound, Reads
<1>5. Sees(more, p)  BY <1>3 DEF Sees
<1>6. QED  BY <1>2, <1>4, <1>5 DEF Good, more

LEMMA BecomesGood ==
    ASSUME NEW p \in Person, Standing(p), NEW now \in [Updates -> Update], Becomes(p, now),
           \A u \in Updates : now[u].pc = "idle" => now[u] = Idle,
           \A u \in Updates : now[u].pc # "idle" =>
             LET more == [now[u] EXCEPT !.seen = now[u].seen \cup {p}] IN Good(more) /\ Sees(more, p)
    PROVE  Chatting'
<1>1. person' = p  BY DEF Becomes
<1>2. ASSUME NEW u \in Updates
      PROVE  updates'[u] = IF now[u].pc = "idle" THEN now[u] ELSE [now[u] EXCEPT !.seen = now[u].seen \cup {p}]
  BY DEF Becomes
<1>3. ASSUME NEW u \in Updates PROVE Good(updates'[u]) /\ Sees(updates'[u], p)
  <2>1. CASE now[u].pc = "idle"
    <3>1. updates'[u] = Idle  BY <1>2, <2>1
    <3>2. QED  BY <3>1, IdleGood
  <2>2. CASE now[u].pc # "idle"
    <3>1. updates'[u] = [now[u] EXCEPT !.seen = now[u].seen \cup {p}]  BY <1>2, <2>2
    <3>2. QED  BY <2>2, <3>1
  <2>3. QED  BY <2>1, <2>2
<1>4. updates' \in [Updates -> Update]
  <2>1. \A u \in Updates : updates'[u] \in Update  BY <1>3 DEF Good
  <2>2. updates' = [u \in Updates |-> updates'[u]]  BY DEF Becomes
  <2>3. QED  BY <2>1, <2>2
<1>5. ASSUME NEW u \in Updates PROVE Good(updates[u])' /\ Sees(updates[u], person)'
  BY <1>1, <1>3 DEF Good, Sound, Sees
<1>6. QED  BY <1>1, <1>4, <1>5 DEF Chatting, Standing

\* The row becomes p, and nothing else happens to the updates.
LEMMA RowGood ==
    ASSUME Chatting, NEW p \in Person, Standing(p), Becomes(p, updates)
    PROVE  Chatting'
<1>1. updates \in [Updates -> Update]  BY DEF Chatting
<1>2. ASSUME NEW u \in Updates, updates[u].pc # "idle"
      PROVE  LET more == [updates[u] EXCEPT !.seen = updates[u].seen \cup {p}] IN Good(more) /\ Sees(more, p)
  <2>1. Good(updates[u])  BY DEF Chatting
  <2>2. QED  BY <1>2, <2>1, SeesMore
<1>3. \A u \in Updates : updates[u].pc = "idle" => updates[u] = Idle  BY Each DEF Sound
<1>4. QED  BY <1>1, <1>2, <1>3, BecomesGood

\* The row becomes p while update u, by what has made it so, goes on as q.
LEMMA RowAndOneGood ==
    ASSUME Chatting, NEW p \in Person, Standing(p), NEW u \in Updates, NEW q \in Update, q.pc # "idle",
           LET more == [q EXCEPT !.seen = q.seen \cup {p}] IN Good(more) /\ Sees(more, p),
           Becomes(p, [updates EXCEPT ![u] = q])
    PROVE  Chatting'
<1> DEFINE now == [updates EXCEPT ![u] = q]
<1>1. updates \in [Updates -> Update]  BY DEF Chatting
<1>2. now \in [Updates -> Update] /\ now[u] = q /\ \A v \in Updates \ {u} : now[v] = updates[v]  BY <1>1
<1> HIDE DEF now
<1>3. ASSUME NEW v \in Updates, now[v].pc # "idle"
      PROVE  LET more == [now[v] EXCEPT !.seen = now[v].seen \cup {p}] IN Good(more) /\ Sees(more, p)
  <2>1. CASE v = u  BY <1>2, <2>1
  <2>2. CASE v # u
    <3>1. now[v] = updates[v] /\ Good(updates[v])  BY <1>2, <2>2 DEF Chatting
    <3>2. QED  BY <1>3, <3>1, SeesMore
  <2>3. QED  BY <2>1, <2>2
<1>4. Becomes(p, now)  BY DEF now
<1>5. \A v \in Updates : now[v].pc = "idle" => now[v] = Idle  BY <1>2, Each DEF Sound
<1>6. QED  BY <1>2, <1>3, <1>4, <1>5, BecomesGood

\* A reply that fits a row the person has had.
LEMMA AnswerGood ==
    ASSUME Chatting, NEW u \in Updates, updates[u].pc # "idle", ~updates[u].goesOn,
           NEW what \in Replies, NEW l \in Langs,
           NEW row \in updates[u].seen, Fits(what, row, updates[u].arg),
           Continue(u, [updates[u] EXCEPT !.pc = "answer", !.said = what, !.lang = l]), UNCHANGED person
    PROVE  Chatting'
<1> DEFINE q == updates[u]
           next == [updates[u] EXCEPT !.pc = "answer", !.said = what, !.lang = l]
<1>1. q \in Update /\ Sound(q) /\ Sees(q, person)  BY Each
<1>2. next \in Update  BY <1>1 DEF Update, Stages
<1>3. /\ next.pc = "answer" /\ next.said = what /\ next.goesOn = q.goesOn /\ next.kind = q.kind
      /\ next.arg = q.arg /\ next.seen = q.seen
  BY <1>1 DEF Update
<1> HIDE DEF next
<1>4. Sound(next)  BY <1>1, <1>3 DEF Sound, Reads, Handlers
<1>5. Sees(next, person)  BY <1>1, <1>3 DEF Sees
<1>6. QED  BY <1>2, <1>4, <1>5, ContinueGood DEF Good, next

\* An update as it comes, for the first time or again.
LEMMA BegunGood ==
    ASSUME NEW kind \in Handlers, NEW arg \in Args, kind = "language" => arg \in Langs,
           NEW row \in Person, Standing(row)
    PROVE  LET new == [Idle EXCEPT !.pc = "identify", !.kind = kind, !.arg = arg, !.seen = {row}] IN
           Good(new) /\ Sees(new, row)
<1> DEFINE new == [Idle EXCEPT !.pc = "identify", !.kind = kind, !.arg = arg, !.seen = {row}]
<1>1. Idle \in Update /\ Idle.goesOn = FALSE  BY IdleGood DEF Good, Idle
<1>2. new \in Update  BY <1>1 DEF Update, Stages
<1>3. /\ new.pc = "identify" /\ new.kind = kind /\ new.arg = arg
      /\ new.seen = {row} /\ new.goesOn = FALSE
  BY <1>1 DEF Update
<1> HIDE DEF new
<1>4. Sound(new)  BY <1>3 DEF Sound, Reads, Handlers
<1>5. QED  BY <1>2, <1>3, <1>4 DEF Good, Sees, new

LEMMA RedeliveredGood ==
    ASSUME Chatting, NEW u \in Updates, updates[u].pc # "idle"
    PROVE  Good(Redelivered(updates[u])) /\ Sees(Redelivered(updates[u]), person)
<1>1. updates[u] \in Update /\ Sound(updates[u]) /\ person \in Person /\ Standing(person)
  BY Each DEF Chatting
<1>2. /\ updates[u].kind \in Handlers /\ updates[u].arg \in Args
      /\ updates[u].kind = "language" => updates[u].arg \in Langs
  BY <1>1 DEF Sound, Update
<1>3. QED  BY <1>1, <1>2, BegunGood DEF Redelivered

\* The identity an update goes by is one the person had while it was there.
LEMMA Known ==
    ASSUME Chatting, NEW u \in Updates, updates[u].pc # "idle", Reads(updates[u])
    PROVE  \E row \in updates[u].seen :
             /\ row.role = updates[u].who.role /\ row.status = updates[u].who.status /\ Standing(row)
BY Each DEF Sound

\* What may be said to somebody who is who, given that a row they had agrees with it.
LEMMA Replying ==
    ASSUME NEW who \in Person, NEW row \in Person, Standing(row),
           row.role = who.role, row.status = who.status, NEW arg
    PROVE  /\ who.status \in Closed => Fits(who.status, row, arg)
           /\ Fits("askLanguage", row, arg) /\ Fits("notInvited", row, arg) /\ Fits("languageSaved", row, arg)
           /\ IsMember(who) => /\ Fits("greeting", row, arg) /\ Fits("already", row, arg)
                              /\ Fits("submitReceipt", row, arg) /\ Fits("throttled", row, arg)
                              /\ Fits("received", row, arg)
           /\ who.role = "none" => Fits("register", row, arg) /\ Fits("unknown", row, arg)
           /\ InvitableRoles(who.role) = {} => Fits("onlyManagers", row, arg)
           /\ who.status \notin Closed /\ InvitableRoles(who.role) # {} => Fits("chooseRole", row, arg)
           /\ MayInvite(who, arg) => Fits("pick", row, arg) /\ Fits("invited", row, arg)
           /\ ~MayInvite(who, arg) => Fits("refused", row, arg)
           /\ who.status \notin Closed => (IsMember(who) <=> who.role # "none")
           /\ who.status # "active" /\ who.status \notin Closed => InvitableRoles(who.role) = {}
<1>1. who.role \in Roles /\ who.status \in {"none", "pending", "active", "rejected", "suspended"}
  BY DEF Person
<1>2. IsMember(row) <=> IsMember(who)  BY DEF IsMember
<1>3. MayInvite(row, arg) <=> MayInvite(who, arg)  BY <1>2 DEF MayInvite
<1>4. who.status \notin Closed => (IsMember(who) <=> who.role # "none")
  BY <1>1 DEF Closed, Standing, IsMember
<1>5. who.status \in Closed => Fits(who.status, row, arg)  BY DEF Fits, Closed
<1>6. /\ Fits("askLanguage", row, arg) /\ Fits("notInvited", row, arg) /\ Fits("languageSaved", row, arg)
  BY DEF Fits, Closed
<1>7. IsMember(who) => /\ Fits("greeting", row, arg) /\ Fits("already", row, arg)
                       /\ Fits("submitReceipt", row, arg) /\ Fits("throttled", row, arg)
                       /\ Fits("received", row, arg)
  BY <1>2 DEF Fits, Closed
<1>8. who.role = "none" => Fits("register", row, arg) /\ Fits("unknown", row, arg)  BY DEF Fits, Closed
<1>9. InvitableRoles(who.role) = {} => Fits("onlyManagers", row, arg)  BY DEF Fits, Closed
<1>10. InvitableRoles("none") = {}  BY DEF InvitableRoles
<1>11. who.status \notin Closed /\ InvitableRoles(who.role) # {} => Fits("chooseRole", row, arg)
  BY <1>2, <1>4, <1>10 DEF Fits, Closed
<1>12. MayInvite(who, arg) => Fits("pick", row, arg) /\ Fits("invited", row, arg)
  BY <1>3 DEF Fits, Closed
<1>13. ~MayInvite(who, arg) => Fits("refused", row, arg)  BY <1>3 DEF Fits, Closed
<1>14. who.status # "active" /\ who.status \notin Closed => InvitableRoles(who.role) = {}
  BY <1>1, <1>10 DEF Closed, Standing
<1>15. QED
  BY <1>4, <1>5, <1>6, <1>7, <1>8, <1>9, <1>11, <1>12, <1>13, <1>14

\* A reply that is right by the identity of the update.
LEMMA SayGood ==
    ASSUME Inv, NEW u \in Updates, updates[u].pc # "idle", ~updates[u].goesOn, Reads(updates[u]),
           NEW what \in Replies, UNCHANGED person,
           Say(u, what) \/ Respond(u, what),
           \A row \in Person : Standing(row) /\ row.role = updates[u].who.role
                               /\ row.status = updates[u].who.status => Fits(what, row, updates[u].arg)
    PROVE  Chatting'
<1>1. Chatting /\ Typed  BY DEF Inv
<1>2. PICK row \in updates[u].seen :
        row.role = updates[u].who.role /\ row.status = updates[u].who.status /\ Standing(row)
  BY <1>1, Known
<1>3. row \in Person  BY <1>1, Each DEF Update
<1>4. Fits(what, row, updates[u].arg)  BY <1>2, <1>3
<1>5. PICK l \in Langs : Continue(u, [updates[u] EXCEPT !.pc = "answer", !.said = what, !.lang = l])
  BY <1>1, LangType DEF Say, Respond
<1>6. QED  BY <1>1, <1>2, <1>4, <1>5, AnswerGood

\* The same handler goes on, or another.
LEMMA GoOnGood ==
    ASSUME Chatting, NEW u \in Updates, updates[u].pc # "idle", ~updates[u].goesOn, Reads(updates[u]),
           NEW pc \in {"start", "redeem", "enqueue", "ack"}, UNCHANGED person,
           pc = "redeem" => updates[u].who.role = "none",
           pc \in {"enqueue", "ack"} => IsMember(updates[u].who),
           Continue(u, [updates[u] EXCEPT !.pc = pc])
    PROVE  Chatting'
<1> DEFINE q == updates[u]
           next == [updates[u] EXCEPT !.pc = pc]
<1>1. q \in Update /\ Sound(q) /\ Sees(q, person)  BY Each
<1>2. next \in Update  BY <1>1 DEF Update, Stages, Handlers
<1>3. /\ next.pc = pc /\ next.said = q.said /\ next.goesOn = q.goesOn /\ next.kind = q.kind
      /\ next.arg = q.arg /\ next.seen = q.seen /\ next.who = q.who /\ next.lang = q.lang
  BY <1>1 DEF Update
<1> HIDE DEF next
<1>4. Sound(next)  BY <1>1, <1>3 DEF Sound, Handlers
<1>5. Sees(next, person)  BY <1>1, <1>3 DEF Sees
<1>6. QED  BY <1>2, <1>4, <1>5, ContinueGood DEF Good, next

-----------------------------------------------------------------------------
(* The dialogue *)

\* What the next proofs know of an update at one of their stages.
LEMMA AtStage ==
    ASSUME Inv, NEW u \in Updates, updates[u].pc \notin {"idle", "identify", "keep", "save", "answer"}
    PROVE  /\ Chatting /\ Typed /\ updates[u] \in Update /\ Sound(updates[u]) /\ Sees(updates[u], person)
           /\ updates[u].who \in Person /\ ~updates[u].goesOn /\ Reads(updates[u])
<1>1. Chatting /\ Typed  BY DEF Inv
<1>2. updates[u] \in Update /\ Sound(updates[u]) /\ Sees(updates[u], person)  BY <1>1, Each
<1>3. updates[u].who \in Person /\ updates[u].pc \in Stages  BY <1>2 DEF Update
<1>4. ~updates[u].goesOn /\ Reads(updates[u])  BY <1>2, <1>3 DEF Sound, Reads, Stages
<1>5. QED  BY <1>1, <1>2, <1>3, <1>4

LEMMA StandingReplyGood ==
    ASSUME Inv, NEW u \in Updates, updates[u].pc \notin {"idle", "identify", "keep", "save", "answer"},
           StandingReply(u), UNCHANGED person
    PROVE  Chatting'
<1>1. updates[u].who.status \in Closed /\ updates[u].who.status \in Replies
  BY DEF StandingReply, Closed, Replies
<1>2. Say(u, updates[u].who.status)  BY DEF StandingReply
<1>3. QED  BY <1>1, <1>2, AtStage, Replying, SayGood

LEMMA StartGood == ASSUME Inv, NEW u \in Updates, Start(u) PROVE Chatting'
<1>1. updates[u].pc = "start" /\ UNCHANGED person  BY DEF Start, NothingElse
<1>2. CASE Say(u, "askLanguage")
  <2>1. "askLanguage" \in Replies  BY DEF Replies
  <2>2. QED  BY <1>1, <1>2, <2>1, AtStage, Replying, SayGood
<1>3. CASE StandingReply(u)  BY <1>1, <1>3, StandingReplyGood
<1>4. CASE IsMember(updates[u].who) /\ Say(u, "greeting")
  <2>1. "greeting" \in Replies  BY DEF Replies
  <2>2. QED  BY <1>1, <1>4, <2>1, AtStage, Replying, SayGood
<1>5. CASE Open(u) /\ ~IsMember(updates[u].who) /\ Continue(u, [updates[u] EXCEPT !.pc = "redeem"])
  <2>1. PICK row \in updates[u].seen :
          row.role = updates[u].who.role /\ row.status = updates[u].who.status /\ Standing(row)
    BY <1>1, AtStage, Known
  <2>2. row \in Person  BY <1>1, AtStage DEF Update
  <2>3. updates[u].who.role = "none"  BY <1>1, <1>5, <2>1, <2>2, AtStage, Replying DEF Open
  <2>4. QED  BY <1>1, <1>5, <2>3, AtStage, GoOnGood
<1>6. QED  BY <1>2, <1>3, <1>4, <1>5 DEF Start

LEMMA InviteGood == ASSUME Inv, NEW u \in Updates, Invite(u) PROVE Chatting'
<1>1. updates[u].pc \in {"invite", "start"} /\ UNCHANGED person  BY DEF Invite, NothingElse
<1>2. CASE StandingReply(u)  BY <1>1, <1>2, StandingReplyGood
<1>3. CASE InvitableRoles(updates[u].who.role) = {} /\ Say(u, "onlyManagers")
  <2>1. "onlyManagers" \in Replies  BY DEF Replies
  <2>2. QED  BY <1>1, <1>3, <2>1, AtStage, Replying, SayGood
<1>4. CASE Open(u) /\ InvitableRoles(updates[u].who.role) # {} /\ Say(u, "chooseRole")
  <2>1. "chooseRole" \in Replies  BY DEF Replies
  <2>2. QED  BY <1>1, <1>4, <2>1, AtStage, Replying, SayGood DEF Open
<1>5. QED  BY <1>2, <1>3, <1>4 DEF Invite, BeginInviteFlow

LEMMA RegisterGood == ASSUME Inv, NEW u \in Updates, Register(u) PROVE Chatting'
<1>1. updates[u].pc = "register" /\ UNCHANGED person  BY DEF Register, NothingElse
<1>2. CASE StandingReply(u)  BY <1>1, <1>2, StandingReplyGood
<1>3. CASE IsMember(updates[u].who) /\ Say(u, "already")
  <2>1. "already" \in Replies  BY DEF Replies
  <2>2. QED  BY <1>1, <1>3, <2>1, AtStage, Replying, SayGood
<1>4. CASE Open(u) /\ ~IsMember(updates[u].who) /\ Say(u, "register")
  <2>1. "register" \in Replies  BY DEF Replies
  <2>2. PICK row \in updates[u].seen :
          row.role = updates[u].who.role /\ row.status = updates[u].who.status /\ Standing(row)
    BY <1>1, AtStage, Known
  <2>3. row \in Person  BY <1>1, <2>2, AtStage DEF Update
  <2>4. updates[u].who.role = "none"  BY <1>1, <1>4, <2>2, <2>3, AtStage, Replying DEF Open
  <2>5. QED  BY <1>1, <1>4, <2>1, <2>4, AtStage, Replying, SayGood
<1>5. QED  BY <1>2, <1>3, <1>4 DEF Register

LEMMA SubmitGood == ASSUME Inv, NEW u \in Updates, Submit(u) PROVE Chatting'
<1>1. updates[u].pc = "submit" /\ UNCHANGED person  BY DEF Submit, NothingElse
<1>2. CASE IsMember(updates[u].who) /\ Say(u, "submitReceipt")
  <2>1. "submitReceipt" \in Replies  BY DEF Replies
  <2>2. QED  BY <1>1, <1>2, <2>1, AtStage, Replying, SayGood
<1>3. CASE Continue(u, [updates[u] EXCEPT !.pc = "start"])  BY <1>1, <1>3, AtStage, GoOnGood
<1>4. QED  BY <1>2, <1>3 DEF Submit

LEMMA ChooseRoleGood == ASSUME Inv, NEW u \in Updates, ChooseRole(u) PROVE Chatting'
<1>1. updates[u].pc = "role" /\ UNCHANGED person  BY DEF ChooseRole, NothingElse
<1>2. CASE MayInvite(updates[u].who, updates[u].arg) /\ Say(u, "pick")
  <2>1. "pick" \in Replies  BY DEF Replies
  <2>2. QED  BY <1>1, <1>2, <2>1, AtStage, Replying, SayGood
<1>3. CASE ~MayInvite(updates[u].who, updates[u].arg) /\ Say(u, "refused")
  <2>1. "refused" \in Replies  BY DEF Replies
  <2>2. QED  BY <1>1, <1>3, <2>1, AtStage, Replying, SayGood
<1>4. QED  BY <1>2, <1>3 DEF ChooseRole

LEMMA CreateBatchGood == ASSUME Inv, NEW u \in Updates, CreateBatch(u) PROVE Chatting'
<1>1. updates[u].pc = "batch" /\ UNCHANGED person /\ Say(u, "invited")  BY DEF CreateBatch, NothingElse
<1>2. MayInvite(updates[u].who, updates[u].arg) /\ "invited" \in Replies
  BY <1>1, AtStage DEF Sound, Replies
<1>3. QED  BY <1>1, <1>2, AtStage, Replying, SayGood

LEMMA InviteFailsGood == ASSUME Inv, NEW u \in Updates, InviteFails(u) PROVE Chatting'
<1>1. Chatting /\ Typed /\ UNCHANGED person /\ Say(u, "notInvited")  BY DEF Inv, InviteFails
<1>2. updates[u].pc \in {"batch", "answer"} /\ (updates[u].pc = "answer" => updates[u].said = "invited")
  BY DEF InviteFails
<1>3. Sound(updates[u]) /\ Sees(updates[u], person)  BY <1>1, Each
<1>4. ~updates[u].goesOn /\ person \in updates[u].seen  BY <1>2, <1>3 DEF Sound, Sees
<1>5. "notInvited" \in Replies /\ Fits("notInvited", person, updates[u].arg)
  BY DEF Replies, Fits, Closed
<1>6. PICK l \in Langs : Continue(u, [updates[u] EXCEPT !.pc = "answer", !.said = "notInvited", !.lang = l])
  BY <1>1, LangType DEF Say
<1>7. QED  BY <1>1, <1>2, <1>4, <1>5, <1>6, AnswerGood

LEMMA LanguageGood == ASSUME Inv, NEW u \in Updates, Language(u) PROVE Chatting'
<1> DEFINE q == updates[u]
<1>1. q.pc = "language" /\ UNCHANGED person  BY DEF Language, NothingElse
<1>2. q \in Update /\ Sound(q) /\ Sees(q, person) /\ Chatting /\ q.arg \in Langs
  BY <1>1, AtStage DEF Sound, Handlers
<1>3. PICK pc \in {"save", "answer"}, goesOn \in BOOLEAN :
        Continue(u, [q EXCEPT !.pc = pc, !.goesOn = goesOn, !.said = "languageSaved", !.lang = q.arg])
  BY DEF Language
<1> DEFINE next == [q EXCEPT !.pc = pc, !.goesOn = goesOn, !.said = "languageSaved", !.lang = q.arg]
<1>4. next \in Update  BY <1>2 DEF Update, Stages, Replies
<1>5. /\ next.pc = pc /\ next.said = "languageSaved" /\ next.kind = q.kind
      /\ next.arg = q.arg /\ next.seen = q.seen /\ next.who = q.who
  BY <1>2 DEF Update
<1> HIDE DEF next
<1>6. \A row \in next.seen : Fits("languageSaved", row, next.arg)  BY DEF Fits, Closed
<1>7. Sound(next)
  <2>1. q.kind = "language" /\ q.kind \in Handlers /\ Reads(q)  BY <1>1, <1>2 DEF Sound, Reads, Handlers
  <2>2. \E row \in q.seen : row.role = q.who.role /\ row.status = q.who.status
    BY <1>1, <1>2, <2>1 DEF Sound
  <2>3. QED  BY <1>1, <1>2, <1>5, <1>6, <2>1, <2>2 DEF Sound, Handlers
<1>8. Sees(next, person)  BY <1>1, <1>2, <1>5 DEF Sees
<1>9. Good(next)  BY <1>4, <1>7 DEF Good
<1>10. Continue(u, next)  BY <1>3 DEF next
<1>11. QED  BY <1>1, <1>2, <1>8, <1>9, <1>10, ContinueGood

LEMMA ShareGood == ASSUME Inv, NEW u \in Updates, Share(u) PROVE Chatting'
<1> DEFINE q == updates[u]
<1>1. q.pc = "share" /\ UNCHANGED person  BY DEF Share, NothingElse
<1>2. /\ q \in Update /\ Sound(q) /\ Sees(q, person) /\ Chatting /\ Typed
      /\ q.who \in Person /\ ~q.goesOn /\ Reads(q)
  BY <1>1, AtStage
<1>3. CASE Continue(u, Idle)  BY <1>1, <1>2, <1>3, IdleGood, ContinueGood
<1>4. CASE q.who.status \in Closed /\ Say(u, q.who.status)
  <2>1. q.who.status \in Replies  BY <1>4 DEF Closed, Replies
  <2>2. QED  BY <1>1, <1>2, <1>4, <2>1, Replying, SayGood
<1>5. CASE q.who.status # "active" /\ q.who.status \notin Closed /\ Say(u, "onlyManagers")
  <2>1. "onlyManagers" \in Replies  BY DEF Replies
  <2>2. \A row \in Person : Standing(row) /\ row.role = q.who.role /\ row.status = q.who.status
                               => Fits("onlyManagers", row, q.arg)
    BY <1>2, <1>5, Replying
  <2>3. QED  BY <1>1, <1>2, <1>5, <2>1, <2>2, SayGood
\* The role the session holds, chosen by whichever update came last.
<1>6. CASE session.role # None
  <2>1. session.role \in {"waiter", "manager"}  BY <1>2, <1>6 DEF Typed, Session
  <2>2. session.role \in Args  BY <2>1 DEF Args
  <2>3. PICK row \in q.seen : row.role = q.who.role /\ row.status = q.who.status /\ Standing(row)
    BY <1>1, <1>2, Known
  <2>4. row \in Person  BY <1>2, <2>3 DEF Update
  <2>5. CASE /\ ~MaySelect(q.who, session.role)
             /\ Continue(u, [q EXCEPT !.pc = "answer", !.said = "refused", !.arg = session.role,
                                      !.lang = DialogueLang(u)])
    <3> DEFINE next == [q EXCEPT !.pc = "answer", !.said = "refused", !.arg = session.role,
                                 !.lang = DialogueLang(u)]
    <3>1. DialogueLang(u) \in Langs  BY <1>2, LangType
    <3>2. next \in Update  BY <1>2, <2>2, <3>1 DEF Update, Stages, Replies
    <3>3. /\ next.pc = "answer" /\ next.said = "refused" /\ next.kind = q.kind /\ next.arg = session.role
          /\ next.seen = q.seen /\ next.goesOn = q.goesOn
      BY <1>2 DEF Update
    <3>4. q.kind # "language"  BY <1>1, <1>2 DEF Sound, Handlers
    <3> HIDE DEF next
    <3>5. Fits("refused", row, session.role)  BY <1>2, <2>3, <2>4, <2>5, Replying DEF MaySelect
    <3>6. Sound(next)  BY <1>1, <1>2, <2>3, <3>3, <3>4, <3>5 DEF Sound, Reads, Handlers
    <3>7. Sees(next, person)  BY <1>1, <1>2, <3>3 DEF Sees
    <3>8. Continue(u, next)  BY <2>5 DEF next
    <3>9. QED  BY <1>1, <1>2, <3>2, <3>6, <3>7, <3>8, ContinueGood DEF Good
  <2>6. CASE MaySelect(q.who, session.role) /\ Continue(u, [q EXCEPT !.pc = "batch", !.arg = session.role])
    <3> DEFINE next == [q EXCEPT !.pc = "batch", !.arg = session.role]
    <3>1. next \in Update  BY <1>2, <2>2 DEF Update, Stages
    <3>2. /\ next.pc = "batch" /\ next.kind = q.kind /\ next.arg = session.role /\ next.who = q.who
          /\ next.seen = q.seen /\ next.goesOn = q.goesOn
      BY <1>2 DEF Update
    <3>3. q.kind # "language"  BY <1>1, <1>2 DEF Sound, Handlers
    <3> HIDE DEF next
    <3>4. Sound(next)  BY <1>1, <1>2, <2>3, <2>6, <3>2, <3>3 DEF Sound, Reads, Handlers, MaySelect
    <3>5. Sees(next, person)  BY <1>1, <1>2, <3>2 DEF Sees
    <3>6. Continue(u, next)  BY <2>6 DEF next
    <3>7. QED  BY <1>1, <1>2, <3>1, <3>4, <3>5, <3>6, ContinueGood DEF Good
  <2>7. QED  BY <1>3, <1>4, <1>5, <2>5, <2>6 DEF Share
<1>7. QED  BY <1>3, <1>4, <1>5, <1>6 DEF Share

\* The Invite admits the person: they are a member from now on.
LEMMA RedeemGood == ASSUME Inv, NEW u \in Updates, Redeem(u) PROVE Chatting'
<1> DEFINE q == updates[u]
<1>1. q.pc = "redeem"  BY DEF Redeem
<1>2. /\ q \in Update /\ Sound(q) /\ Sees(q, person) /\ Chatting /\ Typed
      /\ q.who \in Person /\ ~q.goesOn /\ Reads(q)
  BY <1>1, AtStage
<1>3. CASE Say(u, "register") /\ UNCHANGED person
  <2>1. "register" \in Replies /\ q.who.role = "none"  BY <1>1, <1>2 DEF Sound, Replies
  <2>2. \A row \in Person : Standing(row) /\ row.role = q.who.role /\ row.status = q.who.status
                               => Fits("register", row, q.arg)
    BY <1>2, <2>1, Replying
  <2>3. QED  BY <1>1, <1>2, <1>3, <2>1, <2>2, SayGood
<1>4. CASE /\ offer # None
           /\ Becomes([person EXCEPT !.role = offer, !.status = "active",
                                     !.lang = IF person.lang = None THEN "en" ELSE person.lang],
                      [updates EXCEPT ![u].pc = IF session.lang # None THEN "keep" ELSE "answer",
                                      ![u].said = "redeemed", ![u].lang = DialogueLang(u)])
  <2> DEFINE p == [person EXCEPT !.role = offer, !.status = "active",
                                 !.lang = IF person.lang = None THEN "en" ELSE person.lang]
             next == [q EXCEPT !.pc = IF session.lang # None THEN "keep" ELSE "answer",
                               !.said = "redeemed", !.lang = DialogueLang(u)]
             more == [next EXCEPT !.seen = next.seen \cup {p}]
  <2>1. offer \in {"waiter", "manager"} /\ person \in Person  BY <1>2, <1>4 DEF Typed, Chatting
  <2>2. p \in Person /\ p.role = offer /\ p.status = "active"  BY <2>1 DEF Person, Roles, Langs
  <2> HIDE DEF p
  <2>3. Standing(p) /\ p.role # "none"  BY <2>1, <2>2 DEF Standing
  <2>4. DialogueLang(u) \in Langs  BY <1>2, LangType
  <2>5. next \in Update  BY <1>2, <2>4 DEF Update, Stages, Replies
  <2>6. /\ next.pc \in {"keep", "answer"} /\ next.said = "redeemed" /\ next.lang = DialogueLang(u)
        /\ next.kind = q.kind /\ next.arg = q.arg /\ next.who = q.who /\ next.seen = q.seen
        /\ next.goesOn = q.goesOn
    BY <1>2 DEF Update
  <2>7. Becomes(p, [updates EXCEPT ![u] = next])  BY <1>4 DEF p
  <2> HIDE DEF next
  <2>8. more \in Update  BY <2>2, <2>5 DEF Update
  <2>9. /\ more.pc = next.pc /\ more.said = next.said /\ more.lang = next.lang
        /\ more.kind = next.kind /\ more.arg = next.arg /\ more.who = next.who
        /\ more.seen = q.seen \cup {p} /\ more.goesOn = next.goesOn
    BY <2>5, <2>6 DEF Update
  <2> HIDE DEF more
  <2>10. Fits("redeemed", p, q.arg)  BY <2>3 DEF Fits, Closed
  <2>11. Sound(more)
    BY <1>1, <1>2, <2>3, <2>4, <2>6, <2>9, <2>10 DEF Sound, Reads, Handlers
  <2>12. Good(more) /\ Sees(more, p)  BY <2>8, <2>9, <2>11 DEF Good, Sees
  <2>13. next.pc # "idle"  BY <2>6
  <2>14. QED  BY <1>2, <2>2, <2>3, <2>5, <2>7, <2>12, <2>13, RowAndOneGood DEF more
<1>5. CASE Continue(u, Redelivered(q)) /\ UNCHANGED person
  BY <1>1, <1>2, <1>5, RedeliveredGood, ContinueGood
<1>6. QED  BY <1>3, <1>4, <1>5 DEF Redeem

LEMMA SaveLanguageGood ==
    ASSUME Inv, NEW u \in Updates, updates[u].pc \in {"keep", "save"},
           NEW l \in Langs, NEW who \in Person, SaveLanguage(u, l, who),
           updates[u].goesOn => who.role = updates[u].who.role /\ who.status = updates[u].who.status
    PROVE  Chatting'
<1> DEFINE q == updates[u]
<1>1. q \in Update /\ Sound(q) /\ Sees(q, person) /\ Chatting /\ person \in Person /\ Standing(person)
  BY Each DEF Inv, Chatting
<1>2. CASE Becomes([person EXCEPT !.lang = l], [updates EXCEPT ![u].pc = "answer", ![u].who = who])
  <2> DEFINE p == [person EXCEPT !.lang = l]
             next == [q EXCEPT !.pc = "answer", !.who = who]
             more == [next EXCEPT !.seen = next.seen \cup {p}]
  <2>1. p \in Person /\ p.role = person.role /\ p.status = person.status  BY <1>1 DEF Person
  <2> HIDE DEF p
  <2>2. Standing(p)  BY <1>1, <2>1 DEF Standing
  <2>3. next \in Update  BY <1>1 DEF Update, Stages
  <2>4. /\ next.pc = "answer" /\ next.said = q.said /\ next.lang = q.lang
        /\ next.kind = q.kind /\ next.arg = q.arg /\ next.who = who /\ next.seen = q.seen
        /\ next.goesOn = q.goesOn
    BY <1>1 DEF Update
  <2>5. Becomes(p, [updates EXCEPT ![u] = next])  BY <1>2 DEF p
  <2> HIDE DEF next
  <2>6. more \in Update  BY <2>1, <2>3 DEF Update
  <2>7. /\ more.pc = "answer" /\ more.said = q.said /\ more.lang = q.lang
        /\ more.kind = q.kind /\ more.arg = q.arg /\ more.who = who
        /\ more.seen = q.seen \cup {p} /\ more.goesOn = q.goesOn
    BY <2>3, <2>4 DEF Update
  <2> HIDE DEF more
  <2>8. \E row \in q.seen \cup {p} : Fits(q.said, row, q.arg)
    <3>1. CASE q.pc = "keep"
      <4>1. q.said = "redeemed" /\ \E row \in q.seen : row.role # "none"  BY <1>1, <3>1 DEF Sound
      <4>2. QED  BY <4>1 DEF Fits, Closed
    <3>2. CASE q.pc = "save"
      <4>1. q.said = "languageSaved"  BY <1>1, <3>2 DEF Sound
      <4>2. QED  BY <4>1 DEF Fits, Closed
    <3>3. QED  BY <3>1, <3>2
  <2>9. Sound(more)
    <3>1. q.pc # "idle"  OBVIOUS
    <3>2. q.goesOn => q.said = "languageSaved" /\ \E row \in q.seen : row.role = who.role /\ row.status = who.status
      BY <1>1, <3>1 DEF Sound, Reads
    <3>3. QED  BY <1>1, <2>2, <2>7, <2>8, <3>1, <3>2 DEF Sound, Reads, Handlers
  <2>10. Good(more) /\ Sees(more, p)  BY <2>6, <2>7, <2>9 DEF Good, Sees
  <2>11. next.pc # "idle"  BY <2>4
  <2>12. QED  BY <1>1, <2>1, <2>2, <2>3, <2>5, <2>10, <2>11, RowAndOneGood DEF more
<1>3. CASE Continue(u, Redelivered(q)) /\ UNCHANGED person
  <2>1. q.pc # "idle"  OBVIOUS
  <2>2. QED  BY <1>1, <1>3, <2>1, RedeliveredGood, ContinueGood
<1>4. QED  BY <1>2, <1>3 DEF SaveLanguage

LEMMA KeepGood == ASSUME Inv, NEW u \in Updates, Keep(u) PROVE Chatting'
<1>1. updates[u].pc = "keep" /\ SaveLanguage(u, updates[u].lang, Nobody)  BY DEF Keep
<1>2. Sound(updates[u])  BY Each DEF Inv
<1>3. updates[u].lang \in Langs /\ ~updates[u].goesOn  BY <1>1, <1>2 DEF Sound
<1>4. Nobody \in Person  BY DEF Nobody, Person, Roles
<1>5. QED  BY <1>1, <1>3, <1>4, SaveLanguageGood

LEMMA SaveGood == ASSUME Inv, NEW u \in Updates, Save(u) PROVE Chatting'
<1> DEFINE who == [updates[u].who EXCEPT !.lang = updates[u].arg]
<1>1. updates[u].pc = "save" /\ SaveLanguage(u, updates[u].arg, who)  BY DEF Save
<1>2. updates[u] \in Update /\ Sound(updates[u])  BY Each DEF Inv
<1>3. updates[u].arg \in Langs  BY <1>1, <1>2 DEF Sound
<1>4. updates[u].who \in Person  BY <1>2 DEF Update
<1>5. who \in Person /\ who.role = updates[u].who.role /\ who.status = updates[u].who.status
  BY <1>3, <1>4 DEF Person
<1> HIDE DEF who
<1>6. QED  BY <1>1, <1>3, <1>5, SaveLanguageGood

LEMMA DialogueGood == ASSUME Inv, NEW u \in Updates, DialogueStep(u) PROVE Chatting'
BY StartGood, InviteGood, RedeemGood, KeepGood, RegisterGood, SubmitGood, LanguageGood, SaveGood,
   ChooseRoleGood, ShareGood, CreateBatchGood, InviteFailsGood DEF DialogueStep

-----------------------------------------------------------------------------
(* Photos *)

LEMMA PhotoGood == ASSUME Inv, NEW u \in Updates, Photo(u) PROVE Chatting'
<1> DEFINE q == updates[u]
<1>1. q.pc = "photo" /\ UNCHANGED person  BY DEF Photo
<1>2. /\ q \in Update /\ Sound(q) /\ Sees(q, person) /\ Chatting /\ Typed
      /\ q.who \in Person /\ ~q.goesOn /\ Reads(q)
  BY <1>1, AtStage
<1>3. CASE q.who.role = "none" /\ Respond(u, "unknown")
  <2>1. "unknown" \in Replies  BY DEF Replies
  <2>2. \A row \in Person : Standing(row) /\ row.role = q.who.role /\ row.status = q.who.status
                               => Fits("unknown", row, q.arg)
    BY <1>2, <1>3, Replying
  <2>3. QED  BY <1>1, <1>2, <1>3, <2>1, <2>2, SayGood
<1>4. CASE q.who.status \in Closed /\ Respond(u, q.who.status)
  <2>1. q.who.status \in Replies  BY <1>4 DEF Closed, Replies
  <2>2. QED  BY <1>1, <1>2, <1>4, <2>1, Replying, SayGood
<1>5. CASE /\ IsMember(q.who)
           /\ Continue(u, [q EXCEPT !.pc = "expire", !.count = Incremented(limiter.count),
                                    !.window = limiter.window])
  <2> DEFINE next == [q EXCEPT !.pc = "expire", !.count = Incremented(limiter.count),
                               !.window = limiter.window]
  <2>1. Incremented(limiter.count) \in Nat /\ limiter.window \in Nat
    BY <1>2, Bounds DEF Typed, Incremented
  <2>2. next \in Update  BY <1>2, <2>1 DEF Update, Stages
  <2>3. /\ next.pc = "expire" /\ next.kind = q.kind /\ next.arg = q.arg /\ next.who = q.who
        /\ next.seen = q.seen /\ next.goesOn = q.goesOn
    BY <1>2 DEF Update
  <2>4. Continue(u, next)  BY <1>5
  <2> HIDE DEF next
  <2>5. Sound(next)  BY <1>1, <1>2, <1>5, <2>3 DEF Sound, Handlers
  <2>6. Sees(next, person)  BY <1>1, <1>2, <2>3 DEF Sees
  <2>7. QED  BY <1>1, <1>2, <2>2, <2>4, <2>5, <2>6, ContinueGood DEF Good
<1>6. QED  BY <1>3, <1>4, <1>5 DEF Photo

LEMMA VerdictGood == ASSUME Inv, NEW u \in Updates, Verdict(u) PROVE Chatting'
<1>1. updates[u].pc = "expire" /\ UNCHANGED person  BY DEF Verdict
<1>2. /\ Sound(updates[u]) /\ Chatting /\ updates[u].who \in Person /\ ~updates[u].goesOn /\ Reads(updates[u])
  BY <1>1, AtStage
<1>3. IsMember(updates[u].who)  BY <1>1, <1>2 DEF Sound
<1>4. CASE Continue(u, [updates[u] EXCEPT !.pc = "enqueue"])  BY <1>1, <1>2, <1>3, <1>4, GoOnGood
<1>5. CASE Respond(u, "throttled")
  <2>1. "throttled" \in Replies  BY DEF Replies
  <2>2. QED  BY <1>1, <1>2, <1>3, <1>5, <2>1, Replying, SayGood
<1>6. CASE Continue(u, Idle)  BY <1>1, <1>2, <1>6, IdleGood, ContinueGood
<1>7. QED  BY <1>4, <1>5, <1>6 DEF Verdict

LEMMA ReceiptGood == ASSUME Inv, NEW u \in Updates, ReceiptStep(u) PROVE Chatting'
<1>1. CASE Photo(u)  BY <1>1, PhotoGood
<1>2. CASE Verdict(u)  BY <1>2, VerdictGood
<1>3. CASE LimiterFails(u)
  <2>1. updates[u].pc \in {"photo", "expire"} /\ UNCHANGED person
        /\ Continue(u, [updates[u] EXCEPT !.pc = "enqueue"])
    BY <1>3 DEF LimiterFails
  <2>2. IsMember(updates[u].who)  BY <1>3, <2>1, AtStage DEF LimiterFails, Sound
  <2>3. QED  BY <2>1, <2>2, AtStage, GoOnGood
<1>4. CASE Enqueue(u)
  <2>1. updates[u].pc = "enqueue" /\ UNCHANGED person /\ Continue(u, [updates[u] EXCEPT !.pc = "ack"])
    BY <1>4 DEF Enqueue
  <2>2. IsMember(updates[u].who)  BY <2>1, AtStage DEF Sound
  <2>3. QED  BY <2>1, <2>2, AtStage, GoOnGood
<1>5. CASE EnqueueFails(u)
  <2>1. updates[u].pc = "enqueue" /\ UNCHANGED person /\ Continue(u, Redelivered(updates[u]))
    BY <1>5 DEF EnqueueFails
  <2>2. QED  BY <2>1, AtStage, RedeliveredGood, ContinueGood
<1>6. CASE Ack(u)
  <2>1. updates[u].pc = "ack" /\ UNCHANGED person  BY <1>6 DEF Ack
  <2>2. Chatting /\ Sound(updates[u]) /\ IsMember(updates[u].who)  BY <2>1, AtStage DEF Sound
  <2>3. CASE Respond(u, "received")
    <3>1. "received" \in Replies  BY DEF Replies
    <3>2. QED  BY <2>1, <2>2, <2>3, <3>1, AtStage, Replying, SayGood
  <2>4. CASE Continue(u, Idle)  BY <2>1, <2>2, <2>4, IdleGood, ContinueGood
  <2>5. QED  BY <1>6, <2>3, <2>4 DEF Ack
<1>7. QED  BY <1>1, <1>2, <1>3, <1>4, <1>5, <1>6 DEF ReceiptStep

-----------------------------------------------------------------------------
(* The webhook, the world around and the process *)

LEMMA ArriveGood ==
    ASSUME Inv, NEW u \in Updates, NEW k \in Kinds, Arrive(u, k[1], k[2]) PROVE Chatting'
<1>1. Chatting /\ person \in Person /\ Standing(person) /\ UNCHANGED person
  BY DEF Inv, Chatting, Arrive
<1>2. k[1] \in Handlers /\ k[2] \in Args /\ (k[1] = "language" => k[2] \in Langs)
  BY KindsAssumption
<1>3. Continue(u, [Idle EXCEPT !.pc = "identify", !.kind = k[1], !.arg = k[2], !.seen = {person}])
  BY DEF Arrive
<1>4. QED  BY <1>1, <1>2, <1>3, BegunGood, ContinueGood

LEMMA IdentifyGood == ASSUME Inv, NEW u \in Updates, Identify(u) PROVE Chatting'
<1> DEFINE q == updates[u]
           next == [q EXCEPT !.pc = q.kind, !.who = Resolved]
<1>1. q.pc = "identify" /\ UNCHANGED person /\ Continue(u, next)  BY DEF Identify
<1>2. /\ Chatting /\ q \in Update /\ Sound(q) /\ Sees(q, person)
      /\ person \in Person /\ Standing(person)
  BY Each DEF Inv, Chatting
<1>3. /\ Resolved \in Person /\ Resolved.role = person.role /\ Resolved.status = person.status
  BY <1>2 DEF Resolved, Nobody, Person, Roles, Standing
<1>4. next \in Update  BY <1>1, <1>2, <1>3 DEF Update, Stages, Sound
<1>5. /\ next.pc = q.kind /\ next.kind = q.kind /\ next.arg = q.arg /\ next.who = Resolved
      /\ next.seen = q.seen /\ next.goesOn = q.goesOn
  BY <1>2 DEF Update
<1> HIDE DEF next
<1>6. person \in q.seen  BY <1>1, <1>2 DEF Sees
<1>7. Sound(next)  BY <1>1, <1>2, <1>3, <1>5, <1>6 DEF Sound, Handlers
<1>8. Sees(next, person)  BY <1>5, <1>6 DEF Sees
<1>9. QED  BY <1>1, <1>2, <1>4, <1>7, <1>8, ContinueGood DEF Good

LEMMA AnswerStepGood == ASSUME Inv, NEW u \in Updates, Answer(u) \/ AnswerFails(u) PROVE Chatting'
<1> DEFINE q == updates[u]
<1>1. q.pc = "answer" /\ UNCHANGED person  BY DEF Answer, AnswerFails
<1>2. Chatting /\ q \in Update /\ Sound(q) /\ Sees(q, person)  BY Each DEF Inv
<1>3. CASE q.goesOn /\ Continue(u, [q EXCEPT !.pc = "start", !.goesOn = FALSE])
  <2> DEFINE next == [q EXCEPT !.pc = "start", !.goesOn = FALSE]
  <2>1. next \in Update  BY <1>2 DEF Update, Stages, Handlers
  <2>2. /\ next.pc = "start" /\ next.kind = q.kind /\ next.arg = q.arg /\ next.who = q.who
        /\ next.seen = q.seen /\ ~next.goesOn
    BY <1>2 DEF Update
  <2> HIDE DEF next
  <2>3. Sound(next)  BY <1>1, <1>2, <1>3, <2>2 DEF Sound, Reads, Handlers
  <2>4. Sees(next, person)  BY <1>1, <1>2, <2>2 DEF Sees
  <2>5. Continue(u, next)  BY <1>3 DEF next
  <2>6. QED  BY <1>1, <1>2, <2>1, <2>3, <2>4, <2>5, ContinueGood DEF Good
<1>4. CASE Continue(u, Idle)  BY <1>1, <1>2, <1>4, IdleGood, ContinueGood
<1>5. CASE Continue(u, Redelivered(q))  BY <1>1, <1>2, <1>5, RedeliveredGood, ContinueGood
<1>6. QED  BY <1>3, <1>4, <1>5 DEF Answer, AnswerFails

\* Whatever becomes of a row, one without a membership has no standing.
LEMMA SuccessorsStand ==
    ASSUME NEW p \in Person, Standing(p), NEW next \in Successors(p)
    PROVE  next \in Person /\ Standing(next)
<1>1. p.role \in Roles  BY DEF Person
<1>2. CASE p.role = "none"
  <2>1. p.lang = None /\ \E l \in Langs : next = [p EXCEPT !.role = "owner", !.status = "pending", !.lang = l]
    BY <1>2 DEF Successors
  <2>2. QED  BY <2>1 DEF Person, Roles, Standing
<1>3. CASE p.role = "owner"
  <2>1. p.status \in {"pending", "active", "rejected", "suspended"}  BY <1>3 DEF Person, Standing
  <2>2. \E s \in {"active", "rejected", "suspended", "pending"} : next = [p EXCEPT !.status = s]
    BY <1>3, <2>1 DEF Successors
  <2>3. QED  BY <1>3, <2>2 DEF Person, Roles, Standing
<1>4. CASE p.role \in {"waiter", "manager"}
  <2>1. \/ \E r \in {"waiter", "manager"} : next = [p EXCEPT !.role = r]
        \/ next = [p EXCEPT !.role = "none", !.status = "none"]
        \/ \E s \in {"suspended", "active"} : next = [p EXCEPT !.status = s]
    BY <1>4 DEF Successors
  <2>2. QED  BY <1>4, <2>1 DEF Person, Roles, Standing
<1>5. QED  BY <1>1, <1>2, <1>3, <1>4 DEF Roles

LEMMA WorldGood ==
    ASSUME Inv, RowChanges \/ MiniAppLanguage \/ Invited \/ WindowEnds PROVE Chatting'
<1>1. Chatting /\ person \in Person /\ Standing(person)  BY DEF Inv, Chatting
<1>2. CASE RowChanges  BY <1>1, <1>2, SuccessorsStand, RowGood DEF RowChanges
<1>3. CASE MiniAppLanguage
  <2>1. PICK l \in Langs : Becomes([person EXCEPT !.lang = l], updates)  BY <1>3 DEF MiniAppLanguage
  <2> DEFINE p == [person EXCEPT !.lang = l]
  <2>2. p \in Person /\ p.role = person.role /\ p.status = person.status  BY <1>1 DEF Person
  <2>3. Becomes(p, updates)  BY <2>1
  <2> HIDE DEF p
  <2>4. QED  BY <1>1, <2>2, <2>3, RowGood DEF Standing
<1>4. CASE UNCHANGED <<person, updates>>  BY <1>1, <1>4 DEF Chatting, Good, Sound, Sees
<1>5. QED  BY <1>2, <1>3, <1>4 DEF Invited, WindowEnds

LEMMA RestartGood == ASSUME Inv, Restart PROVE Chatting'
<1>1. Chatting /\ UNCHANGED person  BY DEF Inv, Restart
<1>2. updates' = [u \in Updates |-> IF updates[u] = Idle THEN Idle ELSE Redelivered(updates[u])]
  BY DEF Restart
<1>3. ASSUME NEW u \in Updates PROVE Good(updates'[u]) /\ Sees(updates'[u], person)
  <2>1. CASE updates[u].pc = "idle"
    <3>1. updates[u] = Idle  BY <1>1, <2>1, Each DEF Sound
    <3>2. QED  BY <1>2, <3>1, IdleGood
  <2>2. CASE updates[u].pc # "idle"
    <3>1. updates[u] # Idle  BY <2>2 DEF Idle
    <3>2. QED  BY <1>1, <1>2, <2>2, <3>1, RedeliveredGood
  <2>3. QED  BY <2>1, <2>2
<1>4. updates' \in [Updates -> Update]  BY <1>2, <1>3 DEF Good
<1>5. ASSUME NEW u \in Updates PROVE Good(updates[u])' /\ Sees(updates[u], person)'
  BY <1>1, <1>3 DEF Good, Sound, Sees
<1>6. QED  BY <1>1, <1>4, <1>5 DEF Chatting

OtherStep ==
    \/ \E u \in Updates, k \in Kinds : Arrive(u, k[1], k[2])
    \/ \E u \in Updates : Identify(u) \/ Answer(u) \/ AnswerFails(u)
    \/ \E g \in Albums : AlbumTimer(g)
    \/ RowChanges \/ MiniAppLanguage \/ Invited \/ WindowEnds \/ Restart

LEMMA OtherGood == ASSUME Inv, OtherStep PROVE Chatting'
<1>1. ASSUME NEW g \in Albums, AlbumTimer(g) PROVE Chatting'
  <2>1. UNCHANGED <<person, updates>>  BY <1>1 DEF AlbumTimer
  <2>2. QED  BY <2>1 DEF Inv, Chatting, Good, Sound, Sees
<1>2. QED  BY <1>1, ArriveGood, IdentifyGood, AnswerStepGood, WorldGood, RestartGood DEF OtherStep

LEMMA OtherRest ==
    ASSUME Inv, OtherStep
    PROVE  /\ offer' \in {"waiter", "manager", None} /\ session' \in Session
           /\ AlbumsType /\ LimiterType /\ PastType /\ SpentType
<1> DEFINE Fine == /\ offer' \in {"waiter", "manager", None} /\ session' \in Session
                   /\ AlbumsType /\ LimiterType /\ PastType /\ SpentType
<1>1. Typed  BY DEF Inv
<1>2. ASSUME UNCHANGED spent PROVE SpentType  BY <1>1, <1>2 DEF SpentType, Typed
<1>3. ASSUME UNCHANGED albums PROVE AlbumsType  BY <1>1, <1>3 DEF AlbumsType, Typed
<1>4. ASSUME UNCHANGED limiter PROVE LimiterType  BY <1>1, <1>4 DEF LimiterType, Typed
<1>5. ASSUME UNCHANGED past PROVE PastType  BY <1>1, <1>5 DEF PastType, Typed
<1>6. offer \in {"waiter", "manager", None} /\ session \in Session  BY <1>1 DEF Typed
<1>7. ASSUME NEW n \in Nat, past' = [past EXCEPT !.told = past.told + n] PROVE PastType
  BY <1>1, <1>7 DEF PastType, Typed, Histories
<1>8. ASSUME NEW n, past' = [past EXCEPT !.lost = n] PROVE PastType
  <2>1. PICK lost : past \in Histories(lost)  BY <1>1 DEF Typed
  <2>2. past' \in Histories(n)  BY <1>8, <2>1 DEF Histories
  <2>3. QED  BY <2>2 DEF PastType
<1>9. ASSUME NEW u \in Updates, NEW k \in Kinds, Arrive(u, k[1], k[2]) PROVE Fine
  BY <1>1, <1>3, <1>4, <1>5, <1>6, <1>9, SpendType DEF Arrive
<1>10. ASSUME NEW u \in Updates, Identify(u) PROVE Fine
  BY <1>2, <1>3, <1>4, <1>5, <1>6, <1>10 DEF Identify
<1>11. ASSUME NEW u \in Updates, Answer(u) PROVE Fine
  <2>1. PastType  BY <1>5, <1>7, <1>11 DEF Answer
  <2>2. QED  BY <1>2, <1>3, <1>4, <1>6, <1>11, <2>1 DEF Answer
<1>12. ASSUME NEW u \in Updates, AnswerFails(u) PROVE Fine
  <2>1. PastType  BY <1>5, <1>8, <1>12 DEF AnswerFails
  <2>2. QED  BY <1>1, <1>3, <1>4, <1>6, <1>12, <2>1, SpendType DEF AnswerFails
<1>13. ASSUME NEW g \in Albums, AlbumTimer(g) PROVE Fine
  <2>1. albums[g].count \in Nat  BY <1>1, <1>13 DEF AlbumTimer, Typed
  <2>2. PastType  BY <1>7, <1>13, <2>1 DEF AlbumTimer
  <2>3. albums' = [albums EXCEPT ![g] = None]  BY <1>13 DEF AlbumTimer, Fired
  <2>4. AlbumsType  BY <1>1, <2>3 DEF AlbumsType, Typed
  <2>5. QED  BY <1>2, <1>4, <1>6, <1>13, <2>2, <2>4 DEF AlbumTimer
<1>14. CASE RowChanges \/ MiniAppLanguage \/ Invited
  BY <1>1, <1>3, <1>4, <1>5, <1>6, <1>14, SpendType DEF RowChanges, MiniAppLanguage, Invited
<1>15. CASE WindowEnds
  <2>1. LimiterType  BY <1>1, <1>15, Bounds DEF WindowEnds, LimiterType, Typed
  <2>2. QED  BY <1>2, <1>3, <1>5, <1>6, <1>15, <2>1 DEF WindowEnds
<1>16. CASE Restart
  <2>1. PastType  BY <1>8, <1>16 DEF Restart
  <2>2. albums' = [g \in Albums |-> None] /\ session' = NoSession /\ UNCHANGED <<offer, limiter>>
        /\ Spend("troubles", MaxTroubles)
    BY <1>16 DEF Restart
  <2>3. AlbumsType  BY <2>2 DEF AlbumsType
  <2>4. NoSession \in Session  BY DEF NoSession, Session
  <2>5. QED  BY <1>1, <1>4, <1>6, <2>1, <2>2, <2>3, <2>4, SpendType
<1>17. QED
  BY <1>9, <1>10, <1>11, <1>12, <1>13, <1>14, <1>15, <1>16 DEF OtherStep

LEMMA NextSteps == Next <=> \/ OtherStep
                            \/ \E u \in Updates : DialogueStep(u) \/ ReceiptStep(u)
BY DEF Next, OtherStep

LEMMA TypedNext == ASSUME Inv, [Next]_vars PROVE Typed' /\ Chatting'
<1>1. ASSUME NEW u \in Updates, DialogueStep(u) PROVE Typed' /\ Chatting'
  BY <1>1, DialogueRest, DialogueGood DEF Inv, Typed, SpentType
<1>2. ASSUME NEW u \in Updates, ReceiptStep(u) PROVE Typed' /\ Chatting'
  BY <1>2, ReceiptRest, ReceiptGood DEF Inv, Typed, SpentType, AlbumsType, LimiterType, PastType
<1>3. CASE OtherStep
  BY <1>3, OtherRest, OtherGood DEF Inv, Typed, SpentType, AlbumsType, LimiterType, PastType
<1>4. CASE UNCHANGED vars
  BY <1>4 DEF vars, Inv, Typed, Chatting, Good, Sound, Sees
<1>5. QED  BY <1>1, <1>2, <1>3, <1>4, NextSteps

-----------------------------------------------------------------------------
(* The limit *)

\* No further photo waits for its verdict.
NoneJoins == \A v \in Updates : updates'[v].pc = "expire" =>
    updates[v].pc = "expire" /\ updates'[v].window = updates[v].window /\ updates'[v].count = updates[v].count

LEMMA ElsewhereNoneJoins ==
    ASSUME Chatting, NEW u \in Updates, NEW q, q.pc # "expire", Continue(u, q) PROVE NoneJoins
<1>1. ASSUME NEW v \in Updates PROVE updates'[v] = q \/ updates'[v] = updates[v]
  BY DEF Continue, Chatting
<1>2. QED  BY <1>1 DEF NoneJoins

LEMMA BecomesNoneJoins ==
    ASSUME NEW p, NEW now \in [Updates -> Update], Becomes(p, now),
           \A v \in Updates : now[v] = updates[v] \/ now[v].pc # "expire"
    PROVE  NoneJoins
<1> SUFFICES ASSUME NEW v \in Updates, updates'[v].pc = "expire"
             PROVE  /\ updates[v].pc = "expire"
                    /\ updates'[v].window = updates[v].window /\ updates'[v].count = updates[v].count
  BY DEF NoneJoins
<1>1. now[v] \in Update
      /\ updates'[v] = IF now[v].pc = "idle" THEN now[v] ELSE [now[v] EXCEPT !.seen = now[v].seen \cup {p}]
  BY DEF Becomes
<1>2. updates'[v].pc = now[v].pc /\ updates'[v].window = now[v].window /\ updates'[v].count = now[v].count
  BY <1>1 DEF Update
<1>3. QED  BY <1>2

LEMMA SaidNoneJoins ==
    ASSUME Chatting, NEW u \in Updates, NEW what, Say(u, what) \/ Respond(u, what) PROVE NoneJoins
<1>1. updates[u] \in Update  BY DEF Chatting
<1>2. PICK l : Continue(u, [updates[u] EXCEPT !.pc = "answer", !.said = what, !.lang = l])
  BY DEF Say, Respond
<1>3. [updates[u] EXCEPT !.pc = "answer", !.said = what, !.lang = l].pc = "answer"  BY <1>1 DEF Update
<1>4. QED  BY <1>2, <1>3, ElsewhereNoneJoins

LEMMA MovedNoneJoins ==
    ASSUME Chatting, NEW u \in Updates, NEW pc, pc # "expire", Continue(u, [updates[u] EXCEPT !.pc = pc])
    PROVE  NoneJoins
<1>1. updates[u] \in Update  BY DEF Chatting
<1>2. [updates[u] EXCEPT !.pc = pc].pc = pc  BY <1>1 DEF Update
<1>3. QED  BY <1>2, ElsewhereNoneJoins

LEMMA BackNoneJoins ==
    ASSUME Chatting, NEW u \in Updates, Continue(u, Redelivered(updates[u])) \/ Continue(u, Idle)
    PROVE  NoneJoins
<1>1. Idle.pc # "expire"  BY DEF Idle
<1>2. Idle \in Update  BY IdleGood DEF Good
<1>3. Redelivered(updates[u]).pc # "expire"  BY <1>2 DEF Redelivered, Update
<1>4. QED  BY <1>1, <1>3, ElsewhereNoneJoins

LEMMA SaveNoneJoins ==
    ASSUME Chatting, NEW u \in Updates, NEW l, NEW who, SaveLanguage(u, l, who), who \in Person
    PROVE  NoneJoins
<1>1. CASE Continue(u, Redelivered(updates[u]))  BY <1>1, BackNoneJoins
<1>2. CASE Becomes([person EXCEPT !.lang = l], [updates EXCEPT ![u].pc = "answer", ![u].who = who])
  <2> DEFINE next == [updates[u] EXCEPT !.pc = "answer", !.who = who]
             now == [updates EXCEPT ![u] = next]
  <2>1. updates \in [Updates -> Update] /\ updates[u] \in Update  BY DEF Chatting
  <2>2. next \in Update /\ next.pc = "answer"  BY <2>1 DEF Update, Stages
  <2>3. Becomes([person EXCEPT !.lang = l], now)  BY <1>2
  <2> HIDE DEF next
  <2>4. now \in [Updates -> Update] /\ now[u] = next /\ \A v \in Updates \ {u} : now[v] = updates[v]
    BY <2>1, <2>2
  <2> HIDE DEF now
  <2>5. \A v \in Updates : now[v] = updates[v] \/ now[v].pc # "expire"  BY <2>2, <2>4
  <2>6. QED  BY <2>3, <2>4, <2>5, BecomesNoneJoins
<1>3. QED  BY <1>1, <1>2 DEF SaveLanguage

LEMMA DialogueNoneJoins == ASSUME Inv, NEW u \in Updates, DialogueStep(u) PROVE NoneJoins
<1>1. Chatting /\ updates \in [Updates -> Update] /\ updates[u] \in Update /\ Sound(updates[u]) /\ Typed
  BY Each DEF Inv, Chatting
<1>2. CASE Start(u)
  BY <1>1, <1>2, SaidNoneJoins, MovedNoneJoins DEF Start, StandingReply
<1>3. CASE Invite(u) \/ Register(u) \/ ChooseRole(u) \/ CreateBatch(u) \/ InviteFails(u)
  BY <1>1, <1>3, SaidNoneJoins
     DEF Invite, BeginInviteFlow, StandingReply, Register, ChooseRole, CreateBatch, InviteFails
<1>4. CASE Submit(u)  BY <1>1, <1>4, SaidNoneJoins, MovedNoneJoins DEF Submit
<1>5. CASE Keep(u)
  <2>1. Nobody \in Person  BY DEF Nobody, Person, Roles
  <2>2. QED  BY <1>1, <1>5, <2>1, SaveNoneJoins DEF Keep
<1>6. CASE Save(u)
  <2>1. updates[u].arg \in Langs /\ updates[u].who \in Person  BY <1>1, <1>6 DEF Save, Sound, Update
  <2>2. [updates[u].who EXCEPT !.lang = updates[u].arg] \in Person  BY <2>1 DEF Person
  <2>3. QED  BY <1>1, <1>6, <2>2, SaveNoneJoins DEF Save
<1>7. CASE Language(u)
  <2>1. PICK pc \in {"save", "answer"} : \E goesOn, l :
          Continue(u, [updates[u] EXCEPT !.pc = pc, !.goesOn = goesOn, !.said = "languageSaved", !.lang = l])
    BY <1>7 DEF Language
  <2>2. PICK goesOn, l :
          Continue(u, [updates[u] EXCEPT !.pc = pc, !.goesOn = goesOn, !.said = "languageSaved", !.lang = l])
    BY <2>1
  <2>3. [updates[u] EXCEPT !.pc = pc, !.goesOn = goesOn, !.said = "languageSaved", !.lang = l].pc # "expire"
    BY <1>1 DEF Update
  <2>4. QED  BY <1>1, <2>2, <2>3, ElsewhereNoneJoins
<1>8. CASE Share(u)
  <2>1. CASE Continue(u, Idle)  BY <1>1, <2>1, BackNoneJoins
  <2>2. CASE \E what : Say(u, what)  BY <1>1, <2>2, SaidNoneJoins
  <2>3. CASE \E pc \in {"answer", "batch"} : \E said, arg, l :
               \/ Continue(u, [updates[u] EXCEPT !.pc = pc, !.said = said, !.arg = arg, !.lang = l])
               \/ Continue(u, [updates[u] EXCEPT !.pc = pc, !.arg = arg])
    <3>1. PICK pc \in {"answer", "batch"} : \E said, arg, l :
            \/ Continue(u, [updates[u] EXCEPT !.pc = pc, !.said = said, !.arg = arg, !.lang = l])
            \/ Continue(u, [updates[u] EXCEPT !.pc = pc, !.arg = arg])
      BY <2>3
    <3>2. PICK said, arg, l :
            \/ Continue(u, [updates[u] EXCEPT !.pc = pc, !.said = said, !.arg = arg, !.lang = l])
            \/ Continue(u, [updates[u] EXCEPT !.pc = pc, !.arg = arg])
      BY <3>1
    <3>3. /\ [updates[u] EXCEPT !.pc = pc, !.said = said, !.arg = arg, !.lang = l].pc # "expire"
          /\ [updates[u] EXCEPT !.pc = pc, !.arg = arg].pc # "expire"
      BY <1>1 DEF Update
    <3>4. QED  BY <1>1, <3>2, <3>3, ElsewhereNoneJoins
  <2>4. QED  BY <1>8, <2>1, <2>2, <2>3 DEF Share
<1>9. CASE Redeem(u)
  <2>1. CASE Say(u, "register") \/ Continue(u, Redelivered(updates[u]))
    BY <1>1, <2>1, SaidNoneJoins, BackNoneJoins
  <2>2. CASE \E p : Becomes(p, [updates EXCEPT ![u].pc = IF session.lang # None THEN "keep" ELSE "answer",
                                                ![u].said = "redeemed", ![u].lang = DialogueLang(u)])
    <3> DEFINE next == [updates[u] EXCEPT !.pc = IF session.lang # None THEN "keep" ELSE "answer",
                                          !.said = "redeemed", !.lang = DialogueLang(u)]
               now == [updates EXCEPT ![u] = next]
    <3>1. DialogueLang(u) \in Langs  BY <1>1, LangType
    <3>2. next \in Update /\ next.pc # "expire"  BY <1>1, <3>1 DEF Update, Stages, Replies
    <3>3. PICK p : Becomes(p, now)  BY <2>2
    <3> HIDE DEF next
    <3>4. now \in [Updates -> Update] /\ now[u] = next /\ \A v \in Updates \ {u} : now[v] = updates[v]
      BY <1>1, <3>2
    <3> HIDE DEF now
    <3>5. \A v \in Updates : now[v] = updates[v] \/ now[v].pc # "expire"  BY <3>2, <3>4
    <3>6. QED  BY <3>3, <3>4, <3>5, BecomesNoneJoins
  <2>3. QED  BY <1>9, <2>1, <2>2 DEF Redeem
<1>10. QED
  BY <1>2, <1>3, <1>4, <1>5, <1>6, <1>7, <1>8, <1>9 DEF DialogueStep

LEMMA OtherNoneJoins == ASSUME Inv, OtherStep PROVE NoneJoins
<1>1. Chatting /\ updates \in [Updates -> Update]  BY DEF Inv, Chatting
<1>2. ASSUME NEW u \in Updates, NEW k \in Kinds, Arrive(u, k[1], k[2]) PROVE NoneJoins
  <2>1. Continue(u, [Idle EXCEPT !.pc = "identify", !.kind = k[1], !.arg = k[2], !.seen = {person}])
    BY <1>2 DEF Arrive
  <2>2. [Idle EXCEPT !.pc = "identify", !.kind = k[1], !.arg = k[2], !.seen = {person}].pc # "expire"
    BY IdleGood DEF Good, Update
  <2>3. QED  BY <1>1, <2>1, <2>2, ElsewhereNoneJoins
<1>3. ASSUME NEW u \in Updates, Identify(u) PROVE NoneJoins
  <2>1. updates[u] \in Update /\ Sound(updates[u]) /\ updates[u].pc = "identify"
    BY <1>1, <1>3, Each DEF Identify
  <2>2. updates[u].kind \in Handlers  BY <2>1 DEF Sound
  <2>3. [updates[u] EXCEPT !.pc = updates[u].kind, !.who = Resolved].pc # "expire"
    BY <2>1, <2>2 DEF Update, Handlers
  <2>4. QED  BY <1>1, <1>3, <2>3, ElsewhereNoneJoins DEF Identify
<1>4. ASSUME NEW u \in Updates, Answer(u) \/ AnswerFails(u) PROVE NoneJoins
  <2>1. updates[u] \in Update  BY <1>1
  <2>2. [updates[u] EXCEPT !.pc = "start", !.goesOn = FALSE].pc # "expire"  BY <2>1 DEF Update
  <2>3. QED  BY <1>1, <1>4, <2>2, BackNoneJoins, ElsewhereNoneJoins DEF Answer, AnswerFails
<1>5. CASE UNCHANGED updates  BY <1>5 DEF NoneJoins
<1>6. CASE RowChanges \/ MiniAppLanguage
  BY <1>1, <1>6, BecomesNoneJoins DEF RowChanges, MiniAppLanguage
<1>7. CASE Restart
  <2>1. Idle \in Update /\ Idle.pc # "expire"  BY IdleGood DEF Good, Idle
  <2>2. \A u \in Updates : Redelivered(updates[u]).pc # "expire"  BY <2>1 DEF Redelivered, Update
  <2>3. QED  BY <1>7, <2>1, <2>2 DEF Restart, NoneJoins
<1>8. QED
  BY <1>2, <1>3, <1>4, <1>5, <1>6, <1>7 DEF OtherStep, AlbumTimer, Invited, WindowEnds

CountedAt(w) ==
    /\ IsFiniteSet(Passing(w)) /\ IsFiniteSet(Noticing(w))
    /\ past.granted[w] + Cardinality(Passing(w)) <= Limit
    /\ past.noticed[w] + Cardinality(Noticing(w)) <= 1
    /\ w = limiter.window =>
         /\ past.granted[w] + Cardinality(Passing(w)) <= limiter.count
         /\ limiter.count <= Limit => past.noticed[w] = 0 /\ Noticing(w) = {}
    /\ w > limiter.window => /\ past.granted[w] = 0 /\ past.noticed[w] = 0
                             /\ Passing(w) = {} /\ Noticing(w) = {}

LEMMA AtWindow ==
    ASSUME Inv, NEW w \in 0..MaxLapses
    PROVE  /\ CountedAt(w) /\ past.granted[w] \in Nat /\ past.noticed[w] \in Nat /\ w \in Nat
           /\ Cardinality(Passing(w)) \in Nat /\ Cardinality(Noticing(w)) \in Nat
           /\ limiter.count \in Nat /\ limiter.window \in Nat /\ Limit \in Nat
<1>1. CountedAt(w)  BY DEF Inv, Counted, CountedAt
<1>2. past.granted[w] \in Nat /\ past.noticed[w] \in Nat
  <2>1. past.granted \in [0..MaxLapses -> Nat] /\ past.noticed \in [0..MaxLapses -> Nat]
    BY DEF Inv, Typed, Histories
  <2>2. QED  BY <2>1
<1>3. Cardinality(Passing(w)) \in Nat /\ Cardinality(Noticing(w)) \in Nat
  BY <1>1, FS_CardinalityType DEF CountedAt
<1>4. w \in Nat /\ limiter.count \in Nat /\ limiter.window \in Nat  BY Bounds DEF Inv, Typed
<1>5. QED  BY <1>1, <1>2, <1>3, <1>4, Bounds

LEMMA Fewer ==
    ASSUME Inv, NoneJoins, NEW w \in 0..MaxLapses
    PROVE  /\ IsFiniteSet(Passing(w)') /\ Cardinality(Passing(w)') <= Cardinality(Passing(w))
           /\ Cardinality(Passing(w)') \in Nat /\ Passing(w)' \subseteq Passing(w)
           /\ IsFiniteSet(Noticing(w)') /\ Cardinality(Noticing(w)') <= Cardinality(Noticing(w))
           /\ Cardinality(Noticing(w)') \in Nat /\ Noticing(w)' \subseteq Noticing(w)
<1>1. Passing(w)' \subseteq Passing(w) /\ Noticing(w)' \subseteq Noticing(w)
  BY DEF NoneJoins, Passing, Noticing
<1>2. IsFiniteSet(Passing(w)) /\ IsFiniteSet(Noticing(w))  BY AtWindow DEF CountedAt
<1>3. QED  BY <1>1, <1>2, FS_Subset, FS_CardinalityType

LEMMA CountedStays ==
    ASSUME Inv, NoneJoins, past'.granted = past.granted, past'.noticed = past.noticed,
           limiter'.window = limiter.window, limiter'.count = limiter.count
    PROVE  Counted'
<1> SUFFICES ASSUME NEW w \in 0..MaxLapses PROVE CountedAt(w)'
  BY DEF Counted, CountedAt
<1> DEFINE P == Cardinality(Passing(w))
           N == Cardinality(Noticing(w))
<1>1. /\ IsFiniteSet(Passing(w)') /\ P' <= P /\ P' \in Nat /\ Passing(w)' \subseteq Passing(w)
      /\ IsFiniteSet(Noticing(w)') /\ N' <= N /\ N' \in Nat /\ Noticing(w)' \subseteq Noticing(w)
  BY Fewer
<1>2. /\ CountedAt(w) /\ past.granted[w] \in Nat /\ past.noticed[w] \in Nat
      /\ P \in Nat /\ N \in Nat /\ limiter.count \in Nat /\ limiter.window \in Nat /\ Limit \in Nat
  BY AtWindow
<1> HIDE DEF Passing, Noticing
<1>3. QED  BY <1>1, <1>2 DEF CountedAt

LEMMA CountedAnew ==
    ASSUME Inv, WindowEnds PROVE Counted'
<1> SUFFICES ASSUME NEW w \in 0..MaxLapses PROVE CountedAt(w)'
  BY DEF Counted, CountedAt
<1> DEFINE P == Cardinality(Passing(w))
           N == Cardinality(Noticing(w))
<1>1. /\ UNCHANGED <<updates, past>>
      /\ limiter'.count = 0 /\ limiter'.window = limiter.window + 1
  BY DEF WindowEnds
<1>2. Passing(w)' = Passing(w) /\ Noticing(w)' = Noticing(w)  BY <1>1 DEF Passing, Noticing
<1>3. /\ CountedAt(w) /\ past.granted[w] \in Nat /\ past.noticed[w] \in Nat /\ w \in Nat
      /\ P \in Nat /\ N \in Nat /\ limiter.count \in Nat /\ limiter.window \in Nat /\ Limit \in Nat
  BY AtWindow
<1>4. Cardinality({}) = 0  BY FS_EmptySet
<1>5. w > limiter.window =>
        past.granted[w] = 0 /\ past.noticed[w] = 0 /\ Passing(w) = {} /\ Noticing(w) = {} /\ P = 0 /\ N = 0
  BY <1>3, <1>4 DEF CountedAt
<1> HIDE DEF Passing, Noticing
<1>6. QED  BY <1>1, <1>2, <1>3, <1>5 DEF CountedAt

\* One more photo is counted: it will pass if the counter allows it, and is the one to
\* be noticed if it is the first that does not.
LEMMA PhotoCounted == ASSUME Inv, NEW u \in Updates, Photo(u) PROVE Counted'
<1> DEFINE q == updates[u]
           n == limiter.count + 1
           next == [q EXCEPT !.pc = "expire", !.count = n, !.window = limiter.window]
<1>1. Chatting /\ q \in Update /\ q.pc = "photo" /\ UNCHANGED past /\ Typed
  BY DEF Inv, Chatting, Photo
<1>2. CASE UNCHANGED limiter /\ \E what : Respond(u, what)
  <2>1. NoneJoins  BY <1>1, <1>2, SaidNoneJoins
  <2>2. QED  BY <1>1, <1>2, <2>1, CountedStays
<1>3. CASE limiter' = [limiter EXCEPT !.count = n] /\ Continue(u, next)
  <2> SUFFICES ASSUME NEW w \in 0..MaxLapses PROVE CountedAt(w)'
    BY DEF Counted, CountedAt
  <2> DEFINE P == Passing(w)
             N == Noticing(w)
  <2>1. /\ CountedAt(w) /\ past.granted[w] \in Nat /\ past.noticed[w] \in Nat /\ w \in Nat
        /\ Cardinality(P) \in Nat /\ Cardinality(N) \in Nat
        /\ limiter.count \in Nat /\ limiter.window \in Nat /\ Limit \in Nat
    BY AtWindow
  <2>2. limiter'.count = n /\ limiter'.window = limiter.window  BY <1>1, <1>3 DEF Typed
  <2>3. /\ next.pc = "expire" /\ next.count = n /\ next.window = limiter.window
        /\ updates'[u] = next /\ \A v \in Updates \ {u} : updates'[v] = updates[v]
    BY <1>1, <1>3 DEF Update, Continue, Chatting
  <2> HIDE DEF next
  <2>4. u \notin P /\ u \notin N  BY <1>1 DEF Passing, Noticing
  <2>5. P' = IF w = limiter.window /\ n <= Limit THEN P \cup {u} ELSE P
    BY <2>3, <2>4 DEF Passing
  <2>6. N' = IF w = limiter.window /\ n = Limit + 1 THEN N \cup {u} ELSE N
    BY <2>3, <2>4 DEF Noticing
  <2>7. IsFiniteSet(P) /\ IsFiniteSet(N)  BY <2>1 DEF CountedAt
  <2>8. /\ IsFiniteSet(P \cup {u}) /\ Cardinality(P \cup {u}) = Cardinality(P) + 1
        /\ IsFiniteSet(N \cup {u}) /\ Cardinality(N \cup {u}) = Cardinality(N) + 1
    BY <2>4, <2>7, FS_AddElement
  <2>9. Cardinality({}) = 0  BY FS_EmptySet
  <2> HIDE DEF P, N
  <2>10. /\ IsFiniteSet(P') /\ IsFiniteSet(N')
         /\ Cardinality(P') = IF w = limiter.window /\ n <= Limit THEN Cardinality(P) + 1 ELSE Cardinality(P)
         /\ Cardinality(N') = IF w = limiter.window /\ n = Limit + 1 THEN Cardinality(N) + 1 ELSE Cardinality(N)
    BY <2>5, <2>6, <2>7, <2>8
  <2>11. /\ past.granted[w] + Cardinality(P) <= Limit
         /\ past.noticed[w] + Cardinality(N) <= 1
         /\ w = limiter.window =>
              /\ past.granted[w] + Cardinality(P) <= limiter.count
              /\ limiter.count <= Limit => past.noticed[w] = 0 /\ N = {} /\ Cardinality(N) = 0
         /\ w > limiter.window => past.granted[w] = 0 /\ past.noticed[w] = 0 /\ P = {} /\ N = {}
    BY <2>1, <2>9 DEF CountedAt, P, N
  <2>12. QED  BY <1>1, <2>1, <2>2, <2>5, <2>6, <2>10, <2>11 DEF CountedAt, P, N
<1>4. QED  BY <1>2, <1>3 DEF Photo, Incremented

\* A verdict takes the photo from those that wait and adds it to those that have passed,
\* or to the notices.
LEMMA VerdictCounted == ASSUME Inv, NEW u \in Updates, Verdict(u) PROVE Counted'
<1> DEFINE q == updates[u]
<1>1. Chatting /\ Typed /\ q \in Update /\ q.pc = "expire"  BY DEF Inv, Chatting, Verdict
<1>2. limiter'.count = limiter.count /\ limiter'.window = limiter.window
  <2>1. limiter' = limiter \/ limiter' = [limiter EXCEPT !.ttl = TRUE]  BY DEF Verdict
  <2>2. QED  BY <1>1, <2>1 DEF Typed
<1>3. updates'[u].pc # "expire" /\ \A v \in Updates \ {u} : updates'[v] = updates[v]
  <2>1. PICK next : next.pc # "expire" /\ Continue(u, next)
    <3>1. [q EXCEPT !.pc = "enqueue"].pc # "expire" /\ Idle.pc # "expire"  BY <1>1 DEF Update, Idle
    <3>2. [q EXCEPT !.pc = "answer", !.said = "throttled", !.lang = ReceiptLang(u)].pc # "expire"
      BY <1>1 DEF Update
    <3>3. QED  BY <3>1, <3>2 DEF Verdict, Respond
  <2>2. QED  BY <1>1, <2>1 DEF Continue, Chatting
<1> SUFFICES ASSUME NEW w \in 0..MaxLapses PROVE CountedAt(w)'
  BY DEF Counted, CountedAt
<1> DEFINE P == Passing(w)
           N == Noticing(w)
           passes == q.count <= Limit
           notices == q.count = Limit + 1
<1>4. /\ CountedAt(w) /\ past.granted[w] \in Nat /\ past.noticed[w] \in Nat /\ w \in Nat
      /\ Cardinality(P) \in Nat /\ Cardinality(N) \in Nat
      /\ limiter.count \in Nat /\ limiter.window \in Nat /\ Limit \in Nat /\ q.count \in Nat
  BY <1>1, AtWindow DEF Update
<1>5. /\ P' = P \ {u} /\ (u \in P <=> q.window = w /\ passes)
      /\ N' = N \ {u} /\ (u \in N <=> q.window = w /\ notices)
  BY <1>1, <1>3 DEF Passing, Noticing
<1>6. /\ past'.granted[w] = IF q.window = w /\ passes THEN past.granted[w] + 1 ELSE past.granted[w]
      /\ past'.noticed[w] = IF q.window = w /\ notices THEN past.noticed[w] + 1 ELSE past.noticed[w]
  <2>1. /\ past.granted \in [0..MaxLapses -> Nat] /\ past.noticed \in [0..MaxLapses -> Nat]
        /\ \E lost : past \in Histories(lost)
    BY <1>1 DEF Typed, Histories
  <2>2. past' = IF passes THEN [past EXCEPT !.granted = [past.granted EXCEPT ![q.window] = past.granted[q.window] + 1]]
                ELSE IF notices THEN [past EXCEPT !.noticed = [past.noticed EXCEPT ![q.window] = past.noticed[q.window] + 1]]
                ELSE past
    BY DEF Verdict, Allowed
  <2>3. ~(passes /\ notices)  BY <1>4
  <2> HIDE DEF passes, notices, q
  <2>4. CASE passes
    <3>1. past'.granted = [past.granted EXCEPT ![q.window] = past.granted[q.window] + 1]
          /\ past'.noticed = past.noticed
      BY <2>1, <2>2, <2>4 DEF Histories
    <3>2. QED  BY <2>1, <2>3, <2>4, <3>1
  <2>5. CASE ~passes /\ notices
    <3>1. past'.noticed = [past.noticed EXCEPT ![q.window] = past.noticed[q.window] + 1]
          /\ past'.granted = past.granted
      BY <2>1, <2>2, <2>5 DEF Histories
    <3>2. QED  BY <2>1, <2>5, <3>1
  <2>6. CASE ~passes /\ ~notices  BY <2>2, <2>6
  <2>7. QED  BY <2>4, <2>5, <2>6
<1>7. IsFiniteSet(P) /\ IsFiniteSet(N)  BY <1>4 DEF CountedAt
<1>8. /\ IsFiniteSet(P') /\ Cardinality(P') = IF u \in P THEN Cardinality(P) - 1 ELSE Cardinality(P)
      /\ IsFiniteSet(N') /\ Cardinality(N') = IF u \in N THEN Cardinality(N) - 1 ELSE Cardinality(N)
  <2> HIDE DEF P, N
  <2>1. QED  BY <1>5, <1>7, FS_RemoveElement
<1>9. Cardinality({}) = 0  BY FS_EmptySet
<1>10. /\ past.granted[w] + Cardinality(P) <= Limit
       /\ past.noticed[w] + Cardinality(N) <= 1
       /\ w = limiter.window =>
            /\ past.granted[w] + Cardinality(P) <= limiter.count
            /\ limiter.count <= Limit => past.noticed[w] = 0 /\ N = {}
       /\ w > limiter.window => past.granted[w] = 0 /\ past.noticed[w] = 0 /\ P = {} /\ N = {}
  BY <1>4 DEF CountedAt
<1>11. /\ past'.granted[w] + Cardinality(P') = past.granted[w] + Cardinality(P)
       /\ past'.noticed[w] + Cardinality(N') = past.noticed[w] + Cardinality(N)
       /\ N = {} => N' = {} /\ past'.noticed[w] = past.noticed[w]
       /\ P = {} => P' = {} /\ past'.granted[w] = past.granted[w]
  <2> HIDE DEF P, N, passes, notices, q
  <2>1. CASE u \in P \/ u \in N  BY <1>4, <1>5, <1>6, <1>8, <2>1
  <2>2. CASE u \notin P /\ u \notin N  BY <1>4, <1>5, <1>6, <1>8, <2>2
  <2>3. QED  BY <2>1, <2>2
<1>12. CountedAt(w)' <=>
    /\ IsFiniteSet(P') /\ IsFiniteSet(N')
    /\ past'.granted[w] + Cardinality(P') <= Limit
    /\ past'.noticed[w] + Cardinality(N') <= 1
    /\ w = limiter'.window =>
         /\ past'.granted[w] + Cardinality(P') <= limiter'.count
         /\ limiter'.count <= Limit => past'.noticed[w] = 0 /\ N' = {}
    /\ w > limiter'.window => /\ past'.granted[w] = 0 /\ past'.noticed[w] = 0
                              /\ P' = {} /\ N' = {}
  BY DEF CountedAt
<1> HIDE DEF P, N
<1>13. QED  BY <1>2, <1>8, <1>10, <1>11, <1>12

LEMMA ReceiptCounted == ASSUME Inv, NEW u \in Updates, ReceiptStep(u) PROVE Counted'
<1>1. Chatting /\ Typed  BY DEF Inv
<1>2. CASE LimiterFails(u)
  <2>1. NoneJoins /\ UNCHANGED <<limiter, past>>  BY <1>1, <1>2, MovedNoneJoins DEF LimiterFails
  <2>2. QED  BY <2>1, CountedStays
<1>3. CASE Enqueue(u)
  <2>1. NoneJoins /\ UNCHANGED limiter  BY <1>1, <1>3, MovedNoneJoins DEF Enqueue
  <2>2. past'.granted = past.granted /\ past'.noticed = past.noticed
    BY <1>1, <1>3 DEF Enqueue, Typed, Histories
  <2>3. QED  BY <2>1, <2>2, CountedStays
<1>4. CASE EnqueueFails(u)
  <2>1. NoneJoins /\ UNCHANGED <<limiter, past>>  BY <1>1, <1>4, BackNoneJoins DEF EnqueueFails
  <2>2. QED  BY <2>1, CountedStays
<1>5. CASE Ack(u)
  <2>1. NoneJoins /\ UNCHANGED <<limiter, past>>  BY <1>1, <1>5, SaidNoneJoins, BackNoneJoins DEF Ack
  <2>2. QED  BY <2>1, CountedStays
<1>6. QED  BY <1>2, <1>3, <1>4, <1>5, PhotoCounted, VerdictCounted DEF ReceiptStep

LEMMA OtherCounted == ASSUME Inv, OtherStep PROVE Counted'
<1>1. CASE WindowEnds  BY <1>1, CountedAnew
<1>2. CASE ~WindowEnds
  <2>1. UNCHANGED limiter
    BY <1>2 DEF OtherStep, Arrive, Identify, Answer, AnswerFails, AlbumTimer, RowChanges, MiniAppLanguage,
                Invited, Restart
  <2>2. \/ past' = past
        \/ \E n : past' = [past EXCEPT !.told = n] \/ past' = [past EXCEPT !.lost = n]
    BY <1>2 DEF OtherStep, Arrive, Identify, Answer, AnswerFails, AlbumTimer, RowChanges, MiniAppLanguage,
                Invited, Restart
  <2>3. past'.granted = past.granted /\ past'.noticed = past.noticed
    BY <2>2 DEF Inv, Typed, Histories
  <2>4. QED  BY <2>1, <2>3, OtherNoneJoins, CountedStays
<1>3. QED  BY <1>1, <1>2

-----------------------------------------------------------------------------
(* Refusals *)

\* No photo that waits for its verdict is answered or dropped.
NoneRefused == \A v \in Updates :
    updates[v].pc = "expire" => updates'[v].pc \in {"expire", "enqueue", "identify"}

\* Update u goes on as any other, while the row may change.
Moves(u) == \/ \E q : Continue(u, q)
            \/ \E p, q : Becomes(p, [updates EXCEPT ![u] = q])

LEMMA MoveRefusesNone ==
    ASSUME Chatting, NEW u \in Updates, Moves(u),
           updates[u].pc = "expire" => updates'[u].pc \in {"expire", "enqueue", "identify"}
    PROVE  NoneRefused
<1> SUFFICES ASSUME NEW v \in Updates, v # u, updates[v].pc = "expire" PROVE updates'[v].pc = "expire"
  BY DEF NoneRefused
<1>1. updates \in [Updates -> Update] /\ updates[v] \in Update  BY DEF Chatting
<1>2. CASE \E q : Continue(u, q)  BY <1>1, <1>2 DEF Continue
<1>3. CASE \E p, q : Becomes(p, [updates EXCEPT ![u] = q])
  <2>1. PICK p, q : Becomes(p, [updates EXCEPT ![u] = q])  BY <1>3
  <2>2. updates'[v] = [updates[v] EXCEPT !.seen = updates[v].seen \cup {p}]  BY <1>1, <2>1 DEF Becomes
  <2>3. QED  BY <1>1, <2>2 DEF Update
<1>4. QED  BY <1>2, <1>3 DEF Moves

LEMMA SayMoves ==
    ASSUME NEW u, NEW what PROVE (Say(u, what) \/ Respond(u, what)) => Moves(u)
BY DEF Say, Respond, Moves

LEMMA SaveMoves ==
    ASSUME NEW u, NEW l, NEW who, SaveLanguage(u, l, who) PROVE Moves(u)
<1>1. CASE Continue(u, Redelivered(updates[u]))  BY <1>1 DEF Moves
<1>2. CASE Becomes([person EXCEPT !.lang = l], [updates EXCEPT ![u].pc = "answer", ![u].who = who])
  <2> DEFINE next == [updates[u] EXCEPT !.pc = "answer", !.who = who]
  <2>1. Becomes([person EXCEPT !.lang = l], [updates EXCEPT ![u] = next])  BY <1>2
  <2>2. QED  BY <2>1 DEF Moves
<1>3. QED  BY <1>1, <1>2 DEF SaveLanguage

LEMMA DialogueMoves == ASSUME NEW u, DialogueStep(u) PROVE Moves(u) /\ updates[u].pc # "expire"
<1>1. CASE Start(u)  BY <1>1, SayMoves DEF Start, StandingReply, Moves
<1>2. CASE Invite(u) \/ Register(u) \/ ChooseRole(u) \/ CreateBatch(u) \/ InviteFails(u)
  BY <1>2, SayMoves
     DEF Invite, BeginInviteFlow, StandingReply, Register, ChooseRole, CreateBatch, InviteFails
<1>3. CASE Submit(u)  BY <1>3, SayMoves DEF Submit, Moves
<1>4. CASE Keep(u) \/ Save(u)  BY <1>4, SaveMoves DEF Keep, Save
<1>5. CASE Language(u)  BY <1>5 DEF Language, Moves
<1>6. CASE Share(u)  BY <1>6, SayMoves DEF Share, Moves
<1>7. CASE Redeem(u)
  <2>1. CASE Say(u, "register") \/ Continue(u, Redelivered(updates[u]))
    BY <1>7, <2>1, SayMoves DEF Redeem, Moves
  <2>2. CASE \E p : Becomes(p, [updates EXCEPT ![u].pc = IF session.lang # None THEN "keep" ELSE "answer",
                                                ![u].said = "redeemed", ![u].lang = DialogueLang(u)])
    <3> DEFINE next == [updates[u] EXCEPT !.pc = IF session.lang # None THEN "keep" ELSE "answer",
                                          !.said = "redeemed", !.lang = DialogueLang(u)]
    <3>1. PICK p : Becomes(p, [updates EXCEPT ![u] = next])  BY <2>2
    <3>2. Moves(u)  BY <3>1 DEF Moves
    <3>3. QED  BY <1>7, <3>2 DEF Redeem
  <2>3. QED  BY <1>7, <2>1, <2>2 DEF Redeem
<1>8. QED  BY <1>1, <1>2, <1>3, <1>4, <1>5, <1>6, <1>7 DEF DialogueStep

LEMMA OtherRefusesNone == ASSUME Inv, OtherStep PROVE NoneRefused
<1>1. Chatting /\ updates \in [Updates -> Update]  BY DEF Inv, Chatting
<1>2. ASSUME NEW u \in Updates, NEW k \in Kinds, Arrive(u, k[1], k[2]) PROVE NoneRefused
  <2>1. Moves(u) /\ updates[u].pc # "expire"  BY <1>2 DEF Arrive, Moves, Idle
  <2>2. QED  BY <1>1, <2>1, MoveRefusesNone
<1>3. ASSUME NEW u \in Updates, Identify(u) \/ Answer(u) \/ AnswerFails(u) PROVE NoneRefused
  <2>1. Moves(u) /\ updates[u].pc # "expire"  BY <1>3 DEF Identify, Answer, AnswerFails, Moves
  <2>2. QED  BY <1>1, <2>1, MoveRefusesNone
<1>4. CASE UNCHANGED updates  BY <1>4 DEF NoneRefused
<1>5. CASE RowChanges \/ MiniAppLanguage
  <2>1. PICK p : Becomes(p, updates)  BY <1>5 DEF RowChanges, MiniAppLanguage
  <2>2. ASSUME NEW v \in Updates, updates[v].pc = "expire" PROVE updates'[v].pc = "expire"
    <3>1. updates'[v] = [updates[v] EXCEPT !.seen = updates[v].seen \cup {p}]  BY <2>1, <2>2 DEF Becomes
    <3>2. QED  BY <1>1, <2>2, <3>1 DEF Update
  <2>3. QED  BY <2>2 DEF NoneRefused
<1>6. CASE Restart
  <2>1. Idle \in Update /\ Idle.pc # "expire"  BY IdleGood DEF Good, Idle
  <2>2. \A v \in Updates : Redelivered(updates[v]).pc = "identify"  BY <2>1 DEF Redelivered, Update
  <2>3. QED  BY <1>6, <2>1, <2>2 DEF Restart, NoneRefused
<1>7. QED
  BY <1>2, <1>3, <1>4, <1>5, <1>6 DEF OtherStep, AlbumTimer, Invited, WindowEnds

LEMMA ReceiptRefusesNone == ASSUME Inv, NEW u \in Updates, ReceiptStep(u), ~Verdict(u) PROVE NoneRefused
<1>1. Chatting /\ updates[u] \in Update  BY DEF Inv, Chatting
<1>2. CASE Photo(u) \/ Enqueue(u) \/ EnqueueFails(u) \/ Ack(u)
  <2>1. Moves(u) /\ updates[u].pc # "expire"
    BY <1>2, SayMoves DEF Photo, Enqueue, EnqueueFails, Ack, Moves
  <2>2. QED  BY <1>1, <2>1, MoveRefusesNone
<1>3. CASE LimiterFails(u)
  <2> DEFINE next == [updates[u] EXCEPT !.pc = "enqueue"]
  <2>1. Continue(u, next) /\ next.pc = "enqueue"  BY <1>1, <1>3 DEF LimiterFails, Update
  <2> HIDE DEF next
  <2>2. Moves(u) /\ updates'[u].pc = "enqueue"  BY <2>1, <1>1 DEF Moves, Continue, Chatting
  <2>3. QED  BY <1>1, <2>2, MoveRefusesNone
<1>4. QED  BY <1>2, <1>3 DEF ReceiptStep

\* The verdict itself: the counter it met is gone, or will expire.
LEMMA VerdictRefuses ==
    ASSUME Inv, NEW u \in Updates, Verdict(u)
    PROVE  /\ limiter'.count = 0 \/ limiter'.ttl
           /\ \A v \in Updates \ {u} : updates[v].pc = "expire" => updates'[v].pc = "expire"
<1>1. limiter \in [count: Nat, ttl: BOOLEAN, window: 0..MaxLapses] /\ updates \in [Updates -> Update]
  BY DEF Inv, Typed, Chatting
<1>2. limiter'.count = 0 \/ limiter'.ttl
  <2>1. limiter' = IF limiter.count > 0 THEN [limiter EXCEPT !.ttl = TRUE] ELSE limiter
    BY DEF Verdict, Expires
  <2>2. QED  BY <1>1, <2>1
<1>3. \E q : Continue(u, q)  BY DEF Verdict, Respond
<1>4. QED  BY <1>1, <1>2, <1>3 DEF Continue

-----------------------------------------------------------------------------
(* Acknowledgements *)

\* The photos queued so far, by what has become of their acknowledgements.
Booked ==
    /\ \A g \in Albums : albums[g] # None => albums[g].timer
    /\ IsFiniteSet(WaitingPhotos) /\ IsFiniteSet(Acknowledging)
    /\ past.lost \in Nat
    /\ AcknowledgedOnce

\* Update q owes the acknowledgement of a photo.
Owes(q) == \/ q.pc = "ack"
           \/ q.pc = "answer" /\ q.said = "received"
DebtsStay == \A v \in Updates : Owes(updates'[v]) <=> Owes(updates[v])

LEMMA OwesNothing ==
    ASSUME NEW q \in Update, q.pc \notin {"ack", "answer"} PROVE ~Owes(q)
BY DEF Owes

LEMMA ElsewhereDebtsStay ==
    ASSUME Chatting, NEW u \in Updates, NEW q, Continue(u, q), Owes(q) <=> Owes(updates[u])
    PROVE  DebtsStay
<1>1. \A v \in Updates : updates'[v] = IF v = u THEN q ELSE updates[v]  BY DEF Continue, Chatting
<1>2. QED  BY <1>1 DEF DebtsStay

LEMMA SaidDebtsStay ==
    ASSUME Chatting, NEW u \in Updates, ~Owes(updates[u]), NEW what, what # "received",
           Say(u, what) \/ Respond(u, what)
    PROVE  DebtsStay
<1>1. updates[u] \in Update  BY DEF Chatting
<1>2. PICK l : Continue(u, [updates[u] EXCEPT !.pc = "answer", !.said = what, !.lang = l])
  BY DEF Say, Respond
<1>3. ~Owes([updates[u] EXCEPT !.pc = "answer", !.said = what, !.lang = l])  BY <1>1 DEF Update, Owes
<1>4. QED  BY <1>2, <1>3, ElsewhereDebtsStay

LEMMA MovedDebtsStay ==
    ASSUME Chatting, NEW u \in Updates, ~Owes(updates[u]), NEW pc, pc \notin {"ack", "answer"},
           Continue(u, [updates[u] EXCEPT !.pc = pc])
    PROVE  DebtsStay
<1>1. updates[u] \in Update  BY DEF Chatting
<1>2. ~Owes([updates[u] EXCEPT !.pc = pc])  BY <1>1 DEF Update, Owes
<1>3. QED  BY <1>2, ElsewhereDebtsStay

LEMMA BackOwesNothing ==
    ASSUME Chatting, NEW u \in Updates PROVE ~Owes(Idle) /\ ~Owes(Redelivered(updates[u]))
<1>1. Idle \in Update  BY IdleGood DEF Good
<1>2. Idle.pc = "idle" /\ Redelivered(updates[u]).pc = "identify"  BY <1>1 DEF Idle, Redelivered, Update
<1>3. QED  BY <1>2 DEF Owes

LEMMA BackDebtsStay ==
    ASSUME Chatting, NEW u \in Updates, ~Owes(updates[u]),
           Continue(u, Redelivered(updates[u])) \/ Continue(u, Idle)
    PROVE  DebtsStay
BY BackOwesNothing, ElsewhereDebtsStay

LEMMA BecomesDebtsStay ==
    ASSUME NEW p, NEW now \in [Updates -> Update], Becomes(p, now),
           \A v \in Updates : Owes(now[v]) <=> Owes(updates[v])
    PROVE  DebtsStay
<1> SUFFICES ASSUME NEW v \in Updates PROVE Owes(updates'[v]) <=> Owes(now[v])
  BY DEF DebtsStay
<1>1. now[v] \in Update
      /\ updates'[v] = IF now[v].pc = "idle" THEN now[v] ELSE [now[v] EXCEPT !.seen = now[v].seen \cup {p}]
  BY DEF Becomes
<1>2. updates'[v].pc = now[v].pc /\ updates'[v].said = now[v].said  BY <1>1 DEF Update
<1>3. QED  BY <1>2 DEF Owes

LEMMA OneBecomesDebtsStay ==
    ASSUME Chatting, NEW u \in Updates, ~Owes(updates[u]), NEW next \in Update, ~Owes(next), NEW p,
           Becomes(p, [updates EXCEPT ![u] = next])
    PROVE  DebtsStay
<1> DEFINE now == [updates EXCEPT ![u] = next]
<1>1. updates \in [Updates -> Update]  BY DEF Chatting
<1>2. now \in [Updates -> Update] /\ now[u] = next /\ \A v \in Updates \ {u} : now[v] = updates[v]
  BY <1>1
<1>3. Becomes(p, now)  OBVIOUS
<1> HIDE DEF now
<1>4. \A v \in Updates : Owes(now[v]) <=> Owes(updates[v])  BY <1>2
<1>5. QED  BY <1>2, <1>3, <1>4, BecomesDebtsStay

LEMMA SaveDebtsStay ==
    ASSUME Chatting, NEW u \in Updates, updates[u].pc \in {"save", "keep"}, NEW l, NEW who \in Person,
           SaveLanguage(u, l, who)
    PROVE  DebtsStay
<1>1. updates[u] \in Update /\ updates[u].said # "received" /\ ~Owes(updates[u])
  BY Each DEF Sound, Chatting, Owes
<1>2. CASE Continue(u, Redelivered(updates[u]))  BY <1>1, <1>2, BackDebtsStay
<1>3. CASE Becomes([person EXCEPT !.lang = l], [updates EXCEPT ![u].pc = "answer", ![u].who = who])
  <2> DEFINE next == [updates[u] EXCEPT !.pc = "answer", !.who = who]
  <2>1. next \in Update /\ next.said = updates[u].said  BY <1>1 DEF Update, Stages
  <2>2. next.pc = "answer"  BY <1>1 DEF Update
  <2>3. Becomes([person EXCEPT !.lang = l], [updates EXCEPT ![u] = next])  BY <1>3
  <2> HIDE DEF next
  <2>4. ~Owes(next)  BY <1>1, <2>1, <2>2 DEF Owes
  <2>5. QED  BY <1>1, <2>1, <2>3, <2>4, OneBecomesDebtsStay
<1>4. QED  BY <1>2, <1>3 DEF SaveLanguage

\* The dialogue neither queues photos nor acknowledges them.
LEMMA DialogueDebtsStay == ASSUME Inv, NEW u \in Updates, DialogueStep(u) PROVE DebtsStay
<1>1. Chatting /\ updates \in [Updates -> Update] /\ updates[u] \in Update /\ Sound(updates[u]) /\ Typed
  BY Each DEF Inv, Chatting
<1>2. ~Owes(updates[u])
  BY DEF Owes, DialogueStep, Start, Invite, Redeem, Keep, Register, Submit, Language, Save, ChooseRole,
         Share, CreateBatch, InviteFails
<1>3. CASE Start(u)
  BY <1>1, <1>2, <1>3, SaidDebtsStay, MovedDebtsStay DEF Start, StandingReply, Closed
<1>4. CASE Invite(u) \/ Register(u) \/ ChooseRole(u) \/ CreateBatch(u) \/ InviteFails(u)
  BY <1>1, <1>2, <1>4, SaidDebtsStay
     DEF Invite, BeginInviteFlow, StandingReply, Register, ChooseRole, CreateBatch, InviteFails, Closed
<1>5. CASE Submit(u)  BY <1>1, <1>2, <1>5, SaidDebtsStay, MovedDebtsStay DEF Submit
<1>6. CASE Keep(u)
  <2>1. Nobody \in Person  BY DEF Nobody, Person, Roles
  <2>2. QED  BY <1>1, <1>6, <2>1, SaveDebtsStay DEF Keep
<1>7. CASE Save(u)
  <2>1. updates[u].arg \in Langs /\ updates[u].who \in Person  BY <1>1, <1>7 DEF Save, Sound, Update
  <2>2. [updates[u].who EXCEPT !.lang = updates[u].arg] \in Person  BY <2>1 DEF Person
  <2>3. QED  BY <1>1, <1>7, <2>2, SaveDebtsStay DEF Save
<1>8. CASE Language(u)
  <2>1. PICK pc, goesOn, l :
          Continue(u, [updates[u] EXCEPT !.pc = IF pc THEN "save" ELSE "answer", !.goesOn = goesOn,
                                         !.said = "languageSaved", !.lang = l])
    BY <1>8 DEF Language
  <2>2. ~Owes([updates[u] EXCEPT !.pc = IF pc THEN "save" ELSE "answer", !.goesOn = goesOn,
                                 !.said = "languageSaved", !.lang = l])
    BY <1>1 DEF Update, Owes
  <2>3. QED  BY <1>1, <1>2, <2>1, <2>2, ElsewhereDebtsStay
<1>9. CASE Share(u)
  <2>1. CASE Continue(u, Idle)  BY <1>1, <1>2, <2>1, BackDebtsStay
  <2>2. CASE \E what : what # "received" /\ Say(u, what)  BY <1>1, <1>2, <2>2, SaidDebtsStay
  <2>3. CASE \E arg, l :
               \/ Continue(u, [updates[u] EXCEPT !.pc = "answer", !.said = "refused", !.arg = arg, !.lang = l])
               \/ Continue(u, [updates[u] EXCEPT !.pc = "batch", !.arg = arg])
    <3>1. PICK arg, l :
            \/ Continue(u, [updates[u] EXCEPT !.pc = "answer", !.said = "refused", !.arg = arg, !.lang = l])
            \/ Continue(u, [updates[u] EXCEPT !.pc = "batch", !.arg = arg])
      BY <2>3
    <3>2. /\ ~Owes([updates[u] EXCEPT !.pc = "answer", !.said = "refused", !.arg = arg, !.lang = l])
          /\ ~Owes([updates[u] EXCEPT !.pc = "batch", !.arg = arg])
      BY <1>1 DEF Update, Owes
    <3>3. QED  BY <1>1, <1>2, <3>1, <3>2, ElsewhereDebtsStay
  <2>4. QED  BY <1>9, <2>1, <2>2, <2>3 DEF Share, Closed
<1>10. CASE Redeem(u)
  <2>1. CASE Say(u, "register") \/ Continue(u, Redelivered(updates[u]))
    BY <1>1, <1>2, <2>1, SaidDebtsStay, BackDebtsStay
  <2>2. CASE \E p : Becomes(p, [updates EXCEPT ![u].pc = IF session.lang # None THEN "keep" ELSE "answer",
                                                ![u].said = "redeemed", ![u].lang = DialogueLang(u)])
    <3> DEFINE next == [updates[u] EXCEPT !.pc = IF session.lang # None THEN "keep" ELSE "answer",
                                          !.said = "redeemed", !.lang = DialogueLang(u)]
    <3>1. DialogueLang(u) \in Langs  BY <1>1, LangType
    <3>2. next \in Update  BY <1>1, <3>1 DEF Update, Stages, Replies
    <3>3. ~Owes(next)  BY <1>1 DEF Update, Owes
    <3>4. PICK p : Becomes(p, [updates EXCEPT ![u] = next])  BY <2>2
    <3> HIDE DEF next
    <3>5. QED  BY <1>1, <1>2, <3>2, <3>3, <3>4, OneBecomesDebtsStay
  <2>3. QED  BY <1>10, <2>1, <2>2 DEF Redeem
<1>11. QED
  BY <1>3, <1>4, <1>5, <1>6, <1>7, <1>8, <1>9, <1>10 DEF DialogueStep

LEMMA Books ==
    ASSUME Inv, Booked
    PROVE  /\ past.queued \in Nat /\ past.told \in Nat /\ past.lost \in Nat
           /\ Waiting \in Nat /\ Cardinality(Acknowledging) \in Nat
           /\ past.queued = past.told + past.lost + Waiting + Cardinality(Acknowledging)
<1>1. past.queued \in Nat /\ past.told \in Nat  BY DEF Inv, Typed, Histories
<1>2. Waiting \in Nat /\ Cardinality(Acknowledging) \in Nat  BY FS_CardinalityType DEF Booked, Waiting
<1>3. QED  BY <1>1, <1>2 DEF Booked, AcknowledgedOnce

LEMMA AlbumsStay ==
    ASSUME UNCHANGED albums PROVE WaitingPhotos' = WaitingPhotos /\ Waiting' = Waiting
<1>1. WaitingPhotos' = WaitingPhotos  BY DEF WaitingPhotos, Counting
<1>2. QED  BY <1>1 DEF Waiting

LEMMA DebtsKept == ASSUME DebtsStay PROVE Acknowledging' = Acknowledging
<1>1. Acknowledging' = {v \in Updates : Owes(updates'[v])} /\ Acknowledging = {v \in Updates : Owes(updates[v])}
  BY DEF Acknowledging, Owes
<1>2. QED  BY <1>1 DEF DebtsStay

LEMMA BookedStays ==
    ASSUME Inv, Booked, DebtsStay, UNCHANGED albums,
           past'.queued = past.queued, past'.told = past.told, past'.lost = past.lost
    PROVE  Booked'
<1>1. WaitingPhotos' = WaitingPhotos /\ Waiting' = Waiting /\ Acknowledging' = Acknowledging
  BY AlbumsStay, DebtsKept
<1>2. QED  BY <1>1 DEF Booked, AcknowledgedOnce

\* A photo is queued: update u owes its acknowledgement.
LEMMA OneMoreOwes ==
    ASSUME Chatting, Booked, NEW u \in Updates, ~Owes(updates[u]), NEW q, Owes(q), Continue(u, q)
    PROVE  /\ IsFiniteSet(Acknowledging')
           /\ Cardinality(Acknowledging') = Cardinality(Acknowledging) + 1
<1>1. \A v \in Updates : updates'[v] = IF v = u THEN q ELSE updates[v]  BY DEF Continue, Chatting
<1>2. u \notin Acknowledging  BY DEF Acknowledging, Owes
<1>3. Acknowledging' = Acknowledging \cup {u}  BY <1>1 DEF Acknowledging, Owes
<1>4. QED  BY <1>2, <1>3, FS_AddElement DEF Booked

LEMMA OneLessOwes ==
    ASSUME Chatting, Booked, NEW u \in Updates, Owes(updates[u]), NEW q, ~Owes(q), Continue(u, q)
    PROVE  /\ IsFiniteSet(Acknowledging')
           /\ Cardinality(Acknowledging') = Cardinality(Acknowledging) - 1
<1>1. \A v \in Updates : updates'[v] = IF v = u THEN q ELSE updates[v]  BY DEF Continue, Chatting
<1>2. u \in Acknowledging  BY DEF Acknowledging, Owes
<1>3. Acknowledging' = Acknowledging \ {u}  BY <1>1 DEF Acknowledging, Owes
<1>4. QED  BY <1>2, <1>3, FS_RemoveElement DEF Booked

\* sendMediaGroupAck counts a photo that update u has queued in its album.
LEMMA AlbumGrows ==
    ASSUME Inv, Booked, NEW g \in Albums, albums' = [albums EXCEPT ![g] = OneMore(albums[g])]
    PROVE  /\ \A h \in Albums : albums'[h] # None => albums'[h].timer
           /\ IsFiniteSet(WaitingPhotos') /\ Waiting' = Waiting + 1
<1> DEFINE n == IF albums[g] = None THEN 0 ELSE albums[g].count
<1>1. albums \in [Albums -> [count: Nat \ {0}, timer: BOOLEAN] \cup {None}]  BY DEF Inv, Typed
<1>2. n \in Nat  BY <1>1
<1>3. albums'[g] = [count |-> n + 1, timer |-> TRUE] /\ \A h \in Albums \ {g} : albums'[h] = albums[h]
  <2>1. OneMore(albums[g]) = [count |-> n + 1, timer |-> TRUE]
    <3>1. CASE albums[g] = None  BY <3>1 DEF OneMore, NewAck
    <3>2. CASE albums[g] # None
      <4>1. albums[g] \in [count: Nat \ {0}, timer: BOOLEAN] /\ albums[g].timer = TRUE
        BY <1>1, <3>2 DEF Booked
      <4>2. QED  BY <3>2, <4>1 DEF OneMore
    <3>3. QED  BY <3>1, <3>2
  <2>2. QED  BY <1>1, <2>1
<1>4. albums'[g] # None
  <2>1. [count |-> n + 1, timer |-> TRUE] \in [count: Nat, timer: BOOLEAN]  BY <1>2
  <2>2. albums'[g] = [count |-> n + 1, timer |-> TRUE]  BY <1>3
  <2>3. QED  BY <2>1, <2>2, NoneAssumption
<1>5. \A h \in Albums : albums'[h] # None => albums'[h].timer  BY <1>3 DEF Booked
<1> DEFINE Photos(h) == {h} \X (1..albums[h].count)
<1>6. Counting' = Counting \cup {g}  BY <1>3, <1>4 DEF Counting
<1>7. g \in Counting <=> albums[g] # None  BY DEF Booked, Counting
<1>8. \A x : x \in WaitingPhotos' <=> x \in WaitingPhotos \/ x = <<g, n + 1>>
  <2>1. \A x : x \in WaitingPhotos' <=> \E h \in Counting' : x \in {h} \X (1..albums'[h].count)
    BY DEF WaitingPhotos
  <2>2. \A x : x \in WaitingPhotos <=> \E h \in Counting : x \in {h} \X (1..albums[h].count)
    BY DEF WaitingPhotos
  <2>3. \A x : x \in {g} \X (1..albums'[g].count) <=>
               (g \in Counting /\ x \in {g} \X (1..albums[g].count)) \/ x = <<g, n + 1>>
    <3>1. albums'[g].count = n + 1  BY <1>3
    <3>2. 1..(n + 1) = (1..n) \cup {n + 1}  BY <1>2
    <3>3. CASE albums[g] = None
      <4>1. 1..(n + 1) = {n + 1}  BY <3>2, <3>3
      <4>2. QED  BY <1>7, <3>1, <3>3, <4>1
    <3>4. CASE albums[g] # None
      <4>1. albums[g].count = n /\ g \in Counting  BY <1>7, <3>4
      <4> HIDE DEF n
      <4>2. QED  BY <3>1, <3>2, <4>1
    <3>5. QED  BY <3>3, <3>4
  <2>4. \A h \in Counting : h # g => h \in Albums /\ albums'[h] = albums[h]  BY <1>3 DEF Counting
  <2> HIDE DEF n
  <2>5. QED  BY <1>6, <2>1, <2>2, <2>3, <2>4
<1>9. <<g, n + 1>> \notin WaitingPhotos
  <2>1. SUFFICES ASSUME NEW h \in Counting, <<g, n + 1>> \in {h} \X (1..albums[h].count) PROVE FALSE
    BY DEF WaitingPhotos
  <2>2. h = g /\ n + 1 \in 1..albums[g].count  BY <2>1
  <2>3. albums[g].count = n  BY <1>7, <2>2
  <2> HIDE DEF n
  <2>4. QED  BY <1>2, <2>2, <2>3
<1>10. WaitingPhotos' = WaitingPhotos \cup {<<g, n + 1>>}  BY <1>8
<1> HIDE DEF n
<1>11. IsFiniteSet(WaitingPhotos') /\ Cardinality(WaitingPhotos') = Cardinality(WaitingPhotos) + 1
  BY <1>9, <1>10, FS_AddElement DEF Booked
<1>12. QED  BY <1>5, <1>11 DEF Waiting

\* The timer of an album acknowledges as many photos as it has counted.
LEMMA AlbumEnds ==
    ASSUME Inv, Booked, NEW g \in Albums, albums[g] # None, albums' = [albums EXCEPT ![g] = None]
    PROVE  /\ \A h \in Albums : albums'[h] # None => albums'[h].timer
           /\ IsFiniteSet(WaitingPhotos') /\ Waiting' = Waiting - albums[g].count
           /\ albums[g].count \in Nat
<1> DEFINE n == albums[g].count
           Mine == {g} \X (1..n)
<1>1. albums \in [Albums -> [count: Nat \ {0}, timer: BOOLEAN] \cup {None}]  BY DEF Inv, Typed
<1>2. n \in Nat  BY <1>1
<1>3. albums'[g] = None /\ \A h \in Albums \ {g} : albums'[h] = albums[h]  BY <1>1
<1>4. \A h \in Albums : albums'[h] # None => albums'[h].timer  BY <1>3 DEF Booked
<1>5. Counting' = Counting \ {g} /\ g \in Counting  BY <1>3 DEF Counting, Booked
<1>6. \A x : x \in WaitingPhotos' <=> \E h \in Counting' : x \in {h} \X (1..albums'[h].count)
  BY DEF WaitingPhotos
<1>7. \A x : x \in WaitingPhotos <=> \E h \in Counting : x \in {h} \X (1..albums[h].count)
  BY DEF WaitingPhotos
<1>8. \A h \in Counting : h # g => h \in Albums /\ albums'[h] = albums[h]  BY <1>3 DEF Counting
<1>9. Mine \subseteq WaitingPhotos  BY <1>5, <1>7
<1>10. WaitingPhotos' = WaitingPhotos \ Mine
  <2>1. \A x, h : x \in {h} \X (1..albums[h].count) => (h = g <=> x \in Mine)  OBVIOUS
  <2> HIDE DEF Mine
  <2>2. QED  BY <1>5, <1>6, <1>7, <1>8, <2>1
<1>11. IsFiniteSet({g}) /\ Cardinality({g}) = 1  BY FS_Singleton
<1>12. IsFiniteSet(1..n) /\ Cardinality(1..n) = n
  <2> HIDE DEF n
  <2>1. n \in Int /\ 1 \in Int /\ n >= 0  BY <1>2
  <2>2. IsFiniteSet(1..n) /\ Cardinality(1..n) = IF 1 > n THEN 0 ELSE n - 1 + 1  BY <2>1, FS_Interval
  <2>3. QED  BY <2>1, <2>2
<1>13. Cardinality(Mine) = n
  <2>1. Cardinality(Mine) = Cardinality({g}) * Cardinality(1..n)  BY <1>11, <1>12, FS_Product
  <2>2. QED  BY <1>2, <1>11, <1>12, <2>1
<1> HIDE DEF Mine
<1>14. WaitingPhotos \cap Mine = Mine  BY <1>9
<1>15. IsFiniteSet(WaitingPhotos') /\ Cardinality(WaitingPhotos') = Cardinality(WaitingPhotos) - n
  <2> HIDE DEF n
  <2>1. /\ IsFiniteSet(WaitingPhotos \ Mine)
        /\ Cardinality(WaitingPhotos \ Mine) = Cardinality(WaitingPhotos) - Cardinality(WaitingPhotos \cap Mine)
    BY FS_Difference DEF Booked
  <2>2. QED  BY <1>10, <1>13, <1>14, <2>1
<1>16. QED  BY <1>2, <1>4, <1>15 DEF Waiting

LEMMA AckBooked == ASSUME Inv, Booked, NEW u \in Updates, Ack(u) PROVE Booked'
<1>1. Chatting /\ updates[u] \in Update /\ Owes(updates[u]) /\ UNCHANGED past
  BY DEF Inv, Chatting, Ack, Owes
<1>2. CASE Respond(u, "received") /\ UNCHANGED albums
  <2>1. PICK l : Continue(u, [updates[u] EXCEPT !.pc = "answer", !.said = "received", !.lang = l])
    BY <1>2 DEF Respond
  <2>2. Owes([updates[u] EXCEPT !.pc = "answer", !.said = "received", !.lang = l])
    BY <1>1 DEF Update, Owes
  <2>3. DebtsStay  BY <1>1, <2>1, <2>2, ElsewhereDebtsStay
  <2>4. QED  BY <1>1, <1>2, <2>3, BookedStays
<1>3. CASE \E g \in Albums : albums' = [albums EXCEPT ![g] = OneMore(albums[g])] /\ Continue(u, Idle)
  <2>1. PICK g \in Albums : albums' = [albums EXCEPT ![g] = OneMore(albums[g])] /\ Continue(u, Idle)
    BY <1>3
  <2>2. /\ \A h \in Albums : albums'[h] # None => albums'[h].timer
        /\ IsFiniteSet(WaitingPhotos') /\ Waiting' = Waiting + 1
    BY <2>1, AlbumGrows
  <2>3. /\ IsFiniteSet(Acknowledging')
        /\ Cardinality(Acknowledging') = Cardinality(Acknowledging) - 1
    BY <1>1, <2>1, BackOwesNothing, OneLessOwes
  <2>4. AcknowledgedOnce'  BY <1>1, <2>2, <2>3, Books DEF AcknowledgedOnce
  <2>5. past'.lost \in Nat  BY <1>1, Books
  <2>6. QED  BY <2>2, <2>3, <2>4, <2>5 DEF Booked
<1>4. QED  BY <1>2, <1>3 DEF Ack

LEMMA EnqueueBooked == ASSUME Inv, Booked, NEW u \in Updates, Enqueue(u) PROVE Booked'
<1>1. Chatting /\ updates[u] \in Update /\ ~Owes(updates[u]) /\ UNCHANGED albums
  BY DEF Inv, Chatting, Enqueue, Owes
<1>2. past'.queued = past.queued + 1 /\ past'.told = past.told /\ past'.lost = past.lost
  BY DEF Inv, Typed, Histories, Enqueue
<1>3. Owes([updates[u] EXCEPT !.pc = "ack"])  BY <1>1 DEF Update, Owes
<1>4. IsFiniteSet(Acknowledging') /\ Cardinality(Acknowledging') = Cardinality(Acknowledging) + 1
  BY <1>1, <1>3, OneMoreOwes DEF Enqueue
<1>5. WaitingPhotos' = WaitingPhotos /\ Waiting' = Waiting  BY <1>1, AlbumsStay
<1>6. AcknowledgedOnce'  BY <1>2, <1>4, <1>5, Books DEF AcknowledgedOnce
<1>7. QED  BY <1>1, <1>2, <1>4, <1>5, <1>6 DEF Booked

LEMMA ReceiptBooked == ASSUME Inv, Booked, NEW u \in Updates, ReceiptStep(u) PROVE Booked'
<1>1. Chatting /\ Typed /\ updates[u] \in Update  BY DEF Inv, Chatting
<1>2. CASE Photo(u)
  <2>1. ~Owes(updates[u]) /\ UNCHANGED <<albums, past>>  BY <1>2 DEF Photo, Owes
  <2>2. CASE \E what \in Closed \cup {"unknown"} : Respond(u, what)
    <3>1. DebtsStay  BY <1>1, <2>1, <2>2, SaidDebtsStay DEF Closed
    <3>2. QED  BY <2>1, <3>1, BookedStays
  <2>3. CASE \E n, w : Continue(u, [updates[u] EXCEPT !.pc = "expire", !.count = n, !.window = w])
    <3>1. PICK n, w : Continue(u, [updates[u] EXCEPT !.pc = "expire", !.count = n, !.window = w])
      BY <2>3
    <3>2. ~Owes([updates[u] EXCEPT !.pc = "expire", !.count = n, !.window = w])  BY <1>1 DEF Update, Owes
    <3>3. DebtsStay  BY <1>1, <2>1, <3>1, <3>2, ElsewhereDebtsStay
    <3>4. QED  BY <2>1, <3>3, BookedStays
  <2>4. QED  BY <1>2, <2>2, <2>3 DEF Photo
<1>3. CASE Verdict(u)
  <2>1. ~Owes(updates[u]) /\ UNCHANGED albums  BY <1>3 DEF Verdict, Owes
  <2>2. \/ past' = past
        \/ \E f : past' = [past EXCEPT !.granted = f] \/ past' = [past EXCEPT !.noticed = f]
    BY <1>3 DEF Verdict
  <2>3. past'.queued = past.queued /\ past'.told = past.told /\ past'.lost = past.lost
    BY <1>1, <2>2 DEF Typed, Histories
  <2>4. DebtsStay  BY <1>1, <1>3, <2>1, SaidDebtsStay, MovedDebtsStay, BackDebtsStay DEF Verdict
  <2>5. QED  BY <2>1, <2>3, <2>4, BookedStays
<1>4. CASE LimiterFails(u) \/ EnqueueFails(u)
  <2>1. ~Owes(updates[u]) /\ UNCHANGED <<albums, past>>  BY <1>4 DEF LimiterFails, EnqueueFails, Owes
  <2>2. DebtsStay
    BY <1>1, <1>4, <2>1, MovedDebtsStay, BackDebtsStay DEF LimiterFails, EnqueueFails
  <2>3. QED  BY <2>1, <2>2, BookedStays
<1>5. QED  BY <1>2, <1>3, <1>4, EnqueueBooked, AckBooked DEF ReceiptStep

\* The reply of ctx.reply is out, or has failed and is lost with the update.
LEMMA AnswerBooked ==
    ASSUME Inv, Booked, NEW u \in Updates, Answer(u) \/ AnswerFails(u) PROVE Booked'
<1>1. Chatting /\ Typed /\ updates[u] \in Update /\ updates[u].pc = "answer" /\ UNCHANGED albums
  BY DEF Inv, Chatting, Answer, AnswerFails
<1>2. PICK q : ~Owes(q) /\ Continue(u, q)
  <2>1. ~Owes([updates[u] EXCEPT !.pc = "start", !.goesOn = FALSE])  BY <1>1 DEF Update, Owes
  <2>2. QED  BY <1>1, <2>1, BackOwesNothing DEF Answer, AnswerFails
<1>3. CASE updates[u].said # "received"
  <2>1. DebtsStay  BY <1>1, <1>2, <1>3, ElsewhereDebtsStay DEF Owes
  <2>2. UNCHANGED past  BY <1>3 DEF Answer, AnswerFails
  <2>3. QED  BY <1>1, <2>1, <2>2, BookedStays
<1>4. CASE updates[u].said = "received"
  <2>1. IsFiniteSet(Acknowledging') /\ Cardinality(Acknowledging') = Cardinality(Acknowledging) - 1
    BY <1>1, <1>2, <1>4, OneLessOwes DEF Owes
  <2>2. past' = [past EXCEPT !.told = past.told + 1] \/ past' = [past EXCEPT !.lost = past.lost + 1]
    BY <1>4 DEF Answer, AnswerFails
  <2>3. /\ past'.queued = past.queued
        /\ \/ past'.told = past.told + 1 /\ past'.lost = past.lost
           \/ past'.told = past.told /\ past'.lost = past.lost + 1
    BY <1>1, <2>2 DEF Typed, Histories
  <2>4. WaitingPhotos' = WaitingPhotos /\ Waiting' = Waiting  BY <1>1, AlbumsStay
  <2>5. AcknowledgedOnce' /\ past'.lost \in Nat  BY <2>1, <2>3, <2>4, Books DEF AcknowledgedOnce
  <2>6. QED  BY <1>1, <2>1, <2>4, <2>5 DEF Booked
<1>5. QED  BY <1>3, <1>4

LEMMA TimerBooked == ASSUME Inv, Booked, NEW g \in Albums, AlbumTimer(g) PROVE Booked'
<1>1. albums[g] # None /\ albums' = [albums EXCEPT ![g] = None] /\ UNCHANGED updates
  BY DEF AlbumTimer, Fired
<1>2. /\ \A h \in Albums : albums'[h] # None => albums'[h].timer
      /\ IsFiniteSet(WaitingPhotos') /\ Waiting' = Waiting - albums[g].count /\ albums[g].count \in Nat
  BY <1>1, AlbumEnds
<1>3. past'.queued = past.queued /\ past'.told = past.told + albums[g].count /\ past'.lost = past.lost
  BY DEF AlbumTimer, Inv, Typed, Histories
<1>4. Acknowledging' = Acknowledging  BY <1>1 DEF Acknowledging
<1>5. AcknowledgedOnce'  BY <1>2, <1>3, <1>4, Books DEF AcknowledgedOnce
<1>6. QED  BY <1>2, <1>3, <1>4, <1>5 DEF Booked

\* What a restart forgets is lost, and nothing else.
LEMMA RestartBooked == ASSUME Inv, Booked, Restart PROVE Booked'
<1>1. Chatting  BY DEF Inv
<1>2. \A g \in Albums : albums'[g] = None  BY DEF Restart
<1>3. \A u \in Updates : ~Owes(updates'[u])  BY <1>1, BackOwesNothing DEF Restart
<1>4. WaitingPhotos' = {}  BY <1>2 DEF WaitingPhotos, Counting
<1>5. Acknowledging' = {}  BY <1>3 DEF Acknowledging, Owes
<1>6. IsFiniteSet({}) /\ Cardinality({}) = 0  BY FS_EmptySet
<1>7. /\ past'.queued = past.queued /\ past'.told = past.told
      /\ past'.lost = past.lost + Waiting + Cardinality(Acknowledging)
  BY DEF Restart, Inv, Typed, Histories
<1>8. Waiting' = 0  BY <1>4, <1>6 DEF Waiting
<1>9. AcknowledgedOnce' /\ past'.lost \in Nat  BY <1>5, <1>6, <1>7, <1>8, Books DEF AcknowledgedOnce
<1>10. QED  BY <1>2, <1>4, <1>5, <1>6, <1>9 DEF Booked

LEMMA OtherBooked == ASSUME Inv, Booked, OtherStep PROVE Booked'
<1>1. Chatting /\ updates \in [Updates -> Update]  BY DEF Inv, Chatting
<1>2. ASSUME NEW u \in Updates, NEW k \in Kinds, Arrive(u, k[1], k[2]) PROVE Booked'
  <2>1. Continue(u, [Idle EXCEPT !.pc = "identify", !.kind = k[1], !.arg = k[2], !.seen = {person}])
        /\ updates[u] = Idle /\ UNCHANGED <<albums, past>>
    BY <1>2 DEF Arrive
  <2>2. ~Owes([Idle EXCEPT !.pc = "identify", !.kind = k[1], !.arg = k[2], !.seen = {person}])
    BY IdleGood DEF Good, Update, Owes
  <2>3. DebtsStay  BY <1>1, <2>1, <2>2, BackOwesNothing, ElsewhereDebtsStay
  <2>4. QED  BY <2>1, <2>3, BookedStays
<1>3. ASSUME NEW u \in Updates, Identify(u) PROVE Booked'
  <2>1. updates[u] \in Update /\ Sound(updates[u]) /\ updates[u].pc = "identify" /\ UNCHANGED <<albums, past>>
    BY <1>1, <1>3, Each DEF Identify
  <2>2. updates[u].kind \in Handlers /\ ~Owes(updates[u])  BY <2>1 DEF Sound, Owes
  <2>3. ~Owes([updates[u] EXCEPT !.pc = updates[u].kind, !.who = Resolved])
    BY <2>1, <2>2 DEF Update, Handlers, Owes
  <2>4. DebtsStay  BY <1>1, <1>3, <2>2, <2>3, ElsewhereDebtsStay DEF Identify
  <2>5. QED  BY <2>1, <2>4, BookedStays
<1>4. CASE RowChanges \/ MiniAppLanguage
  <2>1. DebtsStay  BY <1>1, <1>4, BecomesDebtsStay DEF RowChanges, MiniAppLanguage
  <2>2. QED  BY <1>4, <2>1, BookedStays DEF RowChanges, MiniAppLanguage
<1>5. CASE Invited \/ WindowEnds
  <2>1. UNCHANGED <<updates, albums, past>>  BY <1>5 DEF Invited, WindowEnds
  <2>2. QED  BY <2>1, BookedStays DEF DebtsStay
<1>6. QED  BY <1>2, <1>3, <1>4, <1>5, AnswerBooked, TimerBooked, RestartBooked DEF OtherStep

LEMMA NextBooked == Inv /\ Booked /\ [Next]_vars => Booked'
<1> SUFFICES ASSUME Inv, Booked, [Next]_vars PROVE Booked'
  OBVIOUS
<1>1. ASSUME NEW u \in Updates, DialogueStep(u) PROVE Booked'
  BY <1>1, DialogueRest, DialogueDebtsStay, BookedStays
<1>2. CASE UNCHANGED vars
  <2>1. UNCHANGED <<updates, albums, past>>  BY <1>2 DEF vars
  <2>2. QED  BY <2>1, BookedStays DEF DebtsStay
<1>3. QED  BY <1>1, <1>2, ReceiptBooked, OtherBooked, NextSteps

LEMMA InitBooked == Init => Booked
<1> SUFFICES ASSUME Init PROVE Booked
  OBVIOUS
<1>1. \A g \in Albums : albums[g] = None  BY DEF Init
<1>2. \A u \in Updates : updates[u].pc = "idle"  BY DEF Init, Idle
<1>3. WaitingPhotos = {} /\ Acknowledging = {}  BY <1>1, <1>2 DEF WaitingPhotos, Counting, Acknowledging
<1>4. IsFiniteSet({}) /\ Cardinality({}) = 0  BY FS_EmptySet
<1>5. past.queued = 0 /\ past.told = 0 /\ past.lost = 0  BY DEF Init
<1>6. QED  BY <1>1, <1>3, <1>4, <1>5 DEF Booked, AcknowledgedOnce, Waiting

-----------------------------------------------------------------------------
(* The invariant, and what follows from it. *)

LEMMA InitInv == Init => Inv
<1> SUFFICES ASSUME Init PROVE Inv
  OBVIOUS
<1>1. person \in Person /\ Standing(person)  BY PeopleAssumption DEF Init
<1>2. updates = [u \in Updates |-> Idle] /\ Good(Idle) /\ Sees(Idle, person)
  BY IdleGood DEF Init
<1>3. Chatting  BY <1>1, <1>2 DEF Chatting, Good
<1>4. Typed
  <2>1. NoSession \in Session  BY DEF NoSession, Session
  <2>2. past \in Histories(0)  BY DEF Init, Histories
  <2>3. limiter \in [count: Nat, ttl: BOOLEAN, window: 0..MaxLapses]  BY Bounds DEF Init
  <2>4. spent \in [updates: 0..MaxUpdates, changes: 0..MaxChanges, troubles: 0..MaxTroubles]
    BY Bounds DEF Init
  <2>5. QED  BY <2>1, <2>2, <2>3, <2>4 DEF Init, Typed
<1>5. ASSUME NEW w \in 0..MaxLapses PROVE CountedAt(w)
  <2>1. \A u \in Updates : updates[u].pc = "idle"  BY <1>2 DEF Idle
  <2>2. Passing(w) = {} /\ Noticing(w) = {}  BY <2>1 DEF Passing, Noticing
  <2>3. IsFiniteSet({}) /\ Cardinality({}) = 0  BY FS_EmptySet
  <2>4. past.granted[w] = 0 /\ past.noticed[w] = 0 /\ limiter.count = 0  BY DEF Init
  <2>5. QED  BY <2>2, <2>3, <2>4, Bounds DEF CountedAt
<1>6. QED  BY <1>3, <1>4, <1>5 DEF Inv, Counted, CountedAt

LEMMA NextInv == Inv /\ [Next]_vars => Inv'
<1> SUFFICES ASSUME Inv, [Next]_vars PROVE Inv'
  OBVIOUS
<1>1. Typed' /\ Chatting'  BY TypedNext
<1>2. ASSUME NEW u \in Updates, DialogueStep(u) PROVE Counted'
  <2>1. UNCHANGED <<limiter, past>>  BY <1>2, DialogueRest
           DEF DialogueStep, Start, Invite, Redeem, Keep, Register, Submit, Language, Save, ChooseRole,
               Share, CreateBatch, InviteFails, NothingElse
  <2>2. QED  BY <1>2, <2>1, DialogueNoneJoins, CountedStays
<1>3. ASSUME UNCHANGED vars PROVE Counted'
  <2>1. NoneJoins /\ UNCHANGED <<limiter, past>>  BY <1>3 DEF vars, NoneJoins
  <2>2. QED  BY <1>1, <2>1, CountedStays DEF Inv
<1>4. Counted'
  <2>1. CASE OtherStep  BY <2>1, OtherCounted
  <2>2. CASE \E u \in Updates : DialogueStep(u) \/ ReceiptStep(u)  BY <1>2, <2>2, ReceiptCounted
  <2>3. Next \/ UNCHANGED vars  OBVIOUS
  <2>4. QED  BY <1>3, <2>1, <2>2, <2>3, NextSteps
<1>5. QED  BY <1>1, <1>4 DEF Inv

\* The invariant the theorems below rest on: the identity an update acts by is one the
\* person had since it was sent, and each window of the limit accounts for its photos.
THEOREM Inductive == Spec => []Inv
<1>1. QED  BY InitInv, NextInv, PTL DEF Spec

\* handleUserShared creates Invites, and processPhotoMessage queues receipts, only for
\* somebody who was entitled to it since the message that asked for it was sent.
THEOREM EntitledActs == Spec => []ActsWithinRights
<1>1. Inv => ActsWithinRights
  <2> SUFFICES ASSUME Inv, NEW u \in Updates
               PROVE  /\ updates[u].pc = "batch" => \E row \in updates[u].seen : MayInvite(row, updates[u].arg)
                      /\ updates[u].pc = "enqueue" => \E row \in updates[u].seen : IsMember(row)
    BY DEF ActsWithinRights
  <2>1. CASE updates[u].pc \in {"batch", "enqueue"}
    <3>1. PICK row \in updates[u].seen : row.role = updates[u].who.role /\ row.status = updates[u].who.status
      BY <2>1, AtStage, Known
    <3>2. /\ updates[u].pc = "batch" => MayInvite(updates[u].who, updates[u].arg)
          /\ updates[u].pc = "enqueue" => IsMember(updates[u].who)
      BY <2>1, AtStage DEF Sound
    <3>3. QED  BY <3>1, <3>2 DEF MayInvite, IsMember
  <2>2. QED  BY <2>1
<1>2. QED  BY <1>1, Inductive, PTL

\* What a handler of the bot tells a person about their standing was so since they asked.
THEOREM TrueReplies == Spec => []TruthfulReplies
<1>1. Inv => TruthfulReplies
  <2> SUFFICES ASSUME Inv, NEW u \in Updates, updates[u].pc = "answer"
               PROVE  \E row \in updates[u].seen : Fits(updates[u].said, row, updates[u].arg)
    BY DEF TruthfulReplies
  <2>1. QED  BY Each DEF Inv, Sound
<1>2. QED  BY <1>1, Inductive, PTL

\* consume() lets no more photos pass in a window than its limit, and says so once,
\* however many updates are between INCR and the verdict.
THEOREM FairThrottle == Spec => []ThrottledFairly
<1>1. Inv => ThrottledFairly
  <2> SUFFICES ASSUME Inv, NEW w \in 0..MaxLapses PROVE past.granted[w] <= Limit /\ past.noticed[w] <= 1
    BY DEF ThrottledFairly
  <2>1. QED  BY AtWindow DEF CountedAt
<1>2. QED  BY <1>1, Inductive, PTL

\* "NX also repairs a missing TTL": a step that turns a photo away leaves a counter
\* that is gone or bound to expire.
THEOREM RefusalsExpire == Spec => RefusalsEnd
<1> DEFINE Step == \A u \in Updates :
             updates[u].pc = "expire" /\ ~Allowed(updates[u]) /\ updates'[u].pc \in {"idle", "answer"}
                => limiter'.count = 0 \/ limiter'.ttl
<1>1. Inv /\ [Next]_vars => Step
  <2> SUFFICES ASSUME Inv, [Next]_vars PROVE Step
    OBVIOUS
  <2>1. NoneRefused => Step  BY DEF NoneRefused
  <2>2. CASE OtherStep  BY <2>1, <2>2, OtherRefusesNone
  <2>3. ASSUME NEW u \in Updates, DialogueStep(u) PROVE Step
    <3>1. Chatting /\ Moves(u) /\ updates[u].pc # "expire"  BY <2>3, DialogueMoves DEF Inv
    <3>2. QED  BY <2>1, <3>1, MoveRefusesNone
  <2>4. ASSUME NEW u \in Updates, ReceiptStep(u) PROVE Step
    <3>1. CASE Verdict(u)  BY <3>1, VerdictRefuses
    <3>2. CASE ~Verdict(u)  BY <2>1, <2>4, <3>2, ReceiptRefusesNone
    <3>3. QED  BY <3>1, <3>2
  <2>5. CASE UNCHANGED vars  BY <2>5 DEF vars
  <2>6. Next \/ UNCHANGED vars  OBVIOUS
  <2>7. QED  BY <2>2, <2>3, <2>4, <2>5, <2>6, NextSteps
<1>2. QED  BY <1>1, Inductive, PTL DEF Spec, RefusalsEnd

\* Of the photos queued each is told to the sender once, or is about to be, or was lost
\* with a reply that failed or a restart: sendMediaGroupAck counts none twice and
\* forgets none, whatever comes between the photos of an album and its timer.
THEOREM CountedOnce == Spec => []AcknowledgedOnce
<1>1. Booked => AcknowledgedOnce  BY DEF Booked
<1>2. QED  BY <1>1, Inductive, InitBooked, NextBooked, PTL DEF Spec

\* Every variable of the chat stays within its type, the numbers of photos included.
THEOREM TypeCorrect == Spec => []TypeOK
<1>1. Inv /\ Booked => TypeOK
  <2> SUFFICES ASSUME Inv, Booked PROVE TypeOK
    OBVIOUS
  <2>1. past \in [queued: Nat, told: Nat, lost: Nat, granted: [0..MaxLapses -> Nat],
                  noticed: [0..MaxLapses -> Nat]]
    <3>1. PICK lost : past \in Histories(lost)  BY DEF Inv, Typed
    <3>2. past.lost \in Nat  BY DEF Booked
    <3>3. QED  BY <3>1, <3>2 DEF Histories
  <2>2. QED  BY <2>1 DEF Inv, Typed, Chatting, TypeOK
<1>2. QED  BY <1>1, Inductive, InitBooked, NextBooked, PTL DEF Spec

=============================================================================
