---------------------------- MODULE TelegramBot ----------------------------
(* The bot: its dialogue and its receipts in one chat, with restarts. *)
EXTENDS BotReceipts, FiniteSets

Counting == {g \in Albums : albums[g] # None /\ albums[g].timer}
WaitingPhotos == UNION {{g} \X (1..albums[g].count) : g \in Counting}
Waiting == Cardinality(WaitingPhotos)
Acknowledging == {u \in Updates : \/ updates[u].pc = "ack"
                                  \/ updates[u].pc = "answer" /\ updates[u].said = "received"}

\* The process restarts: sessions and album timers are gone, and Telegram
\* delivers again what has not been answered.
Restart ==
    /\ Spend("troubles", MaxTroubles)
    /\ session' = NoSession
    /\ albums' = [g \in Albums |-> None]
    /\ updates' = [u \in Updates |-> IF updates[u] = Idle THEN Idle ELSE Redelivered(updates[u])]
    /\ past' = [past EXCEPT !.lost = @ + Waiting + Cardinality(Acknowledging)]
    /\ UNCHANGED <<person, offer, limiter>>

Next ==
    \/ \E u \in Updates, k \in Kinds : Arrive(u, k[1], k[2])
    \/ \E u \in Updates : Identify(u) \/ Answer(u) \/ AnswerFails(u)
    \/ \E u \in Updates : DialogueStep(u) \/ ReceiptStep(u)
    \/ \E g \in Albums : AlbumTimer(g)
    \/ RowChanges \/ MiniAppLanguage \/ Invited \/ WindowEnds \/ Restart

Spec == Init /\ [][Next]_vars

-----------------------------------------------------------------------------
(* Properties *)

TypeOK ==
    /\ person \in Person
    /\ offer \in {"waiter", "manager", None}
    /\ session \in Session
    /\ updates \in [Updates -> Update]
    /\ albums \in [Albums -> [count: Nat \ {0}, timer: BOOLEAN] \cup {None}]
    /\ limiter \in [count: Nat, ttl: BOOLEAN, window: 0..MaxLapses]
    /\ past \in [queued: Nat, told: Nat, lost: Nat, granted: [0..MaxLapses -> Nat],
                 noticed: [0..MaxLapses -> Nat]]
    /\ spent \in [updates: 0..MaxUpdates, changes: 0..MaxChanges,
                  troubles: 0..MaxTroubles]

\* Whatever was picked, promoted, revoked or restarted since the dialogue began,
\* Invites go out and receipts are queued only for someone who was entitled to
\* that at some time after the very message that asked for it was sent.
ActsWithinRights ==
    \A u \in Updates :
        /\ updates[u].pc = "batch" =>
             \E row \in updates[u].seen : MayInvite(row, updates[u].arg)
        /\ updates[u].pc = "enqueue" => \E row \in updates[u].seen : IsMember(row)

\* What each reply says about a person's standing.
Fits(said, row, arg) ==
    CASE said \in Closed -> row.status = said
      [] said \in {"greeting", "already", "submitReceipt", "throttled", "received"} -> IsMember(row)
      [] said \in {"register", "unknown"} -> row.role = "none"
      [] said = "redeemed" -> row.role # "none"
      [] said = "onlyManagers" -> InvitableRoles(row.role) = {}
      [] said = "chooseRole" -> IsMember(row) /\ InvitableRoles(row.role) # {}
      [] said \in {"pick", "invited"} -> MayInvite(row, arg)
      [] said = "refused" -> ~MayInvite(row, arg)
      [] OTHER -> TRUE

\* Nobody is told something about their Business, role or registration that was not
\* so at some time since they asked, whichever handler answers.
TruthfulReplies ==
    \A u \in Updates : updates[u].pc = "answer" =>
        \E row \in updates[u].seen : Fits(updates[u].said, row, updates[u].arg)

\* Every queued photo is counted in exactly one acknowledgement, or is about to
\* be, or was in memory when the process stopped: photos of an album that come
\* before, with or after the firing of its timer are never counted twice or lost.
AcknowledgedOnce ==
    past.queued = past.told + past.lost + Waiting + Cardinality(Acknowledging)

\* In one window no more photos pass than the limit allows, calls failing open
\* aside, and the person is told to slow down at most once.
ThrottledFairly ==
    \A w \in 0..MaxLapses : past.granted[w] <= Limit /\ past.noticed[w] <= 1

\* "NX also repairs a missing TTL if a previous EXPIRE was lost": whoever is refused
\* will be let in again, for the counter they met is bound to expire.
RefusalsEnd ==
    [][\A u \in Updates :
         updates[u].pc = "expire" /\ ~Allowed(updates[u]) /\ updates'[u].pc \in {"idle", "answer"}
            => limiter'.count = 0 \/ limiter'.ttl]_vars

-----------------------------------------------------------------------------
(* What the documents say and the code does not keep. *)

\* CONTEXT.md: the language preference is the one "for Birr Track bot and Mini App
\* text".
AnsweredInPreference ==
    \A u \in Updates : updates[u].pc = "answer" /\ updates[u].who.role # "none" =>
        \E row \in updates[u].seen : row.lang = updates[u].lang
=============================================================================
