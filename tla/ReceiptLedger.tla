--------------------------- MODULE ReceiptLedger ---------------------------
(***************************************************************************)
(* What the receipt pipeline promises, without its queue, slots, retries,   *)
(* stages and crashes: an acknowledged Receipt is done only when a          *)
(* Transaction was recorded for it, nothing is recorded that nobody sent,   *)
(* and each photo has at most one Transaction in each Business.             *)
(***************************************************************************)
CONSTANTS
    Receipts,       \* acknowledged photos, resent ones included
    Businesses,
    Photos,
    Unassigned      \* the Business of a Receipt that does not say which it is for

VARIABLES
    receipt,        \* where each Receipt stands
    ledger,         \* the Transaction of each Business and photo
    recorded        \* what has ever been recorded
lvars == <<receipt, ledger, recorded>>

LedgerKeys == Businesses \X Photos
Statuses == {"recorded", "needs_review"}
Unsent == [state |-> "unsent"]
Accepted(b, p) == [state |-> "accepted", biz |-> b, photo |-> p]
Progress(b, p) == {[state |-> s, biz |-> b, photo |-> p] : s \in {"accepted", "done", "lost"}}

Init ==
    /\ receipt \in [Receipts -> {Unsent} \cup {Accepted(Unassigned, p) : p \in Photos}]
    /\ ledger = [k \in LedgerKeys |-> "absent"]
    /\ recorded = {}

Accept(r, b, p) ==
    /\ receipt[r] = Unsent
    /\ receipt' = [receipt EXCEPT ![r] = Accepted(b, p)]
    /\ UNCHANGED <<ledger, recorded>>

\* A Transaction is recorded, or repaired, for a Receipt of that photo.
Record(k) ==
    /\ \E r \in Receipts : receipt[r] \in Progress(k[1], k[2]) \cup Progress(Unassigned, k[2])
    /\ \E status \in Statuses : ledger' = [ledger EXCEPT ![k] = status]
    /\ recorded' = recorded \cup {k}
    /\ UNCHANGED receipt

Settle(r, b, p, state) ==
    /\ receipt[r] = Accepted(b, p)
    /\ receipt' = [receipt EXCEPT ![r] = [state |-> state, biz |-> b, photo |-> p]]
    /\ UNCHANGED <<ledger, recorded>>

\* A Receipt is done once it was recorded; one that never said for which Business
\* may be done without, its sender being in none.
Done(r, b, p) == b # Unassigned => <<b, p>> \in recorded
Complete(r, b, p) == Done(r, b, p) /\ Settle(r, b, p, "done")

\* Every attempt failed.
Lose(r, b, p) == Settle(r, b, p, "lost")

Remove(k) ==
    /\ ledger[k] # "absent"
    /\ ledger' = [ledger EXCEPT ![k] = "absent"]
    /\ UNCHANGED <<receipt, recorded>>

Next ==
    \/ \E r \in Receipts, b \in Businesses, p \in Photos : Accept(r, b, p)
    \/ \E r \in Receipts, b \in Businesses \cup {Unassigned}, p \in Photos :
         Complete(r, b, p) \/ Lose(r, b, p)
    \/ \E k \in LedgerKeys : Record(k) \/ Remove(k)

Spec == Init /\ [][Next]_lvars
=============================================================================
