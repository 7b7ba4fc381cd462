------------------------- MODULE ReceiptRefinement -------------------------
(***************************************************************************)
(* ReceiptPipeline implements ReceiptLedger: a job on the queue is an       *)
(* accepted Receipt, its last state the fate of the Receipt, and the        *)
(* transactions table, without its contents, the ledger.                    *)
(***************************************************************************)
EXTENDS ReceiptPipeline

Fate(state) ==
    CASE state \in {"waiting", "active"} -> "accepted"
      [] state = "completed" -> "done"
      [] OTHER -> "lost"

\* What a job says of its Receipt; one whose handler has not acknowledged it says nothing.
ReceiptOf(job) ==
    IF job.state \in {"unused", "resolved"} THEN [state |-> "unsent"]
    ELSE [state |-> Fate(job.state), biz |-> job.biz, photo |-> job.photo]
Standing == [j \in Jobs |-> ReceiptOf(jobs[j])]

LedgerEntry(row) == IF row = None THEN "absent" ELSE row.status
Entries == [k \in Keys |-> LedgerEntry(rows[k])]

Stored == past.stored

Ledger == INSTANCE ReceiptLedger WITH
    Receipts <- Jobs, Unassigned <- None,
    receipt <- Standing, ledger <- Entries, recorded <- Stored

\* With all its slots, retries, stalls, crashes, repairs and deletions the pipeline
\* does nothing but what the ledger allows: accept, record for a Receipt that was
\* sent, settle a Receipt once and as done only when it was recorded, and remove.
ImplementsLedger == Ledger!Spec
============================================================================
