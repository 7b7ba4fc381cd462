------------------------------ MODULE MCReports ------------------------------
(* Instances of Reports for TLC. *)
EXTENDS Reports, TLC

CONSTANTS b1, b2, u1, k1

Receipt(b, bank, at, dup) ==
    [biz |-> b, user |-> u1, bank |-> bank, at |-> at, dup |-> dup, edited |-> FALSE,
     status |-> IF bank = None \/ at = None THEN "needs_review" ELSE "recorded"]

\* Complete ones of two days, of which one is a duplicate of the last second of its day,
\* and one without a bank, all of one tenant: to a member of the other there is nothing. None
\* is edited, as nothing sets editedByUploader.
MCReceipts == {Receipt(b1, k1, LastPart(1), TRUE), Receipt(b1, k1, MainPart(2), FALSE),
               Receipt(b1, None, MainPart(1), FALSE)}

\* This week or month, and dates picked by hand.
MCRanges == {[from |-> 1, to |-> None], [from |-> 1, to |-> 1]}

\* A manager, who may become a waiter elsewhere.
MCMemberships == {[biz |-> b1, role |-> "manager"], [biz |-> b2, role |-> "waiter"]}
=============================================================================
