--------------------------- MODULE MCTransactions ---------------------------
(* Instances of Transactions for TLC: people of two Businesses. *)
EXTENDS Transactions, TLC

CONSTANTS b1, b2, x

Of(b, role) == [biz |-> b, role |-> role]
MCMemberships == {Of(b1, "manager"), Of(b2, "waiter")}

\* A receipt is unreadable or read in full.
MCReadings == {Blank, [f \in Fields |-> x]}

Symmetry == Permutations(Users)
=============================================================================
