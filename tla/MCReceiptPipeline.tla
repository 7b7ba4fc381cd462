------------------------- MODULE MCReceiptPipeline -------------------------
(* Instances of ReceiptPipeline for TLC: two photos that may show one payment. *)
EXTENDS ReceiptRefinement, TLC

\* Every photo may be read as any payment: two photos of one receipt, or a misreading.
MCReadable == [p \in Photos |-> Payments]

\* Nothing distinguishes two slots, accounts, tenants, photos or payments; nor two
\* jobs, unless some of them are legacy jobs.
Symmetry == Permutations(Workers) \cup Permutations(Photos) \cup Permutations(Users)
              \cup Permutations(Businesses) \cup Permutations(Payments)
SymmetryWithJobs == Symmetry \cup Permutations(Jobs)
============================================================================
