------------------------ MODULE MCAdminPanelSession ------------------------
(* Instances of AdminPanelSession for TLC. *)
EXTENDS AdminPanelSession, TLC

Symmetry == Permutations(Calls) \cup Permutations(Sessions) \cup Permutations(Memberships)
============================================================================
