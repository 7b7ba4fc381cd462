--------------------------- MODULE MCMembership ---------------------------
(* Instances of Membership for TLC. *)
EXTENDS Membership, TLC

CONSTANTS o, m, w, x, b1, b2

Row(b, role) == [biz |-> b, role |-> role, active |-> TRUE]

\* One Business with its owner, a manager and a waiter; x is a stranger.
Team == [a \in Accounts |-> CASE a = o -> Row(b1, "owner") [] a = m -> Row(b1, "manager")
                              [] a = w -> Row(b1, "waiter") [] OTHER -> None]
Symmetry == Permutations(Requests) \cup Permutations(Invites)
============================================================================
