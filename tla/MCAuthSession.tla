---------------------------- MODULE MCAuthSession ----------------------------
(* Instances of AuthSession for TLC. *)
EXTENDS AuthSession

CONSTANTS r1

\* What r1 asks for is for those only who have not been demoted.
MCRefused == {<<r1, 1>>}
=============================================================================
