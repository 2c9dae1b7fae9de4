---------------------------- MODULE MCRateLimit ----------------------------
(* Instances of RateLimit for TLC. *)
EXTENDS RateLimit, TLC

CONSTANTS q1, q2, q3, q4, q5

Symmetry == Permutations(Requests)
=============================================================================
