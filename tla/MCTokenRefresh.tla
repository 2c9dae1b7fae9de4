--------------------------- MODULE MCTokenRefresh ---------------------------
(* Instances of TokenRefresh for TLC. *)
EXTENDS TokenRefresh, TLC

CONSTANTS r1, r2, q1, q2, q3

Symmetry == Permutations(Replicas) \cup Permutations(Requests)
=============================================================================
