----------------------------- MODULE MCTunnels -----------------------------
(* Instances of Tunnels for TLC. *)
EXTENDS Tunnels, TLC

CONSTANTS d1, d2, k1, k2, u1

\* The devices of one user, and of a user who has one.
OneUser == (d1 :> u1) @@ (d2 :> u1)
OneDevice == d1 :> u1

Symmetry == Permutations(Devices) \cup Permutations(Keys)
=============================================================================
