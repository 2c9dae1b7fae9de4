---------------------------- MODULE MCUserCache ----------------------------
(* Instances of UserCache for TLC. *)
EXTENDS UserCache, TLC

CONSTANTS a, b, x, y, z, p1

MCFirstName == a :> x @@ b :> y
=============================================================================
