-------------------------- MODULE MCDeviceIdentity --------------------------
(* Instances of DeviceIdentity for TLC. *)
EXTENDS DeviceIdentity, TLC

CONSTANTS d1, d2, app, e1, e2, p1, p2

Symmetry ==
  Permutations(Tasks) \cup Permutations(Asks) \cup Permutations({d1, d2})
=============================================================================
