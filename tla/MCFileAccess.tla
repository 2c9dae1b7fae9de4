---------------------------- MODULE MCFileAccess ----------------------------
(* Instances of FileAccess for TLC. *)
EXTENDS FileAccess, TLC

CONSTANTS owner, alice, bob, guest, p1, p2

Symmetry == Permutations(Tasks)
=============================================================================
