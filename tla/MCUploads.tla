----------------------------- MODULE MCUploads -----------------------------
(* Instances of Uploads for TLC. *)
EXTENDS Uploads, TLC

CONSTANTS r1, r2, s1, s2, f1, f2, c1, c2, p1, p2

\* Every session has a generated file ID of its own.
OwnFile == (s1 :> f1) @@ (s2 :> f2)
OnlyFile == s1 :> f1

\* A client uploads twice under the same file ID.
SameFile == (s1 :> f1) @@ (s2 :> f1)

ReplicaSymmetry == Permutations(Replicas)
TaskSymmetry == Permutations(Tasks)
ChunkSymmetry == Permutations(Chunks)
Symmetry == ReplicaSymmetry \cup TaskSymmetry \cup ChunkSymmetry
=============================================================================
