------------------------ MODULE MCUploadRefinement ------------------------
(* Instance of UploadRefinement for TLC: one upload on two replicas. *)
EXTENDS UploadRefinement, TLC

CONSTANTS r1, r2, s1, f1, c1, p1, p2, p3

OnlyFile == s1 :> f1
=============================================================================
