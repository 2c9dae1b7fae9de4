----------------------------- MODULE MCRealtime -----------------------------
(* Instances of Realtime for TLC. *)
EXTENDS Realtime, TLC

CONSTANTS r1, r2, p1, w1, t1, t2

MCChanges == "sent" :> 2 @@ "enrollment" :> 1
=============================================================================
