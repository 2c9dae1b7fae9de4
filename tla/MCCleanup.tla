----------------------------- MODULE MCCleanup -----------------------------
(* Instances of Cleanup for TLC. *)
EXTENDS Cleanup, TLC

CONSTANTS r1, s1, s2, f1, f2, c1, p1, p2, w1, w2

OwnFile == (s1 :> f1) @@ (s2 :> f2)
OnlyFile == s1 :> f1

\* A bound: only one of the two tasks works beside a sweep, the other one
\* between sweeps. (A finalize may thus be under way for as long as it likes
\* while its session is removed and then swept.)
OneTaskPerSweep ==
  task[p2] # Idle => \A w \in Sweepers : Sweeping(w, "idle")
=============================================================================
