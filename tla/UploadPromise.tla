--------------------------- MODULE UploadPromise ---------------------------
(***************************************************************************)
(* What Sendly promises of an upload, without replicas, leases, chunks or  *)
(* clean-up: docs/ARCHITECTURE.md, "Upload flow". An upload is opened,     *)
(* sealed by complete, ready once its blob is whole, and shared by         *)
(* finalize. Until it is shared it may be closed (cancelled or expired);   *)
(* once shared it stays shared. An upload that is closed while a finalize  *)
(* is under way is contested: the finalize may still create the file, and  *)
(* of such a torn upload nothing is promised.                              *)
(***************************************************************************)
CONSTANTS Sessions

VARIABLE phase

Phases == {"new", "open", "sealed", "failed", "ready", "shared", "closed",
           "contested", "torn"}

PromiseInit == phase = [s \in Sessions |-> "new"]

Move(s, from, to) == phase[s] \in from /\ phase' = [phase EXCEPT ![s] = to]

Open(s) == Move(s, {"new"}, "open")
Seal(s) == Move(s, {"open", "failed"}, "sealed")
Ready(s) == Move(s, {"sealed"}, "ready")
Fail(s) == Move(s, {"sealed"}, "failed")
Share(s) == Move(s, {"ready"}, "shared")
Close(s) == Move(s, {"open", "sealed", "failed", "ready", "contested"}, "closed")
Contest(s) == Move(s, {"ready"}, "contested")
Tear(s) == Move(s, {"contested"}, "torn")

PromiseNext ==
  \E s \in Sessions :
    Open(s) \/ Seal(s) \/ Ready(s) \/ Fail(s) \/ Share(s) \/ Close(s)
      \/ Contest(s) \/ Tear(s)

PromiseSteps == PromiseInit /\ [][PromiseNext]_phase

\* A sealed upload is worked on until it is ready, has failed or is closed.
Settle(s) == Ready(s) \/ Fail(s) \/ (phase[s] = "sealed" /\ Close(s))

Promise == PromiseSteps /\ \A s \in Sessions : WF_phase(Settle(s))
=============================================================================
