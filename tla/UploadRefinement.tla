-------------------------- MODULE UploadRefinement --------------------------
(***************************************************************************)
(* Uploads implements UploadPromise. The phase of an upload is what a      *)
(* client can rely on: it is ready or shared only while its own blob is on *)
(* disk, and a file that was created after its session was removed is      *)
(* torn. "lost" is no phase of the promise; it would be an upload that     *)
(* claims to be ready or shared without its blob.                          *)
(***************************************************************************)
EXTENDS Uploads

Phase(s) ==
  LET whole == blob[FileOf[s]] = s IN
  IF files[FileOf[s]] = s
    THEN CASE FileOf[s] \in late -> "torn"
           [] OTHER -> IF whole THEN "shared" ELSE "lost"
    ELSE CASE state[s] = "none"        -> "new"
           [] state[s] = "uploading"   -> "open"
           [] state[s] = "assembling"  -> "sealed"
           [] state[s] = "failed"      -> "failed"
           [] state[s] = "assembled"   -> IF whole THEN "ready" ELSE "lost"
           [] state[s] = "finalized"   -> "closed"
           [] state[s] = "gone" -> IF Finalizing(s) THEN "contested" ELSE "closed"

phase == [s \in Sessions |-> Phase(s)]

P == INSTANCE UploadPromise WITH Sessions <- Sessions, phase <- phase

\* Every behaviour of the replicas is one the promise allows, and every sealed
\* upload is brought to an end in spite of crashes and lost leases.
KeepsPromise == P!Promise
----------------------------------------------------------------------------
(* What the refinement rests on besides Inv and FileInv.                   *)

\* The chunk directory of a new session is made before its client knows of it.
MkdirAlone ==
  \A p \in Tasks : task[p].at = "mkdir" =>
    /\ state[task[p].sid] \in {"uploading", "gone"}
    /\ \A q \in Tasks \ {p} : task[q].sid = task[p].sid
         => task[q].at \in {"chunks", "lookup", "unlink"}
=============================================================================
