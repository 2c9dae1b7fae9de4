------------------------------ MODULE Cleanup ------------------------------
(***************************************************************************)
(* The cleanup job beside the uploads: expired and reported files, their   *)
(* blobs, the retention purge of their rows, and the sweeps for chunk      *)
(* directories and blobs that nothing refers to.                           *)
(*                                                                         *)
(* A sweeper is one run of performCleanup, or of the admin tool's delete.  *)
(* RunJob starts one run at a time, but a run goes on when the connection  *)
(* that holds its lock is lost, so sweepers may overlap. A sweeper does    *)
(* one query, one directory listing or one removal per step.               *)
(*                                                                         *)
(* The walk over the chunk directories is assumed to end within the 15     *)
(* minutes (orphanMinAge) in which a directory that was touched is spared. *)
(* CleanupStaleAssemblies only removes temporary files that the model of   *)
(* an assembly does not name, and is left out.                             *)
(***************************************************************************)
EXTENDS Uploads

CONSTANTS
  Sweepers       \* runs of cleanup that may overlap

VARIABLES
  deleted,       \* files.is_deleted
  sweep,         \* where each sweeper is, what it has read, what it has to do
  fast           \* history: sessions that were made and had their blob in place
                 \* between the two reads of a sweep

cleanupVars == <<deleted, sweep, fast>>
allVars == <<vars, cleanupVars>>

SweepSteps == {"idle", "deleted", "unlinkdeleted", "chunkrefs", "chunks",
               "purge", "filerefs", "listblobs", "lookup", "unlink"}

\* refs are the sessions or file IDs a sweep leaves alone; fresh are the sessions
\* whose chunk directory was touched, or that were made, since refs were read;
\* todo are the file IDs it still has to look at.
NotSweeping == [at |-> "idle", refs |-> {}, fresh |-> {}, todo |-> {}]
SweepRecords == [at: SweepSteps, refs: SUBSET (Sessions \cup Files),
                 fresh: SUBSET Sessions, todo: SUBSET Files]

CleanupTypeOK ==
  /\ TypeOK
  /\ deleted \in [Files -> BOOLEAN]
  /\ sweep \in [Sweepers -> SweepRecords]
  /\ fast \subseteq Sessions

CleanupInit ==
  /\ Init
  /\ deleted = [f \in Files |-> FALSE]
  /\ sweep = [w \in Sweepers |-> NotSweeping]
  /\ fast = {}

----------------------------------------------------------------------------
(* Helpers *)

Sweeping(w, step) == sweep[w].at = step
SweepOn(w, step) == sweep' = [sweep EXCEPT ![w].at = step]
SweepFor(w, step, refs, todo) ==
  sweep' = [sweep EXCEPT ![w] = [at |-> step, refs |-> refs, fresh |-> {},
                                 todo |-> todo]]
Stored == {f \in Files : blob[f] # None}
Unlink(f) == blob' = [blob EXCEPT ![f] = None]

\* The sessions whose chunk directory this step makes or writes to.
Touched == {s \in Sessions : \E p \in Tasks :
              task[p] # task'[p] /\ task[p].sid = s /\ task[p].at \in {"mkdir", "save"}}

\* The sessions this step makes.
Made == {s \in Sessions : state[s] = "none" /\ state'[s] # "none"}

\* Uploads as before. Sweeps under way do not know what is fresh.
UploadStep ==
  /\ Next
  /\ sweep' = [w \in Sweepers |->
       CASE Sweeping(w, "chunks") -> [sweep[w] EXCEPT !.fresh = @ \cup Touched]
         [] Sweeping(w, "listblobs") -> [sweep[w] EXCEPT !.fresh = @ \cup Made]
         [] OTHER -> sweep[w]]
  /\ UNCHANGED <<deleted, fast>>

----------------------------------------------------------------------------
(* Files are deleted *)

\* A file reported often enough is deleted; its blob stays for the cleanup.
MarkFileDeleted(f) ==
  /\ files[f] # None /\ ~deleted[f]
  /\ deleted' = [deleted EXCEPT ![f] = TRUE]
  /\ UNCHANGED <<vars, sweep, fast>>

\* The admin tool marks the file and removes its blob.
AdminDelete(w, f) ==
  /\ Sweeping(w, "idle")
  /\ files[f] # None
  /\ deleted' = [deleted EXCEPT ![f] = TRUE]
  /\ SweepFor(w, "unlinkdeleted", {}, {f})
  /\ UNCHANGED <<vars, fast>>

----------------------------------------------------------------------------
(* performCleanup *)

\* Any files may have expired by now.
DeleteExpiredFiles(w) ==
  /\ Sweeping(w, "idle")
  /\ \E expiring \in SUBSET {f \in Files : files[f] # None} :
       deleted' = [f \in Files |-> deleted[f] \/ f \in expiring]
  /\ SweepOn(w, "deleted")
  /\ UNCHANGED <<vars, fast>>

GetDeletedFiles(w) ==
  /\ Sweeping(w, "deleted")
  /\ SweepFor(w, "unlinkdeleted", {}, {f \in Stored : deleted[f]})
  /\ UNCHANGED <<vars, deleted, fast>>

UnlinkDeleted(w) ==
  /\ Sweeping(w, "unlinkdeleted")
  /\ \/ \E f \in sweep[w].todo :
          /\ Unlink(f)
          /\ sweep' = [sweep EXCEPT ![w].todo = @ \ {f}]
     \/ /\ sweep[w].todo = {}
        /\ SweepOn(w, "chunkrefs")
        /\ UNCHANGED blob
  /\ UNCHANGED <<row, chunks, files, late, worker, task, faults, deleted, fast>>

ChunkRefs(w) ==
  /\ Sweeping(w, "chunkrefs")
  /\ SweepFor(w, "chunks", {s \in Sessions : Exists(s)}, {})
  /\ UNCHANGED <<vars, deleted, fast>>

\* The directories of unknown sessions that nobody touched for a while.
CleanupOrphanedChunks(w) ==
  /\ Sweeping(w, "chunks")
  /\ LET orphans == {s \in Sessions : chunks[s] # {}}
                      \ (sweep[w].refs \cup sweep[w].fresh)
     IN  \/ \E s \in orphans :
              /\ chunks' = [chunks EXCEPT ![s] = {}]
              /\ UNCHANGED sweep
         \/ /\ orphans = {}
            /\ SweepFor(w, "purge", {}, {})
            /\ UNCHANGED chunks
  /\ UNCHANGED <<row, blob, files, late, worker, task, faults, deleted, fast>>

\* Rows of deleted files go once they are past their retention, which is longer
\* than a session lives.
PurgeDeletedFiles(w) ==
  /\ Sweeping(w, "purge")
  /\ \E old \in SUBSET {f \in Files : deleted[f]
                          /\ \A s \in Sessions : FileOf[s] = f => ~Exists(s)} :
       /\ files' = [f \in Files |-> IF f \in old THEN None ELSE files[f]]
       /\ deleted' = [f \in Files |-> deleted[f] /\ f \notin old]
  /\ SweepOn(w, "filerefs")
  /\ UNCHANGED <<row, disk, worker, task, faults, late, fast>>

\* Mutant: only sessions that are still being uploaded are read.
FileRefsUploading(w) ==
  /\ Sweeping(w, "filerefs")
  /\ SweepFor(w, "listblobs",
              {FileOf[s] : s \in {t \in Sessions : state[t] = "uploading"}}, {})
  /\ UNCHANGED <<vars, deleted, fast>>

\* Mutant: sessions that are gone count as references.
FileRefsGone(w) ==
  /\ Sweeping(w, "filerefs")
  /\ SweepFor(w, "listblobs", {FileOf[s] : s \in Sessions}, {})
  /\ UNCHANGED <<vars, deleted, fast>>

FileRefs(w) ==
  /\ Sweeping(w, "filerefs")
  /\ SweepFor(w, "listblobs",
              {FileOf[s] : s \in {t \in Sessions : Exists(t)}}, {})
  /\ UNCHANGED <<vars, deleted, fast>>

\* Blobs without a session in the list may be orphans.
GetAllFileIDs(w) ==
  /\ Sweeping(w, "listblobs")
  /\ LET todo == Stored \ sweep[w].refs IN
       /\ SweepFor(w, "lookup", {}, todo)
       /\ fast' = fast \cup {s \in sweep[w].fresh : FileOf[s] \in todo}
  /\ UNCHANGED <<vars, deleted>>

\* Mutant: a blob without a session is an orphan, whether or not it has a file.
LookUpNothing(w) ==
  /\ Sweeping(w, "lookup")
  /\ \/ \E f \in sweep[w].todo :
          SweepFor(w, "unlink", {f}, sweep[w].todo)
     \/ /\ sweep[w].todo = {}
        /\ sweep' = [sweep EXCEPT ![w] = NotSweeping]
  /\ UNCHANGED <<vars, deleted, fast>>

\* The row of the next blob is looked for, until no blob is left.
LookUpFile(w) ==
  /\ Sweeping(w, "lookup")
  /\ \/ \E f \in sweep[w].todo :
          IF files[f] = None
            THEN SweepFor(w, "unlink", {f}, sweep[w].todo)
            ELSE sweep' = [sweep EXCEPT ![w].todo = @ \ {f}]
     \/ /\ sweep[w].todo = {}
        /\ sweep' = [sweep EXCEPT ![w] = NotSweeping]
  /\ UNCHANGED <<vars, deleted, fast>>

\* refs holds the one file ID that has been looked up.
UnlinkOrphan(w) ==
  /\ Sweeping(w, "unlink")
  /\ \E f \in sweep[w].refs :
       /\ Unlink(f)
       /\ SweepFor(w, "lookup", {}, sweep[w].todo \ {f})
  /\ UNCHANGED <<row, chunks, files, late, worker, task, faults, deleted, fast>>

\* A sweep ends early: its replica dies or its four minutes are over.
SweepStops(w) ==
  /\ ~Sweeping(w, "idle")
  /\ faults < MaxFaults /\ faults' = faults + 1
  /\ sweep' = [sweep EXCEPT ![w] = NotSweeping]
  /\ UNCHANGED <<row, disk, files, late, worker, task, deleted, fast>>

----------------------------------------------------------------------------

SweepStep(w) ==
  \/ DeleteExpiredFiles(w)
  \/ GetDeletedFiles(w)
  \/ UnlinkDeleted(w)
  \/ ChunkRefs(w)
  \/ CleanupOrphanedChunks(w)
  \/ PurgeDeletedFiles(w)
  \/ FileRefs(w)
  \/ GetAllFileIDs(w)
  \/ LookUpFile(w)
  \/ UnlinkOrphan(w)

CleanupNext ==
  \/ UploadStep
  \/ \E f \in Files : MarkFileDeleted(f)
  \/ \E w \in Sweepers : SweepStep(w) \/ SweepStops(w)
  \/ \E w \in Sweepers, f \in Files : AdminDelete(w, f)

CleanupSpec == CleanupInit /\ [][CleanupNext]_allVars

\* Some replica runs the cleanup every five minutes.
FairCleanupSpec ==
  /\ CleanupSpec
  /\ \A w \in Sweepers : WF_allVars(SweepStep(w))

----------------------------------------------------------------------------
(* Properties *)

\* A file that has not been deleted can be downloaded, whatever the sweeps, the
\* purge and the removal of its upload session do meanwhile. The exceptions are a
\* file that was created after its session was removed, and one of an upload that
\* a sweep took for an orphan since it was made between its two reads.
LiveFileHasBlob ==
  \A f \in Files \ late :
    files[f] # None /\ files[f] \notin fast /\ ~deleted[f] => blob[f] = files[f]

\* What is left of "a blob assembled in between still has its session in the
\* list": no sweep deletes the blob of an upload that waits for its finalize,
\* unless its session was made in between, too.
SweepSparesAssembled ==
  \A f \in Files, s \in Sessions \ fast :
    FileOf[s] = f /\ state[s] = "assembled" /\ files[f] = None => blob[f] = s

\* The comment without the exception, which the code does not keep. No run
\* checks it.
SweepSparesEvery ==
  \A f \in Files, s \in Sessions :
    FileOf[s] = f /\ state[s] = "assembled" /\ files[f] = None => blob[f] = s

\* Nor the chunks of an upload that is still to be assembled, although it walks
\* the directories after sessions were made that it has not read.
SweepsSpareUploads == SweepSparesAssembled /\ ChunksKept

\* What nobody refers to any more.
Reclaimable(f) ==
  /\ blob[f] # None
  /\ IF files[f] # None
       THEN deleted[f]
       ELSE \A s \in Sessions : FileOf[s] = f => ~Exists(s)

\* Blobs of deleted files and of sessions whose removal was cut short do not
\* stay on the volume, and neither do the chunks of such sessions.
StorageReclaimed ==
  /\ \A f \in Files : Reclaimable(f) ~> ~Reclaimable(f)
  /\ \A s \in Sessions :
       state[s] = "gone" /\ chunks[s] # {} ~> chunks[s] = {}

----------------------------------------------------------------------------
(* What the properties rest on besides SessionInv: the parts of an          *)
(* inductive invariant.                                                     *)

\* As long as there is no file, nobody takes away the blob of a worker that has
\* renamed it into place.
BlobsInUse ==
  \A r \in Replicas, s \in Sessions \ fast :
    worker[r][s] = "finish" /\ state[s] # "gone" /\ files[FileOf[s]] = None
      => blob[FileOf[s]] = s

\* Nobody will create a file with this ID any more, but a finalize that is under
\* way.
AllGone(f) == \A s \in Sessions : FileOf[s] = f => state[s] = "gone"

\* Its upload was taken for an orphan.
Fast(f) == \E s \in fast : FileOf[s] = f

\* Blobs and files come from a session with their ID that was open once, only
\* files are deleted, and late ones have lost their session.
OnceOpened ==
  \A f \in Files :
    /\ \A s \in {blob[f], files[f]} \ {None} :
         FileOf[s] = f /\ state[s] # "none"
    /\ deleted[f] => files[f] # None
    /\ f \in late => AllGone(f)

\* The chunks of this session can go.
Unneeded(s) == state[s] = "gone" \/ (recorded[s] = {} /\ ~Busy(s, {"record"}))

\* Nobody has a file here that a sweep promises to spare.
Unshared(f) == (files[f] = None /\ AllGone(f)) \/ f \in late \/ Fast(f)

\* What a sweep is still to remove is none of what the uploads need.
SweepKnows(w) ==
  /\ Sweeping(w, "unlinkdeleted") =>
       \A f \in sweep[w].todo : deleted[f] \/ Unshared(f)
  /\ Sweeping(w, "chunks") =>
       \A s \in Sessions \ (sweep[w].refs \cup sweep[w].fresh) : Unneeded(s)
  /\ Sweeping(w, "listblobs") => \A s \in Sessions :
       Exists(s) => FileOf[s] \in sweep[w].refs \/ s \in sweep[w].fresh
  /\ sweep[w].at \in {"lookup", "unlink"} =>
       \A f \in sweep[w].todo : AllGone(f) \/ Fast(f)
  /\ Sweeping(w, "unlink") => \A f \in sweep[w].refs : f \in Files /\ Unshared(f)

SweepsKnow == \A w \in Sweepers : SweepKnows(w)

CleanupInv ==
  /\ CleanupTypeOK
  /\ SessionInv
  /\ FinalizeInv
  /\ BlobsInUse
  /\ UnlinkUnshared
  /\ OnceOpened
  /\ SweepsKnow
  /\ LiveFileHasBlob
  /\ SweepSparesAssembled
=============================================================================
