------------------------------ MODULE Uploads ------------------------------
(***************************************************************************)
(* The chunked upload of Sendly: upload sessions in PostgreSQL, chunks and *)
(* blobs on one shared volume, and any number of replicas that serve the   *)
(* requests of an upload, assemble its blob under a lease, and remove what *)
(* has expired.                                                            *)
(*                                                                         *)
(* A row of upload_sessions is kept column by column: state, owner (the    *)
(* assembly_owner), held (assembly_lease_until lies in the future),        *)
(* expired (expires_at lies in the past) and recorded (its upload_chunks). *)
(* Wall-clock time is only visible through held and expired.               *)
(*                                                                         *)
(* Everything that runs concurrently is one of                             *)
(*   - a worker: the assembly of a session by a replica (Upload.assemble); *)
(*   - a task: a request handler, or the removal of an expired session.    *)
(* A step of either does one database transaction or one access to the     *)
(* volume, so that every interleaving of those is explored; reads that     *)
(* follow each other are one step where a change between them is caught    *)
(* later in the same handler.                                              *)
(***************************************************************************)
EXTENDS Naturals, FiniteSets

CONSTANTS
  Replicas,      \* replica names (InstanceName, the owner in a lease)
  Sessions,      \* session IDs; each is generated at most once
  Files,         \* file IDs
  FileOf,        \* the file ID each session is created with
  Chunks,        \* chunk indices of an upload, 0 .. total_chunks - 1
  Tasks,         \* goroutines serving requests or removing expired sessions
  DiskErrors,    \* may reading or writing the volume fail during an assembly?
  MaxFaults,     \* how many crashes, shutdowns, stalls and disk errors happen
  None           \* SQL NULL, and "no such thing"

ASSUME FileOfAssumption == FileOf \in [Sessions -> Files]
ASSUME DiskErrorsAssumption == DiskErrors \in BOOLEAN
ASSUME MaxFaultsAssumption == MaxFaults \in Nat
ASSUME NoneAssumption == None \notin Replicas \cup Sessions \cup Chunks

VARIABLES
  state, owner, held, expired, recorded,  \* upload_sessions and upload_chunks
  chunks,    \* the chunk files in each session's directory
  blob,      \* whose assembled content is stored under a file ID
  files,     \* the session whose finalize created the files row of a file ID
  worker,    \* where each replica is in assembling each session
  task,      \* where each task is
  faults,    \* faults so far
  late       \* history: files created for a session that was removed meanwhile

row == <<state, owner, held, expired, recorded>>
disk == <<chunks, blob>>
vars == <<state, owner, held, expired, recorded, chunks, blob, files,
          worker, task, faults, late>>

----------------------------------------------------------------------------
(* Types *)

RowStates == {"uploading", "assembling", "assembled", "finalized", "failed"}
WorkerSteps == {"idle", "claim", "copy", "rename",
                "finish", "fail", "release", "tidy"}
TaskSteps == {"idle", "insert", "mkdir", "save", "record", "size", "create",
              "mark", "delete", "chunksonly", "chunks", "lookup", "unlink"}

Idle == [at |-> "idle", sid |-> None, idx |-> None]
TaskRecords ==
  [at: TaskSteps, sid: Sessions \cup {None}, idx: Chunks \cup {None}]

RowOK ==
  /\ state \in [Sessions -> RowStates \cup {"none", "gone"}]
  /\ owner \in [Sessions -> Replicas \cup {None}]
  /\ held \in [Sessions -> BOOLEAN]
  /\ expired \in [Sessions -> BOOLEAN]
  /\ recorded \in [Sessions -> SUBSET Chunks]

TypeOK ==
  /\ RowOK
  /\ chunks \in [Sessions -> SUBSET Chunks]
  /\ blob \in [Files -> Sessions \cup {None}]
  /\ files \in [Files -> Sessions \cup {None}]
  /\ worker \in [Replicas -> [Sessions -> WorkerSteps]]
  /\ task \in [Tasks -> TaskRecords]
  /\ \A p \in Tasks : task[p].at \in {"save", "record"} => task[p].idx \in Chunks
  /\ faults \in 0 .. MaxFaults
  /\ late \subseteq Files

Init ==
  /\ state = [s \in Sessions |-> "none"]
  /\ owner = [s \in Sessions |-> None]
  /\ held = [s \in Sessions |-> FALSE]
  /\ expired = [s \in Sessions |-> FALSE]
  /\ recorded = [s \in Sessions |-> {}]
  /\ chunks = [s \in Sessions |-> {}]
  /\ blob = [f \in Files |-> None]
  /\ files = [f \in Files |-> None]
  /\ worker = [r \in Replicas |-> [s \in Sessions |-> "idle"]]
  /\ task = [p \in Tasks |-> Idle]
  /\ faults = 0
  /\ late = {}

----------------------------------------------------------------------------
(* Helpers *)

\* The row of s exists in upload_sessions.
Exists(s) == state[s] \in RowStates

\* What GetUploadSession returns as found.
Live(s) ==
  /\ Exists(s)
  /\ ~expired[s] \/ (state[s] = "assembling" /\ held[s])

\* The row of s is deleted; upload_chunks goes with it (ON DELETE CASCADE).
DropRow(s) ==
  /\ state' = [state EXCEPT ![s] = "gone"]
  /\ owner' = [owner EXCEPT ![s] = None]
  /\ held' = [held EXCEPT ![s] = FALSE]
  /\ expired' = [expired EXCEPT ![s] = FALSE]
  /\ recorded' = [recorded EXCEPT ![s] = {}]

\* assembly_owner and assembly_lease_until are set to NULL.
ClearLease(s) ==
  /\ owner' = [owner EXCEPT ![s] = None]
  /\ held' = [held EXCEPT ![s] = FALSE]

\* An idle task p takes up work on session s.
Begin(p, s, step) ==
  /\ task[p].at = "idle"
  /\ task' = [task EXCEPT ![p] = [at |-> step, sid |-> s, idx |-> None]]

\* Task p goes on, or is done.
At(p, s, step) == task[p].at = step /\ task[p].sid = s
Goto(p, step) == task' = [task EXCEPT ![p].at = step]
End(p) == task' = [task EXCEPT ![p] = Idle]

\* Some task is at one of the given steps of session s.
Busy(s, steps) == \E p \in Tasks : task[p].sid = s /\ task[p].at \in steps

\* A client learns its session ID from the answer to init.
Answered(s) == ~Busy(s, {"insert", "mkdir"})

\* A finalize of s has found it assembled and has not yet created the file.
Finalizing(s) == Busy(s, {"size", "create"})

\* The worker of r for session s goes on.
Work(r, s, step) == worker' = [worker EXCEPT ![r][s] = step]

\* A fenced update by r counts only if its lease was not taken over.
Fenced(r, s) == state[s] = "assembling" /\ owner[s] = r

Fault == faults < MaxFaults /\ faults' = faults + 1

----------------------------------------------------------------------------
(* Init: InitUpload *)

\* The generated session ID is new, and no blob has the file ID. For a file ID
\* that is taken the handler answers FILE_ID_TAKEN or tries another one.
InitUpload(p, s) ==
  /\ state[s] = "none" /\ ~Busy(s, {"insert"})
  /\ blob[FileOf[s]] = None
  /\ Begin(p, s, "insert")
  /\ UNCHANGED <<row, disk, files, late, worker, faults>>

\* Mutant: the insert does not look for other sessions with the file ID.
CreateUploadSessionShared(p, s) ==
  /\ At(p, s, "insert")
  /\ files[FileOf[s]] = None
  /\ state' = [state EXCEPT ![s] = "uploading"]
  /\ Goto(p, "mkdir")
  /\ UNCHANGED <<owner, held, expired, recorded, disk, files, late, worker, faults>>

\* INSERT ... WHERE NOT EXISTS (files row) ON CONFLICT (file_id) DO NOTHING.
CreateUploadSession(p, s) ==
  /\ At(p, s, "insert")
  /\ \/ /\ files[FileOf[s]] = None
        /\ \A t \in Sessions : Exists(t) => FileOf[t] # FileOf[s]
        /\ state' = [state EXCEPT ![s] = "uploading"]
        /\ Goto(p, "mkdir")
     \/ /\ \/ files[FileOf[s]] # None
           \/ \E t \in Sessions : Exists(t) /\ FileOf[t] = FileOf[s]
        /\ End(p)
        /\ UNCHANGED state
  /\ UNCHANGED <<owner, held, expired, recorded, disk, files, late, worker, faults>>

\* The chunk directory is made; if that fails the session is deleted again.
CreateChunkDir(p, s) ==
  /\ At(p, s, "mkdir")
  /\ End(p)
  /\ \/ UNCHANGED <<row, faults>>
     \/ DropRow(s) /\ Fault
  /\ UNCHANGED <<disk, files, late, worker>>

----------------------------------------------------------------------------
(* Chunk: UploadChunk. The session is read, the chunk is written and renamed *)
(* into place (which makes the directory again if it is gone), then recorded. *)

UploadChunk(p, s, c) ==
  /\ Answered(s)
  /\ Live(s) /\ state[s] = "uploading"
  /\ task[p].at = "idle"
  /\ task' = [task EXCEPT ![p] = [at |-> "save", sid |-> s, idx |-> c]]
  /\ UNCHANGED <<row, disk, files, late, worker, faults>>

SaveChunk(p, s) ==
  /\ At(p, s, "save")
  /\ chunks' = [chunks EXCEPT ![s] = @ \cup {task[p].idx}]
  /\ Goto(p, "record")
  /\ UNCHANGED <<row, blob, files, late, worker, faults>>

RecordChunk(p, s) ==
  /\ At(p, s, "record")
  /\ \/ /\ state[s] = "uploading" /\ ~expired[s]
        /\ recorded' = [recorded EXCEPT ![s] = @ \cup {task[p].idx}]
     \/ /\ state[s] # "uploading" \/ expired[s]
        /\ UNCHANGED recorded
  /\ End(p)
  /\ UNCHANGED <<state, owner, held, expired, disk, files, late, worker, faults>>

----------------------------------------------------------------------------
(* Complete: CompleteUpload is one transaction, then startAssembly on the   *)
(* replica r that serves the request. r.running is worker[r][s] # "idle".   *)

StartAssembly(r, s) ==
  /\ Answered(s)
  /\ Exists(s) /\ ~expired[s]
  /\ \/ /\ state[s] \in {"uploading", "failed"}
        /\ recorded[s] = Chunks
        /\ state' = [state EXCEPT ![s] = "assembling"]
        /\ ClearLease(s)
     \/ /\ state[s] = "assembling"
        /\ UNCHANGED <<state, owner, held>>
  /\ IF worker[r][s] = "idle" THEN Work(r, s, "claim") ELSE UNCHANGED worker
  /\ UNCHANGED <<expired, recorded, disk, files, late, task, faults>>

----------------------------------------------------------------------------
(* Assembly: startAssembly, assemble, AssembleChunks and the lease          *)

\* Mutant: only released assemblies are resumed, not those whose lease ran out.
ResumeReleased(r, s) ==
  /\ state[s] = "assembling" /\ owner[s] = None
  /\ worker[r][s] = "idle"
  /\ Work(r, s, "claim")
  /\ UNCHANGED <<row, disk, files, late, task, faults>>

\* resumeOrphanedAssemblies: an assembling session without a running lease.
ResumeOrphaned(r, s) ==
  /\ state[s] = "assembling" /\ ~held[s]
  /\ worker[r][s] = "idle"
  /\ Work(r, s, "claim")
  /\ UNCHANGED <<row, disk, files, late, task, faults>>

ClaimAssembly(r, s) ==
  /\ worker[r][s] = "claim"
  /\ \/ /\ state[s] = "assembling"
        /\ ~held[s] \/ owner[s] = r
        /\ owner' = [owner EXCEPT ![s] = r]
        /\ held' = [held EXCEPT ![s] = TRUE]
        /\ Work(r, s, "copy")
     \/ /\ state[s] # "assembling" \/ (held[s] /\ owner[s] # r)
        /\ Work(r, s, "idle")
        /\ UNCHANGED <<owner, held>>
  /\ UNCHANGED <<state, expired, recorded, disk, files, late, task, faults>>

\* The renewal goroutine runs until assemble returns. It extends the lease even
\* when it had run out, unless somebody else took it.
RenewAssembly(r, s) ==
  /\ worker[r][s] \notin {"idle", "claim"}
  /\ Fenced(r, s)
  /\ held' = [held EXCEPT ![s] = TRUE]
  /\ UNCHANGED <<state, owner, expired, recorded, disk, files, late, worker, task,
                 faults>>

\* The lease is lost or the replica shuts down: ctx is cancelled, which
\* AssembleChunks notices before the next chunk it copies.
Interrupt(r, s) ==
  /\ worker[r][s] = "copy"
  /\ \/ ~Fenced(r, s) /\ UNCHANGED faults
     \/ Fault
  /\ Work(r, s, "release")
  /\ UNCHANGED <<row, disk, files, late, task>>

\* Mutant: the assembly is recorded before the blob is renamed into place.
CopyChunksRecordFirst(r, s) ==
  /\ worker[r][s] = "copy"
  /\ Work(r, s, IF chunks[s] = Chunks THEN "finish" ELSE "fail")
  /\ UNCHANGED <<row, disk, files, late, task, faults>>

\* Every chunk is read into the temporary file, which is synced and closed.
CopyChunks(r, s) ==
  /\ worker[r][s] = "copy"
  /\ Work(r, s, IF chunks[s] = Chunks THEN "rename" ELSE "fail")
  /\ UNCHANGED <<row, disk, files, late, task, faults>>

\* Mutant: the chunks are deleted as soon as the blob is in place.
RenameBlobAndTidy(r, s) ==
  /\ worker[r][s] = "rename"
  /\ blob' = [blob EXCEPT ![FileOf[s]] = s]
  /\ chunks' = [chunks EXCEPT ![s] = {}]
  /\ Work(r, s, "finish")
  /\ UNCHANGED <<row, files, late, task, faults>>

RenameBlob(r, s) ==
  /\ worker[r][s] = "rename"
  /\ blob' = [blob EXCEPT ![FileOf[s]] = s]
  /\ Work(r, s, "finish")
  /\ UNCHANGED <<row, chunks, files, late, task, faults>>

\* Reading, writing, syncing or renaming fails although nothing is missing.
DiskError(r, s) ==
  /\ DiskErrors
  /\ worker[r][s] \in {"copy", "rename"}
  /\ Fault
  /\ Work(r, s, "fail")
  /\ UNCHANGED <<row, disk, files, late, task>>

\* The answer may get lost after the commit; record then runs it again.
FinishAssembly(r, s) ==
  /\ worker[r][s] = "finish"
  /\ \/ /\ Fenced(r, s)
        /\ state' = [state EXCEPT ![s] = "assembled"]
        /\ ClearLease(s)
        /\ expired' = [expired EXCEPT ![s] = FALSE]
        /\ \/ Work(r, s, "tidy") /\ UNCHANGED faults
           \/ UNCHANGED worker /\ Fault
     \/ /\ ~Fenced(r, s)
        /\ Work(r, s, "idle")
        /\ UNCHANGED <<state, owner, held, expired, faults>>
  /\ UNCHANGED <<recorded, disk, files, late, task>>

\* Only the run whose result counts deletes the chunks.
DeleteChunks(r, s) ==
  /\ worker[r][s] = "tidy"
  /\ chunks' = [chunks EXCEPT ![s] = {}]
  /\ Work(r, s, "idle")
  /\ UNCHANGED <<row, blob, files, late, task, faults>>

FailAssembly(r, s) ==
  /\ worker[r][s] = "fail"
  /\ Work(r, s, "idle")
  /\ IF Fenced(r, s)
       THEN state' = [state EXCEPT ![s] = "failed"] /\ ClearLease(s)
       ELSE UNCHANGED <<state, owner, held>>
  /\ UNCHANGED <<expired, recorded, disk, files, late, task, faults>>

ReleaseAssembly(r, s) ==
  /\ worker[r][s] = "release"
  /\ Work(r, s, "idle")
  /\ IF Fenced(r, s) THEN ClearLease(s) ELSE UNCHANGED <<owner, held>>
  /\ UNCHANGED <<state, expired, recorded, disk, files, late, task, faults>>

\* record gives up after two minutes without the database.
RecordGivesUp(r, s) ==
  /\ worker[r][s] \in {"finish", "fail", "release"}
  /\ Fault
  /\ Work(r, s, "idle")
  /\ UNCHANGED <<row, disk, files, late, task>>

----------------------------------------------------------------------------
(* Finalize: FinalizeUploadWithOptions                                      *)

\* The session is read, then the files row. A repeated finalize only marks.
FinalizeUpload(p, s) ==
  /\ Answered(s)
  /\ Live(s)
  /\ \/ files[FileOf[s]] # None /\ state[s] # "finalized" /\ Begin(p, s, "mark")
     \/ files[FileOf[s]] = None /\ state[s] = "assembled" /\ Begin(p, s, "size")
  /\ UNCHANGED <<row, disk, files, late, worker, faults>>

\* Without a blob to take the size of, finalize fails.
GetFileSize(p, s) ==
  /\ At(p, s, "size")
  /\ IF blob[FileOf[s]] # None THEN Goto(p, "create") ELSE End(p)
  /\ UNCHANGED <<row, disk, files, late, worker, faults>>

\* Of two racing finalizes the second one violates the primary key and answers
\* with the file of the first. Nobody looks whether the session still exists.
CreateFile(p, s) ==
  /\ At(p, s, "create")
  /\ \/ /\ files[FileOf[s]] = None
        /\ files' = [files EXCEPT ![FileOf[s]] = s]
        /\ late' = IF state[s] = "gone" THEN late \cup {FileOf[s]} ELSE late
        /\ Goto(p, "mark")
     \/ /\ files[FileOf[s]] # None
        /\ End(p)
        /\ UNCHANGED <<files, late>>
  /\ UNCHANGED <<row, disk, worker, faults>>

\* The update matches no row, and finalize still succeeds, if it is gone.
MarkUploadFinalized(p, s) ==
  /\ At(p, s, "mark")
  /\ IF Exists(s) THEN state' = [state EXCEPT ![s] = "finalized"]
                  ELSE UNCHANGED state
  /\ End(p)
  /\ UNCHANGED <<owner, held, expired, recorded, disk, files, late, worker, faults>>

----------------------------------------------------------------------------
(* Cancel and expiry: CancelUpload, TakeExpiredUploadSessions and           *)
(* removeSessionFiles                                                       *)

CancelUpload(p, s) ==
  /\ state[s] # "none" /\ Answered(s)
  /\ \/ Live(s) /\ state[s] # "finalized" /\ Begin(p, s, "delete")
     \/ ~Live(s) /\ Begin(p, s, "chunksonly")
  /\ UNCHANGED <<row, disk, files, late, worker, faults>>

CancelMissing(p, s) ==
  /\ At(p, s, "chunksonly")
  /\ chunks' = [chunks EXCEPT ![s] = {}]
  /\ End(p)
  /\ UNCHANGED <<row, blob, files, late, worker, faults>>

DeleteUploadSession(p, s) ==
  /\ At(p, s, "delete")
  /\ IF Exists(s) THEN DropRow(s) ELSE UNCHANGED row
  /\ Goto(p, "chunks")
  /\ UNCHANGED <<disk, files, late, worker, faults>>

TakeExpired(p, s) ==
  /\ Exists(s) /\ expired[s]
  /\ ~(state[s] = "assembling" /\ held[s])
  /\ DropRow(s)
  /\ Begin(p, s, "chunks")
  /\ UNCHANGED <<disk, files, late, worker, faults>>

\* DeleteChunks, and the look whether there is a blob at all.
RemoveChunks(p, s) ==
  /\ At(p, s, "chunks")
  /\ chunks' = [chunks EXCEPT ![s] = {}]
  /\ IF blob[FileOf[s]] # None THEN Goto(p, "lookup") ELSE End(p)
  /\ UNCHANGED <<row, blob, files, late, worker, faults>>

\* Mutant: the blob is deleted without a look for its file.
RemoveBlobUnasked(p, s) ==
  /\ At(p, s, "lookup")
  /\ Goto(p, "unlink")
  /\ UNCHANGED <<row, disk, files, late, worker, faults>>

GetFileForAdmin(p, s) ==
  /\ At(p, s, "lookup")
  /\ IF files[FileOf[s]] = None THEN Goto(p, "unlink") ELSE End(p)
  /\ UNCHANGED <<row, disk, files, late, worker, faults>>

DeleteFile(p, s) ==
  /\ At(p, s, "unlink")
  /\ blob' = [blob EXCEPT ![FileOf[s]] = None]
  /\ End(p)
  /\ UNCHANGED <<row, chunks, files, late, worker, faults>>

----------------------------------------------------------------------------
(* Time and failures *)

\* expires_at passes.
Expire(s) ==
  /\ Exists(s) /\ ~expired[s]
  /\ expired' = [expired EXCEPT ![s] = TRUE]
  /\ UNCHANGED <<state, owner, held, recorded, disk, files, late, worker, task,
                 faults>>

\* assembly_lease_until passes: its holder is gone, or stalls (paused, or cut
\* off from the database) for longer than the lease.
LeaseRunsOut(s) ==
  /\ held[s]
  /\ IF worker[owner[s]][s] \in {"idle", "claim"} THEN UNCHANGED faults
                                                  ELSE Fault
  /\ held' = [held EXCEPT ![s] = FALSE]
  /\ UNCHANGED <<state, owner, expired, recorded, disk, files, late, worker, task>>

\* Replica r dies with all of its assemblies and starts again under its name.
Crash(r) ==
  /\ \E s \in Sessions : worker[r][s] # "idle"
  /\ Fault
  /\ worker' = [worker EXCEPT ![r] = [s \in Sessions |-> "idle"]]
  /\ UNCHANGED <<row, disk, files, late, task>>

\* A handler ends early at any step: its replica died, its request was
\* cancelled, or the database or the volume returned an error.
Abandon(p) ==
  /\ task[p].at # "idle"
  /\ End(p)
  /\ UNCHANGED <<row, disk, files, late, worker, faults>>

----------------------------------------------------------------------------

Worker(r, s) ==
  \/ ResumeOrphaned(r, s)
  \/ ClaimAssembly(r, s)
  \/ CopyChunks(r, s)
  \/ RenameBlob(r, s)
  \/ FinishAssembly(r, s)
  \/ DeleteChunks(r, s)
  \/ FailAssembly(r, s)
  \/ ReleaseAssembly(r, s)

WorkerFault(r, s) ==
  \/ Interrupt(r, s)
  \/ DiskError(r, s)
  \/ RecordGivesUp(r, s)

Request(p, s) ==
  \/ InitUpload(p, s)
  \/ \E c \in Chunks : UploadChunk(p, s, c)
  \/ FinalizeUpload(p, s)
  \/ CancelUpload(p, s)
  \/ TakeExpired(p, s)

Handler(p, s) ==
  \/ CreateUploadSession(p, s)
  \/ CreateChunkDir(p, s)
  \/ SaveChunk(p, s)
  \/ RecordChunk(p, s)
  \/ GetFileSize(p, s)
  \/ CreateFile(p, s)
  \/ MarkUploadFinalized(p, s)
  \/ CancelMissing(p, s)
  \/ DeleteUploadSession(p, s)
  \/ RemoveChunks(p, s)
  \/ GetFileForAdmin(p, s)
  \/ DeleteFile(p, s)

Next ==
  \/ \E r \in Replicas, s \in Sessions :
       StartAssembly(r, s) \/ RenewAssembly(r, s) \/ Worker(r, s)
         \/ WorkerFault(r, s)
  \/ \E p \in Tasks, s \in Sessions : Request(p, s) \/ Handler(p, s)
  \/ \E s \in Sessions : Expire(s) \/ LeaseRunsOut(s)
  \/ \E r \in Replicas : Crash(r)
  \/ \E p \in Tasks : Abandon(p)

Spec == Init /\ [][Next]_vars

\* A replica that is up finishes what it is assembling and looks for orphaned
\* assemblies every 10 seconds, and a lease nobody renews runs out.
FairSpec ==
  /\ Spec
  /\ \A r \in Replicas, s \in Sessions : WF_vars(Worker(r, s))
  /\ \A s \in Sessions : WF_vars(LeaseRunsOut(s))

----------------------------------------------------------------------------
(* Properties *)

\* No two sessions are created with the same file ID. This is so for generated
\* IDs; a client that chooses an ID itself may use it again.
DistinctFiles ==
  \A s, t \in Sessions : FileOf[s] = FileOf[t] => s = t

\* A session that waits for finalize has its complete blob on disk, whichever
\* replicas assembled it, lost the lease over it, or removed expired sessions.
AssembledHasBlob ==
  \A s \in Sessions : state[s] = "assembled" => blob[FileOf[s]] = s

\* The chunks the database counts as received are on disk until the assembly is
\* recorded, so that any replica can assemble them again from the start. (An
\* expired session may lose them to a cancel that no longer finds it.)
ChunksKept ==
  \A s \in Sessions :
    state[s] \in {"uploading", "assembling", "failed"} /\ ~expired[s]
      => recorded[s] \subseteq chunks[s]

\* Without disk errors no assembly is recorded as failed: a replica that lost
\* its lease and finds the chunks deleted cannot fail the upload. (Again, an
\* expired session may have lost its chunks to a cancel.)
OnlyDiskErrorsFail ==
  \A s \in Sessions : state[s] = "failed" => DiskErrors \/ expired[s]

\* Every file has the blob of the upload it was created from, whatever cancels,
\* expiries and other finalizes run beside its finalize; but for a file that is
\* created although its session was removed after finalize had read it.
FileHasBlob ==
  \A f \in Files \ late : files[f] # None => blob[f] = files[f]

\* "deletes a dropped session's chunks and, unless it was finalized into a file,
\* its blob": the blob goes too if the file is created after the look for it. No
\* run checks this form without the exception.
EveryFileHasBlob ==
  \A f \in Files : files[f] # None => blob[f] = files[f]

\* A file ID belongs to one upload: two sessions never share one, and no session
\* is open on the ID of a file another session created; but for a file whose
\* session was removed before it was created, and left its ID free.
FileIDExclusive ==
  \A s \in Sessions : Exists(s) =>
    /\ \A t \in Sessions : Exists(t) /\ FileOf[t] = FileOf[s] => s = t
    /\ files[FileOf[s]] \in {None, s} \/ FileOf[s] \in late

----------------------------------------------------------------------------
(* What the properties rest on: the parts of an inductive invariant.        *)

\* A session is only assembled from a complete set of chunks.
AssembledWhole ==
  \A s \in Sessions :
    state[s] \in {"assembling", "failed"} => recorded[s] = Chunks

\* A session that has no row yet has no chunks recorded, and nobody works on it.
Untouched ==
  \A s \in Sessions : state[s] = "none" =>
    /\ recorded[s] = {} /\ ~expired[s]
    /\ \A p \in Tasks : task[p].sid = s => task[p].at = "insert"
    /\ \A r \in Replicas : worker[r][s] = "idle"

\* A session ID is inserted once.
InsertedOnce ==
  \A p, q \in Tasks :
    /\ task[p].at = "insert" => state[task[p].sid] = "none"
    /\ task[p].at = "insert" /\ task[q].at = "insert" /\ task[p].sid = task[q].sid
         => p = q

\* A task knows its session, and a chunk that is about to be recorded is on
\* disk.
TasksKnow ==
  \A p \in Tasks : task[p].at # "idle" =>
    /\ task[p].sid \in Sessions
    /\ LET s == task[p].sid IN
         task[p].at = "record" /\ state[s] = "uploading" /\ ~expired[s]
           => task[p].idx \in chunks[s]

\* Chunks are deleted once the assembly is recorded, the row is gone, or the
\* session has expired; blobs are deleted once the row is gone.
Removals ==
  /\ \A r \in Replicas, s \in Sessions :
       worker[r][s] = "tidy" => state[s] \in {"assembled", "finalized", "gone"}
  /\ \A p \in Tasks :
       /\ task[p].at \in {"chunks", "lookup", "unlink"}
            => state[task[p].sid] = "gone"
       /\ task[p].at = "chunksonly"
            => \/ state[task[p].sid] \in {"assembled", "finalized", "gone"}
               \/ expired[task[p].sid]

\* A worker that has renamed its blob into place still has it there.
FinishedHasBlob ==
  \A r \in Replicas, s \in Sessions :
    worker[r][s] = "finish" /\ state[s] # "gone" => blob[FileOf[s]] = s

\* A lease holder fails only over a disk error or in an expired session.
FailingFairly ==
  \A r \in Replicas, s \in Sessions :
    worker[r][s] = "fail" /\ Fenced(r, s) => DiskErrors \/ expired[s]

\* The inductive invariant behind ChunksKept and OnlyDiskErrorsFail: what is so
\* of the sessions and their chunks, whatever becomes of the blobs.
SessionInv ==
  /\ TypeOK
  /\ AssembledWhole
  /\ Untouched
  /\ InsertedOnce
  /\ TasksKnow
  /\ Removals
  /\ FailingFairly
  /\ ChunksKept
  /\ OnlyDiskErrorsFail

\* The one behind AssembledHasBlob, inductive when sessions share no file ID.
Inv ==
  /\ SessionInv
  /\ FinishedHasBlob
  /\ AssembledHasBlob

\* A blob about to be deleted belongs to no file, or to a late one.
UnlinkUnshared ==
  \A p \in Tasks : task[p].at = "unlink" =>
    LET f == FileOf[task[p].sid] IN files[f] = None \/ f \in late

\* The files row of a file ID comes from a session with that ID, and what came
\* late is a file.
FileFromOwnSession ==
  \A f \in Files : /\ files[f] # None => FileOf[files[f]] = f
                   /\ f \in late => files[f] # None

\* A session is only marked finalized when there is a file.
FinalizedHasFile ==
  /\ \A s \in Sessions : state[s] = "finalized" => files[FileOf[s]] # None
  /\ \A p \in Tasks : task[p].at = "mark" =>
       LET s == task[p].sid IN files[FileOf[s]] # None \/ state[s] = "gone"

\* A finalize that has found no file works on an assembled session, until
\* another finalize has created the file or the session is removed.
FinalizesAssembled ==
  \A p \in Tasks : task[p].at \in {"size", "create"} =>
    LET s == task[p].sid IN
      state[s] \in {"assembled", "gone"} \/ files[FileOf[s]] # None

FinalizeInv == FinalizedHasFile /\ FinalizesAssembled

\* Together with Inv, inductive when sessions share no file ID.
FileInv ==
  /\ UnlinkUnshared
  /\ FileFromOwnSession
  /\ FinalizeInv
  /\ FileHasBlob
=============================================================================
