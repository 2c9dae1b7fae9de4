--------------------------- MODULE Uploads_proofs ---------------------------
(***************************************************************************)
(* What holds of Uploads for any number of replicas, sessions, chunks,     *)
(* tasks and faults; the safety part of its refinement: every step is a    *)
(* step of UploadPromise or a stutter; and what holds of Cleanup beside    *)
(* the uploads, for any number of sweeps that overlap. That a sealed       *)
(* upload settles and storage is reclaimed is liveness and stays with TLC. *)
(***************************************************************************)
EXTENDS UploadRefinement, Cleanup, TLAPS

----------------------------------------------------------------------------
(* Types *)

\* Where a task is after Goto, End and Begin, and a worker after Work: the steps
\* below use these facts instead of the updates themselves.
LEMMA GotoFacts ==
  ASSUME task \in [Tasks -> TaskRecords], NEW p \in Tasks,
         NEW step \in TaskSteps, Goto(p, step)
  PROVE  /\ task' \in [Tasks -> TaskRecords]
         /\ task'[p].at = step
         /\ task'[p].sid = task[p].sid
         /\ task'[p].idx = task[p].idx
         /\ \A q \in Tasks \ {p} : task'[q] = task[q]
BY DEF Goto, TaskRecords

\* End leaves its task idle and all others where they are.
LEMMA EndFacts ==
  ASSUME task \in [Tasks -> TaskRecords], NEW p \in Tasks, End(p)
  PROVE  /\ task' \in [Tasks -> TaskRecords]
         /\ task'[p] = Idle
         /\ \A q \in Tasks \ {p} : task'[q] = task[q]
BY DEF End, TaskRecords, Idle, TaskSteps

\* Begin gives an idle task work on a session, without a chunk.
LEMMA BeginFacts ==
  ASSUME task \in [Tasks -> TaskRecords], NEW p \in Tasks, NEW s \in Sessions,
         NEW step \in TaskSteps, Begin(p, s, step)
  PROVE  /\ task' \in [Tasks -> TaskRecords]
         /\ task[p].at = "idle"
         /\ task'[p].at = step
         /\ task'[p].sid = s
         /\ \A q \in Tasks \ {p} : task'[q] = task[q]
BY DEF Begin, TaskRecords

\* Work moves one worker.
LEMMA WorkFacts ==
  ASSUME worker \in [Replicas -> [Sessions -> WorkerSteps]],
         NEW r \in Replicas, NEW s \in Sessions, NEW step \in WorkerSteps,
         Work(r, s, step)
  PROVE  /\ worker' \in [Replicas -> [Sessions -> WorkerSteps]]
         /\ worker'[r][s] = step
         /\ \A q \in Replicas, t \in Sessions :
              q # r \/ t # s => worker'[q][t] = worker[q][t]
BY DEF Work

\* DropRow changes the row of one session only.
LEMMA DropRowFacts ==
  ASSUME RowOK, NEW s \in Sessions, DropRow(s)
  PROVE  /\ RowOK'
         /\ state'[s] = "gone"
         /\ owner'[s] = None /\ ~expired'[s]
         /\ recorded'[s] = {}
         /\ \A t \in Sessions \ {s} :
              /\ state'[t] = state[t] /\ owner'[t] = owner[t]
              /\ expired'[t] = expired[t] /\ recorded'[t] = recorded[t]
BY DEF RowOK, DropRow

\* ClearLease takes the lease of one session only.
LEMMA ClearLeaseFacts ==
  ASSUME RowOK, NEW s \in Sessions, ClearLease(s)
  PROVE  /\ owner' \in [Sessions -> Replicas \cup {None}]
         /\ held' \in [Sessions -> BOOLEAN]
         /\ owner'[s] = None
         /\ \A t \in Sessions \ {s} : owner'[t] = owner[t]
BY DEF RowOK, ClearLease

\* A handler's step ends its task or moves it on.
LEMMA HandlerMoves ==
  ASSUME NEW p \in Tasks, NEW s \in Sessions, Handler(p, s)
  PROVE  \/ End(p)
         \/ Goto(p, "record") /\ task[p].at = "save"
         \/ \E step \in {"mkdir", "create", "mark", "chunks", "lookup", "unlink"} :
              Goto(p, step)
BY DEF Handler, CreateUploadSession, CreateChunkDir, SaveChunk, RecordChunk,
   GetFileSize, CreateFile, MarkUploadFinalized, CancelMissing,
   DeleteUploadSession, RemoveChunks, GetFileForAdmin, DeleteFile, At

\* Every step keeps the types of the variables.
LEMMA TypeStep ==
  ASSUME TypeOK, [Next]_vars
  PROVE  TypeOK'
<1> USE DEF TypeOK, WorkerSteps, TaskSteps, disk
<1>idx. ASSUME NEW p \in Tasks, NEW s \in Sessions,
               task' \in [Tasks -> TaskRecords],
               \A q \in Tasks \ {p} : task'[q] = task[q],
               task'[p].at \in {"save", "record"} => task'[p].idx \in Chunks
        PROVE  \A q \in Tasks :
                 task'[q].at \in {"save", "record"} => task'[q].idx \in Chunks
  BY <1>idx
<1>row. ASSUME UNCHANGED row
        PROVE  RowOK'
  BY <1>row DEF RowOK, row
<1>1. ASSUME NEW r \in Replicas, NEW s \in Sessions, StartAssembly(r, s)
      PROVE  TypeOK'
  <2>1. worker' \in [Replicas -> [Sessions -> WorkerSteps]]
    BY <1>1, WorkFacts DEF StartAssembly
  <2>2. RowOK'
    BY <1>1, ClearLeaseFacts DEF StartAssembly, RowOK, RowStates
  <2> QED
    BY <1>1, <2>1, <2>2 DEF StartAssembly
<1>2. ASSUME NEW r \in Replicas, NEW s \in Sessions, RenewAssembly(r, s)
      PROVE  TypeOK'
  BY <1>2 DEF RenewAssembly, RowOK
<1>3. ASSUME NEW r \in Replicas, NEW s \in Sessions, Worker(r, s)
      PROVE  TypeOK'
  <2>1. CASE ResumeOrphaned(r, s)
    BY <2>1, <1>row, WorkFacts DEF ResumeOrphaned
  <2>2. CASE ClaimAssembly(r, s)
    <3>1. worker' \in [Replicas -> [Sessions -> WorkerSteps]]
      <4>1. Work(r, s, "copy") \/ Work(r, s, "idle")
        BY <2>2 DEF ClaimAssembly
      <4> QED
        BY <4>1, WorkFacts
    <3>2. RowOK'
      <4>1. /\ \/ owner' = [owner EXCEPT ![s] = r] /\ held' = [held EXCEPT ![s] = TRUE]
               \/ UNCHANGED <<owner, held>>
            /\ UNCHANGED <<state, expired, recorded>>
        BY <2>2 DEF ClaimAssembly
      <4> QED
        BY <4>1 DEF RowOK
    <3>3. /\ UNCHANGED <<chunks, blob, files, late, task>>
          /\ faults' \in 0 .. MaxFaults
      BY <2>2 DEF ClaimAssembly
    <3> QED
      BY <3>1, <3>2, <3>3
  <2>3. CASE CopyChunks(r, s)
    BY <2>3, <1>row, WorkFacts DEF CopyChunks
  <2>4. CASE RenameBlob(r, s)
    BY <2>4, <1>row, WorkFacts, FileOfAssumption DEF RenameBlob
  <2>5. CASE FinishAssembly(r, s)
    <3>1. worker' \in [Replicas -> [Sessions -> WorkerSteps]]
      BY <2>5, WorkFacts DEF FinishAssembly
    <3>2. RowOK'
      BY <2>5, ClearLeaseFacts DEF FinishAssembly, RowOK, RowStates
    <3> QED
      BY <2>5, <3>1, <3>2, MaxFaultsAssumption DEF FinishAssembly, Fault
  <2>6. CASE DeleteChunks(r, s)
    BY <2>6, <1>row, WorkFacts DEF DeleteChunks
  <2>7. CASE FailAssembly(r, s)
    <3>1. RowOK'
      BY <2>7, ClearLeaseFacts DEF FailAssembly, RowOK, RowStates
    <3> QED
      BY <2>7, <3>1, WorkFacts DEF FailAssembly
  <2>8. CASE ReleaseAssembly(r, s)
    <3>1. RowOK'
      BY <2>8, ClearLeaseFacts DEF ReleaseAssembly, RowOK
    <3> QED
      BY <2>8, <3>1, WorkFacts DEF ReleaseAssembly
  <2> QED
    BY <1>3, <2>1, <2>2, <2>3, <2>4, <2>5, <2>6, <2>7, <2>8 DEF Worker
<1>4. ASSUME NEW r \in Replicas, NEW s \in Sessions, WorkerFault(r, s)
      PROVE  TypeOK'
  <2>1. \E step \in WorkerSteps : Work(r, s, step)
    BY <1>4 DEF WorkerFault, Interrupt, DiskError, RecordGivesUp
  <2>2. worker' \in [Replicas -> [Sessions -> WorkerSteps]]
    BY <2>1, WorkFacts
  <2>3. UNCHANGED <<row, disk, files, late, task>> /\ faults' \in 0 .. MaxFaults
    BY <1>4, MaxFaultsAssumption
       DEF WorkerFault, Interrupt, DiskError, RecordGivesUp, Fault
  <2> QED
    BY <1>row, <2>2, <2>3
<1>5. ASSUME NEW p \in Tasks, NEW s \in Sessions, Request(p, s)
      PROVE  TypeOK'
  <2>1. CASE InitUpload(p, s)
    BY <2>1, <1>row, BeginFacts DEF InitUpload
  <2>2. ASSUME NEW c \in Chunks, UploadChunk(p, s, c)
        PROVE  TypeOK'
    <3>1. /\ task' \in [Tasks -> TaskRecords]
          /\ task'[p].idx = c
          /\ \A q \in Tasks \ {p} : task'[q] = task[q]
      BY <2>2 DEF UploadChunk, TaskRecords
    <3> QED
      BY <2>2, <3>1, <1>row, <1>idx DEF UploadChunk
  <2>3. CASE FinalizeUpload(p, s)
    BY <2>3, <1>row, BeginFacts DEF FinalizeUpload
  <2>4. CASE CancelUpload(p, s)
    BY <2>4, <1>row, BeginFacts DEF CancelUpload
  <2>5. CASE TakeExpired(p, s)
    BY <2>5, BeginFacts, DropRowFacts DEF TakeExpired
  <2> QED
    BY <1>5, <2>1, <2>2, <2>3, <2>4, <2>5 DEF Request
<1>6. ASSUME NEW p \in Tasks, NEW s \in Sessions, Handler(p, s)
      PROVE  TypeOK'
  <2>0. /\ task' \in [Tasks -> TaskRecords]
        /\ \A q \in Tasks :
             task'[q].at \in {"save", "record"} => task'[q].idx \in Chunks
    <3>1. \/ End(p)
          \/ Goto(p, "record") /\ task[p].at = "save"
          \/ \E step \in TaskSteps \ {"save", "record"} : Goto(p, step)
      BY <1>6, HandlerMoves
    <3>2. CASE End(p)
      BY <3>2, EndFacts, <1>idx DEF Idle
    <3>3. CASE Goto(p, "record") /\ task[p].at = "save"
      BY <3>3, GotoFacts, <1>idx
    <3>4. ASSUME NEW step \in TaskSteps \ {"save", "record"}, Goto(p, step)
          PROVE  <2>0!:
      BY <3>4, GotoFacts, <1>idx
    <3> QED
      BY <3>1, <3>2, <3>3, <3>4
  <2>1. CASE CreateUploadSession(p, s)
    <3>1. RowOK'
      BY <2>1 DEF CreateUploadSession, RowOK, RowStates
    <3> QED
      BY <2>0, <2>1, <3>1 DEF CreateUploadSession
  <2>2. CASE CreateChunkDir(p, s)
    BY <2>0, <2>2, <1>row, DropRowFacts, MaxFaultsAssumption
       DEF CreateChunkDir, Fault
  <2>3. CASE SaveChunk(p, s)
    BY <2>0, <2>3, <1>row DEF SaveChunk, At
  <2>4. CASE RecordChunk(p, s)
    <3>1. RowOK'
      BY <2>4 DEF RecordChunk, RowOK, At
    <3> QED
      BY <2>0, <2>4, <3>1 DEF RecordChunk
  <2>5. CASE GetFileSize(p, s)
    BY <2>0, <2>5, <1>row DEF GetFileSize
  <2>6. CASE CreateFile(p, s)
    BY <2>0, <2>6, <1>row, FileOfAssumption DEF CreateFile
  <2>7. CASE MarkUploadFinalized(p, s)
    <3>1. RowOK'
      BY <2>7 DEF MarkUploadFinalized, RowOK, RowStates
    <3> QED
      BY <2>0, <2>7, <3>1 DEF MarkUploadFinalized
  <2>8. CASE CancelMissing(p, s)
    BY <2>0, <2>8, <1>row DEF CancelMissing
  <2>9. CASE DeleteUploadSession(p, s)
    BY <2>0, <2>9, <1>row, DropRowFacts DEF DeleteUploadSession
  <2>10. CASE RemoveChunks(p, s)
    BY <2>0, <2>10, <1>row DEF RemoveChunks
  <2>11. CASE GetFileForAdmin(p, s)
    BY <2>0, <2>11, <1>row DEF GetFileForAdmin
  <2>12. CASE DeleteFile(p, s)
    BY <2>0, <2>12, <1>row, FileOfAssumption DEF DeleteFile
  <2> QED
    BY <1>6, <2>1, <2>2, <2>3, <2>4, <2>5, <2>6, <2>7, <2>8, <2>9, <2>10,
       <2>11, <2>12 DEF Handler
<1>7. ASSUME NEW s \in Sessions, Expire(s)
      PROVE  TypeOK'
  BY <1>7 DEF Expire, RowOK
<1>8. ASSUME NEW s \in Sessions, LeaseRunsOut(s)
      PROVE  TypeOK'
  BY <1>8, MaxFaultsAssumption DEF LeaseRunsOut, Fault, RowOK
<1>9. ASSUME NEW r \in Replicas, Crash(r)
      PROVE  TypeOK'
  BY <1>9, <1>row, MaxFaultsAssumption DEF Crash, Fault
<1>10. ASSUME NEW p \in Tasks, Abandon(p)
       PROVE  TypeOK'
  BY <1>10, <1>row, EndFacts DEF Abandon, Idle
<1>11. CASE UNCHANGED vars
  BY <1>11, <1>row DEF vars, row
<1> QED
  BY <1>1, <1>2, <1>3, <1>4, <1>5, <1>6, <1>7, <1>8, <1>9, <1>10, <1>11
     DEF Next

\* The types of the variables hold in every reachable state.
THEOREM TypeCorrect == Spec => []TypeOK
<1>1. Init => TypeOK
  BY MaxFaultsAssumption
     DEF Init, TypeOK, RowOK, Idle, TaskRecords, RowStates, WorkerSteps,
         TaskSteps
<1> QED
  BY <1>1, TypeStep, PTL DEF Spec

----------------------------------------------------------------------------
(* What a step can do to one session, file ID, worker or task. The proofs   *)
(* below rest on these moves; the actions are only opened to show them.     *)

StateMove(t) ==
  \/ state'[t] = state[t]
  \/ /\ state'[t] = "uploading"
     /\ \E p \in Tasks :
          task[p].at = "insert" /\ task[p].sid = t /\ task'[p].at = "mkdir"
  \/ /\ state[t] \in {"uploading", "failed"} /\ state'[t] = "assembling"
     /\ recorded[t] = Chunks /\ owner'[t] = None /\ Answered(t)
  \/ /\ state[t] = "assembling" /\ state'[t] = "assembled"
     /\ \E r \in Replicas : worker[r][t] = "finish"
  \/ /\ state[t] = "assembling" /\ state'[t] = "failed"
     /\ \E r \in Replicas : worker[r][t] = "fail" /\ Fenced(r, t)
  \/ /\ Exists(t) /\ state'[t] = "finalized"
     /\ \E p \in Tasks : task[p].at = "mark" /\ task[p].sid = t
  \/ /\ state'[t] = "gone"
     /\ \/ Exists(t) /\ expired[t]
        \/ \E p \in Tasks : task[p].at = "delete" /\ task[p].sid = t
        \/ \E p \in Tasks : task[p].at = "mkdir" /\ task[p].sid = t

\* How the state of a session may change in a step.
LEMMA StateMoves ==
  ASSUME TypeOK, [Next]_vars, NEW t \in Sessions
  PROVE  StateMove(t)
<1> USE DEF StateMove, TypeOK
<1>1. CASE UNCHANGED state
  BY <1>1
<1>2. ASSUME NEW r \in Replicas, NEW s \in Sessions, StartAssembly(r, s)
      PROVE  StateMove(t)
  BY <1>2, ClearLeaseFacts DEF StartAssembly, RowOK
<1>3. ASSUME NEW r \in Replicas, NEW s \in Sessions, FinishAssembly(r, s)
      PROVE  StateMove(t)
  BY <1>3 DEF FinishAssembly, RowOK, Fenced
<1>4. ASSUME NEW r \in Replicas, NEW s \in Sessions, FailAssembly(r, s)
      PROVE  StateMove(t)
  BY <1>4 DEF FailAssembly, RowOK, Fenced
<1>5. ASSUME NEW p \in Tasks, NEW s \in Sessions, CreateUploadSession(p, s)
      PROVE  StateMove(t)
  BY <1>5, GotoFacts DEF CreateUploadSession, At, RowOK, TaskSteps
<1>6. ASSUME NEW p \in Tasks, NEW s \in Sessions, CreateChunkDir(p, s)
      PROVE  StateMove(t)
  BY <1>6, DropRowFacts DEF CreateChunkDir, RowOK, row, At
<1>7. ASSUME NEW p \in Tasks, NEW s \in Sessions, MarkUploadFinalized(p, s)
      PROVE  StateMove(t)
  BY <1>7 DEF MarkUploadFinalized, RowOK, At
<1>8. ASSUME NEW p \in Tasks, NEW s \in Sessions, DeleteUploadSession(p, s)
      PROVE  StateMove(t)
  BY <1>8, DropRowFacts DEF DeleteUploadSession, RowOK, row, At
<1>9. ASSUME NEW p \in Tasks, NEW s \in Sessions, TakeExpired(p, s)
      PROVE  StateMove(t)
  BY <1>9, DropRowFacts DEF TakeExpired, RowOK
<1>10. ASSUME NEW r \in Replicas, NEW s \in Sessions,
              StartAssembly(r, s) \/ RenewAssembly(r, s) \/ Worker(r, s)
                \/ WorkerFault(r, s)
       PROVE  StateMove(t)
  BY <1>10, <1>1, <1>2, <1>3, <1>4 DEF Worker, WorkerFault, RenewAssembly,
     ResumeOrphaned, ClaimAssembly, CopyChunks, RenameBlob, DeleteChunks,
     ReleaseAssembly, Interrupt, DiskError, RecordGivesUp, disk, row, vars
<1>11. ASSUME NEW p \in Tasks, NEW s \in Sessions, Request(p, s) \/ Handler(p, s)
       PROVE  StateMove(t)
  BY <1>11, <1>1, <1>5, <1>6, <1>7, <1>8, <1>9 DEF Request, Handler,
     InitUpload, FinalizeUpload, CancelUpload, SaveChunk, RecordChunk,
     GetFileSize, CreateFile, CancelMissing, RemoveChunks, GetFileForAdmin,
     DeleteFile, UploadChunk, disk, row, vars
<1>12. CASE \/ \E s \in Sessions : Expire(s) \/ LeaseRunsOut(s)
            \/ \E r \in Replicas : Crash(r)
            \/ \E p \in Tasks : Abandon(p)
            \/ UNCHANGED vars
  BY <1>12, <1>1 DEF Expire, LeaseRunsOut, Crash, Abandon, disk, row, vars
<1> QED
  BY <1>10, <1>11, <1>12 DEF Next

RecordedMove(t) ==
  \/ recorded'[t] = recorded[t]
  \/ state'[t] = "gone"
  \/ /\ state[t] = "uploading" /\ state'[t] = "uploading" /\ ~expired[t]
     /\ \E p \in Tasks :
          /\ task[p].at = "record" /\ task[p].sid = t
          /\ recorded'[t] = recorded[t] \cup {task[p].idx}

\* How the recorded chunks of a session may change in a step.
LEMMA RecordedMoves ==
  ASSUME TypeOK, [Next]_vars, NEW t \in Sessions
  PROVE  RecordedMove(t)
<1> USE DEF RecordedMove, TypeOK
<1>1. CASE UNCHANGED recorded
  BY <1>1
<1>2. ASSUME NEW p \in Tasks, NEW s \in Sessions, RecordChunk(p, s)
      PROVE  RecordedMove(t)
  BY <1>2 DEF RecordChunk, RowOK, At
<1>3. ASSUME NEW p \in Tasks, NEW s \in Sessions, CreateChunkDir(p, s)
      PROVE  RecordedMove(t)
  BY <1>3, DropRowFacts DEF CreateChunkDir, RowOK, row
<1>4. ASSUME NEW p \in Tasks, NEW s \in Sessions, DeleteUploadSession(p, s)
      PROVE  RecordedMove(t)
  BY <1>4, DropRowFacts DEF DeleteUploadSession, RowOK, row
<1>5. ASSUME NEW p \in Tasks, NEW s \in Sessions, TakeExpired(p, s)
      PROVE  RecordedMove(t)
  BY <1>5, DropRowFacts DEF TakeExpired, RowOK
<1>6. ASSUME NEW r \in Replicas, NEW s \in Sessions,
             StartAssembly(r, s) \/ RenewAssembly(r, s) \/ Worker(r, s)
               \/ WorkerFault(r, s)
      PROVE  RecordedMove(t)
  BY <1>6, <1>1 DEF Worker, WorkerFault, StartAssembly, RenewAssembly,
     ResumeOrphaned, ClaimAssembly, CopyChunks, RenameBlob, FinishAssembly,
     DeleteChunks, FailAssembly, ReleaseAssembly, Interrupt, DiskError,
     RecordGivesUp, disk, row, vars
<1>7. ASSUME NEW p \in Tasks, NEW s \in Sessions, Request(p, s) \/ Handler(p, s)
      PROVE  RecordedMove(t)
  BY <1>7, <1>1, <1>2, <1>3, <1>4, <1>5 DEF Request, Handler, InitUpload,
     FinalizeUpload, CancelUpload, CreateUploadSession, SaveChunk,
     GetFileSize, CreateFile, MarkUploadFinalized, CancelMissing,
     RemoveChunks, GetFileForAdmin, DeleteFile, UploadChunk, disk, row, vars
<1>8. CASE \/ \E s \in Sessions : Expire(s) \/ LeaseRunsOut(s)
           \/ \E r \in Replicas : Crash(r)
           \/ \E p \in Tasks : Abandon(p)
           \/ UNCHANGED vars
  BY <1>8, <1>1 DEF Expire, LeaseRunsOut, Crash, Abandon, disk, row, vars
<1> QED
  BY <1>6, <1>7, <1>8 DEF Next

ExpiredMove(t) ==
  \/ expired'[t] = expired[t]
  \/ state'[t] \in {"assembled", "gone"} /\ ~expired'[t]
  \/ Exists(t) /\ state'[t] = state[t] /\ expired'[t]

\* When a session may expire, or be given more time, in a step.
LEMMA ExpiredMoves ==
  ASSUME TypeOK, [Next]_vars, NEW t \in Sessions
  PROVE  ExpiredMove(t)
<1> USE DEF ExpiredMove, TypeOK
<1>1. CASE UNCHANGED expired
  BY <1>1
<1>2. ASSUME NEW r \in Replicas, NEW s \in Sessions, FinishAssembly(r, s)
      PROVE  ExpiredMove(t)
  BY <1>2 DEF FinishAssembly, RowOK, Fenced
<1>3. ASSUME NEW p \in Tasks, NEW s \in Sessions, CreateChunkDir(p, s)
      PROVE  ExpiredMove(t)
  BY <1>3, DropRowFacts DEF CreateChunkDir, RowOK, row
<1>4. ASSUME NEW p \in Tasks, NEW s \in Sessions, DeleteUploadSession(p, s)
      PROVE  ExpiredMove(t)
  BY <1>4, DropRowFacts DEF DeleteUploadSession, RowOK, row
<1>5. ASSUME NEW p \in Tasks, NEW s \in Sessions, TakeExpired(p, s)
      PROVE  ExpiredMove(t)
  BY <1>5, DropRowFacts DEF TakeExpired, RowOK
<1>6. ASSUME NEW s \in Sessions, Expire(s)
      PROVE  ExpiredMove(t)
  BY <1>6 DEF Expire, RowOK
<1>7. ASSUME NEW r \in Replicas, NEW s \in Sessions,
             StartAssembly(r, s) \/ RenewAssembly(r, s) \/ Worker(r, s)
               \/ WorkerFault(r, s)
      PROVE  ExpiredMove(t)
  BY <1>7, <1>1, <1>2 DEF Worker, WorkerFault, StartAssembly, RenewAssembly,
     ResumeOrphaned, ClaimAssembly, CopyChunks, RenameBlob, DeleteChunks,
     FailAssembly, ReleaseAssembly, Interrupt, DiskError, RecordGivesUp, disk,
     row, vars
<1>8. ASSUME NEW p \in Tasks, NEW s \in Sessions, Request(p, s) \/ Handler(p, s)
      PROVE  ExpiredMove(t)
  BY <1>8, <1>1, <1>3, <1>4, <1>5 DEF Request, Handler, InitUpload,
     FinalizeUpload, CancelUpload, CreateUploadSession, SaveChunk,
     RecordChunk, GetFileSize, CreateFile, MarkUploadFinalized, CancelMissing,
     RemoveChunks, GetFileForAdmin, DeleteFile, UploadChunk, disk, row, vars
<1>9. CASE \/ \E s \in Sessions : Expire(s) \/ LeaseRunsOut(s)
           \/ \E r \in Replicas : Crash(r)
           \/ \E p \in Tasks : Abandon(p)
           \/ UNCHANGED vars
  BY <1>9, <1>1, <1>6 DEF LeaseRunsOut, Crash, Abandon, disk, row, vars
<1> QED
  BY <1>7, <1>8, <1>9 DEF Next

OwnerMove(t) ==
  \/ owner'[t] \in {owner[t], None}
  \/ \E r \in Replicas :
       owner'[t] = r /\ worker[r][t] = "claim" /\ worker'[r][t] = "copy"

\* Who may take or lose the lease of a session in a step.
LEMMA OwnerMoves ==
  ASSUME TypeOK, [Next]_vars, NEW t \in Sessions
  PROVE  OwnerMove(t)
<1> USE DEF OwnerMove, TypeOK
<1>1. CASE UNCHANGED owner
  BY <1>1
<1>2. ASSUME NEW r \in Replicas, NEW s \in Sessions, StartAssembly(r, s)
      PROVE  OwnerMove(t)
  BY <1>2, ClearLeaseFacts DEF StartAssembly, RowOK
<1>3. ASSUME NEW r \in Replicas, NEW s \in Sessions, ClaimAssembly(r, s)
      PROVE  OwnerMove(t)
  BY <1>3, WorkFacts DEF ClaimAssembly, RowOK, WorkerSteps
<1>4. ASSUME NEW r \in Replicas, NEW s \in Sessions, FinishAssembly(r, s)
      PROVE  OwnerMove(t)
  BY <1>4, ClearLeaseFacts DEF FinishAssembly, RowOK
<1>5. ASSUME NEW r \in Replicas, NEW s \in Sessions, FailAssembly(r, s)
      PROVE  OwnerMove(t)
  BY <1>5, ClearLeaseFacts DEF FailAssembly, RowOK
<1>6. ASSUME NEW r \in Replicas, NEW s \in Sessions, ReleaseAssembly(r, s)
      PROVE  OwnerMove(t)
  BY <1>6, ClearLeaseFacts DEF ReleaseAssembly, RowOK
<1>7. ASSUME NEW p \in Tasks, NEW s \in Sessions, CreateChunkDir(p, s)
      PROVE  OwnerMove(t)
  BY <1>7, DropRowFacts DEF CreateChunkDir, RowOK, row
<1>8. ASSUME NEW p \in Tasks, NEW s \in Sessions, DeleteUploadSession(p, s)
      PROVE  OwnerMove(t)
  BY <1>8, DropRowFacts DEF DeleteUploadSession, RowOK, row
<1>9. ASSUME NEW p \in Tasks, NEW s \in Sessions, TakeExpired(p, s)
      PROVE  OwnerMove(t)
  BY <1>9, DropRowFacts DEF TakeExpired, RowOK
<1>10. ASSUME NEW r \in Replicas, NEW s \in Sessions,
              StartAssembly(r, s) \/ RenewAssembly(r, s) \/ Worker(r, s)
                \/ WorkerFault(r, s)
       PROVE  OwnerMove(t)
  BY <1>10, <1>1, <1>2, <1>3, <1>4, <1>5, <1>6 DEF Worker, WorkerFault,
     RenewAssembly, ResumeOrphaned, CopyChunks, RenameBlob, DeleteChunks,
     Interrupt, DiskError, RecordGivesUp, disk, row, vars
<1>11. ASSUME NEW p \in Tasks, NEW s \in Sessions, Request(p, s) \/ Handler(p, s)
       PROVE  OwnerMove(t)
  BY <1>11, <1>1, <1>7, <1>8, <1>9 DEF Request, Handler, InitUpload,
     FinalizeUpload, CancelUpload, CreateUploadSession, SaveChunk,
     RecordChunk, GetFileSize, CreateFile, MarkUploadFinalized, CancelMissing,
     RemoveChunks, GetFileForAdmin, DeleteFile, UploadChunk, disk, row, vars
<1>12. CASE \/ \E s \in Sessions : Expire(s) \/ LeaseRunsOut(s)
            \/ \E r \in Replicas : Crash(r)
            \/ \E p \in Tasks : Abandon(p)
            \/ UNCHANGED vars
  BY <1>12, <1>1 DEF Expire, LeaseRunsOut, Crash, Abandon, disk, row, vars
<1> QED
  BY <1>10, <1>11, <1>12 DEF Next

ChunksMove(t) ==
  \/ chunks[t] \subseteq chunks'[t]
  \/ \E r \in Replicas : worker[r][t] = "tidy"
  \/ \E p \in Tasks :
       task[p].sid = t /\ task[p].at \in {"chunks", "chunksonly"}

\* Which steps add or delete the chunk files of a session.
LEMMA ChunksMoves ==
  ASSUME TypeOK, [Next]_vars, NEW t \in Sessions
  PROVE  ChunksMove(t)
<1> USE DEF ChunksMove, TypeOK
<1>1. CASE UNCHANGED chunks
  BY <1>1
<1>2. ASSUME NEW p \in Tasks, NEW s \in Sessions, SaveChunk(p, s)
      PROVE  ChunksMove(t)
  BY <1>2 DEF SaveChunk
<1>3. ASSUME NEW r \in Replicas, NEW s \in Sessions, DeleteChunks(r, s)
      PROVE  ChunksMove(t)
  BY <1>3 DEF DeleteChunks
<1>4. ASSUME NEW p \in Tasks, NEW s \in Sessions, CancelMissing(p, s)
      PROVE  ChunksMove(t)
  BY <1>4 DEF CancelMissing, At
<1>5. ASSUME NEW p \in Tasks, NEW s \in Sessions, RemoveChunks(p, s)
      PROVE  ChunksMove(t)
  BY <1>5 DEF RemoveChunks, At
<1>6. ASSUME NEW r \in Replicas, NEW s \in Sessions,
             StartAssembly(r, s) \/ RenewAssembly(r, s) \/ Worker(r, s)
               \/ WorkerFault(r, s)
      PROVE  ChunksMove(t)
  BY <1>6, <1>1, <1>3 DEF Worker, WorkerFault, StartAssembly, RenewAssembly,
     ResumeOrphaned, ClaimAssembly, CopyChunks, RenameBlob, FinishAssembly,
     FailAssembly, ReleaseAssembly, Interrupt, DiskError, RecordGivesUp, disk,
     row, vars
<1>7. ASSUME NEW p \in Tasks, NEW s \in Sessions, Request(p, s) \/ Handler(p, s)
      PROVE  ChunksMove(t)
  BY <1>7, <1>1, <1>2, <1>4, <1>5 DEF Request, Handler, InitUpload,
     FinalizeUpload, CancelUpload, TakeExpired, CreateUploadSession,
     CreateChunkDir, RecordChunk, GetFileSize, CreateFile,
     MarkUploadFinalized, DeleteUploadSession, GetFileForAdmin, DeleteFile,
     UploadChunk, disk, row, vars
<1>8. CASE \/ \E s \in Sessions : Expire(s) \/ LeaseRunsOut(s)
           \/ \E r \in Replicas : Crash(r)
           \/ \E p \in Tasks : Abandon(p)
           \/ UNCHANGED vars
  BY <1>8, <1>1 DEF Expire, LeaseRunsOut, Crash, Abandon, disk, row, vars
<1> QED
  BY <1>6, <1>7, <1>8 DEF Next

BlobMove(f) ==
  \/ blob'[f] = blob[f]
  \/ \E s \in Sessions, r \in Replicas :
       FileOf[s] = f /\ worker[r][s] = "rename" /\ blob'[f] = s
  \/ \E p \in Tasks :
       /\ task[p].at = "unlink" /\ task[p].sid \in Sessions
       /\ FileOf[task[p].sid] = f /\ blob'[f] = None

\* Which steps write or delete a blob.
LEMMA BlobMoves ==
  ASSUME TypeOK, [Next]_vars, NEW f \in Files
  PROVE  BlobMove(f)
<1> USE DEF BlobMove, TypeOK
<1>1. CASE UNCHANGED blob
  BY <1>1
<1>2. ASSUME NEW r \in Replicas, NEW s \in Sessions, RenameBlob(r, s)
      PROVE  BlobMove(f)
  BY <1>2 DEF RenameBlob
<1>3. ASSUME NEW p \in Tasks, NEW s \in Sessions, DeleteFile(p, s)
      PROVE  BlobMove(f)
  BY <1>3 DEF DeleteFile, At
<1>4. ASSUME NEW r \in Replicas, NEW s \in Sessions,
             StartAssembly(r, s) \/ RenewAssembly(r, s) \/ Worker(r, s)
               \/ WorkerFault(r, s)
      PROVE  BlobMove(f)
  BY <1>4, <1>1, <1>2 DEF Worker, WorkerFault, StartAssembly, RenewAssembly,
     ResumeOrphaned, ClaimAssembly, CopyChunks, FinishAssembly, DeleteChunks,
     FailAssembly, ReleaseAssembly, Interrupt, DiskError, RecordGivesUp, disk,
     row, vars
<1>5. ASSUME NEW p \in Tasks, NEW s \in Sessions, Request(p, s) \/ Handler(p, s)
      PROVE  BlobMove(f)
  BY <1>5, <1>1, <1>3 DEF Request, Handler, InitUpload, FinalizeUpload,
     CancelUpload, TakeExpired, CreateUploadSession, CreateChunkDir,
     SaveChunk, RecordChunk, GetFileSize, CreateFile, MarkUploadFinalized,
     CancelMissing, DeleteUploadSession, RemoveChunks, GetFileForAdmin,
     UploadChunk, disk, row, vars
<1>6. CASE \/ \E s \in Sessions : Expire(s) \/ LeaseRunsOut(s)
           \/ \E r \in Replicas : Crash(r)
           \/ \E p \in Tasks : Abandon(p)
           \/ UNCHANGED vars
  BY <1>6, <1>1 DEF Expire, LeaseRunsOut, Crash, Abandon, disk, row, vars
<1> QED
  BY <1>4, <1>5, <1>6 DEF Next

FilesMove(f) ==
  \/ files'[f] = files[f] /\ (f \in late' <=> f \in late)
  \/ \E p \in Tasks, s \in Sessions :
       /\ task[p].at = "create" /\ task[p].sid = s /\ FileOf[s] = f
       /\ files[f] = None /\ files'[f] = s /\ state'[s] = state[s]
       /\ f \in late' <=> f \in late \/ state[s] = "gone"

\* Which steps create a files row, and which of them come late.
LEMMA FilesMoves ==
  ASSUME TypeOK, [Next]_vars, NEW f \in Files
  PROVE  FilesMove(f)
<1> USE DEF FilesMove, TypeOK
<1>1. CASE UNCHANGED <<files, late>>
  BY <1>1
<1>2. ASSUME NEW p \in Tasks, NEW s \in Sessions, CreateFile(p, s)
      PROVE  FilesMove(f)
  <2>1. CASE UNCHANGED <<files, late>>
    BY <1>1, <2>1
  <2>2. CASE FileOf[s] # f
    BY <1>2, <2>2 DEF CreateFile
  <2>3. CASE FileOf[s] = f /\ files[f] = None
    <3>1. /\ task[p].at = "create" /\ task[p].sid = s /\ state'[s] = state[s]
          /\ files'[f] = s
          /\ late' = IF state[s] = "gone" THEN late \cup {f} ELSE late
      BY <1>2, <2>3 DEF CreateFile, At, row
    <3> QED
      BY <2>3, <3>1
  <2> QED
    BY <1>2, <2>1, <2>2, <2>3 DEF CreateFile
<1>3. ASSUME NEW r \in Replicas, NEW s \in Sessions,
             StartAssembly(r, s) \/ RenewAssembly(r, s) \/ Worker(r, s)
               \/ WorkerFault(r, s)
      PROVE  FilesMove(f)
  BY <1>3, <1>1 DEF Worker, WorkerFault, StartAssembly, RenewAssembly,
     ResumeOrphaned, ClaimAssembly, CopyChunks, RenameBlob, FinishAssembly,
     DeleteChunks, FailAssembly, ReleaseAssembly, Interrupt, DiskError,
     RecordGivesUp, disk, row, vars
<1>4. ASSUME NEW p \in Tasks, NEW s \in Sessions, Request(p, s) \/ Handler(p, s)
      PROVE  FilesMove(f)
  BY <1>4, <1>1, <1>2 DEF Request, Handler, InitUpload, FinalizeUpload,
     CancelUpload, TakeExpired, CreateUploadSession, CreateChunkDir,
     SaveChunk, RecordChunk, GetFileSize, MarkUploadFinalized, CancelMissing,
     DeleteUploadSession, RemoveChunks, GetFileForAdmin, DeleteFile,
     UploadChunk, disk, row, vars
<1>5. CASE \/ \E s \in Sessions : Expire(s) \/ LeaseRunsOut(s)
           \/ \E r \in Replicas : Crash(r)
           \/ \E p \in Tasks : Abandon(p)
           \/ UNCHANGED vars
  BY <1>5, <1>1 DEF Expire, LeaseRunsOut, Crash, Abandon, disk, row, vars
<1> QED
  BY <1>3, <1>4, <1>5 DEF Next

\* A file is not taken away again, and one that came late stays late.
LEMMA FilesStay ==
  ASSUME TypeOK, [Next]_vars, NEW f \in Files
  PROVE  /\ files[f] # None => files'[f] = files[f] /\ (f \in late' <=> f \in late)
         /\ f \in late => f \in late'
BY FilesMoves DEF FilesMove

WorkerMove(r, s) ==
  \/ worker'[r][s] \in {worker[r][s], "idle"}
  \/ worker'[r][s] = "claim" /\ state'[s] = "assembling"
  \/ worker[r][s] = "claim" /\ worker'[r][s] = "copy"
  \/ worker[r][s] = "copy" /\ worker'[r][s] \in {"rename", "release"}
  \/ /\ worker[r][s] \in {"copy", "rename"} /\ worker'[r][s] = "fail"
     /\ DiskErrors \/ chunks[s] # Chunks
  \/ /\ worker[r][s] = "rename" /\ worker'[r][s] = "finish"
     /\ blob'[FileOf[s]] = s
  \/ worker'[r][s] = "tidy" /\ state'[s] = "assembled"

\* How a worker may move in a step, and what it found when it did.
LEMMA WorkerMoves ==
  ASSUME TypeOK, [Next]_vars, NEW q \in Replicas, NEW t \in Sessions
  PROVE  WorkerMove(q, t)
<1> USE DEF WorkerMove, TypeOK, WorkerSteps
<1>1. CASE UNCHANGED worker
  BY <1>1
<1>2. ASSUME NEW r \in Replicas, NEW s \in Sessions, StartAssembly(r, s)
      PROVE  WorkerMove(q, t)
  <2>1. worker'[q][t] = worker[q][t] \/ (q = r /\ t = s /\ worker'[r][s] = "claim")
    BY <1>2, WorkFacts DEF StartAssembly
  <2>2. state'[s] = "assembling"
    BY <1>2 DEF StartAssembly, RowOK
  <2> QED
    BY <1>2, <2>1, <2>2
<1>3. ASSUME NEW r \in Replicas, NEW s \in Sessions, ResumeOrphaned(r, s)
      PROVE  WorkerMove(q, t)
  <2>1. worker'[q][t] = worker[q][t] \/ (q = r /\ t = s /\ worker'[r][s] = "claim")
    BY <1>3, WorkFacts DEF ResumeOrphaned
  <2>2. state'[s] = "assembling"
    BY <1>3 DEF ResumeOrphaned, row
  <2> QED
    BY <1>3, <2>1, <2>2
<1>4. ASSUME NEW r \in Replicas, NEW s \in Sessions, ClaimAssembly(r, s)
      PROVE  WorkerMove(q, t)
  BY <1>4, WorkFacts DEF ClaimAssembly
<1>5. ASSUME NEW r \in Replicas, NEW s \in Sessions, CopyChunks(r, s)
      PROVE  WorkerMove(q, t)
  <2>1. worker'[q][t] = worker[q][t] \/ (q = r /\ t = s)
    BY <1>5, WorkFacts DEF CopyChunks
  <2>2. /\ worker[r][s] = "copy"
        /\ \/ worker'[r][s] = "rename"
           \/ worker'[r][s] = "fail" /\ chunks[s] # Chunks
    BY <1>5, WorkFacts DEF CopyChunks
  <2> QED
    BY <2>1, <2>2
<1>6. ASSUME NEW r \in Replicas, NEW s \in Sessions, RenameBlob(r, s)
      PROVE  WorkerMove(q, t)
  <2>1. worker'[q][t] = worker[q][t] \/ (q = r /\ t = s /\ worker'[r][s] = "finish")
    BY <1>6, WorkFacts DEF RenameBlob
  <2>2. worker[r][s] = "rename" /\ blob'[FileOf[s]] = s
    BY <1>6, FileOfAssumption DEF RenameBlob
  <2> QED
    BY <1>6, <2>1, <2>2
<1>7. ASSUME NEW r \in Replicas, NEW s \in Sessions, FinishAssembly(r, s)
      PROVE  WorkerMove(q, t)
  <2>1. worker'[q][t] = worker[q][t] \/ (q = r /\ t = s)
    BY <1>7, WorkFacts DEF FinishAssembly
  <2>2. \/ worker'[r][s] \in {worker[r][s], "idle"}
        \/ worker'[r][s] = "tidy" /\ state'[s] = "assembled"
    BY <1>7, WorkFacts DEF FinishAssembly, RowOK
  <2> QED
    BY <2>1, <2>2
<1>8. ASSUME NEW r \in Replicas, NEW s \in Sessions, DeleteChunks(r, s)
      PROVE  WorkerMove(q, t)
  BY <1>8, WorkFacts DEF DeleteChunks
<1>9. ASSUME NEW r \in Replicas, NEW s \in Sessions, FailAssembly(r, s)
      PROVE  WorkerMove(q, t)
  BY <1>9, WorkFacts DEF FailAssembly
<1>10. ASSUME NEW r \in Replicas, NEW s \in Sessions, ReleaseAssembly(r, s)
      PROVE  WorkerMove(q, t)
  BY <1>10, WorkFacts DEF ReleaseAssembly
<1>11. ASSUME NEW r \in Replicas, NEW s \in Sessions, Interrupt(r, s)
      PROVE  WorkerMove(q, t)
  BY <1>11, WorkFacts DEF Interrupt
<1>12. ASSUME NEW r \in Replicas, NEW s \in Sessions, DiskError(r, s)
      PROVE  WorkerMove(q, t)
  BY <1>12, WorkFacts DEF DiskError
<1>13. ASSUME NEW r \in Replicas, NEW s \in Sessions, RecordGivesUp(r, s)
      PROVE  WorkerMove(q, t)
  BY <1>13, WorkFacts DEF RecordGivesUp
<1>14. ASSUME NEW r \in Replicas, Crash(r)
      PROVE  WorkerMove(q, t)
  BY <1>14 DEF Crash
<1>15. ASSUME NEW r \in Replicas, NEW s \in Sessions,
              StartAssembly(r, s) \/ RenewAssembly(r, s) \/ Worker(r, s)
                \/ WorkerFault(r, s)
       PROVE  WorkerMove(q, t)
  BY <1>15, <1>1, <1>2, <1>3, <1>4, <1>5, <1>6, <1>7, <1>8, <1>9, <1>10,
     <1>11, <1>12, <1>13 DEF Worker, WorkerFault, RenewAssembly, disk, row,
     vars
<1>16. ASSUME NEW p \in Tasks, NEW s \in Sessions, Request(p, s) \/ Handler(p, s)
       PROVE  WorkerMove(q, t)
  BY <1>16, <1>1 DEF Request, Handler, InitUpload, FinalizeUpload,
     CancelUpload, TakeExpired, CreateUploadSession, CreateChunkDir,
     SaveChunk, RecordChunk, GetFileSize, CreateFile, MarkUploadFinalized,
     CancelMissing, DeleteUploadSession, RemoveChunks, GetFileForAdmin,
     DeleteFile, UploadChunk, disk, row, vars
<1>17. CASE \/ \E s \in Sessions : Expire(s) \/ LeaseRunsOut(s)
            \/ \E r \in Replicas : Crash(r)
            \/ \E p \in Tasks : Abandon(p)
            \/ UNCHANGED vars
  BY <1>17, <1>1, <1>14 DEF Expire, LeaseRunsOut, Abandon, disk, row, vars
<1> QED
  BY <1>15, <1>16, <1>17 DEF Next

\* How an idle task takes up work on session s.
TaskBegins(p, s) ==
  /\ task[p].at = "idle" /\ task'[p].sid = s
  /\ \A q \in Tasks \ {p} : task'[q] = task[q]
  /\ \/ task'[p].at = "insert" /\ state[s] = "none" /\ ~Busy(s, {"insert"})
     \/ task'[p].at = "save" /\ state[s] = "uploading" /\ Answered(s)
     \/ /\ task'[p].at = "mark" /\ Live(s) /\ Answered(s)
        /\ files[FileOf[s]] # None
     \/ /\ task'[p].at = "size" /\ Answered(s) /\ state[s] = "assembled" /\ ~expired[s]
        /\ files[FileOf[s]] = None /\ expired'[s] = expired[s]
        /\ blob'[FileOf[s]] = blob[FileOf[s]]
     \/ task'[p].at = "delete" /\ Live(s) /\ Answered(s)
     \/ /\ task'[p].at = "chunksonly" /\ state[s] # "none" /\ ~Live(s)
        /\ Answered(s)
        /\ state'[s] = state[s] /\ expired'[s] = expired[s]
     \/ /\ task'[p].at = "chunks" /\ expired[s] /\ Exists(s)
        /\ state'[s] = "gone"

\* How a task goes on with session s.
TaskGoesOn(p, s) ==
  /\ task[p].sid = s /\ task'[p].sid = s /\ task'[p].idx = task[p].idx
  /\ \/ /\ task[p].at = "insert" /\ task'[p].at = "mkdir"
        /\ state'[s] = "uploading"
     \/ /\ task[p].at = "save" /\ task'[p].at = "record"
        /\ task[p].idx \in chunks'[s]
     \/ task[p].at = "size" /\ task'[p].at = "create"
     \/ /\ task[p].at = "create" /\ task'[p].at = "mark"
        /\ files'[FileOf[s]] # None
     \/ /\ task[p].at = "delete" /\ task'[p].at = "chunks"
        /\ state'[s] = "gone" \/ ~Exists(s)
     \/ task[p].at = "chunks" /\ task'[p].at = "lookup"
     \/ /\ task[p].at = "lookup" /\ task'[p].at = "unlink"
        /\ files'[FileOf[s]] = None

TaskMove(p) ==
  \/ task'[p] = task[p]
  \/ task'[p] = Idle
  \/ \E s \in Sessions : TaskBegins(p, s) \/ TaskGoesOn(p, s)

\* How a task may move in a step, and what it found when it did.
LEMMA TaskMoves ==
  ASSUME TypeOK, [Next]_vars, NEW q \in Tasks
  PROVE  TaskMove(q)
<1> USE DEF TaskMove, TypeOK
<1>1. CASE UNCHANGED task
  BY <1>1
<1>2. ASSUME NEW p \in Tasks, NEW s \in Sessions, InitUpload(p, s)
      PROVE  TaskMove(q)
  BY <1>2, BeginFacts DEF TaskBegins, TaskSteps, InitUpload, RowOK
<1>3. ASSUME NEW p \in Tasks, NEW s \in Sessions, NEW c \in Chunks, UploadChunk(p, s, c)
      PROVE  TaskMove(q)
  BY <1>3 DEF UploadChunk, TaskBegins, TaskRecords
<1>4. ASSUME NEW p \in Tasks, NEW s \in Sessions, FinalizeUpload(p, s)
      PROVE  TaskMove(q)
  BY <1>4, BeginFacts DEF TaskBegins, TaskSteps, FinalizeUpload, row, disk,
     Live
<1>5. ASSUME NEW p \in Tasks, NEW s \in Sessions, CancelUpload(p, s)
      PROVE  TaskMove(q)
  BY <1>5, BeginFacts DEF TaskBegins, TaskSteps, CancelUpload, row
<1>6. ASSUME NEW p \in Tasks, NEW s \in Sessions, TakeExpired(p, s)
      PROVE  TaskMove(q)
  BY <1>6, DropRowFacts, BeginFacts DEF TaskBegins, TaskSteps, TakeExpired
<1>7. ASSUME NEW p \in Tasks, NEW s \in Sessions, CreateUploadSession(p, s)
      PROVE  TaskMove(q)
  BY <1>7, GotoFacts, EndFacts DEF TaskGoesOn, At, TaskSteps,
     CreateUploadSession, RowOK
<1>8. ASSUME NEW p \in Tasks, NEW s \in Sessions, CreateChunkDir(p, s)
      PROVE  TaskMove(q)
  BY <1>8, GotoFacts, EndFacts DEF TaskGoesOn, At, TaskSteps, CreateChunkDir
<1>9. ASSUME NEW p \in Tasks, NEW s \in Sessions, SaveChunk(p, s)
      PROVE  TaskMove(q)
  BY <1>9, GotoFacts, EndFacts DEF TaskGoesOn, At, TaskSteps, SaveChunk
<1>10. ASSUME NEW p \in Tasks, NEW s \in Sessions, RecordChunk(p, s)
      PROVE  TaskMove(q)
  BY <1>10, GotoFacts, EndFacts DEF TaskGoesOn, At, TaskSteps, RecordChunk
<1>11. ASSUME NEW p \in Tasks, NEW s \in Sessions, GetFileSize(p, s)
      PROVE  TaskMove(q)
  BY <1>11, GotoFacts, EndFacts DEF TaskGoesOn, At, TaskSteps, GetFileSize
<1>12. ASSUME NEW p \in Tasks, NEW s \in Sessions, CreateFile(p, s)
      PROVE  TaskMove(q)
  BY <1>12, FileOfAssumption, NoneAssumption, GotoFacts, EndFacts DEF
     TaskGoesOn, At, TaskSteps, CreateFile
<1>13. ASSUME NEW p \in Tasks, NEW s \in Sessions, MarkUploadFinalized(p, s)
      PROVE  TaskMove(q)
  BY <1>13, GotoFacts, EndFacts DEF TaskGoesOn, At, TaskSteps,
     MarkUploadFinalized
<1>14. ASSUME NEW p \in Tasks, NEW s \in Sessions, CancelMissing(p, s)
      PROVE  TaskMove(q)
  BY <1>14, GotoFacts, EndFacts DEF TaskGoesOn, At, TaskSteps, CancelMissing
<1>15. ASSUME NEW p \in Tasks, NEW s \in Sessions, DeleteUploadSession(p, s)
      PROVE  TaskMove(q)
  BY <1>15, DropRowFacts, GotoFacts, EndFacts DEF TaskGoesOn, At, TaskSteps,
     DeleteUploadSession
<1>16. ASSUME NEW p \in Tasks, NEW s \in Sessions, RemoveChunks(p, s)
      PROVE  TaskMove(q)
  BY <1>16, GotoFacts, EndFacts DEF TaskGoesOn, At, TaskSteps, RemoveChunks
<1>17. ASSUME NEW p \in Tasks, NEW s \in Sessions, GetFileForAdmin(p, s)
      PROVE  TaskMove(q)
  BY <1>17, GotoFacts, EndFacts DEF TaskGoesOn, At, TaskSteps, GetFileForAdmin
<1>18. ASSUME NEW p \in Tasks, NEW s \in Sessions, DeleteFile(p, s)
      PROVE  TaskMove(q)
  BY <1>18, GotoFacts, EndFacts DEF TaskGoesOn, At, TaskSteps, DeleteFile
<1>19. ASSUME NEW p \in Tasks, Abandon(p)
      PROVE  TaskMove(q)
  BY <1>19, EndFacts DEF Abandon
<1>20. ASSUME NEW r \in Replicas, NEW s \in Sessions,
              StartAssembly(r, s) \/ RenewAssembly(r, s) \/ Worker(r, s)
                \/ WorkerFault(r, s)
       PROVE  TaskMove(q)
  BY <1>20, <1>1 DEF Worker, WorkerFault, StartAssembly, RenewAssembly,
     ResumeOrphaned, ClaimAssembly, CopyChunks, RenameBlob, FinishAssembly,
     DeleteChunks, FailAssembly, ReleaseAssembly, Interrupt, DiskError,
     RecordGivesUp, disk, row, vars
<1>21. ASSUME NEW p \in Tasks, NEW s \in Sessions, Request(p, s) \/ Handler(p, s)
       PROVE  TaskMove(q)
  BY <1>21, <1>1, <1>2, <1>3, <1>4, <1>5, <1>6, <1>7, <1>8, <1>9, <1>10,
     <1>11, <1>12, <1>13, <1>14, <1>15, <1>16, <1>17, <1>18 DEF Request,
     Handler, disk, row, vars
<1>22. CASE \/ \E s \in Sessions : Expire(s) \/ LeaseRunsOut(s)
            \/ \E r \in Replicas : Crash(r)
            \/ \E p \in Tasks : Abandon(p)
            \/ UNCHANGED vars
  BY <1>22, <1>1, <1>19 DEF Expire, LeaseRunsOut, Crash, disk, row, vars
<1> QED
  BY <1>20, <1>21, <1>22 DEF Next

----------------------------------------------------------------------------
(* Assemblies: Inv is inductive                                             *)

\* A row that is gone stays gone, and sessions are not un-inserted.
LEMMA GoneStaysGone ==
  ASSUME TypeOK, [Next]_vars, InsertedOnce, NEW s \in Sessions
  PROVE  /\ state[s] = "gone" => state'[s] = "gone"
         /\ state'[s] = "none" => state[s] = "none"
BY StateMoves DEF StateMove, Exists, RowStates, InsertedOnce

\* No step starts an assembly from an incomplete set of chunks.
LEMMA AssembledWholeStep ==
  ASSUME SessionInv, [Next]_vars
  PROVE  AssembledWhole'
<1> USE DEF SessionInv
<1> SUFFICES ASSUME NEW t \in Sessions, state'[t] \in {"assembling", "failed"}
             PROVE  recorded'[t] = Chunks
  BY DEF AssembledWhole
<1>1. recorded[t] = Chunks
  BY StateMoves DEF StateMove, AssembledWhole
<1>2. RecordedMove(t)
  BY RecordedMoves
<1>3. state[t] = "uploading" => state'[t] # "uploading"
  OBVIOUS
<1> QED
  BY <1>1, <1>2 DEF RecordedMove

\* No step works on a session that has no row yet.
LEMMA UntouchedStep ==
  ASSUME SessionInv, TypeOK', [Next]_vars
  PROVE  Untouched'
<1> USE DEF SessionInv
<1> SUFFICES ASSUME NEW t \in Sessions, state'[t] = "none"
             PROVE  /\ recorded'[t] = {} /\ ~expired'[t]
                    /\ \A p \in Tasks :
                         task'[p].sid = t => task'[p].at = "insert"
                    /\ \A r \in Replicas : worker'[r][t] = "idle"
  BY DEF Untouched
<1>1. state[t] = "none"
  BY GoneStaysGone
<1>2. recorded'[t] = {} /\ ~expired'[t]
  BY <1>1, RecordedMoves, ExpiredMoves
     DEF Untouched, RecordedMove, ExpiredMove, Exists, RowStates
<1>3. ASSUME NEW p \in Tasks, task'[p].sid = t
      PROVE  task'[p].at = "insert"
  BY <1>1, <1>3, TaskMoves, NoneAssumption
     DEF Untouched, TaskMove, TaskBegins, TaskGoesOn, Idle, Live, Exists,
         RowStates
<1>4. ASSUME NEW r \in Replicas
      PROVE  worker'[r][t] = "idle"
  <2>1. worker[r][t] = "idle"
    BY <1>1 DEF Untouched
  <2> QED
    BY <1>1, <2>1, WorkerMoves DEF WorkerMove, TypeOK, WorkerSteps
<1> QED
  BY <1>2, <1>3, <1>4

\* No step has a session ID inserted twice.
LEMMA InsertedOnceStep ==
  ASSUME SessionInv, [Next]_vars
  PROVE  InsertedOnce'
<1> USE DEF SessionInv
<1>1. ASSUME NEW p \in Tasks, task'[p].at = "insert"
      PROVE  \/ task'[p] = task[p]
             \/ \E s \in Sessions : TaskBegins(p, s)
  BY <1>1, TaskMoves DEF TaskMove, TaskGoesOn, Idle
<1>2. ASSUME NEW p \in Tasks, task'[p].at = "insert"
      PROVE  state'[task'[p].sid] = "none"
  <2> DEFINE s == task'[p].sid
  <2>1. s \in Sessions
    BY <1>1, <1>2 DEF TasksKnow, TaskBegins
  <2>2. state[s] = "none"
    BY <1>1, <1>2 DEF InsertedOnce, TaskBegins
  <2>3. ASSUME NEW q \in Tasks, task[q].at = "insert", task[q].sid = s,
               task'[q].at = "mkdir"
        PROVE  FALSE
    <3>1. CASE task'[p] = task[p]
      BY <1>2, <2>3, <3>1 DEF InsertedOnce
    <3>2. ASSUME NEW t \in Sessions, TaskBegins(p, t)
          PROVE  FALSE
      BY <1>2, <2>3, <3>2 DEF TaskBegins
    <3> QED
      BY <1>1, <1>2, <3>1, <3>2
  <2>4. StateMove(s)
    BY <2>1, StateMoves
  <2>5. ~ \E q \in Tasks : task[q].at \in {"mkdir", "delete"} /\ task[q].sid = s
    BY <2>1, <2>2 DEF Untouched
  <2> QED
    BY <2>2, <2>3, <2>4, <2>5 DEF StateMove, Exists, RowStates
<1>3. ASSUME NEW p \in Tasks, NEW q \in Tasks,
             task'[p].at = "insert", task'[q].at = "insert",
             task'[p].sid = task'[q].sid
      PROVE  p = q
  <2>1. CASE task'[p] = task[p] /\ task'[q] = task[q]
    BY <1>3, <2>1 DEF InsertedOnce
  <2>2. ASSUME NEW s \in Sessions, TaskBegins(p, s)
        PROVE  p = q
    BY <1>3, <2>2 DEF TaskBegins, Busy
  <2>3. ASSUME NEW s \in Sessions, TaskBegins(q, s)
        PROVE  p = q
    BY <1>3, <2>3 DEF TaskBegins, Busy
  <2> QED
    BY <1>1, <1>3, <2>1, <2>2, <2>3
<1> QED
  BY <1>2, <1>3 DEF InsertedOnce

\* As long as a session is pending and has not expired, its chunks stay.
LEMMA PendingKeepsChunks ==
  ASSUME SessionInv, [Next]_vars, NEW t \in Sessions,
         state[t] \in {"none", "uploading", "assembling", "failed"},
         state'[t] \in {"uploading", "assembling", "failed"},
         ~expired'[t]
  PROVE  ~expired[t] /\ chunks[t] \subseteq chunks'[t]
<1> USE DEF SessionInv
<1>1. ~expired[t]
  BY ExpiredMoves DEF ExpiredMove
<1>2. \A r \in Replicas : worker[r][t] # "tidy"
  BY DEF Removals
<1>3. \A p \in Tasks :
        task[p].sid = t => task[p].at \notin {"chunks", "chunksonly"}
  BY <1>1 DEF Removals
<1> QED
  BY <1>1, <1>2, <1>3, ChunksMoves DEF ChunksMove

\* No step loses a saved chunk before it is recorded.
LEMMA TasksKnowStep ==
  ASSUME SessionInv, [Next]_vars
  PROVE  TasksKnow'
<1> USE DEF SessionInv
<1>1. ASSUME NEW p \in Tasks, task'[p].at # "idle"
      PROVE  task'[p].sid \in Sessions
  BY <1>1, TaskMoves DEF TaskMove, TaskBegins, TaskGoesOn, Idle, TasksKnow
<1>2. ASSUME NEW p \in Tasks, task'[p].at = "record",
             NEW s \in Sessions, s = task'[p].sid,
             state'[s] = "uploading", ~expired'[s]
      PROVE  task'[p].idx \in chunks'[s]
  <2>1. CASE task'[p] = task[p]
    <3>1. state[s] # "none"
      BY <1>2, <2>1 DEF Untouched
    <3>2. state[s] = "uploading"
      BY <1>2, <3>1, StateMoves
         DEF StateMove, InsertedOnce
    <3> QED
      BY <1>2, <2>1, <3>2, PendingKeepsChunks DEF TasksKnow
  <2>2. CASE task'[p] # task[p]
    BY <1>2, <2>2, TaskMoves DEF TaskMove, TaskBegins, TaskGoesOn, Idle
  <2> QED
    BY <2>1, <2>2
<1> QED
  BY <1>1, <1>2 DEF TasksKnow

\* No step sends a remover after chunks or blobs that are still needed.
LEMMA RemovalsStep ==
  ASSUME SessionInv, [Next]_vars
  PROVE  Removals'
<1> USE DEF SessionInv
<1>1. ASSUME NEW r \in Replicas, NEW s \in Sessions, worker'[r][s] = "tidy"
      PROVE  state'[s] \in {"assembled", "finalized", "gone"}
  <2>1. \/ worker[r][s] = "tidy"
        \/ state'[s] = "assembled"
    BY <1>1, WorkerMoves DEF WorkerMove
  <2> QED
    BY <2>1, StateMoves DEF StateMove, Removals, InsertedOnce
<1>2. ASSUME NEW p \in Tasks, task'[p].at \in {"chunks", "lookup", "unlink"}
      PROVE  state'[task'[p].sid] = "gone"
  <2>1. CASE task'[p] = task[p]
    BY <1>2, <2>1, GoneStaysGone DEF Removals, TasksKnow
  <2>2. ASSUME NEW s \in Sessions, TaskBegins(p, s)
        PROVE  state'[task'[p].sid] = "gone"
    BY <1>2, <2>2 DEF TaskBegins
  <2>3. ASSUME NEW s \in Sessions, TaskGoesOn(p, s)
        PROVE  state'[task'[p].sid] = "gone"
    <3>1. CASE task[p].at = "delete"
      <4>1. state[s] # "none"
        BY <2>3, <3>1 DEF TaskGoesOn, Untouched
      <4> QED
        BY <1>2, <2>3, <3>1, <4>1, GoneStaysGone
           DEF TaskGoesOn, Exists, TypeOK, RowOK
    <3>2. CASE task[p].at # "delete"
      BY <1>2, <2>3, <3>2, GoneStaysGone DEF TaskGoesOn, Removals
    <3> QED
      BY <3>1, <3>2
  <2> QED
    BY <1>2, <2>1, <2>2, <2>3, TaskMoves DEF TaskMove, Idle
<1>3. ASSUME NEW p \in Tasks, task'[p].at = "chunksonly"
      PROVE  LET s == task'[p].sid IN
               state'[s] \in {"assembled", "finalized", "gone"} \/ expired'[s]
  <2>1. CASE task'[p] = task[p]
    <3> DEFINE s == task[p].sid
    <3>1. s \in Sessions
      BY <1>3, <2>1 DEF TasksKnow
    <3>2. state[s] \in {"assembled", "finalized", "gone"} \/ expired[s]
      BY <1>3, <2>1 DEF Removals
    <3>3. CASE state[s] \in {"assembled", "finalized", "gone"}
      BY <2>1, <3>1, <3>3, StateMoves DEF StateMove, InsertedOnce
    <3>4. CASE expired[s]
      BY <2>1, <3>1, <3>4, ExpiredMoves DEF ExpiredMove
    <3> QED
      BY <3>2, <3>3, <3>4
  <2>2. ASSUME NEW s \in Sessions, TaskBegins(p, s)
        PROVE  \/ state'[task'[p].sid] \in {"assembled", "finalized", "gone"}
               \/ expired'[task'[p].sid]
    <3>1. /\ task'[p].sid = s /\ state[s] # "none" /\ ~Live(s)
          /\ state'[s] = state[s] /\ expired'[s] = expired[s]
      BY <1>3, <2>2 DEF TaskBegins
    <3> QED
      BY <3>1 DEF Live, Exists, TypeOK, RowOK
  <2> QED
    BY <1>3, <2>1, <2>2, TaskMoves DEF TaskMove, TaskGoesOn, Idle
<1> QED
  BY <1>1, <1>2, <1>3 DEF Removals

\* The blob of a session that is not gone is only replaced by itself.
LEMMA BlobStays ==
  ASSUME DistinctFiles, SessionInv, [Next]_vars, NEW s \in Sessions,
         blob[FileOf[s]] = s, state[s] # "gone"
  PROVE  blob'[FileOf[s]] = s
<1>1. BlobMove(FileOf[s])
  BY FileOfAssumption, BlobMoves DEF SessionInv
<1> QED
  BY <1>1 DEF BlobMove, DistinctFiles, SessionInv, Removals

\* No step removes the blob of a worker about to record its assembly.
LEMMA FinishedHasBlobStep ==
  ASSUME DistinctFiles, Inv, [Next]_vars
  PROVE  FinishedHasBlob'
<1> USE DEF Inv, SessionInv
<1> SUFFICES ASSUME NEW r \in Replicas, NEW s \in Sessions,
                    worker'[r][s] = "finish", state'[s] # "gone"
             PROVE  blob'[FileOf[s]] = s
  BY DEF FinishedHasBlob
<1>1. state[s] # "gone"
  BY GoneStaysGone
<1> QED
  BY <1>1, WorkerMoves, BlobStays DEF WorkerMove, FinishedHasBlob

\* A session that is still being assembled by the owner of its lease was so
\* before, unless the owner is only about to copy.
LEMMA FencedBefore ==
  ASSUME SessionInv, [Next]_vars, NEW r \in Replicas, NEW s \in Sessions,
         Fenced(r, s)', worker'[r][s] # "copy"
  PROVE  Fenced(r, s)
BY StateMoves, OwnerMoves, NoneAssumption
   DEF SessionInv, Fenced, StateMove, OwnerMove

\* No step makes a lease holder fail for another reason than a disk error.
LEMMA FailingFairlyStep ==
  ASSUME SessionInv, [Next]_vars
  PROVE  FailingFairly'
<1> USE DEF SessionInv
<1> SUFFICES ASSUME NEW r \in Replicas, NEW s \in Sessions,
                    worker'[r][s] = "fail", Fenced(r, s)', ~DiskErrors
             PROVE  expired'[s]
  BY DEF FailingFairly
<1>1. Fenced(r, s)
  BY FencedBefore
<1>2. expired[s]
  <2>1. CASE worker[r][s] = "fail"
    BY <1>1, <2>1 DEF FailingFairly
  <2>2. CASE chunks[s] # Chunks
    <3>1. recorded[s] = Chunks /\ (~expired[s] => recorded[s] \subseteq chunks[s])
      BY <1>1 DEF Fenced, AssembledWhole, ChunksKept
    <3> QED
      BY <2>2, <3>1 DEF TypeOK
  <2> QED
    BY <2>1, <2>2, WorkerMoves DEF WorkerMove
<1> QED
  BY <1>2, ExpiredMoves DEF ExpiredMove, Fenced

\* No step leaves an assembled session without its blob.
LEMMA AssembledHasBlobStep ==
  ASSUME DistinctFiles, Inv, [Next]_vars
  PROVE  AssembledHasBlob'
<1> USE DEF Inv, SessionInv
<1> SUFFICES ASSUME NEW s \in Sessions, state'[s] = "assembled"
             PROVE  blob'[FileOf[s]] = s
  BY DEF AssembledHasBlob
<1>1. state[s] # "gone"
  BY GoneStaysGone
<1>2. blob[FileOf[s]] = s
  BY <1>1, StateMoves DEF StateMove, AssembledHasBlob, FinishedHasBlob
<1> QED
  BY <1>1, <1>2, BlobStays

\* No step deletes recorded chunks before the assembly is recorded.
LEMMA ChunksKeptStep ==
  ASSUME SessionInv, [Next]_vars
  PROVE  ChunksKept'
<1> USE DEF SessionInv
<1> SUFFICES ASSUME NEW t \in Sessions, ~expired'[t],
                    state'[t] \in {"uploading", "assembling", "failed"}
             PROVE  recorded'[t] \subseteq chunks'[t]
  BY DEF ChunksKept
<1>1. state[t] \in {"none", "uploading", "assembling", "failed"}
  BY StateMoves DEF StateMove, InsertedOnce
<1>2. ~expired[t] /\ chunks[t] \subseteq chunks'[t]
  BY <1>1, PendingKeepsChunks
<1>3. recorded[t] \subseteq chunks[t]
  BY <1>1, <1>2 DEF ChunksKept, Untouched
<1> QED
  BY <1>2, <1>3, RecordedMoves DEF RecordedMove, TasksKnow

\* No step fails an upload for another reason than a disk error.
LEMMA OnlyDiskErrorsFailStep ==
  ASSUME SessionInv, [Next]_vars
  PROVE  OnlyDiskErrorsFail'
<1> USE DEF SessionInv
<1> SUFFICES ASSUME NEW s \in Sessions, state'[s] = "failed", ~DiskErrors
             PROVE  expired'[s]
  BY DEF OnlyDiskErrorsFail
<1>1. expired[s]
  BY StateMoves DEF StateMove, OnlyDiskErrorsFail, FailingFairly
<1> QED
  BY <1>1, ExpiredMoves DEF ExpiredMove

\* SessionInv is inductive, whether or not sessions share file IDs.
LEMMA SessionStep ==
  ASSUME SessionInv, [Next]_vars
  PROVE  SessionInv'
<1>1. TypeOK'
  BY TypeStep DEF SessionInv
<1> QED
  BY <1>1, AssembledWholeStep, UntouchedStep, InsertedOnceStep, TasksKnowStep,
     RemovalsStep, FailingFairlyStep, ChunksKeptStep, OnlyDiskErrorsFailStep
     DEF SessionInv

\* It holds at the start.
LEMMA SessionInit ==
  ASSUME Init
  PROVE  SessionInv
BY MaxFaultsAssumption, NoneAssumption
   DEF Init, SessionInv, TypeOK, RowOK, Idle, TaskRecords, RowStates,
       WorkerSteps, TaskSteps, AssembledWhole, Untouched, InsertedOnce,
       TasksKnow, Removals, FailingFairly, ChunksKept, OnlyDiskErrorsFail,
       Fenced

\* The chunks of an upload that has not expired are there until its assembly is
\* recorded, and only disk errors fail it, whatever replicas, handlers, crashes
\* and lost leases do, also when clients choose the same file ID twice.
THEOREM ChunksStay == Spec => [](ChunksKept /\ OnlyDiskErrorsFail)
<1>1. SessionInv => ChunksKept /\ OnlyDiskErrorsFail
  BY DEF SessionInv
<1> QED
  BY <1>1, SessionInit, SessionStep, PTL DEF Spec

\* Assemblies are safe: for any number of replicas, sessions, chunks, handlers
\* and faults, Inv holds of every reachable state if file IDs are not reused.
THEOREM AssemblySafe ==
  ASSUME DistinctFiles
  PROVE  Spec => []Inv
<1>1. Init => Inv
  BY SessionInit DEF Init, Inv, FinishedHasBlob, AssembledHasBlob
<1>2. Inv /\ [Next]_vars => Inv'
  BY SessionStep, FinishedHasBlobStep, AssembledHasBlobStep DEF Inv
<1> QED
  BY <1>1, <1>2, PTL DEF Spec

\* The three promises of the assembly, whatever crashes, stalls, lost leases,
\* cancels and expiries happen while replicas assemble an upload.
THEOREM AssemblyPromises ==
  ASSUME DistinctFiles
  PROVE  Spec => [](AssembledHasBlob /\ ChunksKept /\ OnlyDiskErrorsFail)
<1>1. Inv => AssembledHasBlob /\ ChunksKept /\ OnlyDiskErrorsFail
  BY DEF Inv, SessionInv
<1> QED
  BY <1>1, AssemblySafe, PTL

----------------------------------------------------------------------------
(* Files: FileInv is inductive beside Inv, whatever cancels and expiries run *)
(* beside a finalize                                                        *)

\* No step marks a session finalized, or sets out to, without a file.
LEMMA FinalizedHasFileStep ==
  ASSUME SessionInv, FinalizedHasFile, [Next]_vars
  PROVE  FinalizedHasFile'
<1> USE DEF SessionInv
<1>0. \A s \in Sessions : FileOf[s] \in Files
  BY FileOfAssumption
<1>1. ASSUME NEW s \in Sessions, state'[s] = "finalized"
      PROVE  files'[FileOf[s]] # None
  BY <1>0, <1>1, StateMoves, FilesStay
     DEF StateMove, FinalizedHasFile, Exists, RowStates
<1>2. ASSUME NEW p \in Tasks, task'[p].at = "mark"
      PROVE  files'[FileOf[task'[p].sid]] # None \/ state'[task'[p].sid] = "gone"
  <2>1. CASE task'[p] = task[p]
    BY <1>0, <1>2, <2>1, FilesStay, GoneStaysGone DEF FinalizedHasFile, TasksKnow
  <2>2. ASSUME NEW s \in Sessions, TaskBegins(p, s)
        PROVE  files'[FileOf[task'[p].sid]] # None
    BY <1>0, <1>2, <2>2, FilesStay DEF TaskBegins
  <2>3. ASSUME NEW s \in Sessions, TaskGoesOn(p, s)
        PROVE  files'[FileOf[task'[p].sid]] # None
    BY <1>2, <2>3 DEF TaskGoesOn
  <2> QED
    BY <1>2, <2>1, <2>2, <2>3, TaskMoves DEF TaskMove, Idle
<1> QED
  BY <1>1, <1>2 DEF FinalizedHasFile

\* Only a removal, or another finalize, takes the assembled session away from a
\* finalize that is under way.
LEMMA FinalizesAssembledStep ==
  ASSUME SessionInv, FinalizeInv, [Next]_vars
  PROVE  FinalizesAssembled'
<1> USE DEF SessionInv, FinalizeInv
<1> SUFFICES ASSUME NEW p \in Tasks, task'[p].at \in {"size", "create"},
                    NEW s \in Sessions, s = task'[p].sid
             PROVE  state'[s] \in {"assembled", "gone"} \/ files'[FileOf[s]] # None
  <2>1. \A p \in Tasks : task'[p].at \in {"size", "create"}
          => task'[p].sid \in Sessions
    BY TasksKnowStep DEF TasksKnow
  <2> QED
    BY <2>1 DEF FinalizesAssembled
<1>0. FileOf[s] \in Files
  BY FileOfAssumption
<1>1. CASE files[FileOf[s]] # None
  BY <1>0, <1>1, FilesStay
<1>2. CASE state[s] = "gone"
  BY <1>2, GoneStaysGone
<1>3. CASE state[s] = "assembled" /\ files[FileOf[s]] = None
  <2>1. \A q \in Tasks : task[q].sid = s => task[q].at \notin {"insert", "mark"}
    BY <1>3 DEF InsertedOnce, FinalizedHasFile
  <2> QED
    BY <1>3, <2>1, StateMoves DEF StateMove
<1>4. CASE task[p].at \in {"size", "create"} /\ task[p].sid = s
  BY <1>1, <1>2, <1>3, <1>4 DEF FinalizesAssembled
<1>5. CASE \E t \in Sessions : TaskBegins(p, t)
  BY <1>1, <1>3, <1>5 DEF TaskBegins
<1> QED
  BY <1>4, <1>5, TaskMoves DEF TaskMove, TaskGoesOn, Idle

\* No step creates a file whose blob is about to be deleted, but a late one.
LEMMA UnlinkUnsharedStep ==
  ASSUME DistinctFiles, SessionInv, UnlinkUnshared, [Next]_vars
  PROVE  UnlinkUnshared'
<1> USE DEF SessionInv
<1> SUFFICES ASSUME NEW p \in Tasks, task'[p].at = "unlink",
                    NEW f, f = FileOf[task'[p].sid]
             PROVE  files'[f] = None \/ f \in late'
  BY DEF UnlinkUnshared
<1>1. CASE task'[p] = task[p]
  <2> DEFINE s == task[p].sid
  <2>1. s \in Sessions /\ f = FileOf[s] /\ f \in Files /\ state[s] = "gone"
    BY <1>1, FileOfAssumption DEF TasksKnow, Removals
  <2>2. files[f] = None \/ f \in late
    BY <1>1 DEF UnlinkUnshared
  <2>3. \A t \in Sessions : FileOf[t] = f => state[t] = "gone"
    BY <2>1 DEF DistinctFiles
  <2> QED
    BY <2>1, <2>2, <2>3, FilesMoves DEF FilesMove
<1>2. CASE task'[p] # task[p]
  BY <1>2, TaskMoves DEF TaskMove, TaskBegins, TaskGoesOn, Idle
<1> QED
  BY <1>1, <1>2

\* Files come from sessions with their ID, and late ones are files.
LEMMA FileFromOwnSessionStep ==
  ASSUME TypeOK, FileFromOwnSession, [Next]_vars
  PROVE  FileFromOwnSession'
<1>1. late' \subseteq Files
  BY TypeStep DEF TypeOK
<1>2. ASSUME NEW f \in Files
      PROVE  /\ files'[f] # None => FileOf[files'[f]] = f
             /\ f \in late' => files'[f] # None
  BY FilesMoves, NoneAssumption DEF FilesMove, FileFromOwnSession
<1> QED
  BY <1>1, <1>2 DEF FileFromOwnSession

\* No step leaves a file without the blob it was created from, but a late one.
LEMMA FileHasBlobStep ==
  ASSUME DistinctFiles, Inv, FileInv, [Next]_vars
  PROVE  FileHasBlob'
<1> USE DEF Inv, SessionInv, FileInv
<1> SUFFICES ASSUME NEW f \in Files, f \notin late', files'[f] # None
             PROVE  blob'[f] = files'[f]
  BY DEF FileHasBlob
<1>0. BlobMove(f) /\ FilesMove(f)
  BY BlobMoves, FilesMoves
<1>1. CASE files'[f] = files[f] /\ f \notin late
  <2>1. blob[f] = files[f] /\ files[f] \in Sessions /\ FileOf[files[f]] = f
    BY <1>1 DEF FileHasBlob, FileFromOwnSession, TypeOK
  <2> QED
    BY <1>0, <1>1, <2>1 DEF BlobMove, DistinctFiles, UnlinkUnshared
<1>2. ASSUME NEW p \in Tasks, NEW s \in Sessions, task[p].at = "create",
             task[p].sid = s, FileOf[s] = f, files[f] = None, files'[f] = s,
             state[s] # "gone"
      PROVE  blob'[f] = files'[f]
  <2>1. state[s] = "assembled"
    BY <1>2 DEF FinalizeInv, FinalizesAssembled
  <2> QED
    BY <1>2, <2>1, BlobStays DEF AssembledHasBlob
<1> QED
  BY <1>0, <1>1, <1>2 DEF FilesMove

\* Every file has the blob of its own upload, for any number of replicas,
\* sessions and handlers, crashes and lost leases, and whatever cancels and
\* expiries overlap with its finalize, if file IDs are not reused. Only a file
\* that is created after its session was removed (CreateFile, late) may lose it.
THEOREM FilesWhole ==
  ASSUME DistinctFiles
  PROVE  Spec => [](FileInv /\ FileHasBlob)
<1>1. Init => FileInv
  BY NoneAssumption
     DEF Init, FileInv, UnlinkUnshared, FileFromOwnSession, FinalizeInv,
         FinalizedHasFile, FinalizesAssembled, FileHasBlob, Idle
<1>2. Inv /\ FileInv /\ [Next]_vars => FileInv'
  BY FinalizedHasFileStep, FinalizesAssembledStep, UnlinkUnsharedStep,
     FileFromOwnSessionStep, FileHasBlobStep
     DEF Inv, SessionInv, FileInv, FinalizeInv
<1>3. FileInv => FileHasBlob
  BY DEF FileInv
<1> QED
  BY <1>1, <1>2, <1>3, AssemblySafe, PTL DEF Spec

----------------------------------------------------------------------------
(* File IDs: FileIDExclusive is inductive beside SessionInv, also when       *)
(* sessions share file IDs                                                  *)

\* A session is inserted alone, and only under an ID that is free.
LEMMA InsertAlone ==
  ASSUME TypeOK, [Next]_vars, NEW s \in Sessions, ~Exists(s), Exists(s)'
  PROVE  /\ files[FileOf[s]] = None /\ files' = files
         /\ \A t \in Sessions : Exists(t) => FileOf[t] # FileOf[s]
         /\ \A t \in Sessions \ {s} : state'[t] = state[t]
<1>1. state'[s] = "uploading" /\ state'[s] # state[s]
  BY StateMoves DEF StateMove, Exists, RowStates
<1>2. ASSUME NEW p \in Tasks, NEW t \in Sessions, CreateUploadSession(p, t)
      PROVE  /\ files[FileOf[s]] = None /\ files' = files
             /\ \A u \in Sessions : Exists(u) => FileOf[u] # FileOf[s]
             /\ \A u \in Sessions \ {s} : state'[u] = state[u]
  <2>1. t = s
    BY <1>1, <1>2 DEF CreateUploadSession, TypeOK, RowOK
  <2> QED
    BY <1>1, <1>2, <2>1 DEF CreateUploadSession, TypeOK, RowOK
<1>3. ASSUME NEW r \in Replicas, NEW t \in Sessions,
             StartAssembly(r, t) \/ FinishAssembly(r, t) \/ FailAssembly(r, t)
      PROVE  FALSE
  BY <1>1, <1>3
     DEF StartAssembly, FinishAssembly, FailAssembly, Exists, RowStates, TypeOK,
         RowOK
<1>4. ASSUME NEW p \in Tasks, NEW t \in Sessions,
             \/ CreateChunkDir(p, t) \/ MarkUploadFinalized(p, t)
             \/ DeleteUploadSession(p, t) \/ TakeExpired(p, t)
      PROVE  FALSE
  BY <1>1, <1>4, DropRowFacts
     DEF CreateChunkDir, MarkUploadFinalized, DeleteUploadSession, TakeExpired,
         DropRow, row, TypeOK, RowOK
<1>5. ~UNCHANGED state
  BY <1>1
<1>6. ASSUME NEW r \in Replicas, NEW t \in Sessions,
             StartAssembly(r, t) \/ RenewAssembly(r, t) \/ Worker(r, t)
               \/ WorkerFault(r, t)
      PROVE  FALSE
  BY <1>3, <1>5, <1>6 DEF Worker, WorkerFault, RenewAssembly, ResumeOrphaned,
     ClaimAssembly, CopyChunks, RenameBlob, DeleteChunks, ReleaseAssembly,
     Interrupt, DiskError, RecordGivesUp, disk, row, vars
<1>7. ASSUME NEW p \in Tasks, NEW t \in Sessions, Request(p, t) \/ Handler(p, t)
      PROVE  CreateUploadSession(p, t)
  BY <1>4, <1>5, <1>7 DEF Request, Handler, InitUpload, FinalizeUpload,
     CancelUpload, SaveChunk, RecordChunk, GetFileSize, CreateFile,
     CancelMissing, RemoveChunks, GetFileForAdmin, DeleteFile, UploadChunk,
     disk, row, vars
<1>8. ASSUME \/ \E t \in Sessions : Expire(t) \/ LeaseRunsOut(t)
             \/ \E r \in Replicas : Crash(r)
             \/ \E p \in Tasks : Abandon(p)
             \/ UNCHANGED vars
      PROVE  FALSE
  BY <1>5, <1>8 DEF Expire, LeaseRunsOut, Crash, Abandon, disk, row, vars
<1> QED
  BY <1>2, <1>6, <1>7, <1>8 DEF Next

\* No step gives a file ID to a second upload.
LEMMA FileIDExclusiveStep ==
  ASSUME SessionInv, FileIDExclusive, [Next]_vars
  PROVE  FileIDExclusive'
<1> USE DEF SessionInv
<1>1. ASSUME NEW s \in Sessions, NEW t \in Sessions, Exists(s)', Exists(t)',
             FileOf[t] = FileOf[s]
      PROVE  s = t
  <2>1. CASE Exists(s) /\ Exists(t)
    BY <1>1, <2>1 DEF FileIDExclusive
  <2>2. ASSUME NEW u \in {s, t}, NEW v \in {s, t}, u # v, ~Exists(u)
        PROVE  FALSE
    <3>1. FileOf[u] = FileOf[v] /\ Exists(u)' /\ Exists(v)'
      BY <1>1
    <3>2. state'[v] = state[v] /\ (Exists(v) => FileOf[v] # FileOf[u])
      BY <2>2, <3>1, InsertAlone
    <3>3. Exists(v)
      BY <3>1, <3>2 DEF Exists
    <3> QED
      BY <3>1, <3>2, <3>3
  <2> QED
    BY <2>1, <2>2
<1>2. ASSUME NEW s \in Sessions, Exists(s)'
      PROVE  files'[FileOf[s]] \in {None, s} \/ FileOf[s] \in late'
  <2>1. CASE ~Exists(s)
    BY <1>2, <2>1, InsertAlone
  <2>2. CASE Exists(s)
    <3>1. FileOf[s] \in Files
      BY FileOfAssumption
    <3>2. files[FileOf[s]] \in {None, s} \/ FileOf[s] \in late
      BY <2>2 DEF FileIDExclusive
    <3>3. ASSUME NEW p \in Tasks, NEW t \in Sessions, task[p].at = "create",
                 task[p].sid = t, FileOf[t] = FileOf[s], state[t] # "gone"
          PROVE  t = s
      <4>1. Exists(t)
        BY <3>3 DEF Untouched, Exists, TypeOK, RowOK
      <4> QED
        BY <2>2, <3>3, <4>1 DEF FileIDExclusive
    <3> QED
      BY <3>1, <3>2, <3>3, FilesMoves DEF FilesMove
  <2> QED
    BY <2>1, <2>2
<1> QED
  BY <1>1, <1>2 DEF FileIDExclusive, Exists

\* One upload at a time owns a file ID, however many sessions ask for it and
\* whatever removals overlap with their finalizes (CreateUploadSession). Only a
\* late file may find its ID taken by a session that was made after its own was
\* removed.
THEOREM OneUploadPerID == Spec => []FileIDExclusive
<1>1. Init => FileIDExclusive
  BY DEF Init, FileIDExclusive, Exists, RowStates
<1>2. SessionInv /\ FileIDExclusive /\ [Next]_vars => FileIDExclusive'
  BY FileIDExclusiveStep
<1> QED
  BY <1>1, <1>2, SessionInit, SessionStep, PTL DEF Spec

----------------------------------------------------------------------------
(* The invariants the refinement rests on.                                  *)

Invariants == Inv /\ FileInv /\ MkdirAlone

\* No step lets anybody but a remover near a session whose init is not answered.
LEMMA MkdirAloneStep ==
  ASSUME SessionInv, MkdirAlone, [Next]_vars
  PROVE  MkdirAlone'
<1> USE DEF SessionInv
<1> SUFFICES ASSUME NEW p \in Tasks, task'[p].at = "mkdir",
                    NEW s \in Sessions, s = task'[p].sid
             PROVE  /\ state'[s] \in {"uploading", "gone"}
                    /\ \A q \in Tasks \ {p} : task'[q].sid = s
                         => task'[q].at \in {"chunks", "lookup", "unlink"}
  <2>1. \A p \in Tasks : task'[p].at = "mkdir" => task'[p].sid \in Sessions
    BY TasksKnowStep DEF TasksKnow
  <2> QED
    BY <2>1 DEF MkdirAlone
<1>1. CASE task[p].at = "insert" /\ task[p].sid = s /\ state'[s] = "uploading"
  <2>1. state[s] = "none"
    BY <1>1 DEF InsertedOnce
  <2>2. ASSUME NEW q \in Tasks \ {p}
        PROVE  task[q].sid # s
    BY <1>1, <2>1, <2>2 DEF Untouched, InsertedOnce
  <2>3. ASSUME NEW q \in Tasks \ {p}, task'[q].sid = s
        PROVE  FALSE
    <3>1. task'[p] # task[p]
      BY <1>1
    <3> QED
      BY <2>2, <2>3, <3>1, TaskMoves, NoneAssumption
         DEF TaskMove, TaskBegins, TaskGoesOn, Idle
  <2> QED
    BY <1>1, <2>3
<1>2. CASE task'[p] = task[p]
  <2>1. /\ state[s] \in {"uploading", "gone"}
        /\ ~Answered(s)
        /\ \A q \in Tasks \ {p} : task[q].sid = s
             => task[q].at \in {"chunks", "lookup", "unlink"}
    BY <1>2 DEF MkdirAlone, Answered, Busy
  <2>2. \A q \in Tasks : task[q].sid = s => task[q].at # "mark"
    BY <1>2, <2>1
  <2>3. state'[s] \in {"uploading", "gone"}
    BY <2>1, <2>2, StateMoves DEF StateMove
  <2>4. ASSUME NEW q \in Tasks \ {p}, task'[q].sid = s
        PROVE  task'[q].at \in {"chunks", "lookup", "unlink"}
    <3>1. CASE task'[q] = task[q]
      BY <2>1, <2>4, <3>1
    <3>2. CASE \E t \in Sessions : TaskBegins(q, t)
      BY <2>1, <2>4, <3>2 DEF TaskBegins
    <3>3. CASE \E t \in Sessions : TaskGoesOn(q, t)
      BY <2>1, <2>4, <3>3 DEF TaskGoesOn
    <3> QED
      BY <2>4, <3>1, <3>2, <3>3, TaskMoves, NoneAssumption DEF TaskMove, Idle
  <2> QED
    BY <2>3, <2>4
<1> QED
  BY <1>1, <1>2, TaskMoves DEF TaskMove, TaskBegins, TaskGoesOn, Idle

\* All invariants together, when file IDs are not reused.
THEOREM InvariantsHold ==
  ASSUME DistinctFiles
  PROVE  Spec => [](Inv /\ FileInv /\ MkdirAlone)
<1>1. Init => MkdirAlone
  BY DEF Init, MkdirAlone, Idle
<1>2. SessionInv /\ MkdirAlone /\ [Next]_vars => MkdirAlone'
  BY MkdirAloneStep
<1> QED
  BY <1>1, <1>2, SessionInit, SessionStep, AssemblySafe, FilesWhole, PTL
     DEF Spec

----------------------------------------------------------------------------
(* A step changes the phase of one session at most.                         *)

\* Nothing that the phase of t depends on changes.
Unmoved(t) ==
  /\ state'[t] = state[t]
  /\ blob'[FileOf[t]] = blob[FileOf[t]]
  /\ files'[FileOf[t]] = files[FileOf[t]]
  /\ FileOf[t] \in late' <=> FileOf[t] \in late
  /\ Finalizing(t)' <=> Finalizing(t)

OnlySession(s) == \A t \in Sessions \ {s} : Unmoved(t)

\* A task that works on s says nothing of the finalizes of other sessions.
LEMMA OnlyFinalizing ==
  ASSUME NEW p \in Tasks, NEW s, task[p].at = "idle" \/ task[p].sid = s,
         task'[p].at = "idle" \/ task'[p].sid = s,
         \A q \in Tasks \ {p} : task'[q] = task[q],
         NEW t \in Sessions, t # s
  PROVE  Finalizing(t)' <=> Finalizing(t)
BY DEF Finalizing, Busy

\* Requests and handlers move their own task only.
LEMMA TaskOnly ==
  ASSUME TypeOK, NEW p \in Tasks, NEW s \in Sessions, Request(p, s) \/ Handler(p, s),
         NEW t \in Sessions, t # s
  PROVE  Finalizing(t)' <=> Finalizing(t)
<1> USE DEF TypeOK
<1>1. ASSUME Request(p, s)
      PROVE  /\ task[p].at = "idle" /\ task'[p].sid = s
             /\ \A q \in Tasks \ {p} : task'[q] = task[q]
  <2>1. CASE \E c \in Chunks : UploadChunk(p, s, c)
    BY <2>1 DEF UploadChunk
  <2>2. CASE \E step \in TaskSteps : Begin(p, s, step)
    BY <2>2, BeginFacts
  <2>3. \/ \E c \in Chunks : UploadChunk(p, s, c)
        \/ \E step \in TaskSteps : Begin(p, s, step)
    BY <1>1 DEF Request, InitUpload, FinalizeUpload, CancelUpload, TakeExpired,
       TaskSteps
  <2> QED
    BY <2>1, <2>2, <2>3
<1>2. ASSUME Handler(p, s)
      PROVE  /\ task[p].sid = s
             /\ task'[p].at = "idle" \/ task'[p].sid = s
             /\ \A q \in Tasks \ {p} : task'[q] = task[q]
  <2>1. task[p].sid = s
    BY <1>2 DEF Handler, CreateUploadSession, CreateChunkDir, SaveChunk,
       RecordChunk, GetFileSize, CreateFile, MarkUploadFinalized, CancelMissing,
       DeleteUploadSession, RemoveChunks, GetFileForAdmin, DeleteFile, At
  <2>2. CASE End(p)
    BY <2>1, <2>2, EndFacts DEF Idle
  <2>3. ASSUME NEW step \in TaskSteps, Goto(p, step)
        PROVE  /\ task'[p].sid = s
               /\ \A q \in Tasks \ {p} : task'[q] = task[q]
    BY <2>1, <2>3, GotoFacts
  <2>4. End(p) \/ \E step \in TaskSteps : Goto(p, step)
    BY <1>2, HandlerMoves DEF TaskSteps
  <2> QED
    BY <2>1, <2>2, <2>3, <2>4
<1> QED
  BY <1>1, <1>2, OnlyFinalizing

\* With a file ID of its own, a session shares neither blob nor file.
LEMMA OneSession ==
  ASSUME DistinctFiles, SessionInv, [Next]_vars
  PROVE  (\A t \in Sessions : Unmoved(t)) \/ \E s \in Sessions : OnlySession(s)
<1> USE DEF SessionInv, TypeOK
<1>0. FileOf \in [Sessions -> Files]
  BY FileOfAssumption
<1>same. ASSUME UNCHANGED task
         PROVE  \A t \in Sessions : Finalizing(t)' <=> Finalizing(t)
  BY <1>same DEF Finalizing, Busy
<1>still. ASSUME UNCHANGED <<state, blob, files, late>>,
                 NEW t \in Sessions, Finalizing(t)' <=> Finalizing(t)
          PROVE  Unmoved(t)
  BY <1>still DEF Unmoved
<1>1. ASSUME NEW r \in Replicas, NEW s \in Sessions,
             StartAssembly(r, s) \/ RenewAssembly(r, s) \/ Worker(r, s)
               \/ WorkerFault(r, s)
      PROVE  OnlySession(s)
  <2>1. UNCHANGED <<files, late, task>>
    BY <1>1 DEF Worker, WorkerFault, StartAssembly, RenewAssembly,
       ResumeOrphaned, ClaimAssembly, CopyChunks, RenameBlob, FinishAssembly,
       DeleteChunks, FailAssembly, ReleaseAssembly, Interrupt, DiskError,
       RecordGivesUp
  <2>2. \A t \in Sessions \ {s} : state'[t] = state[t]
    BY <1>1 DEF Worker, WorkerFault, StartAssembly, RenewAssembly,
       ResumeOrphaned, ClaimAssembly, CopyChunks, RenameBlob, FinishAssembly,
       DeleteChunks, FailAssembly, ReleaseAssembly, Interrupt, DiskError,
       RecordGivesUp, row, RowOK
  <2>3. \A t \in Sessions \ {s} : blob'[FileOf[t]] = blob[FileOf[t]]
    BY <1>0, <1>1 DEF Worker, WorkerFault, StartAssembly, RenewAssembly,
       ResumeOrphaned, ClaimAssembly, CopyChunks, RenameBlob, FinishAssembly,
       DeleteChunks, FailAssembly, ReleaseAssembly, Interrupt, DiskError,
       RecordGivesUp, disk, DistinctFiles
  <2> QED
    BY <1>same, <2>1, <2>2, <2>3 DEF OnlySession, Unmoved
<1>2. ASSUME NEW p \in Tasks, NEW s \in Sessions, Request(p, s) \/ Handler(p, s)
      PROVE  OnlySession(s)
  <2>1. \A t \in Sessions \ {s} : Finalizing(t)' <=> Finalizing(t)
    BY <1>2, TaskOnly
  <2>2. CASE UNCHANGED <<state, blob, files, late>>
    BY <1>still, <2>1, <2>2 DEF OnlySession
  <2>3. CASE CreateUploadSession(p, s) \/ MarkUploadFinalized(p, s)
    BY <2>1, <2>3 DEF CreateUploadSession, MarkUploadFinalized, OnlySession,
       Unmoved, RowOK, disk
  <2>4. CASE CreateChunkDir(p, s) \/ DeleteUploadSession(p, s) \/ TakeExpired(p, s)
    <3>1. DropRow(s) \/ UNCHANGED row
      BY <2>4 DEF CreateChunkDir, DeleteUploadSession, TakeExpired
    <3>2. \A t \in Sessions \ {s} : state'[t] = state[t]
      BY <3>1, DropRowFacts DEF row
    <3> QED
      BY <2>1, <2>4, <3>2 DEF CreateChunkDir, DeleteUploadSession, TakeExpired,
         OnlySession, Unmoved, disk
  <2>5. CASE CreateFile(p, s)
    <3>1. \A t \in Sessions \ {s} : FileOf[t] # FileOf[s]
      BY DEF DistinctFiles
    <3> QED
      BY <1>0, <2>1, <2>5, <3>1 DEF CreateFile, OnlySession, Unmoved, row, disk
  <2>6. CASE DeleteFile(p, s)
    BY <1>0, <2>1, <2>6 DEF DeleteFile, OnlySession, Unmoved, DistinctFiles, row
  <2> QED
    BY <1>2, <2>2, <2>3, <2>4, <2>5, <2>6
       DEF Request, Handler, row, disk, InitUpload, FinalizeUpload, CancelUpload,
           UploadChunk, SaveChunk, RecordChunk, GetFileSize, CancelMissing,
           RemoveChunks, GetFileForAdmin
<1>3. ASSUME \/ \E s \in Sessions : Expire(s) \/ LeaseRunsOut(s)
             \/ \E r \in Replicas : Crash(r)
             \/ UNCHANGED vars
      PROVE  \A t \in Sessions : Unmoved(t)
  <2>1. UNCHANGED <<state, blob, files, late, task>>
    BY <1>3 DEF Expire, LeaseRunsOut, Crash, vars, row, disk
  <2> QED
    BY <1>same, <1>still, <2>1
<1>4. ASSUME NEW p \in Tasks, Abandon(p)
      PROVE  \E s \in Sessions : OnlySession(s)
  <2> DEFINE s == task[p].sid
  <2>1. s \in Sessions /\ UNCHANGED <<state, blob, files, late>>
    BY <1>4 DEF Abandon, TasksKnow, row, disk
  <2>2. /\ task'[p].at = "idle"
        /\ \A q \in Tasks \ {p} : task'[q] = task[q]
    BY <1>4, EndFacts DEF Abandon, Idle
  <2>3. \A t \in Sessions \ {s} : Unmoved(t)
    BY <1>still, <2>1, <2>2, OnlyFinalizing
  <2> QED
    BY <2>1, <2>3 DEF OnlySession
<1> QED
  BY <1>1, <1>2, <1>3, <1>4 DEF Next

----------------------------------------------------------------------------
(* What a step does to the phase of a session.                              *)

PhaseMove(s) ==
  LET from == Phase(s)
      to == Phase(s)'
  IN \/ to = from
     \/ from = "new" /\ to = "open"
     \/ from \in {"open", "failed"} /\ to = "sealed"
     \/ from = "sealed" /\ to \in {"ready", "failed"}
     \/ from = "ready" /\ to \in {"shared", "contested"}
     \/ from = "contested" /\ to = "torn"
     \/ /\ from \in {"open", "sealed", "failed", "ready", "contested"}
        /\ to = "closed"

\* The phase by cases, as the invariants leave them.
PhaseIs(s, at) ==
  IF files[FileOf[s]] = s
    THEN \/ FileOf[s] \in late /\ at = "torn"
         \/ FileOf[s] \notin late /\ at = "shared"
    ELSE \/ state[s] = "none" /\ at = "new"
         \/ state[s] = "uploading" /\ at = "open"
         \/ state[s] = "assembling" /\ at = "sealed"
         \/ state[s] = "failed" /\ at = "failed"
         \/ state[s] = "assembled" /\ at = "ready"
         \/ state[s] = "finalized" /\ at = "closed"
         \/ state[s] = "gone" /\ Finalizing(s) /\ at = "contested"
         \/ state[s] = "gone" /\ ~Finalizing(s) /\ at = "closed"

\* The phase of an upload, case by case.
LEMMA PhaseCases ==
  ASSUME TypeOK, FileHasBlob, AssembledHasBlob, NEW s \in Sessions
  PROVE  PhaseIs(s, Phase(s))
<1>1. FileOf[s] \in Files /\ s # None
  BY FileOfAssumption, NoneAssumption
<1>2. files[FileOf[s]] = s /\ FileOf[s] \notin late => blob[FileOf[s]] = s
  BY <1>1 DEF FileHasBlob
<1>3. state[s] = "assembled" => blob[FileOf[s]] = s
  BY DEF AssembledHasBlob
<1>4. state[s] \in RowStates \cup {"none", "gone"}
  BY DEF TypeOK, RowOK
<1> QED
  BY <1>2, <1>3, <1>4 DEF Phase, PhaseIs, RowStates

\* The same in the next state.
LEMMA PhaseCasesNext ==
  ASSUME TypeOK', FileHasBlob', AssembledHasBlob', NEW s \in Sessions
  PROVE  PhaseIs(s, Phase(s))'
<1>1. FileOf[s] \in Files /\ s # None
  BY FileOfAssumption, NoneAssumption
<1>2. files'[FileOf[s]] = s /\ FileOf[s] \notin late' => blob'[FileOf[s]] = s
  BY <1>1 DEF FileHasBlob
<1>3. state'[s] = "assembled" => blob'[FileOf[s]] = s
  BY DEF AssembledHasBlob
<1>4. state'[s] \in RowStates \cup {"none", "gone"}
  BY DEF TypeOK, RowOK
<1> QED
  BY <1>2, <1>3, <1>4 DEF Phase, PhaseIs, RowStates

\* A finalize takes up assembled sessions only.
LEMMA FinalizingBegins ==
  ASSUME TypeOK, [Next]_vars, NEW s \in Sessions, Finalizing(s)'
  PROVE  Finalizing(s) \/ state[s] = "assembled"
<1>1. PICK p \in Tasks : task'[p].sid = s /\ task'[p].at \in {"size", "create"}
  BY DEF Finalizing, Busy
<1>2. \/ task[p].sid = s /\ task[p].at \in {"size", "create"}
      \/ state[s] = "assembled"
  BY <1>1, TaskMoves DEF TaskMove, TaskBegins, TaskGoesOn, Idle
<1> QED
  BY <1>2 DEF Finalizing, Busy

\* Only one upload moves in a step, and its phase moves as the promise allows.
LEMMA PhaseMoves ==
  ASSUME DistinctFiles, Invariants, Invariants', [Next]_vars, NEW s \in Sessions
  PROVE  PhaseMove(s)
<1> DEFINE f == FileOf[s]
<1>0. f \in Files /\ s # None
  BY FileOfAssumption, NoneAssumption
<1>1. PhaseIs(s, Phase(s)) /\ PhaseIs(s, Phase(s))'
  BY PhaseCases, PhaseCasesNext DEF Invariants, Inv, SessionInv, FileInv
<1>2. FilesMove(f) /\ StateMove(s)
  BY <1>0, FilesMoves, StateMoves DEF Invariants, Inv, SessionInv
<1>3. CASE files[f] = s
  BY <1>0, <1>1, <1>2, <1>3 DEF PhaseIs, PhaseMove, FilesMove
<1>4. CASE files[f] # s /\ files'[f] = s
  <2>1. PICK p \in Tasks : /\ task[p].at = "create" /\ task[p].sid = s
                           /\ files[f] = None
                           /\ f \in late' <=> f \in late \/ state[s] = "gone"
    BY <1>2, <1>4 DEF FilesMove, DistinctFiles
  <2>2. f \notin late /\ state[s] \in {"assembled", "gone"} /\ Finalizing(s)
    BY <1>0, <2>1
       DEF Invariants, FileInv, FileFromOwnSession, FinalizeInv,
           FinalizesAssembled, Finalizing, Busy
  <2>3. \/ Phase(s) = "ready" /\ Phase(s)' = "shared"
        \/ Phase(s) = "contested" /\ Phase(s)' = "torn"
    BY <1>1, <1>4, <2>1, <2>2 DEF PhaseIs
  <2> QED
    BY <2>3 DEF PhaseMove
<1>5. CASE files[f] # s /\ files'[f] # s
  <2>1. files[f] = None
    BY <1>0, <1>5 DEF Invariants, Inv, SessionInv, TypeOK, FileInv,
       FileFromOwnSession, DistinctFiles
  <2>2. /\ state[s] # "finalized"
        /\ \A p \in Tasks :
             task[p].sid = s /\ task[p].at = "mark" => state[s] = "gone"
        /\ Finalizing(s) => state[s] \in {"assembled", "gone"}
    BY <2>1 DEF Invariants, FileInv, FinalizeInv, FinalizedHasFile,
       FinalizesAssembled, Finalizing, Busy
  <2>3. \A p \in Tasks : task[p].sid = s =>
          /\ task[p].at = "insert" => state[s] = "none"
          /\ task[p].at = "mkdir" => state[s] \in {"uploading", "gone"}
          /\ task[p].at = "delete" => state[s] # "none"
    BY DEF Invariants, Inv, SessionInv, InsertedOnce, MkdirAlone, Untouched
  <2>4. state[s] \in RowStates \cup {"none", "gone"}
    BY DEF Invariants, Inv, SessionInv, TypeOK, RowOK
  <2>5. \/ state'[s] = state[s]
        \/ state[s] = "none" /\ state'[s] = "uploading"
        \/ state[s] \in {"uploading", "failed"} /\ state'[s] = "assembling"
        \/ state[s] = "assembling" /\ state'[s] \in {"assembled", "failed"}
        \/ /\ state[s] \in {"uploading", "assembling", "failed", "assembled"}
           /\ state'[s] = "gone"
    BY <1>2, <2>2, <2>3, <2>4 DEF StateMove, Exists, RowStates
  <2>6. Finalizing(s)' => Finalizing(s) \/ state[s] = "assembled"
    BY FinalizingBegins DEF Invariants, Inv, SessionInv
  <2> QED
    BY <1>1, <1>5, <2>2, <2>5, <2>6 DEF PhaseIs, PhaseMove
<1> QED
  BY <1>3, <1>4, <1>5

\* Every step of the uploads is a step of the promise or leaves it alone: an
\* upload is never ready or shared without its blob, and never un-shared; if it
\* is closed while a finalize is under way, the file that finalize still creates
\* is torn.
THEOREM StepsKeepPromise ==
  ASSUME DistinctFiles
  PROVE  Spec => P!PromiseSteps
<1>1. Init => P!PromiseInit
  BY NoneAssumption, FileOfAssumption
     DEF Init, P!PromiseInit, phase, Phase
<1>2. Invariants /\ Invariants' /\ [Next]_vars => [P!PromiseNext]_phase
  <2> SUFFICES ASSUME Invariants, Invariants', [Next]_vars
               PROVE  [P!PromiseNext]_phase
    OBVIOUS
  <2>0. ASSUME NEW t \in Sessions, Unmoved(t)
        PROVE  Phase(t)' = Phase(t)
    <3>1. PhaseIs(t, Phase(t)) /\ PhaseIs(t, Phase(t))'
      BY PhaseCases, PhaseCasesNext DEF Invariants, Inv, SessionInv, FileInv
    <3> QED
      BY <2>0, <3>1 DEF PhaseIs, Unmoved
  <2>1. CASE \A t \in Sessions : Unmoved(t)
    BY <2>0, <2>1 DEF phase
  <2>2. ASSUME NEW s \in Sessions, OnlySession(s)
        PROVE  [P!PromiseNext]_phase
    <3>1. \A t \in Sessions \ {s} : Phase(t)' = Phase(t)
      BY <2>0, <2>2 DEF OnlySession
    <3>2. phase' = [phase EXCEPT ![s] = Phase(s)']
      BY <3>1 DEF phase
    <3>3. phase[s] = Phase(s)
      BY DEF phase
    <3>4. PhaseMove(s)
      BY PhaseMoves
    <3>5. CASE Phase(s)' = Phase(s)
      BY <3>2, <3>3, <3>5 DEF phase
    <3>6. CASE Phase(s)' # Phase(s)
      <4>1. \/ P!Open(s) \/ P!Seal(s) \/ P!Ready(s)
            \/ P!Fail(s) \/ P!Share(s) \/ P!Close(s)
            \/ P!Contest(s) \/ P!Tear(s)
        BY <3>2, <3>3, <3>4, <3>6
           DEF PhaseMove, P!Open, P!Seal, P!Ready, P!Fail, P!Share, P!Close,
               P!Contest, P!Tear, P!Move
      <4> QED
        BY <4>1 DEF P!PromiseNext
    <3> QED
      BY <3>5, <3>6
  <2> QED
    BY <2>1, <2>2, OneSession DEF Invariants, Inv
<1> QED
  BY <1>1, <1>2, InvariantsHold, PTL DEF Spec, P!PromiseSteps, Invariants

----------------------------------------------------------------------------
(* The cleanup beside the uploads: CleanupInv is inductive.                 *)

\* What an upload step does to the sweeps under way.
LEMMA SweepsGoOn ==
  ASSUME CleanupTypeOK, UploadStep, NEW w \in Sweepers
  PROVE  /\ sweep' \in [Sweepers -> SweepRecords]
         /\ sweep'[w].at = sweep[w].at
         /\ sweep'[w].refs = sweep[w].refs
         /\ sweep'[w].todo = sweep[w].todo
         /\ sweep[w].fresh \subseteq sweep'[w].fresh
         /\ \A p \in Tasks, s \in Sessions :
              Sweeping(w, "chunks") /\ task[p] # task'[p] /\ task[p].sid = s
                /\ task[p].at = "save" => s \in sweep'[w].fresh
         /\ \A s \in Sessions :
              Sweeping(w, "listblobs") /\ state[s] = "none" /\ state'[s] # "none"
                => s \in sweep'[w].fresh
<1>1. sweep \in [Sweepers -> SweepRecords]
  BY DEF CleanupTypeOK
<1>2. sweep' = [v \in Sweepers |->
        CASE Sweeping(v, "chunks") -> [sweep[v] EXCEPT !.fresh = @ \cup Touched]
          [] Sweeping(v, "listblobs") -> [sweep[v] EXCEPT !.fresh = @ \cup Made]
          [] OTHER -> sweep[v]]
  BY DEF UploadStep
<1>3. Touched \in SUBSET Sessions /\ Made \in SUBSET Sessions
  BY DEF Touched, Made
<1>4. \A p \in Tasks, s \in Sessions :
        task[p] # task'[p] /\ task[p].sid = s /\ task[p].at = "save" => s \in Touched
  BY DEF Touched
<1>5. \A s \in Sessions : state[s] = "none" /\ state'[s] # "none" => s \in Made
  BY DEF Made
<1>6. ASSUME NEW v \in Sweepers
      PROVE  /\ sweep'[v] \in SweepRecords
             /\ sweep'[v].at = sweep[v].at /\ sweep'[v].refs = sweep[v].refs
             /\ sweep'[v].todo = sweep[v].todo
             /\ sweep[v].fresh \subseteq sweep'[v].fresh
             /\ Sweeping(v, "chunks") => Touched \subseteq sweep'[v].fresh
             /\ Sweeping(v, "listblobs") => Made \subseteq sweep'[v].fresh
  <2>0. sweep[v] \in SweepRecords
    BY <1>1
  <2>1. CASE Sweeping(v, "chunks")
    <3>1. sweep'[v] = [sweep[v] EXCEPT !.fresh = @ \cup Touched]
      BY <1>2, <2>1 DEF Sweeping
    <3> QED
      BY <1>3, <2>0, <2>1, <3>1 DEF SweepRecords, Sweeping
  <2>2. CASE Sweeping(v, "listblobs")
    <3>1. sweep'[v] = [sweep[v] EXCEPT !.fresh = @ \cup Made]
      BY <1>2, <2>2 DEF Sweeping
    <3> QED
      BY <1>3, <2>0, <2>2, <3>1 DEF SweepRecords, Sweeping
  <2>3. CASE ~Sweeping(v, "chunks") /\ ~Sweeping(v, "listblobs")
    <3>1. sweep'[v] = sweep[v]
      BY <1>2, <2>3
    <3> QED
      BY <2>0, <2>3, <3>1
  <2> QED
    BY <2>1, <2>2, <2>3
<1>7. sweep' \in [Sweepers -> SweepRecords]
  BY <1>2, <1>6
<1> QED
  BY <1>4, <1>5, <1>6, <1>7

\* Sessions that are gone stay gone.
LEMMA AllGoneStays ==
  ASSUME SessionInv, [Next]_vars, NEW f \in Files, AllGone(f)
  PROVE  AllGone(f)'
BY GoneStaysGone DEF AllGone, SessionInv

\* A file ID whose sessions are all gone only gets a late file.
LEMMA UnsharedStays ==
  ASSUME SessionInv, [Next]_vars, UNCHANGED fast, NEW f \in Files, Unshared(f)
  PROVE  Unshared(f)'
<1>1. f \in late => f \in late'
  BY FilesStay DEF SessionInv
<1>2. Fast(f) => Fast(f)'
  BY DEF Fast
<1>3. files[f] = None /\ AllGone(f) => AllGone(f)' /\ (files'[f] = None \/ f \in late')
  BY AllGoneStays, FilesMoves DEF FilesMove, SessionInv, AllGone
<1> QED
  BY <1>1, <1>2, <1>3 DEF Unshared

\* An upload step takes no blob that is in use.
LEMMA BlobsInUseStep ==
  ASSUME DistinctFiles, SessionInv, BlobsInUse, [Next]_vars, UNCHANGED fast
  PROVE  BlobsInUse'
<1> USE DEF SessionInv
<1> SUFFICES ASSUME NEW r \in Replicas, NEW s \in Sessions \ fast,
                    worker'[r][s] = "finish", state'[s] # "gone",
                    files'[FileOf[s]] = None
             PROVE  blob'[FileOf[s]] = s
  BY DEF BlobsInUse
<1>1. state[s] # "gone" /\ files[FileOf[s]] = None
  BY FileOfAssumption, GoneStaysGone, FilesStay
<1> QED
  BY <1>1, WorkerMoves, BlobStays DEF WorkerMove, BlobsInUse

\* After an upload step, blobs and files still come from sessions with their ID.
LEMMA OnceOpenedStep ==
  ASSUME DistinctFiles, SessionInv, OnceOpened, [Next]_vars, UNCHANGED deleted
  PROVE  OnceOpened'
<1> USE DEF SessionInv
<1> SUFFICES ASSUME NEW f \in Files
             PROVE  /\ blob'[f] # None =>
                         FileOf[blob'[f]] = f /\ state'[blob'[f]] # "none"
                    /\ files'[f] # None =>
                         FileOf[files'[f]] = f /\ state'[files'[f]] # "none"
                    /\ deleted'[f] => files'[f] # None
                    /\ f \in late' => AllGone(f)'
  BY DEF OnceOpened
<1>1. \A s \in Sessions : state[s] # "none" => state'[s] # "none"
  BY GoneStaysGone
<1>2. blob'[f] # None => FileOf[blob'[f]] = f /\ state'[blob'[f]] # "none"
  <2>1. CASE blob'[f] = blob[f]
    BY <1>1, <2>1 DEF OnceOpened, TypeOK
  <2>2. ASSUME NEW s \in Sessions, NEW r \in Replicas, FileOf[s] = f,
               worker[r][s] = "rename", blob'[f] = s
        PROVE  FileOf[blob'[f]] = f /\ state'[blob'[f]] # "none"
    BY <1>1, <2>2 DEF Untouched
  <2> QED
    BY <2>1, <2>2, BlobMoves DEF BlobMove
<1>3. /\ files'[f] # None => FileOf[files'[f]] = f /\ state'[files'[f]] # "none"
      /\ f \in late' => AllGone(f)'
  <2>1. CASE files'[f] = files[f] /\ (f \in late' <=> f \in late)
    BY <1>1, <2>1, AllGoneStays DEF OnceOpened, TypeOK
  <2>2. ASSUME NEW p \in Tasks, NEW s \in Sessions, task[p].at = "create",
               task[p].sid = s, FileOf[s] = f, files'[f] = s,
               f \in late' <=> f \in late \/ state[s] = "gone"
        PROVE  /\ FileOf[files'[f]] = f /\ state'[files'[f]] # "none"
               /\ f \in late' => AllGone(f)'
    <3>1. state[s] # "none"
      BY <2>2 DEF Untouched
    <3>2. state[s] = "gone" => AllGone(f)
      BY <2>2 DEF AllGone, DistinctFiles
    <3> QED
      BY <1>1, <2>2, <3>1, <3>2, AllGoneStays DEF OnceOpened
  <2> QED
    BY <2>1, <2>2, FilesMoves DEF FilesMove
<1>4. deleted'[f] => files'[f] # None
  BY FilesStay DEF OnceOpened
<1> QED
  BY <1>2, <1>3, <1>4

\* An upload step leaves no live file without its blob, but a late one.
LEMMA LiveFileStep ==
  ASSUME DistinctFiles, SessionInv, FinalizeInv, SweepSparesAssembled,
         UnlinkUnshared, OnceOpened, LiveFileHasBlob, [Next]_vars,
         UNCHANGED <<deleted, fast>>
  PROVE  LiveFileHasBlob'
<1> USE DEF SessionInv
<1> SUFFICES ASSUME NEW f \in Files, f \notin late', files'[f] # None,
                    files'[f] \notin fast, ~deleted[f]
             PROVE  blob'[f] = files'[f]
  BY DEF LiveFileHasBlob
<1>0. BlobMove(f) /\ FilesMove(f)
  BY BlobMoves, FilesMoves
<1>1. CASE files'[f] = files[f] /\ f \notin late
  <2>1. /\ blob[f] = files[f] /\ files[f] \in Sessions
        /\ FileOf[files[f]] = f
    BY <1>1 DEF LiveFileHasBlob, OnceOpened, TypeOK
  <2> QED
    BY <1>0, <1>1, <2>1 DEF BlobMove, DistinctFiles, UnlinkUnshared
<1>2. ASSUME NEW p \in Tasks, NEW s \in Sessions, task[p].at = "create",
             task[p].sid = s, FileOf[s] = f, files[f] = None, files'[f] = s,
             state[s] # "gone"
      PROVE  blob'[f] = files'[f]
  <2>1. state[s] = "assembled"
    BY <1>2 DEF FinalizeInv, FinalizesAssembled
  <2>2. blob[f] = s
    BY <1>2, <2>1 DEF SweepSparesAssembled
  <2> QED
    BY <1>2, <2>2, BlobStays
<1> QED
  BY <1>0, <1>1, <1>2 DEF FilesMove

\* An upload step leaves no assembled session without its blob.
LEMMA SparesAssembledStep ==
  ASSUME DistinctFiles, SessionInv, BlobsInUse, SweepSparesAssembled,
         [Next]_vars, UNCHANGED fast
  PROVE  SweepSparesAssembled'
<1> USE DEF SessionInv
<1> SUFFICES ASSUME NEW s \in Sessions \ fast, state'[s] = "assembled",
                    files'[FileOf[s]] = None
             PROVE  blob'[FileOf[s]] = s
  BY DEF SweepSparesAssembled
<1>1. state[s] # "gone" /\ FileOf[s] \in Files
  BY GoneStaysGone, FileOfAssumption
<1>2. files[FileOf[s]] = None
  BY <1>1, FilesStay
<1>3. blob[FileOf[s]] = s
  BY <1>1, <1>2, StateMoves DEF StateMove, SweepSparesAssembled, BlobsInUse
<1> QED
  BY <1>1, <1>3, BlobStays

\* What a sweep knows stays true when the uploads go on.
LEMMA UploadsSpareSweeps ==
  ASSUME CleanupTypeOK, SessionInv, SweepsKnow, UploadStep, NEW w \in Sweepers
  PROVE  SweepKnows(w)'
<1> USE DEF SessionInv
<1>0. Next /\ UNCHANGED <<deleted, fast>> /\ [Next]_vars
  BY DEF UploadStep
<1>1. /\ sweep'[w].at = sweep[w].at /\ sweep'[w].refs = sweep[w].refs
      /\ sweep'[w].todo = sweep[w].todo
      /\ sweep[w].fresh \subseteq sweep'[w].fresh
      /\ \A p \in Tasks, s \in Sessions :
           Sweeping(w, "chunks") /\ task[p] # task'[p] /\ task[p].sid = s
             /\ task[p].at = "save" => s \in sweep'[w].fresh
      /\ \A s \in Sessions :
           Sweeping(w, "listblobs") /\ state[s] = "none" /\ state'[s] # "none"
             => s \in sweep'[w].fresh
      /\ sweep[w].todo \subseteq Files
  BY SweepsGoOn DEF CleanupTypeOK, SweepRecords
<1>2. \A f \in Files : /\ AllGone(f) => AllGone(f)'
                       /\ Unshared(f) => Unshared(f)'
                       /\ Fast(f) => Fast(f)'
  BY <1>0, AllGoneStays, UnsharedStays DEF Fast
<1>3. ASSUME NEW s \in Sessions, Sweeping(w, "chunks"), Unneeded(s),
             s \notin sweep'[w].fresh
      PROVE  Unneeded(s)'
  <2>1. CASE state[s] = "gone"
    BY <1>0, <2>1, GoneStaysGone DEF Unneeded
  <2>2. CASE recorded[s] = {} /\ ~Busy(s, {"record"})
    <3>1. recorded'[s] = {} \/ state'[s] = "gone"
      BY <1>0, <2>2, RecordedMoves DEF RecordedMove, Busy
    <3>2. ASSUME NEW p \in Tasks, task'[p].sid = s, task'[p].at = "record"
          PROVE  FALSE
      <4>1. task'[p] # task[p]
        BY <2>2, <3>2 DEF Busy
      <4>2. task[p].at = "save" /\ task[p].sid = s
        BY <1>0, <3>2, <4>1, TaskMoves DEF TaskMove, TaskBegins, TaskGoesOn, Idle
      <4> QED
        BY <1>1, <1>3, <4>1, <4>2
    <3> QED
      BY <3>1, <3>2 DEF Unneeded, Busy
  <2> QED
    BY <1>3, <2>1, <2>2 DEF Unneeded
<1>4. ASSUME Sweeping(w, "listblobs"), NEW s \in Sessions, Exists(s)'
      PROVE  Exists(s) \/ s \in sweep'[w].fresh
  <2>1. state[s] # "gone" /\ state'[s] # "none"
    BY <1>0, <1>4, GoneStaysGone DEF Exists, RowStates
  <2> QED
    BY <1>1, <1>4, <2>1 DEF Exists, TypeOK, RowOK
<1>5. SweepKnows(w)
  BY DEF SweepsKnow
<1>6. Sweeping(w, "unlinkdeleted")' =>
        \A f \in sweep'[w].todo : deleted'[f] \/ Unshared(f)'
  BY <1>0, <1>1, <1>2, <1>5 DEF SweepKnows, Sweeping
<1>7. Sweeping(w, "chunks")' =>
        \A s \in Sessions \ (sweep'[w].refs \cup sweep'[w].fresh) : Unneeded(s)'
  BY <1>1, <1>3, <1>5 DEF SweepKnows, Sweeping
<1>8. Sweeping(w, "listblobs")' => \A s \in Sessions :
        Exists(s)' => FileOf[s] \in sweep'[w].refs \/ s \in sweep'[w].fresh
  BY <1>1, <1>4, <1>5 DEF SweepKnows, Sweeping
<1>9. sweep'[w].at \in {"lookup", "unlink"} =>
        \A f \in sweep'[w].todo : AllGone(f)' \/ Fast(f)'
  BY <1>1, <1>2, <1>5 DEF SweepKnows
<1>10. Sweeping(w, "unlink")' => \A f \in sweep'[w].refs : f \in Files /\ Unshared(f)'
  BY <1>1, <1>2, <1>5 DEF SweepKnows, Sweeping
<1> QED
  BY <1>6, <1>7, <1>8, <1>9, <1>10 DEF SweepKnows

\* Uploads go on beside the sweeps.
LEMMA UploadsGoOn ==
  ASSUME DistinctFiles, CleanupInv, UploadStep
  PROVE  CleanupInv'
<1> USE DEF CleanupInv
<1>1. [Next]_vars /\ UNCHANGED <<deleted, fast>>
  BY DEF UploadStep
<1>2. SessionInv' /\ TypeOK /\ TypeOK'
  BY <1>1, SessionStep DEF SessionInv
<1>3. CleanupTypeOK'
  <2>1. CASE Sweepers = {}
    BY <1>1, <1>2, <2>1 DEF CleanupTypeOK, UploadStep
  <2>2. CASE Sweepers # {}
    <3>1. PICK w \in Sweepers : TRUE
      BY <2>2
    <3> QED
      BY <1>1, <1>2, <3>1, SweepsGoOn DEF CleanupTypeOK
  <2> QED
    BY <2>1, <2>2
<1>4. FinalizeInv' /\ BlobsInUse' /\ UnlinkUnshared' /\ OnceOpened'
  BY <1>1, FinalizedHasFileStep, FinalizesAssembledStep, BlobsInUseStep,
     UnlinkUnsharedStep, OnceOpenedStep DEF FinalizeInv
<1>5. LiveFileHasBlob' /\ SweepSparesAssembled'
  BY <1>1, LiveFileStep, SparesAssembledStep
<1>6. SweepsKnow'
  BY UploadsSpareSweeps DEF SweepsKnow
<1> QED
  BY <1>2, <1>3, <1>4, <1>5, <1>6

\* The steps of a sweep leave the sessions and those who work on them alone.
LEMMA SessionsStay ==
  ASSUME CleanupInv, UNCHANGED <<row, worker, task, late>>,
         chunks' \in [Sessions -> SUBSET Chunks],
         blob' \in [Files -> Sessions \cup {None}],
         files' \in [Files -> Sessions \cup {None}],
         faults' \in 0 .. MaxFaults,
         \A s \in Sessions : chunks'[s] = chunks[s] \/ Unneeded(s)
  PROVE  SessionInv'
<1> USE DEF CleanupInv, SessionInv, row
<1>1. TypeOK' /\ AssembledWhole' /\ Untouched' /\ InsertedOnce' /\ Removals'
  BY DEF TypeOK, RowOK, AssembledWhole, Untouched, InsertedOnce, Removals
<1>2. FailingFairly' /\ OnlyDiskErrorsFail'
  BY DEF FailingFairly, Fenced, OnlyDiskErrorsFail
<1>3. TasksKnow'
  BY DEF TasksKnow, Unneeded, Busy
<1>4. ChunksKept'
  BY DEF ChunksKept, Unneeded
<1> QED
  BY <1>1, <1>2, <1>3, <1>4

\* What one sweep knows stays true when another one goes on.
LEMMA OtherSweeps ==
  ASSUME NEW w \in Sweepers, SweepKnows(w), sweep'[w] = sweep[w],
         sweep[w].todo \subseteq Files, UNCHANGED <<row, task, late>>,
         fast \subseteq fast',
         \A f \in Files : files[f] = None => files'[f] = None,
         \A f \in Files :
           deleted[f] => deleted'[f] \/ (files'[f] = None /\ AllGone(f))
  PROVE  SweepKnows(w)'
<1>1. \A f \in Files : AllGone(f)' <=> AllGone(f)
  BY DEF AllGone, row
<1>2. \A s \in Sessions : Unneeded(s)' <=> Unneeded(s)
  BY DEF Unneeded, Busy, row
<1>3. \A f \in Files : /\ Fast(f) => Fast(f)'
                       /\ Unshared(f) => Unshared(f)'
  BY <1>1 DEF Fast, Unshared
<1>4. Sweeping(w, "unlinkdeleted")' =>
        \A f \in sweep'[w].todo : deleted'[f] \/ Unshared(f)'
  BY <1>1, <1>3 DEF SweepKnows, Sweeping, Unshared
<1>5. Sweeping(w, "chunks")' =>
        \A s \in Sessions \ (sweep'[w].refs \cup sweep'[w].fresh) : Unneeded(s)'
  BY <1>2 DEF SweepKnows, Sweeping
<1>6. Sweeping(w, "listblobs")' => \A s \in Sessions :
        Exists(s)' => FileOf[s] \in sweep'[w].refs \/ s \in sweep'[w].fresh
  BY DEF SweepKnows, Sweeping, Exists, row
<1>7. sweep'[w].at \in {"lookup", "unlink"} =>
        \A f \in sweep'[w].todo : AllGone(f)' \/ Fast(f)'
  BY <1>1, <1>3 DEF SweepKnows
<1>8. Sweeping(w, "unlink")' => \A f \in sweep'[w].refs : f \in Files /\ Unshared(f)'
  BY <1>3 DEF SweepKnows, Sweeping
<1> QED
  BY <1>4, <1>5, <1>6, <1>7, <1>8 DEF SweepKnows

\* What is left to show of a step that takes blobs, files or chunks nobody needs.
SweptAside(w) ==
  /\ UNCHANGED <<row, worker, task, late>>
  /\ chunks' \in [Sessions -> SUBSET Chunks]
  /\ blob' \in [Files -> Sessions \cup {None}]
  /\ files' \in [Files -> Sessions \cup {None}]
  /\ deleted' \in [Files -> BOOLEAN]
  /\ sweep' \in [Sweepers -> SweepRecords]
  /\ fast \subseteq fast' /\ fast' \subseteq Sessions
  /\ faults' \in 0 .. MaxFaults
  /\ \A s \in Sessions : chunks'[s] = chunks[s] \/ Unneeded(s)
  /\ \A f \in Files :
       /\ blob'[f] = blob[f] \/ (blob'[f] = None /\ (deleted[f] \/ Unshared(f)))
       /\ \/ files'[f] = files[f] /\ (deleted[f] => deleted'[f])
          \/ deleted[f] /\ AllGone(f) /\ files'[f] = None
       /\ deleted'[f] => files'[f] # None
  /\ \A v \in Sweepers \ {w} : sweep'[v] = sweep[v]

\* Such a step keeps the invariant if its sweep knows what it does next.
LEMMA SweptAsideKeeps ==
  ASSUME DistinctFiles, CleanupInv, NEW w, SweptAside(w),
         w \in Sweepers => SweepKnows(w)'
  PROVE  CleanupInv'
<1> USE DEF CleanupInv
<1>0. UNCHANGED <<state, worker, task, late>>
  BY DEF SweptAside, row
<1>1. SessionInv'
  BY SessionsStay DEF SweptAside
<1>2. CleanupTypeOK'
  BY <1>1 DEF SweptAside, CleanupTypeOK, SessionInv
<1>3. \A s \in Sessions : FileOf[s] \in Files
  BY FileOfAssumption
<1>4. ASSUME NEW s \in Sessions \ fast, state[s] # "gone", state[s] # "none",
             files'[FileOf[s]] = None
      PROVE  /\ files[FileOf[s]] = None
             /\ blob'[FileOf[s]] = blob[FileOf[s]]
  <2>1. ~AllGone(FileOf[s]) /\ ~Fast(FileOf[s])
    BY <1>4 DEF AllGone, Fast, DistinctFiles, CleanupTypeOK
  <2> QED
    BY <1>3, <1>4, <2>1 DEF SweptAside, Unshared, OnceOpened
<1>5. BlobsInUse'
  <2> SUFFICES ASSUME NEW r \in Replicas, NEW s \in Sessions \ fast',
                      worker[r][s] = "finish", state[s] # "gone",
                      files'[FileOf[s]] = None
               PROVE  blob'[FileOf[s]] = s
    BY <1>0 DEF BlobsInUse
  <2>1. state[s] # "none" /\ s \notin fast
    BY DEF SessionInv, Untouched, SweptAside
  <2> QED
    BY <1>4, <2>1 DEF BlobsInUse
<1>6. UnlinkUnshared'
  <2>1. ASSUME NEW p \in Tasks, task[p].at = "unlink",
               NEW f, f = FileOf[task[p].sid]
        PROVE  files'[f] = None \/ f \in late
    <3>1. f \in Files /\ (files[f] = None \/ f \in late)
      BY <1>3, <2>1 DEF SessionInv, TasksKnow, UnlinkUnshared
    <3> QED
      BY <3>1 DEF SweptAside
  <2> QED
    BY <1>0, <2>1 DEF UnlinkUnshared
<1>7. OnceOpened'
  BY <1>0 DEF OnceOpened, SweptAside, AllGone
<1>8. LiveFileHasBlob'
  <2> SUFFICES ASSUME NEW f \in Files \ late, files'[f] # None,
                      files'[f] \notin fast', ~deleted'[f]
               PROVE  blob'[f] = files'[f]
    BY <1>0 DEF LiveFileHasBlob
  <2>1. files'[f] = files[f] /\ ~deleted[f] /\ files[f] \notin fast
    BY DEF SweptAside
  <2>2. /\ blob[f] = files[f] /\ files[f] \in Sessions /\ FileOf[files[f]] = f
    BY <2>1 DEF LiveFileHasBlob, OnceOpened, SessionInv, TypeOK
  <2>3. ~Fast(f)
    BY <2>1, <2>2 DEF Fast, DistinctFiles, CleanupTypeOK
  <2> QED
    BY <2>1, <2>2, <2>3 DEF SweptAside, Unshared
<1>9. SweepSparesAssembled'
  <2> SUFFICES ASSUME NEW s \in Sessions \ fast', state[s] = "assembled",
                      files'[FileOf[s]] = None
               PROVE  blob'[FileOf[s]] = s
    BY <1>0 DEF SweepSparesAssembled
  <2>1. s \notin fast
    BY DEF SweptAside
  <2> QED
    BY <1>3, <1>4, <2>1 DEF SweepSparesAssembled
<1>10. SweepsKnow'
  <2> SUFFICES ASSUME NEW v \in Sweepers
               PROVE  SweepKnows(v)'
    BY DEF SweepsKnow
  <2>1. CASE v # w
    <3>1. SweepKnows(v) /\ sweep'[v] = sweep[v] /\ sweep[v].todo \subseteq Files
      BY <2>1 DEF SweptAside, SweepsKnow, CleanupTypeOK, SweepRecords
    <3>2. /\ UNCHANGED <<row, task, late>>
          /\ fast \subseteq fast'
          /\ \A f \in Files : files[f] = None => files'[f] = None
          /\ \A f \in Files :
               deleted[f] => deleted'[f] \/ (files'[f] = None /\ AllGone(f))
      BY DEF SweptAside
    <3> QED
      BY <3>1, <3>2, OtherSweeps
  <2> QED
    BY <2>1
<1>11. FinalizeInv'
  <2>1. ASSUME NEW s \in Sessions, files[FileOf[s]] # None
        PROVE  files'[FileOf[s]] # None \/ state[s] = "gone"
    BY <1>3, <2>1 DEF SweptAside, AllGone
  <2>2. \A p \in Tasks : task[p].at # "idle" => task[p].sid \in Sessions
    BY DEF SessionInv, TasksKnow
  <2>3. FinalizedHasFile'
    BY <1>0, <2>1, <2>2 DEF FinalizeInv, FinalizedHasFile
  <2>4. FinalizesAssembled'
    BY <1>0, <2>1, <2>2 DEF FinalizeInv, FinalizesAssembled
  <2> QED
    BY <2>3, <2>4 DEF FinalizeInv
<1> QED
  BY <1>1, <1>2, <1>5, <1>6, <1>7, <1>8, <1>9, <1>10, <1>11

\* Where sweep w goes, with what it has read and has to do.
SweepTo(w, step, refs, todo) ==
  /\ sweep' \in [Sweepers -> SweepRecords]
  /\ sweep'[w].at = step /\ sweep'[w].refs = refs /\ sweep'[w].todo = todo
  /\ \A v \in Sweepers \ {w} : sweep'[v] = sweep[v]

LEMMA SweepForFacts ==
  ASSUME CleanupTypeOK, NEW w \in Sweepers, NEW step \in SweepSteps,
         NEW refs \in SUBSET (Sessions \cup Files), NEW todo \in SUBSET Files,
         SweepFor(w, step, refs, todo)
  PROVE  SweepTo(w, step, refs, todo)
BY DEF CleanupTypeOK, SweepFor, SweepTo, SweepRecords

\* A step that only moves sweep w on keeps the invariant if w knows what it does.
LEMMA SweepMovesOn ==
  ASSUME DistinctFiles, CleanupInv,
         UNCHANGED <<row, disk, files, late, worker, task, deleted>>,
         fast \subseteq fast', fast' \subseteq Sessions,
         faults' \in 0 .. MaxFaults, NEW w \in Sweepers, NEW step, NEW refs,
         NEW todo, SweepTo(w, step, refs, todo), SweepKnows(w)'
  PROVE  CleanupInv'
<1> USE DEF CleanupInv
<1>1. SweptAside(w)
  BY DEF SweptAside, SweepTo, disk, CleanupTypeOK, TypeOK, OnceOpened
<1> QED
  BY <1>1, SweptAsideKeeps

\* The steps of a sweep that only read.
LEMMA ReadingKeeps ==
  ASSUME DistinctFiles, CleanupInv, NEW w \in Sweepers,
         \/ GetDeletedFiles(w) \/ ChunkRefs(w) \/ FileRefs(w)
         \/ GetAllFileIDs(w) \/ LookUpFile(w) \/ SweepStops(w)
  PROVE  CleanupInv'
<1> USE DEF CleanupInv
<1> DEFINE S == sweep[w]
<1>0. /\ sweep \in [Sweepers -> SweepRecords] /\ fast \subseteq Sessions
      /\ S.refs \in SUBSET (Sessions \cup Files) /\ S.todo \in SUBSET Files
      /\ SweepKnows(w)
      /\ faults \in 0 .. MaxFaults
  BY DEF CleanupTypeOK, SweepRecords, SweepsKnow, SessionInv, TypeOK
<1>still. ASSUME UNCHANGED vars
          PROVE  /\ UNCHANGED <<row, disk, files, late, worker, task>>
                 /\ UNCHANGED <<blob, faults, state>>
  BY <1>still DEF vars, row, disk
<1>steps. /\ "unlinkdeleted" \in SweepSteps /\ "chunks" \in SweepSteps
          /\ "listblobs" \in SweepSteps /\ "lookup" \in SweepSteps
          /\ "unlink" \in SweepSteps
  BY DEF SweepSteps
<1>1. CASE GetDeletedFiles(w)
  <2> DEFINE todo == {f \in Stored : deleted[f]}
  <2>1. todo \in SUBSET Files /\ UNCHANGED <<vars, deleted, fast>>
    BY <1>1 DEF Stored, GetDeletedFiles
  <2>2. SweepTo(w, "unlinkdeleted", {}, todo)
    BY <1>1, <1>steps, <2>1, SweepForFacts DEF GetDeletedFiles
  <2>3. SweepKnows(w)'
    BY <2>1, <2>2 DEF SweepTo, SweepKnows, Sweeping
  <2> QED
    BY <1>0, <1>still, <2>1, <2>2, <2>3, SweepMovesOn
<1>2. CASE ChunkRefs(w)
  <2> DEFINE refs == {s \in Sessions : Exists(s)}
  <2>1. UNCHANGED <<vars, deleted, fast>> /\ refs \in SUBSET (Sessions \cup Files)
    BY <1>2 DEF ChunkRefs
  <2>2. SweepTo(w, "chunks", refs, {})
    BY <1>2, <1>steps, <2>1, SweepForFacts DEF ChunkRefs
  <2>3. \A s \in Sessions : ~Exists(s) => Unneeded(s)
    BY DEF SessionInv, Untouched, Unneeded, Busy, Exists, TypeOK, RowOK
  <2>4. \A s \in Sessions : Unneeded(s)' <=> Unneeded(s)
    BY <2>1 DEF Unneeded, Busy, vars
  <2>5. SweepKnows(w)'
    BY <2>2, <2>3, <2>4 DEF SweepTo, SweepKnows, Sweeping
  <2> QED
    BY <1>0, <1>still, <2>1, <2>2, <2>5, SweepMovesOn
<1>3. CASE FileRefs(w)
  <2> DEFINE refs == {FileOf[s] : s \in {t \in Sessions : Exists(t)}}
  <2>1. UNCHANGED <<vars, deleted, fast>> /\ refs \in SUBSET (Sessions \cup Files)
    BY <1>3, FileOfAssumption DEF FileRefs
  <2>2. SweepTo(w, "listblobs", refs, {})
    BY <1>3, <1>steps, <2>1, SweepForFacts DEF FileRefs
  <2>3. \A s \in Sessions : Exists(s)' => FileOf[s] \in refs
    BY <1>still, <2>1 DEF Exists
  <2>4. SweepKnows(w)'
    BY <2>2, <2>3 DEF SweepTo, SweepKnows, Sweeping
  <2> QED
    BY <1>0, <1>still, <2>1, <2>2, <2>4, SweepMovesOn
<1>4. CASE GetAllFileIDs(w)
  <2> DEFINE todo == Stored \ S.refs
  <2>1. /\ UNCHANGED <<vars, deleted>> /\ S.at = "listblobs"
        /\ todo \in SUBSET Files
        /\ fast' = fast \cup {s \in S.fresh : FileOf[s] \in todo}
        /\ S.fresh \in SUBSET Sessions
    BY <1>0, <1>4 DEF GetAllFileIDs, Sweeping, Stored, SweepRecords
  <2>2. SweepTo(w, "lookup", {}, todo)
    BY <1>4, <1>steps, <2>1, SweepForFacts DEF GetAllFileIDs
  <2>3. ASSUME NEW f \in todo
        PROVE  AllGone(f) \/ Fast(f)'
    <3> DEFINE s == blob[f]
    <3>1. f \in Files /\ s \in Sessions /\ FileOf[s] = f /\ state[s] # "none"
      BY <2>1, <2>3 DEF Stored, OnceOpened, SessionInv, TypeOK
    <3>2. CASE state[s] = "gone"
      BY <3>1, <3>2 DEF AllGone, DistinctFiles
    <3>3. CASE state[s] # "gone"
      <4>1. Exists(s)
        BY <3>1, <3>3 DEF Exists, SessionInv, TypeOK, RowOK
      <4>2. s \in S.fresh
        BY <1>0, <2>1, <2>3, <3>1, <4>1 DEF SweepKnows, Sweeping
      <4> QED
        BY <2>1, <2>3, <3>1, <4>2 DEF Fast
    <3> QED
      BY <3>2, <3>3
  <2>4. \A f \in Files : AllGone(f)' <=> AllGone(f)
    BY <1>still, <2>1 DEF AllGone
  <2>5. SweepKnows(w)'
    BY <2>1, <2>2, <2>3, <2>4 DEF SweepTo, SweepKnows, Sweeping
  <2>6. fast \subseteq fast' /\ fast' \subseteq Sessions
    BY <1>0, <2>1
  <2> QED
    BY <1>0, <1>still, <2>1, <2>2, <2>5, <2>6, SweepMovesOn
<1>5. CASE LookUpFile(w)
  <2>1. S.at = "lookup" /\ UNCHANGED <<vars, deleted, fast>>
    BY <1>5 DEF LookUpFile, Sweeping
  <2>2. \A f \in Files : /\ AllGone(f)' <=> AllGone(f)
                         /\ Fast(f)' <=> Fast(f)
                         /\ Unshared(f)' <=> Unshared(f)
    BY <1>still, <2>1 DEF AllGone, Fast, Unshared
  <2>3. \A f \in S.todo : AllGone(f) \/ Fast(f)
    BY <1>0, <2>1 DEF SweepKnows
  <2>4. ASSUME NEW f \in S.todo, files[f] = None, SweepFor(w, "unlink", {f}, S.todo)
        PROVE  CleanupInv'
    <3>1. f \in Files /\ {f} \in SUBSET (Sessions \cup Files)
      BY <1>0
    <3>2. SweepTo(w, "unlink", {f}, S.todo)
      BY <1>0, <1>steps, <2>4, <3>1, SweepForFacts
    <3>3. Unshared(f)
      BY <2>3, <2>4 DEF Unshared
    <3>4. SweepKnows(w)'
      BY <1>0, <2>2, <2>3, <3>1, <3>2, <3>3 DEF SweepTo, SweepKnows, Sweeping
    <3> QED
      BY <1>0, <1>still, <2>1, <3>2, <3>4, SweepMovesOn
  <2>5. ASSUME NEW f \in S.todo,
               sweep' = [sweep EXCEPT ![w].todo = @ \ {f}]
        PROVE  CleanupInv'
    <3>1. SweepTo(w, "lookup", S.refs, S.todo \ {f})
      BY <1>0, <2>1, <2>5 DEF SweepTo, SweepRecords, SweepSteps
    <3>2. SweepKnows(w)'
      BY <1>0, <2>2, <2>3, <3>1 DEF SweepTo, SweepKnows, Sweeping
    <3> QED
      BY <1>0, <1>still, <2>1, <3>1, <3>2, SweepMovesOn
  <2>6. CASE sweep' = [sweep EXCEPT ![w] = NotSweeping]
    <3>1. SweepTo(w, "idle", {}, {})
      BY <1>0, <2>6 DEF NotSweeping, SweepTo, SweepRecords, SweepSteps
    <3>2. SweepKnows(w)'
      BY <3>1 DEF SweepTo, SweepKnows, Sweeping
    <3> QED
      BY <1>0, <1>still, <2>1, <3>1, <3>2, SweepMovesOn
  <2> QED
    BY <1>5, <2>4, <2>5, <2>6 DEF LookUpFile
<1>6. CASE SweepStops(w)
  <2>1. /\ UNCHANGED <<row, disk, files, late, worker, task, deleted, fast>>
        /\ faults' \in 0 .. MaxFaults
    BY <1>0, <1>6, MaxFaultsAssumption DEF SweepStops
  <2>2. SweepTo(w, "idle", {}, {})
    BY <1>0, <1>6 DEF SweepStops, NotSweeping, SweepTo, SweepRecords, SweepSteps
  <2>3. SweepKnows(w)'
    BY <2>2 DEF SweepTo, SweepKnows, Sweeping
  <2> QED
    BY <1>0, <2>1, <2>2, <2>3, SweepMovesOn
<1> QED
  BY <1>1, <1>2, <1>3, <1>4, <1>5, <1>6

\* Files may be marked as deleted while the sweeps do nothing.
LEMMA SweepsWait ==
  ASSUME DistinctFiles, CleanupInv, UNCHANGED <<vars, sweep, fast>>,
         deleted' \in [Files -> BOOLEAN],
         \A f \in Files : /\ deleted[f] => deleted'[f]
                          /\ deleted'[f] => files[f] # None
  PROVE  CleanupInv'
<1>1. /\ sweep \in [Sweepers -> SweepRecords]
      /\ chunks \in [Sessions -> SUBSET Chunks]
      /\ blob \in [Files -> Sessions \cup {None}]
      /\ files \in [Files -> Sessions \cup {None}]
      /\ faults \in 0 .. MaxFaults
      /\ fast \subseteq Sessions
      /\ SweepsKnow
  BY DEF CleanupInv, CleanupTypeOK, TypeOK
<1>2. UNCHANGED <<row, worker, task, late, chunks, blob, files, faults>>
  BY DEF vars, row
<1>3. SweptAside({Sweepers})
  BY <1>1, <1>2 DEF SweptAside
<1>4. ASSUME NEW w \in Sweepers
      PROVE  SweepKnows(w)'
  <2>1. SweepKnows(w) /\ sweep[w].todo \subseteq Files
    BY <1>1 DEF SweepsKnow, SweepRecords
  <2> QED
    BY <1>2, <2>1, OtherSweeps
<1> QED
  BY <1>3, <1>4, SweptAsideKeeps

\* Files are only marked as deleted when there are any.
LEMMA MarkingKeeps ==
  ASSUME DistinctFiles, CleanupInv, UNCHANGED vars,
         \/ \E f \in Files : MarkFileDeleted(f)
         \/ \E w \in Sweepers : DeleteExpiredFiles(w)
         \/ \E w \in Sweepers, f \in Files : AdminDelete(w, f)
  PROVE  CleanupInv'
<1> USE DEF CleanupInv
<1>sweep. sweep \in [Sweepers -> SweepRecords]
  BY DEF CleanupTypeOK
<1>0. /\ deleted \in [Files -> BOOLEAN]
      /\ \A f \in Files : deleted[f] => files[f] # None
      /\ UNCHANGED <<row, worker, task, late, chunks, blob, files, faults>>
      /\ fast \subseteq Sessions
      /\ chunks \in [Sessions -> SUBSET Chunks]
      /\ blob \in [Files -> Sessions \cup {None}]
      /\ files \in [Files -> Sessions \cup {None}]
      /\ faults \in 0 .. MaxFaults
  BY DEF CleanupTypeOK, TypeOK, OnceOpened, vars, row
<1>1. ASSUME NEW f \in Files, MarkFileDeleted(f)
      PROVE  CleanupInv'
  BY <1>0, <1>1, SweepsWait DEF MarkFileDeleted
<1>2. ASSUME NEW w \in Sweepers, DeleteExpiredFiles(w)
      PROVE  CleanupInv'
  <2>1. /\ UNCHANGED fast /\ deleted' \in [Files -> BOOLEAN]
        /\ \A g \in Files : /\ deleted[g] => deleted'[g]
                            /\ deleted'[g] => files[g] # None
    BY <1>0, <1>2 DEF DeleteExpiredFiles
  <2>2. SweepTo(w, "deleted", sweep[w].refs, sweep[w].todo)
    BY <1>sweep, <1>2 DEF DeleteExpiredFiles, SweepOn, SweepTo, SweepRecords, SweepSteps
  <2>3. SweptAside(w) /\ SweepKnows(w)'
    BY <1>0, <2>1, <2>2 DEF SweptAside, SweepTo, SweepKnows, Sweeping
  <2> QED
    BY <2>3, SweptAsideKeeps
<1>3. ASSUME NEW w \in Sweepers, NEW f \in Files, AdminDelete(w, f)
      PROVE  CleanupInv'
  <2>1. /\ UNCHANGED fast /\ deleted' \in [Files -> BOOLEAN] /\ deleted'[f]
        /\ \A g \in Files : /\ deleted[g] => deleted'[g]
                            /\ deleted'[g] => files[g] # None
    BY <1>0, <1>3 DEF AdminDelete
  <2>2. SweepTo(w, "unlinkdeleted", {}, {f})
    BY <1>3, SweepForFacts DEF AdminDelete, SweepSteps
  <2>3. SweptAside(w)
    BY <1>0, <2>1, <2>2 DEF SweptAside, SweepTo
  <2>4. SweepKnows(w)'
    BY <2>1, <2>2 DEF SweepTo, SweepKnows, Sweeping
  <2> QED
    BY <2>3, <2>4, SweptAsideKeeps
<1> QED
  BY <1>1, <1>2, <1>3

\* The steps of a sweep that remove blobs, chunks or rows.
LEMMA RemovingKeeps ==
  ASSUME DistinctFiles, CleanupInv, NEW w \in Sweepers,
         \/ UnlinkDeleted(w) \/ CleanupOrphanedChunks(w)
         \/ PurgeDeletedFiles(w) \/ UnlinkOrphan(w)
  PROVE  CleanupInv'
<1> DEFINE S == sweep[w]
<1>sweep. sweep \in [Sweepers -> SweepRecords]
  BY DEF CleanupInv, CleanupTypeOK
<1>S. S.refs \in SUBSET (Sessions \cup Files) /\ S.todo \in SUBSET Files
  BY <1>sweep DEF SweepRecords
<1>knows. SweepKnows(w)
  BY DEF CleanupInv, SweepsKnow
<1>types. /\ chunks \in [Sessions -> SUBSET Chunks]
          /\ blob \in [Files -> Sessions \cup {None}]
          /\ files \in [Files -> Sessions \cup {None}]
          /\ deleted \in [Files -> BOOLEAN]
          /\ faults \in 0 .. MaxFaults
          /\ fast \subseteq Sessions
          /\ \A f \in Files : deleted[f] => files[f] # None
  BY DEF CleanupInv, CleanupTypeOK, TypeOK, OnceOpened
<1>same. ASSUME UNCHANGED <<row, files, late, fast>>
         PROVE  \A f \in Files : /\ AllGone(f)' <=> AllGone(f)
                                 /\ Fast(f)' <=> Fast(f)
                                 /\ Unshared(f)' <=> Unshared(f)
  BY <1>same DEF AllGone, Fast, Unshared, row
<1>unlink. ASSUME NEW f \in Files, deleted[f] \/ Unshared(f),
                  NEW step, NEW refs, NEW todo, SweepTo(w, step, refs, todo), Unlink(f),
                  UNCHANGED <<row, chunks, files, late, worker, task, faults>>,
                  UNCHANGED <<deleted, fast>>,
                  SweepKnows(w)'
           PROVE  CleanupInv'
  <2>1. SweptAside(w)
    BY <1>types, <1>unlink DEF SweptAside, SweepTo, Unlink
  <2> QED
    BY <1>unlink, <2>1, SweptAsideKeeps
<1>1. CASE UnlinkDeleted(w)
  <2>1. /\ S.at = "unlinkdeleted"
        /\ UNCHANGED <<row, chunks, files, late, worker, task, faults>>
        /\ UNCHANGED <<deleted, fast>>
    BY <1>1 DEF UnlinkDeleted, Sweeping
  <2>2. \A f \in S.todo : deleted[f] \/ Unshared(f)
    BY <1>knows, <2>1 DEF SweepKnows, Sweeping
  <2>3. ASSUME NEW f \in S.todo, Unlink(f),
               sweep' = [sweep EXCEPT ![w].todo = @ \ {f}]
        PROVE  CleanupInv'
    <3>1. SweepTo(w, "unlinkdeleted", S.refs, S.todo \ {f})
      BY <1>sweep, <1>S, <2>1, <2>3 DEF SweepTo, SweepRecords, SweepSteps
    <3>2. SweepKnows(w)'
      BY <1>S, <1>same, <2>1, <2>2, <3>1 DEF SweepTo, SweepKnows, Sweeping
    <3> QED
      BY <1>S, <1>unlink, <2>1, <2>2, <2>3, <3>1, <3>2
  <2>4. CASE SweepOn(w, "chunkrefs") /\ UNCHANGED blob
    <3>1. SweepTo(w, "chunkrefs", S.refs, S.todo)
      BY <1>sweep, <2>4 DEF SweepOn, SweepTo, SweepRecords, SweepSteps
    <3>2. SweepKnows(w)'
      BY <3>1 DEF SweepTo, SweepKnows, Sweeping
    <3>3. faults' \in 0 .. MaxFaults /\ UNCHANGED disk
      BY <1>types, <2>1, <2>4 DEF disk
    <3> QED
      BY <1>types, <2>1, <3>1, <3>2, <3>3, SweepMovesOn
  <2> QED
    BY <1>1, <2>3, <2>4 DEF UnlinkDeleted
<1>2. CASE CleanupOrphanedChunks(w)
  <2>1. /\ S.at = "chunks"
        /\ UNCHANGED <<row, blob, files, late, worker, task, faults>>
        /\ UNCHANGED <<deleted, fast>>
    BY <1>2 DEF CleanupOrphanedChunks, Sweeping
  <2>2. \A s \in Sessions \ (S.refs \cup S.fresh) : Unneeded(s)
    BY <1>knows, <2>1 DEF SweepKnows, Sweeping
  <2>3. ASSUME NEW s \in Sessions, s \notin S.refs \cup S.fresh,
               chunks' = [chunks EXCEPT ![s] = {}], UNCHANGED sweep
        PROVE  CleanupInv'
    <3>1. SweptAside(w)
      BY <1>sweep, <1>types, <2>1, <2>2, <2>3 DEF SweptAside
    <3>2. \A t \in Sessions : Unneeded(t)' <=> Unneeded(t)
      BY <2>1 DEF Unneeded, Busy, row
    <3>3. SweepKnows(w)'
      BY <2>1, <2>2, <2>3, <3>2 DEF SweepKnows, Sweeping
    <3> QED
      BY <3>1, <3>3, SweptAsideKeeps
  <2>4. CASE SweepFor(w, "purge", {}, {}) /\ UNCHANGED chunks
    <3>1. SweepTo(w, "purge", {}, {})
      BY <2>4, SweepForFacts DEF SweepSteps, CleanupInv
    <3>2. SweepKnows(w)'
      BY <3>1 DEF SweepTo, SweepKnows, Sweeping
    <3>3. faults' \in 0 .. MaxFaults /\ UNCHANGED disk
      BY <1>types, <2>1, <2>4 DEF disk
    <3> QED
      BY <1>types, <2>1, <3>1, <3>2, <3>3, SweepMovesOn
  <2> QED
    BY <1>2, <2>3, <2>4 DEF CleanupOrphanedChunks
<1>3. CASE PurgeDeletedFiles(w)
  <2>1. UNCHANGED <<row, disk, worker, task, faults, chunks, blob, late, fast>>
    BY <1>3 DEF PurgeDeletedFiles, disk
  <2>2. PICK old \in SUBSET {f \in Files : deleted[f]
                               /\ \A s \in Sessions : FileOf[s] = f => ~Exists(s)} :
          /\ files' = [f \in Files |-> IF f \in old THEN None ELSE files[f]]
          /\ deleted' = [f \in Files |-> deleted[f] /\ f \notin old]
    BY <1>3 DEF PurgeDeletedFiles
  <2>3. ASSUME NEW f \in Files, f \in old
        PROVE  deleted[f] /\ AllGone(f)
    <3>1. deleted[f] /\ files[f] \in Sessions
      BY <1>types, <2>2, <2>3
    <3>2. FileOf[files[f]] = f /\ state[files[f]] # "none"
      BY <3>1, NoneAssumption DEF CleanupInv, OnceOpened
    <3>3. \A s \in Sessions : FileOf[s] = f => s = files[f] /\ ~Exists(s)
      BY <2>2, <2>3, <3>1, <3>2 DEF DistinctFiles
    <3> QED
      BY <3>1, <3>2, <3>3 DEF AllGone, Exists, CleanupInv, SessionInv, TypeOK, RowOK
  <2>4. SweepTo(w, "filerefs", S.refs, S.todo)
    BY <1>sweep, <1>3 DEF PurgeDeletedFiles, SweepOn, SweepTo, SweepRecords, SweepSteps
  <2>5. SweptAside(w)
    BY <1>types, <2>1, <2>2, <2>3, <2>4 DEF SweptAside, SweepTo
  <2>6. SweepKnows(w)'
    BY <2>4 DEF SweepTo, SweepKnows, Sweeping
  <2> QED
    BY <2>5, <2>6, SweptAsideKeeps
<1>4. CASE UnlinkOrphan(w)
  <2>1. /\ S.at = "unlink"
        /\ UNCHANGED <<row, chunks, files, late, worker, task, faults>>
        /\ UNCHANGED <<deleted, fast>>
    BY <1>4 DEF UnlinkOrphan, Sweeping
  <2>2. PICK f \in S.refs :
          /\ Unlink(f)
          /\ SweepFor(w, "lookup", {}, S.todo \ {f})
    BY <1>4 DEF UnlinkOrphan
  <2>3. /\ f \in Files /\ Unshared(f)
        /\ \A g \in S.todo : AllGone(g) \/ Fast(g)
    BY <1>knows, <2>1 DEF SweepKnows, Sweeping
  <2>4. SweepTo(w, "lookup", {}, S.todo \ {f})
    BY <1>S, <2>2, SweepForFacts DEF SweepSteps, CleanupInv
  <2>5. SweepKnows(w)'
    BY <1>S, <1>same, <2>1, <2>3, <2>4 DEF SweepTo, SweepKnows, Sweeping
  <2> QED
    BY <1>unlink, <2>1, <2>2, <2>3, <2>4, <2>5
<1> QED
  BY <1>1, <1>2, <1>3, <1>4

LEMMA CleanupInitKnows ==
  ASSUME CleanupInit
  PROVE  CleanupInv
<1>1. Init /\ SessionInv /\ sweep = [w \in Sweepers |-> NotSweeping]
      /\ deleted = [f \in Files |-> FALSE] /\ fast = {}
  BY SessionInit DEF CleanupInit
<1>2. CleanupTypeOK
  BY <1>1 DEF CleanupTypeOK, SessionInv, NotSweeping, SweepRecords, SweepSteps
<1>3. FinalizeInv /\ BlobsInUse /\ UnlinkUnshared
  BY <1>1 DEF Init, FinalizeInv, FinalizedHasFile, FinalizesAssembled, BlobsInUse,
     UnlinkUnshared, Idle
<1>4. OnceOpened /\ LiveFileHasBlob /\ SweepSparesAssembled
  BY <1>1 DEF Init, OnceOpened, LiveFileHasBlob, SweepSparesAssembled
<1>5. SweepsKnow
  BY <1>1 DEF SweepsKnow, SweepKnows, Sweeping, NotSweeping
<1> QED
  BY <1>1, <1>2, <1>3, <1>4, <1>5 DEF CleanupInv

LEMMA CleanupStep ==
  ASSUME DistinctFiles, CleanupInv, [CleanupNext]_allVars
  PROVE  CleanupInv'
<1>1. CASE UploadStep
  BY <1>1, UploadsGoOn
<1>2. ASSUME NEW w \in Sweepers, SweepStep(w) \/ SweepStops(w)
      PROVE  CleanupInv'
  <2>1. CASE DeleteExpiredFiles(w)
    BY <2>1, MarkingKeeps DEF DeleteExpiredFiles
  <2> QED
    BY <1>2, <2>1, ReadingKeeps, RemovingKeeps DEF SweepStep
<1>3. ASSUME NEW f \in Files,
             MarkFileDeleted(f) \/ \E w \in Sweepers : AdminDelete(w, f)
      PROVE  CleanupInv'
  <2>1. UNCHANGED vars
    BY <1>3 DEF MarkFileDeleted, AdminDelete
  <2> QED
    BY <1>3, <2>1, MarkingKeeps
<1>4. CASE UNCHANGED allVars
  <2>1. deleted \in [Files -> BOOLEAN] /\ OnceOpened
    BY DEF CleanupInv, CleanupTypeOK
  <2> QED
    BY <1>4, <2>1, SweepsWait DEF allVars, cleanupVars, OnceOpened
<1> QED
  BY <1>1, <1>2, <1>3, <1>4 DEF CleanupNext

\* The cleanup is safe: for any number of uploads, replicas, sweeps that overlap
\* and faults, CleanupInv holds of every reachable state if file IDs are not
\* reused.
THEOREM CleanupSafe ==
  ASSUME DistinctFiles
  PROVE  CleanupSpec => []CleanupInv
<1>1. CleanupInit => CleanupInv
  BY CleanupInitKnows
<1>2. CleanupInv /\ [CleanupNext]_allVars => CleanupInv'
  BY CleanupStep
<1> QED
  BY <1>1, <1>2, PTL DEF CleanupSpec

\* No sweep, purge, report or admin's delete takes the blob of a file that has
\* not been deleted (performCleanup, cleanupOrphanedFiles), but of a file that
\* was created after its session was removed, or whose session was made and had
\* its blob in place between the two reads of one sweep.
THEOREM FilesSurviveSweeps ==
  ASSUME DistinctFiles
  PROVE  CleanupSpec => []LiveFileHasBlob
<1>1. CleanupInv => LiveFileHasBlob
  BY DEF CleanupInv
<1> QED
  BY <1>1, CleanupSafe, PTL

\* No sweep takes the blob of an assembled upload that waits for its finalize, if
\* its session was there when the sweep asked for the sessions or its blob was not
\* yet there when it listed the blobs. And none takes the chunks of an upload that
\* is still to be assembled: sessions that were made after the query are spared for
\* their age (cleanupOrphanedChunks).
THEOREM UploadsSurviveSweeps ==
  ASSUME DistinctFiles
  PROVE  CleanupSpec => []SweepsSpareUploads
<1>1. CleanupInv => SweepsSpareUploads
  BY DEF CleanupInv, SessionInv, SweepsSpareUploads
<1> QED
  BY <1>1, CleanupSafe, PTL
=============================================================================
