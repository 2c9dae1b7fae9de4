------------------------- MODULE FileAccess_proofs -------------------------
(***************************************************************************)
(* Who has the key of a file, for any accounts, requests and key versions: *)
(* keys stay readable, a transfer is answered once, its answer and the     *)
(* recipient's copy agree, and enough reports delete the file.             *)
(***************************************************************************)
EXTENDS FileAccess, FiniteSetTheorems, TLAPS

\* A task that moves leaves the others where they are.
LEMMA GotoFacts ==
  ASSUME TypeOK, NEW p \in Tasks, NEW t, Goto(p, t)
  PROVE  /\ task'[p] = t
         /\ \A q \in Tasks \ {p} : task'[q] = task[q]
BY DEF TypeOK, Goto

\* Where a task is tells what it remembers.
LEMMA TaskKinds ==
  ASSUME TypeOK, NEW p \in Tasks
  PROVE  /\ task[p].at \in {"key", "send"} => task[p] \in SendTask
         /\ task[p].at = "answer" => task[p] \in AnswerTask
         /\ task[p].at = "hand" => task[p] \in HandTask
         /\ task[p].at = "upload" => task[p] \in UploadTask
         /\ task[p].at \in {"trusted", "migrate", "create"} => task[p] \in StoreTask
         /\ task[p].at \in {"report", "count", "remove"} => task[p] \in ReportTask
BY DEF TypeOK, SendTask, AnswerTask, HandTask, UploadTask, StoreTask,
       ReportTask, Idle

----------------------------------------------------------------------------
(* Types *)

\* No step of an upload leaves the types.
LEMMA UploadTypes ==
  ASSUME TypeOK, NEW p \in Tasks, UploadStep(p)
  PROVE  TypeOK'
<1> USE TaskKinds DEF TypeOK, tables, Begin, Goto, Step, End, At, Idle
<1>1. ASSUME NEW v \in Versions, UploadFinalize(p, v)
      PROVE  TypeOK'
  BY <1>1 DEF UploadFinalize, UploadTask
<1>2. CASE GetActiveUserIdentityKey(p)
  BY <1>2 DEF GetActiveUserIdentityKey, UploadTask, StoreTask, Accounts
<1>3. CASE CreateFileWithEnvelope(p)
  BY <1>3 DEF CreateFileWithEnvelope, StoreTask, Key, FileAccessKeyEnvelope,
              File
<1> QED
  BY <1>1, <1>2, <1>3 DEF UploadStep

\* No step of a transfer, its answer or its download leaves the types.
LEMMA TransferTypes ==
  ASSUME TypeOK, NEW p \in Tasks, TransferStep(p)
  PROVE  TypeOK'
<1> USE TaskKinds DEF TypeOK, tables, Begin, Goto, Step, End, At, Idle
<1>1. ASSUME NEW u \in Users, NEW v \in Versions, ShareFileToUser(p, u, v)
      PROVE  TypeOK'
  BY <1>1 DEF ShareFileToUser, SendTask
<1>2. CASE RecipientKeyIsActive(p)
  BY <1>2 DEF RecipientKeyIsActive, SendTask
<1>3. CASE CreateTransfer(p)
  BY <1>3 DEF CreateTransfer, SendTask, Key, FileAccessKeyEnvelope, Transfer
<1>4. ASSUME NEW u \in Users, NEW answer \in Answers, RespondToTransfer(p, u,
            answer)
      PROVE  TypeOK'
  BY <1>4 DEF RespondToTransfer, MayAnswer, AnswerTask
<1>5. CASE CommitAnswer(p)
  BY <1>5 DEF CommitAnswer, AnswerTask, Transfer, Accounts
<1>6. ASSUME NEW u \in Users, FileAccess(p, u)
      PROVE  TypeOK'
  BY <1>6 DEF FileAccess, HandTask
<1>7. CASE GetFileAccessKeyEnvelope(p)
  <2>1. [user |-> task[p].user, locked |-> FALSE] \in Handed
    BY <1>7 DEF GetFileAccessKeyEnvelope, HandOut, HandTask, Handed
  <2> QED
    BY <1>7, <2>1 DEF GetFileAccessKeyEnvelope, HandOut
<1> QED
  BY <1>1, <1>2, <1>3, <1>4, <1>5, <1>6, <1>7 DEF TransferStep

\* No step of a migration leaves the types.
LEMMA MigrationTypes ==
  ASSUME TypeOK, NEW p \in Tasks, MigrationStep(p)
  PROVE  TypeOK'
<1> USE TaskKinds DEF TypeOK, tables, Begin, Goto, Step, End, At, Idle
<1>1. ASSUME NEW v \in Versions, StoreFiles(p, v)
      PROVE  TypeOK'
  BY <1>1 DEF StoreFiles, StoreTask, Accounts
<1>2. CASE SentForActive(p)
  BY <1>2 DEF SentForActive, StoreTask
<1>3. CASE StoreMigratedOwnerEnvelopes(p)
  BY <1>3 DEF StoreMigratedOwnerEnvelopes, StoreTask, Key,
              FileAccessKeyEnvelope
<1> QED
  BY <1>1, <1>2, <1>3 DEF MigrationStep

\* No step of a report leaves the types.
LEMMA ReportTypes ==
  ASSUME TypeOK, NEW p \in Tasks, ReportStep(p)
  PROVE  TypeOK'
<1> USE TaskKinds DEF TypeOK, tables, Begin, Goto, Step, End, At, Idle
<1>1. ASSUME NEW r \in Reporters \cup Guests, Report(p, r)
      PROVE  TypeOK'
  BY <1>1 DEF Report, ReportTask
<1>2. ASSUME NEW u \in Users, ReportTransfer(p, u)
      PROVE  TypeOK'
  BY <1>2 DEF ReportTransfer, Report, ReportTask
<1>3. CASE CreateReport(p)
  BY <1>3 DEF CreateReport, ReportTask
<1>4. CASE CountSignedInReporters(p)
  BY <1>4 DEF CountSignedInReporters, ReportTask
<1>5. CASE AutoDelete(p)
  BY <1>5 DEF AutoDelete, MarkDeleted, File
<1> QED
  BY <1>1, <1>2, <1>3, <1>4, <1>5 DEF ReportStep

\* Recovery, the list of locked keys and rescue keep the types.
LEMMA AccountTypes ==
  ASSUME TypeOK, AccountStep
  PROVE  TypeOK'
<1> USE MaxVersionAssumption DEF TypeOK, tables, NoKey, Versions
<1>1. ASSUME NEW a \in Accounts, RecoverIdentityKey(a)
      PROVE  TypeOK'
  BY <1>1 DEF RecoverIdentityKey
<1>2. ASSUME NEW a \in Accounts, NEW from \in Versions, NEW to \in Versions,
             RescueLockedFileKeys(a, from, to)
      PROVE  TypeOK'
  BY <1>2 DEF RescueLockedFileKeys, Key, FileAccessKeyEnvelope
<1>3. ASSUME NEW u \in Users, ListLockedFileKeys(u)
      PROVE  TypeOK'
  <2>1. [user |-> u, locked |-> TRUE] \in Handed
    BY DEF Handed
  <2> QED
    BY <1>3, <2>1 DEF ListLockedFileKeys
<1> QED
  BY <1>1, <1>2, <1>3 DEF AccountStep, Rescue

\* The end of the file keeps the types.
LEMMA FileTypes ==
  ASSUME TypeOK, FileStep
  PROVE  TypeOK'
<1> USE DEF TypeOK, tables
<1>1. CASE Expire
  BY <1>1 DEF Expire, File
<1>2. CASE DeleteExpiredFiles
  BY <1>2 DEF DeleteExpiredFiles, File
<1>3. CASE DeleteFile
  BY <1>3 DEF DeleteFile, MarkDeleted, File
<1>4. CASE PurgeDeletedFiles
  BY <1>4 DEF PurgeDeletedFiles, File, Transfer
<1>5. CASE PurgeClosedReports
  BY <1>5 DEF PurgeClosedReports
<1> QED
  BY <1>1, <1>2, <1>3, <1>4, <1>5 DEF FileStep, RunRetention

\* A failing request keeps the types.
LEMMA AbortTypes ==
  ASSUME TypeOK, NEW p \in Tasks, Abort(p)
  PROVE  TypeOK'
BY DEF TypeOK, Abort, tables, End, Goto

\* The types hold at the start.
LEMMA InitTypes == Init => TypeOK
<1> SUFFICES ASSUME Init
             PROVE  TypeOK
  OBVIOUS
<1>1. 1 \in Versions
  BY MaxVersionAssumption DEF Versions
<1> QED
  BY <1>1 DEF Init, TypeOK, File, Transfer

\* Every variable keeps its type in every step.
LEMMA StepTypes == TypeOK /\ [Next]_vars => TypeOK'
<1> SUFFICES ASSUME TypeOK, [Next]_vars
             PROVE  TypeOK'
  OBVIOUS
<1>1. ASSUME NEW p \in Tasks,
             UploadStep(p) \/ TransferStep(p) \/ MigrationStep(p)
               \/ ReportStep(p) \/ Abort(p)
      PROVE  TypeOK'
  BY <1>1, UploadTypes, TransferTypes, MigrationTypes, ReportTypes, AbortTypes
<1>2. CASE AccountStep \/ FileStep
  BY <1>2, AccountTypes, FileTypes
<1>3. CASE UNCHANGED vars
  BY <1>3 DEF vars, tables, TypeOK
<1> QED
  BY <1>1, <1>2, <1>3 DEF Next

\* What is stored of a file, its transfers, keys and reports, and what every
\* request remembers, keeps its type.
THEOREM TypeCorrect == Spec => []TypeOK
BY InitTypes, StepTypes, PTL DEF Spec

----------------------------------------------------------------------------
(* The keys. A step that changes one part of KeyInv is judged by the whole: *)
(* KeyCore is KeyInv without the count of reports, which needs its own      *)
(* argument.                                                                *)

KeyCore ==
  /\ StoredAsSent /\ AnswersHoldRow /\ RecipientsShare /\ NothingBefore
  /\ FollowedUpStored
  /\ KeysReadable /\ TransferMatchesKey /\ HandedToAccepted

\* The owner's first copy is stored with the file, as it was sent.
LEMMA UploadKeepsKeys ==
  ASSUME TypeOK, KeyCore, NEW p \in Tasks, UploadStep(p)
  PROVE  KeyCore'
<1> USE TaskKinds, AccountsAssumption
        DEF KeyCore, StoredAsSent, AnswersHoldRow, RecipientsShare,
            NothingBefore, FollowedUpStored, KeysReadable, TransferMatchesKey,
            HandedToAccepted, TypeOK, tables, Available, HasRow, Accounts,
            Begin, Goto, Step, End, At, Idle
<1>1. ASSUME NEW v \in Versions, UploadFinalize(p, v)
      PROVE  KeyCore'
  BY <1>1 DEF UploadFinalize
<1>2. CASE GetActiveUserIdentityKey(p)
  BY <1>2 DEF GetActiveUserIdentityKey
<1>3. CASE CreateFileWithEnvelope(p)
  BY <1>3 DEF CreateFileWithEnvelope, StoreTask, Key, NoKey
<1> QED
  BY <1>1, <1>2, <1>3 DEF UploadStep

\* Sending stores both rows or none, an answer both of its changes.
LEMMA TransferKeepsKeys ==
  ASSUME TypeOK, KeyCore, NEW p \in Tasks, TransferStep(p)
  PROVE  KeyCore'
<1> USE TaskKinds, AccountsAssumption
        DEF KeyCore, StoredAsSent, AnswersHoldRow, RecipientsShare,
            NothingBefore, FollowedUpStored, KeysReadable, TransferMatchesKey,
            HandedToAccepted, TypeOK, tables, Available, HasRow, Accounts,
            Begin, Goto, Step, End, At, Idle
<1>1. ASSUME NEW u \in Users, NEW v \in Versions, ShareFileToUser(p, u, v)
      PROVE  KeyCore'
  BY <1>1 DEF ShareFileToUser
<1>2. CASE RecipientKeyIsActive(p)
  BY <1>2 DEF RecipientKeyIsActive, SendTask
<1>3. CASE CreateTransfer(p)
  <2> DEFINE u == task[p].user
  <2>1. CASE HasRow /\ transfer[u] = "none" /\ envelope[u] = NoKey
    <3>1. /\ u \in Users /\ u # Owner /\ task[p].ver \in Versions
          /\ transfer' = [transfer EXCEPT ![u] = "pending"]
          /\ envelope' = [envelope EXCEPT ![u] =
                            Key("share", task[p].ver, task[p].ver)]
          /\ Goto(p, Idle) /\ task[p].at = "send"
          /\ UNCHANGED <<file, reported, version, handed, failed>>
      BY <1>3, <2>1 DEF CreateTransfer, SendTask
    <3>2. /\ StoredAsSent' /\ NothingBefore' /\ FollowedUpStored'
      BY <3>1, <2>1
    <3>3. AnswersHoldRow'
      BY <3>1, <2>1, AnswersHoldRow DEF AnswerTask
    <3>4. RecipientsShare' /\ KeysReadable' /\ TransferMatchesKey'
      BY <3>1, <2>1 DEF Key, NoKey
    <3>5. HandedToAccepted'
      BY <3>1, <2>1
    <3> QED
      BY <3>2, <3>3, <3>4, <3>5
  <2>2. CASE ~(HasRow /\ transfer[u] = "none" /\ envelope[u] = NoKey)
    BY <1>3, <2>2 DEF CreateTransfer
  <2> QED
    BY <2>1, <2>2
<1>4. ASSUME NEW u \in Users, NEW answer \in Answers, RespondToTransfer(p, u,
            answer)
      PROVE  KeyCore'
  BY <1>4 DEF RespondToTransfer, MayAnswer, Locked
<1>5. CASE CommitAnswer(p)
  BY <1>5 DEF CommitAnswer, AnswerTask, NoKey, Answers, Transfer,
              FileAccessKeyEnvelope
<1>6. ASSUME NEW u \in Users, FileAccess(p, u)
      PROVE  KeyCore'
  BY <1>6 DEF FileAccess
<1>7. CASE GetFileAccessKeyEnvelope(p)
  BY <1>7 DEF GetFileAccessKeyEnvelope, HandOut, HandTask, NoKey
<1> QED
  BY <1>1, <1>2, <1>3, <1>4, <1>5, <1>6, <1>7 DEF TransferStep

\* Only a missing copy of the owner's is stored, for the version it was sent
\* for.
LEMMA MigrationKeepsKeys ==
  ASSUME TypeOK, KeyCore, NEW p \in Tasks, MigrationStep(p)
  PROVE  KeyCore'
<1> USE TaskKinds, AccountsAssumption
        DEF KeyCore, StoredAsSent, AnswersHoldRow, RecipientsShare,
            NothingBefore, FollowedUpStored, KeysReadable, TransferMatchesKey,
            HandedToAccepted, TypeOK, tables, Available, HasRow, Accounts,
            Begin, Goto, Step, End, At, Idle
<1>1. ASSUME NEW v \in Versions, StoreFiles(p, v)
      PROVE  KeyCore'
  BY <1>1 DEF StoreFiles
<1>2. CASE SentForActive(p)
  BY <1>2 DEF SentForActive, StoreTask
<1>3. CASE StoreMigratedOwnerEnvelopes(p)
  BY <1>3 DEF StoreMigratedOwnerEnvelopes, StoreTask, Key, NoKey
<1> QED
  BY <1>1, <1>2, <1>3 DEF MigrationStep

\* Reports leave the keys alone.
LEMMA ReportKeepsKeys ==
  ASSUME TypeOK, KeyCore, NEW p \in Tasks, ReportStep(p)
  PROVE  KeyCore'
<1> USE TaskKinds, AccountsAssumption
        DEF KeyCore, StoredAsSent, AnswersHoldRow, RecipientsShare,
            NothingBefore, FollowedUpStored, KeysReadable, TransferMatchesKey,
            HandedToAccepted, TypeOK, tables, Available, HasRow, Accounts,
            Begin, Goto, Step, End, At, Idle
<1>1. ASSUME NEW r \in Reporters \cup Guests, Report(p, r)
      PROVE  KeyCore'
  BY <1>1 DEF Report
<1>2. ASSUME NEW u \in Users, ReportTransfer(p, u)
      PROVE  KeyCore'
  BY <1>2 DEF ReportTransfer, Report
<1>3. CASE CreateReport(p)
  BY <1>3 DEF CreateReport, ReportTask
<1>4. CASE CountSignedInReporters(p)
  BY <1>4 DEF CountSignedInReporters, ReportTask
<1>5. CASE AutoDelete(p)
  BY <1>5 DEF AutoDelete, MarkDeleted, ReportTask
<1> QED
  BY <1>1, <1>2, <1>3, <1>4, <1>5 DEF ReportStep

\* A rescued key is stored for the version it was wrapped for, and only accounts
\* that were recovered have keys to list.
LEMMA AccountKeepsKeys ==
  ASSUME TypeOK, KeyCore, AccountStep
  PROVE  KeyCore'
<1> USE AccountsAssumption DEF KeyCore, StoredAsSent, AnswersHoldRow,
                               RecipientsShare, NothingBefore,
                               FollowedUpStored, KeysReadable,
                               TransferMatchesKey, HandedToAccepted, TypeOK,
                               tables, Available, HasRow, Accounts, NoKey, At,
                               Key
<1>1. ASSUME NEW a \in Accounts, RecoverIdentityKey(a)
      PROVE  KeyCore'
  <2>1. UNCHANGED <<tables, task, handed, failed>>
    BY <1>1 DEF RecoverIdentityKey
  <2>2. \A h \in handed : version[h.user] > 1 => version'[h.user] > 1
    <3> SUFFICES ASSUME NEW h \in handed, version[h.user] > 1
                 PROVE  version'[h.user] > 1
      OBVIOUS
    <3>1. h.user \in Accounts
      BY DEF Handed
    <3>2. version[h.user] \in Nat /\ version[a] \in Nat
      BY <3>1 DEF Versions
    <3> QED
      BY <1>1, <3>1, <3>2 DEF RecoverIdentityKey
  <2>3. HandedToAccepted'
    BY <2>1, <2>2
  <2> QED
    BY <2>1, <2>3
<1>2. ASSUME NEW a \in Accounts, NEW from \in Versions, NEW to \in Versions,
             RescueLockedFileKeys(a, from, to)
      PROVE  KeyCore'
  BY <1>2 DEF RescueLockedFileKeys
<1>3. ASSUME NEW u \in Users, ListLockedFileKeys(u)
      PROVE  KeyCore'
  <2>1. file = "live" /\ UNCHANGED <<tables, version, task>>
    BY <1>3 DEF ListLockedFileKeys
  <2>2. version[u] > 1
    <3>1. envelope[u] \in FileAccessKeyEnvelope /\ envelope[u].ver < version[u]
      BY <1>3 DEF ListLockedFileKeys
    <3> QED
      BY <3>1 DEF FileAccessKeyEnvelope, Versions
  <2>3. handed' = handed \cup {[user |-> u, locked |-> TRUE]}
    BY <1>3 DEF ListLockedFileKeys
  <2>4. HandedToAccepted'
    BY <2>1, <2>2, <2>3
  <2> QED
    BY <2>1, <2>3, <2>4
<1> QED
  BY <1>1, <1>2, <1>3 DEF AccountStep, Rescue

\* The purge takes transfers and keys together, and waits for an answer.
LEMMA FileKeepsKeys ==
  ASSUME TypeOK, KeyCore, FileStep
  PROVE  KeyCore'
<1> USE AccountsAssumption, TaskKinds
        DEF KeyCore, StoredAsSent, AnswersHoldRow, RecipientsShare,
            NothingBefore, FollowedUpStored, KeysReadable, TransferMatchesKey,
            HandedToAccepted, TypeOK, tables, Available, HasRow, Accounts,
            NoKey, At, Locked, AnswerTask
<1>1. CASE Expire
  BY <1>1 DEF Expire
<1>2. CASE DeleteExpiredFiles
  BY <1>2 DEF DeleteExpiredFiles
<1>3. CASE DeleteFile
  BY <1>3 DEF DeleteFile, MarkDeleted
<1>4. CASE PurgeDeletedFiles
  BY <1>4 DEF PurgeDeletedFiles, Transfer, Answers
<1>5. CASE PurgeClosedReports
  BY <1>5 DEF PurgeClosedReports
<1> QED
  BY <1>1, <1>2, <1>3, <1>4, <1>5 DEF FileStep, RunRetention

\* A request that fails changes no table.
LEMMA AbortKeepsKeys ==
  ASSUME TypeOK, KeyCore, NEW p \in Tasks, Abort(p)
  PROVE  KeyCore'
BY DEF Abort, KeyCore, StoredAsSent, AnswersHoldRow, RecipientsShare,
       NothingBefore, FollowedUpStored, KeysReadable, TransferMatchesKey,
       HandedToAccepted, TypeOK, tables, Available, HasRow, Accounts, End,
       Goto, At, Idle

\* Every step keeps the part of the invariant that is about keys.
LEMMA StepKeepsKeys ==
  ASSUME TypeOK, KeyCore, [Next]_vars
  PROVE  KeyCore'
<1>1. ASSUME NEW p \in Tasks,
             UploadStep(p) \/ TransferStep(p) \/ MigrationStep(p)
               \/ ReportStep(p) \/ Abort(p)
      PROVE  KeyCore'
  BY <1>1, UploadKeepsKeys, TransferKeepsKeys, MigrationKeepsKeys,
     ReportKeepsKeys, AbortKeepsKeys
<1>2. CASE AccountStep \/ FileStep
  BY <1>2, AccountKeepsKeys, FileKeepsKeys
<1>3. CASE UNCHANGED vars
  BY <1>3 DEF vars, KeyCore, StoredAsSent, AnswersHoldRow, RecipientsShare,
              NothingBefore, FollowedUpStored, KeysReadable,
              TransferMatchesKey, HandedToAccepted, TypeOK, tables, Available,
              HasRow, Accounts, At
<1> QED
  BY <1>1, <1>2, <1>3 DEF Next

----------------------------------------------------------------------------
(* The count of the reports *)

\* What steps that have no part in reports leave alone.
Undisturbed ==
  /\ reported' = reported /\ failed' = failed
  /\ Available' => Available \/ file = "none"
  /\ \A q \in Tasks : task[q].at \in {"count", "remove"} => task'[q] = task[q]

\* No reports are never enough.
LEMMA NoReportsBelow == ~Enough(Cardinality({} \ Guests))
<1>1. {} \ Guests = {}
  OBVIOUS
<1> QED
  BY <1>1, FS_EmptySet, ThresholdAssumption DEF Enough

\* Steps that have no part in reports leave the count as it is.
LEMMA UndisturbedDeletes ==
  ASSUME TypeOK, NothingBefore, EnoughReportsDelete, Undisturbed
  PROVE  EnoughReportsDelete'
<1> SUFFICES ASSUME Available', Enough(Cardinality(reported \ Guests)), ~failed
             PROVE  \E r \in reported : UnderWay(r)'
  BY DEF EnoughReportsDelete, Undisturbed
<1>1. Available
  BY NoReportsBelow DEF Undisturbed, NothingBefore
<1>2. PICK r \in reported : UnderWay(r)
  BY <1>1 DEF EnoughReportsDelete
<1> QED
  BY <1>2 DEF UnderWay, Undisturbed

\* Uploads, transfers and migrations are such steps,
LEMMA OthersUndisturbed ==
  ASSUME TypeOK, NEW p \in Tasks,
         UploadStep(p) \/ TransferStep(p) \/ MigrationStep(p)
  PROVE  Undisturbed
<1> USE DEF TypeOK, tables, Undisturbed, Begin, Goto, Step, End, At, Available
<1>1. CASE UploadStep(p)
  BY <1>1 DEF UploadStep, UploadFinalize, GetActiveUserIdentityKey,
              CreateFileWithEnvelope
<1>2. CASE TransferStep(p)
  BY <1>2 DEF TransferStep, ShareFileToUser, RecipientKeyIsActive,
              CreateTransfer, RespondToTransfer, MayAnswer, CommitAnswer,
              FileAccess, GetFileAccessKeyEnvelope, HandOut
<1>3. CASE MigrationStep(p)
  BY <1>3 DEF MigrationStep, StoreFiles, SentForActive,
              StoreMigratedOwnerEnvelopes
<1> QED
  BY <1>1, <1>2, <1>3

\* and so is all that happens to accounts and to the file.
LEMMA FileUndisturbed ==
  ASSUME TypeOK, AccountStep \/ FileStep, ~PurgeClosedReports
  PROVE  Undisturbed
BY DEF TypeOK, tables, Undisturbed, Available, AccountStep, Rescue,
       RecoverIdentityKey, RescueLockedFileKeys, ListLockedFileKeys,
       FileStep, RunRetention,
       Expire, DeleteExpiredFiles, DeleteFile, MarkDeleted, HasRow,
       PurgeDeletedFiles

\* A report that completes the number goes on to delete the file.
LEMMA ReportDeletes ==
  ASSUME TypeOK, FollowedUpStored, NothingBefore, EnoughReportsDelete,
         NEW p \in Tasks, ReportStep(p)
  PROVE  EnoughReportsDelete'
<1>1. ASSUME \/ \E r \in Reporters \cup Guests : Report(p, r)
             \/ \E u \in Users : ReportTransfer(p, u)
      PROVE  EnoughReportsDelete'
  <2>1. Undisturbed
    BY <1>1 DEF TypeOK, Undisturbed, ReportTransfer, Report, Begin, Goto, At,
                tables, Available
  <2> QED
    BY <2>1, UndisturbedDeletes
<1>2. CASE CreateReport(p)
  <2>1. CASE task[p].by \in reported /\ task[p].by \notin Guests
    <3>1. Undisturbed
      BY <1>2, <2>1 DEF TypeOK, Undisturbed, CreateReport, End, Goto, At,
                        Available
    <3> QED
      BY <3>1, UndisturbedDeletes
  <2>2. CASE ~(task[p].by \in reported /\ task[p].by \notin Guests)
    \* The new report itself is on its way to the count.
    <3>1. task'[p].at = "count" /\ task'[p].by = task[p].by
      BY <1>2, <2>2, TaskKinds
         DEF TypeOK, CreateReport, Step, Goto, At, ReportTask
    <3> QED
      BY <1>2, <3>1 DEF CreateReport, UnderWay, EnoughReportsDelete
  <2> QED
    BY <2>1, <2>2
<1>3. CASE CountSignedInReporters(p)
  <2>1. CASE Enough(Cardinality(reported \ Guests))
    \* The count goes on to the deletion with the report it was made for.
    <3>1. /\ task'[p].at = "remove" /\ task'[p].by = task[p].by
          /\ task[p].at = "count"
          /\ UNCHANGED <<file, reported>>
      BY <1>3, <2>1, TaskKinds
         DEF TypeOK, CountSignedInReporters, Step, Goto, At, ReportTask,
             tables
    <3>2. CASE Available
      BY <3>1, <3>2 DEF FollowedUpStored, UnderWay, EnoughReportsDelete
    <3>3. CASE ~Available
      BY <3>1, <3>3 DEF EnoughReportsDelete, Available
    <3> QED
      BY <3>2, <3>3
  <2>2. CASE ~Enough(Cardinality(reported \ Guests))
    BY <1>3, <2>2 DEF CountSignedInReporters, tables, EnoughReportsDelete
  <2> QED
    BY <2>1, <2>2
<1>4. CASE AutoDelete(p)
  BY <1>4 DEF AutoDelete, MarkDeleted, EnoughReportsDelete, Available
<1> QED
  BY <1>1, <1>2, <1>3, <1>4 DEF ReportStep

\* A follow-up that fails is remembered.
LEMMA AbortDeletes ==
  ASSUME TypeOK, NothingBefore, EnoughReportsDelete, NEW p \in Tasks, Abort(p)
  PROVE  EnoughReportsDelete'
<1>1. CASE task[p].at \in {"count", "remove"}
  BY <1>1 DEF Abort, EnoughReportsDelete
<1>2. CASE task[p].at \notin {"count", "remove"}
  <2>1. Undisturbed
    BY <1>2 DEF Abort, TypeOK, Undisturbed, End, Goto, At, tables, Available
  <2> QED
    BY <2>1, UndisturbedDeletes
<1> QED
  BY <1>1, <1>2

\* Every step keeps what is said of the number of reports.
LEMMA StepDeletes ==
  ASSUME TypeOK, KeyInv, [Next]_vars
  PROVE  EnoughReportsDelete'
<1> USE DEF KeyInv
<1>1. ASSUME NEW p \in Tasks,
             UploadStep(p) \/ TransferStep(p) \/ MigrationStep(p)
               \/ ReportStep(p) \/ Abort(p)
      PROVE  EnoughReportsDelete'
  BY <1>1, OthersUndisturbed, UndisturbedDeletes, ReportDeletes, AbortDeletes
<1>2. CASE AccountStep \/ FileStep
  <2>1. CASE PurgeClosedReports
    BY <2>1 DEF PurgeClosedReports, EnoughReportsDelete, Available
  <2> QED
    BY <1>2, <2>1, FileUndisturbed, UndisturbedDeletes
<1>3. CASE UNCHANGED vars
  BY <1>3 DEF vars, tables, EnoughReportsDelete, Available, UnderWay
<1> QED
  BY <1>1, <1>2, <1>3 DEF Next

----------------------------------------------------------------------------
(* The theorems *)

\* The invariant holds at the start,
LEMMA InitKeys == Init => KeyInv
<1> SUFFICES ASSUME Init
             PROVE  KeyInv
  OBVIOUS
<1>1. EnoughReportsDelete
  BY NoReportsBelow DEF Init, EnoughReportsDelete
<1> QED
  BY <1>1 DEF Init, KeyInv, StoredAsSent, AnswersHoldRow, RecipientsShare,
              NothingBefore, FollowedUpStored, KeysReadable,
              TransferMatchesKey, HandedToAccepted, Idle, NoKey, At, Accounts

\* and in every step.
LEMMA StepKeys ==
  ASSUME TypeOK, KeyInv, [Next]_vars
  PROVE  KeyInv'
<1>1. KeyCore'
  BY StepKeepsKeys DEF KeyInv, KeyCore
<1> QED
  BY <1>1, StepDeletes DEF KeyInv, KeyCore

\* Requests that interleave statement by statement keep all of it at once.
THEOREM KeysCorrect == Spec => [](TypeOK /\ KeyInv)
<1>1. TypeOK /\ KeyInv /\ [Next]_vars => (TypeOK /\ KeyInv)'
  BY StepTypes, StepKeys
<1> QED
  BY <1>1, InitTypes, InitKeys, PTL DEF Spec

\* Whatever recoveries, rescues and migrations run beside each other, some
\* version of the account's identity key opens its copy of the file key.
THEOREM Readable == Spec => []KeysReadable
BY KeysCorrect, PTL DEF KeyInv

\* A recipient has a key exactly as long as the transfer is not declined.
THEOREM TransfersMatch == Spec => []TransferMatchesKey
BY KeysCorrect, PTL DEF KeyInv

\* The server hands a file's key only to recipients who accepted it, and in the
\* list of locked keys to those whose account was recovered.
THEOREM HandedOut == Spec => []HandedToAccepted
BY KeysCorrect, PTL DEF KeyInv

\* Of any number of reports at once, one sees enough of them and goes on to
\* delete the file, unless its follow-up fails.
THEOREM ReportsDelete == Spec => []EnoughReportsDelete
BY KeysCorrect, PTL DEF KeyInv

\* Two answers at once included, an answer to a transfer stays.
THEOREM OneAnswer == Spec => AnsweredOnce
<1>1. ASSUME TypeOK, KeyInv, [Next]_vars
      PROVE  [\A u \in Users : transfer[u] \in Answers /\ HasRow' =>
                transfer'[u] = transfer[u]]_vars
  <2> SUFFICES ASSUME Next, NEW u \in Users, transfer[u] \in Answers, HasRow'
               PROVE  transfer'[u] = transfer[u]
    BY <1>1
  <2> USE DEF TypeOK, tables, Answers
  <2>1. ASSUME NEW p \in Tasks, CommitAnswer(p)
        PROVE  transfer'[u] = transfer[u]
    BY <1>1, <2>1, TaskKinds
       DEF CommitAnswer, At, KeyInv, AnswersHoldRow, AnswerTask
  <2>2. ASSUME NEW p \in Tasks, CreateTransfer(p)
        PROVE  transfer'[u] = transfer[u]
    BY <1>1, <2>2 DEF CreateTransfer
  <2>3. ASSUME NEW p \in Tasks, TransferStep(p)
        PROVE  transfer'[u] = transfer[u]
    BY <2>1, <2>2, <2>3 DEF TransferStep, ShareFileToUser,
                            RecipientKeyIsActive, RespondToTransfer,
                            MayAnswer, FileAccess, GetFileAccessKeyEnvelope,
                            HandOut
  <2>4. ASSUME NEW p \in Tasks,
               UploadStep(p) \/ MigrationStep(p) \/ ReportStep(p) \/ Abort(p)
        PROVE  transfer'[u] = transfer[u]
    BY <2>4 DEF UploadStep, UploadFinalize, GetActiveUserIdentityKey,
                CreateFileWithEnvelope, MigrationStep, StoreFiles,
                SentForActive, StoreMigratedOwnerEnvelopes, ReportStep,
                ReportTransfer, Report, CreateReport, CountSignedInReporters,
                AutoDelete, Abort
  <2>5. CASE AccountStep \/ FileStep
    BY <2>5 DEF AccountStep, Rescue, RecoverIdentityKey, RescueLockedFileKeys,
                ListLockedFileKeys, FileStep, RunRetention, Expire, DeleteExpiredFiles,
                DeleteFile, PurgeDeletedFiles, PurgeClosedReports, HasRow
  <2> QED
    BY <2>3, <2>4, <2>5 DEF Next
<1> QED
  BY <1>1, KeysCorrect, PTL DEF Spec, AnsweredOnce

\* No rescue, migration, upload or transfer touches a key that its account can
\* open: it stays as it is until it is deleted.
THEOREM OpenKeys == Spec => OpenKeysStay
<1>1. ASSUME TypeOK, KeyInv, [Next]_vars
      PROVE  [\A a \in Accounts : Opens(a, envelope[a]) =>
                envelope'[a] \in {envelope[a], NoKey}]_vars
  <2> SUFFICES ASSUME Next, NEW a \in Accounts, Opens(a, envelope[a])
               PROVE  envelope'[a] \in {envelope[a], NoKey}
    BY <1>1
  <2> USE DEF TypeOK, tables, Opens
  <2>1. envelope[a] # NoKey
    BY DEF NoKey
  <2>2. ASSUME NEW p \in Tasks, UploadStep(p)
        PROVE  envelope'[a] \in {envelope[a], NoKey}
    BY <1>1, <2>1, <2>2 DEF UploadStep, UploadFinalize,
                            GetActiveUserIdentityKey, CreateFileWithEnvelope,
                            KeyInv, NothingBefore
  <2>3. ASSUME NEW p \in Tasks, TransferStep(p)
        PROVE  envelope'[a] \in {envelope[a], NoKey}
    BY <1>1, <2>1, <2>3 DEF TransferStep, ShareFileToUser,
                            RecipientKeyIsActive, CreateTransfer,
                            RespondToTransfer, MayAnswer, CommitAnswer,
                            FileAccess, GetFileAccessKeyEnvelope, HandOut
  <2>4. ASSUME NEW p \in Tasks, MigrationStep(p)
        PROVE  envelope'[a] \in {envelope[a], NoKey}
    BY <1>1, <2>1, <2>4 DEF MigrationStep, StoreFiles, SentForActive,
                            StoreMigratedOwnerEnvelopes
  <2>5. ASSUME NEW p \in Tasks, ReportStep(p) \/ Abort(p)
        PROVE  envelope'[a] \in {envelope[a], NoKey}
    BY <2>5 DEF ReportStep, ReportTransfer, Report, CreateReport,
                CountSignedInReporters, AutoDelete, Abort
  <2>6. CASE AccountStep
    \* A key that opens is for the active version, a rescued one for an earlier.
    BY <1>1, <2>6 DEF AccountStep, Rescue, RecoverIdentityKey,
                      RescueLockedFileKeys, ListLockedFileKeys, Versions
  <2>7. CASE FileStep
    BY <2>7 DEF FileStep, RunRetention, Expire, DeleteExpiredFiles,
                DeleteFile, PurgeDeletedFiles, PurgeClosedReports
  <2> QED
    BY <2>2, <2>3, <2>4, <2>5, <2>6, <2>7 DEF Next
<1> QED
  BY <1>1, KeysCorrect, PTL DEF Spec, OpenKeysStay
=============================================================================
