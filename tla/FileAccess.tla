----------------------------- MODULE FileAccess -----------------------------
(***************************************************************************)
(* Who may have the key of one file, and for how long: the upload that     *)
(* leaves the owner's copy, transfers and their answers, rescue of copies  *)
(* after an account recovery, migration of an old file's key, reports, and *)
(* the end of the file.                                                    *)
(*                                                                         *)
(* A request is a task that runs statement by statement. An envelope says  *)
(* for which version of its account's identity key it is (ver) and for     *)
(* which one the client really wrapped the file key (wrap). The download   *)
(* and report counters are left out.                                       *)
(***************************************************************************)
EXTENDS Naturals, FiniteSets

CONSTANTS
  Owner,
  Users,        \* accounts the file may be sent to
  Reporters,    \* accounts that may report it
  Guests,       \* client addresses that may report it without an account
  Tasks,        \* requests that are under way at once
  MaxVersion,   \* versions of each account's identity key
  Threshold     \* AUTO_DELETE_REPORT_COUNT

Accounts == Users \cup {Owner}

ASSUME AccountsAssumption == Owner \notin Users
ASSUME GuestsAssumption == Guests \cap (Reporters \cup Accounts) = {}
ASSUME MaxVersionAssumption == MaxVersion \in Nat \ {0}
ASSUME ThresholdAssumption == Threshold \in Nat \ {0}

VARIABLES
  file,        \* the row of files
  transfer,    \* file_transfers, one row per recipient
  envelope,    \* file_access_key_envelopes, one row per account
  reported,    \* reports: who is on them
  version,     \* the active identity key version of an account
  task,
  handed,      \* whom the server has given the file key to, and whether in the
               \* list of keys that a recovery has locked
  failed       \* a report was stored and then not followed up

tables == <<file, transfer, envelope, reported>>
vars == <<tables, version, task, handed, failed>>

Versions == 1 .. MaxVersion
Answers == {"accepted", "declined"}
Idle == [at |-> "idle"]
NoKey == [kind |-> "none"]
Key(kind, v, w) == [kind |-> kind, ver |-> v, wrap |-> w]

File == {"none", "live", "expired", "deleted", "gone"}
Transfer == {"none", "pending"} \cup Answers
FileAccessKeyEnvelope ==
  [kind: {"owner", "share"}, ver: Versions, wrap: Versions]

\* What the requests that are under way remember.
SendTask == [at: {"key", "send"}, user: Users, ver: Versions]
AnswerTask == [at: {"answer"}, user: Users, answer: Answers]
HandTask == [at: {"hand"}, user: Users]
UploadTask == [at: {"upload"}, sent: Versions]
StoreTask == [at: {"trusted", "migrate", "create"}, ver: Versions, sent: Versions]
ReportTask == [at: {"report", "count", "remove"}, by: Reporters \cup Guests]

Handed == [user: Users, locked: BOOLEAN]

TypeOK ==
  /\ file \in File
  /\ transfer \in [Users -> Transfer]
  /\ envelope \in [Accounts -> {NoKey} \cup FileAccessKeyEnvelope]
  /\ reported \subseteq Reporters \cup Guests
  /\ version \in [Accounts -> Versions]
  /\ task \in [Tasks -> {Idle} \cup SendTask \cup AnswerTask \cup HandTask
                       \cup UploadTask \cup StoreTask \cup ReportTask]
  /\ handed \subseteq Handed
  /\ failed \in BOOLEAN

\* An upload that waits for finalize, or a file from before there were keys.
Init ==
  /\ file \in {"none", "live"}
  /\ transfer = [u \in Users |-> "none"]
  /\ envelope = [a \in Accounts |-> NoKey]
  /\ reported = {}
  /\ version = [a \in Accounts |-> 1]
  /\ task = [p \in Tasks |-> Idle]
  /\ handed = {}
  /\ failed = FALSE

----------------------------------------------------------------------------
(* Helpers *)

At(p, step) == task[p].at = step
Goto(p, t) == task' = [task EXCEPT ![p] = t]
Begin(p, t) == At(p, "idle") /\ Goto(p, t)
Step(p, step) == Goto(p, [task[p] EXCEPT !.at = step])
End(p) == Goto(p, Idle)

\* GetFileByID and GetOwnedFile: not deleted, not expired.
Available == file = "live"
HasRow == file \notin {"none", "gone"}
Opens(a, e) == e.kind # "none" /\ e.ver = version[a]

\* FOR UPDATE OF t: the row of a transfer that is being answered.
Locked(u) == \E p \in Tasks : At(p, "answer") /\ task[p].user = u

----------------------------------------------------------------------------
(* The owner's upload                                                       *)

\* Finalize with the file key wrapped for version v; a file that is there is
\* the answer.
UploadFinalize(p, v) ==
  /\ file = "none" /\ v <= version[Owner]
  /\ Begin(p, [at |-> "upload", sent |-> v])
  /\ UNCHANGED <<tables, version, handed, failed>>

\* ErrIdentityKeyStale unless it is the active version.
GetActiveUserIdentityKey(p) ==
  /\ At(p, "upload")
  /\ IF task[p].sent = version[Owner]
       THEN Goto(p, [at |-> "create", ver |-> version[Owner],
                     sent |-> task[p].sent])
       ELSE End(p)
  /\ UNCHANGED <<tables, version, handed, failed>>

\* File and envelope in one transaction; the second of two finalizes violates
\* the primary key and answers with the file of the first.
CreateFileWithEnvelope(p) ==
  /\ At(p, "create")
  /\ IF file = "none"
       THEN /\ file' = "live"
            /\ envelope' = [envelope EXCEPT ![Owner] =
                              Key("owner", task[p].ver, task[p].sent)]
       ELSE UNCHANGED <<file, envelope>>
  /\ End(p)
  /\ UNCHANGED <<transfer, reported, version, handed, failed>>

----------------------------------------------------------------------------
(* Transfers                                                                *)

\* The owner sends the key, wrapped for version v of the recipient's key.
ShareFileToUser(p, u, v) ==
  /\ Available /\ v <= version[u]
  /\ Begin(p, [at |-> "key", user |-> u, ver |-> v])
  /\ UNCHANGED <<tables, version, handed, failed>>

\* RECIPIENT_KEY_VERSION_MISMATCH unless it is the active one.
RecipientKeyIsActive(p) ==
  /\ At(p, "key")
  /\ IF task[p].ver = version[task[p].user] THEN Step(p, "send") ELSE End(p)
  /\ UNCHANGED <<tables, version, handed, failed>>

\* Mutant: the key is stored again although the transfer exists.
CreateTransferOrKey(p) ==
  LET u == task[p].user  v == task[p].ver IN
  /\ At(p, "send")
  /\ IF HasRow /\ envelope[u] = NoKey
       THEN /\ transfer' = [transfer EXCEPT ![u] =
                              IF @ = "none" THEN "pending" ELSE @]
            /\ envelope' = [envelope EXCEPT ![u] = Key("share", v, v)]
       ELSE UNCHANGED <<transfer, envelope>>
  /\ End(p)
  /\ UNCHANGED <<file, reported, version, handed, failed>>

\* The transfer and its envelope, or ErrTransferExists and neither.
CreateTransfer(p) ==
  LET u == task[p].user  v == task[p].ver IN
  /\ At(p, "send")
  /\ IF HasRow /\ transfer[u] = "none" /\ envelope[u] = NoKey
       THEN /\ transfer' = [transfer EXCEPT ![u] = "pending"]
            /\ envelope' = [envelope EXCEPT ![u] = Key("share", v, v)]
       ELSE UNCHANGED <<transfer, envelope>>
  /\ End(p)
  /\ UNCHANGED <<file, reported, version, handed, failed>>

\* What RespondToTransfer checks once it has read the row.
MayAnswer(p, u, answer) ==
  /\ transfer[u] = "pending"
  /\ answer = "accepted" => Available
  /\ Begin(p, [at |-> "answer", user |-> u, answer |-> answer])
  /\ UNCHANGED <<tables, version, handed, failed>>

\* Mutant: the row is read without a lock.
ReadUnlocked(p, u, answer) == MayAnswer(p, u, answer)

RespondToTransfer(p, u, answer) == ~Locked(u) /\ MayAnswer(p, u, answer)

\* The answer; a decline also deletes the recipient's envelope.
CommitAnswer(p) ==
  LET u == task[p].user IN
  /\ At(p, "answer")
  /\ transfer' = [transfer EXCEPT ![u] = task[p].answer]
  /\ envelope' = IF task[p].answer = "declined" /\ envelope[u].kind = "share"
                 THEN [envelope EXCEPT ![u] = NoKey] ELSE envelope
  /\ End(p)
  /\ UNCHANGED <<file, reported, version, handed, failed>>

\* FileAccess: the file is available, then the envelope is looked up.
FileAccess(p, u) ==
  /\ Available
  /\ Begin(p, [at |-> "hand", user |-> u])
  /\ UNCHANGED <<tables, version, handed, failed>>

HandOut(p, allowed) ==
  /\ At(p, "hand")
  /\ handed' = IF allowed THEN handed \cup {[user |-> task[p].user, locked |-> FALSE]}
                          ELSE handed
  /\ End(p)
  /\ UNCHANGED <<tables, version, failed>>

\* Mutant: any stored envelope is handed out.
GetAnyEnvelope(p) == HandOut(p, envelope[task[p].user] # NoKey)

GetFileAccessKeyEnvelope(p) ==
  LET u == task[p].user IN
  HandOut(p, /\ envelope[u] # NoKey
             /\ envelope[u].kind = "owner" \/ transfer[u] = "accepted")

----------------------------------------------------------------------------
(* Recovered and migrated accounts                                          *)

\* The account starts afresh with another identity key (DeviceIdentity).
RecoverIdentityKey(a) ==
  /\ version[a] < MaxVersion
  /\ version' = [version EXCEPT ![a] = @ + 1]
  /\ UNCHANGED <<tables, task, handed, failed>>

\* The recipient's copy that is wrapped for an earlier version, of a file that
\* is available: the list does not look at the transfer.
ListLockedFileKeys(u) ==
  /\ Available
  /\ envelope[u] # NoKey /\ envelope[u].ver < version[u]
  /\ handed' = handed \cup {[user |-> u, locked |-> TRUE]}
  /\ UNCHANGED <<tables, version, task, failed>>

\* Mutant: the row names the version that is active by now.
RescueForNewest(a, from, to) ==
  /\ from < to /\ to <= version[a]
  /\ envelope[a] # NoKey /\ envelope[a].ver = from
  /\ envelope' = [envelope EXCEPT ![a] = Key(@.kind, version[a], to)]
  /\ UNCHANGED <<file, transfer, reported, version, task, handed, failed>>

\* A returning device that has version "from" posts the key wrapped for the
\* version that was active when it listed the locked keys.
RescueLockedFileKeys(a, from, to) ==
  /\ from < to
  /\ envelope[a] # NoKey /\ envelope[a].ver = from /\ to = version[a]
  /\ envelope' = [envelope EXCEPT ![a] = Key(@.kind, to, to)]
  /\ UNCHANGED <<file, transfer, reported, version, task, handed, failed>>

\* A trusted device of the owner sends a legacy file's key wrapped for v.
StoreFiles(p, v) ==
  /\ v <= version[Owner]
  /\ Begin(p, [at |-> "trusted", ver |-> version[Owner], sent |-> v])
  /\ UNCHANGED <<tables, version, handed, failed>>

\* ErrIdentityKeyStale unless it is the active version.
SentForActive(p) ==
  /\ At(p, "trusted")
  /\ IF task[p].sent = task[p].ver THEN Step(p, "migrate") ELSE End(p)
  /\ UNCHANGED <<tables, version, handed, failed>>

\* Mutant: an envelope that is there is overwritten.
OverwriteOwnerEnvelope(p) ==
  /\ At(p, "migrate")
  /\ envelope' = IF file \in {"live", "expired"}
                 THEN [envelope EXCEPT ![Owner] =
                         Key("owner", task[p].ver, task[p].sent)]
                 ELSE envelope
  /\ End(p)
  /\ UNCHANGED <<file, transfer, reported, version, handed, failed>>

StoreMigratedOwnerEnvelopes(p) ==
  /\ At(p, "migrate")
  /\ envelope' = IF file \in {"live", "expired"} /\ envelope[Owner] = NoKey
                 THEN [envelope EXCEPT ![Owner] =
                         Key("owner", task[p].ver, task[p].sent)]
                 ELSE envelope
  /\ End(p)
  /\ UNCHANGED <<file, transfer, reported, version, handed, failed>>

----------------------------------------------------------------------------
(* Reports                                                                  *)

\* By account, or by address for a guest.
HasUserReportedFile(r) == r \in reported

Report(p, r) ==
  /\ Available /\ ~HasUserReportedFile(r)
  /\ Begin(p, [at |-> "report", by |-> r])
  /\ UNCHANGED <<tables, version, handed, failed>>

\* From a transfer: the recipient has accepted it.
ReportTransfer(p, u) ==
  /\ u \in Reporters /\ transfer[u] = "accepted"
  /\ Report(p, u)

\* One report per account (the index); a guest's is stored in any case.
CreateReport(p) ==
  LET r == task[p].by IN
  /\ At(p, "report")
  /\ IF r \in reported /\ r \notin Guests
       THEN End(p) ELSE Step(p, "count")
  /\ reported' = reported \cup {r}
  /\ UNCHANGED <<file, transfer, envelope, version, handed, failed>>

Enough(n) == n >= Threshold

\* Mutant: this report is not counted.
CountEarlierReporters(p) ==
  /\ At(p, "count")
  /\ IF Enough(Cardinality(reported \ (Guests \cup {task[p].by})))
       THEN Step(p, "remove") ELSE End(p)
  /\ UNCHANGED <<tables, version, handed, failed>>

CountSignedInReporters(p) ==
  /\ At(p, "count")
  /\ IF Enough(Cardinality(reported \ Guests)) THEN Step(p, "remove") ELSE End(p)
  /\ UNCHANGED <<tables, version, handed, failed>>

MarkDeleted == file' = IF file = "gone" THEN "gone" ELSE "deleted"

AutoDelete(p) ==
  /\ At(p, "remove")
  /\ MarkDeleted
  /\ End(p)
  /\ UNCHANGED <<transfer, envelope, reported, version, handed, failed>>

----------------------------------------------------------------------------
(* The end of the file                                                      *)

Expire ==
  /\ file = "live"
  /\ file' = "expired"
  /\ UNCHANGED <<transfer, envelope, reported, version, task, handed, failed>>

DeleteExpiredFiles ==
  /\ file = "expired"
  /\ file' = "deleted"
  /\ UNCHANGED <<transfer, envelope, reported, version, task, handed, failed>>

\* The administrator's delete command.
DeleteFile ==
  /\ HasRow
  /\ MarkDeleted
  /\ UNCHANGED <<transfer, envelope, reported, version, task, handed, failed>>

\* The retention job, once the period has passed; it waits for a transfer that
\* is being answered.
PurgeDeletedFiles ==
  /\ file = "deleted" /\ \A u \in Users : ~Locked(u)
  /\ file' = "gone"
  /\ transfer' = [u \in Users |-> "none"]
  /\ envelope' = [a \in Accounts |-> NoKey]
  /\ UNCHANGED <<reported, version, task, handed, failed>>

\* Reports of a file that is live may still wait for moderation.
PurgeClosedReports ==
  /\ ~Available
  /\ reported' = {}
  /\ UNCHANGED <<file, transfer, envelope, version, task, handed, failed>>

\* A statement fails, or the client goes away.
Abort(p) ==
  /\ ~At(p, "idle")
  /\ End(p)
  /\ failed' = (failed \/ task[p].at \in {"count", "remove"})
  /\ UNCHANGED <<tables, version, handed>>

----------------------------------------------------------------------------

UploadStep(p) ==
  \/ \E v \in Versions : UploadFinalize(p, v)
  \/ GetActiveUserIdentityKey(p) \/ CreateFileWithEnvelope(p)

TransferStep(p) ==
  \/ \E u \in Users, v \in Versions : ShareFileToUser(p, u, v)
  \/ RecipientKeyIsActive(p) \/ CreateTransfer(p)
  \/ \E u \in Users, answer \in Answers : RespondToTransfer(p, u, answer)
  \/ CommitAnswer(p)
  \/ \E u \in Users : FileAccess(p, u)
  \/ GetFileAccessKeyEnvelope(p)

MigrationStep(p) ==
  \/ \E v \in Versions : StoreFiles(p, v)
  \/ SentForActive(p) \/ StoreMigratedOwnerEnvelopes(p)

ReportStep(p) ==
  \/ \E r \in Reporters \cup Guests : Report(p, r)
  \/ \E u \in Users : ReportTransfer(p, u)
  \/ CreateReport(p) \/ CountSignedInReporters(p) \/ AutoDelete(p)

Rescue(a) == \E from, to \in Versions : RescueLockedFileKeys(a, from, to)

AccountStep ==
  \/ \E a \in Accounts : RecoverIdentityKey(a) \/ Rescue(a)
  \/ \E u \in Users : ListLockedFileKeys(u)

RunRetention == PurgeDeletedFiles \/ PurgeClosedReports

FileStep == Expire \/ DeleteExpiredFiles \/ DeleteFile \/ RunRetention

Next ==
  \/ \E p \in Tasks :
       \/ UploadStep(p) \/ TransferStep(p) \/ MigrationStep(p)
       \/ ReportStep(p) \/ Abort(p)
  \/ AccountStep \/ FileStep

Spec == Init /\ [][Next]_vars

----------------------------------------------------------------------------
(* Properties                                                               *)

\* Whatever recoveries, rescues and migrations run beside each other, a key is
\* wrapped for the version its row names: some version of the identity key of
\* its account still opens it.
KeysReadable ==
  \A a \in Accounts : envelope[a] # NoKey => envelope[a].ver = envelope[a].wrap

\* "a rescue can never overwrite a key the user can open", and neither can a
\* migration or another transfer: such a key stays as it is or is deleted.
OpenKeysStay ==
  [][\A a \in Accounts :
       Opens(a, envelope[a]) => envelope'[a] \in {envelope[a], NoKey}]_vars

\* A recipient has a key exactly as long as the transfer is not declined: the
\* two rows "are written atomically", and nothing brings a declined key back.
TransferMatchesKey ==
  \A u \in Users :
    (envelope[u].kind = "share") <=> (transfer[u] \in {"pending", "accepted"})

\* "only the recipient can answer, and only once": two answers at once included.
AnsweredOnce ==
  [][\A u \in Users : transfer[u] \in Answers /\ HasRow' =>
       transfer'[u] = transfer[u]]_vars

\* The key of a file goes to a recipient who accepted it, and that cannot be
\* taken back later. The one exception is the list of the keys that a recovery
\* has locked, which gives a recipient whose account was recovered the key of a
\* transfer in any state, wrapped for an earlier version of the identity key.
HandedToAccepted ==
  \A h \in handed : HasRow =>
    \/ transfer[h.user] = "accepted"
    \/ h.locked /\ version[h.user] > 1

\* The same without the exception, which the code does not keep: "pending
\* transfers are withheld" (GetFileAccessKeyEnvelope).
PendingWithheld ==
  \A h \in handed : HasRow => transfer[h.user] = "accepted"

\* A report that is on its way to the count, or to the deletion.
UnderWay(r) ==
  \E p \in Tasks : task[p].at \in {"count", "remove"} /\ task[p].by = r

\* "Once the number of distinct signed-in reporters reaches
\* AUTO_DELETE_REPORT_COUNT the file is deleted": of reports at once, one sees
\* them all. It takes a report whose follow-up failed to miss it.
EnoughReportsDelete ==
  Available /\ Enough(Cardinality(reported \ Guests)) =>
    failed \/ \E r \in reported : UnderWay(r)

\* The same without the exception, as docs/API.md has it.
DeletedAtThreshold ==
  Available /\ Enough(Cardinality(reported \ Guests)) =>
    \E r \in reported : UnderWay(r)

----------------------------------------------------------------------------
(* What the properties rest on: the parts of an inductive invariant.        *)

\* A key is stored for the version it was wrapped for.
StoredAsSent ==
  \A p \in Tasks : task[p].at \in {"migrate", "create"} =>
    task[p].sent = task[p].ver

\* Whoever answers a transfer holds its row, which waits for the answer.
AnswersHoldRow ==
  \A p \in Tasks : At(p, "answer") =>
    /\ transfer[task[p].user] = "pending"
    /\ \A q \in Tasks : At(q, "answer") /\ task[q].user = task[p].user => q = p

\* Recipients have shares: only the owner's copy comes from an upload.
RecipientsShare == \A u \in Users : envelope[u].kind # "owner"

\* Before there is a file nobody has its key, and nobody reports it.
NothingBefore ==
  file = "none" =>
    /\ handed = {} /\ reported = {}
    /\ \A a \in Accounts : envelope[a] = NoKey
    /\ \A p \in Tasks : task[p].at \notin {"report", "count", "remove"}

\* A report that is followed up is stored, as long as that matters.
FollowedUpStored ==
  Available => \A p \in Tasks : task[p].at \in {"count", "remove"} =>
    task[p].by \in reported

KeyInv ==
  /\ StoredAsSent /\ AnswersHoldRow /\ RecipientsShare /\ NothingBefore
  /\ FollowedUpStored
  /\ KeysReadable /\ TransferMatchesKey /\ HandedToAccepted
  /\ EnoughReportsDelete
=============================================================================
