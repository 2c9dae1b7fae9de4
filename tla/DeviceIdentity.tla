--------------------------- MODULE DeviceIdentity ---------------------------
(***************************************************************************)
(* The devices of one account and its identity key: registration, approval *)
(* of further devices, recovery, removal of the approver (the CNS accounts *)
(* app), and the migration of accounts that still have a legacy user key.  *)
(*                                                                         *)
(* A request is a task that runs statement by statement: another request   *)
(* may commit between any two of them. A database transaction is one step, *)
(* and so are neighbouring reads whose order nothing can tell apart. The   *)
(* server never sees a private key; copy[d][v] is the version of the key   *)
(* that is really inside the envelope stored for device d and version v.   *)
(***************************************************************************)
EXTENDS Naturals

CONSTANTS
  Devices,
  Approvers,      \* devices that register with the kind "approver"
  LegacyDevices,  \* devices that may hold a legacy user key from the start
  Asks,           \* enrollments, and so how many there are
  Tasks,          \* requests that are under way at once
  MaxVersion      \* how many versions of the identity key there are

ASSUME ApproversAssumption == Approvers \subseteq Devices
ASSUME LegacyAssumption == LegacyDevices \subseteq Devices \ Approvers
ASSUME MaxVersionAssumption == MaxVersion \in Nat \ {0}

VARIABLES
  device,      \* user_devices: not there, active or revoked
  version,     \* the newest row of user_identity_keys, the only active one
  copy,        \* user_identity_key_device_envelopes, 0 where there is no row
  legacy,      \* devices with a row in user_key_envelopes
  escrow,      \* legacy_identity_escrow: the version it holds, 0 for no row
  ask,         \* device_enrollments
  task,
  knows,       \* versions of the private key a device has taken home
  account      \* does it predate identity keys, and how its first key was made

rows == <<device, version, copy, legacy, escrow, ask>>
vars == <<rows, task, knows, account>>

Versions == 1 .. MaxVersion
Statuses == {"pending", "approved", "rejected", "cancelled", "expired"}
Idle == [at |-> "idle"]
NoAsk == [status |-> "none"]
UserDevice == {"unknown", "active", "revoked"}
DeviceEnrollment == [status: Statuses, dev: Devices, live: BOOLEAN]
\* The version that is inside, 0 without a row.
DeviceEnvelope == 0 .. MaxVersion

\* What the requests that are under way remember.
DeviceTask ==
  [at: {"active", "legacy", "mint", "insert", "start", "adopt"}, dev: Devices]
OwnTask == [at: {"own"}, dev: Devices, ver: Versions]
ApprovalTask == [at: {"trust", "check", "store", "mark"}, dev: Devices,
                 ask: Asks, ver: Versions, sent: Versions]
RejectTask == [at: {"reject"}, ask: Asks]

TaskState ==
  {Idle} \cup DeviceTask \cup OwnTask \cup ApprovalTask \cup RejectTask

RowsOK ==
  /\ device \in [Devices -> UserDevice]
  /\ version \in 0 .. MaxVersion
  /\ copy \in [Devices -> [Versions -> DeviceEnvelope]]
  /\ legacy \subseteq Devices
  /\ escrow \in {0, 1}
  /\ ask \in [Asks -> {NoAsk} \cup DeviceEnrollment]
  /\ knows \in [Devices -> SUBSET Versions]
  /\ account \in [predates: BOOLEAN,
                  founded: {"", "register", "migration", "recovery"}]

TypeOK == RowsOK /\ task \in [Tasks -> TaskState]

\* A new account, or one from before identity keys.
Init ==
  /\ legacy \in SUBSET LegacyDevices
  /\ device = [d \in Devices |-> IF d \in legacy THEN "active" ELSE "unknown"]
  /\ version = 0
  /\ copy = [d \in Devices |-> [v \in Versions |-> 0]]
  /\ escrow = 0
  /\ ask = [e \in Asks |-> NoAsk]
  /\ task = [p \in Tasks |-> Idle]
  /\ knows = [d \in Devices |-> {}]
  /\ account = [predates |-> legacy # {}, founded |-> ""]

----------------------------------------------------------------------------
(* Helpers *)

At(p, step) == task[p].at = step
Goto(p, t) == task' = [task EXCEPT ![p] = t]
Begin(p, t) == At(p, "idle") /\ Goto(p, t)
Step(p, step) == Goto(p, [task[p] EXCEPT !.at = step])
End(p) == Goto(p, Idle)

Active(d) == device[d] = "active"
Holds(d, v) == v # 0 /\ copy[d][v] # 0 /\ Active(d)
HasLegacy(d) == d \in legacy /\ Active(d)
Pending(e) == ask[e].status = "pending"
Open(e) == Pending(e) /\ ask[e].live
Settle(e, status) == ask' = [ask EXCEPT ![e].status = status]
Learn(d, v) == knows' = [knows EXCEPT ![d] = @ \cup {v}]
Found(how) ==
  account' = IF account.founded = "" THEN [account EXCEPT !.founded = how]
             ELSE account

\* insertIdentityKeyWithEnvelope for version 1: the primary key and the index
\* that allows one active key refuse it once there is any version.
InsertFirstKey(d) ==
  /\ version = 0
  /\ version' = 1
  /\ copy' = [copy EXCEPT ![d][1] = 1]
  /\ Learn(d, 1)

----------------------------------------------------------------------------
(* Registration                                                             *)

\* A device that was revoked is back.
CreateOrUpdateUserDevice(d) == device' = [device EXCEPT ![d] = "active"]

Register(p, d) ==
  /\ Begin(p, [at |-> "active", dev |-> d])
  /\ CreateOrUpdateUserDevice(d)
  /\ UNCHANGED <<version, copy, legacy, escrow, ask, knows, account>>

ReadActiveKey(p) ==
  /\ At(p, "active")
  /\ Goto(p, IF version # 0
             THEN [at |-> "own", dev |-> task[p].dev, ver |-> version]
             ELSE [at |-> "legacy", dev |-> task[p].dev])
  /\ UNCHANGED <<rows, knows, account>>

\* The device takes its copy home, or is told that it needs an enrollment.
ReadOwnCopy(p) ==
  LET d == task[p].dev  held == copy[d][task[p].ver] IN
  /\ At(p, "own")
  /\ End(p)
  /\ IF held # 0 THEN Learn(d, held) ELSE UNCHANGED knows
  /\ UNCHANGED <<rows, account>>

\* Mutant: only the legacy user key of the device itself counts.
UserHasLegacyUserKeyHere(p) ==
  /\ At(p, "legacy")
  /\ \/ End(p)
     \/ ~HasLegacy(task[p].dev) /\ task[p].dev \notin Approvers
        /\ Step(p, "mint")
  /\ UNCHANGED <<rows, knows, account>>

\* A legacy account has to be migrated. Otherwise a device that sent key
\* material goes on to create the key; the approver never does.
UserHasLegacyUserKey(p) ==
  /\ At(p, "legacy")
  /\ \/ End(p)
     \/ /\ \A d \in Devices : ~HasLegacy(d)
        /\ task[p].dev \notin Approvers
        /\ Step(p, "mint")
  /\ UNCHANGED <<rows, knows, account>>

\* The key with its first copy, or the account has a key by now.
CreateIdentityKeyWithDeviceEnvelope(p) ==
  /\ At(p, "mint")
  /\ \/ InsertFirstKey(task[p].dev) /\ Found("register")
     \/ version # 0 /\ UNCHANGED <<version, copy, knows, account>>
  /\ End(p)
  /\ UNCHANGED <<device, legacy, escrow, ask>>

----------------------------------------------------------------------------
(* Recovery                                                                 *)

\* What RecoverIdentityKey does besides making the next version.
StartAfresh(d) ==
  /\ d \notin Approvers /\ version < MaxVersion
  /\ device' = [e \in Devices |->
       IF e = d THEN "active"
       ELSE IF Active(e) THEN "revoked" ELSE device[e]]
  /\ legacy' = {}
  /\ Found("recovery")
  /\ UNCHANGED <<escrow, task>>

ExpirePending ==
  ask' = [e \in Asks |->
            IF Pending(e) THEN [ask[e] EXCEPT !.status = "expired"] ELSE ask[e]]

OnlyCopy(d, v) ==
  copy' = [e \in Devices |->
             [w \in Versions |-> IF e = d /\ w = v THEN v ELSE 0]]

\* Mutant: the new key reuses the newest version.
RecoverSameVersion(d) ==
  /\ StartAfresh(d)
  /\ version' = IF version = 0 THEN 1 ELSE version
  /\ OnlyCopy(d, version')
  /\ Learn(d, version')
  /\ ExpirePending

RecoverIdentityKey(d) ==
  /\ StartAfresh(d)
  /\ version' = version + 1
  /\ OnlyCopy(d, version')
  /\ Learn(d, version')
  /\ ExpirePending

----------------------------------------------------------------------------
(* Enrollments                                                              *)

\* CreateEnrollment returns a pending enrollment of the device if there is one.
CreateEnrollment(p, d) ==
  /\ Active(d)
  /\ \A e \in Asks : ask[e] # NoAsk /\ ask[e].dev = d => ~Open(e)
  /\ Begin(p, [at |-> "insert", dev |-> d])
  /\ UNCHANGED <<rows, knows, account>>

\* The index allows one row per device that reads pending, expired or not.
CreateEnrollmentRequest(p, e) ==
  LET d == task[p].dev
      taken == \E f \in Asks : Pending(f) /\ ask[f].dev = d IN
  /\ At(p, "insert")
  /\ \/ taken /\ UNCHANGED ask
     \/ /\ ~taken /\ ask[e] = NoAsk
        /\ ask' = [ask EXCEPT ![e] = [status |-> "pending", dev |-> d,
                                     live |-> TRUE]]
  /\ End(p)
  /\ UNCHANGED <<device, version, copy, legacy, escrow, knows, account>>

\* expires_at passes.
TimePasses(e) ==
  /\ Open(e)
  /\ ask' = [ask EXCEPT ![e].live = FALSE]
  /\ UNCHANGED <<device, version, copy, legacy, escrow, task, knows, account>>

\* ListPending, on every listing.
TouchExpiredEnrollments ==
  /\ ask' = [e \in Asks |-> IF Pending(e) /\ ~ask[e].live
                            THEN [ask[e] EXCEPT !.status = "expired"]
                            ELSE ask[e]]
  /\ UNCHANGED <<device, version, copy, legacy, escrow, task, knows, account>>

CancelEnrollment(e) ==
  /\ Pending(e) /\ Active(ask[e].dev)
  /\ Settle(e, "cancelled")
  /\ UNCHANGED <<device, version, copy, legacy, escrow, task, knows, account>>

\* Approver a sends its version v of the key, wrapped for the device of e. It
\* owns the device, and IsTrusted reads the active version.
Approve(p, a, e, v) ==
  /\ Active(a) /\ v \in knows[a] /\ ask[e] # NoAsk /\ version # 0
  /\ Begin(p, [at |-> "trust", dev |-> a, ask |-> e, ver |-> version,
               sent |-> v])
  /\ UNCHANGED <<rows, knows, account>>

\* DeviceHoldsIdentityKey, then the enrollment and its code.
ApproverIsTrusted(p) ==
  LET t == task[p] IN
  /\ At(p, "trust")
  /\ IF Holds(t.dev, t.ver) /\ Open(t.ask) THEN Step(p, "check") ELSE End(p)
  /\ UNCHANGED <<rows, knows, account>>

\* Mutant: whatever was sent is stored for the active version.
VersionUnchecked(p) ==
  /\ At(p, "check")
  /\ Goto(p, [task[p] EXCEPT !.at = "store", !.ver = version])
  /\ UNCHANGED <<rows, knows, account>>

\* The active version, read again, has to be the one that was wrapped.
VersionIsActive(p) ==
  /\ At(p, "check")
  /\ IF task[p].sent = version
       THEN Goto(p, [task[p] EXCEPT !.at = "store", !.ver = version])
       ELSE End(p)
  /\ UNCHANGED <<rows, knows, account>>

CreateUserIdentityKeyDeviceEnvelope(p) ==
  LET t == task[p] IN
  /\ At(p, "store")
  /\ copy' = [copy EXCEPT ![ask[t.ask].dev][t.ver] = t.sent]
  /\ Step(p, "mark")
  /\ UNCHANGED <<device, version, legacy, escrow, ask, knows, account>>

ApproveEnrollment(p) ==
  /\ At(p, "mark")
  /\ IF Open(task[p].ask) THEN Settle(task[p].ask, "approved")
                          ELSE UNCHANGED ask
  /\ End(p)
  /\ UNCHANGED <<device, version, copy, legacy, escrow, knows, account>>

Reject(p, a, e) ==
  /\ Holds(a, version) /\ ask[e] # NoAsk
  /\ Begin(p, [at |-> "reject", ask |-> e])
  /\ UNCHANGED <<rows, knows, account>>

RejectEnrollment(p) ==
  /\ At(p, "reject")
  /\ IF Open(task[p].ask) THEN Settle(task[p].ask, "rejected")
                          ELSE UNCHANGED ask
  /\ End(p)
  /\ UNCHANGED <<device, version, copy, legacy, escrow, knows, account>>

----------------------------------------------------------------------------
(* Removal of the approver                                                  *)

\* The device is revoked and its copies are deleted.
Disconnect(d) ==
  /\ Active(d)
  /\ device' = [device EXCEPT ![d] = "revoked"]
  /\ copy' = [copy EXCEPT ![d] = [v \in Versions |-> 0]]
  /\ UNCHANGED <<version, legacy, escrow, task, knows, account>>

WithdrawAsks(d) ==
  ask' = [e \in Asks |-> IF Pending(e) /\ ask[e].dev = d
                         THEN [ask[e] EXCEPT !.status = "cancelled"]
                         ELSE ask[e]]

\* Mutant: any device can be removed this way.
RemoveAnyDevice(d) == Disconnect(d) /\ WithdrawAsks(d)

\* Mutant: its enrollment stays open.
RemoveKeepsAsks(d) == d \in Approvers /\ Disconnect(d) /\ UNCHANGED ask

RemoveApproverDevice(d) ==
  /\ d \in Approvers
  /\ Disconnect(d)
  /\ WithdrawAsks(d)

----------------------------------------------------------------------------
(* Migration of an account with a legacy user key                           *)

\* Start: the device holds the legacy user key and there is no active key.
Start(p, d) ==
  /\ HasLegacy(d) /\ version = 0
  /\ Begin(p, [at |-> "start", dev |-> d])
  /\ UNCHANGED <<rows, knows, account>>

\* The key, the device's copy and the escrow, or another device was first.
StartIdentityMigration(p) ==
  /\ At(p, "start")
  /\ \/ InsertFirstKey(task[p].dev) /\ escrow' = 1 /\ Found("migration")
     \/ version # 0 /\ UNCHANGED <<version, copy, escrow, knows, account>>
  /\ End(p)
  /\ UNCHANGED <<device, legacy, ask>>

\* activeEscrow: after a recovery it is stale.
ActiveEscrow == escrow # 0 /\ escrow = version

\* A device opens the escrow with the legacy user key.
Escrow(d) ==
  /\ HasLegacy(d) /\ ActiveEscrow
  /\ Learn(d, escrow)
  /\ UNCHANGED <<rows, task, account>>

\* Adopt: the same checks again, and there is no copy of its own yet.
Adopt(p, d) ==
  /\ HasLegacy(d) /\ ActiveEscrow
  /\ escrow \in knows[d] /\ copy[d][escrow] = 0
  /\ Begin(p, [at |-> "adopt", dev |-> d])
  /\ UNCHANGED <<rows, knows, account>>

StoreAdopted(p) ==
  /\ At(p, "adopt")
  /\ copy' = [copy EXCEPT ![task[p].dev][escrow] = escrow]
  /\ End(p)
  /\ UNCHANGED <<device, version, legacy, escrow, ask, knows, account>>

----------------------------------------------------------------------------

\* A statement fails, or the client goes away.
Abort(p) ==
  /\ ~At(p, "idle")
  /\ End(p)
  /\ UNCHANGED <<rows, knows, account>>

RegistrationStep(p) ==
  \/ \E d \in Devices : Register(p, d)
  \/ ReadActiveKey(p) \/ ReadOwnCopy(p) \/ UserHasLegacyUserKey(p)
  \/ CreateIdentityKeyWithDeviceEnvelope(p)

RequestStep(p) ==
  \/ \E d \in Devices : CreateEnrollment(p, d)
  \/ \E e \in Asks : CreateEnrollmentRequest(p, e)

ApprovalStep(p) ==
  \/ \E a \in Devices, e \in Asks, v \in Versions : Approve(p, a, e, v)
  \/ ApproverIsTrusted(p) \/ VersionIsActive(p)
  \/ CreateUserIdentityKeyDeviceEnvelope(p) \/ ApproveEnrollment(p)

RejectionStep(p) ==
  \/ \E a \in Devices, e \in Asks : Reject(p, a, e)
  \/ RejectEnrollment(p)

MigrationStep(p) ==
  \/ \E d \in Devices : Start(p, d) \/ Adopt(p, d)
  \/ StartIdentityMigration(p) \/ StoreAdopted(p)

AccountStep ==
  \/ \E d \in Devices :
       RecoverIdentityKey(d) \/ RemoveApproverDevice(d) \/ Escrow(d)
  \/ \E e \in Asks : TimePasses(e) \/ CancelEnrollment(e)
  \/ TouchExpiredEnrollments

Next ==
  \/ \E p \in Tasks :
       \/ RegistrationStep(p) \/ RequestStep(p) \/ ApprovalStep(p)
       \/ RejectionStep(p) \/ MigrationStep(p) \/ Abort(p)
  \/ AccountStep

Spec == Init /\ [][Next]_vars

----------------------------------------------------------------------------
(* Properties                                                               *)

\* What is stored for a version is that version of the key: a device that has
\* been approved can open what is shared with the account (ErrIdentityKeyStale).
EnvelopesOpen ==
  \A d \in Devices, v \in Versions : copy[d][v] \in {0, v}

\* "a key never exists without a device holding it": one that is not revoked,
\* and not the approver, which could remove itself.
KeyHasHolder ==
  version # 0 => \E d \in Devices \ Approvers : Holds(d, version)

\* "letting any new device create the key would hand the account to whoever
\* registers first": the first key of a legacy account comes from a device that
\* holds the legacy user key, or from a recovery.
FoundedByOwner == ~(account.predates /\ account.founded = "register")

\* An enrollment reads approved only from a moment at which its device has a
\* copy of the active key.
ApprovedWithKey ==
  [][\A e \in Asks :
       ask'[e].status = "approved" /\ ask[e].status # "approved"
         => version # 0 /\ copy[ask[e].dev][version] # 0]_vars

Newest == version
Holders == {d \in Devices : version # 0 /\ copy[d][version] # 0}

Promised == INSTANCE IdentityPromise WITH newest <- Newest, holders <- Holders

\* Nothing but a recovery or the first key replaces a key, into the hands of one
\* device; until then its holders only grow, except for the approver.
KeepsIdentityPromise == Promised!Identity

\* "the approver device is revoked and its identity key copy deleted": a device
\* that was removed holds no copy. An approval under way stores one afterwards.
RemovedHoldsNothing ==
  \A d \in Approvers : device[d] = "revoked" =>
    \A v \in Versions : copy[d][v] = 0

\* An approval that has stored the key finds its enrollment still open. It need
\* not: turned away in between, the device keeps the copy. No run checks it.
ApprovalsComplete ==
  \A p \in Tasks : At(p, "mark") => Open(task[p].ask)

----------------------------------------------------------------------------
(* What the properties rest on: the parts of an inductive invariant.        *)

\* An approval stores the version that was wrapped.
SentMatches == \A p \in Tasks : At(p, "store") => task[p].sent = task[p].ver

\* An approval is for an enrollment that exists. While that one is open nothing
\* has replaced the version or taken the copy that was stored.
ApprovalsKnow ==
  \A p \in Tasks : task[p].at \in {"trust", "check", "store", "mark"} =>
    /\ task[p].ver <= version /\ ask[task[p].ask] # NoAsk
    /\ At(p, "store") /\ Open(task[p].ask) => task[p].ver = version
    /\ At(p, "mark") /\ Open(task[p].ask) =>
         copy[ask[task[p].ask].dev][version] # 0

\* Whoever is about to make the first key may, and is still there.
FoundersWait ==
  \A p \in Tasks : task[p].at \in {"active", "legacy", "mint", "start"} =>
    /\ task[p].at \in {"mint", "start"} => task[p].dev \notin Approvers
    /\ version = 0 /\ task[p].dev \notin Approvers => Active(task[p].dev)
    /\ At(p, "mint") /\ account.predates => version # 0

\* An account from before identity keys has its legacy devices until it has a
\* key.
LegacyHolds ==
  /\ legacy \cap Approvers = {}
  /\ account.predates /\ version = 0 => legacy # {}
  /\ version = 0 => \A d \in legacy : Active(d)

EscrowOfFirst ==
  /\ escrow # 0 => version # 0
  /\ \A p \in Tasks : At(p, "adopt") => escrow = 1

\* No version is handed out before it is made.
NoCopyAhead == \A d \in Devices, v \in Versions : copy[d][v] # 0 => v <= version

IdentityInv ==
  /\ SentMatches /\ ApprovalsKnow /\ FoundersWait /\ LegacyHolds
  /\ EscrowOfFirst /\ NoCopyAhead
  /\ EnvelopesOpen /\ KeyHasHolder /\ FoundedByOwner
=============================================================================
