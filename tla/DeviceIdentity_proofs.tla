------------------------ MODULE DeviceIdentity_proofs ------------------------
(***************************************************************************)
(* The identity key of an account, for any devices, requests and versions: *)
(* who may make it, that somebody keeps it, that every copy is of the      *)
(* version it is stored for, and what is promised of it (IdentityPromise). *)
(***************************************************************************)
EXTENDS DeviceIdentity, TLAPS

\* A request at a step remembers what that step needs.
LEMMA TaskKinds ==
  ASSUME TypeOK, NEW p \in Tasks
  PROVE  /\ task[p].at \in {"active", "legacy", "mint", "insert", "start",
                            "adopt"} => task[p] \in DeviceTask
         /\ task[p].at = "own" => task[p] \in OwnTask
         /\ task[p].at \in {"trust", "check", "store", "mark"}
              => task[p] \in ApprovalTask
         /\ task[p].at = "reject" => task[p] \in RejectTask
<1>1. task[p] \in TaskState
  BY DEF TypeOK
<1> QED
  BY <1>1 DEF TaskState, DeviceTask, OwnTask, ApprovalTask, RejectTask, Idle

\* A request that moves leaves the others where they are.
LEMMA GotoFacts ==
  ASSUME TypeOK, NEW p \in Tasks, NEW t, Goto(p, t)
  PROVE  /\ task'[p] = t
         /\ \A q \in Tasks : q # p => task'[q] = task[q]
         /\ t \in TaskState => task' \in [Tasks -> TaskState]
BY DEF TypeOK, Goto

\* The versions are positive numbers, and 1 is one of them.
LEMMA VersionsAreNumbers ==
  /\ MaxVersion \in Nat /\ 1 \in Versions
  /\ \A v \in Versions : v \in Nat /\ v >= 1 /\ v <= MaxVersion
  /\ \A v \in Versions : v \in DeviceEnvelope
BY MaxVersionAssumption DEF Versions, DeviceEnvelope

\* The newest version is one of them once there is one.
LEMMA NewestVersion ==
  ASSUME RowsOK
  PROVE  /\ version \in Nat /\ version <= MaxVersion
         /\ version # 0 => version \in Versions
<1>1. version \in 0 .. MaxVersion
  BY DEF RowsOK
<1> QED
  BY <1>1, MaxVersionAssumption DEF Versions

\* A copy that is stored takes one place.
Store(d, v, w) == copy' = [copy EXCEPT ![d][v] = w]

LEMMA Stored ==
  ASSUME RowsOK, NEW d \in Devices, NEW v \in Versions,
         NEW w \in DeviceEnvelope, Store(d, v, w)
  PROVE  /\ copy' \in [Devices -> [Versions -> DeviceEnvelope]]
         /\ copy'[d][v] = w
         /\ \A e \in Devices, x \in Versions :
              e # d \/ x # v => copy'[e][x] = copy[e][x]
<1>1. copy \in [Devices -> [Versions -> DeviceEnvelope]]
  BY DEF RowsOK
<1> QED
  BY <1>1 DEF Store

\* What a device learns is a version.
LEMMA Learned ==
  ASSUME RowsOK, NEW d \in Devices, NEW v \in Versions, Learn(d, v)
  PROVE  knows' \in [Devices -> SUBSET Versions]
<1>1. knows \in [Devices -> SUBSET Versions]
  BY DEF RowsOK
<1> QED
  BY <1>1 DEF Learn

\* An account remembers how its first key was made.
LEMMA Founded ==
  ASSUME RowsOK, NEW how \in {"register", "migration", "recovery"}, Found(how)
  PROVE  /\ account' \in [predates: BOOLEAN, founded:
                            {"", "register", "migration", "recovery"}]
         /\ account'.predates = account.predates
         /\ account'.founded \in {account.founded, how}
BY DEF RowsOK, Found

\* What is so after a step.
OpenAfter(e) == ask'[e].status = "pending" /\ ask'[e].live
ActiveAfter(d) == device'[d] = "active"

\* What may become of an enrollment: it is new, or it was pending and is closed.
AskMove(e) ==
  \/ ask'[e] = ask[e]
  \/ ask[e] = NoAsk /\ ask'[e] \in DeviceEnrollment /\ ask'[e].status = "pending"
  \/ /\ ask[e] \in DeviceEnrollment /\ ask'[e] \in DeviceEnrollment
     /\ ask'[e].dev = ask[e].dev
     /\ Pending(e) /\ ~OpenAfter(e)
     /\ ask'[e].status = "approved"
          => \E p \in Tasks : At(p, "mark") /\ task[p].ask = e /\ Open(e)

AsksMove ==
  /\ ask' \in [Asks -> {NoAsk} \cup DeviceEnrollment]
  /\ \A e \in Asks : AskMove(e)

\* An enrollment that is pending exists and can be changed.
LEMMA PendingAsk ==
  ASSUME RowsOK, NEW e \in Asks, Pending(e)
  PROVE  /\ ask[e] \in DeviceEnrollment
         /\ ask[e].dev \in Devices
         /\ \A s \in Statuses :
              /\ [ask[e] EXCEPT !.status = s] \in DeviceEnrollment
              /\ [ask[e] EXCEPT !.status = s].dev = ask[e].dev
              /\ [ask[e] EXCEPT !.status = s].status = s
         /\ [ask[e] EXCEPT !.live = FALSE] \in DeviceEnrollment
         /\ [ask[e] EXCEPT !.live = FALSE].dev = ask[e].dev
         /\ [ask[e] EXCEPT !.live = FALSE].status = ask[e].status
         /\ [ask[e] EXCEPT !.live = FALSE].live = FALSE
<1>1. ask[e] \in {NoAsk} \cup DeviceEnrollment
  BY DEF RowsOK
<1>2. ask[e] \in DeviceEnrollment
  BY <1>1 DEF Pending, NoAsk
<1> QED
  BY <1>2 DEF DeviceEnrollment

\* Settling one closes it.
LEMMA Settled ==
  ASSUME RowsOK, NEW e \in Asks, Pending(e), NEW s \in Statuses,
         s # "pending", Settle(e, s),
         s = "approved" =>
           \E p \in Tasks : At(p, "mark") /\ task[p].ask = e /\ Open(e)
  PROVE  AsksMove
<1>1. ask \in [Asks -> {NoAsk} \cup DeviceEnrollment]
  BY DEF RowsOK
<1>2. ask' = [ask EXCEPT ![e] = [ask[e] EXCEPT !.status = s]]
  BY <1>1 DEF Settle
<1>3. /\ ask'[e] = [ask[e] EXCEPT !.status = s]
      /\ \A f \in Asks : f # e => ask'[f] = ask[f]
  BY <1>1, <1>2
<1>4. ask'[e] \in DeviceEnrollment /\ ask'[e].dev = ask[e].dev
      /\ ask'[e].status = s /\ ask[e] \in DeviceEnrollment
  <2>1. /\ [ask[e] EXCEPT !.status = s] \in DeviceEnrollment
        /\ [ask[e] EXCEPT !.status = s].dev = ask[e].dev
        /\ [ask[e] EXCEPT !.status = s].status = s
        /\ ask[e] \in DeviceEnrollment
    BY PendingAsk
  <2> QED
    BY <1>3, <2>1
<1> QED
  BY <1>1, <1>2, <1>3, <1>4 DEF AsksMove, AskMove, OpenAfter, Pending

\* So does settling all of a kind.
LEMMA ManySettled ==
  ASSUME RowsOK, NEW S \in SUBSET Asks, NEW s \in {"expired", "cancelled"},
         \A e \in S : Pending(e),
         ask' = [e \in Asks |->
                   IF e \in S THEN [ask[e] EXCEPT !.status = s] ELSE ask[e]]
  PROVE  AsksMove /\ \A e \in S : ~Pending(e)'
<1>1. ask \in [Asks -> {NoAsk} \cup DeviceEnrollment]
  BY DEF RowsOK
<1>2. ASSUME NEW e \in Asks
      PROVE  /\ ask'[e] \in {NoAsk} \cup DeviceEnrollment
             /\ AskMove(e)
             /\ e \in S => ~Pending(e)'
  <2>1. CASE e \in S
    <3>0. s \in Statuses /\ ask'[e] = [ask[e] EXCEPT !.status = s]
      BY <2>1 DEF Statuses
    <3>1. /\ ask'[e] \in DeviceEnrollment /\ ask'[e].dev = ask[e].dev
          /\ ask'[e].status = s /\ ask[e] \in DeviceEnrollment
      BY <2>1, <3>0, PendingAsk
    <3>2. Pending(e) /\ s # "pending"
      BY <2>1
    <3>3. ~Pending(e)'
      BY <3>1, <3>2 DEF Pending
    <3>4. AskMove(e)
      BY <3>1, <3>2, <3>3 DEF AskMove, OpenAfter
    <3> QED
      BY <3>1, <3>3, <3>4
  <2>2. CASE e \notin S
    BY <1>1, <2>2 DEF AskMove
  <2> QED
    BY <2>1, <2>2
<1> QED
  BY <1>2 DEF AsksMove
----------------------------------------------------------------------------
(* What a step may do. The tables besides the enrollments change in six     *)
(* ways; a step of any other kind is quiet.                                 *)

\* The first version of the key, from a registration or from a migration.
FirstKey(p) ==
  /\ task[p].at \in {"mint", "start"}
  /\ InsertFirstKey(task[p].dev)
  /\ Found(IF At(p, "mint") THEN "register" ELSE "migration")
  /\ escrow' \in {escrow, 1}
  /\ End(p)
  /\ UNCHANGED <<device, legacy, ask>>

Quiet == UNCHANGED <<device, version, copy, legacy, escrow, account>>

\* The moves of a request in a quiet step.
QuietMove(p) ==
  \/ task'[p] = task[p]
  \/ task'[p] = Idle
  \/ task'[p] \in DeviceTask /\ task'[p].at = "insert"
  \/ task'[p] \in OwnTask
  \/ task'[p] \in RejectTask
  \/ /\ task[p].at = "active"
     /\ task'[p] = [at |-> "legacy", dev |-> task[p].dev]
  \/ /\ task[p].at = "legacy" /\ task[p].dev \notin Approvers
     /\ \A d \in Devices : ~HasLegacy(d)
     /\ task'[p] = [task[p] EXCEPT !.at = "mint"]
  \/ \E d \in Devices :
       /\ HasLegacy(d) /\ version = 0
       /\ task'[p] = [at |-> "start", dev |-> d]
  \/ \E d \in Devices : ActiveEscrow /\ task'[p] = [at |-> "adopt", dev |-> d]
  \/ \E a \in Devices, e \in Asks, v \in Versions :
       /\ ask[e] # NoAsk /\ version # 0
       /\ task'[p] = [at |-> "trust", dev |-> a, ask |-> e, ver |-> version,
                      sent |-> v]
  \/ task[p].at = "trust" /\ task'[p] = [task[p] EXCEPT !.at = "check"]
  \/ /\ task[p].at = "check" /\ task[p].sent = version
     /\ task'[p] = [task[p] EXCEPT !.at = "store", !.ver = version]

\* A request that makes a quiet move leaves the others where they are.
LEMMA OthersQuiet ==
  ASSUME TypeOK, NEW p \in Tasks, NEW t, Goto(p, t), task'[p] = t => QuietMove(p)
  PROVE  \A q \in Tasks : QuietMove(q)
<1>1. task'[p] = t /\ \A q \in Tasks : q # p => task'[q] = task[q]
  BY GotoFacts
<1>2. ASSUME NEW q \in Tasks, task'[q] = task[q]
      PROVE  QuietMove(q)
  BY <1>2 DEF QuietMove
<1>3. QuietMove(p)
  BY <1>1
<1> HIDE DEF QuietMove
<1> QED
  BY <1>1, <1>2, <1>3

\* Every step is of one of these kinds.
LEMMA StepKinds ==
  ASSUME TypeOK, [Next]_vars
  PROVE  \/ \E p \in Tasks : FirstKey(p)
         \/ \E p \in Tasks : CreateUserIdentityKeyDeviceEnvelope(p)
         \/ \E p \in Tasks : StoreAdopted(p)
         \/ \E d \in Devices : RecoverIdentityKey(d)
         \/ \E d \in Devices : RemoveApproverDevice(d)
         \/ \E p \in Tasks, d \in Devices : Register(p, d)
         \/ Quiet /\ \A p \in Tasks : QuietMove(p)
<1> USE DEF rows, Quiet
<1>1. ASSUME NEW p \in Tasks, RegistrationStep(p)
      PROVE  \/ FirstKey(p)
             \/ \E d \in Devices : Register(p, d)
             \/ Quiet /\ \A q \in Tasks : QuietMove(q)
  <2>1. CASE \E d \in Devices : Register(p, d)
    BY <2>1
  <2>2. CASE ReadActiveKey(p)
    <3> DEFINE t == IF version # 0
                    THEN [at |-> "own", dev |-> task[p].dev, ver |-> version]
                    ELSE [at |-> "legacy", dev |-> task[p].dev]
    <3>1. Goto(p, t) /\ task[p].at = "active" /\ Quiet
      BY <2>2 DEF ReadActiveKey, At
    <3>2. t \in OwnTask \/ t = [at |-> "legacy", dev |-> task[p].dev]
      <4>1. task[p].dev \in Devices
        BY <3>1, TaskKinds DEF DeviceTask
      <4>2. version # 0 => version \in Versions
        BY NewestVersion DEF TypeOK
      <4> QED
        BY <4>1, <4>2 DEF OwnTask
    <3> HIDE DEF t
    <3>3. task'[p] = t => QuietMove(p)
      BY <3>1, <3>2 DEF QuietMove
    <3> QED
      BY <3>1, <3>3, OthersQuiet
  <2>3. CASE ReadOwnCopy(p)
    BY <2>3, GotoFacts DEF ReadOwnCopy, End, QuietMove
  <2>4. CASE UserHasLegacyUserKey(p)
    <3>1. Quiet /\ task[p].at = "legacy"
      BY <2>4 DEF UserHasLegacyUserKey, At
    <3>2. CASE Goto(p, Idle)
      BY <3>1, <3>2, GotoFacts DEF QuietMove
    <3>3. CASE /\ \A d \in Devices : ~HasLegacy(d)
               /\ task[p].dev \notin Approvers
               /\ Goto(p, [task[p] EXCEPT !.at = "mint"])
      <4>1. /\ task'[p] = [task[p] EXCEPT !.at = "mint"]
            /\ \A q \in Tasks : q # p => task'[q] = task[q]
        BY <3>3, GotoFacts
      <4> QED
        BY <3>1, <3>3, <4>1 DEF QuietMove
    <3> QED
      BY <2>4, <3>2, <3>3 DEF UserHasLegacyUserKey, End, Step
  <2>5. CASE CreateIdentityKeyWithDeviceEnvelope(p)
    BY <2>5, GotoFacts
       DEF CreateIdentityKeyWithDeviceEnvelope, FirstKey, End, At, QuietMove
  <2> QED
    BY <1>1, <2>1, <2>2, <2>3, <2>4, <2>5 DEF RegistrationStep
<1>2. ASSUME NEW p \in Tasks, RequestStep(p) \/ RejectionStep(p) \/ Abort(p)
      PROVE  Quiet /\ \A q \in Tasks : QuietMove(q)
  <2>1. Quiet
    BY <1>2 DEF RequestStep, CreateEnrollment, CreateEnrollmentRequest,
                RejectionStep, Reject, RejectEnrollment, Abort
  <2>2. \/ Goto(p, Idle)
        \/ \E d \in Devices : Goto(p, [at |-> "insert", dev |-> d])
        \/ \E e \in Asks : Goto(p, [at |-> "reject", ask |-> e])
    BY <1>2 DEF RequestStep, CreateEnrollment, CreateEnrollmentRequest,
                RejectionStep, Reject, RejectEnrollment, Abort, Begin, End
  <2>3. ASSUME NEW t, Goto(p, t),
               \/ t = Idle
               \/ t \in DeviceTask /\ t.at = "insert"
               \/ t \in RejectTask
        PROVE  \A q \in Tasks : QuietMove(q)
    BY <2>3, GotoFacts DEF QuietMove
  <2>4. /\ \A d \in Devices : [at |-> "insert", dev |-> d] \in DeviceTask
        /\ \A e \in Asks : [at |-> "reject", ask |-> e] \in RejectTask
    BY DEF DeviceTask, RejectTask
  <2> QED
    BY <2>1, <2>2, <2>3, <2>4
<1>3. ASSUME NEW p \in Tasks, ApprovalStep(p)
      PROVE  \/ CreateUserIdentityKeyDeviceEnvelope(p)
             \/ Quiet /\ \A q \in Tasks : QuietMove(q)
  <2>1. ASSUME NEW a \in Devices, NEW e \in Asks, NEW v \in Versions,
               Approve(p, a, e, v)
        PROVE  Quiet /\ \A q \in Tasks : QuietMove(q)
    <3> DEFINE t == [at |-> "trust", dev |-> a, ask |-> e, ver |-> version,
                     sent |-> v]
    <3>1. Goto(p, t) /\ ask[e] # NoAsk /\ version # 0 /\ Quiet
      BY <2>1 DEF Approve, Begin
    <3>2. task'[p] = t => QuietMove(p)
      BY <3>1 DEF QuietMove
    <3> HIDE DEF t
    <3> QED
      BY <3>1, <3>2, OthersQuiet
  <2>2. CASE ApproverIsTrusted(p)
    <3>1. \/ Goto(p, Idle)
          \/ Goto(p, [task[p] EXCEPT !.at = "check"]) /\ task[p].at = "trust"
      BY <2>2 DEF ApproverIsTrusted, Step, End, At
    <3>2. Quiet /\ \A t : Goto(p, t) => task'[p] = t
      BY <2>2, GotoFacts DEF ApproverIsTrusted
    <3>3. QuietMove(p)
      BY <3>1, <3>2 DEF QuietMove
    <3> QED
      BY <3>1, <3>2, <3>3, OthersQuiet
  <2>3. CASE VersionIsActive(p)
    <3>1. \/ Goto(p, Idle)
          \/ /\ Goto(p, [task[p] EXCEPT !.at = "store", !.ver = version])
             /\ task[p].at = "check" /\ task[p].sent = version
      BY <2>3 DEF VersionIsActive, End, At
    <3>2. Quiet /\ \A t : Goto(p, t) => task'[p] = t
      BY <2>3, GotoFacts DEF VersionIsActive
    <3>3. QuietMove(p)
      BY <3>1, <3>2 DEF QuietMove
    <3> QED
      BY <3>1, <3>2, <3>3, OthersQuiet
  <2>4. CASE ApproveEnrollment(p)
    <3>1. Quiet /\ Goto(p, Idle)
      BY <2>4 DEF ApproveEnrollment, End
    <3>2. task'[p] = Idle => QuietMove(p)
      BY DEF QuietMove
    <3> QED
      BY <3>1, <3>2, OthersQuiet
  <2> QED
    BY <1>3, <2>1, <2>2, <2>3, <2>4 DEF ApprovalStep
<1>4. ASSUME NEW p \in Tasks, MigrationStep(p)
      PROVE  \/ FirstKey(p) \/ StoreAdopted(p)
             \/ Quiet /\ \A q \in Tasks : QuietMove(q)
  <2>1. ASSUME NEW d \in Devices, Start(p, d) \/ Adopt(p, d)
        PROVE  Quiet /\ \A q \in Tasks : QuietMove(q)
    <3>1. Quiet
      BY <2>1 DEF Start, Adopt
    <3>2. CASE /\ HasLegacy(d) /\ version = 0
               /\ Goto(p, [at |-> "start", dev |-> d])
      <4>1. /\ task'[p] = [at |-> "start", dev |-> d]
            /\ \A q \in Tasks : q # p => task'[q] = task[q]
        BY <3>2, GotoFacts
      <4> QED
        BY <3>1, <3>2, <4>1 DEF QuietMove
    <3>3. CASE ActiveEscrow /\ Goto(p, [at |-> "adopt", dev |-> d])
      <4>1. /\ task'[p] = [at |-> "adopt", dev |-> d]
            /\ \A q \in Tasks : q # p => task'[q] = task[q]
        BY <3>3, GotoFacts
      <4> QED
        BY <3>1, <3>3, <4>1 DEF QuietMove
    <3> QED
      BY <2>1, <3>2, <3>3 DEF Start, Adopt, Begin
  <2>2. CASE StartIdentityMigration(p)
    BY <2>2, GotoFacts DEF StartIdentityMigration, FirstKey, End, At,
                           QuietMove
  <2> QED
    BY <1>4, <2>1, <2>2 DEF MigrationStep
<1>5. CASE AccountStep
  BY <1>5 DEF AccountStep, Escrow, TimePasses, CancelEnrollment,
              TouchExpiredEnrollments, QuietMove
<1>6. CASE UNCHANGED vars
  BY <1>6 DEF vars, QuietMove
<1> QED
  BY <1>1, <1>2, <1>3, <1>4, <1>5, <1>6 DEF Next

\* No step opens an enrollment again, or approves one without an approval that
\* has stored a copy.
LEMMA AsksMoveStep ==
  ASSUME TypeOK, [Next]_vars
  PROVE  AsksMove
<1>0. RowsOK /\ ask \in [Asks -> {NoAsk} \cup DeviceEnrollment]
  BY DEF TypeOK, RowsOK
<1>1. CASE UNCHANGED ask
  BY <1>0, <1>1 DEF AsksMove, AskMove
<1>2. ASSUME NEW p \in Tasks, NEW e \in Asks, CreateEnrollmentRequest(p, e)
      PROVE  AsksMove
  <2>1. CASE ask[e] = NoAsk /\ ask' = [ask EXCEPT ![e] =
                [status |-> "pending", dev |-> task[p].dev, live |-> TRUE]]
    <3>1. [status |-> "pending", dev |-> task[p].dev, live |-> TRUE]
            \in DeviceEnrollment
      BY <1>2, TaskKinds DEF CreateEnrollmentRequest, At, DeviceTask,
                             DeviceEnrollment, Statuses
    <3> QED
      BY <1>0, <2>1, <3>1 DEF AsksMove, AskMove
  <2> QED
    BY <1>1, <1>2, <2>1 DEF CreateEnrollmentRequest
<1>3. ASSUME NEW p \in Tasks, ApproveEnrollment(p)
      PROVE  AsksMove
  <2>1. CASE Open(task[p].ask)
    <3>1. task[p].ask \in Asks /\ Pending(task[p].ask) /\ At(p, "mark")
          /\ Settle(task[p].ask, "approved")
      BY <1>3, <2>1, TaskKinds DEF ApproveEnrollment, At, ApprovalTask, Open
    <3> QED
      BY <1>0, <2>1, <3>1, Settled DEF Statuses
  <2> QED
    BY <1>1, <1>3, <2>1 DEF ApproveEnrollment
<1>4. ASSUME NEW p \in Tasks, RejectEnrollment(p)
      PROVE  AsksMove
  <2>1. CASE Open(task[p].ask)
    <3>1. task[p].ask \in Asks /\ Pending(task[p].ask)
          /\ Settle(task[p].ask, "rejected")
      BY <1>4, <2>1, TaskKinds DEF RejectEnrollment, At, RejectTask, Open
    <3> QED
      BY <1>0, <3>1, Settled DEF Statuses
  <2> QED
    BY <1>1, <1>4, <2>1 DEF RejectEnrollment
<1>5. ASSUME NEW e \in Asks, CancelEnrollment(e)
      PROVE  AsksMove
  BY <1>0, <1>5, Settled DEF CancelEnrollment, Statuses
<1>6. ASSUME NEW e \in Asks, TimePasses(e)
      PROVE  AsksMove
  <2>1. Pending(e) /\ ask' = [ask EXCEPT ![e] = [ask[e] EXCEPT !.live = FALSE]]
    BY <1>0, <1>6 DEF TimePasses, Open
  <2>2. /\ [ask[e] EXCEPT !.live = FALSE] \in DeviceEnrollment
        /\ [ask[e] EXCEPT !.live = FALSE].dev = ask[e].dev
        /\ [ask[e] EXCEPT !.live = FALSE].status = ask[e].status
        /\ [ask[e] EXCEPT !.live = FALSE].live = FALSE
        /\ ask[e] \in DeviceEnrollment
    BY <1>0, <2>1, PendingAsk
  <2> QED
    BY <1>0, <2>1, <2>2 DEF AsksMove, AskMove, OpenAfter, Pending
<1>7. CASE TouchExpiredEnrollments
  <2> DEFINE S == {e \in Asks : Pending(e) /\ ~ask[e].live}
  <2>1. ask' = [e \in Asks |-> IF e \in S THEN [ask[e] EXCEPT !.status = "expired"]
                               ELSE ask[e]]
    BY <1>7 DEF TouchExpiredEnrollments
  <2>2. S \in SUBSET Asks /\ \A e \in S : Pending(e)
    OBVIOUS
  <2> HIDE DEF S
  <2> QED
    BY <1>0, <2>1, <2>2, ManySettled
<1>8. ASSUME NEW d \in Devices, RecoverIdentityKey(d)
      PROVE  AsksMove
  <2> DEFINE S == {e \in Asks : Pending(e)}
  <2>1. ask' = [e \in Asks |-> IF e \in S THEN [ask[e] EXCEPT !.status = "expired"]
                               ELSE ask[e]]
    BY <1>8 DEF RecoverIdentityKey, ExpirePending
  <2>2. S \in SUBSET Asks /\ \A e \in S : Pending(e)
    OBVIOUS
  <2> HIDE DEF S
  <2> QED
    BY <1>0, <2>1, <2>2, ManySettled
<1>9. ASSUME NEW d \in Devices, RemoveApproverDevice(d)
      PROVE  AsksMove
  <2> DEFINE S == {e \in Asks : Pending(e) /\ ask[e].dev = d}
  <2>1. ask' = [e \in Asks |-> IF e \in S THEN [ask[e] EXCEPT !.status = "cancelled"]
                               ELSE ask[e]]
    BY <1>9 DEF RemoveApproverDevice, WithdrawAsks
  <2>2. S \in SUBSET Asks /\ \A e \in S : Pending(e)
    OBVIOUS
  <2> HIDE DEF S
  <2> QED
    BY <1>0, <2>1, <2>2, ManySettled
<1>10. ASSUME ~UNCHANGED ask
       PROVE  \/ \E p \in Tasks, e \in Asks : CreateEnrollmentRequest(p, e)
              \/ \E p \in Tasks : ApproveEnrollment(p) \/ RejectEnrollment(p)
              \/ \E e \in Asks : CancelEnrollment(e) \/ TimePasses(e)
              \/ TouchExpiredEnrollments
              \/ \E d \in Devices : RecoverIdentityKey(d) \/ RemoveApproverDevice(d)
  BY <1>10 DEF Next, vars, rows, RegistrationStep, Register, ReadActiveKey,
               ReadOwnCopy, UserHasLegacyUserKey,
               CreateIdentityKeyWithDeviceEnvelope, RequestStep,
               CreateEnrollment, ApprovalStep, Approve, ApproverIsTrusted,
               VersionIsActive, CreateUserIdentityKeyDeviceEnvelope,
               RejectionStep, Reject, MigrationStep, Start,
               StartIdentityMigration, Adopt, StoreAdopted, AccountStep,
               Escrow, Abort
<1> QED
  BY <1>1, <1>2, <1>3, <1>4, <1>5, <1>6, <1>7, <1>8, <1>9, <1>10

----------------------------------------------------------------------------
(* The steps in detail *)

\* The first key of an account is the first version, in the hands of the device
\* that asked for it.
LEMMA FirstKeyFacts ==
  ASSUME TypeOK, NEW p \in Tasks, FirstKey(p)
  PROVE  /\ task[p].dev \in Devices
         /\ version = 0 /\ version' = 1
         /\ copy' \in [Devices -> [Versions -> DeviceEnvelope]]
         /\ copy'[task[p].dev][1] = 1
         /\ \A e \in Devices, x \in Versions :
              e # task[p].dev \/ x # 1 => copy'[e][x] = copy[e][x]
         /\ knows' \in [Devices -> SUBSET Versions]
         /\ account' \in [predates: BOOLEAN, founded:
                            {"", "register", "migration", "recovery"}]
         /\ account'.predates = account.predates
         /\ account'.founded = "register"
              => account.founded = "register" \/ At(p, "mint")
<1>1. task[p].dev \in Devices
  BY TaskKinds DEF FirstKey, DeviceTask
<1>2. RowsOK /\ InsertFirstKey(task[p].dev)
  BY DEF TypeOK, FirstKey
<1>3. Store(task[p].dev, 1, 1)
  BY <1>2 DEF InsertFirstKey, Store
<1>4. \/ Found("register") /\ At(p, "mint")
      \/ Found("migration")
  BY DEF FirstKey
<1>5. Learn(task[p].dev, 1)
  BY <1>2 DEF InsertFirstKey
<1>9. version = 0 /\ version' = 1
  BY <1>2 DEF InsertFirstKey
<1>6. /\ account' \in [predates: BOOLEAN, founded:
                          {"", "register", "migration", "recovery"}]
      /\ account'.predates = account.predates
      /\ account'.founded = "register"
           => account.founded = "register" \/ At(p, "mint")
  BY <1>2, <1>4, Founded
<1>7. knows' \in [Devices -> SUBSET Versions]
  BY <1>1, <1>2, <1>5, Learned, VersionsAreNumbers
<1>8. /\ copy' \in [Devices -> [Versions -> DeviceEnvelope]]
      /\ copy'[task[p].dev][1] = 1
      /\ \A e \in Devices, x \in Versions :
           e # task[p].dev \/ x # 1 => copy'[e][x] = copy[e][x]
  BY <1>1, <1>2, <1>3, Stored, VersionsAreNumbers
<1> QED
  BY <1>1, <1>6, <1>7, <1>8, <1>9, Zenon

\* An approval stores what was sent for the device of its enrollment.
LEMMA StoreFacts ==
  ASSUME TypeOK, ApprovalsKnow, NEW p \in Tasks,
         CreateUserIdentityKeyDeviceEnvelope(p)
  PROVE  /\ task[p] \in ApprovalTask /\ At(p, "store")
         /\ ask[task[p].ask] \in DeviceEnrollment
         /\ ask[task[p].ask].dev \in Devices
         /\ copy' \in [Devices -> [Versions -> DeviceEnvelope]]
         /\ copy'[ask[task[p].ask].dev][task[p].ver] = task[p].sent
         /\ \A e \in Devices, x \in Versions :
              e # ask[task[p].ask].dev \/ x # task[p].ver
                => copy'[e][x] = copy[e][x]
         /\ task'[p] = [task[p] EXCEPT !.at = "mark"]
<1>1. At(p, "store") /\ task[p] \in ApprovalTask
  BY TaskKinds DEF CreateUserIdentityKeyDeviceEnvelope, At
<1>2. task[p].ask \in Asks /\ task[p].ver \in Versions /\ task[p].sent \in Versions
  BY <1>1 DEF ApprovalTask
<1>3. ask[task[p].ask] # NoAsk
  BY <1>1 DEF ApprovalsKnow, At
<1>4. RowsOK /\ ask[task[p].ask] \in {NoAsk} \cup DeviceEnrollment
  BY <1>2 DEF TypeOK, RowsOK
<1>5. ask[task[p].ask] \in DeviceEnrollment /\ ask[task[p].ask].dev \in Devices
  BY <1>3, <1>4 DEF DeviceEnrollment
<1>6. Store(ask[task[p].ask].dev, task[p].ver, task[p].sent)
  BY DEF CreateUserIdentityKeyDeviceEnvelope, Store
<1>7. ASSUME NEW d \in Devices, NEW v \in Versions, NEW w \in DeviceEnvelope,
             d = ask[task[p].ask].dev, v = task[p].ver, w = task[p].sent
      PROVE  /\ copy' \in [Devices -> [Versions -> DeviceEnvelope]]
             /\ copy'[d][v] = w
             /\ \A e \in Devices, x \in Versions :
                  e # d \/ x # v => copy'[e][x] = copy[e][x]
  <2>1. Store(d, v, w)
    BY <1>6, <1>7
  <2> QED
    BY <1>4, <2>1, Stored
<1>8. task'[p] = [task[p] EXCEPT !.at = "mark"]
  BY GotoFacts DEF CreateUserIdentityKeyDeviceEnvelope, Step
<1>9. task[p].sent \in DeviceEnvelope
  BY <1>2, VersionsAreNumbers
<1> QED
  BY <1>1, <1>2, <1>5, <1>7, <1>8, <1>9

\* Every other copy stays.
LEMMA StoreTakesOne ==
  ASSUME TypeOK, ApprovalsKnow, NEW p \in Tasks,
         CreateUserIdentityKeyDeviceEnvelope(p),
         NEW d \in Devices, NEW v \in Versions
  PROVE  \/ copy'[d][v] = copy[d][v]
         \/ /\ d = ask[task[p].ask].dev /\ v = task[p].ver
            /\ copy'[d][v] = task[p].sent
<1> DEFINE e == ask[task[p].ask].dev
           w == task[p].ver
<1>1. /\ copy'[e][w] = task[p].sent
      /\ \A x \in Devices, y \in Versions :
           x # e \/ y # w => copy'[x][y] = copy[x][y]
  BY StoreFacts
<1> HIDE DEF e, w
<1>2. \/ copy'[d][v] = copy[d][v]
      \/ d = e /\ v = w /\ copy'[d][v] = task[p].sent
  BY <1>1
<1> QED
  BY <1>2 DEF e, w

\* An adopted copy is the version in escrow.
LEMMA AdoptFacts ==
  ASSUME TypeOK, EscrowOfFirst, NEW p \in Tasks, StoreAdopted(p)
  PROVE  /\ task[p].dev \in Devices /\ escrow = 1
         /\ copy' \in [Devices -> [Versions -> DeviceEnvelope]]
         /\ copy'[task[p].dev][1] = 1
         /\ \A e \in Devices, x \in Versions :
              e # task[p].dev \/ x # 1 => copy'[e][x] = copy[e][x]
         /\ task'[p] = Idle
<1>1. task[p].dev \in Devices /\ escrow = 1
  BY TaskKinds DEF StoreAdopted, At, DeviceTask, EscrowOfFirst
<1>2. RowsOK /\ Store(task[p].dev, 1, 1)
  BY <1>1 DEF TypeOK, StoreAdopted, Store
<1>3. task'[p] = Idle
  BY GotoFacts DEF StoreAdopted, End
<1>4. /\ copy' \in [Devices -> [Versions -> DeviceEnvelope]]
      /\ copy'[task[p].dev][1] = 1
      /\ \A e \in Devices, x \in Versions :
           e # task[p].dev \/ x # 1 => copy'[e][x] = copy[e][x]
  BY <1>1, <1>2, Stored, VersionsAreNumbers
<1> QED
  BY <1>1, <1>3, <1>4

\* After a recovery there is one copy, of the newest version.
LEMMA RecoverCopies ==
  ASSUME NEW d \in Devices, RecoverIdentityKey(d),
         NEW e \in Devices, NEW w \in Versions
  PROVE  copy'[e][w] = 0 \/ (copy'[e][w] = version' /\ w = version')
<1>1. copy' = [x \in Devices |->
                 [y \in Versions |-> IF x = d /\ y = version' THEN version' ELSE 0]]
  BY DEF RecoverIdentityKey, OnlyCopy
<1>2. copy'[e][w] = IF e = d /\ w = version' THEN version' ELSE 0
  BY <1>1
<1> QED
  BY <1>2

\* A recovery starts the next version in the hands of one device and closes
\* every enrollment.
LEMMA RecoverFacts ==
  ASSUME TypeOK, NEW d \in Devices, RecoverIdentityKey(d)
  PROVE  /\ d \notin Approvers
         /\ version' = version + 1 /\ version' \in Versions
         /\ copy' \in [Devices -> [Versions -> DeviceEnvelope]]
         /\ \A e \in Devices, w \in Versions :
              copy'[e][w] = IF e = d /\ w = version' THEN version' ELSE 0
         /\ device' \in [Devices -> UserDevice] /\ device'[d] = "active"
         /\ knows' \in [Devices -> SUBSET Versions]
         /\ account' \in [predates: BOOLEAN, founded:
                            {"", "register", "migration", "recovery"}]
         /\ account'.predates = account.predates
         /\ account'.founded \in {account.founded, "recovery"}
         /\ \A e \in Asks : ~Pending(e)'
         /\ legacy' = {}
         /\ UNCHANGED <<escrow, task>>
<1>0. RowsOK
  BY DEF TypeOK
<1>1. StartAfresh(d) /\ version' = version + 1
  BY DEF RecoverIdentityKey
<1>2. version' \in Versions
  BY <1>0, <1>1, NewestVersion, MaxVersionAssumption DEF StartAfresh, Versions
<1>3. copy' = [e \in Devices |->
                 [w \in Versions |-> IF e = d /\ w = version' THEN version' ELSE 0]]
  BY DEF RecoverIdentityKey, OnlyCopy
<1>4. version' \in DeviceEnvelope /\ 0 \in DeviceEnvelope
  BY <1>2, VersionsAreNumbers DEF DeviceEnvelope
<1>5. copy' \in [Devices -> [Versions -> DeviceEnvelope]]
  BY <1>3, <1>4
<1>6. \A e \in Devices, w \in Versions :
        copy'[e][w] = IF e = d /\ w = version' THEN version' ELSE 0
  BY <1>3
<1>7. device' \in [Devices -> UserDevice] /\ device'[d] = "active"
  BY <1>0, <1>1 DEF StartAfresh, RowsOK, UserDevice
<1>8. knows' \in [Devices -> SUBSET Versions]
  BY <1>0, <1>2, Learned DEF RecoverIdentityKey
<1>9. /\ account' \in [predates: BOOLEAN, founded:
                          {"", "register", "migration", "recovery"}]
      /\ account'.predates = account.predates
      /\ account'.founded \in {account.founded, "recovery"}
  BY <1>0, <1>1, Founded DEF StartAfresh
<1>10. ASSUME NEW e \in Asks
       PROVE  ~Pending(e)'
  <2>1. ask'[e] = IF Pending(e) THEN [ask[e] EXCEPT !.status = "expired"]
                  ELSE ask[e]
    BY DEF RecoverIdentityKey, ExpirePending
  <2>2. CASE Pending(e)
    <3>1. [ask[e] EXCEPT !.status = "expired"].status = "expired"
      BY <1>0, <2>2, PendingAsk DEF Statuses
    <3> QED
      BY <2>1, <2>2, <3>1 DEF Pending
  <2> QED
    BY <2>1, <2>2 DEF Pending
<1> QED
  BY <1>1, <1>2, <1>5, <1>6, <1>7, <1>8, <1>9, <1>10 DEF StartAfresh

\* The removal of the approver takes its copies and its enrollments.
LEMMA RemoveFacts ==
  ASSUME TypeOK, NEW d \in Devices, RemoveApproverDevice(d)
  PROVE  /\ d \in Approvers
         /\ device' \in [Devices -> UserDevice]
         /\ \A e \in Devices \ {d} : device'[e] = device[e]
         /\ copy' \in [Devices -> [Versions -> DeviceEnvelope]]
         /\ \A v \in Versions : copy'[d][v] = 0
         /\ \A e \in Devices \ {d}, v \in Versions : copy'[e][v] = copy[e][v]
         /\ \A e \in Asks : Pending(e)' => ask'[e].dev # d
         /\ UNCHANGED <<version, legacy, escrow, task, knows, account>>
<1>0. RowsOK
  BY DEF TypeOK
<1>1. d \in Approvers /\ Disconnect(d) /\ WithdrawAsks(d)
  BY DEF RemoveApproverDevice
<1>2. device \in [Devices -> UserDevice]
      /\ copy \in [Devices -> [Versions -> DeviceEnvelope]]
  BY <1>0 DEF RowsOK
<1>3. 0 \in DeviceEnvelope
  BY MaxVersionAssumption DEF DeviceEnvelope
<1>4. /\ device' \in [Devices -> UserDevice]
      /\ \A e \in Devices \ {d} : device'[e] = device[e]
  BY <1>1, <1>2 DEF Disconnect, UserDevice
<1>5. copy' = [copy EXCEPT ![d] = [v \in Versions |-> 0]]
  BY <1>1 DEF Disconnect
<1>6. [v \in Versions |-> 0] \in [Versions -> DeviceEnvelope]
  BY <1>3
<1>7. /\ copy' \in [Devices -> [Versions -> DeviceEnvelope]]
      /\ copy'[d] = [v \in Versions |-> 0]
      /\ \A e \in Devices \ {d} : copy'[e] = copy[e]
  BY <1>2, <1>5, <1>6
<1>8. ASSUME NEW e \in Asks, Pending(e)'
      PROVE  ask'[e].dev # d
  <2>1. ask'[e] = IF Pending(e) /\ ask[e].dev = d
                  THEN [ask[e] EXCEPT !.status = "cancelled"] ELSE ask[e]
    BY <1>1 DEF WithdrawAsks
  <2>2. CASE Pending(e) /\ ask[e].dev = d
    <3>1. [ask[e] EXCEPT !.status = "cancelled"].status = "cancelled"
      BY <1>0, <2>2, PendingAsk DEF Statuses
    <3> QED
      BY <1>8, <2>1, <2>2, <3>1 DEF Pending
  <2> QED
    BY <1>8, <2>1, <2>2 DEF Pending
<1> QED
  BY <1>1, <1>4, <1>7, <1>8 DEF Disconnect

\* A device that registers is active.
LEMMA RegisterFacts ==
  ASSUME TypeOK, NEW p \in Tasks, NEW d \in Devices, Register(p, d)
  PROVE  /\ device' \in [Devices -> UserDevice] /\ device'[d] = "active"
         /\ \A e \in Devices \ {d} : device'[e] = device[e]
         /\ task'[p] = [at |-> "active", dev |-> d]
         /\ \A q \in Tasks \ {p} : task'[q] = task[q]
         /\ UNCHANGED <<version, copy, legacy, escrow, ask, knows, account>>
<1>1. Goto(p, [at |-> "active", dev |-> d])
  BY DEF Register, Begin
<1>2. /\ task'[p] = [at |-> "active", dev |-> d]
      /\ \A q \in Tasks \ {p} : task'[q] = task[q]
  BY <1>1, GotoFacts
<1>3. device \in [Devices -> UserDevice]
  BY DEF TypeOK, RowsOK
<1> QED
  BY <1>2, <1>3 DEF Register, CreateOrUpdateUserDevice, UserDevice

----------------------------------------------------------------------------
(* Requests and versions, whatever the step *)

\* A request that is not at rest in a step of another one stores its copy,
\* begins to register, or makes a quiet move.
LEMMA TaskMoves ==
  ASSUME TypeOK, ApprovalsKnow, [Next]_vars, NEW q \in Tasks
  PROVE  \/ task'[q] \in {task[q], Idle}
         \/ Quiet /\ QuietMove(q)
         \/ \E d \in Devices :
              Register(q, d) /\ task'[q] = [at |-> "active", dev |-> d]
         \/ /\ CreateUserIdentityKeyDeviceEnvelope(q)
            /\ task'[q] = [task[q] EXCEPT !.at = "mark"]
<1>1. ASSUME NEW p \in Tasks, FirstKey(p) \/ StoreAdopted(p)
      PROVE  task'[q] \in {task[q], Idle}
  BY <1>1, GotoFacts DEF FirstKey, StoreAdopted, End
<1>2. ASSUME NEW p \in Tasks, CreateUserIdentityKeyDeviceEnvelope(p)
      PROVE  \/ task'[q] = task[q]
             \/ p = q /\ task'[q] = [task[q] EXCEPT !.at = "mark"]
  BY <1>2, GotoFacts DEF CreateUserIdentityKeyDeviceEnvelope, Step
<1>3. ASSUME NEW d \in Devices, RecoverIdentityKey(d) \/ RemoveApproverDevice(d)
      PROVE  task'[q] = task[q]
  BY <1>3, RecoverFacts, RemoveFacts
<1>4. ASSUME NEW p \in Tasks, NEW d \in Devices, Register(p, d)
      PROVE  \/ task'[q] = task[q]
             \/ p = q /\ task'[q] = [at |-> "active", dev |-> d]
  BY <1>4, RegisterFacts
<1> QED
  BY <1>1, <1>2, <1>3, <1>4, StepKinds

\* Versions are not taken back, and a new one follows on the newest.
LEMMA VersionGrows ==
  ASSUME TypeOK, [Next]_vars
  PROVE  /\ version' \in Nat /\ version' >= version
         /\ version' # version =>
              \/ \E p \in Tasks : FirstKey(p)
              \/ \E d \in Devices : RecoverIdentityKey(d)
<1>0. version \in Nat /\ RowsOK
  BY NewestVersion DEF TypeOK
<1>1. ASSUME NEW p \in Tasks, FirstKey(p)
      PROVE  version' \in Nat /\ version' >= version
  <2>1. version = 0 /\ version' = 1
    BY <1>1, FirstKeyFacts
  <2> QED
    BY <2>1
<1>2. ASSUME NEW d \in Devices, RecoverIdentityKey(d)
      PROVE  version' \in Nat /\ version' >= version
  <2>1. version' = version + 1
    BY <1>2, RecoverFacts
  <2> QED
    BY <1>0, <2>1
<1>3. ASSUME ~\E p \in Tasks : FirstKey(p),
             ~\E d \in Devices : RecoverIdentityKey(d)
      PROVE  version' = version
  <2>1. ASSUME NEW d \in Devices, RemoveApproverDevice(d)
        PROVE  version' = version
    BY <2>1, RemoveFacts
  <2>2. ASSUME NEW p \in Tasks, NEW d \in Devices, Register(p, d)
        PROVE  version' = version
    BY <2>2, RegisterFacts
  <2>3. ASSUME NEW p \in Tasks,
               CreateUserIdentityKeyDeviceEnvelope(p) \/ StoreAdopted(p)
        PROVE  version' = version
    BY <2>3 DEF CreateUserIdentityKeyDeviceEnvelope, StoreAdopted
  <2> QED
    BY <1>3, <2>1, <2>2, <2>3, StepKinds DEF Quiet
<1> QED
  BY <1>0, <1>1, <1>2, <1>3

\* An enrollment that is there stays, and none that was there opens.
LEMMA AskStays ==
  ASSUME TypeOK, [Next]_vars, NEW e \in Asks, ask[e] # NoAsk
  PROVE  /\ ask'[e] # NoAsk
         /\ OpenAfter(e) => ask'[e] = ask[e] /\ Open(e)
<1>1. AskMove(e)
  BY AsksMoveStep DEF AsksMove
<1>2. NoAsk \notin DeviceEnrollment
  BY DEF NoAsk, DeviceEnrollment
<1>3. CASE ask'[e] = ask[e]
  BY <1>3 DEF Open, Pending, OpenAfter
<1>4. CASE ask'[e] \in DeviceEnrollment /\ ~OpenAfter(e)
  BY <1>2, <1>4
<1> QED
  BY <1>1, <1>3, <1>4 DEF AskMove

\* Where a quiet move leads, and from where.
LEMMA QuietMoves ==
  ASSUME TypeOK, NEW p \in Tasks, QuietMove(p), task'[p] # task[p]
  PROVE  /\ task'[p].at \in {"idle", "insert", "own", "reject", "legacy", "mint",
                            "start", "adopt", "trust", "check", "store"}
         /\ task'[p].at = "legacy" =>
              task[p].at = "active" /\ task'[p].dev = task[p].dev
         /\ task'[p].at = "mint" =>
              /\ task[p].at = "legacy" /\ task'[p].dev = task[p].dev
              /\ task[p].dev \notin Approvers
              /\ \A d \in Devices : ~HasLegacy(d)
         /\ task'[p].at = "start" => HasLegacy(task'[p].dev)
         /\ task'[p].at = "adopt" => ActiveEscrow
         /\ task'[p].at = "trust" =>
              /\ task'[p].ver = version /\ task'[p].ask \in Asks
              /\ ask[task'[p].ask] # NoAsk
         /\ task'[p].at = "check" =>
              /\ task[p].at = "trust" /\ task'[p].ask = task[p].ask
              /\ task'[p].ver = task[p].ver
         /\ task'[p].at = "store" =>
              /\ task[p].at = "check" /\ task'[p].ask = task[p].ask
              /\ task'[p].ver = version /\ task'[p].sent = version
<1>1. CASE \/ task'[p] = Idle
           \/ task'[p] \in DeviceTask /\ task'[p].at = "insert"
           \/ task'[p] \in OwnTask
           \/ task'[p] \in RejectTask
  BY <1>1 DEF Idle, OwnTask, RejectTask
<1>2. CASE /\ task[p].at = "active"
           /\ task'[p] = [at |-> "legacy", dev |-> task[p].dev]
  BY <1>2
<1>3. CASE /\ task[p].at = "legacy" /\ task[p].dev \notin Approvers
           /\ \A d \in Devices : ~HasLegacy(d)
           /\ task'[p] = [task[p] EXCEPT !.at = "mint"]
  <2>1. task[p] \in DeviceTask
    BY <1>3, TaskKinds
  <2>2. task'[p].at = "mint" /\ task'[p].dev = task[p].dev
    BY <1>3, <2>1 DEF DeviceTask
  <2> QED
    BY <1>3, <2>2
<1>4. ASSUME NEW d \in Devices, HasLegacy(d),
             task'[p] = [at |-> "start", dev |-> d]
      PROVE  task'[p].at = "start" /\ HasLegacy(task'[p].dev)
  BY <1>4
<1>5. CASE \E d \in Devices :
             ActiveEscrow /\ task'[p] = [at |-> "adopt", dev |-> d]
  BY <1>5
<1>6. CASE \E a \in Devices, e \in Asks, v \in Versions :
             /\ ask[e] # NoAsk /\ version # 0
             /\ task'[p] = [at |-> "trust", dev |-> a, ask |-> e,
                            ver |-> version, sent |-> v]
  BY <1>6
<1>7. CASE task[p].at = "trust" /\ task'[p] = [task[p] EXCEPT !.at = "check"]
  <2>1. task[p] \in ApprovalTask
    BY <1>7, TaskKinds
  <2>2. /\ task'[p].at = "check" /\ task'[p].ask = task[p].ask
        /\ task'[p].ver = task[p].ver
    BY <1>7, <2>1 DEF ApprovalTask
  <2> QED
    BY <1>7, <2>2
<1>8. CASE /\ task[p].at = "check" /\ task[p].sent = version
           /\ task'[p] = [task[p] EXCEPT !.at = "store", !.ver = version]
  <2>1. task[p] \in ApprovalTask
    BY <1>8, TaskKinds
  <2>2. /\ task'[p].at = "store" /\ task'[p].ask = task[p].ask
        /\ task'[p].ver = version /\ task'[p].sent = version
    BY <1>8, <2>1 DEF ApprovalTask
  <2> QED
    BY <1>8, <2>2
<1> QED
  BY <1>1, <1>2, <1>3, <1>4, <1>5, <1>6, <1>7, <1>8 DEF QuietMove

----------------------------------------------------------------------------
(* Types *)

\* A step moves one request or none.
LEMMA OneRequestMoves ==
  ASSUME TypeOK, [Next]_vars
  PROVE  task' = task \/ \E p \in Tasks, t \in {task'[q] : q \in Tasks} : Goto(p, t)
<1>0. task \in [Tasks -> TaskState]
  BY DEF TypeOK
<1>1. ASSUME NEW p \in Tasks, \E t : Goto(p, t)
      PROVE  \E r \in Tasks, u \in {task'[q] : q \in Tasks} : Goto(r, u)
  <2>1. Goto(p, task'[p])
    BY <1>1, GotoFacts
  <2>2. task'[p] \in {task'[q] : q \in Tasks}
    OBVIOUS
  <2> QED
    BY <2>1, <2>2
<1>2. task' = task \/ \E p \in Tasks : \E t : Goto(p, t)
  <2>1. ASSUME NEW p \in Tasks,
               RegistrationStep(p) \/ RequestStep(p) \/ RejectionStep(p) \/ Abort(p)
        PROVE  \E t : Goto(p, t)
    BY <2>1 DEF RegistrationStep, Register, ReadActiveKey, ReadOwnCopy,
         UserHasLegacyUserKey, CreateIdentityKeyWithDeviceEnvelope,
         RequestStep, CreateEnrollment, CreateEnrollmentRequest,
         RejectionStep, Reject, RejectEnrollment, Abort, Begin, Step, End
  <2>2. ASSUME NEW p \in Tasks, ApprovalStep(p) \/ MigrationStep(p)
        PROVE  \E t : Goto(p, t)
    BY <2>2 DEF ApprovalStep, Approve, ApproverIsTrusted, VersionIsActive,
         CreateUserIdentityKeyDeviceEnvelope, ApproveEnrollment, MigrationStep,
         Start, StartIdentityMigration, Adopt, StoreAdopted, Begin, Step, End
  <2>3. ASSUME AccountStep \/ UNCHANGED vars
        PROVE  task' = task
    BY <2>3 DEF AccountStep, RecoverIdentityKey, StartAfresh,
         RemoveApproverDevice, Disconnect, Escrow, TimePasses,
         CancelEnrollment, TouchExpiredEnrollments, vars, rows
  <2> QED
    BY <2>1, <2>2, <2>3 DEF Next
<1> QED
  BY <1>1, <1>2

\* A request is always at one of the steps there are.
LEMMA TaskTypes ==
  ASSUME TypeOK, ApprovalsKnow, [Next]_vars
  PROVE  task' \in [Tasks -> TaskState]
<1>1. ASSUME NEW q \in Tasks
      PROVE  task'[q] \in TaskState
  <2>0. task[q] \in TaskState /\ Idle \in TaskState
        /\ DeviceTask \cup OwnTask \cup ApprovalTask \cup RejectTask
             \subseteq TaskState
    BY DEF TypeOK, TaskState
  <2>1. CASE Quiet /\ QuietMove(q)
    <3>1. CASE task[q].at = "active" /\ task'[q] = [at |-> "legacy", dev |-> task[q].dev]
      BY <2>0, <3>1, TaskKinds DEF DeviceTask
    <3>2. CASE task[q].at = "legacy" /\ task'[q] = [task[q] EXCEPT !.at = "mint"]
      BY <2>0, <3>2, TaskKinds DEF DeviceTask
    <3>3. CASE \E d \in Devices : \/ task'[q] = [at |-> "start", dev |-> d]
                                  \/ task'[q] = [at |-> "adopt", dev |-> d]
      BY <2>0, <3>3 DEF DeviceTask
    <3>4. ASSUME NEW a \in Devices, NEW e \in Asks, NEW v \in Versions,
                 version # 0,
                 task'[q] = [at |-> "trust", dev |-> a, ask |-> e,
                             ver |-> version, sent |-> v]
          PROVE  task'[q] \in TaskState
      <4>1. version \in Versions
        BY <3>4, NewestVersion DEF TypeOK
      <4> QED
        BY <2>0, <3>4, <4>1 DEF ApprovalTask
    <3>5. CASE task[q].at = "trust" /\ task'[q] = [task[q] EXCEPT !.at = "check"]
      BY <2>0, <3>5, TaskKinds DEF ApprovalTask
    <3>6. CASE /\ task[q].at = "check" /\ task[q].sent = version
               /\ task'[q] = [task[q] EXCEPT !.at = "store", !.ver = version]
      BY <2>0, <3>6, TaskKinds DEF ApprovalTask
    <3> QED
      BY <2>0, <2>1, <3>1, <3>2, <3>3, <3>4, <3>5, <3>6 DEF QuietMove
  <2>2. CASE \E d \in Devices : task'[q] = [at |-> "active", dev |-> d]
    BY <2>0, <2>2 DEF DeviceTask
  <2>3. CASE /\ CreateUserIdentityKeyDeviceEnvelope(q)
             /\ task'[q] = [task[q] EXCEPT !.at = "mark"]
    BY <2>0, <2>3, StoreFacts DEF ApprovalTask
  <2> QED
    BY <2>0, <2>1, <2>2, <2>3, TaskMoves
<1>2. task \in [Tasks -> TaskState]
  BY DEF TypeOK
<1>3. task' = task \/ \E p \in Tasks : \E t : task' = [task EXCEPT ![p] = t]
  BY OneRequestMoves DEF Goto
<1>4. task' = [q \in Tasks |-> task'[q]]
  BY <1>2, <1>3
<1> QED
  BY <1>1, <1>4

\* A device takes home versions of the key.
LEMMA KnowsTypes ==
  ASSUME TypeOK, [Next]_vars
  PROVE  knows' \in [Devices -> SUBSET Versions]
<1>0. RowsOK /\ knows \in [Devices -> SUBSET Versions]
  BY DEF TypeOK, RowsOK
<1>1. CASE knows' = knows
  BY <1>0, <1>1
<1>2. ASSUME NEW p \in Tasks, ReadOwnCopy(p)
      PROVE  knows' \in [Devices -> SUBSET Versions]
  <2>1. task[p].dev \in Devices /\ task[p].ver \in Versions
    BY <1>2, TaskKinds DEF ReadOwnCopy, At, OwnTask
  <2>2. copy[task[p].dev][task[p].ver] \in DeviceEnvelope
    BY <1>0, <2>1 DEF RowsOK
  <2>3. CASE copy[task[p].dev][task[p].ver] # 0
    <3>1. copy[task[p].dev][task[p].ver] \in Versions
      BY <2>2, <2>3, MaxVersionAssumption DEF DeviceEnvelope, Versions
    <3> QED
      BY <1>0, <1>2, <2>1, <2>3, <3>1, Learned DEF ReadOwnCopy
  <2> QED
    BY <1>1, <1>2, <2>3 DEF ReadOwnCopy
<1>3. ASSUME NEW d \in Devices, Escrow(d)
      PROVE  knows' \in [Devices -> SUBSET Versions]
  <2>1. escrow = 1
    BY <1>0, <1>3 DEF Escrow, ActiveEscrow, RowsOK
  <2> QED
    BY <1>0, <1>3, <2>1, Learned, VersionsAreNumbers DEF Escrow
<1>4. ASSUME knows' # knows
      PROVE  \/ \E p \in Tasks : FirstKey(p) \/ ReadOwnCopy(p)
             \/ \E d \in Devices : Escrow(d) \/ RecoverIdentityKey(d)
  BY <1>4 DEF Next, vars, rows, RegistrationStep, Register, ReadActiveKey,
              UserHasLegacyUserKey, CreateIdentityKeyWithDeviceEnvelope,
              RequestStep, CreateEnrollment, CreateEnrollmentRequest,
              ApprovalStep, Approve, ApproverIsTrusted, VersionIsActive,
              CreateUserIdentityKeyDeviceEnvelope, ApproveEnrollment,
              RejectionStep, Reject, RejectEnrollment, MigrationStep, Start,
              StartIdentityMigration, Adopt, StoreAdopted, AccountStep,
              RemoveApproverDevice, Disconnect, TimePasses, CancelEnrollment,
              TouchExpiredEnrollments, Abort, FirstKey, At
<1> QED
  BY <1>1, <1>2, <1>3, <1>4, FirstKeyFacts, RecoverFacts

\* Every variable keeps its type in every step.
LEMMA StepTypes ==
  ASSUME TypeOK, ApprovalsKnow, EscrowOfFirst, [Next]_vars
  PROVE  TypeOK'
<1>1. ask' \in [Asks -> {NoAsk} \cup DeviceEnrollment]
  BY AsksMoveStep DEF AsksMove
<1>2. task' \in [Tasks -> TaskState] /\ knows' \in [Devices -> SUBSET Versions]
  BY TaskTypes, KnowsTypes
<1>3. version' \in 0 .. MaxVersion
  <2>1. RowsOK /\ version \in 0 .. MaxVersion
    BY DEF TypeOK, RowsOK
  <2>2. ASSUME NEW p \in Tasks, FirstKey(p)
        PROVE  version' \in 0 .. MaxVersion
    <3>1. version' = 1
      BY <2>2, FirstKeyFacts
    <3> QED
      BY <3>1, MaxVersionAssumption
  <2>3. ASSUME NEW d \in Devices, RecoverIdentityKey(d)
        PROVE  version' \in 0 .. MaxVersion
    <3>1. version' \in Versions
      BY <2>3, RecoverFacts
    <3> QED
      BY <3>1, MaxVersionAssumption DEF Versions
  <2> QED
    BY <2>1, <2>2, <2>3, VersionGrows
<1>4. /\ device' \in [Devices -> UserDevice]
      /\ copy' \in [Devices -> [Versions -> DeviceEnvelope]]
      /\ legacy' \subseteq Devices /\ escrow' \in {0, 1}
      /\ account' \in [predates: BOOLEAN, founded:
                         {"", "register", "migration", "recovery"}]
  <2>0. /\ device \in [Devices -> UserDevice]
        /\ copy \in [Devices -> [Versions -> DeviceEnvelope]]
        /\ legacy \subseteq Devices /\ escrow \in {0, 1}
        /\ account \in [predates: BOOLEAN, founded:
                          {"", "register", "migration", "recovery"}]
    BY DEF TypeOK, RowsOK
  <2>1. CASE \E p \in Tasks : FirstKey(p)
    BY <2>0, <2>1, FirstKeyFacts DEF FirstKey
  <2>2. CASE \E p \in Tasks : CreateUserIdentityKeyDeviceEnvelope(p)
    BY <2>0, <2>2, StoreFacts DEF CreateUserIdentityKeyDeviceEnvelope
  <2>3. CASE \E p \in Tasks : StoreAdopted(p)
    BY <2>0, <2>3, AdoptFacts DEF StoreAdopted
  <2>4. CASE \E d \in Devices : RecoverIdentityKey(d)
    BY <2>0, <2>4, RecoverFacts
  <2>5. CASE \E d \in Devices : RemoveApproverDevice(d)
    BY <2>0, <2>5, RemoveFacts
  <2>6. CASE \E p \in Tasks, d \in Devices : Register(p, d)
    BY <2>0, <2>6, RegisterFacts
  <2>7. CASE Quiet
    BY <2>0, <2>7 DEF Quiet
  <2> QED
    BY <2>1, <2>2, <2>3, <2>4, <2>5, <2>6, <2>7, StepKinds
<1> QED
  BY <1>1, <1>2, <1>3, <1>4 DEF TypeOK, RowsOK

----------------------------------------------------------------------------
(* The invariant, part by part *)

\* The check of the version comes right before the copy is stored.
LEMMA SentMatchesStep ==
  ASSUME TypeOK, IdentityInv, [Next]_vars
  PROVE  SentMatches'
<1> SUFFICES ASSUME NEW p \in Tasks, task'[p].at = "store"
             PROVE  task'[p].sent = task'[p].ver
  BY DEF SentMatches, At
<1>0. ApprovalsKnow /\ (task[p].at = "store" => task[p].sent = task[p].ver)
  BY DEF IdentityInv, SentMatches, At
<1>1. CASE task'[p] \in {task[p], Idle}
  BY <1>0, <1>1 DEF Idle
<1>2. CASE QuietMove(p)
  BY <1>0, <1>2, QuietMoves
<1>3. CASE \E d \in Devices : task'[p] = [at |-> "active", dev |-> d]
  BY <1>3
<1>4. CASE /\ CreateUserIdentityKeyDeviceEnvelope(p)
           /\ task'[p] = [task[p] EXCEPT !.at = "mark"]
  BY <1>0, <1>4, StoreFacts DEF ApprovalTask
<1> QED
  BY <1>0, <1>1, <1>2, <1>3, <1>4, TaskMoves

\* While the enrollment is open there was no recovery, and its device has not
\* been removed.
LEMMA ApprovalsKnowStep ==
  ASSUME TypeOK, IdentityInv, [Next]_vars
  PROVE  ApprovalsKnow'
<1> SUFFICES ASSUME NEW p \in Tasks,
                    task'[p].at \in {"trust", "check", "store", "mark"}
             PROVE  /\ task'[p].ver <= version' /\ ask'[task'[p].ask] # NoAsk
                    /\ task'[p].at = "store" /\ OpenAfter(task'[p].ask)
                         => task'[p].ver = version'
                    /\ task'[p].at = "mark" /\ OpenAfter(task'[p].ask)
                         => copy'[ask'[task'[p].ask].dev][version'] # 0
  BY DEF ApprovalsKnow, At, Open, Pending, OpenAfter
<1>0. ApprovalsKnow /\ EscrowOfFirst /\ version \in Nat
  BY NewestVersion DEF IdentityInv, TypeOK
<1>1. CASE task'[p] = task[p]
  <2>1. /\ task[p] \in ApprovalTask /\ ask[task[p].ask] # NoAsk
        /\ task[p].ver <= version /\ task[p].ver \in Nat /\ task[p].ver >= 1
        /\ task[p].ask \in Asks
    BY <1>0, <1>1, TaskKinds, VersionsAreNumbers
       DEF ApprovalsKnow, ApprovalTask
  <2>2. /\ ask'[task[p].ask] # NoAsk /\ task[p].ver <= version'
        /\ OpenAfter(task[p].ask) => ask'[task[p].ask] = ask[task[p].ask]
                                   /\ Open(task[p].ask)
    BY <1>0, <1>1, <2>1, AskStays, VersionGrows
  <2>3. ASSUME OpenAfter(task[p].ask)
        PROVE  version' = version
    <3>1. ASSUME NEW q \in Tasks, FirstKey(q)
          PROVE  FALSE
      <4>1. version = 0
        BY <3>1, FirstKeyFacts
      <4> QED
        BY <2>1, <4>1
    <3>2. ASSUME NEW d \in Devices, RecoverIdentityKey(d)
          PROVE  FALSE
      BY <1>1, <2>1, <2>3, <3>2, RecoverFacts DEF OpenAfter, Pending
    <3> QED
      BY <3>1, <3>2, VersionGrows
  <2>4. ASSUME task[p].at = "mark", OpenAfter(task[p].ask)
        PROVE  copy'[ask[task[p].ask].dev][version] # 0
    <3> DEFINE d == ask[task[p].ask].dev
    <3> SUFFICES copy'[d][version] # 0
      OBVIOUS
    <3>1. Open(task[p].ask) /\ copy[d][version] # 0 /\ version' = version
      BY <1>0, <2>1, <2>2, <2>3, <2>4 DEF ApprovalsKnow, At
    <3>2. d \in Devices /\ version \in Versions
      <4>1. version # 0
        BY <1>0, <2>1
      <4> QED
        BY <2>1, <3>1, <4>1, PendingAsk, NewestVersion DEF Open, TypeOK
    <3> HIDE DEF d
    <3>3. CASE \E q \in Tasks : FirstKey(q)
      <4>1. version = 0
        BY <3>3, FirstKeyFacts
      <4> QED
        BY <2>1, <4>1
    <3>4. ASSUME NEW q \in Tasks, CreateUserIdentityKeyDeviceEnvelope(q)
          PROVE  copy'[d][version] # 0
      <4>0. task[q].sent \in Versions
        BY <1>0, <3>4, StoreFacts DEF ApprovalTask
      <4>1. copy'[d][version] \in {copy[d][version], task[q].sent}
        BY <1>0, <3>2, <3>4, StoreTakesOne
      <4>2. 0 \notin Versions
        BY VersionsAreNumbers
      <4> QED
        BY <3>1, <4>0, <4>1, <4>2
    <3>5. CASE \E q \in Tasks : StoreAdopted(q)
      BY <1>0, <3>1, <3>2, <3>5, AdoptFacts
    <3>6. CASE \E e \in Devices : RecoverIdentityKey(e)
      BY <2>1, <2>4, <3>6, RecoverFacts DEF OpenAfter, Pending
    <3>7. ASSUME NEW e \in Devices, RemoveApproverDevice(e)
          PROVE  copy'[d][version] # 0
      <4>1. d # e
        BY <2>1, <2>2, <2>4, <3>7, RemoveFacts DEF OpenAfter, Pending, d
      <4> QED
        BY <3>1, <3>2, <3>7, <4>1, RemoveFacts
    <3>8. CASE \E q \in Tasks, e \in Devices : Register(q, e)
      BY <3>1, <3>8, RegisterFacts
    <3>9. CASE Quiet
      BY <3>1, <3>9 DEF Quiet
    <3> QED
      BY <3>3, <3>4, <3>5, <3>6, <3>7, <3>8, <3>9, StepKinds
  <2> QED
    BY <1>0, <1>1, <2>1, <2>2, <2>3, <2>4 DEF ApprovalsKnow, At
<1>2. CASE Quiet /\ QuietMove(p) /\ task'[p] # task[p]
  <2>0. version' = version
    BY <1>2 DEF Quiet
  <2>1. /\ task'[p].at \in {"trust", "check", "store"} /\ task'[p].ask \in Asks
        /\ ask[task'[p].ask] # NoAsk /\ task'[p].ver <= version
        /\ task'[p].at = "store" => task'[p].ver = version
    <3>1. CASE task'[p].at = "trust"
      BY <1>0, <1>2, <3>1, QuietMoves
    <3>2. CASE task'[p].at \in {"check", "store"}
      <4>1. /\ task[p].at \in {"trust", "check"} /\ task'[p].ask = task[p].ask
            /\ task'[p].ver \in {task[p].ver, version}
            /\ task'[p].at = "store" => task'[p].ver = version
        BY <1>2, <3>2, QuietMoves
      <4>2. task[p].ask \in Asks
        BY <4>1, TaskKinds DEF ApprovalTask
      <4>3. ask[task[p].ask] # NoAsk /\ task[p].ver <= version
        BY <1>0, <4>1 DEF ApprovalsKnow
      <4> QED
        BY <1>0, <3>2, <4>1, <4>2, <4>3
    <3> QED
      BY <1>2, <3>1, <3>2, QuietMoves
  <2> QED
    BY <2>0, <2>1, AskStays
<1>3. CASE \E d \in Devices : task'[p] = [at |-> "active", dev |-> d]
  BY <1>3
<1>4. CASE /\ CreateUserIdentityKeyDeviceEnvelope(p)
           /\ task'[p] = [task[p] EXCEPT !.at = "mark"]
  <2>1. /\ task'[p].at = "mark" /\ task'[p].ask = task[p].ask
        /\ task'[p].ver = task[p].ver /\ UNCHANGED <<version, ask>>
        /\ copy'[ask[task[p].ask].dev][task[p].ver] = task[p].sent
        /\ task[p].sent \in Versions /\ task[p].at = "store"
    BY <1>0, <1>4, StoreFacts
       DEF ApprovalTask, At, CreateUserIdentityKeyDeviceEnvelope
  <2>2. /\ task[p].ver <= version /\ ask[task[p].ask] # NoAsk
        /\ Open(task[p].ask) => task[p].ver = version
    BY <1>0, <2>1 DEF ApprovalsKnow, At
  <2> QED
    BY <2>1, <2>2, VersionsAreNumbers DEF Open, Pending, OpenAfter
<1>5. CASE task'[p] = Idle
  BY <1>5 DEF Idle
<1>6. \/ task'[p] \in {task[p], Idle}
      \/ Quiet /\ QuietMove(p)
      \/ \E d \in Devices : task'[p] = [at |-> "active", dev |-> d]
      \/ /\ CreateUserIdentityKeyDeviceEnvelope(p)
         /\ task'[p] = [task[p] EXCEPT !.at = "mark"]
  BY <1>0, TaskMoves
<1> QED
  BY <1>1, <1>2, <1>3, <1>4, <1>5, <1>6

\* Only a recovery takes a device that is not the approver away.
LEMMA OthersStay ==
  ASSUME TypeOK, [Next]_vars, version' = 0,
         NEW d \in Devices \ Approvers, Active(d)
  PROVE  ActiveAfter(d)
<1>1. ASSUME NEW e \in Devices, RecoverIdentityKey(e)
      PROVE  FALSE
  <2>1. version' \in Versions
    BY <1>1, RecoverFacts
  <2> QED
    BY <2>1, VersionsAreNumbers
<1>2. CASE \E e \in Devices : RemoveApproverDevice(e)
  BY <1>2, RemoveFacts DEF Active, ActiveAfter
<1>3. CASE \E p \in Tasks, e \in Devices : Register(p, e)
  BY <1>3, RegisterFacts DEF Active, ActiveAfter
<1>4. CASE UNCHANGED device
  BY <1>4 DEF Active, ActiveAfter
<1> QED
  BY <1>1, <1>2, <1>3, <1>4, StepKinds
     DEF FirstKey, CreateUserIdentityKeyDeviceEnvelope, StoreAdopted, Quiet

\* A legacy device stays one until a recovery.
LEMMA LegacyMoves ==
  ASSUME TypeOK, [Next]_vars
  PROVE  /\ account'.predates = account.predates
         /\ legacy' = legacy \/ (legacy' = {} /\ version' # 0)
         /\ escrow' = escrow \/ (escrow' = 1 /\ version' # 0)
<1>1. ASSUME NEW p \in Tasks, FirstKey(p)
      PROVE  /\ account'.predates = account.predates /\ legacy' = legacy
             /\ escrow' \in {escrow, 1} /\ version' # 0
  <2>1. account'.predates = account.predates /\ version' = 1
    BY <1>1, FirstKeyFacts
  <2> QED
    BY <1>1, <2>1 DEF FirstKey
<1>2. ASSUME NEW d \in Devices, RecoverIdentityKey(d)
      PROVE  /\ account'.predates = account.predates /\ escrow' = escrow
             /\ legacy' = {} /\ version' # 0
  <2>1. /\ account'.predates = account.predates /\ escrow' = escrow
        /\ legacy' = {} /\ version' \in Versions
    BY <1>2, RecoverFacts
  <2> QED
    BY <2>1, VersionsAreNumbers
<1>3. CASE \E d \in Devices : RemoveApproverDevice(d)
  BY <1>3, RemoveFacts
<1>4. CASE \E p \in Tasks, d \in Devices : Register(p, d)
  BY <1>4, RegisterFacts
<1> QED
  BY <1>1, <1>2, <1>3, <1>4, StepKinds
     DEF CreateUserIdentityKeyDeviceEnvelope, StoreAdopted, Quiet

\* A registration that may make the first key comes from a device that is there,
\* in an account whose legacy devices have gone with a recovery or never were.
LEMMA FoundersWaitStep ==
  ASSUME TypeOK, IdentityInv, [Next]_vars
  PROVE  FoundersWait'
<1> SUFFICES ASSUME NEW p \in Tasks,
                    task'[p].at \in {"active", "legacy", "mint", "start"}
             PROVE  /\ task'[p].at \in {"mint", "start"}
                         => task'[p].dev \notin Approvers
                    /\ version' = 0 /\ task'[p].dev \notin Approvers
                         => ActiveAfter(task'[p].dev)
                    /\ task'[p].at = "mint" /\ account'.predates => version' # 0
  BY DEF FoundersWait, Active, At, ActiveAfter
<1>0. /\ ApprovalsKnow /\ FoundersWait /\ LegacyHolds
      /\ version \in Nat /\ version' \in Nat /\ version' >= version
      /\ account'.predates = account.predates
  BY NewestVersion, VersionGrows, LegacyMoves DEF IdentityInv, TypeOK
<1>1. CASE task'[p] = task[p]
  <2>1. task[p].dev \in Devices
    BY <1>1, TaskKinds DEF DeviceTask
  <2>2. /\ task[p].at \in {"mint", "start"} => task[p].dev \notin Approvers
        /\ version = 0 /\ task[p].dev \notin Approvers => Active(task[p].dev)
        /\ task[p].at = "mint" /\ account.predates => version # 0
    BY <1>0, <1>1 DEF FoundersWait, At
  <2>3. version' = 0 => version = 0
    BY <1>0
  <2>4. version' = 0 /\ task[p].dev \notin Approvers => ActiveAfter(task[p].dev)
    BY <2>1, <2>2, <2>3, OthersStay
  <2> QED
    BY <1>0, <1>1, <2>2, <2>3, <2>4
<1>2. CASE Quiet /\ QuietMove(p) /\ task'[p] # task[p]
  <2>0. UNCHANGED <<device, version, account>>
    BY <1>2 DEF Quiet
  <2>1. CASE task'[p].at = "legacy"
    BY <1>0, <1>2, <2>0, <2>1, QuietMoves
       DEF FoundersWait, Active, ActiveAfter
  <2>2. CASE task'[p].at = "mint"
    <3>1. /\ task[p].at = "legacy" /\ task'[p].dev = task[p].dev
          /\ task[p].dev \notin Approvers /\ \A d \in Devices : ~HasLegacy(d)
      BY <1>2, <2>2, QuietMoves
    <3>2. account.predates => version # 0
      BY <1>0, <3>1 DEF LegacyHolds, HasLegacy, TypeOK, RowsOK
    <3> QED
      BY <1>0, <2>0, <2>2, <3>1, <3>2 DEF FoundersWait, Active, ActiveAfter
  <2>3. CASE task'[p].at = "start"
    <3>1. HasLegacy(task'[p].dev)
      BY <1>2, <2>3, QuietMoves
    <3> QED
      BY <1>0, <2>0, <2>3, <3>1
         DEF HasLegacy, LegacyHolds, Active, ActiveAfter
  <2> QED
    BY <1>2, <2>1, <2>2, <2>3, QuietMoves
<1>3. ASSUME NEW d \in Devices, Register(p, d),
             task'[p] = [at |-> "active", dev |-> d]
      PROVE  ActiveAfter(task'[p].dev) /\ task'[p].at = "active"
  BY <1>3, RegisterFacts DEF ActiveAfter
<1>4. CASE /\ CreateUserIdentityKeyDeviceEnvelope(p)
           /\ task'[p] = [task[p] EXCEPT !.at = "mark"]
  BY <1>0, <1>4, StoreFacts DEF ApprovalTask
<1>5. task'[p] # Idle
  BY DEF Idle
<1>6. CASE \E d \in Devices :
             Register(p, d) /\ task'[p] = [at |-> "active", dev |-> d]
  BY <1>3, <1>6
<1> QED
  BY <1>0, <1>1, <1>2, <1>4, <1>5, <1>6, TaskMoves

\* The legacy devices of an account wait for its key.
LEMMA LegacyHoldsStep ==
  ASSUME TypeOK, IdentityInv, [Next]_vars
  PROVE  LegacyHolds'
<1>0. /\ LegacyHolds /\ legacy \subseteq Devices
      /\ version \in Nat /\ version' \in Nat /\ version' >= version
  BY NewestVersion, VersionGrows DEF IdentityInv, TypeOK, RowsOK
<1>1. version' = 0 => version = 0
  BY <1>0
<1>2. ASSUME version' = 0, NEW d \in legacy'
      PROVE  Active(d)'
  BY <1>0, <1>1, <1>2, LegacyMoves, OthersStay
     DEF LegacyHolds, Active, ActiveAfter
<1> QED
  BY <1>0, <1>1, <1>2, LegacyMoves DEF LegacyHolds

\* What is in escrow is the first version.
LEMMA EscrowOfFirstStep ==
  ASSUME TypeOK, IdentityInv, [Next]_vars
  PROVE  EscrowOfFirst'
<1>0. /\ ApprovalsKnow /\ EscrowOfFirst /\ escrow \in {0, 1}
      /\ version \in Nat /\ version' \in Nat /\ version' >= version
  BY NewestVersion, VersionGrows DEF IdentityInv, TypeOK, RowsOK
<1>1. escrow' # 0 => version' # 0
  BY <1>0, LegacyMoves DEF EscrowOfFirst
<1>2. ASSUME NEW p \in Tasks, task'[p].at = "adopt"
      PROVE  escrow' = 1
  <2>1. CASE task'[p] = task[p]
    BY <1>0, <1>2, <2>1, LegacyMoves DEF EscrowOfFirst, At
  <2>2. CASE Quiet /\ QuietMove(p) /\ task'[p] # task[p]
    <3>1. ActiveEscrow
      BY <1>2, <2>2, QuietMoves
    <3> QED
      BY <1>0, <2>2, <3>1 DEF ActiveEscrow, Quiet
  <2>3. CASE /\ CreateUserIdentityKeyDeviceEnvelope(p)
             /\ task'[p] = [task[p] EXCEPT !.at = "mark"]
    BY <1>0, <1>2, <2>3, StoreFacts DEF ApprovalTask
  <2>4. task'[p] # Idle /\ \A d \in Devices : task'[p] # [at |-> "active", dev |-> d]
    BY <1>2 DEF Idle
  <2> QED
    BY <1>0, <2>1, <2>2, <2>3, <2>4, TaskMoves
<1> QED
  BY <1>1, <1>2 DEF EscrowOfFirst, At

\* A version is there before it is handed out, and what is stored for it is that
\* version of the key.
LEMMA CopiesStep ==
  ASSUME TypeOK, IdentityInv, [Next]_vars
  PROVE  NoCopyAhead' /\ EnvelopesOpen'
<1> SUFFICES ASSUME NEW d \in Devices, NEW v \in Versions
             PROVE  copy'[d][v] = 0 \/ (copy'[d][v] = v /\ v <= version')
  BY DEF NoCopyAhead, EnvelopesOpen
<1>0. /\ ApprovalsKnow /\ SentMatches /\ EscrowOfFirst
      /\ version \in Nat /\ version' \in Nat /\ version' >= version /\ v \in Nat
      /\ v # 0
  BY NewestVersion, VersionGrows, VersionsAreNumbers DEF IdentityInv, TypeOK
<1>1. copy[d][v] = 0 \/ (copy[d][v] = v /\ v <= version)
  BY DEF IdentityInv, NoCopyAhead, EnvelopesOpen
<1>2. CASE copy'[d][v] = copy[d][v]
  BY <1>0, <1>1, <1>2
<1>3. ASSUME NEW p \in Tasks, FirstKey(p), copy'[d][v] # copy[d][v]
      PROVE  copy'[d][v] = v /\ v <= version'
  <2>1. version' = 1 /\ copy'[d][v] = 1 /\ v = 1
    BY <1>3, FirstKeyFacts
  <2> QED
    BY <2>1
<1>4. ASSUME NEW p \in Tasks, CreateUserIdentityKeyDeviceEnvelope(p),
             copy'[d][v] # copy[d][v]
      PROVE  copy'[d][v] = v /\ v <= version
  <2>1. copy'[d][v] = task[p].sent /\ v = task[p].ver
    BY <1>0, <1>4, StoreTakesOne
  <2>2. At(p, "store")
    BY <1>4 DEF CreateUserIdentityKeyDeviceEnvelope
  <2> QED
    BY <1>0, <2>1, <2>2 DEF SentMatches, ApprovalsKnow, At
<1>5. ASSUME NEW p \in Tasks, StoreAdopted(p), copy'[d][v] # copy[d][v]
      PROVE  copy'[d][v] = v /\ v <= version
  <2>1. copy'[d][v] = 1 /\ v = 1 /\ escrow = 1
    BY <1>0, <1>5, AdoptFacts
  <2> QED
    BY <1>0, <2>1 DEF EscrowOfFirst
<1>6. ASSUME NEW e \in Devices, RecoverIdentityKey(e)
      PROVE  copy'[d][v] = 0 \/ (copy'[d][v] = v /\ v <= version')
  <2>1. copy'[d][v] = 0 \/ (copy'[d][v] = version' /\ v = version')
    BY <1>6, RecoverCopies
  <2> QED
    BY <1>0, <2>1
<1>7. ASSUME NEW e \in Devices, RemoveApproverDevice(e)
      PROVE  copy'[d][v] \in {0, copy[d][v]}
  BY <1>7, RemoveFacts
<1>8. CASE \E p \in Tasks, e \in Devices : Register(p, e)
  BY <1>2, <1>8, RegisterFacts
<1>9. CASE Quiet
  BY <1>2, <1>9 DEF Quiet
<1>10. v <= version => v <= version'
  BY <1>0
<1> QED
  BY <1>2, <1>3, <1>4, <1>5, <1>6, <1>7, <1>8, <1>9, <1>10, StepKinds

\* Whoever makes a version is active and holds it; only the approver can be
\* removed.
LEMMA KeyHasHolderStep ==
  ASSUME TypeOK, IdentityInv, [Next]_vars
  PROVE  KeyHasHolder'
<1> SUFFICES ASSUME version' # 0
             PROVE  \E d \in Devices \ Approvers :
                      copy'[d][version'] # 0 /\ ActiveAfter(d)
  BY DEF KeyHasHolder, Holds, Active, ActiveAfter
<1>0. ApprovalsKnow /\ EscrowOfFirst /\ FoundersWait /\ KeyHasHolder
  BY DEF IdentityInv
<1>1. ASSUME NEW p \in Tasks, FirstKey(p)
      PROVE  \E d \in Devices \ Approvers :
               copy'[d][version'] # 0 /\ ActiveAfter(d)
  <2>1. /\ task[p].dev \in Devices /\ version = 0 /\ version' = 1
        /\ copy'[task[p].dev][1] = 1
    BY <1>1, FirstKeyFacts
  <2>2. task[p].dev \notin Approvers /\ Active(task[p].dev) /\ device' = device
    BY <1>0, <1>1, <2>1 DEF FirstKey, FoundersWait
  <2> QED
    BY <2>1, <2>2 DEF Active, ActiveAfter
<1>2. ASSUME NEW d \in Devices, RecoverIdentityKey(d)
      PROVE  d \notin Approvers /\ copy'[d][version'] # 0 /\ ActiveAfter(d)
  <2>1. /\ d \notin Approvers /\ version' \in Versions
        /\ device'[d] = "active"
    BY <1>2, RecoverFacts
  <2>2. copy'[d][version'] = version'
    BY <1>2, <2>1, RecoverFacts
  <2> QED
    BY <2>1, <2>2 DEF ActiveAfter
<1>3. ASSUME version' = version
      PROVE  \E d \in Devices \ Approvers :
               copy'[d][version'] # 0 /\ ActiveAfter(d)
  <2>0. version \in Versions
    BY <1>3, NewestVersion DEF TypeOK
  <2>1. PICK d \in Devices \ Approvers : copy[d][version] # 0 /\ Active(d)
    BY <1>0, <1>3 DEF KeyHasHolder, Holds
  <2>2. CASE \E p \in Tasks : FirstKey(p)
    BY <1>1, <2>2
  <2>3. CASE \E e \in Devices : RecoverIdentityKey(e)
    BY <1>2, <2>3
  <2>4. ASSUME NEW p \in Tasks, CreateUserIdentityKeyDeviceEnvelope(p)
        PROVE  copy'[d][version] # 0 /\ ActiveAfter(d)
    <3>1. task[p].sent \in Versions
      BY <1>0, <2>4, StoreFacts DEF ApprovalTask
    <3>2. copy'[d][version] \in {copy[d][version], task[p].sent}
      BY <1>0, <2>0, <2>4, StoreTakesOne
    <3>3. 0 \notin Versions
      BY VersionsAreNumbers
    <3> QED
      BY <2>1, <2>4, <3>1, <3>2, <3>3
         DEF CreateUserIdentityKeyDeviceEnvelope, Active, ActiveAfter
  <2>5. ASSUME NEW p \in Tasks, StoreAdopted(p)
        PROVE  copy'[d][version] # 0 /\ ActiveAfter(d)
    <3>1. copy'[d][version] \in {1, copy[d][version]}
      BY <1>0, <2>0, <2>5, AdoptFacts
    <3> QED
      BY <2>1, <2>5, <3>1 DEF StoreAdopted, Active, ActiveAfter
  <2>6. ASSUME NEW e \in Devices, RemoveApproverDevice(e)
        PROVE  copy'[d][version] # 0 /\ ActiveAfter(d)
    BY <2>0, <2>1, <2>6, RemoveFacts DEF Active, ActiveAfter
  <2>7. CASE \E p \in Tasks, e \in Devices : Register(p, e)
    <3>1. copy' = copy /\ ActiveAfter(d)
      BY <2>1, <2>7, RegisterFacts DEF Active, ActiveAfter
    <3> QED
      BY <1>3, <2>1, <3>1
  <2>8. CASE Quiet
    BY <1>3, <2>1, <2>8 DEF Quiet, Active, ActiveAfter
  <2> QED
    BY <1>3, <2>2, <2>3, <2>4, <2>5, <2>6, <2>7, <2>8, StepKinds
<1> QED
  BY <1>1, <1>2, <1>3, VersionGrows

\* A registration does not get as far as the key of an account that has legacy
\* devices.
LEMMA FoundedByOwnerStep ==
  ASSUME TypeOK, IdentityInv, [Next]_vars
  PROVE  FoundedByOwner'
<1>0. FoundedByOwner /\ FoundersWait
  BY DEF IdentityInv
<1>1. CASE account' = account
  BY <1>0, <1>1 DEF FoundedByOwner
<1>2. ASSUME NEW p \in Tasks, FirstKey(p)
      PROVE  FoundedByOwner'
  <2>1. /\ version = 0 /\ account'.predates = account.predates
        /\ account'.founded = "register"
             => account.founded = "register" \/ At(p, "mint")
    BY <1>2, FirstKeyFacts
  <2>2. At(p, "mint") /\ account.predates => version # 0
    BY <1>0 DEF FoundersWait, At
  <2> QED
    BY <1>0, <2>1, <2>2 DEF FoundedByOwner
<1>3. ASSUME NEW d \in Devices, RecoverIdentityKey(d)
      PROVE  FoundedByOwner'
  BY <1>0, <1>3, RecoverFacts DEF FoundedByOwner
<1>4. CASE \E d \in Devices : RemoveApproverDevice(d)
  BY <1>1, <1>4, RemoveFacts
<1>5. CASE \E p \in Tasks, d \in Devices : Register(p, d)
  BY <1>1, <1>5, RegisterFacts
<1> QED
  BY <1>1, <1>2, <1>3, <1>4, <1>5, StepKinds
     DEF CreateUserIdentityKeyDeviceEnvelope, StoreAdopted, Quiet

----------------------------------------------------------------------------
(* The theorems *)

\* Types and invariant hold at the start.
LEMMA InitCorrect == Init => TypeOK /\ IdentityInv
<1> SUFFICES ASSUME Init
             PROVE  TypeOK /\ IdentityInv
  OBVIOUS
<1>1. 0 \in DeviceEnvelope /\ MaxVersion \in Nat
  BY MaxVersionAssumption DEF DeviceEnvelope
<1>2. copy \in [Devices -> [Versions -> DeviceEnvelope]]
  BY <1>1 DEF Init
<1>3. RowsOK
  <2>1. device \in [Devices -> UserDevice] /\ legacy \subseteq Devices
    BY LegacyAssumption DEF Init, UserDevice
  <2>2. version \in 0 .. MaxVersion /\ escrow \in {0, 1}
    <3>1. version = 0 /\ escrow = 0
      BY DEF Init
    <3> QED
      BY <1>1, <3>1
  <2>3. /\ ask \in [Asks -> {NoAsk} \cup DeviceEnrollment]
        /\ knows \in [Devices -> SUBSET Versions]
    BY DEF Init
  <2>4. account \in [predates: BOOLEAN,
                     founded: {"", "register", "migration", "recovery"}]
    BY DEF Init
  <2> QED
    BY <1>2, <2>1, <2>2, <2>3, <2>4 DEF RowsOK
<1>4. task \in [Tasks -> TaskState] /\ \A p \in Tasks : task[p] = Idle
  BY DEF Init, TaskState
<1>5. SentMatches /\ ApprovalsKnow /\ FoundersWait /\ EscrowOfFirst
  BY <1>4 DEF Init, SentMatches, ApprovalsKnow, FoundersWait, EscrowOfFirst,
              At, Idle
<1>6. LegacyHolds
  BY LegacyAssumption DEF Init, LegacyHolds, Active
<1>7. \A d \in Devices, v \in Versions : copy[d][v] = 0
  BY DEF Init
<1>8. NoCopyAhead /\ EnvelopesOpen /\ KeyHasHolder /\ FoundedByOwner
  BY <1>7 DEF Init, NoCopyAhead, EnvelopesOpen, KeyHasHolder, FoundedByOwner
<1> QED
  BY <1>3, <1>4, <1>5, <1>6, <1>8 DEF TypeOK, IdentityInv

\* The invariant holds after every step.
LEMMA StepCorrect ==
  ASSUME TypeOK, IdentityInv, [Next]_vars
  PROVE  TypeOK' /\ IdentityInv'
BY StepTypes, SentMatchesStep, ApprovalsKnowStep, FoundersWaitStep,
   LegacyHoldsStep, EscrowOfFirstStep, CopiesStep, KeyHasHolderStep,
   FoundedByOwnerStep
   DEF IdentityInv

\* Devices, copies, enrollments and requests keep their types, and every part of
\* the invariant holds, whatever requests run beside each other.
THEOREM IdentityCorrect == Spec => [](TypeOK /\ IdentityInv)
<1>1. TypeOK /\ IdentityInv /\ [Next]_vars => (TypeOK /\ IdentityInv)'
  BY StepCorrect
<1> QED
  BY <1>1, InitCorrect, PTL DEF Spec

\* A stored copy is of the version it is stored for, so that the device it was
\* approved for can open what is shared with the account.
THEOREM CopiesOpen == Spec => []EnvelopesOpen
BY IdentityCorrect, PTL DEF IdentityInv

\* As long as an account has a key, a device that cannot be removed behind the
\* user's back is active and holds it.
THEOREM KeyIsKept == Spec => []KeyHasHolder
BY IdentityCorrect, PTL DEF IdentityInv

\* Nobody who merely registers makes the key of an account with legacy keys.
THEOREM OwnersFound == Spec => []FoundedByOwner
BY IdentityCorrect, PTL DEF IdentityInv

\* A device that reads that it was approved finds its copy of the active key,
\* whatever recovery, removal, rejection or expiry ran beside the approval.
THEOREM ApprovalsCarryKeys == Spec => ApprovedWithKey
<1>1. ASSUME TypeOK, IdentityInv, [Next]_vars
      PROVE  [\A e \in Asks :
                ask'[e].status = "approved" /\ ask[e].status # "approved"
                  => version # 0 /\ copy[ask[e].dev][version] # 0]_vars
  <2> SUFFICES ASSUME NEW e \in Asks, ask'[e].status = "approved",
                      ask[e].status # "approved"
               PROVE  version # 0 /\ copy[ask[e].dev][version] # 0
    OBVIOUS
  <2>1. AskMove(e)
    BY <1>1, AsksMoveStep DEF AsksMove
  <2>2. PICK p \in Tasks : At(p, "mark") /\ task[p].ask = e /\ Open(e)
    BY <2>1 DEF AskMove
  <2>3. task[p].ver \in Versions /\ task[p].ver <= version
    BY <1>1, <2>2, TaskKinds DEF IdentityInv, ApprovalsKnow, ApprovalTask, At
  <2>4. version # 0
    BY <1>1, <2>3, VersionsAreNumbers, NewestVersion DEF TypeOK
  <2> QED
    BY <1>1, <2>2, <2>4 DEF IdentityInv, ApprovalsKnow, At
<1> QED
  BY <1>1, IdentityCorrect, PTL DEF Spec, ApprovedWithKey

----------------------------------------------------------------------------
(* The promise: every step of the requests is a step of IdentityPromise, or *)
(* none.                                                                    *)

\* Who holds the newest version after a step, told from what it does to copies.
LEMMA HoldersAfter ==
  ASSUME NEW S, version' # 0,
         \A d \in Devices : copy'[d][version'] # 0 <=> d \in S,
         S \subseteq Devices
  PROVE  Newest' = version' /\ Holders' = S
BY DEF Newest, Holders

\* Steps that touch no copy of the newest version show nothing.
LEMMA HoldersStay ==
  ASSUME version' = version,
         version # 0 =>
           \A d \in Devices : copy'[d][version] # 0 <=> copy[d][version] # 0
  PROVE  UNCHANGED <<Newest, Holders>>
BY DEF Newest, Holders

\* The first key, and any other, starts in the hands of one device.
LEMMA FirstKeyPromised ==
  ASSUME TypeOK, IdentityInv, NEW p \in Tasks, FirstKey(p)
  PROVE  Promised!Replace(task[p].dev)
<1> DEFINE d == task[p].dev
<1>1. /\ d \in Devices /\ version = 0 /\ version' = 1 /\ copy'[d][1] = 1
      /\ \A e \in Devices, x \in Versions :
           e # d \/ x # 1 => copy'[e][x] = copy[e][x]
  BY FirstKeyFacts
<1>2. d \notin Approvers
  BY DEF IdentityInv, FoundersWait, FirstKey
<1> HIDE DEF d
<1>3. ASSUME NEW e \in Devices
      PROVE  copy'[e][version'] # 0 <=> e \in {d}
  <2>1. 1 \in Versions /\ ~(1 <= version)
    BY <1>1, VersionsAreNumbers
  <2>2. copy[e][1] = 0
    BY <2>1 DEF IdentityInv, NoCopyAhead
  <2> QED
    BY <1>1, <2>1, <2>2
<1>4. Newest' = 1 /\ Holders' = {d} /\ Newest = 0
  BY <1>1, <1>3, HoldersAfter DEF Newest
<1> QED
  BY <1>2, <1>4 DEF Promised!Replace, d

\* A recovery starts the next version the same way.
LEMMA RecoveryPromised ==
  ASSUME TypeOK, NEW d \in Devices, RecoverIdentityKey(d)
  PROVE  Promised!Replace(d)
<1>1. /\ d \notin Approvers /\ version' = version + 1 /\ version' \in Versions
      /\ \A e \in Devices, w \in Versions :
           copy'[e][w] = IF e = d /\ w = version' THEN version' ELSE 0
  BY RecoverFacts
<1>2. version' # 0
  BY <1>1, VersionsAreNumbers
<1>3. \A e \in Devices : copy'[e][version'] # 0 <=> e \in {d}
  BY <1>1, <1>2
<1>4. Newest' = version' /\ Holders' = {d}
  BY <1>2, <1>3, HoldersAfter
<1> QED
  BY <1>1, <1>4 DEF Promised!Replace, Newest

\* An approval or an adoption hands the newest version on, or stores an old one.
LEMMA HandOnPromised ==
  ASSUME TypeOK, NEW d \in Devices, NEW v \in Versions, version' = version,
         copy'[d][v] # 0,
         \A e \in Devices, x \in Versions :
           e # d \/ x # v => copy'[e][x] = copy[e][x]
  PROVE  Promised!HandOn(d) \/ UNCHANGED <<Newest, Holders>>
<1>1. CASE v = version
  <2>1. version # 0 /\ version > 0
    BY <1>1, VersionsAreNumbers
  <2>2. \A e \in Devices : copy'[e][version'] # 0 <=> e \in Holders \cup {d}
    BY <1>1, <2>1 DEF Holders
  <2>3. Newest' = version' /\ Holders' = Holders \cup {d}
    BY <2>1, <2>2, HoldersAfter DEF Holders
  <2> QED
    BY <2>1, <2>3 DEF Promised!HandOn, Newest
<1>2. CASE v # version
  <2>1. version # 0 =>
          \A e \in Devices : copy'[e][version] # 0 <=> copy[e][version] # 0
    BY <1>2, NewestVersion DEF TypeOK
  <2> QED
    BY <2>1, HoldersStay
<1> QED
  BY <1>1, <1>2

\* The approver hands its copy back when it is removed.
LEMMA RemovalPromised ==
  ASSUME TypeOK, NEW d \in Devices, RemoveApproverDevice(d)
  PROVE  Promised!HandBack(d) \/ UNCHANGED <<Newest, Holders>>
<1>1. /\ d \in Approvers /\ version' = version
      /\ \A v \in Versions : copy'[d][v] = 0
      /\ \A e \in Devices \ {d}, v \in Versions : copy'[e][v] = copy[e][v]
  BY RemoveFacts
<1>2. CASE version = 0
  BY <1>1, <1>2, HoldersStay
<1>3. CASE version # 0
  <2>1. version \in Versions
    BY <1>3, NewestVersion DEF TypeOK
  <2>2. \A e \in Devices : copy'[e][version'] # 0 <=> e \in Holders \ {d}
    BY <1>1, <1>3, <2>1 DEF Holders
  <2>3. Newest' = version' /\ Holders' = Holders \ {d}
    BY <1>1, <1>3, <2>2, HoldersAfter DEF Holders
  <2> QED
    BY <1>1, <2>3 DEF Promised!HandBack, Newest
<1> QED
  BY <1>2, <1>3

\* Nothing but a recovery or the first key replaces the identity key, into the
\* hands of one device that is not the approver; only the approver loses its copy.
THEOREM PromiseKept == Spec => KeepsIdentityPromise
<1>1. Init => Promised!IdentityInit
  BY DEF Init, Promised!IdentityInit, Newest, Holders
<1>2. ASSUME TypeOK, IdentityInv, [Next]_vars
      PROVE  [Promised!IdentityNext]_<<Newest, Holders>>
  <2>0. ApprovalsKnow /\ EscrowOfFirst
    BY <1>2 DEF IdentityInv
  <2>1. ASSUME NEW p \in Tasks, FirstKey(p)
        PROVE  Promised!IdentityNext
    BY <1>2, <2>1, FirstKeyFacts, FirstKeyPromised DEF Promised!IdentityNext
  <2>2. ASSUME NEW p \in Tasks, CreateUserIdentityKeyDeviceEnvelope(p)
        PROVE  Promised!IdentityNext \/ UNCHANGED <<Newest, Holders>>
    <3> DEFINE d == ask[task[p].ask].dev
               v == task[p].ver
    <3>1. /\ d \in Devices /\ v \in Versions /\ task[p].sent \in Versions
          /\ copy'[d][v] = task[p].sent
          /\ \A e \in Devices, x \in Versions :
               e # d \/ x # v => copy'[e][x] = copy[e][x]
      BY <1>2, <2>0, <2>2, StoreFacts DEF ApprovalTask
    <3>2. version' = version
      BY <2>2 DEF CreateUserIdentityKeyDeviceEnvelope
    <3>4. copy'[d][v] # 0
      BY <3>1, VersionsAreNumbers
    <3> HIDE DEF d, v
    <3> QED
      BY <1>2, <3>1, <3>2, <3>4, HandOnPromised DEF Promised!IdentityNext
  <2>3. ASSUME NEW p \in Tasks, StoreAdopted(p)
        PROVE  Promised!IdentityNext \/ UNCHANGED <<Newest, Holders>>
    <3> DEFINE d == task[p].dev
    <3>1. /\ d \in Devices /\ copy'[d][1] # 0
          /\ \A e \in Devices, x \in Versions :
               e # d \/ x # 1 => copy'[e][x] = copy[e][x]
      BY <1>2, <2>0, <2>3, AdoptFacts
    <3>2. version' = version /\ 1 \in Versions
      BY <2>3, VersionsAreNumbers DEF StoreAdopted
    <3> HIDE DEF d
    <3> QED
      BY <1>2, <3>1, <3>2, HandOnPromised DEF Promised!IdentityNext
  <2>4. ASSUME NEW d \in Devices, RecoverIdentityKey(d)
        PROVE  Promised!IdentityNext
    BY <1>2, <2>4, RecoveryPromised DEF Promised!IdentityNext
  <2>5. ASSUME NEW d \in Devices, RemoveApproverDevice(d)
        PROVE  Promised!IdentityNext \/ UNCHANGED <<Newest, Holders>>
    BY <1>2, <2>5, RemovalPromised DEF Promised!IdentityNext
  <2>6. CASE \E p \in Tasks, d \in Devices : Register(p, d)
    <3>1. UNCHANGED <<version, copy>>
      BY <1>2, <2>6, RegisterFacts
    <3> QED
      BY <3>1, HoldersStay
  <2>7. CASE Quiet
    BY <2>7, HoldersStay DEF Quiet
  <2> QED
    BY <1>2, <2>1, <2>2, <2>3, <2>4, <2>5, <2>6, <2>7, StepKinds
<1> QED
  BY <1>1, <1>2, IdentityCorrect, PTL
     DEF Spec, KeepsIdentityPromise, Promised!Identity
==============================================================================
