--------------------------- MODULE Tunnels_proofs ---------------------------
(***************************************************************************)
(* A quick share tunnel, for any joiners, users, keys and number of rows:  *)
(* who was declined stays out, an envelope fits its participant, and the   *)
(* tunnel and its files outlive everybody who was in it before the last    *)
(* participant was counted out.                                            *)
(***************************************************************************)
EXTENDS Tunnels, TLAPS

\* What the constants say of one another.
LEMMA Constants ==
  /\ None \notin Devices /\ None \notin Keys /\ Host \notin Devices
  /\ None \notin Leavers
  /\ 0 \notin 1 .. MaxRows /\ MaxRows \in Nat
BY NoneAssumption, MaxRowsAssumption DEF Leavers

----------------------------------------------------------------------------
(* Types *)

\* Entering a row keeps its type.
LEMMA EntryTypes ==
  ASSUME TypeOK, NEW d \in Devices, join[d].at = "locked", join[d].key \in Keys,
         EnterRow(d)
  PROVE  /\ row' \in [Devices -> {NoRow} \cup [id: 1 .. MaxRows, key: Keys,
                                              approved: BOOLEAN]]
         /\ issued' \in 0 .. MaxRows
<1>1. CASE Present(d)
  <2>1. row[d] \in [id: 1 .. MaxRows, key: Keys, approved: BOOLEAN]
    BY <1>1 DEF Present, NoRow, TypeOK
  <2> QED
    BY <1>1, <2>1 DEF EnterRow, TypeOK
<1>2. CASE ~Present(d)
  <2>1. issued' = issued + 1 /\ issued < MaxRows /\ issued \in 0 .. MaxRows
        /\ row' = [row EXCEPT ![d] = [id |-> issued', key |-> join[d].key,
                                     approved |-> FALSE]]
    BY <1>2 DEF EnterRow, TypeOK
  <2>2. issued' \in 1 .. MaxRows
    BY <2>1, MaxRowsAssumption
  <2> QED
    BY <2>1, <2>2, MaxRowsAssumption DEF TypeOK
<1> QED
  BY <1>1, <1>2

\* A join that is under way has a key.
JoinKeys == \A d \in Devices : join[d].at # "idle" => join[d].key \in Keys

\* Joining keeps the types.
LEMMA JoinTypes ==
  ASSUME TypeOK, JoinKeys, NEW d \in Devices,
         (\E k \in Keys : Join(d, k)) \/ Joining(d) \/ JoinFails(d)
  PROVE  TypeOK'
<1> USE DEF TypeOK, tunnel, members, files, history
<1>1. ASSUME NEW k \in Keys, Join(d, k)
      PROVE  TypeOK'
  BY <1>1 DEF Join
<1>2. CASE LockTunnel(d)
  BY <1>2 DEF LockTunnel, NoJoin
<1>3. CASE JoinTunnel(d)
  <2>1. join[d].key \in Keys /\ join[d].at = "locked" /\ EnterRow(d)
    BY <1>3 DEF JoinTunnel, JoinKeys
  <2>2. /\ row' \in [Devices -> {NoRow} \cup [id: 1 .. MaxRows, key: Keys,
                                             approved: BOOLEAN]]
        /\ issued' \in 0 .. MaxRows
    BY <2>1, EntryTypes
  <2> QED
    BY <1>3, <2>2 DEF JoinTunnel, Entered, NoJoin
<1>4. CASE JoinFails(d)
  BY <1>4 DEF JoinFails, NoJoin
<1> QED
  BY <1>1, <1>2, <1>3, <1>4 DEF Joining

\* What the host and its page do keeps the types.
LEMMA HostTypes ==
  ASSUME TypeOK, NEW d \in Devices,
         \/ \E id \in 1 .. MaxRows :
              ApproveParticipant(d, id) \/ RejectParticipant(d, id)
         \/ RejectTunnelParticipant(d)
         \/ GetParticipantPublicKeys(d) \/ Pushing(d)
         \/ RejectFails \/ PushFails
  PROVE  TypeOK'
<1> USE DEF TypeOK, tunnel, members, files, history
<1>1. ASSUME NEW id \in 1 .. MaxRows, ApproveParticipant(d, id)
      PROVE  TypeOK'
  <2>1. row[d] \in [id: 1 .. MaxRows, key: Keys, approved: BOOLEAN]
    BY <1>1, Constants DEF ApproveParticipant, NoRow
  <2>2. row' \in [Devices -> {NoRow} \cup [id: 1 .. MaxRows, key: Keys,
                                           approved: BOOLEAN]]
    BY <1>1, <2>1 DEF ApproveParticipant
  <2>3. UNCHANGED <<tunnel, hostIn, issued, declined, envelope, files, lock, join,
                    reject, push, leave, history>>
    BY <1>1 DEF ApproveParticipant
  <2> QED
    BY <2>2, <2>3
<1>2. ASSUME NEW id \in 1 .. MaxRows, RejectParticipant(d, id)
      PROVE  TypeOK'
  BY <1>2 DEF RejectParticipant
<1>3. CASE RejectTunnelParticipant(d)
  BY <1>3 DEF RejectTunnelParticipant, NoReject
<1>4. CASE GetParticipantPublicKeys(d)
  <2>1. row[d].key \in Keys
    BY <1>4 DEF GetParticipantPublicKeys, Present, NoRow
  <2> QED
    BY <1>4, <2>1 DEF GetParticipantPublicKeys
<1>5. CASE PushParticipantEnvelope(d)
  BY <1>5 DEF PushParticipantEnvelope, NoPush
<1>6. CASE SaveTunnelParticipantEnvelope(d)
  BY <1>6 DEF SaveTunnelParticipantEnvelope, NoPush
<1>7. CASE RejectFails
  BY <1>7 DEF RejectFails, NoReject
<1>8. CASE PushFails
  BY <1>8 DEF PushFails, NoPush
<1> QED
  BY <1>1, <1>2, <1>3, <1>4, <1>5, <1>6, <1>7, <1>8 DEF Pushing

\* Leaving keeps the types.
LEMMA LeaveTypes ==
  ASSUME TypeOK, NEW x \in Leavers,
         RemoveTunnelParticipant(x) \/ Leaving(x) \/ LeaveFails(x)
  PROVE  TypeOK'
<1> USE DEF TypeOK, tunnel, members, files, history
<1>1. CASE RemoveTunnelParticipant(x)
  <2>1. row' \in [Devices -> {NoRow} \cup [id: 1 .. MaxRows, key: Keys,
                                          approved: BOOLEAN]]
        /\ hostIn' \in BOOLEAN
    BY <1>1 DEF RemoveTunnelParticipant
  <2>2. leave' = [leave EXCEPT ![x] = "count"]
    BY <1>1 DEF RemoveTunnelParticipant
  <2>3. UNCHANGED <<tunnel, issued, declined, envelope, files, lock, join, reject,
                    push, history>>
    BY <1>1 DEF RemoveTunnelParticipant
  <2> QED
    BY <2>1, <2>2, <2>3
<1>2. CASE CountTunnelParticipants(x)
  <2>1. leave' \in [Leavers -> {"idle", "count", "blobs", "drop"}]
    BY <1>2 DEF CountTunnelParticipants
  <2>2. UNCHANGED <<tunnel, members, envelope, files, lock, join, reject, push,
                    history>>
    BY <1>2 DEF CountTunnelParticipants
  <2> QED
    BY <2>1, <2>2
<1>3. CASE DeleteBlobs(x)
  BY <1>3 DEF DeleteBlobs
<1>4. CASE DeleteTunnel(x)
  BY <1>4 DEF DeleteTunnel
<1>5. CASE LeaveFails(x)
  BY <1>5 DEF LeaveFails
<1> QED
  BY <1>1, <1>2, <1>3, <1>4, <1>5 DEF Leaving

\* Every step keeps the types, and the key of a join under way.
LEMMA TypeStep ==
  ASSUME TypeOK, JoinKeys, [Next]_vars
  PROVE  TypeOK' /\ JoinKeys'
<1>1. JoinKeys'
  <2>1. ASSUME NEW d \in Devices, join'[d] # join[d], join'[d].at # "idle"
        PROVE  join'[d].key \in Keys
    BY <2>1 DEF JoinKeys, TypeOK, Next, vars, tunnel, members, files, history,
                Join, Joining, LockTunnel, JoinTunnel, Entered, JoinFails,
                NoJoin, ApproveParticipant, RejectParticipant,
                RejectTunnelParticipant, GetParticipantPublicKeys, Pushing,
                PushParticipantEnvelope, SaveTunnelParticipantEnvelope,
                RejectFails, PushFails, Confirm, ConfirmTunnel, Finalize,
                CreateFile, RemoveTunnelParticipant, Leaving,
                CountTunnelParticipants, DeleteBlobs, DeleteTunnel,
                LeaveFails, EndTunnel, Expire
  <2> QED
    BY <2>1 DEF JoinKeys
<1>2. TypeOK'
  <2>1. CASE UNCHANGED vars
    BY <2>1 DEF vars, tunnel, members, files, history, TypeOK
  <2>2. CASE Confirm \/ Finalize \/ CreateFile \/ EndTunnel \/ Expire
    BY <2>2 DEF Confirm, ConfirmTunnel, Finalize, CreateFile, EndTunnel,
                Expire, TypeOK, tunnel, members, files, history
  <2>3. CASE RejectFails \/ PushFails
    BY <2>3 DEF RejectFails, PushFails, NoReject, NoPush, TypeOK, tunnel,
                members, files, history
  <2> QED
    BY <2>1, <2>2, <2>3, JoinTypes, HostTypes, LeaveTypes DEF Next
<1> QED
  BY <1>1, <1>2

----------------------------------------------------------------------------
(* How the tunnel moves *)

\* The lock is taken by a join whose user is not declined, when it is free.
LEMMA LockMoves ==
  ASSUME TypeOK, LockInv, [Next]_vars
  PROVE  /\ lock' # lock /\ lock' # None =>
              /\ lock = None /\ lock' \in Devices /\ ~Declined(lock')
              /\ declined' = declined
         /\ \A d \in Devices : join'[d].at = "locked" =>
              lock' = d /\ (join[d].at = "locked" \/ lock = None)
BY Constants DEF LockInv, TypeOK, Next, vars, tunnel, members, files, history,
                 Join, Joining, LockTunnel, JoinTunnel, EnterRow, Entered,
                 JoinFails, NoJoin, ApproveParticipant, RejectParticipant,
                 RejectTunnelParticipant, GetParticipantPublicKeys, Pushing,
                 PushParticipantEnvelope, SaveTunnelParticipantEnvelope,
                 RejectFails, PushFails, Confirm, ConfirmTunnel, Finalize,
                 CreateFile, RemoveTunnelParticipant, Leaving,
                 CountTunnelParticipants, DeleteBlobs, DeleteTunnel,
                 LeaveFails, EndTunnel, Expire

\* Declining waits for a lock, and takes the row along.
LEMMA DeclinedMoves ==
  ASSUME TypeOK, [Next]_vars
  PROVE  \A d \in declined' \ declined :
           d \in Devices /\ lock = None /\ lock' = None /\ ~Present(d)'
BY DEF Present, NoRow, TypeOK, Next, vars, tunnel, members, files, history,
       Join, Joining, LockTunnel, JoinTunnel, EnterRow, Entered, JoinFails,
       NoJoin, ApproveParticipant, RejectParticipant, RejectTunnelParticipant,
       GetParticipantPublicKeys, Pushing, PushParticipantEnvelope,
       SaveTunnelParticipantEnvelope, RejectFails, PushFails, Confirm,
       ConfirmTunnel, Finalize, CreateFile, RemoveTunnelParticipant, Leaving,
       CountTunnelParticipants, DeleteBlobs, DeleteTunnel, LeaveFails,
       EndTunnel, Expire

\* Five steps move rows.
LEMMA RowSteps ==
  ASSUME [Next]_vars
  PROVE  \/ UNCHANGED <<row, raced>>
         \/ \E d \in Devices : JoinTunnel(d) \/ RejectTunnelParticipant(d)
         \/ \E d \in Devices, id \in 1 .. MaxRows : ApproveParticipant(d, id)
         \/ \E x \in Leavers : RemoveTunnelParticipant(x) \/ DeleteTunnel(x)
BY DEF Next, vars, tunnel, members, files, history, Join, Joining, LockTunnel,
       JoinFails, RejectParticipant, GetParticipantPublicKeys, Pushing,
       PushParticipantEnvelope, SaveTunnelParticipantEnvelope, RejectFails,
       PushFails, Confirm, ConfirmTunnel, Finalize, CreateFile, Leaving,
       CountTunnelParticipants, DeleteBlobs, LeaveFails, EndTunnel, Expire

\* A row is entered under the lock, gets approved, or goes.
LEMMA RowMoves ==
  ASSUME TypeOK, [Next]_vars, NEW d \in Devices
  PROVE  \/ row'[d] = row[d] /\ (d \in raced' <=> d \in raced)
         \/ row'[d] = NoRow
         \/ /\ Present(d)
            /\ row'[d].key = row[d].key /\ row'[d].approved
            /\ UNCHANGED <<envelope, push, raced>>
         \/ JoinTunnel(d)
<1>1. CASE UNCHANGED <<row, raced>>
  BY <1>1
<1>2. ASSUME NEW e \in Devices, JoinTunnel(e)
      PROVE  JoinTunnel(d) \/ (row'[d] = row[d] /\ (d \in raced' <=> d \in raced))
  BY <1>2 DEF JoinTunnel, EnterRow, Entered, TypeOK
<1>3. ASSUME NEW e \in Devices, RejectTunnelParticipant(e)
      PROVE  row'[d] = NoRow \/ (row'[d] = row[d] /\ UNCHANGED raced)
  BY <1>3 DEF RejectTunnelParticipant, history, TypeOK
<1>4. ASSUME NEW e \in Devices, NEW id \in 1 .. MaxRows, ApproveParticipant(e, id)
      PROVE  \/ row'[d] = row[d] /\ UNCHANGED raced
             \/ /\ Present(d)
                /\ row'[d].key = row[d].key /\ row'[d].approved
                /\ UNCHANGED <<envelope, push, raced>>
  <2>1. row[e] \in [id: 1 .. MaxRows, key: Keys, approved: BOOLEAN]
    BY <1>4, Constants DEF ApproveParticipant, NoRow, TypeOK
  <2>2. CASE d = e
    BY <1>4, <2>1, <2>2, Constants
       DEF ApproveParticipant, Present, history, TypeOK
  <2>3. CASE d # e
    BY <1>4, <2>3 DEF ApproveParticipant, history, TypeOK
  <2> QED
    BY <2>2, <2>3
<1>5. ASSUME NEW x \in Leavers, RemoveTunnelParticipant(x)
      PROVE  row'[d] = NoRow \/ (row'[d] = row[d] /\ UNCHANGED raced)
  BY <1>5 DEF RemoveTunnelParticipant, history
<1>6. ASSUME NEW x \in Leavers, DeleteTunnel(x)
      PROVE  row'[d] = NoRow
  BY <1>6 DEF DeleteTunnel
<1> QED
  BY <1>1, <1>2, <1>3, <1>4, <1>5, <1>6, RowSteps

\* An envelope is stored by the push that is under way, or goes.
LEMMA EnvelopeMoves ==
  ASSUME TypeOK, [Next]_vars, NEW d \in Devices
  PROVE  \/ envelope'[d] = envelope[d] \/ envelope'[d] = None
         \/ /\ SaveTunnelParticipantEnvelope(d)
            /\ envelope'[d] = push.key /\ UNCHANGED <<row, raced>>
BY DEF TypeOK, Next, vars, tunnel, members, files, history, Join, Joining,
       LockTunnel, JoinTunnel, Entered, JoinFails, ApproveParticipant,
       RejectParticipant, RejectTunnelParticipant, GetParticipantPublicKeys,
       Pushing, PushParticipantEnvelope, SaveTunnelParticipantEnvelope,
       RejectFails, PushFails, Confirm, ConfirmTunnel, Finalize, CreateFile,
       RemoveTunnelParticipant, Leaving, CountTunnelParticipants, DeleteBlobs,
       DeleteTunnel, LeaveFails, EndTunnel, Expire

\* The page wraps a key it has read.
LEMMA PushMoves ==
  ASSUME TypeOK, [Next]_vars, push'.at # "idle"
  PROVE  \/ /\ push.at # "idle" /\ push'.dev = push.dev /\ push'.key = push.key
         \/ \E d \in Devices :
              /\ Present(d) /\ row[d].approved
              /\ push' = [at |-> "read", dev |-> d, key |-> row[d].key]
              /\ UNCHANGED <<row, raced>>
BY DEF TypeOK, Next, vars, tunnel, members, files, history, Join, Joining,
       LockTunnel, JoinTunnel, Entered, JoinFails, ApproveParticipant,
       RejectParticipant, RejectTunnelParticipant, GetParticipantPublicKeys,
       Pushing, PushParticipantEnvelope, SaveTunnelParticipantEnvelope,
       NoPush, RejectFails, PushFails, Confirm, ConfirmTunnel, Finalize,
       CreateFile, RemoveTunnelParticipant, Leaving, CountTunnelParticipants,
       DeleteBlobs, DeleteTunnel, LeaveFails, EndTunnel, Expire

\* Who leaves counts, and only who finds nobody goes on; the host does not come
\* back, and who enters while somebody goes on is late.
LEMMA LeaveMoves ==
  ASSUME TypeOK, [Next]_vars
  PROVE  /\ CountedOut(None)' =>
              \/ CountedOut(None) /\ late \subseteq late'
              \/ Empty /\ UNCHANGED <<hostIn, row>>
         /\ hostIn' => hostIn
         /\ \A d \in Devices : Present(d)' /\ ~Present(d) /\ CountedOut(None) =>
              d \in late'
BY Constants
   DEF TypeOK, Next, vars, tunnel, members, files, history, Join, Joining,
       LockTunnel, JoinTunnel, EnterRow, Entered, JoinFails, ApproveParticipant,
       RejectParticipant, RejectTunnelParticipant, GetParticipantPublicKeys,
       Pushing, PushParticipantEnvelope, SaveTunnelParticipantEnvelope,
       RejectFails, PushFails, Confirm, ConfirmTunnel, Finalize, CreateFile,
       RemoveTunnelParticipant, Leaving, CountTunnelParticipants, DeleteBlobs,
       DeleteTunnel, LeaveFails, EndTunnel, Expire, CountedOut, Present, NoRow

----------------------------------------------------------------------------
(* The invariant *)

\* All of it holds at the start.
LEMMA InitInv == Init => TypeOK /\ JoinKeys /\ TunnelInv
<1> SUFFICES ASSUME Init
             PROVE  TypeOK /\ JoinKeys /\ TunnelInv
  OBVIOUS
<1>1. /\ status = "pending" /\ expired = FALSE /\ hostIn \in BOOLEAN
      /\ issued = 0 /\ declined = {} /\ raced = {} /\ late = {}
      /\ file = "none" /\ blob = TRUE /\ lock = None
      /\ reject = NoReject /\ push = NoPush
      /\ row = [d \in Devices |-> NoRow] /\ join = [d \in Devices |-> NoJoin]
      /\ envelope = [d \in Devices |-> None]
      /\ leave = [x \in Leavers |-> "idle"]
  BY DEF Init, CreateTunnel, AddTunnelParticipant
<1>2. TypeOK
  <2>1. 0 \in 0 .. MaxRows
    BY MaxRowsAssumption
  <2> QED
    BY <1>1, <2>1 DEF TypeOK, NoReject, NoPush, NoJoin
<1>3. JoinKeys
  BY <1>1 DEF JoinKeys, NoJoin
<1>4. TunnelInv
  BY <1>1, Constants DEF TunnelInv, DeclinedStayOut, EnvelopeFits, LockInv,
                         PushInv, EmptyInv, CountedOut, NoJoin,
                         NoPush
<1> QED
  BY <1>2, <1>3, <1>4

\* The lock keeps declined users out.
LEMMA LockStep ==
  ASSUME TypeOK, LockInv, DeclinedStayOut, [Next]_vars
  PROVE  LockInv' /\ DeclinedStayOut'
<1>1. LockInv'
  <2>1. \A d \in Devices : join'[d].at = "locked" => lock' = d
    BY LockMoves
  <2>2. ASSUME lock' # None, NEW e \in declined'
        PROVE  ~SameUser(lock', e)
    <3>1. e \in declined
      BY <2>2, DeclinedMoves
    <3>2. ~Declined(lock')
      BY <2>2, LockMoves DEF LockInv
    <3> QED
      BY <3>1, <3>2 DEF Declined
  <2> QED
    BY <2>1, <2>2 DEF LockInv, Declined, SameUser
<1>2. DeclinedStayOut'
  <2> SUFFICES ASSUME NEW d \in declined'
               PROVE  ~Present(d)'
    BY DEF DeclinedStayOut
  <2>1. CASE d \notin declined
    BY <2>1, DeclinedMoves
  <2>2. CASE d \in declined
    <3>1. d \in Devices /\ ~Present(d)
      BY <2>2 DEF DeclinedStayOut, TypeOK
    <3>2. ~JoinTunnel(d)
      BY <2>2, <3>1, Constants DEF JoinTunnel, LockInv, Declined, SameUser
    <3> QED
      BY <3>1, <3>2, RowMoves DEF Present, NoRow
  <2> QED
    BY <2>1, <2>2
<1> QED
  BY <1>1, <1>2

\* A push under way fits unless a join has overtaken it.
LEMMA PushStep ==
  ASSUME TypeOK, PushInv, [Next]_vars
  PROVE  PushInv'
<1> SUFFICES ASSUME push'.at # "idle"
             PROVE  /\ push'.dev \in Devices /\ push'.key # None
                    /\ push'.dev \notin raced' /\ row'[push'.dev].id # 0 =>
                         /\ row'[push'.dev].key = push'.key
                         /\ row'[push'.dev].approved
  BY DEF PushInv, Present
<1>1. ASSUME NEW d \in Devices, Present(d), row[d].approved,
             push' = [at |-> "read", dev |-> d, key |-> row[d].key],
             UNCHANGED <<row, raced>>
      PROVE  /\ push'.dev \in Devices /\ push'.key # None
             /\ row'[push'.dev].key = push'.key /\ row'[push'.dev].approved
  BY <1>1, Constants DEF Present, NoRow, TypeOK
<1>2. CASE push.at # "idle" /\ push'.dev = push.dev /\ push'.key = push.key
  <2> DEFINE d == push.dev
  <2>1. /\ d \in Devices /\ push.key # None
        /\ d \notin raced /\ Present(d) => row[d].key = push.key /\ row[d].approved
    BY <1>2 DEF PushInv
  <2>2. ASSUME d \notin raced', row'[d].id # 0
        PROVE  row'[d].key = push.key /\ row'[d].approved
    <3>1. ~JoinTunnel(d)
      BY <2>1, <2>2 DEF JoinTunnel, Entered
    <3> QED
      BY <2>1, <2>2, <3>1, RowMoves DEF Present, NoRow
  <2> QED
    BY <1>2, <2>1, <2>2
<1> QED
  BY <1>1, <1>2, PushMoves

\* So do the envelopes.
LEMMA EnvelopeStep ==
  ASSUME TypeOK, PushInv, EnvelopeFits, [Next]_vars
  PROVE  EnvelopeFits'
<1> SUFFICES ASSUME NEW d \in Devices, d \notin raced', Present(d)',
                    envelope'[d] # None
             PROVE  envelope'[d] = row'[d].key /\ row'[d].approved
  BY DEF EnvelopeFits
<1>1. CASE JoinTunnel(d)
  BY <1>1 DEF JoinTunnel, TypeOK
<1>2. CASE /\ SaveTunnelParticipantEnvelope(d)
           /\ envelope'[d] = push.key /\ UNCHANGED <<row, raced>>
  BY <1>2 DEF SaveTunnelParticipantEnvelope, PushInv, Present
<1>3. CASE envelope'[d] = envelope[d] /\ ~JoinTunnel(d)
  <2>1. \/ row'[d] = row[d] /\ d \notin raced
        \/ /\ Present(d) /\ d \notin raced
           /\ row'[d].key = row[d].key /\ row'[d].approved
    BY <1>3, RowMoves DEF Present, NoRow
  <2>2. Present(d) /\ d \notin raced
    BY <2>1 DEF Present
  <2> QED
    BY <1>3, <2>1, <2>2 DEF EnvelopeFits
<1> QED
  BY <1>1, <1>2, <1>3, EnvelopeMoves

\* Once somebody has found the tunnel empty, only late ones are in it.
LEMMA EmptyStep ==
  ASSUME TypeOK, EmptyInv, [Next]_vars
  PROVE  EmptyInv'
<1> SUFFICES ASSUME CountedOut(None)'
             PROVE  OnlyLate'
  BY DEF EmptyInv
<1>1. CASE Empty /\ UNCHANGED <<hostIn, row>>
  BY <1>1 DEF Empty, OnlyLate, Present
<1>2. CASE CountedOut(None) /\ late \subseteq late'
  BY <1>2, LeaveMoves DEF EmptyInv, OnlyLate
<1> QED
  BY <1>1, <1>2, LeaveMoves

----------------------------------------------------------------------------
(* Theorems *)

\* The tunnel keeps its types and the invariant, whatever the order in which
\* devices join and leave and the host's page approves, declines and wraps.
THEOREM TunnelCorrect == Spec => [](TypeOK /\ JoinKeys /\ TunnelInv)
<1>1. TypeOK /\ JoinKeys /\ TunnelInv /\ [Next]_vars =>
        (TypeOK /\ JoinKeys /\ TunnelInv)'
  BY TypeStep, LockStep, PushStep, EnvelopeStep, EmptyStep DEF TunnelInv
<1> QED
  BY <1>1, InitInv, PTL DEF Spec

\* "keeps it from joining the tunnel again": a device the host declined is no
\* participant, although its join may run beside the rejection.
THEOREM DeclinedAreOut == Spec => []DeclinedStayOut
<1>1. TypeOK /\ JoinKeys /\ TunnelInv => DeclinedStayOut
  BY DEF TunnelInv
<1> QED
  BY <1>1, TunnelCorrect, PTL

\* An envelope is wrapped for the key on record of a participant the host has
\* approved, unless a join overtook it.
THEOREM EnvelopesFit == Spec => []EnvelopeFits
<1>1. TypeOK /\ JoinKeys /\ TunnelInv => EnvelopeFits
  BY DEF TunnelInv
<1> QED
  BY <1>1, TunnelCorrect, PTL

\* A blob of a file shared in the tunnel stays as long as somebody is in it who
\* did not enter behind the last participant.
THEOREM FilesKept == Spec => []MembersKeepFiles
<1>1. TypeOK /\ JoinKeys /\ TunnelInv => MembersKeepFiles
  BY DEF TunnelInv, EmptyInv, MembersKeepFiles, CountedOut
<1> QED
  BY <1>1, TunnelCorrect, PTL

\* "When the last participant leaves, the tunnel and its file blobs are deleted",
\* and not before: nobody loses it but who enters between count and deletion.
THEOREM TunnelKept == Spec => TunnelOutlivesMembers
<1>1. TypeOK /\ JoinKeys /\ TunnelInv /\ [Next]_vars =>
        [status' = "gone" /\ status # "gone" => OnlyLate]_vars
  <2> SUFFICES ASSUME TypeOK, TunnelInv, [Next]_vars, status' = "gone",
                      status # "gone"
               PROVE  OnlyLate
    OBVIOUS
  <2>1. \E x \in Leavers : DeleteTunnel(x)
    BY DEF Next, vars, tunnel, members, files, history, Join, Joining,
           LockTunnel, JoinTunnel, Entered, JoinFails, ApproveParticipant,
           RejectParticipant, RejectTunnelParticipant,
           GetParticipantPublicKeys, Pushing, PushParticipantEnvelope,
           SaveTunnelParticipantEnvelope, RejectFails, PushFails, Confirm,
           ConfirmTunnel, Finalize, CreateFile, RemoveTunnelParticipant,
           Leaving, CountTunnelParticipants, DeleteBlobs, LeaveFails,
           EndTunnel, Expire
  <2> QED
    BY <2>1, Constants DEF DeleteTunnel, TunnelInv, EmptyInv, CountedOut
<1> QED
  BY <1>1, TunnelCorrect, PTL DEF Spec, TunnelOutlivesMembers
=============================================================================
