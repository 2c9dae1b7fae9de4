------------------------------ MODULE Tunnels ------------------------------
(***************************************************************************)
(* A quick share tunnel: a room that joiners enter with a throwaway public *)
(* key, that the host approves or declines, and whose session key the host *)
(* wraps for every participant it approved once the session has started.   *)
(*                                                                         *)
(* The module is about one tunnel, after Start has created it. A joiner is *)
(* a device, of a signed-in user or of a guest. Statements of a database   *)
(* transaction between which another one can commit are steps of their     *)
(* own, and so are the requests of the host's page: what it reads, and     *)
(* what it sends on the strength of that. The row lock JoinTunnel takes on *)
(* the tunnel (FOR UPDATE) also keeps out the foreign key checks of        *)
(* inserts that refer to the tunnel; plain reads do not wait.              *)
(***************************************************************************)
EXTENDS Naturals

CONSTANTS
  Devices,       \* the devices of joiners
  UserOf,        \* the user a device is signed in as; None for a guest
  Keys,          \* throwaway public keys
  MaxRows,       \* how many participant rows are inserted
  Host,          \* the host, as one who leaves
  None

ASSUME UserOfAssumption == DOMAIN UserOf = Devices
ASSUME MaxRowsAssumption == MaxRows \in Nat \ {0}
ASSUME NoneAssumption ==
  None \notin Keys \cup Devices \cup {Host} /\ Host \notin Devices

VARIABLES
  status, expired,   \* tunnels: status, and whether expires_at has passed
  hostIn,            \* the host's own row in tunnel_participants
  row,               \* the row of each device in it
  issued,            \* how many rows there have been
  declined,          \* tunnel_rejections, by device
  envelope,          \* tunnel_participant_envelopes: the key each is wrapped for
  file,              \* a file uploaded into the tunnel
  blob,              \* is its blob on the volume?
  lock,              \* the device whose join holds the row lock on the tunnel
  join,              \* the join each device has under way
  reject, push,      \* the rejection and the envelope the host has under way
  leave,             \* how far each leaving participant is
  raced,             \* history: devices that joined with another key, or anew,
                     \* while an envelope for them was under way
  late               \* history: devices that entered after the last participant
                     \* was counted out

tunnel == <<status, expired>>
members == <<hostIn, row, issued, declined>>
files == <<file, blob>>
history == <<raced, late>>
vars == <<tunnel, members, envelope, files, lock, join, reject, push, leave,
          history>>

NoRow == [id |-> 0, key |-> None, approved |-> FALSE]
NoJoin == [at |-> "idle", key |-> None]
NoReject == [at |-> "idle", dev |-> None]
NoPush == [at |-> "idle", dev |-> None, key |-> None]

Leavers == Devices \cup {Host}

TypeOK ==
  /\ status \in {"pending", "joined", "active", "ended", "gone"}
  /\ {expired, hostIn, blob} \subseteq BOOLEAN
  /\ row \in [Devices -> {NoRow} \cup [id: 1 .. MaxRows, key: Keys,
                                      approved: BOOLEAN]]
  /\ issued \in 0 .. MaxRows
  /\ {declined, raced, late} \subseteq SUBSET Devices
  /\ envelope \in [Devices -> Keys \cup {None}]
  /\ file \in {"none", "checked", "shared"}
  /\ lock \in Devices \cup {None}
  /\ join \in [Devices -> [at: {"idle", "sent", "locked"},
                           key: Keys \cup {None}]]
  /\ reject \in [at: {"idle", "deleted"}, dev: Devices \cup {None}]
  /\ push \in [at: {"idle", "read", "checked"}, dev: Devices \cup {None},
               key: Keys \cup {None}]
  /\ leave \in [Leavers -> {"idle", "count", "blobs", "drop"}]

CreateTunnel == status = "pending" /\ expired = FALSE

\* The host's own row. Start drops the error when it cannot be inserted.
AddTunnelParticipant == hostIn \in BOOLEAN

\* Start has created the tunnel.
Init ==
  /\ CreateTunnel /\ AddTunnelParticipant
  /\ row = [d \in Devices |-> NoRow]
  /\ issued = 0
  /\ declined = {} /\ raced = {} /\ late = {}
  /\ envelope = [d \in Devices |-> None]
  /\ file = "none" /\ blob = TRUE
  /\ lock = None
  /\ join = [d \in Devices |-> NoJoin]
  /\ reject = NoReject /\ push = NoPush
  /\ leave = [x \in Leavers |-> "idle"]

----------------------------------------------------------------------------
(* Helpers *)

\* GetTunnelByID and GetTunnelByCode find the tunnel and it is not over.
Available == status \in {"pending", "joined", "active"} /\ ~expired

Present(d) == row[d].id # 0
SameUser(d, e) == d = e \/ (UserOf[d] # None /\ UserOf[d] = UserOf[e])
Declined(d) == \E e \in declined : SameUser(d, e)
Empty == ~hostIn /\ \A d \in Devices : ~Present(d)

\* A participant (other than x) has left, found nobody else, and is to delete the
\* tunnel; or one has, and failed after the blobs were deleted.
CountedOut(x) ==
  ~blob \/ \E y \in Leavers \ {x} : leave[y] \in {"blobs", "drop"}

\* A rejection has deleted the row of d and not committed.
RowLocked(d) == reject.at = "deleted" /\ reject.dev = d

----------------------------------------------------------------------------
(* Joining: the handler's checks, then JoinTunnel                           *)

Join(d, k) ==
  /\ join[d].at = "idle"
  /\ Available /\ status # "active" /\ ~Declined(d)
  /\ join' = [join EXCEPT ![d] = [at |-> "sent", key |-> k]]
  /\ UNCHANGED <<tunnel, members, envelope, files, lock, reject, push, leave,
                 history>>

\* The row lock on the tunnel, and the checks under it. That the session has
\* started meanwhile is not one of them.
LockTunnel(d) ==
  /\ join[d].at = "sent"
  /\ lock = None
  /\ IF Available /\ ~Declined(d)
       THEN lock' = d /\ join' = [join EXCEPT ![d].at = "locked"]
       ELSE join' = [join EXCEPT ![d] = NoJoin] /\ UNCHANGED lock
  /\ UNCHANGED <<tunnel, members, envelope, files, reject, push, leave, history>>

\* A row that is there gets the key, a new one is inserted with it.
EnterRow(d) ==
  \/ /\ Present(d)
     /\ row' = [row EXCEPT ![d].key = join[d].key]
     /\ UNCHANGED issued
  \/ /\ ~Present(d) /\ issued < MaxRows
     /\ issued' = issued + 1
     /\ row' = [row EXCEPT ![d] = [id |-> issued', key |-> join[d].key,
                                  approved |-> FALSE]]

Entered(d) ==
  /\ raced' = IF push.dev = d THEN raced \cup {d} ELSE raced \ {d}
  /\ late' = IF ~Present(d) /\ CountedOut(None) THEN late \cup {d} ELSE late
  /\ status' = IF status = "pending" THEN "joined" ELSE status
  /\ lock' = None
  /\ join' = [join EXCEPT ![d] = NoJoin]
  /\ UNCHANGED <<expired, hostIn, declined, files, reject, push, leave>>

\* Mutant: an envelope survives a change of its participant's key.
JoinTunnelKeepsEnvelope(d) ==
  /\ join[d].at = "locked" /\ ~RowLocked(d)
  /\ EnterRow(d)
  /\ UNCHANGED envelope
  /\ Entered(d)

\* The rest of the transaction. It drops the envelope unless the key on record is
\* the bytes of the one that was sent, which it never is: jsonb returns it with
\* spaces that the JSON of the page has not.
JoinTunnel(d) ==
  /\ join[d].at = "locked"
  /\ ~RowLocked(d)
  /\ EnterRow(d)
  /\ envelope' = [envelope EXCEPT ![d] = None]
  /\ Entered(d)

\* The request or its transaction fails, or the row of the device turns out to be
\* somebody else's; a deadlock with a rejection ends so.
JoinFails(d) ==
  /\ join[d].at # "idle"
  /\ join' = [join EXCEPT ![d] = NoJoin]
  /\ lock' = IF lock = d THEN None ELSE lock
  /\ UNCHANGED <<tunnel, members, envelope, files, reject, push, leave, history>>

----------------------------------------------------------------------------
(* The host approves, declines and starts                                   *)

\* The host acts on a row its page has shown, which may be gone by now; so may be
\* the tunnel that the handler has found available.
ApproveParticipant(d, id) ==
  /\ row[d].id = id /\ ~row[d].approved
  /\ ~RowLocked(d)
  /\ row' = [row EXCEPT ![d].approved = TRUE]
  /\ UNCHANGED <<tunnel, hostIn, issued, declined, envelope, files, lock, join,
                 reject, push, leave, history>>

RejectParticipant(d, id) ==
  /\ reject.at = "idle"
  /\ row[d].id = id
  /\ reject' = [at |-> "deleted", dev |-> d]
  /\ UNCHANGED <<tunnel, members, envelope, files, lock, join, push, leave,
                 history>>

\* Mutant: the rejection refers to no tunnel row and waits for no join.
RejectUnlocked(d) ==
  /\ reject = [at |-> "deleted", dev |-> d] /\ status # "gone"
  /\ row' = [row EXCEPT ![d] = NoRow]
  /\ envelope' = [envelope EXCEPT ![d] = None]
  /\ declined' = declined \cup {d}
  /\ reject' = NoReject
  /\ UNCHANGED <<tunnel, hostIn, issued, files, lock, join, push, leave, history>>

\* The envelope is deleted and the rejection inserted, whose reference to the
\* tunnel waits for the lock of a join.
RejectTunnelParticipant(d) ==
  /\ reject = [at |-> "deleted", dev |-> d]
  /\ lock = None
  /\ row' = [row EXCEPT ![d] = NoRow]
  /\ envelope' = [envelope EXCEPT ![d] = None]
  /\ declined' = declined \cup {d}
  /\ reject' = NoReject
  /\ UNCHANGED <<tunnel, hostIn, issued, files, lock, join, push, leave, history>>

RejectFails ==
  /\ reject.at # "idle"
  /\ reject' = NoReject
  /\ UNCHANGED <<tunnel, members, envelope, files, lock, join, push, leave,
                 history>>

\* Under the lock on the tunnel; starting it again changes nothing.
ConfirmTunnel ==
  /\ Available /\ status # "active"
  /\ lock = None
  /\ status' = "active"
  /\ UNCHANGED <<expired, members, envelope, files, lock, join, reject, push,
                 leave, history>>

\* A guest host names its device, a signed-in one its account.
Confirm == Available /\ ConfirmTunnel

----------------------------------------------------------------------------
(* The host's page wraps the session key: pushEnvelopesToGuests             *)

\* Participants who are approved and have no envelope, with their keys. The page
\* has a session key once the session has started.
GetParticipantPublicKeys(d) ==
  /\ push.at = "idle"
  /\ Available /\ status = "active"
  /\ Present(d) /\ row[d].approved /\ envelope[d] = None
  /\ push' = [at |-> "read", dev |-> d, key |-> row[d].key]
  /\ UNCHANGED <<tunnel, members, envelope, files, lock, join, reject, leave,
                 history>>

PushParticipantEnvelope(d) ==
  /\ push.at = "read" /\ push.dev = d
  /\ push' = IF Available /\ status = "active" /\ row[d].approved
               THEN [push EXCEPT !.at = "checked"] ELSE NoPush
  /\ UNCHANGED <<tunnel, members, envelope, files, lock, join, reject, leave,
                 history>>

\* ON CONFLICT DO NOTHING; a tunnel that is gone fails the reference to it.
SaveTunnelParticipantEnvelope(d) ==
  /\ push.at = "checked" /\ push.dev = d
  /\ lock = None
  /\ envelope' = IF status # "gone" /\ envelope[d] = None
                   THEN [envelope EXCEPT ![d] = push.key] ELSE envelope
  /\ push' = NoPush
  /\ UNCHANGED <<tunnel, members, files, lock, join, reject, leave, history>>

PushFails ==
  /\ push.at # "idle"
  /\ push' = NoPush
  /\ UNCHANGED <<tunnel, members, envelope, files, lock, join, reject, leave,
                 history>>

----------------------------------------------------------------------------
(* The host or an approved participant uploads a file into the tunnel. The  *)
(* host is one even after leaving.                                          *)

Finalize ==
  /\ file = "none" /\ blob
  /\ Available /\ status = "active"
  /\ file' = "checked"
  /\ UNCHANGED <<tunnel, members, envelope, blob, lock, join, reject, push, leave,
                 history>>

CreateFile ==
  /\ file = "checked"
  /\ lock = None
  /\ file' = IF status = "gone" THEN "none" ELSE "shared"
  /\ UNCHANGED <<tunnel, members, envelope, blob, lock, join, reject, push, leave,
                 history>>

----------------------------------------------------------------------------
(* Leaving: the End handler                                                 *)

\* A signed-in caller leaves with all rows of the user. Envelopes stay.
RemoveTunnelParticipant(x) ==
  /\ leave[x] = "idle" /\ status # "gone"
  /\ \/ x = Host /\ hostIn' = FALSE /\ UNCHANGED row
     \/ /\ x # Host /\ Present(x)
        /\ \A d \in Devices : SameUser(x, d) => ~RowLocked(d)
        /\ row' = [d \in Devices |-> IF SameUser(x, d) THEN NoRow ELSE row[d]]
        /\ UNCHANGED hostIn
  /\ leave' = [leave EXCEPT ![x] = "count"]
  /\ UNCHANGED <<tunnel, issued, declined, envelope, files, lock, join, reject,
                 push, history>>

\* Mutant: only the host counts.
CountHost(x) ==
  /\ leave[x] = "count"
  /\ leave' = [leave EXCEPT ![x] = IF ~hostIn THEN "blobs" ELSE "idle"]
  /\ UNCHANGED <<tunnel, members, envelope, files, lock, join, reject, push,
                 history>>

\* Mutant: a count that failed is taken for none.
CountFailureIsEmpty(x) ==
  /\ leave[x] = "count"
  /\ leave' = [leave EXCEPT ![x] = "blobs"]
  /\ UNCHANGED <<tunnel, members, envelope, files, lock, join, reject, push,
                 history>>

CountTunnelParticipants(x) ==
  /\ leave[x] = "count"
  /\ leave' = [leave EXCEPT ![x] = IF Empty THEN "blobs" ELSE "idle"]
  /\ UNCHANGED <<tunnel, members, envelope, files, lock, join, reject, push,
                 history>>

\* The blobs of the files there are by now.
DeleteBlobs(x) ==
  /\ leave[x] = "blobs"
  /\ blob' = (blob /\ file # "shared")
  /\ leave' = [leave EXCEPT ![x] = "drop"]
  /\ UNCHANGED <<tunnel, members, envelope, file, lock, join, reject, push,
                 history>>

\* Everything that refers to the tunnel goes with it; references that are being
\* made are waited for.
DeleteTunnel(x) ==
  /\ leave[x] = "drop"
  /\ lock = None /\ reject.at = "idle"
  /\ status' = "gone" /\ hostIn' = FALSE
  /\ row' = [d \in Devices |-> NoRow]
  /\ declined' = {}
  /\ envelope' = [d \in Devices |-> None]
  /\ file' = IF file = "shared" THEN "none" ELSE file
  /\ leave' = [leave EXCEPT ![x] = "idle"]
  /\ UNCHANGED <<expired, issued, blob, lock, join, reject, push, history>>

\* What was left undone threatens nobody any more, unless the blobs are gone.
LeaveFails(x) ==
  /\ leave[x] # "idle"
  /\ leave' = [leave EXCEPT ![x] = "idle"]
  /\ late' = IF CountedOut(x) THEN late ELSE {}
  /\ UNCHANGED <<tunnel, members, envelope, files, lock, join, reject, push,
                 raced>>

----------------------------------------------------------------------------
(* The end of a tunnel: EndTunnelsHostedBy, and time                        *)

EndTunnel ==
  /\ Available /\ lock = None
  /\ status' = "ended"
  /\ UNCHANGED <<expired, members, envelope, files, lock, join, reject, push,
                 leave, history>>

Expire ==
  /\ ~expired
  /\ expired' = TRUE
  /\ UNCHANGED <<status, members, envelope, files, lock, join, reject, push, leave,
                 history>>

----------------------------------------------------------------------------

Joining(d) == LockTunnel(d) \/ JoinTunnel(d)
Pushing(d) == PushParticipantEnvelope(d) \/ SaveTunnelParticipantEnvelope(d)
Leaving(x) ==
  \/ CountTunnelParticipants(x)
  \/ DeleteBlobs(x)
  \/ DeleteTunnel(x)

Next ==
  \/ \E d \in Devices, k \in Keys : Join(d, k)
  \/ \E d \in Devices, id \in 1 .. MaxRows :
       ApproveParticipant(d, id) \/ RejectParticipant(d, id)
  \/ \E d \in Devices :
       \/ Joining(d) \/ JoinFails(d)
       \/ RejectTunnelParticipant(d)
       \/ GetParticipantPublicKeys(d) \/ Pushing(d)
  \/ RejectFails \/ PushFails
  \/ Confirm
  \/ Finalize \/ CreateFile
  \/ \E x \in Leavers :
       RemoveTunnelParticipant(x) \/ Leaving(x) \/ LeaveFails(x)
  \/ EndTunnel \/ Expire

Spec == Init /\ [][Next]_vars

----------------------------------------------------------------------------
(* Properties *)

\* "keeps it from joining the tunnel again": a device the host declined is no
\* participant, although its join may run beside the rejection.
DeclinedStayOut == \A d \in declined : ~Present(d)

\* An envelope fits its participant: it is wrapped for the key that is on record,
\* and the participant is approved. The exception are those who joined while the
\* host's page had an envelope for them under way.
EnvelopeFits ==
  \A d \in Devices \ raced : Present(d) /\ envelope[d] # None =>
    envelope[d] = row[d].key /\ row[d].approved

\* "drop it so the host wraps the session key for the new one": without the
\* exception.
EnvelopeForCurrentKey ==
  \A d \in Devices : Present(d) /\ envelope[d] # None =>
    envelope[d] = row[d].key

\* Nobody is in the tunnel but those who entered after the last participant had
\* been counted out, and before that one was done.
OnlyLate == ~hostIn /\ \A d \in Devices : Present(d) => d \in late

\* "When the last participant leaves, the tunnel and its file blobs are deleted":
\* a tunnel somebody is in is not, nor is the blob of a file shared in it, however
\* many leave at once and wherever leaving stops. The exception are those who
\* enter between the count and the deletion, or find what a deletion left behind.
TunnelOutlivesMembers ==
  [][status' = "gone" /\ status # "gone" => OnlyLate]_vars
MembersKeepFiles == file = "shared" /\ ~blob => OnlyLate

\* Without the exception, which the code does not keep: a join that commits
\* between the count and the deletion finds the tunnel or its blobs gone.
MembersAlwaysKeepFiles == ~Empty /\ file = "shared" => blob

----------------------------------------------------------------------------
(* What the properties rest on                                              *)

\* The lock on the tunnel is a join's, which has found its user not declined; and
\* nobody is declined under it.
LockInv ==
  /\ \A d \in Devices : join[d].at = "locked" => lock = d
  /\ lock # None => ~Declined(lock)

\* The host's page wraps for the key on record, until a join overtakes it.
PushInv ==
  push.at # "idle" =>
    /\ push.dev \in Devices /\ push.key # None
    /\ push.dev \notin raced /\ Present(push.dev) =>
         row[push.dev].key = push.key /\ row[push.dev].approved

\* Who finds nobody else is the last one, but for those who come after.
EmptyInv == CountedOut(None) => OnlyLate

TunnelInv ==
  /\ DeclinedStayOut /\ EnvelopeFits /\ LockInv /\ PushInv /\ EmptyInv
=============================================================================
