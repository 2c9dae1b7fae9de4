--------------------------- MODULE IdentityPromise ---------------------------
(***************************************************************************)
(* What the device service promises about an account's identity key,       *)
(* without requests, enrollments or tables (internal/services/             *)
(* device_identity.go: "the identity key is the account's only root        *)
(* secret"). A version of the key starts in the hands of one device, is    *)
(* handed on while it lasts, and is only ever replaced by the next version *)
(* in the hands of one device. The approver (the CNS accounts app) never   *)
(* makes a key, and is the only device that can hand its copy back.        *)
(***************************************************************************)
EXTENDS Naturals

CONSTANTS Devices, Approvers

VARIABLES
  newest,    \* the version of the active key, 0 before there is one
  holders    \* the devices with a copy of that version

IdentityInit == newest = 0 /\ holders = {}

\* The first device of an account, a migrated device, or a recovery.
Replace(d) ==
  /\ d \notin Approvers
  /\ newest' = newest + 1
  /\ holders' = {d}

HandOn(d) ==
  /\ newest > 0
  /\ holders' = holders \cup {d}
  /\ UNCHANGED newest

HandBack(d) ==
  /\ d \in Approvers
  /\ holders' = holders \ {d}
  /\ UNCHANGED newest

IdentityNext == \E d \in Devices : Replace(d) \/ HandOn(d) \/ HandBack(d)

Identity == IdentityInit /\ [][IdentityNext]_<<newest, holders>>
=============================================================================
