------------------------------ MODULE UserCache ------------------------------
(***************************************************************************)
(* The local cache of CNS users (the users table) beside the accounts that *)
(* CNS really has. Three sources write to it, late and out of order: the   *)
(* user's own profile after a request, webhooks, and the reconciliation    *)
(* job with the users:read directory.                                      *)
(*                                                                         *)
(* Every change at CNS takes a moment of the clock, so that "observed at"  *)
(* tells an older answer from a newer one; the two clocks agree. Each      *)
(* transaction on the table is one step.                                   *)
(***************************************************************************)
EXTENDS Naturals, FiniteSets

CONSTANTS
  Accounts,
  Names,
  FirstName,      \* the name an account starts with
  Tasks,          \* requests whose cache update is under way
  MaxTime,        \* moments of the clock, and so how much may change
  StaleAfter,     \* USER_CACHE_STALE_AFTER
  MaxDeletions    \* USER_CACHE_MAX_DELETIONS_PER_RUN

ASSUME NamesAssumption ==
  /\ FirstName \in [Accounts -> Names]
  /\ \A a, b \in Accounts : FirstName[a] = FirstName[b] => a = b
ASSUME TimeAssumption == MaxTime \in Nat \ {0} /\ StaleAfter \in Nat
ASSUME DeletionsAssumption == MaxDeletions \in Nat

VARIABLES
  now,
  cns,         \* the accounts at CNS
  row,         \* users
  sent,        \* webhook events that CNS delivers, perhaps again
  applied,     \* cns_webhook_events
  task,
  pass,        \* the directory pass of the reconciliation job
  heard,       \* history: when the account status of a row was really observed
  overtaken    \* history: whose status was written by a request that was
               \* authenticated before, and ended after, an event of the user

history == <<heard, overtaken>>
vars == <<now, cns, row, sent, applied, task, pass, heard, overtaken>>

Times == 0 .. MaxTime
Idle == [at |-> "idle"]
NoRow == [status |-> "none"]
Erased == [status |-> "deleted"]

\* Every observation is stamped with a moment of the clock, which starts at 1.
Moments == 1 .. MaxTime

\* A stale row may be synced at 0, ahead of all others in the re-check queue.
CachedRow ==
  [status: {"active", "locked", "stale"}, name: Names, seen: Moments,
   synced: Times, limited: BOOLEAN, limitedSeen: Times]

CNSAccount == [live: BOOLEAN, name: Names, locked: BOOLEAN, limited: BOOLEAN]

Event == [kind: {"updated", "deleted"}, of: Accounts, name: Names,
          limited: BOOLEAN, time: Moments]

FetchTask ==
  [at: {"fetch", "status"}, of: Accounts, limited: BOOLEAN, time: Moments]
RecordTask ==
  [at: {"record"}, of: Accounts, limited: BOOLEAN, time: Moments,
   name: Names, locked: BOOLEAN]

StalePass == [at |-> "stale"]
BatchPass == [at: {"batch"}, todo: SUBSET Accounts, time: Moments]
ApplyPass ==
  [at: {"apply"}, found: SUBSET Accounts, name: [Accounts -> Names],
   missing: SUBSET Accounts, time: Moments]
LookupPass == [at: {"lookup"}, missing: SUBSET Accounts]

RowsOK ==
  row \in [Accounts -> {NoRow, Erased} \cup CachedRow]

TypeOK ==
  /\ now \in Moments
  /\ cns \in [Accounts -> CNSAccount]
  /\ RowsOK
  /\ \A a \in Accounts : row[a].status \in {"active", "locked"} =>
       row[a].synced # 0
  /\ sent \subseteq Event /\ applied \subseteq sent
  /\ task \in [Tasks -> {Idle} \cup FetchTask \cup RecordTask]
  /\ pass \in {Idle, StalePass} \cup BatchPass \cup ApplyPass \cup LookupPass
  /\ heard \in [Accounts -> Times] /\ overtaken \subseteq Accounts

NewRow(n, t) == [status |-> "active", name |-> n, seen |-> t, synced |-> t,
                 limited |-> FALSE, limitedSeen |-> 0]

\* Some accounts are cached by the service.
Init ==
  /\ now = 1
  /\ cns = [a \in Accounts |-> [live |-> TRUE, name |-> FirstName[a],
                                locked |-> FALSE, limited |-> FALSE]]
  /\ \E known \in SUBSET Accounts :
       row = [a \in Accounts |->
                IF a \in known THEN NewRow(FirstName[a], 1) ELSE NoRow]
  /\ sent = {} /\ applied = {}
  /\ task = [p \in Tasks |-> Idle]
  /\ pass = Idle
  /\ heard = [a \in Accounts |-> 0] /\ overtaken = {}

----------------------------------------------------------------------------
(* What happens at CNS                                                      *)

Emit(kind, a) ==
  sent' = sent \cup {[kind |-> kind, of |-> a, name |-> cns'[a].name,
                      limited |-> cns'[a].limited, time |-> now']}

Change(a, account) ==
  /\ cns[a].live /\ now < MaxTime
  /\ now' = now + 1
  /\ cns' = [cns EXCEPT ![a] = account]
  /\ UNCHANGED <<row, applied, task, pass, history>>

Free(n) == \A b \in Accounts : cns[b].live => cns[b].name # n

Rename(a, n) ==
  Free(n) /\ Change(a, [cns[a] EXCEPT !.name = n]) /\ Emit("updated", a)

ChangeStatus(a) ==
  Change(a, [cns[a] EXCEPT !.limited = ~@]) /\ Emit("updated", a)

ChangeLock(a) ==
  Change(a, [cns[a] EXCEPT !.locked = ~@]) /\ UNCHANGED sent

DeleteAccount(a) ==
  Change(a, [cns[a] EXCEPT !.live = FALSE]) /\ Emit("deleted", a)

Tick ==
  /\ now < MaxTime
  /\ now' = now + 1
  /\ UNCHANGED <<cns, row, sent, applied, task, pass, history>>

----------------------------------------------------------------------------
(* What a profile does to a row (storage/users.go)                          *)

Exists(a) == row[a] # NoRow
Deleted(a) == row[a] = Erased
Kept(a) == Exists(a) /\ ~Deleted(a)

\* Mutant: a stale and a locked row are both just inactive.
NextStatusReviving(r, lock, newer) ==
  CASE lock = "locked" -> "locked"
    [] lock = "unlocked" -> "active"
    [] OTHER -> IF newer THEN "active" ELSE r.status

\* lock is what the source says of the lock, or "unknown".
NextStatus(r, lock, newer) ==
  CASE lock = "locked" -> "locked"
    [] lock = "unlocked" -> "active"
    [] lock = "unknown" /\ r.status = "stale" /\ newer -> "active"
    [] OTHER -> r.status

\* The name is the one observed last, or at the same time.
NextUserState(r, n, t, lock) ==
  LET newer == t > r.synced IN
  [r EXCEPT !.name = IF t >= r.seen THEN n ELSE @,
            !.seen = IF t >= @ THEN t ELSE @,
            !.synced = IF newer THEN t ELSE @,
            !.status = NextStatus(r, lock, newer)]

\* Active rows that hold the name of a's row with an older profile.
NameHolders(rows, a) ==
  {b \in Accounts \ {a} :
     /\ rows[a].status = "active" /\ rows[b].status = "active"
     /\ rows[b].name = rows[a].name /\ rows[b].seen < rows[a].seen}

\* They leave search and go first in the re-check queue.
DemoteNameHolders(rows, a) ==
  [b \in Accounts |-> IF b \in NameHolders(rows, a)
     THEN [rows[b] EXCEPT !.status = "stale", !.synced = 0] ELSE rows[b]]

ProfileRow(a, n, t, lock) ==
  IF Kept(a) THEN NextUserState(row[a], n, t, lock)
  ELSE [NewRow(n, t) EXCEPT !.status =
          IF lock = "locked" THEN "locked" ELSE "active"]

\* Mutant: the row of a deleted account is made again.
WithProfileAgain(a, n, t, lock) ==
  DemoteNameHolders([row EXCEPT ![a] = ProfileRow(a, n, t, lock)], a)

\* The rows after recordProfile; a deleted row is left alone.
WithProfile(a, n, t, lock) ==
  IF Deleted(a) THEN row
  ELSE DemoteNameHolders([row EXCEPT ![a] = ProfileRow(a, n, t, lock)], a)

RecordCNSProfile(a, n, t, lock) == row' = WithProfile(a, n, t, lock)

\* Mutant: the stored status need not be the older one.
TakesAnyStatus(r, t) == r.status \notin {"none", "deleted"}

\* An older account status than the stored one is left aside.
TakesStatus(r, t) == r.status \notin {"none", "deleted"} /\ r.limitedSeen <= t

\* recordAccountStatus
WithAccountStatus(r, limited, t) ==
  IF TakesStatus(r, t) THEN [r EXCEPT !.limited = limited, !.limitedSeen = t]
  ELSE r

\* History: the status that is now in a's row was observed at t.
Hear(a, t, late) ==
  /\ heard' = [heard EXCEPT ![a] = t]
  /\ overtaken' = IF late THEN overtaken \cup {a} ELSE overtaken \ {a}

MarkUserDeleted(a) == row' = [row EXCEPT ![a] = Erased]

----------------------------------------------------------------------------
(* Webhooks                                                                 *)

\* applyWebhookEvent: the event is recorded and applied in one transaction; a
\* repeat of it only answers 204.
ApplyOnce(e) ==
  /\ e \in sent \ applied
  /\ applied' = applied \cup {e}

ApplyCNSUserUpdated(e) ==
  LET rows == WithProfile(e.of, e.name, e.time, "unknown") IN
  /\ e.kind = "updated" /\ ApplyOnce(e)
  /\ row' = [rows EXCEPT ![e.of] = WithAccountStatus(@, e.limited, e.time)]
  /\ IF TakesStatus(rows[e.of], e.time) THEN Hear(e.of, e.time, FALSE)
     ELSE UNCHANGED history
  /\ UNCHANGED <<now, cns, sent, task, pass>>

ApplyCNSUserDeleted(e) ==
  /\ e.kind = "deleted" /\ ApplyOnce(e)
  /\ MarkUserDeleted(e.of)
  /\ UNCHANGED <<now, cns, sent, task, pass, history>>

----------------------------------------------------------------------------
(* The user's own profile, beside a request (SyncIfStale)                   *)

Goto(p, t) == task' = [task EXCEPT ![p] = t]

\* The request was authenticated; its account status is the one of that time.
\* A row that was confirmed within the TTL is not fetched again.
SyncIfStale(p, a) ==
  /\ task[p] = Idle /\ cns[a].live
  /\ \E next \in {"fetch", "status"} :
       /\ IF next = "status" THEN Exists(a)
          ELSE ~Deleted(a) /\ (Exists(a) => row[a].synced < now)
       /\ Goto(p, [at |-> next, of |-> a, limited |-> cns[a].limited,
                   time |-> now])
  /\ UNCHANGED <<now, cns, row, sent, applied, pass, history>>

Finish(p) == Goto(p, [at |-> "status", of |-> task[p].of,
                      limited |-> task[p].limited, time |-> task[p].time])

\* observedAt was taken before CNS is asked. Without an answer the row stays.
GetServiceProfile(p) ==
  LET t == task[p]  account == cns[t.of] IN
  /\ t.at = "fetch"
  /\ \/ /\ account.live
        /\ Goto(p, [at |-> "record", of |-> t.of, limited |-> t.limited,
                    time |-> t.time, name |-> account.name,
                    locked |-> account.locked])
     \/ Finish(p)
  /\ UNCHANGED <<now, cns, row, sent, applied, pass, history>>

RecordOwnProfile(p) ==
  LET t == task[p] IN
  /\ t.at = "record"
  /\ RecordCNSProfile(t.of, t.name, t.time,
                      IF t.locked THEN "locked" ELSE "unlocked")
  /\ Finish(p)
  /\ UNCHANGED <<now, cns, sent, applied, pass, history>>

\* The status of the request, stamped now and not when it was observed; it is
\* skipped when it is stored.
RecordAccountStatus(p) ==
  LET t == task[p] IN
  /\ t.at = "status"
  /\ IF Kept(t.of) /\ row[t.of].limited # t.limited
     THEN /\ row' = [row EXCEPT ![t.of] = WithAccountStatus(@, t.limited, now)]
          /\ Hear(t.of, t.time, \E e \in sent : e.of = t.of /\ e.time > t.time)
     ELSE UNCHANGED <<row, history>>
  /\ Goto(p, Idle)
  /\ UNCHANGED <<now, cns, sent, applied, pass>>

----------------------------------------------------------------------------
(* The directory pass                                                       *)

\* CNS answers from some time on: the last moment of the model.
Healthy == now = MaxTime

List(users) ==
  /\ pass = Idle
  /\ pass' = [at |-> "batch", time |-> now,
              todo |-> {a \in users : row[a].synced < now}]
  /\ UNCHANGED <<now, cns, row, sent, applied, task, history>>

\* Mutant: a user who left search is not checked any more.
ListUsersInSearch == List({a \in Accounts : row[a].status = "active"})

ListUsersToVerify == List({a \in Accounts : Kept(a)})

\* The directory leaves out deleted users, and at fault others as well.
GetPublicUsers ==
  /\ pass.at = "batch"
  /\ LET live == {a \in pass.todo : cns[a].live} IN
     \E found \in SUBSET live :
       /\ Healthy => found = live
       /\ pass' = [at |-> "apply", found |-> found, time |-> pass.time,
                   name |-> [a \in Accounts |-> cns[a].name],
                   missing |-> pass.todo \ found]
  /\ UNCHANGED <<now, cns, row, sent, applied, task, history>>

RecordFound(a) ==
  /\ pass.at = "apply" /\ a \in pass.found
  /\ RecordCNSProfile(a, pass.name[a], pass.time, "unknown")
  /\ pass' = [pass EXCEPT !.found = @ \ {a}]
  /\ UNCHANGED <<now, cns, sent, applied, task, history>>

\* No deletion at all when more users are missing than one run may delete.
EndOfBatch ==
  /\ pass.at = "apply" /\ pass.found = {}
  /\ pass' = IF Cardinality(pass.missing) > MaxDeletions
             THEN StalePass
             ELSE [at |-> "lookup", missing |-> pass.missing]
  /\ UNCHANGED <<now, cns, row, sent, applied, task, history>>

LookUp(a) ==
  /\ pass.at = "lookup" /\ a \in pass.missing
  /\ pass' = [pass EXCEPT !.missing = @ \ {a}]
  /\ UNCHANGED <<now, cns, sent, applied, task, history>>

\* Mutant: what the batch left out is deleted.
DeleteMissing(a) == LookUp(a) /\ MarkUserDeleted(a)

\* Only CNS's not_found for the one user counts as deleted.
GetPublicUser(a) ==
  /\ LookUp(a)
  /\ IF cns[a].live THEN RecordCNSProfile(a, cns[a].name, now, "unknown")
                    ELSE MarkUserDeleted(a)

EndOfLookups ==
  /\ pass.at = "lookup" /\ pass.missing = {}
  /\ pass' = StalePass
  /\ UNCHANGED <<now, cns, row, sent, applied, task, history>>

\* Any error of CNS ends the pass; the rows it didn't reach stay as they are.
DirectoryFails ==
  /\ pass.at \in {"batch", "apply", "lookup"} /\ ~Healthy
  /\ pass' = StalePass
  /\ UNCHANGED <<now, cns, row, sent, applied, task, history>>

DeactivateStaleUsers ==
  /\ pass.at = "stale"
  /\ row' = [a \in Accounts |->
               IF row[a].status = "active" /\ row[a].synced + StaleAfter < now
               THEN [row[a] EXCEPT !.status = "stale"] ELSE row[a]]
  /\ pass' = Idle
  /\ UNCHANGED <<now, cns, sent, applied, task, history>>

----------------------------------------------------------------------------

CNSStep ==
  \/ \E a \in Accounts :
       \/ \E n \in Names : Rename(a, n)
       \/ ChangeStatus(a) \/ ChangeLock(a) \/ DeleteAccount(a)
  \/ Tick

WebhookStep ==
  \E e \in sent : ApplyCNSUserUpdated(e) \/ ApplyCNSUserDeleted(e)

RequestStep(p) ==
  \/ \E a \in Accounts : SyncIfStale(p, a)
  \/ GetServiceProfile(p) \/ RecordOwnProfile(p) \/ RecordAccountStatus(p)

VerifyWithDirectory ==
  \/ ListUsersToVerify \/ GetPublicUsers
  \/ \E a \in Accounts : RecordFound(a) \/ GetPublicUser(a)
  \/ EndOfBatch \/ EndOfLookups

\* reconcile
PassStep == VerifyWithDirectory \/ DeactivateStaleUsers

Next ==
  \/ CNSStep \/ WebhookStep
  \/ \E p \in Tasks : RequestStep(p)
  \/ PassStep \/ DirectoryFails

Spec == Init /\ [][Next]_vars

\* The job runs again and again, and no pass of it is left unfinished.
FairSpec == Spec /\ WF_vars(PassStep)

----------------------------------------------------------------------------
(* Properties                                                               *)

\* "deletion is final ... nothing recreates the user afterwards": a late
\* webhook, a profile fetched before the deletion and the directory included.
DeletionIsFinal == [][\A a \in Accounts : Deleted(a) => Deleted(a)']_vars

\* "A user counts as gone only when a single lookup returns CNS's not_found":
\* no fault of the directory erases an account that exists.
OnlyGoneAreErased == \A a \in Accounts : Deleted(a) => ~cns[a].live

\* "older events never overwrite newer data": the profile in a row is never older
\* than an event that was applied to it, and neither is its account status by the
\* moment it was observed; but for the status of a request that was overtaken by
\* an event while it was under way, which is stored with the time of writing.
NeverBehindEvents ==
  \A e \in applied : Kept(e.of) =>
    /\ row[e.of].seen >= e.time
    /\ heard[e.of] >= e.time \/ e.of \in overtaken

\* "this is the only source that knows whether the account is locked": a locked
\* row is in search again only after the user's own profile was fetched.
LockedStaysHidden ==
  [][\A a \in Accounts :
       row[a].status = "locked" /\ row'[a].status = "active" =>
         \E p \in Tasks : task[p].at = "record" /\ task[p].of = a
                          /\ task'[p].at = "status"]_vars

Gone == {a \in Accounts : Kept(a) /\ ~cns[a].live}

Agrees(a) ==
  \/ ~Exists(a)
  \/ Deleted(a) /\ ~cns[a].live
  \/ Kept(a) /\ cns[a].live /\ row[a].name = cns[a].name
             /\ row[a].status # "stale"

\* The job "catches whatever the webhooks missed": once CNS is quiet and
\* answers, every cached user has its name, or is erased; unless more of them
\* are gone than one run may delete.
CatchesUp ==
  Healthy ~> \/ \A a \in Accounts : Agrees(a)
             \/ Cardinality(Gone) > MaxDeletions

\* "An older observation must not overwrite a newer one", whoever brings it. The
\* stamp of a request's status breaks it: no run checks it.
StatusInOrder == \A e \in applied : Kept(e.of) => heard[e.of] >= e.time

----------------------------------------------------------------------------
(* What the properties rest on                                              *)

\* CNS reports a deletion after it, and nobody returns from it.
DeletedAreGone == \A e \in sent : e.kind = "deleted" => ~cns[e.of].live

\* What CNS has reported is past, and so is what a request or a pass has read.
NothingAhead ==
  /\ \A e \in sent : e.time <= now
  /\ \A a \in Accounts : Kept(a) => row[a].limitedSeen <= now

\* No row is stamped older than an event that was applied to it.
StampsInOrder ==
  \A e \in applied : Kept(e.of) =>
    row[e.of].seen >= e.time /\ row[e.of].limitedSeen >= e.time

\* A stamp runs ahead of the observation only past events that overtook it.
StampsAhead ==
  \A a \in Accounts : Kept(a) /\ a \notin overtaken =>
    \A e \in sent : e.of = a /\ row[a].limitedSeen >= e.time => heard[a] >= e.time

\* An event leaves a row behind, if only the one of a deleted user.
AppliedExist ==
  \A e \in applied : Exists(e.of) /\ (e.kind = "deleted" => Deleted(e.of))

CacheInv ==
  /\ OnlyGoneAreErased /\ StampsInOrder /\ StampsAhead
  /\ DeletedAreGone /\ NothingAhead /\ AppliedExist
=============================================================================
