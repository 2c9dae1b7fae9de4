-------------------------------- MODULE Jobs --------------------------------
(***************************************************************************)
(* RunJob: periodic jobs (the cleanup, the statistics report, the check of *)
(* the user cache) that run once per interval across all replicas. A run   *)
(* takes a session-level advisory lock on a connection of its own, claims  *)
(* the interval in job_runs, and keeps the lock while the job's function   *)
(* works on other connections. When that connection is lost PostgreSQL     *)
(* releases the lock, and the function goes on.                            *)
(*                                                                         *)
(* The steps of a deployment that has servers starting, serving and dying  *)
(* around these are in module Deployment.                                  *)
(***************************************************************************)
EXTENDS Naturals, FiniteSets

CONSTANTS
  Replicas,
  JobNames,
  MaxLosses,     \* how often a connection that holds a lock is lost
  MaxCrashes,    \* how often a replica dies
  None

VARIABLES
  lock,          \* the replica whose connection holds a job's advisory lock
  due,           \* last_run_at is at least one interval ago
  starts,        \* how often a job was started since it became due, up to 2
  at,            \* where each replica is with each job
  losses,
  crashes

faults == <<losses, crashes>>

TypeOK ==
  /\ lock \in [JobNames -> Replicas \cup {None}]
  /\ due \in [JobNames -> BOOLEAN]
  /\ starts \in [JobNames -> 0 .. 2]
  /\ at \in [Replicas -> [JobNames -> {"idle", "locked", "running"}]]
  /\ losses \in 0 .. MaxLosses
  /\ crashes \in 0 .. MaxCrashes

Init ==
  /\ lock = [j \in JobNames |-> None]
  /\ due = [j \in JobNames |-> TRUE]
  /\ starts = [j \in JobNames |-> 0]
  /\ at = [r \in Replicas |-> [j \in JobNames |-> "idle"]]
  /\ losses = 0 /\ crashes = 0

Move(r, j, step) == at' = [at EXCEPT ![r][j] = step]
Unlock(r, j) == lock' = [lock EXCEPT ![j] = IF @ = r THEN None ELSE @]
Start(j) == starts' = [starts EXCEPT ![j] = IF @ < 2 THEN @ + 1 ELSE @]

\* pg_try_advisory_lock; a replica that does not get the lock gives up.
TryLock(r, j) ==
  /\ at[r][j] = "idle"
  /\ lock[j] = None
  /\ lock' = [lock EXCEPT ![j] = r]
  /\ Move(r, j, "locked")
  /\ UNCHANGED <<due, starts, faults>>

\* Mutant: last_run_at is not written before the job starts.
ClaimUnrecorded(r, j) ==
  /\ at[r][j] = "locked"
  /\ due[j] /\ Start(j) /\ Move(r, j, "running")
  /\ UNCHANGED <<lock, due, faults>>

\* Mutant: a replica that finds the job not due keeps the lock.
ClaimKeepsLock(r, j) ==
  /\ at[r][j] = "locked"
  /\ \/ due[j] /\ Start(j) /\ due' = [due EXCEPT ![j] = FALSE]
        /\ Move(r, j, "running")
     \/ ~due[j] /\ Move(r, j, "idle") /\ UNCHANGED <<due, starts>>
  /\ UNCHANGED <<lock, faults>>

\* Mutant: the lock is released once the run is claimed.
ClaimUnlocks(r, j) ==
  /\ at[r][j] = "locked"
  /\ Unlock(r, j)
  /\ \/ due[j] /\ Start(j) /\ due' = [due EXCEPT ![j] = FALSE]
        /\ Move(r, j, "running")
     \/ ~due[j] /\ Move(r, j, "idle") /\ UNCHANGED <<due, starts>>
  /\ UNCHANGED faults

\* The upsert into job_runs. If the interval is taken the lock is released.
Claim(r, j) ==
  /\ at[r][j] = "locked"
  /\ \/ /\ due[j]
        /\ due' = [due EXCEPT ![j] = FALSE]
        /\ Start(j)
        /\ Move(r, j, "running")
        /\ UNCHANGED lock
     \/ /\ ~due[j]
        /\ Move(r, j, "idle")
        /\ Unlock(r, j)
        /\ UNCHANGED <<due, starts>>
  /\ UNCHANGED faults

\* The function returns, after however long: its calls to the database end with
\* its context, those to the volume do not.
Finish(r, j) ==
  /\ at[r][j] = "running"
  /\ Move(r, j, "idle")
  /\ Unlock(r, j)
  /\ UNCHANGED <<due, starts, faults>>

IntervalPasses(j) ==
  /\ ~due[j]
  /\ due' = [due EXCEPT ![j] = TRUE]
  /\ starts' = [starts EXCEPT ![j] = 0]
  /\ UNCHANGED <<lock, at, faults>>

\* A replica that has not claimed the run yet fails to; one that has goes on.
LoseConnection(r, j) ==
  /\ lock[j] = r
  /\ losses < MaxLosses /\ losses' = losses + 1
  /\ Unlock(r, j)
  /\ IF at[r][j] = "locked" THEN Move(r, j, "idle") ELSE UNCHANGED at
  /\ UNCHANGED <<due, starts, crashes>>

----------------------------------------------------------------------------
(* Properties *)

\* No two replicas run a job together.
OneAtATime ==
  \A r, q \in Replicas, j \in JobNames :
    at[r][j] = "running" /\ at[q][j] = "running" => r = q

\* "no replica is running it right now": two replicas run a job together only
\* after a connection that held a lock was lost, even when a run takes longer
\* than the interval, or the replica that runs it dies.
OverlapOnlyIfLost == losses = 0 => OneAtATime

\* "no replica has started the job named name within the last interval": also
\* when the lock of a run is lost, or its replica dies.
StartedOncePerInterval == \A j \in JobNames : starts[j] <= 1
=============================================================================
