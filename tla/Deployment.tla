----------------------------- MODULE Deployment -----------------------------
(***************************************************************************)
(* A deployment from the start of its servers on: each migrates its        *)
(* database, claims its storage and then serves and takes part in the      *)
(* cleanup job of its database (module Jobs). Servers of several databases *)
(* may have been given the same directories, which is what the claim is    *)
(* there for, and servers of one database may run different images.        *)
(*                                                                         *)
(* A directory is data only by whose files it holds: a sweep of orphans    *)
(* deletes all that its own database does not know.                        *)
(***************************************************************************)
EXTENDS Naturals, Sequences, FiniteSets, SequencesExt

CONSTANTS
  Servers,
  Databases,
  DatabaseOf,     \* the database a server is configured with
  Image,          \* the migrations in a server's image, in order of their names
  Dirs,           \* DATA_DIR and a CHUNK_DIR outside of it, in this order
  Before,         \* what may have been migrated before
  Settled,        \* the database whose files may predate the markers
  None,
  MaxLosses,      \* how often a connection that holds a lock is lost
  MaxCrashes      \* how often a server dies

Absent == "no marker"
Empty == "empty marker"
DirSet == ToSet(Dirs)
Migrations == [version: Nat \ {0}, sql: STRING]

ASSUME ConfigAssumption ==
  /\ DatabaseOf \in [Servers -> Databases]
  /\ \A s \in Servers : Image[s] \in Seq(STRING)
  /\ Dirs \in Seq(DirSet) /\ Dirs # << >> /\ IsInjective(Dirs)
  /\ Settled \in Databases
  /\ None \notin Servers /\ Absent \notin Databases /\ Empty \notin Databases
  /\ MaxLosses \in Nat /\ MaxCrashes \in Nat
ASSUME BeforeAssumption ==
  /\ Before \subseteq [Databases -> Seq(Migrations)]
  /\ \A before \in Before, b \in Databases :
       \A i \in DOMAIN before[b] : before[b][i].version = i

VARIABLES
  server,         \* where each server is
  schema,         \* schema_migrations and what their statements left, by database
  migrating,      \* the holder of the migration lock
  marker,         \* .sendly-instance
  data,           \* the databases whose files a directory holds
  \* The cleanup job of each database.
  lock, due, starts, at,
  losses, crashes

J == INSTANCE Jobs WITH Replicas <- Servers, JobNames <- Databases

startup == <<server, schema, migrating, marker, data>>
jobs == <<lock, due, starts, at>>
vars == <<startup, jobs, losses, crashes>>

Down == [at |-> "down"]
Steps == {"lock", "read", "apply", "claim", "inspect", "create", "write"}

\* i is the migration or the directory a server has come to.
Up == [at: Steps \cup {"serving"}, i: Nat, adopt: BOOLEAN]

TypeOK ==
  /\ server \in [Servers -> {Down} \cup Up]
  /\ schema \in [Databases -> Seq(Migrations)]
  /\ migrating \in [Databases -> Servers \cup {None}]
  /\ marker \in [DirSet -> Databases \cup {Absent, Empty}]
  /\ data \in [DirSet -> SUBSET Databases]
  /\ J!TypeOK

Init ==
  /\ server = [s \in Servers |-> Down]
  /\ schema \in Before
  /\ migrating = [b \in Databases |-> None]
  /\ marker = [d \in DirSet |-> Absent]
  /\ data \in [DirSet -> {{}, {Settled}}]
  /\ J!Init

-----------------------------------------------------------------------------
DB(s) == DatabaseOf[s]
Serving(s) == server[s].at = "serving"
Goto(s, step, i) == server' = [server EXCEPT ![s].at = step, ![s].i = i]
Refuse(s) == server' = [server EXCEPT ![s] = Down]
Dir(s) == Dirs[server[s].i]
Migration(s) == [version |-> server[s].i, sql |-> Image[s][server[s].i]]
Versions(b) == {m.version : m \in ToSet(schema[b])}

\* A server starts; the operator lets it adopt storage only if there are files,
\* and all of them its own.
Boot(s) ==
  /\ server[s] = Down
  /\ \E adopt \in BOOLEAN :
       /\ adopt => UNION {data[d] : d \in DirSet} = {DB(s)}
       /\ server' = [server EXCEPT ![s] =
                       [at |-> "lock", i |-> 0, adopt |-> adopt]]
  /\ UNCHANGED <<schema, migrating, marker, data, jobs, losses, crashes>>

\* pg_advisory_lock, on a connection that does nothing else.
LockMigrations(s) ==
  /\ server[s].at = "lock"
  /\ migrating[DB(s)] = None
  /\ migrating' = [migrating EXCEPT ![DB(s)] = s]
  /\ Goto(s, "read", 1)
  /\ UNCHANGED <<schema, marker, data, jobs, losses, crashes>>

UnlockMigrations(s) ==
  migrating' = [migrating EXCEPT ![DB(s)] = IF @ = s THEN None ELSE @]

\* RunMigrations looks up the next migration: a changed one ends the start.
GetAppliedMigration(s) ==
  LET next == Migration(s) IN
  /\ server[s].at = "read"
  /\ \/ /\ server[s].i > Len(Image[s])
        /\ UnlockMigrations(s)
        /\ Goto(s, "claim", 1)
     \/ /\ server[s].i <= Len(Image[s])
        /\ next \in ToSet(schema[DB(s)])
        /\ Goto(s, "read", server[s].i + 1)
        /\ UNCHANGED migrating
     \/ /\ server[s].i <= Len(Image[s])
        /\ next \notin ToSet(schema[DB(s)])
        /\ next.version \in Versions(DB(s))
        /\ UnlockMigrations(s)
        /\ Refuse(s)
     \/ /\ server[s].i <= Len(Image[s])
        /\ next.version \notin Versions(DB(s))
        /\ Goto(s, "apply", server[s].i)
        /\ UNCHANGED migrating
  /\ UNCHANGED <<schema, marker, data, jobs, losses, crashes>>

\* Mutant: a version that is there already is no conflict.
ApplyAgain(s) ==
  /\ server[s].at = "apply"
  /\ schema' = [schema EXCEPT ![DB(s)] = Append(@, Migration(s))]
  /\ Goto(s, "read", server[s].i + 1)
  /\ UNCHANGED <<migrating, marker, data, jobs, losses, crashes>>

\* applyMigration: the statements and the row in one transaction, which a row
\* of the same version makes fail.
ApplyMigration(s) ==
  /\ server[s].at = "apply"
  /\ \/ /\ server[s].i \notin Versions(DB(s))
        /\ schema' = [schema EXCEPT ![DB(s)] = Append(@, Migration(s))]
        /\ Goto(s, "read", server[s].i + 1)
        /\ UNCHANGED migrating
     \/ /\ server[s].i \in Versions(DB(s))
        /\ UnlockMigrations(s)
        /\ Refuse(s)
        /\ UNCHANGED schema
  /\ UNCHANGED <<marker, data, jobs, losses, crashes>>

NextDir(s) ==
  IF server[s].i < Len(Dirs) THEN Goto(s, "claim", server[s].i + 1)
  ELSE server' = [server EXCEPT ![s] = [at |-> "serving", i |-> 0, adopt |-> FALSE]]

\* claimDir reads the marker.
ReadInstanceMarker(s) ==
  /\ server[s].at = "claim"
  /\ \/ marker[Dir(s)] = DB(s) /\ NextDir(s)
     \/ marker[Dir(s)] = Absent /\ Goto(s, "inspect", server[s].i)
     \/ marker[Dir(s)] \notin {DB(s), Absent} /\ Refuse(s)
  /\ UNCHANGED <<schema, migrating, marker, data, jobs, losses, crashes>>

\* hasData: files that nobody has marked are not claimed unasked.
HasData(s) ==
  /\ server[s].at = "inspect"
  /\ IF data[Dir(s)] # {} /\ ~server[s].adopt THEN Refuse(s)
     ELSE Goto(s, "create", server[s].i)
  /\ UNCHANGED <<schema, migrating, marker, data, jobs, losses, crashes>>

\* Mutant: the marker is created without O_EXCL.
CreateOverOther(s) ==
  /\ server[s].at = "create"
  /\ marker' = [marker EXCEPT ![Dir(s)] = Empty]
  /\ Goto(s, "write", server[s].i)
  /\ UNCHANGED <<schema, migrating, data, jobs, losses, crashes>>

\* writeInstanceMarker creates the file, and then writes to it; if the file is
\* there by now claimDir starts again, without adopting.
CreateMarker(s) ==
  /\ server[s].at = "create"
  /\ IF marker[Dir(s)] = Absent
     THEN /\ marker' = [marker EXCEPT ![Dir(s)] = Empty]
          /\ Goto(s, "write", server[s].i)
     ELSE /\ server' = [server EXCEPT ![s].at = "claim", ![s].adopt = FALSE]
          /\ UNCHANGED marker
  /\ UNCHANGED <<schema, migrating, data, jobs, losses, crashes>>

WriteInstanceMarker(s) ==
  /\ server[s].at = "write"
  /\ marker' = [marker EXCEPT ![Dir(s)] = DB(s)]
  /\ NextDir(s)
  /\ UNCHANGED <<schema, migrating, data, jobs, losses, crashes>>

\* A serving server stores a chunk or a file.
Store(s, d) ==
  /\ Serving(s)
  /\ DB(s) \notin data[d]
  /\ data' = [data EXCEPT ![d] = @ \cup {DB(s)}]
  /\ UNCHANGED <<server, schema, migrating, marker, jobs, losses, crashes>>

\* The cleanup goes through its job; its sweep deletes what is not its own.
Job(s) ==
  /\ Serving(s)
  /\ \/ /\ J!TryLock(s, DB(s)) \/ J!Claim(s, DB(s))
        /\ UNCHANGED data
     \/ /\ J!Finish(s, DB(s))
        /\ data' = [d \in DirSet |-> data[d] \cap {DB(s)}]
  /\ UNCHANGED <<server, schema, migrating, marker>>

IntervalPasses(b) == J!IntervalPasses(b) /\ UNCHANGED startup

\* A connection that holds the lock of the job or of the migrations is lost;
\* the migrations go on without it.
LoseConnection(s) ==
  \/ J!LoseConnection(s, DB(s)) /\ UNCHANGED startup
  \/ /\ migrating[DB(s)] = s
     /\ losses < MaxLosses /\ losses' = losses + 1
     /\ UnlockMigrations(s)
     /\ UNCHANGED <<server, schema, marker, data, jobs, crashes>>

\* A server dies, wherever it is.
Crash(s) ==
  /\ server[s] # Down
  /\ crashes < MaxCrashes /\ crashes' = crashes + 1
  /\ Refuse(s)
  /\ UnlockMigrations(s)
  /\ at' = [at EXCEPT ![s] = [b \in Databases |-> "idle"]]
  /\ lock' = [b \in Databases |-> IF lock[b] = s THEN None ELSE lock[b]]
  /\ UNCHANGED <<schema, marker, data, due, starts, losses>>

-----------------------------------------------------------------------------
RunMigrations(s) ==
  LockMigrations(s) \/ GetAppliedMigration(s) \/ ApplyMigration(s)
ClaimStorage(s) ==
  ReadInstanceMarker(s) \/ HasData(s) \/ CreateMarker(s)
  \/ WriteInstanceMarker(s)

Next ==
  \/ \E s \in Servers :
       \/ Boot(s) \/ RunMigrations(s) \/ ClaimStorage(s)
       \/ \E d \in DirSet : Store(s, d)
       \/ Job(s) \/ LoseConnection(s) \/ Crash(s)
  \/ \E b \in Databases : IntervalPasses(b)

Spec == Init /\ [][Next]_vars

\* A server that is down is started again and goes on, and one that serves
\* tries for the job every minute; a run of the job ends.
FairSpec ==
  /\ Spec
  /\ \A s \in Servers :
       WF_vars(Boot(s)) /\ WF_vars(RunMigrations(s)) /\ WF_vars(ClaimStorage(s))
       /\ WF_vars(Job(s))

-----------------------------------------------------------------------------
(* Properties *)

\* Nothing is ever swept from storage, for no server serves on the files of
\* another database: "two instances sharing storage would silently delete each
\* other's files" (storage/instance.go), not even when both start on one empty
\* directory at once, or a server dies between two directories.
NothingSwept == [][\A d \in DirSet : data[d] \subseteq data'[d]]_vars

\* The statements of every migration are in the schema once, in their order,
\* and those of its image are all there when a server serves; also when the
\* connection that holds the migration lock is lost and two servers migrate
\* together ("serialize concurrent runners", storage/migrator.go).
MigratedOnce ==
  /\ \A b \in Databases : \A i \in DOMAIN schema[b] : schema[b][i].version = i
  /\ \A s \in Servers : Serving(s) =>
       \A i \in DOMAIN Image[s] : schema[DB(s)][i].sql = Image[s][i]

\* "no replica has started the job named name within the last interval": also
\* when a server dies, or a lock is lost, while it runs it (RunJob).
StartedOncePerInterval == J!StartedOncePerInterval

\* "no replica is running it right now": two servers run a job together only
\* after a connection that held a lock was lost (RunJob).
OverlapOnlyIfLost == J!OverlapOnlyIfLost

\* A job that is due is started again, whichever server died while it ran it,
\* if a server of its database keeps coming to serve.
DueJobStarts ==
  \A b \in Databases :
    []<>(\E s \in Servers : DB(s) = b /\ Serving(s)) => (due[b] ~> ~due[b])

\* The code violates this one. A server that dies between creating a marker and
\* writing it leaves an empty one: every later start reads that as the marker
\* of another database and refuses, although the storage was never claimed by
\* one ("No marker, directory holds no data: claim it and start",
\* docs/OPERATIONS.md).
MarkersAreWritten ==
  \A d \in DirSet : marker[d] = Empty =>
    \E s \in Servers : server[s].at = "write" /\ Dir(s) = d

-----------------------------------------------------------------------------
(* What the properties rest on *)

Claiming == {"claim", "inspect", "create", "write"}

\* The first n migrations of a server's image are in its schema.
Applied(s, n) ==
  \A i \in 1 .. n :
    i \in DOMAIN schema[DB(s)] /\ schema[DB(s)][i].sql = Image[s][i]

MigrationInv ==
  \A s \in Servers :
    /\ server[s].at \in {"read", "apply"} =>
         /\ server[s].i # 0 /\ Applied(s, server[s].i - 1)
         /\ server[s].i <= Len(Image[s]) + 1
    /\ server[s].at = "apply" => server[s].i <= Len(Image[s])
    /\ server[s].at \in Claiming \cup {"serving"} => Applied(s, Len(Image[s]))

\* A marked directory has the files of its database only.
MarkedIsOwn ==
  \A d \in DirSet : marker[d] \in Databases => data[d] \subseteq {marker[d]}

\* A server has marked the directories it has come past.
ClaimedSoFar ==
  \A s \in Servers :
    /\ Serving(s) => \A d \in DirSet : marker[d] = DB(s)
    /\ server[s].at \in Claiming =>
         /\ server[s].i \in DOMAIN Dirs
         /\ \A i \in 1 .. server[s].i - 1 : marker[Dirs[i]] = DB(s)

\* What it is about to mark, or would adopt, has no other database's files.
MarksItsOwn ==
  \A s \in Servers :
    /\ server[s].at = "create" /\ marker[Dir(s)] = Absent =>
         data[Dir(s)] \subseteq {DB(s)}
    /\ server[s].at = "write" =>
         marker[Dir(s)] = Empty /\ data[Dir(s)] \subseteq {DB(s)}
    /\ server[s].at \in Steps /\ server[s].adopt =>
         \A d \in DirSet : marker[d] = Absent => data[d] \subseteq {DB(s)}

OneWriter ==
  \A s, t \in Servers :
    server[s].at = "write" /\ server[t].at = "write" /\ Dir(s) = Dir(t) => s = t

StorageInv == MarkedIsOwn /\ ClaimedSoFar /\ MarksItsOwn /\ OneWriter

\* A job starts only when it is due, and holds its lock until it is lost.
JobInv ==
  /\ \A b \in Databases : due[b] => starts[b] = 0
  /\ losses = 0 => \A s \in Servers, b \in Databases :
       at[s][b] # "idle" => lock[b] = s

DeploymentInv ==
  /\ MigratedOnce /\ StartedOncePerInterval
  /\ MigrationInv /\ StorageInv /\ JobInv
=============================================================================
