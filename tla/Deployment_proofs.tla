------------------------- MODULE Deployment_proofs -------------------------
(***************************************************************************)
(* A deployment of any servers, databases, images and directories: every   *)
(* migration is applied once, no storage is swept by another database, and *)
(* a job starts once per interval and by one server at a time.             *)
(***************************************************************************)
EXTENDS Deployment, TLAPS

----------------------------------------------------------------------------
(* Types *)

\* The directories by their numbers.
LEMMA Directories ==
  /\ DirSet = {Dirs[i] : i \in 1 .. Len(Dirs)}
  /\ Len(Dirs) \in Nat \ {0}
  /\ DOMAIN Dirs = 1 .. Len(Dirs)
<1>1. Dirs \in Seq(DirSet) /\ Dirs # << >>
  BY ConfigAssumption
<1> QED
  BY <1>1 DEF DirSet, ToSet

\* The state of a server.
LEMMA ServerKinds ==
  ASSUME TypeOK, NEW s \in Servers
  PROVE  /\ DB(s) \in Databases
         /\ server[s].at # "down" => server[s] \in Up
         /\ server[s].at = "down" => server[s] = Down
         /\ server[s].at \in Steps \cup {"serving", "down"}
         /\ Image[s] \in Seq(STRING)
BY ConfigAssumption DEF TypeOK, DB, Down, Up, Steps

\* A server that goes on leaves the others where they are.
LEMMA GotoFacts ==
  ASSUME TypeOK, NEW s \in Servers, server[s].at # "down", NEW step \in Steps,
         NEW i \in Nat, Goto(s, step, i)
  PROVE  /\ server' \in [Servers -> {Down} \cup Up]
         /\ server'[s].at = step /\ server'[s].i = i
         /\ server'[s].adopt = server[s].adopt
         /\ server'[s] \in Up
         /\ \A t \in Servers \ {s} : server'[t] = server[t]
<1>1. server[s] \in Up
  BY ServerKinds
<1>2. server' = [server EXCEPT ![s] = [server[s] EXCEPT !.at = step, !.i = i]]
  BY <1>1 DEF Goto, Up, TypeOK
<1>3. [server[s] EXCEPT !.at = step, !.i = i] \in Up
  BY <1>1 DEF Up
<1> QED
  BY <1>1, <1>2, <1>3 DEF TypeOK, Up

\* So does one that gives up, or dies.
LEMMA RefuseFacts ==
  ASSUME TypeOK, NEW s \in Servers, Refuse(s)
  PROVE  /\ server' \in [Servers -> {Down} \cup Up]
         /\ server'[s] = Down /\ Down.at = "down"
         /\ \A t \in Servers \ {s} : server'[t] = server[t]
BY DEF Refuse, TypeOK, Down

\* And one that has claimed a directory.
LEMMA NextDirFacts ==
  ASSUME TypeOK, NEW s \in Servers, server[s].at \in Steps, NextDir(s)
  PROVE  /\ server' \in [Servers -> {Down} \cup Up]
         /\ \/ /\ server[s].i < Len(Dirs)
               /\ server'[s].at = "claim" /\ server'[s].i = server[s].i + 1
               /\ server'[s].adopt = server[s].adopt
            \/ /\ ~(server[s].i < Len(Dirs))
               /\ server'[s].at = "serving"
         /\ \A t \in Servers \ {s} : server'[t] = server[t]
<1>1. server[s] \in Up /\ server[s].i \in Nat /\ server[s].at # "down"
  BY ServerKinds DEF Up, Steps
<1>2. CASE server[s].i < Len(Dirs)
  <2>1. Goto(s, "claim", server[s].i + 1) /\ server[s].i + 1 \in Nat
    BY <1>1, <1>2 DEF NextDir
  <2> QED
    BY <1>1, <1>2, <2>1, GotoFacts DEF Steps
<1>3. CASE ~(server[s].i < Len(Dirs))
  <2>1. server' = [server EXCEPT ![s] =
                     [at |-> "serving", i |-> 0, adopt |-> FALSE]]
    BY <1>3 DEF NextDir
  <2>2. [at |-> "serving", i |-> 0, adopt |-> FALSE] \in Up
    BY DEF Up
  <2> QED
    BY <1>3, <2>1, <2>2 DEF TypeOK
<1> QED
  BY <1>2, <1>3

\* A migration a server is to apply.
LEMMA MigrationTypes ==
  ASSUME TypeOK, MigrationInv, NEW s \in Servers, server[s].at = "apply"
  PROVE  /\ Migration(s) \in Migrations /\ server[s].i \in Nat \ {0}
         /\ server[s].i \in DOMAIN Image[s]
<1>1. server[s].i \in Nat /\ server[s].i # 0 /\ server[s].i <= Len(Image[s])
  BY ServerKinds DEF MigrationInv, Up
<1>2. Image[s] \in Seq(STRING)
  BY ServerKinds
<1>3. server[s].i \in DOMAIN Image[s] /\ Image[s][server[s].i] \in STRING
  BY <1>1, <1>2
<1> QED
  BY <1>1, <1>3 DEF Migration, Migrations

\* The steps of a start keep the types.
LEMMA StartTypes ==
  ASSUME TypeOK, MigrationInv, NEW s \in Servers,
         Boot(s) \/ RunMigrations(s) \/ ClaimStorage(s)
  PROVE  TypeOK'
<1>1. TypeOK' <=> /\ server' \in [Servers -> {Down} \cup Up]
                  /\ schema' \in [Databases -> Seq(Migrations)]
                  /\ migrating' \in [Databases -> Servers \cup {None}]
                  /\ marker' \in [DirSet -> Databases \cup {Absent, Empty}]
                  /\ data' \in [DirSet -> SUBSET Databases]
                  /\ J!TypeOK'
  BY DEF TypeOK
<1>2. UNCHANGED <<jobs, losses, crashes, data>>
  BY DEF Boot, RunMigrations, LockMigrations, GetAppliedMigration,
         ApplyMigration, ClaimStorage, ReadInstanceMarker, HasData,
         CreateMarker, WriteInstanceMarker
<1>3. J!TypeOK' /\ data' \in [DirSet -> SUBSET Databases]
  BY <1>2 DEF TypeOK, J!TypeOK, jobs
<1>4. migrating' \in [Databases -> Servers \cup {None}]
  BY DEF Boot, RunMigrations, LockMigrations, GetAppliedMigration,
         ApplyMigration, ClaimStorage, ReadInstanceMarker, HasData,
         CreateMarker, WriteInstanceMarker, UnlockMigrations, TypeOK
<1>5. schema' \in [Databases -> Seq(Migrations)]
  <2>1. CASE UNCHANGED schema
    BY <2>1 DEF TypeOK
  <2>2. CASE /\ server[s].at = "apply"
             /\ schema' = [schema EXCEPT ![DB(s)] = Append(@, Migration(s))]
    <3>1. schema[DB(s)] \in Seq(Migrations)
      BY ServerKinds DEF TypeOK
    <3>2. Append(schema[DB(s)], Migration(s)) \in Seq(Migrations)
      BY <2>2, <3>1, MigrationTypes
    <3> QED
      BY <2>2, <3>2 DEF TypeOK
  <2> QED
    BY <2>1, <2>2 DEF Boot, RunMigrations, LockMigrations,
                      GetAppliedMigration, ApplyMigration, ClaimStorage,
                      ReadInstanceMarker, HasData, CreateMarker,
                      WriteInstanceMarker
<1>6. marker' \in [DirSet -> Databases \cup {Absent, Empty}]
  BY ServerKinds DEF Boot, RunMigrations, LockMigrations, GetAppliedMigration,
                     ApplyMigration, ClaimStorage, ReadInstanceMarker,
                     HasData, CreateMarker, WriteInstanceMarker, TypeOK
<1>7. server' \in [Servers -> {Down} \cup Up]
  <2>1. CASE Boot(s)
    BY <2>1 DEF Boot, TypeOK, Up, Steps
  <2>2. CASE server[s].at # "down"
    <3>1. server[s].i \in Nat /\ server[s].i + 1 \in Nat
      BY <2>2, ServerKinds DEF Up
    <3>2. CASE \E step \in Steps, i \in Nat : Goto(s, step, i)
      BY <2>2, <3>2, GotoFacts
    <3>3. CASE Refuse(s)
      BY <3>3, RefuseFacts
    <3>4. CASE server[s].at \in Steps /\ NextDir(s)
      BY <3>4, NextDirFacts
    <3>5. CASE server' = [server EXCEPT ![s].at = "claim", ![s].adopt = FALSE]
      <4>1. server[s] \in Up
        BY <2>2, ServerKinds
      <4>2. [server[s] EXCEPT !.at = "claim", !.adopt = FALSE] \in Up
        BY <4>1 DEF Up, Steps
      <4>3. server' = [server EXCEPT ![s] =
                         [server[s] EXCEPT !.at = "claim", !.adopt = FALSE]]
        BY <3>5, <4>1 DEF TypeOK, Up
      <4> QED
        BY <4>2, <4>3 DEF TypeOK
    <3>6. CASE RunMigrations(s)
      BY <3>1, <3>2, <3>3, <3>6
         DEF RunMigrations, LockMigrations, GetAppliedMigration,
             ApplyMigration, Steps
    <3>7. CASE ClaimStorage(s)
      BY <3>1, <3>2, <3>3, <3>4, <3>5, <3>7
         DEF ClaimStorage, ReadInstanceMarker, HasData, CreateMarker,
             WriteInstanceMarker, Steps
    <3> QED
      BY <2>1, <3>6, <3>7
  <2> QED
    BY <2>1, <2>2 DEF RunMigrations, LockMigrations, GetAppliedMigration,
                      ApplyMigration, ClaimStorage, ReadInstanceMarker,
                      HasData, CreateMarker, WriteInstanceMarker
<1> QED
  BY <1>1, <1>3, <1>4, <1>5, <1>6, <1>7

\* The job and its faults keep the types.
LEMMA JobTypes ==
  ASSUME J!TypeOK, NEW s \in Servers, NEW b \in Databases,
         \/ J!TryLock(s, b) \/ J!Claim(s, b) \/ J!Finish(s, b)
         \/ J!LoseConnection(s, b)
  PROVE  J!TypeOK'
<1>1. \A step \in {"idle", "locked", "running"} : J!Move(s, b, step) =>
        at' \in [Servers -> [Databases -> {"idle", "locked", "running"}]]
  BY DEF J!Move, J!TypeOK
<1>2. J!Unlock(s, b) => lock' \in [Databases -> Servers \cup {None}]
  BY DEF J!Unlock, J!TypeOK
<1>3. J!Start(b) => starts' \in [Databases -> 0 .. 2]
  <2>1. starts[b] \in 0 .. 2
    BY DEF J!TypeOK
  <2>2. (IF starts[b] < 2 THEN starts[b] + 1 ELSE starts[b]) \in 0 .. 2
    BY <2>1
  <2> QED
    BY <2>2 DEF J!Start, J!TypeOK
<1>4. losses < MaxLosses => losses + 1 \in 0 .. MaxLosses
  BY ConfigAssumption DEF J!TypeOK
<1>5. CASE J!TryLock(s, b)
  BY <1>1, <1>5 DEF J!TryLock, J!TypeOK, J!faults
<1>6. CASE J!Claim(s, b)
  BY <1>1, <1>2, <1>3, <1>6 DEF J!Claim, J!TypeOK, J!faults
<1>7. CASE J!Finish(s, b)
  BY <1>1, <1>2, <1>7 DEF J!Finish, J!TypeOK, J!faults
<1>8. CASE J!LoseConnection(s, b)
  BY <1>1, <1>2, <1>4, <1>8 DEF J!LoseConnection, J!TypeOK
<1> QED
  BY <1>5, <1>6, <1>7, <1>8

\* Serving, losing a connection and dying keep the types.
LEMMA ServiceTypes ==
  ASSUME TypeOK, NEW s \in Servers,
         (\E d \in DirSet : Store(s, d)) \/ Job(s) \/ LoseConnection(s) \/ Crash(s)
  PROVE  TypeOK'
<1>0. DB(s) \in Databases /\ J!TypeOK
  BY ServerKinds DEF TypeOK
<1>1. ASSUME NEW d \in DirSet, Store(s, d)
      PROVE  TypeOK'
  BY <1>0, <1>1 DEF Store, TypeOK, J!TypeOK, jobs
<1>2. CASE Job(s)
  <2>1. J!TypeOK'
    BY <1>0, <1>2, JobTypes DEF Job
  <2>2. data' \in [DirSet -> SUBSET Databases]
    BY <1>2 DEF Job, TypeOK
  <2> QED
    BY <1>2, <2>1, <2>2 DEF Job, TypeOK
<1>3. CASE LoseConnection(s)
  <2>1. CASE J!LoseConnection(s, DB(s)) /\ UNCHANGED startup
    BY <1>0, <2>1, JobTypes DEF startup, TypeOK
  <2>2. CASE /\ losses < MaxLosses /\ losses' = losses + 1
             /\ UnlockMigrations(s)
             /\ UNCHANGED <<server, schema, marker, data, jobs, crashes>>
    BY <1>0, <2>2, ConfigAssumption
       DEF UnlockMigrations, TypeOK, J!TypeOK, jobs
  <2> QED
    BY <1>3, <2>1, <2>2 DEF LoseConnection
<1>4. CASE Crash(s)
  <2>1. server' \in [Servers -> {Down} \cup Up]
    BY <1>4, RefuseFacts DEF Crash
  <2>2. J!TypeOK'
    BY <1>0, <1>4, ConfigAssumption DEF Crash, J!TypeOK
  <2> QED
    BY <1>4, <2>1, <2>2 DEF Crash, UnlockMigrations, TypeOK
<1> QED
  BY <1>1, <1>2, <1>3, <1>4

\* Every step keeps the types.
LEMMA TypeStep ==
  ASSUME TypeOK, MigrationInv, [Next]_vars
  PROVE  TypeOK'
<1>1. CASE UNCHANGED vars
  BY <1>1 DEF vars, startup, jobs, TypeOK, J!TypeOK
<1>2. ASSUME NEW b \in Databases, IntervalPasses(b)
      PROVE  TypeOK'
  <2>1. J!TypeOK'
    BY <1>2 DEF IntervalPasses, J!IntervalPasses, J!faults, J!TypeOK, TypeOK
  <2> QED
    BY <1>2, <2>1 DEF IntervalPasses, startup, TypeOK
<1> QED
  BY <1>1, <1>2, StartTypes, ServiceTypes DEF Next

----------------------------------------------------------------------------
(* Migrations *)

\* A schema grows by the next migration of a server that applies it.
LEMMA SchemaMoves ==
  ASSUME TypeOK, MigrationInv, MigratedOnce, [Next]_vars, NEW b \in Databases
  PROVE  \/ schema'[b] = schema[b]
         \/ \E s \in Servers :
              /\ DB(s) = b /\ ApplyMigration(s) /\ server[s].at = "apply"
              /\ server[s].i = Len(schema[b]) + 1
              /\ Len(schema'[b]) = Len(schema[b]) + 1
              /\ \A i \in 1 .. Len(schema[b]) : schema'[b][i] = schema[b][i]
              /\ schema'[b][server[s].i] = Migration(s)
<1>1. ASSUME NEW s \in Servers, ApplyMigration(s)
      PROVE  \/ schema'[b] = schema[b]
             \/ /\ DB(s) = b /\ server[s].at = "apply"
                /\ server[s].i = Len(schema[b]) + 1
                /\ Len(schema'[b]) = Len(schema[b]) + 1
                /\ \A i \in 1 .. Len(schema[b]) : schema'[b][i] = schema[b][i]
                /\ schema'[b][server[s].i] = Migration(s)
  <2> DEFINE n == server[s].i
  <2>1. CASE UNCHANGED schema \/ DB(s) # b
    BY <1>1, <2>1 DEF ApplyMigration, TypeOK
  <2>2. CASE /\ n \notin Versions(b) /\ DB(s) = b
             /\ schema' = [schema EXCEPT ![b] = Append(schema[b], Migration(s))]
    <3>1. /\ Migration(s) \in Migrations /\ n \in Nat \ {0}
          /\ server[s].at = "apply"
      BY <1>1, MigrationTypes DEF ApplyMigration
    <3>2. schema[b] \in Seq(Migrations)
      BY DEF TypeOK
    <3>3. Applied(s, n - 1)
      BY <3>1 DEF MigrationInv
    <3>4. n - 1 <= Len(schema[b])
      <4>1. CASE n = 1
        BY <3>2, <4>1
      <4>2. CASE n # 1
        <5>1. n - 1 \in DOMAIN schema[b]
          BY <2>2, <3>1, <3>3, <4>2 DEF Applied
        <5> QED
          BY <3>2, <5>1
      <4> QED
        BY <4>1, <4>2
    <3>5. n \notin DOMAIN schema[b]
      <4> SUFFICES ASSUME n \in DOMAIN schema[b]
                   PROVE  n \in Versions(b)
        BY <2>2
      <4>1. schema[b][n].version = n
        BY DEF MigratedOnce
      <4>2. schema[b][n] \in ToSet(schema[b])
        BY DEF ToSet
      <4> QED
        BY <4>1, <4>2 DEF Versions
    <3>6. n = Len(schema[b]) + 1
      BY <3>1, <3>2, <3>4, <3>5
    <3>7. schema'[b] = Append(schema[b], Migration(s))
      BY <2>2 DEF TypeOK
    <3> QED
      BY <2>2, <3>1, <3>2, <3>6, <3>7
  <2> QED
    BY <1>1, <2>1, <2>2 DEF ApplyMigration
<1>2. CASE \E s \in Servers : ApplyMigration(s)
  BY <1>1, <1>2
<1>3. CASE ~\E s \in Servers : ApplyMigration(s)
  BY <1>3 DEF Next, vars, startup, Boot, RunMigrations, LockMigrations,
              GetAppliedMigration, ClaimStorage, ReadInstanceMarker, HasData,
              CreateMarker, WriteInstanceMarker, Store, Job, LoseConnection,
              Crash, IntervalPasses
<1> QED
  BY <1>2, <1>3

\* The first n migrations of an image are in the schema after a step.
AppliedNext(s, n) ==
  \A i \in 1 .. n :
    /\ i \in DOMAIN schema'[DB(s)]
    /\ schema'[DB(s)][i].sql = Image[s][i]

\* What is applied stays so.
LEMMA AppliedStays ==
  ASSUME TypeOK, MigrationInv, MigratedOnce, [Next]_vars, NEW s \in Servers,
         NEW n \in Nat, Applied(s, n)
  PROVE  AppliedNext(s, n)
<1>1. DB(s) \in Databases /\ schema[DB(s)] \in Seq(Migrations)
      /\ schema'[DB(s)] \in Seq(Migrations)
  BY ServerKinds, TypeStep DEF TypeOK
<1>2. /\ Len(schema[DB(s)]) <= Len(schema'[DB(s)])
      /\ \A i \in 1 .. Len(schema[DB(s)]) : schema'[DB(s)][i] = schema[DB(s)][i]
  BY <1>1, SchemaMoves
<1> QED
  BY <1>1, <1>2 DEF Applied, AppliedNext

\* A server moves by its own steps.
LEMMA ServerSteps ==
  ASSUME TypeOK, [Next]_vars, NEW s \in Servers
  PROVE  \/ server'[s] = server[s]
         \/ Boot(s) \/ RunMigrations(s) \/ ClaimStorage(s) \/ Crash(s)
<1>1. \/ UNCHANGED server
      \/ \E t \in Servers :
           \/ Boot(t) \/ RunMigrations(t) \/ ClaimStorage(t) \/ Crash(t)
  BY DEF Next, vars, startup, Store, Job, LoseConnection, IntervalPasses
<1>2. ASSUME NEW t \in Servers, t # s,
             \/ Boot(t) \/ RunMigrations(t) \/ ClaimStorage(t) \/ Crash(t)
      PROVE  server'[s] = server[s]
  BY <1>2 DEF Boot, RunMigrations, LockMigrations, GetAppliedMigration,
              ApplyMigration, ClaimStorage, ReadInstanceMarker, HasData,
              CreateMarker, WriteInstanceMarker, Crash, Goto, Refuse, NextDir,
              TypeOK
<1> QED
  BY <1>1, <1>2

\* A server comes past a migration that is applied.
LEMMA ProgressMoves ==
  ASSUME TypeOK, MigrationInv, [Next]_vars, NEW s \in Servers
  PROVE  \/ server'[s] = server[s]
         \/ server'[s].at \in {"down", "lock"}
         \/ server'[s].at = "read" /\ server'[s].i = 1
         \/ /\ server[s].at = "read" /\ server'[s].at = "read"
            /\ server'[s].i = server[s].i + 1 /\ server[s].i <= Len(Image[s])
            /\ Migration(s) \in ToSet(schema[DB(s)])
         \/ /\ server[s].at = "apply" /\ server'[s].at = "read"
            /\ server'[s].i = server[s].i + 1 /\ ApplyMigration(s)
            /\ schema' = [schema EXCEPT ![DB(s)] = Append(@, Migration(s))]
            /\ server[s].i \notin Versions(DB(s))
         \/ /\ server[s].at = "read" /\ server'[s].at = "apply"
            /\ server'[s].i = server[s].i /\ server[s].i <= Len(Image[s])
         \/ /\ server[s].at = "read" /\ server'[s].at \in Claiming
            /\ server[s].i > Len(Image[s])
         \/ /\ server[s].at \in Claiming
            /\ server'[s].at \in Claiming \cup {"serving"}
<1>2. CASE server'[s] = server[s]
  BY <1>2
<1>3. CASE Boot(s)
  BY <1>3 DEF Boot, TypeOK
<1>4. CASE Crash(s)
  BY <1>4, RefuseFacts DEF Crash
<1>5. CASE LockMigrations(s)
  BY <1>5, GotoFacts DEF LockMigrations, Steps
<1>6. CASE GetAppliedMigration(s)
  <2>1. server[s].at = "read" /\ server[s].i \in Nat /\ server[s].i + 1 \in Nat
    BY <1>6, ServerKinds DEF GetAppliedMigration, Up
  <2> QED
    BY <1>6, <2>1, GotoFacts, RefuseFacts
       DEF GetAppliedMigration, Steps, Claiming
<1>7. CASE ApplyMigration(s)
  <2>1. server[s].at = "apply" /\ server[s].i \in Nat /\ server[s].i + 1 \in Nat
    BY <1>7, ServerKinds DEF ApplyMigration, Up
  <2> QED
    BY <1>7, <2>1, GotoFacts, RefuseFacts DEF ApplyMigration, Steps
<1>8. CASE ClaimStorage(s)
  <2>1. server[s].at \in Claiming /\ server[s].at \in Steps
        /\ server[s].i \in Nat
    BY <1>8, ServerKinds DEF ClaimStorage, ReadInstanceMarker, HasData,
                             CreateMarker, WriteInstanceMarker, Up, Claiming,
                             Steps
  <2>2. CASE Refuse(s)
    BY <2>2, RefuseFacts
  <2>3. CASE NextDir(s)
    BY <2>1, <2>3, NextDirFacts DEF Claiming
  <2>4. CASE \E step \in Claiming : Goto(s, step, server[s].i)
    BY <2>1, <2>4, GotoFacts DEF Claiming, Steps
  <2>5. CASE server' = [server EXCEPT ![s].at = "claim", ![s].adopt = FALSE]
    <3>1. server[s] \in Up
      BY <2>1, ServerKinds DEF Steps
    <3>2. server'[s].at = "claim"
      BY <2>5, <3>1 DEF TypeOK, Up
    <3> QED
      BY <2>1, <3>2 DEF Claiming
  <2> QED
    BY <1>8, <2>2, <2>3, <2>4, <2>5
       DEF ClaimStorage, ReadInstanceMarker, HasData, CreateMarker,
           WriteInstanceMarker, Claiming
<1> QED
  BY <1>2, <1>3, <1>4, <1>5, <1>6, <1>7, <1>8, ServerSteps DEF RunMigrations

\* A server has applied what it has come past.
LEMMA ProgressStep ==
  ASSUME TypeOK, MigrationInv, MigratedOnce, [Next]_vars, NEW s \in Servers
  PROVE  /\ server'[s].at \in {"read", "apply"} =>
              /\ server'[s].i # 0 /\ AppliedNext(s, server'[s].i - 1)
              /\ server'[s].i <= Len(Image[s]) + 1
         /\ server'[s].at = "apply" => server'[s].i <= Len(Image[s])
         /\ server'[s].at \in Claiming \cup {"serving"} =>
              AppliedNext(s, Len(Image[s]))
<1> DEFINE n == server[s].i
           all == Len(Image[s])
<1>1. all \in Nat /\ Image[s] \in Seq(STRING) /\ DB(s) \in Databases
      /\ schema[DB(s)] \in Seq(Migrations)
  BY ServerKinds DEF TypeOK
<1>2. server[s].at # "down" => n \in Nat
  BY ServerKinds DEF Up
<1>3. server[s].at \in {"read", "apply"} =>
        /\ n \in Nat \ {0} /\ n - 1 \in Nat /\ n <= all + 1
        /\ AppliedNext(s, n - 1) /\ Applied(s, n - 1)
  BY <1>2, AppliedStays DEF MigrationInv
<1>4. server[s].at \in Claiming \cup {"serving"} => AppliedNext(s, all)
  BY <1>1, AppliedStays DEF MigrationInv
<1>5. server[s].at = "apply" => n <= all
  BY DEF MigrationInv
<1>6. CASE server'[s] = server[s]
  BY <1>3, <1>4, <1>5, <1>6
<1>7. CASE server'[s].at \in {"down", "lock"}
  BY <1>7 DEF Claiming
<1>8. CASE server'[s].at = "read" /\ server'[s].i = 1
  BY <1>1, <1>8 DEF AppliedNext, Claiming
<1>9. CASE /\ server[s].at = "read" /\ server'[s].at = "read"
           /\ server'[s].i = n + 1 /\ n <= all
           /\ Migration(s) \in ToSet(schema[DB(s)])
  <2>1. PICK i \in DOMAIN schema[DB(s)] : schema[DB(s)][i] = Migration(s)
    BY <1>9 DEF ToSet
  <2>2. i = n /\ schema[DB(s)][n].sql = Image[s][n]
    BY <1>1, <2>1 DEF MigratedOnce, Migration
  <2>3. Applied(s, n)
    BY <1>3, <1>9, <2>1, <2>2 DEF Applied
  <2>4. AppliedNext(s, n)
    <3>1. n \in Nat
      BY <1>3, <1>9
    <3> QED
      BY <2>3, <3>1, AppliedStays
  <2> QED
    BY <1>1, <1>3, <1>9, <2>4 DEF Claiming
<1>10. CASE /\ server[s].at = "apply" /\ server'[s].at = "read"
            /\ server'[s].i = n + 1 /\ ApplyMigration(s)
            /\ schema' = [schema EXCEPT ![DB(s)] = Append(@, Migration(s))]
            /\ n \notin Versions(DB(s))
  <2>1. Len(schema[DB(s)]) >= n - 1
    <3>1. CASE n = 1
      BY <1>1, <3>1
    <3>2. CASE n # 1
      <4>1. n \in Nat \ {0} /\ Applied(s, n - 1)
        BY <1>3, <1>10
      <4>2. n - 1 \in 1 .. n - 1
        BY <3>2, <4>1
      <4>3. n - 1 \in DOMAIN schema[DB(s)]
        BY <4>1, <4>2 DEF Applied
      <4> QED
        BY <1>1, <4>1, <4>3
    <3> QED
      BY <3>1, <3>2
  <2>2. n \notin DOMAIN schema[DB(s)]
    <3> SUFFICES ASSUME n \in DOMAIN schema[DB(s)]
                 PROVE  n \in Versions(DB(s))
      BY <1>10
    <3>1. schema[DB(s)][n].version = n
      BY <1>1 DEF MigratedOnce
    <3> QED
      BY <3>1 DEF Versions, ToSet
  <2>3. n = Len(schema[DB(s)]) + 1
    BY <1>1, <1>3, <1>10, <2>1, <2>2
  <2>4. schema'[DB(s)] = Append(schema[DB(s)], Migration(s))
    BY <1>1, <1>10 DEF TypeOK
  <2>5. n \in DOMAIN schema'[DB(s)] /\ schema'[DB(s)][n] = Migration(s)
    BY <1>1, <2>3, <2>4
  <2>6. AppliedNext(s, n)
    <3>1. AppliedNext(s, n - 1) /\ n \in Nat \ {0}
      BY <1>3, <1>10
    <3>2. schema'[DB(s)][n].sql = Image[s][n]
      BY <2>5 DEF Migration
    <3>3. \A i \in 1 .. n : i = n \/ i \in 1 .. n - 1
      BY <3>1
    <3> QED
      BY <2>5, <3>1, <3>2, <3>3 DEF AppliedNext
  <2> QED
    BY <1>1, <1>3, <1>5, <1>10, <2>6 DEF Claiming
<1>11. CASE /\ server[s].at = "read" /\ server'[s].at = "apply"
            /\ server'[s].i = n /\ n <= all
  BY <1>3, <1>11 DEF Claiming
<1>12. CASE /\ server[s].at = "read" /\ server'[s].at \in Claiming /\ n > all
  <2>1. n - 1 = all
    BY <1>1, <1>3, <1>12
  <2> QED
    BY <1>3, <1>12, <2>1 DEF Claiming
<1>13. CASE /\ server[s].at \in Claiming
            /\ server'[s].at \in Claiming \cup {"serving"}
  BY <1>4, <1>13 DEF Claiming
<1> QED
  BY <1>6, <1>7, <1>8, <1>9, <1>10, <1>11, <1>12, <1>13, ProgressMoves

\* Every step keeps the migrations in order.
LEMMA MigrationStep ==
  ASSUME TypeOK, MigrationInv, MigratedOnce, [Next]_vars
  PROVE  MigrationInv' /\ MigratedOnce'
<1>0. TypeOK'
  BY TypeStep
<1>1. MigrationInv'
  BY ProgressStep DEF MigrationInv, Applied, AppliedNext, DB
<1>2. ASSUME NEW b \in Databases, NEW i \in DOMAIN schema'[b]
      PROVE  schema'[b][i].version = i
  <2>1. CASE schema'[b] = schema[b]
    BY <1>2, <2>1 DEF MigratedOnce
  <2>2. ASSUME NEW s \in Servers, server[s].i = Len(schema[b]) + 1,
               Len(schema'[b]) = Len(schema[b]) + 1,
               \A j \in 1 .. Len(schema[b]) : schema'[b][j] = schema[b][j],
               schema'[b][server[s].i] = Migration(s)
        PROVE  schema'[b][i].version = i
    <3>1. schema[b] \in Seq(Migrations) /\ schema'[b] \in Seq(Migrations)
      BY <1>0 DEF TypeOK
    <3>2. i \in 1 .. Len(schema[b]) \/ i = server[s].i
      BY <1>2, <2>2, <3>1
    <3>3. CASE i \in 1 .. Len(schema[b])
      BY <2>2, <3>1, <3>3 DEF MigratedOnce
    <3> QED
      BY <2>2, <3>2, <3>3 DEF Migration
  <2> QED
    BY <2>1, <2>2, SchemaMoves
<1>3. ASSUME NEW s \in Servers, server'[s].at = "serving",
             NEW i \in DOMAIN Image[s]
      PROVE  schema'[DB(s)][i].sql = Image[s][i]
  <2>1. AppliedNext(s, Len(Image[s])) /\ i \in 1 .. Len(Image[s])
    BY <1>3, ProgressStep, ServerKinds
  <2> QED
    BY <2>1 DEF AppliedNext
<1> QED
  BY <1>1, <1>2, <1>3 DEF MigratedOnce, Serving, DB

----------------------------------------------------------------------------
(* Storage *)

\* Directory of a server that claims.
LEMMA ClaimedDirs ==
  ASSUME TypeOK, ClaimedSoFar, NEW s \in Servers, server[s].at \in Claiming
  PROVE  server[s].i \in 1 .. Len(Dirs) /\ Dir(s) \in DirSet
BY Directories DEF ClaimedSoFar, Dir

\* A marker is created where there is none, and written by who created it.
LEMMA MarkerMoves ==
  ASSUME TypeOK, ClaimedSoFar, MarksItsOwn, [Next]_vars, NEW d \in DirSet
  PROVE  \/ marker'[d] = marker[d]
         \/ marker[d] = Absent /\ marker'[d] = Empty /\ data'[d] = data[d]
         \/ \E s \in Servers :
              /\ server[s].at = "write" /\ Dir(s) = d /\ marker[d] = Empty
              /\ marker'[d] = DB(s) /\ data'[d] = data[d]
              /\ server'[s].at \in {"claim", "serving"}
<1>1. ASSUME NEW s \in Servers, CreateMarker(s)
      PROVE  \/ marker'[d] = marker[d]
             \/ marker[d] = Absent /\ marker'[d] = Empty /\ data'[d] = data[d]
  BY <1>1 DEF CreateMarker, TypeOK
<1>2. ASSUME NEW s \in Servers, WriteInstanceMarker(s)
      PROVE  \/ marker'[d] = marker[d]
             \/ /\ server[s].at = "write" /\ Dir(s) = d /\ marker[d] = Empty
                /\ marker'[d] = DB(s) /\ data'[d] = data[d]
                /\ server'[s].at \in {"claim", "serving"}
  <2>1. server[s].at = "write" /\ NextDir(s) /\ UNCHANGED data
        /\ marker' = [marker EXCEPT ![Dir(s)] = DB(s)]
    BY <1>2 DEF WriteInstanceMarker
  <2>2. server'[s].at \in {"claim", "serving"}
    BY <2>1, NextDirFacts DEF Steps
  <2>3. marker[Dir(s)] = Empty
    BY <2>1 DEF MarksItsOwn
  <2> QED
    BY <2>1, <2>2, <2>3 DEF TypeOK
<1>3. CASE UNCHANGED marker
  BY <1>3
<1> QED
  BY <1>1, <1>2, <1>3 DEF Next, vars, startup, Boot, RunMigrations,
                          LockMigrations, GetAppliedMigration, ApplyMigration,
                          ClaimStorage, ReadInstanceMarker, HasData, Store,
                          Job, LoseConnection, Crash, IntervalPasses

\* A server's mark stays.
LEMMA MarkedStays ==
  ASSUME TypeOK, ClaimedSoFar, MarksItsOwn, [Next]_vars, NEW d \in DirSet,
         marker[d] \in Databases
  PROVE  marker'[d] = marker[d]
BY MarkerMoves, ConfigAssumption

\* A directory gets files from the database that has marked it; a sweep finds
\* nothing to delete.
LEMMA DataMoves ==
  ASSUME TypeOK, MarkedIsOwn, ClaimedSoFar, [Next]_vars, NEW d \in DirSet
  PROVE  \/ data'[d] = data[d]
         \/ /\ marker[d] \in Databases /\ UNCHANGED <<server, marker>>
            /\ data'[d] = data[d] \cup {marker[d]}
<1>1. ASSUME NEW s \in Servers, NEW e \in DirSet, Store(s, e)
      PROVE  \/ data'[d] = data[d]
             \/ /\ marker[d] \in Databases /\ UNCHANGED <<server, marker>>
                /\ data'[d] = data[d] \cup {marker[d]}
  <2>1. marker[d] = DB(s) /\ DB(s) \in Databases
    BY <1>1, ServerKinds DEF Store, ClaimedSoFar
  <2> QED
    BY <1>1, <2>1 DEF Store, TypeOK
<1>2. ASSUME NEW s \in Servers, Job(s)
      PROVE  data'[d] = data[d]
  <2>1. marker[d] = DB(s) /\ DB(s) \in Databases
    BY <1>2, ServerKinds DEF Job, ClaimedSoFar
  <2>2. data[d] \subseteq {DB(s)}
    BY <2>1 DEF MarkedIsOwn
  <2>3. CASE UNCHANGED data
    BY <2>3
  <2>4. CASE data' = [e \in DirSet |-> data[e] \cap {DB(s)}]
    BY <2>2, <2>4
  <2> QED
    BY <1>2, <2>3, <2>4 DEF Job
<1>3. CASE UNCHANGED data
  BY <1>3
<1> QED
  BY <1>1, <1>2, <1>3 DEF Next, vars, startup, Boot, RunMigrations,
                          LockMigrations, GetAppliedMigration, ApplyMigration,
                          ClaimStorage, ReadInstanceMarker, HasData,
                          CreateMarker, WriteInstanceMarker, LoseConnection,
                          Crash, IntervalPasses

\* What a claim does to its server.
ClaimMove(s) ==
  \/ server'[s] = server[s]
  \/ server'[s].at \notin Claiming \cup {"serving"}
  \/ server'[s].at = "claim" /\ server'[s].i = 1
  \/ /\ server[s].at \in Claiming /\ server'[s].at \in {"claim", "inspect"}
     /\ server'[s].i = server[s].i
  \/ /\ server[s].at = "inspect" /\ server'[s].at = "create"
     /\ server'[s].i = server[s].i /\ UNCHANGED <<marker, data>>
     /\ data[Dir(s)] = {} \/ server[s].adopt
  \/ /\ server[s].at = "create" /\ server'[s].at = "write"
     /\ server'[s].i = server[s].i /\ UNCHANGED data
     /\ marker[Dir(s)] = Absent /\ marker'[Dir(s)] = Empty
  \/ /\ server[s].at \in Claiming /\ marker'[Dir(s)] = DB(s)
     /\ \/ server[s].i < Len(Dirs) /\ server'[s].at = "claim"
                                  /\ server'[s].i = server[s].i + 1
        \/ ~(server[s].i < Len(Dirs)) /\ server'[s].at = "serving"

\* One server moves at a time.
LEMMA OneMoves ==
  ASSUME TypeOK, [Next]_vars, NEW s \in Servers, NEW t \in Servers,
         server'[s] # server[s], server'[t] # server[t]
  PROVE  s = t
<1> DEFINE Only(x) == \A y \in Servers \ {x} : server'[y] = server[y]
<1>0. server = [x \in Servers |-> server[x]]
  BY DEF TypeOK
<1>1. ASSUME NEW x \in Servers,
             \/ Refuse(x) \/ NextDir(x)
             \/ \E step, i : Goto(x, step, i)
             \/ \E v : server' = [server EXCEPT ![x] = v]
      PROVE  Only(x)
  BY <1>0, <1>1 DEF Refuse, NextDir, Goto
<1>2. ASSUME NEW x \in Servers, Boot(x) \/ RunMigrations(x) \/ Crash(x)
      PROVE  Only(x)
  <2>1. CASE Boot(x) \/ LockMigrations(x) \/ ApplyMigration(x) \/ Crash(x)
    BY <1>1, <2>1 DEF Boot, LockMigrations, ApplyMigration, Crash
  <2>2. CASE GetAppliedMigration(x)
    BY <1>1, <2>2 DEF GetAppliedMigration
  <2> QED
    BY <1>2, <2>1, <2>2 DEF RunMigrations
<1>3. ASSUME NEW x \in Servers, ClaimStorage(x)
      PROVE  Only(x)
  BY <1>1, <1>3 DEF ClaimStorage, ReadInstanceMarker, HasData, CreateMarker,
                    WriteInstanceMarker
<1>4. \/ \E x \in Servers : Boot(x) \/ RunMigrations(x) \/ ClaimStorage(x) \/ Crash(x)
      \/ UNCHANGED server
  BY DEF Next, vars, startup, Store, Job, LoseConnection, IntervalPasses
<1>5. \E x \in Servers : Only(x)
  BY <1>2, <1>3, <1>4
<1> QED
  BY <1>5

\* Every step is such a move, and only the operator lets a server adopt.
LEMMA ClaimMoves ==
  ASSUME TypeOK, ClaimedSoFar, [Next]_vars, NEW s \in Servers
  PROVE  /\ ClaimMove(s)
         /\ server'[s].at \in Steps /\ server'[s].adopt =>
              \/ server[s].at \in Steps /\ server[s].adopt
              \/ /\ UNION {data[d] : d \in DirSet} = {DB(s)}
                 /\ UNCHANGED <<marker, data>>
<1> DEFINE Adopts ==
             server'[s].at \in Steps /\ server'[s].adopt =>
               \/ server[s].at \in Steps /\ server[s].adopt
               \/ /\ UNION {data[d] : d \in DirSet} = {DB(s)}
                  /\ UNCHANGED <<marker, data>>
<1>1. CASE server'[s] = server[s]
  BY <1>1 DEF ClaimMove
<1>2. CASE Boot(s)
  BY <1>2 DEF Boot, TypeOK, ClaimMove, Claiming
<1>3. CASE Crash(s)
  BY <1>3, RefuseFacts DEF Crash, ClaimMove, Claiming, Steps
<1>4. CASE LockMigrations(s)
  BY <1>4, GotoFacts DEF LockMigrations, ClaimMove, Claiming, Steps
<1>5. CASE GetAppliedMigration(s)
  <2>1. server[s].at = "read" /\ server[s].i \in Nat /\ server[s].i + 1 \in Nat
    BY <1>5, ServerKinds DEF GetAppliedMigration, Up
  <2>2. CASE Refuse(s)
    BY <2>2, RefuseFacts DEF ClaimMove, Claiming, Steps
  <2>3. CASE Goto(s, "claim", 1)
    BY <2>1, <2>3, GotoFacts DEF ClaimMove, Steps
  <2>4. CASE \E step \in {"read", "apply"}, i \in Nat : Goto(s, step, i)
    BY <2>1, <2>4, GotoFacts DEF ClaimMove, Claiming, Steps
  <2> QED
    BY <1>5, <2>1, <2>2, <2>3, <2>4 DEF GetAppliedMigration
<1>6. CASE ApplyMigration(s)
  <2>1. server[s].at = "apply" /\ server[s].i \in Nat /\ server[s].i + 1 \in Nat
    BY <1>6, ServerKinds DEF ApplyMigration, Up
  <2>2. CASE Refuse(s)
    BY <2>2, RefuseFacts DEF ClaimMove, Claiming, Steps
  <2>3. CASE Goto(s, "read", server[s].i + 1)
    BY <2>1, <2>3, GotoFacts DEF ClaimMove, Claiming, Steps
  <2> QED
    BY <1>6, <2>2, <2>3 DEF ApplyMigration
<1>7. CASE ReadInstanceMarker(s)
  <2>1. server[s].at = "claim" /\ server[s].i \in Nat /\ Dir(s) \in DirSet
        /\ UNCHANGED marker
    BY <1>7, ServerKinds, ClaimedDirs DEF ReadInstanceMarker, Up, Claiming
  <2>2. CASE Refuse(s)
    BY <2>2, RefuseFacts DEF ClaimMove, Claiming, Steps
  <2>3. CASE Goto(s, "inspect", server[s].i)
    BY <2>1, <2>3, GotoFacts DEF ClaimMove, Claiming, Steps
  <2>4. CASE marker[Dir(s)] = DB(s) /\ NextDir(s)
    BY <2>1, <2>4, NextDirFacts DEF ClaimMove, Claiming, Steps
  <2> QED
    BY <1>7, <2>2, <2>3, <2>4 DEF ReadInstanceMarker
<1>8. CASE HasData(s)
  <2>1. server[s].at = "inspect" /\ server[s].i \in Nat
        /\ UNCHANGED <<marker, data>>
    BY <1>8, ServerKinds DEF HasData, Up
  <2>2. CASE Refuse(s)
    BY <2>2, RefuseFacts DEF ClaimMove, Claiming, Steps
  <2>3. CASE Goto(s, "create", server[s].i) /\ (data[Dir(s)] = {} \/ server[s].adopt)
    BY <2>1, <2>3, GotoFacts DEF ClaimMove, Claiming, Steps
  <2> QED
    BY <1>8, <2>2, <2>3 DEF HasData
<1>9. CASE CreateMarker(s)
  <2>1. server[s].at = "create" /\ server[s].i \in Nat /\ Dir(s) \in DirSet
        /\ UNCHANGED data /\ server[s] \in Up
    BY <1>9, ServerKinds, ClaimedDirs DEF CreateMarker, Up, Claiming
  <2>2. CASE /\ marker[Dir(s)] = Absent
             /\ marker' = [marker EXCEPT ![Dir(s)] = Empty]
             /\ Goto(s, "write", server[s].i)
    <3>1. marker'[Dir(s)] = Empty
      BY <2>1, <2>2 DEF TypeOK
    <3> QED
      BY <2>1, <2>2, <3>1, GotoFacts DEF ClaimMove, Claiming, Steps
  <2>3. CASE server' = [server EXCEPT ![s].at = "claim", ![s].adopt = FALSE]
    <3>1. /\ server'[s].at = "claim" /\ server'[s].i = server[s].i
          /\ ~server'[s].adopt
      BY <2>1, <2>3 DEF TypeOK, Up
    <3> QED
      BY <2>1, <3>1 DEF ClaimMove, Claiming
  <2> QED
    BY <1>9, <2>2, <2>3 DEF CreateMarker
<1>10. CASE WriteInstanceMarker(s)
  <2>1. server[s].at = "write" /\ server[s].i \in Nat /\ Dir(s) \in DirSet
    BY <1>10, ServerKinds, ClaimedDirs DEF WriteInstanceMarker, Up, Claiming
  <2>2. marker'[Dir(s)] = DB(s) /\ NextDir(s)
    BY <1>10, <2>1 DEF WriteInstanceMarker, TypeOK
  <2> QED
    BY <2>1, <2>2, NextDirFacts DEF ClaimMove, Claiming, Steps
<1>11. \/ server'[s] = server[s]
       \/ Boot(s) \/ RunMigrations(s) \/ ClaimStorage(s) \/ Crash(s)
  BY ServerSteps
<1> QED
  BY <1>1, <1>2, <1>3, <1>4, <1>5, <1>6, <1>7, <1>8, <1>9, <1>10, <1>11
     DEF RunMigrations, ClaimStorage

\* Every step keeps the storage apart.
LEMMA StorageStep ==
  ASSUME TypeOK, StorageInv, [Next]_vars
  PROVE  StorageInv'
<1> USE DEF StorageInv
<1>1. Absent # Empty /\ Absent \notin Databases /\ Empty \notin Databases
  BY ConfigAssumption DEF Absent, Empty
<1>2. \A d \in DirSet : marker'[d] \notin Databases => data'[d] = data[d]
  BY DataMoves, MarkedStays
<1>3. ASSUME NEW s \in Servers, NEW t \in Servers, server[s].at = "write",
             server[t].at = "write", Dir(s) = Dir(t)
      PROVE  s = t
  BY <1>3 DEF OneWriter
<1>4. MarkedIsOwn'
  <2> SUFFICES ASSUME NEW d \in DirSet, marker'[d] \in Databases
               PROVE  data'[d] \subseteq {marker'[d]}
    BY DEF MarkedIsOwn
  <2>1. CASE marker'[d] = marker[d]
    BY <2>1, DataMoves DEF MarkedIsOwn
  <2>2. ASSUME NEW s \in Servers, server[s].at = "write", Dir(s) = d,
               marker'[d] = DB(s), data'[d] = data[d]
        PROVE  data'[d] \subseteq {marker'[d]}
    BY <2>2 DEF MarksItsOwn
  <2> QED
    BY <1>1, <2>1, <2>2, MarkerMoves
<1>5. ASSUME NEW s \in Servers
      PROVE  /\ server'[s].at = "serving" => \A d \in DirSet : marker'[d] = DB(s)
             /\ server'[s].at \in Claiming =>
                  /\ server'[s].i \in DOMAIN Dirs
                  /\ \A i \in 1 .. server'[s].i - 1 : marker'[Dirs[i]] = DB(s)
  <2>1. DB(s) \in Databases /\ DOMAIN Dirs = 1 .. Len(Dirs)
        /\ Len(Dirs) \in Nat \ {0}
        /\ \A i \in 1 .. Len(Dirs) : Dirs[i] \in DirSet
    BY ServerKinds, Directories
  <2>2. \A d \in DirSet : marker[d] = DB(s) => marker'[d] = DB(s)
    BY <2>1, MarkedStays
  <2>3. server[s].at \in Claiming =>
          /\ server[s].i \in 1 .. Len(Dirs)
          /\ \A i \in 1 .. server[s].i - 1 : marker'[Dirs[i]] = DB(s)
    BY <2>1, <2>2 DEF ClaimedSoFar
  <2>4. server[s].at = "serving" => \A d \in DirSet : marker'[d] = DB(s)
    BY <2>2 DEF ClaimedSoFar, Serving
  <2>5. CASE server'[s] = server[s]
    BY <2>1, <2>3, <2>4, <2>5
  <2>6. CASE server'[s].at = "claim" /\ server'[s].i = 1
    BY <2>1, <2>6
  <2>7. CASE /\ server[s].at \in Claiming /\ server'[s].at \in Claiming
             /\ server'[s].i = server[s].i
    BY <2>1, <2>3, <2>7 DEF Claiming
  <2>8. CASE /\ server[s].at \in Claiming /\ marker'[Dir(s)] = DB(s)
             /\ server[s].i < Len(Dirs) /\ server'[s].at = "claim"
             /\ server'[s].i = server[s].i + 1
    <3>1. \A i \in 1 .. server[s].i : i = server[s].i \/ i \in 1 .. server[s].i - 1
      BY <2>3, <2>8
    <3>2. server'[s].i \in 1 .. Len(Dirs) /\ server'[s].i - 1 = server[s].i
      BY <2>1, <2>3, <2>8
    <3> QED
      BY <2>1, <2>3, <2>8, <3>1, <3>2 DEF Dir
  <2>9. CASE /\ server[s].at \in Claiming /\ marker'[Dir(s)] = DB(s)
             /\ ~(server[s].i < Len(Dirs)) /\ server'[s].at = "serving"
    <3>1. server[s].i = Len(Dirs)
      BY <2>1, <2>3, <2>9
    <3>2. \A i \in 1 .. Len(Dirs) : i = server[s].i \/ i \in 1 .. server[s].i - 1
      <4>1. \A n \in Nat \ {0} : \A i \in 1 .. n : i = n \/ i \in 1 .. n - 1
        OBVIOUS
      <4> QED
        BY <2>1, <3>1, <4>1
    <3>3. \A i \in 1 .. Len(Dirs) : marker'[Dirs[i]] = DB(s)
      BY <2>3, <2>9, <3>2 DEF Dir
    <3> QED
      BY <2>9, <3>3, Directories DEF Claiming
  <2>10. CASE server'[s].at \notin Claiming \cup {"serving"}
    BY <2>10
  <2> QED
    BY <2>5, <2>6, <2>7, <2>8, <2>9, <2>10, ClaimMoves DEF ClaimMove, Claiming
<1>6. ClaimedSoFar'
  BY <1>5 DEF ClaimedSoFar, Serving, DB
<1>7. ASSUME NEW s \in Servers, server'[s].at = "create",
             marker'[Dirs[server'[s].i]] = Absent
      PROVE  data'[Dirs[server'[s].i]] \subseteq {DB(s)}
  <2> DEFINE d == Dirs[server'[s].i]
  <2>1. d \in DirSet
    BY <1>5, <1>7, Directories DEF Claiming
  <2>2. marker[d] = Absent /\ data'[d] = data[d]
    BY <1>1, <1>2, <1>7, <2>1, MarkerMoves, ServerKinds
  <2>3. CASE server'[s] = server[s]
    BY <1>7, <2>2, <2>3 DEF MarksItsOwn, Dir
  <2>4. CASE /\ server[s].at = "inspect" /\ server'[s].i = server[s].i
             /\ data[Dir(s)] = {} \/ server[s].adopt
    BY <2>1, <2>2, <2>4 DEF MarksItsOwn, Dir, Steps
  <2> QED
    BY <1>7, <2>3, <2>4, ClaimMoves DEF ClaimMove, Claiming
<1>8. ASSUME NEW s \in Servers, server'[s].at = "write"
      PROVE  /\ marker'[Dirs[server'[s].i]] = Empty
             /\ data'[Dirs[server'[s].i]] \subseteq {DB(s)}
  <2> DEFINE d == Dirs[server'[s].i]
  <2>1. d \in DirSet
    BY <1>5, <1>8, Directories DEF Claiming
  <2>2. CASE server'[s] = server[s]
    <3>1. d = Dir(s) /\ marker[d] = Empty /\ data[d] \subseteq {DB(s)}
      BY <1>8, <2>2 DEF MarksItsOwn, Dir
    <3>2. marker'[d] = Empty
      BY <1>1, <1>3, <1>8, <2>1, <2>2, <3>1, MarkerMoves
    <3> QED
      BY <1>1, <1>2, <2>1, <3>1, <3>2
  <2>3. CASE /\ server[s].at = "create" /\ server'[s].i = server[s].i
             /\ UNCHANGED data /\ marker[Dir(s)] = Absent
             /\ marker'[Dir(s)] = Empty
    BY <2>3 DEF MarksItsOwn, Dir
  <2> QED
    BY <1>8, <2>2, <2>3, ClaimMoves DEF ClaimMove, Claiming
<1>9. ASSUME NEW s \in Servers, server'[s].at \in Steps, server'[s].adopt,
             NEW d \in DirSet, marker'[d] = Absent
      PROVE  data'[d] \subseteq {DB(s)}
  <2>1. marker[d] = Absent /\ data'[d] = data[d]
    BY <1>1, <1>2, <1>9, MarkerMoves, ServerKinds
  <2>2. CASE server[s].at \in Steps /\ server[s].adopt
    BY <2>1, <2>2 DEF MarksItsOwn
  <2>3. CASE UNION {data[e] : e \in DirSet} = {DB(s)}
    BY <2>1, <2>3
  <2> QED
    BY <1>9, <2>2, <2>3, ClaimMoves
<1>10. MarksItsOwn'
  BY <1>7, <1>8, <1>9 DEF MarksItsOwn, Dir, DB
<1>11. ASSUME NEW s \in Servers, NEW t \in Servers, server'[s].at = "write",
              server'[t].at = "write",
              Dirs[server'[s].i] = Dirs[server'[t].i], s # t
       PROVE  FALSE
  <2>1. ASSUME NEW p \in Servers, NEW q \in Servers, server'[p].at = "write",
               server'[q].at = "write", server'[q] = server[q],
               Dirs[server'[p].i] = Dirs[server'[q].i], p # q
        PROVE  FALSE
    <3>1. marker[Dir(q)] = Empty
      BY <2>1 DEF MarksItsOwn
    <3>2. CASE server'[p] = server[p]
      BY <1>3, <2>1, <3>2 DEF Dir
    <3>3. CASE server'[p].i = server[p].i /\ marker[Dir(p)] = Absent
      BY <1>1, <2>1, <3>1, <3>3 DEF Dir
    <3> QED
      BY <2>1, <3>2, <3>3, ClaimMoves DEF ClaimMove, Claiming
  <2> QED
    BY <1>11, <2>1, OneMoves
<1>12. OneWriter'
  BY <1>11 DEF OneWriter, Dir
<1> QED
  BY <1>4, <1>6, <1>10, <1>12

----------------------------------------------------------------------------
(* The cleanup job *)

\* A job is started when it is due, and becomes due with no start.
LEMMA JobMoves ==
  ASSUME TypeOK, [Next]_vars, NEW b \in Databases
  PROVE  \/ due'[b] = due[b] /\ starts'[b] = starts[b]
         \/ due[b] /\ ~due'[b] /\ (starts[b] = 0 => starts'[b] = 1)
         \/ due'[b] /\ starts'[b] = 0
<1>0. J!TypeOK
  BY DEF TypeOK
<1>1. ASSUME NEW s \in Servers, NEW c \in Databases, J!Claim(s, c)
      PROVE  \/ due'[b] = due[b] /\ starts'[b] = starts[b]
             \/ due[b] /\ ~due'[b] /\ (starts[b] = 0 => starts'[b] = 1)
  <2>1. CASE UNCHANGED <<due, starts>> \/ b # c
    BY <1>0, <1>1, <2>1 DEF J!Claim, J!Start, J!TypeOK
  <2>2. CASE b = c /\ due[b] /\ due' = [due EXCEPT ![b] = FALSE] /\ J!Start(b)
    BY <1>0, <2>2 DEF J!Start, J!TypeOK
  <2> QED
    BY <1>1, <2>1, <2>2 DEF J!Claim
<1>2. ASSUME NEW c \in Databases, IntervalPasses(c)
      PROVE  \/ due'[b] = due[b] /\ starts'[b] = starts[b]
             \/ due'[b] /\ starts'[b] = 0
  BY <1>0, <1>2 DEF IntervalPasses, J!IntervalPasses, J!TypeOK
<1>3. CASE UNCHANGED <<due, starts>>
  BY <1>3
<1>4. ASSUME NEW s \in Servers, Job(s)
      PROVE  UNCHANGED <<due, starts>> \/ J!Claim(s, DB(s))
  BY <1>4 DEF Job, J!TryLock, J!Finish
<1>5. \A s \in Servers : DB(s) \in Databases
  BY ServerKinds
<1> QED
  BY <1>1, <1>2, <1>3, <1>4, <1>5
     DEF Next, vars, startup, jobs, Boot, RunMigrations, LockMigrations,
         GetAppliedMigration, ApplyMigration, ClaimStorage,
         ReadInstanceMarker, HasData, CreateMarker, WriteInstanceMarker,
         Store, LoseConnection, J!LoseConnection, Crash

\* Without losses, who is at a job goes on holding its lock.
LEMMA LockMoves ==
  ASSUME TypeOK, [Next]_vars, losses' = 0,
         losses = 0 => \A s \in Servers, b \in Databases :
                         at[s][b] # "idle" => lock[b] = s,
         NEW t \in Servers, NEW b \in Databases, at'[t][b] # "idle"
  PROVE  lock'[b] = t
<1>0. J!TypeOK /\ losses \in Nat /\ None \notin Servers
  BY ConfigAssumption DEF TypeOK, J!TypeOK
<1>1. CASE UNCHANGED <<jobs, losses>>
  BY <1>1 DEF jobs
<1>2. ASSUME NEW s \in Servers, NEW c \in Databases, J!TryLock(s, c)
      PROVE  lock'[b] = t
  <2>1. losses = 0 /\ lock[c] = None /\ lock' = [lock EXCEPT ![c] = s]
        /\ at' = [at EXCEPT ![s][c] = "locked"]
    BY <1>2 DEF J!TryLock, J!Move, J!faults
  <2>2. CASE t = s /\ b = c
    BY <1>0, <2>1, <2>2 DEF J!TypeOK
  <2>3. CASE ~(t = s /\ b = c)
    <3>1. at'[t][b] = at[t][b]
      BY <1>0, <2>1, <2>3 DEF J!TypeOK
    <3>2. lock[b] = t
      BY <2>1, <3>1
    <3>3. b # c
      BY <1>0, <2>1, <3>2
    <3> QED
      BY <1>0, <2>1, <3>2, <3>3 DEF J!TypeOK
  <2> QED
    BY <2>2, <2>3
<1>3. ASSUME NEW s \in Servers, NEW c \in Databases, J!Claim(s, c) \/ J!Finish(s, c)
      PROVE  lock'[b] = t
  <2>1. losses = 0 /\ at[s][c] # "idle" /\ lock[c] = s
    BY <1>3 DEF J!Claim, J!Finish, J!faults
  <2>2. CASE UNCHANGED lock /\ J!Move(s, c, "running")
    <3>1. at[t][b] # "idle"
      BY <1>0, <2>1, <2>2 DEF J!Move, J!TypeOK
    <3> QED
      BY <2>1, <2>2, <3>1
  <2>3. CASE J!Unlock(s, c) /\ J!Move(s, c, "idle")
    <3>1. ~(t = s /\ b = c)
      BY <1>0, <2>3 DEF J!Move, J!TypeOK
    <3>2. at[t][b] # "idle"
      BY <1>0, <2>3, <3>1 DEF J!Move, J!TypeOK
    <3>3. lock[b] = t /\ b # c
      BY <2>1, <3>1, <3>2
    <3> QED
      BY <1>0, <2>3, <3>3 DEF J!Unlock, J!TypeOK
  <2> QED
    BY <1>3, <2>2, <2>3 DEF J!Claim, J!Finish
<1>4. ASSUME NEW s \in Servers, LoseConnection(s)
      PROVE  FALSE
  BY <1>0, <1>4 DEF LoseConnection, J!LoseConnection
<1>5. ASSUME NEW s \in Servers, Crash(s)
      PROVE  lock'[b] = t
  <2>1. losses = 0 /\ at' = [at EXCEPT ![s] = [c \in Databases |-> "idle"]]
        /\ lock' = [c \in Databases |-> IF lock[c] = s THEN None ELSE lock[c]]
    BY <1>5 DEF Crash
  <2>2. t # s
    BY <1>0, <2>1 DEF J!TypeOK
  <2>3. at[t][b] # "idle"
    BY <1>0, <2>1, <2>2 DEF J!TypeOK
  <2> QED
    BY <2>1, <2>2, <2>3
<1>6. ASSUME NEW c \in Databases, IntervalPasses(c)
      PROVE  lock'[b] = t
  BY <1>6 DEF IntervalPasses, J!IntervalPasses, J!faults
<1>7. \A s \in Servers : DB(s) \in Databases
  BY ServerKinds
<1> QED
  BY <1>1, <1>2, <1>3, <1>4, <1>5, <1>6, <1>7
     DEF Next, vars, Job, Boot, RunMigrations, LockMigrations,
         GetAppliedMigration, ApplyMigration, ClaimStorage,
         ReadInstanceMarker, HasData, CreateMarker, WriteInstanceMarker, Store

\* Every step keeps the starts of a job apart, and its lock with who runs it.
LEMMA JobStep ==
  ASSUME TypeOK, StartedOncePerInterval, JobInv, [Next]_vars
  PROVE  StartedOncePerInterval' /\ JobInv'
<1>1. ASSUME NEW b \in Databases
      PROVE  starts'[b] <= 1 /\ (due'[b] => starts'[b] = 0)
  <2>1. starts[b] <= 1 /\ (due[b] => starts[b] = 0)
    BY DEF JobInv, StartedOncePerInterval, J!StartedOncePerInterval
  <2> QED
    BY <2>1, JobMoves
<1>2. losses' = 0 => \A s \in Servers, b \in Databases :
                       at'[s][b] # "idle" => lock'[b] = s
  BY LockMoves DEF JobInv
<1> QED
  BY <1>1, <1>2 DEF JobInv, StartedOncePerInterval, J!StartedOncePerInterval

----------------------------------------------------------------------------
(* The deployment *)

\* It starts so.
LEMMA InitInv ==
  ASSUME Init
  PROVE  TypeOK /\ DeploymentInv
<1> USE ConfigAssumption DEF Init
<1>1. schema \in [Databases -> Seq(Migrations)]
  BY BeforeAssumption
<1>2. TypeOK
  <2>1. J!TypeOK
    BY DEF J!Init, J!TypeOK
  <2>2. data \in [DirSet -> SUBSET Databases]
    <3>1. {{}, {Settled}} \subseteq SUBSET Databases
      OBVIOUS
    <3> QED
      BY <3>1
  <2> QED
    BY <1>1, <2>1, <2>2 DEF TypeOK
<1>3. \A s \in Servers : server[s] = Down /\ server[s].at = "down"
  BY DEF Down
<1>4. MigratedOnce
  BY <1>3, BeforeAssumption DEF MigratedOnce, Serving
<1>5. MigrationInv
  BY <1>3 DEF MigrationInv, Claiming
<1>6. StorageInv
  BY <1>3 DEF StorageInv, MarkedIsOwn, ClaimedSoFar, MarksItsOwn, OneWriter,
              Serving, Claiming, Steps
<1>7. StartedOncePerInterval /\ JobInv
  BY DEF StartedOncePerInterval, J!StartedOncePerInterval, JobInv, J!Init
<1> QED
  BY <1>2, <1>4, <1>5, <1>6, <1>7 DEF DeploymentInv

\* The types, the order of the migrations, the claims and the starts of the
\* jobs of any deployment (RunMigrations, ClaimStorage, RunJob).
THEOREM DeploymentCorrect == Spec => [](TypeOK /\ DeploymentInv)
<1>1. TypeOK /\ DeploymentInv /\ [Next]_vars => TypeOK' /\ DeploymentInv'
  BY TypeStep, MigrationStep, StorageStep, JobStep DEF DeploymentInv
<1> QED
  BY InitInv, <1>1, PTL DEF Spec

\* The migrations of an image are applied once and in order, however many
\* servers start together and whatever connection is lost (RunMigrations).
THEOREM Migrated == Spec => []MigratedOnce
<1>1. DeploymentInv => MigratedOnce
  BY DEF DeploymentInv
<1> QED
  BY DeploymentCorrect, <1>1, PTL

\* A job starts once per interval on all servers of a database (RunJob).
THEOREM StartedOnce == Spec => []StartedOncePerInterval
<1>1. DeploymentInv => StartedOncePerInterval
  BY DEF DeploymentInv
<1> QED
  BY DeploymentCorrect, <1>1, PTL

\* As long as no connection is lost one server runs it at a time (RunJob).
THEOREM NoOverlap == Spec => []OverlapOnlyIfLost
<1>1. TypeOK /\ DeploymentInv => OverlapOnlyIfLost
  <2> SUFFICES ASSUME JobInv, losses = 0, NEW r \in Servers, NEW q \in Servers,
                      NEW b \in Databases, at[r][b] = "running",
                      at[q][b] = "running"
               PROVE  r = q
    BY DEF DeploymentInv, OverlapOnlyIfLost, J!OverlapOnlyIfLost, J!OneAtATime
  <2> QED
    BY DEF JobInv
<1> QED
  BY DeploymentCorrect, <1>1, PTL

\* No sweep of orphans deletes the files of another database, whatever storage
\* its servers were given (ClaimStorage, sweepOrphans).
THEOREM StorageKept == Spec => NothingSwept
<1>1. TypeOK /\ DeploymentInv /\ [Next]_vars =>
        [\A d \in DirSet : data[d] \subseteq data'[d]]_vars
  BY DataMoves DEF DeploymentInv, StorageInv
<1> QED
  BY DeploymentCorrect, <1>1, PTL DEF Spec, NothingSwept
=============================================================================
