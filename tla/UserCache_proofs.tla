------------------------- MODULE UserCache_proofs -------------------------
(***************************************************************************)
(* The cache of CNS users, for any accounts, requests and clock: nobody    *)
(* who exists is erased, nobody who was erased returns, no row is behind   *)
(* an event that was applied to it but for the status of a request that    *)
(* was overtaken, and only the user's own profile unlocks a locked row.    *)
(***************************************************************************)
EXTENDS UserCache, TLAPS

\* A row of users, an erased one or none.
Good(r) ==
  /\ r \in {NoRow, Erased} \cup CachedRow
  /\ r.status \in {"active", "locked"} => r.synced # 0

\* What a source may say of the lock.
Locks == {"locked", "unlocked", "unknown"}

\* The status of a row tells whether it is one.
LEMMA RowKinds ==
  ASSUME TypeOK, NEW a \in Accounts
  PROVE  /\ Good(row[a])
         /\ Kept(a) <=> row[a] \in CachedRow
         /\ Kept(a) <=> row[a].status \in {"active", "locked", "stale"}
         /\ Deleted(a) <=> row[a].status = "deleted"
         /\ ~Exists(a) <=> row[a].status = "none"
         /\ Kept(a) <=> ~(row[a].status \in {"none", "deleted"})
BY DEF TypeOK, RowsOK, Good, Kept, Exists, Deleted, NoRow, Erased, CachedRow

\* A new row.
LEMMA NewRows ==
  ASSUME NEW n \in Names, NEW t \in Moments
  PROVE  /\ NewRow(n, t) \in CachedRow
         /\ Good(NewRow(n, t))
         /\ NewRow(n, t).seen = t /\ NewRow(n, t).limitedSeen = 0
BY TimeAssumption DEF NewRow, CachedRow, Good, Moments, Times

\* The new status of a row.
LEMMA NextStatuses ==
  ASSUME NEW r \in CachedRow, NEW lock \in Locks, NEW newer \in BOOLEAN
  PROVE  /\ NextStatus(r, lock, newer) \in {"active", "locked", "stale"}
         /\ lock = "unknown" /\ ~newer => NextStatus(r, lock, newer) = r.status
         /\ lock = "unknown" /\ r.status = "locked" =>
              NextStatus(r, lock, newer) = "locked"
BY DEF NextStatus, CachedRow, Locks

\* A profile keeps a row in order: it is never behind where it was, nor behind the
\* profile.
LEMMA NextUserStates ==
  ASSUME NEW r \in CachedRow, Good(r), NEW n \in Names, NEW t \in Moments,
         NEW lock \in Locks
  PROVE  LET s == NextUserState(r, n, t, lock) IN
         /\ s \in CachedRow /\ Good(s)
         /\ s.seen >= r.seen /\ s.seen >= t
         /\ s.limitedSeen = r.limitedSeen
         /\ lock = "unknown" /\ r.status = "locked" => s.status = "locked"
<1> DEFINE newer == t > r.synced
           s == NextUserState(r, n, t, lock)
<1>1. /\ r.seen \in Nat /\ r.synced \in Nat /\ t \in Nat \ {0}
      /\ r.status \in {"active", "locked", "stale"}
  BY TimeAssumption DEF CachedRow, Moments, Times
<1>2. s = [r EXCEPT !.name = IF t >= r.seen THEN n ELSE r.name,
                    !.seen = IF t >= r.seen THEN t ELSE r.seen,
                    !.synced = IF newer THEN t ELSE r.synced,
                    !.status = NextStatus(r, lock, newer)]
  BY DEF NextUserState
<1>0. newer \in BOOLEAN
  BY <1>1
<1> HIDE DEF newer
<1>3. NextStatus(r, lock, newer) \in {"active", "locked", "stale"}
  BY <1>0, NextStatuses
<1>4. /\ s.seen = (IF t >= r.seen THEN t ELSE r.seen)
      /\ s.synced = (IF newer THEN t ELSE r.synced)
      /\ s.status = NextStatus(r, lock, newer)
      /\ s.limitedSeen = r.limitedSeen
  BY <1>2 DEF CachedRow
<1>5. s \in CachedRow
  <2>1. /\ (IF t >= r.seen THEN n ELSE r.name) \in Names
        /\ (IF t >= r.seen THEN t ELSE r.seen) \in Moments
        /\ (IF newer THEN t ELSE r.synced) \in Times
    BY TimeAssumption DEF CachedRow, Moments, Times
  <2> QED
    BY <1>2, <1>3, <2>1 DEF CachedRow
<1>6. s.synced # 0
  BY <1>1, <1>4 DEF newer
<1>7. lock = "unknown" /\ r.status = "locked" => s.status = "locked"
  BY <1>0, <1>4, NextStatuses
<1> QED
  BY <1>1, <1>4, <1>5, <1>6, <1>7 DEF Good

\* The rows of others that a new profile sends to the end of the search.
LEMMA DemotedRows ==
  ASSUME NEW rows \in [Accounts -> {NoRow, Erased} \cup CachedRow],
         \A b \in Accounts : Good(rows[b]), NEW a \in Accounts
  PROVE  LET new == DemoteNameHolders(rows, a) IN
         /\ new \in [Accounts -> {NoRow, Erased} \cup CachedRow]
         /\ new[a] = rows[a]
         /\ \A b \in Accounts :
              /\ Good(new[b])
              /\ rows[b] \in {NoRow, Erased} => new[b] = rows[b]
              /\ rows[b].status = "locked" => new[b] = rows[b]
              /\ rows[b] \in CachedRow =>
                   /\ new[b] \in CachedRow
                   /\ new[b].seen = rows[b].seen
                   /\ new[b].limitedSeen = rows[b].limitedSeen
<1> DEFINE new == DemoteNameHolders(rows, a)
<1>1. \A b \in Accounts :
        new[b] = IF b \in NameHolders(rows, a)
                   THEN [rows[b] EXCEPT !.status = "stale", !.synced = 0]
                   ELSE rows[b]
  BY DEF DemoteNameHolders
<1>2. DOMAIN new = Accounts /\ new = [b \in Accounts |-> new[b]]
  BY DEF DemoteNameHolders
<1> HIDE DEF new
<1>3. ASSUME NEW b \in Accounts, b \in NameHolders(rows, a)
      PROVE  /\ b # a /\ rows[b] \in CachedRow /\ rows[b].status = "active"
             /\ new[b] \in CachedRow /\ Good(new[b])
             /\ new[b].seen = rows[b].seen
             /\ new[b].limitedSeen = rows[b].limitedSeen
  <2>1. b # a /\ rows[b].status = "active"
    BY <1>3 DEF NameHolders
  <2>2. rows[b] \in CachedRow
    BY <2>1 DEF NoRow, Erased
  <2>3. new[b] = [rows[b] EXCEPT !.status = "stale", !.synced = 0]
    BY <1>1, <1>3
  <2>4. new[b] \in CachedRow /\ new[b].status = "stale"
    <3>1. 0 \in Times
      BY TimeAssumption DEF Times
    <3> QED
      BY <2>2, <2>3, <3>1 DEF CachedRow
  <2>5. new[b].seen = rows[b].seen /\ new[b].limitedSeen = rows[b].limitedSeen
    BY <2>2, <2>3 DEF CachedRow
  <2> QED
    BY <2>1, <2>2, <2>4, <2>5 DEF Good
<1>4. \A b \in Accounts : b \notin NameHolders(rows, a) => new[b] = rows[b]
  BY <1>1
<1>5. \A b \in Accounts : new[b] \in {NoRow, Erased} \cup CachedRow
  BY <1>3, <1>4
<1>6. new \in [Accounts -> {NoRow, Erased} \cup CachedRow]
  BY <1>2, <1>5
<1>7. new[a] = rows[a]
  BY <1>4 DEF NameHolders
<1>8. \A b \in Accounts : b \in NameHolders(rows, a) =>
        /\ rows[b] \notin {NoRow, Erased}
        /\ rows[b].status # "locked"
  BY <1>3 DEF NoRow, Erased
<1> QED
  BY <1>3, <1>4, <1>6, <1>7, <1>8 DEF new

\* What a profile of a does to the rows.
LEMMA WithProfiles ==
  ASSUME TypeOK, NEW a \in Accounts, NEW n \in Names, NEW t \in Moments,
         NEW lock \in Locks
  PROVE  LET new == WithProfile(a, n, t, lock) IN
         /\ new \in [Accounts -> {NoRow, Erased} \cup CachedRow]
         /\ \A b \in Accounts :
              /\ Good(new[b])
              /\ Deleted(b) => new[b] = row[b]
              /\ b # a /\ ~Exists(b) => new[b] = row[b]
              /\ row[b].status = "locked" /\ (b = a => lock = "unknown") =>
                   new[b].status = "locked"
              /\ Kept(b) =>
                   /\ new[b] \in CachedRow
                   /\ new[b].seen >= row[b].seen
                   /\ new[b].limitedSeen = row[b].limitedSeen
         /\ ~Deleted(a) => new[a] \in CachedRow /\ new[a].seen >= t
         /\ ~Exists(a) => new[a].limitedSeen = 0
<1> DEFINE new == WithProfile(a, n, t, lock)
           own == ProfileRow(a, n, t, lock)
           rows == [row EXCEPT ![a] = own]
<1>1. row \in [Accounts -> {NoRow, Erased} \cup CachedRow]
  BY DEF TypeOK, RowsOK
<1>2. \A b \in Accounts :
        Kept(b) => row[b].seen \in Nat /\ row[b].seen >= row[b].seen
  BY RowKinds, TimeAssumption DEF CachedRow, Moments
<1>3. CASE Deleted(a)
  <2>1. new = row
    BY <1>3 DEF WithProfile
  <2> QED
    BY <1>1, <1>2, <1>3, <2>1, RowKinds DEF Kept, Exists
<1>4. CASE ~Deleted(a)
  <2>1. new = DemoteNameHolders(rows, a)
    BY <1>4 DEF WithProfile
  <2>2. /\ own \in CachedRow /\ Good(own) /\ own.seen >= t
        /\ Kept(a) => /\ own.seen >= row[a].seen
                      /\ own.limitedSeen = row[a].limitedSeen
        /\ ~Kept(a) => own.limitedSeen = 0
        /\ row[a].status = "locked" /\ lock = "unknown" => own.status = "locked"
    <3>1. CASE Kept(a)
      <4>1. own = NextUserState(row[a], n, t, lock)
        BY <3>1 DEF ProfileRow
      <4> QED
        BY <3>1, <4>1, RowKinds, NextUserStates
    <3>2. CASE ~Kept(a)
      <4>1. PICK new0 : new0 = NewRow(n, t)
        OBVIOUS
      <4>2. own = [new0 EXCEPT !.status =
                     IF lock = "locked" THEN "locked" ELSE "active"]
        BY <3>2, <4>1 DEF ProfileRow
      <4>3. new0 \in CachedRow /\ new0.synced = t /\ new0.seen = t
            /\ new0.limitedSeen = 0 /\ t # 0 /\ t >= t
        BY <4>1, NewRows, TimeAssumption DEF NewRow, Moments
      <4>4. own \in CachedRow /\ own.synced = t /\ own.seen = t
            /\ own.limitedSeen = 0
        BY <4>2, <4>3 DEF CachedRow
      <4>5. row[a].status # "locked"
        BY <3>2, RowKinds
      <4> QED
        BY <3>2, <4>3, <4>4, <4>5 DEF Good
    <3> QED
      BY <3>1, <3>2
  <2> HIDE DEF own
  <2>3. /\ rows \in [Accounts -> {NoRow, Erased} \cup CachedRow]
        /\ rows[a] = own /\ \A b \in Accounts \ {a} : rows[b] = row[b]
    BY <1>1, <2>2
  <2> HIDE DEF rows, new
  <2>4. \A b \in Accounts : Good(rows[b])
    BY <2>2, <2>3, RowKinds
  <2>5. /\ new \in [Accounts -> {NoRow, Erased} \cup CachedRow]
        /\ new[a] = own
        /\ \A b \in Accounts :
             /\ Good(new[b])
             /\ rows[b] \in {NoRow, Erased} => new[b] = rows[b]
             /\ rows[b].status = "locked" => new[b] = rows[b]
             /\ rows[b] \in CachedRow =>
                  /\ new[b] \in CachedRow
                  /\ new[b].seen = rows[b].seen
                  /\ new[b].limitedSeen = rows[b].limitedSeen
    BY <2>1, <2>3, <2>4, DemotedRows
  <2>6. ASSUME NEW b \in Accounts, b # a
        PROVE  /\ Deleted(b) => new[b] = row[b]
               /\ ~Exists(b) => new[b] = row[b]
               /\ row[b].status = "locked" => new[b].status = "locked"
               /\ Kept(b) => /\ new[b] \in CachedRow
                             /\ new[b].seen >= row[b].seen
                             /\ new[b].limitedSeen = row[b].limitedSeen
    BY <1>2, <2>3, <2>5, <2>6, RowKinds DEF Deleted, Exists
  <2>7. /\ Good(new[a]) /\ new[a] \in CachedRow /\ new[a].seen >= t
        /\ ~Exists(a) => new[a].limitedSeen = 0
        /\ row[a].status = "locked" /\ lock = "unknown" =>
             new[a].status = "locked"
        /\ Kept(a) => /\ new[a].seen >= row[a].seen
                      /\ new[a].limitedSeen = row[a].limitedSeen
    BY <2>2, <2>5 DEF Kept
  <2> QED
    BY <1>4, <2>5, <2>6, <2>7 DEF Kept, new
<1> QED
  BY <1>3, <1>4

\* The account status moves nothing but itself, and never back.
LEMMA AccountStatuses ==
  ASSUME NEW r, Good(r), NEW limited \in BOOLEAN, NEW t \in Moments
  PROVE  LET s == WithAccountStatus(r, limited, t) IN
         /\ Good(s)
         /\ r \in {NoRow, Erased} => s = r
         /\ r \in CachedRow =>
              /\ s \in CachedRow
              /\ s.seen = r.seen /\ s.status = r.status
              /\ s.limitedSeen >= r.limitedSeen /\ s.limitedSeen >= t
              /\ s.limitedSeen \in {r.limitedSeen, t}
<1> DEFINE s == WithAccountStatus(r, limited, t)
<1>1. CASE r \in {NoRow, Erased}
  <2>1. s = r
    BY <1>1 DEF WithAccountStatus, TakesStatus, NoRow, Erased
  <2>2. r \notin CachedRow
    BY <1>1 DEF NoRow, Erased, CachedRow
  <2> QED
    BY <1>1, <2>1, <2>2
<1>2. CASE r \in CachedRow
  <2>1. r.limitedSeen \in Nat /\ t \in Nat /\ t \in Times
        /\ r.status \notin {"none", "deleted"}
    BY <1>2, TimeAssumption DEF CachedRow, Moments, Times
  <2>2. r \notin {NoRow, Erased}
    BY <2>1 DEF NoRow, Erased
  <2>3. CASE r.limitedSeen > t
    <3>1. s = r
      BY <2>1, <2>3 DEF WithAccountStatus, TakesStatus
    <3> QED
      BY <1>2, <2>1, <2>2, <2>3, <3>1
  <2>4. CASE ~(r.limitedSeen > t)
    <3>1. s = [r EXCEPT !.limited = limited, !.limitedSeen = t]
      BY <2>1, <2>4 DEF WithAccountStatus, TakesStatus
    <3>2. s \in CachedRow
      BY <1>2, <2>1, <3>1 DEF CachedRow
    <3>3. s.seen = r.seen /\ s.status = r.status /\ s.limitedSeen = t
          /\ s.synced = r.synced
      BY <1>2, <3>1 DEF CachedRow
    <3> QED
      BY <1>2, <2>1, <2>2, <2>4, <3>2, <3>3 DEF Good
  <2> QED
    BY <2>3, <2>4
<1> QED
  BY <1>1, <1>2 DEF Good

----------------------------------------------------------------------------
(* How a row moves *)

\* The user's own profile has been fetched and is stored.
OwnProfile(b) ==
  \E p \in Tasks : task[p].at = "record" /\ task[p].of = b
                  /\ task'[p].at = "status"

\* One step of the row of b: it never gets older, is erased on CNS's word only,
\* and stays so.
RowMove(b) ==
  /\ Good(row'[b])
  /\ Deleted(b) => row'[b] = Erased
  /\ Kept(b) => row'[b] \in CachedRow \cup {Erased}
  /\ Kept(b) /\ row'[b] # Erased =>
       /\ row'[b].seen >= row[b].seen
       /\ row'[b].limitedSeen >= row[b].limitedSeen
  /\ row'[b] \in CachedRow => row'[b].limitedSeen <= now
  /\ row'[b] = Erased =>
       \/ Deleted(b) \/ ~cns[b].live
       \/ \E e \in sent : e.kind = "deleted" /\ e.of = b
  /\ row[b].status = "locked" /\ row'[b].status = "active" => OwnProfile(b)

\* All rows move, if at all, as they may.
Moves ==
  /\ row' \in [Accounts -> {NoRow, Erased} \cup CachedRow]
  /\ \A b \in Accounts : RowMove(b)

\* Rows stay.
LEMMA StayMoves ==
  ASSUME TypeOK, NothingAhead, NEW b \in Accounts, row'[b] = row[b]
  PROVE  RowMove(b)
<1>1. Good(row[b]) /\ (Kept(b) => row[b] \in CachedRow)
      /\ (row[b] \in CachedRow => Kept(b))
  BY RowKinds
<1>2. Kept(b) => row[b].seen \in Nat /\ row[b].limitedSeen \in Nat
                /\ row[b].limitedSeen <= now
  BY <1>1, TimeAssumption DEF CachedRow, Moments, Times, NothingAhead
<1> QED
  BY <1>1, <1>2 DEF RowMove, Deleted, Erased

\* A profile moves its row, and demotes others.
LEMMA ProfileMoves ==
  ASSUME TypeOK, NothingAhead, NEW a \in Accounts, NEW n \in Names,
         NEW t \in Moments, NEW lock \in Locks, RecordCNSProfile(a, n, t, lock),
         lock # "unknown" => OwnProfile(a)
  PROVE  Moves
<1>1. /\ row' \in [Accounts -> {NoRow, Erased} \cup CachedRow]
      /\ \A b \in Accounts :
           /\ Good(row'[b])
           /\ Deleted(b) => row'[b] = row[b]
           /\ b # a /\ ~Exists(b) => row'[b] = row[b]
           /\ row[b].status = "locked" /\ (b = a => lock = "unknown") =>
                row'[b].status = "locked"
           /\ Kept(b) =>
                /\ row'[b] \in CachedRow
                /\ row'[b].seen >= row[b].seen
                /\ row'[b].limitedSeen = row[b].limitedSeen
      /\ ~Deleted(a) => row'[a] \in CachedRow /\ row'[a].seen >= t
      /\ ~Exists(a) => row'[a].limitedSeen = 0
  BY WithProfiles DEF RecordCNSProfile
<1>2. ASSUME NEW b \in Accounts
      PROVE  RowMove(b)
  <2>1. Kept(b) => row[b].limitedSeen \in Nat /\ row[b].limitedSeen <= now
    BY RowKinds, TimeAssumption DEF NothingAhead, CachedRow, Times
  <2>2. now \in Nat
    BY TimeAssumption DEF TypeOK, Moments
  <2>3. Erased \notin CachedRow /\ NoRow \notin CachedRow /\ NoRow # Erased
    BY DEF Erased, NoRow, CachedRow
  <2>4. CASE Deleted(b)
    <3>1. row'[b] = Erased /\ row[b].status # "locked"
      BY <1>1, <2>4, RowKinds DEF Deleted
    <3> QED
      BY <1>1, <2>3, <2>4, <3>1 DEF RowMove, Kept
  <2>5. CASE ~Exists(b)
    <3>1. /\ row'[b] = NoRow \/ (row'[b] \in CachedRow /\ row'[b].limitedSeen = 0)
          /\ row[b].status # "locked"
      BY <1>1, <2>3, <2>5, RowKinds DEF Exists, Deleted
    <3> QED
      BY <1>1, <2>2, <2>3, <2>5, <3>1 DEF RowMove, Kept, Deleted, Exists
  <2>6. CASE Kept(b)
    <3>1. /\ row'[b] \in CachedRow /\ row'[b].seen >= row[b].seen
          /\ row'[b].limitedSeen = row[b].limitedSeen
          /\ row'[b].limitedSeen <= now
          /\ row'[b].limitedSeen >= row[b].limitedSeen
      BY <1>1, <2>1, <2>2, <2>6
    <3>2. row[b].status = "locked" /\ row'[b].status = "active" => OwnProfile(b)
      BY <1>1
    <3> QED
      BY <1>1, <2>3, <2>6, <3>1, <3>2 DEF RowMove, Kept
  <2> QED
    BY <2>4, <2>5, <2>6 DEF Kept
<1> QED
  BY <1>1, <1>2 DEF Moves

\* A deletion that CNS has reported or confirmed moves one row.
LEMMA DeletionMoves ==
  ASSUME TypeOK, NothingAhead, NEW a \in Accounts, MarkUserDeleted(a),
         \/ ~cns[a].live
         \/ \E e \in sent : e.kind = "deleted" /\ e.of = a
  PROVE  Moves
<1>1. row' = [row EXCEPT ![a] = Erased]
  BY DEF MarkUserDeleted
<1>2. row' \in [Accounts -> {NoRow, Erased} \cup CachedRow] /\ row'[a] = Erased
      /\ \A b \in Accounts \ {a} : row'[b] = row[b]
  BY <1>1 DEF TypeOK, RowsOK
<1>3. RowMove(a)
  <2>1. Good(Erased) /\ Erased \notin CachedRow
    BY DEF Good, Erased, CachedRow
  <2>2. Erased.status # "active"
    BY DEF Erased
  <2> QED
    BY <1>2, <2>1, <2>2 DEF RowMove
<1> QED
  BY <1>2, <1>3, StayMoves DEF Moves

\* What a task or a pass remembers.
LEMMA Remembered ==
  ASSUME TypeOK
  PROVE  /\ \A p \in Tasks :
              /\ task[p].at \in {"fetch", "status"} => task[p] \in FetchTask
              /\ task[p].at = "record" => task[p] \in RecordTask
         /\ pass.at = "batch" => pass \in BatchPass
         /\ pass.at = "apply" => pass \in ApplyPass
         /\ pass.at = "lookup" => pass \in LookupPass
BY DEF TypeOK, Idle, FetchTask, RecordTask, StalePass, BatchPass, ApplyPass,
       LookupPass

\* A webhook event moves rows as they may.
LEMMA WebhookMoves ==
  ASSUME TypeOK, NothingAhead, WebhookStep
  PROVE  Moves
<1> PICK e \in sent : ApplyCNSUserUpdated(e) \/ ApplyCNSUserDeleted(e)
  BY DEF WebhookStep
<1>1. /\ e.of \in Accounts /\ e.name \in Names /\ e.time \in Moments
      /\ e.limited \in BOOLEAN /\ e.time <= now
  BY DEF TypeOK, Event, NothingAhead
<1>2. CASE ApplyCNSUserDeleted(e)
  BY <1>1, <1>2, DeletionMoves DEF ApplyCNSUserDeleted
<1>3. CASE ApplyCNSUserUpdated(e)
  <2> DEFINE a == e.of
             rows == WithProfile(a, e.name, e.time, "unknown")
             own == WithAccountStatus(rows[a], e.limited, e.time)
  <2>1. row' = [rows EXCEPT ![a] = own]
    BY <1>3 DEF ApplyCNSUserUpdated
  <2>2. /\ rows \in [Accounts -> {NoRow, Erased} \cup CachedRow]
        /\ \A b \in Accounts :
             /\ Good(rows[b])
             /\ Deleted(b) => rows[b] = row[b]
             /\ b # a /\ ~Exists(b) => rows[b] = row[b]
             /\ row[b].status = "locked" => rows[b].status = "locked"
             /\ Kept(b) =>
                  /\ rows[b] \in CachedRow
                  /\ rows[b].seen >= row[b].seen
                  /\ rows[b].limitedSeen = row[b].limitedSeen
        /\ ~Deleted(a) => rows[a] \in CachedRow /\ rows[a].seen >= e.time
        /\ ~Exists(a) => rows[a].limitedSeen = 0
    BY <1>1, WithProfiles DEF Locks
  <2>3. /\ Good(own)
        /\ rows[a] \in {NoRow, Erased} => own = rows[a]
        /\ rows[a] \in CachedRow =>
             /\ own \in CachedRow
             /\ own.seen = rows[a].seen /\ own.status = rows[a].status
             /\ own.limitedSeen >= rows[a].limitedSeen
             /\ own.limitedSeen \in {rows[a].limitedSeen, e.time}
    BY <1>1, <2>2, AccountStatuses
  <2> HIDE DEF rows, own
  <2>4. /\ row' \in [Accounts -> {NoRow, Erased} \cup CachedRow]
        /\ row'[a] = own /\ \A b \in Accounts \ {a} : row'[b] = rows[b]
    BY <1>1, <2>1, <2>2, <2>3 DEF Good
  <2>5. /\ Erased \notin CachedRow /\ NoRow \notin CachedRow /\ NoRow # Erased
        /\ now \in Nat /\ e.time \in Nat
    BY <1>1, TimeAssumption DEF Erased, NoRow, CachedRow, TypeOK, Moments
  <2>6. ASSUME NEW b \in Accounts
        PROVE  RowMove(b)
    <3>1. Kept(b) => row[b].limitedSeen \in Nat /\ row[b].limitedSeen <= now
                    /\ row[b] \in CachedRow
      BY RowKinds, TimeAssumption DEF NothingAhead, CachedRow, Times
    <3>2. Good(row'[b])
      BY <2>2, <2>3, <2>4
    <3>3. CASE Deleted(b)
      <4>1. rows[b] = Erased /\ row[b].status # "locked"
        BY <2>2, <3>3, RowKinds DEF Deleted
      <4>2. row'[b] = Erased
        BY <2>3, <2>4, <4>1
      <4> QED
        BY <2>5, <3>2, <3>3, <4>1, <4>2 DEF RowMove, Kept
    <3>4. CASE ~Exists(b)
      <4>1. row[b].status # "locked" /\ ~Deleted(b)
        BY <2>5, <3>4, RowKinds DEF Deleted, Exists
      <4>2. \/ row'[b] = NoRow
            \/ row'[b] \in CachedRow /\ row'[b].limitedSeen <= now
        <5>1. CASE b # a
          BY <2>2, <2>4, <3>4, <5>1 DEF Exists
        <5>2. CASE b = a
          BY <1>1, <2>2, <2>3, <2>4, <2>5, <3>4, <4>1, <5>2
        <5> QED
          BY <5>1, <5>2
      <4> QED
        BY <2>5, <3>2, <3>4, <4>1, <4>2 DEF RowMove, Kept
    <3>5. CASE Kept(b)
      <4>1. /\ rows[b] \in CachedRow /\ rows[b].seen >= row[b].seen
            /\ rows[b].limitedSeen = row[b].limitedSeen
        BY <2>2, <3>5
      <4>2. /\ row'[b] \in CachedRow /\ row'[b].seen >= row[b].seen
            /\ row'[b].limitedSeen >= row[b].limitedSeen
            /\ row'[b].limitedSeen <= now
            /\ row'[b].status = rows[b].status
        <5>1. CASE b # a
          BY <2>4, <2>5, <3>1, <3>5, <4>1, <5>1
        <5>2. CASE b = a
          BY <1>1, <2>3, <2>4, <2>5, <3>1, <3>5, <4>1, <5>2
        <5> QED
          BY <5>1, <5>2
      <4>3. row[b].status = "locked" => row'[b].status = "locked"
        BY <2>2, <4>2
      <4> QED
        BY <2>5, <3>2, <3>5, <4>2, <4>3 DEF RowMove, Kept
    <3> QED
      BY <3>3, <3>4, <3>5 DEF Kept
  <2> QED
    BY <2>4, <2>6 DEF Moves
<1> QED
  BY <1>2, <1>3

\* A request moves rows as they may.
LEMMA RequestMoves ==
  ASSUME TypeOK, NothingAhead, NEW p \in Tasks, RequestStep(p)
  PROVE  Moves
<1>0. row \in [Accounts -> {NoRow, Erased} \cup CachedRow]
  BY DEF TypeOK, RowsOK
<1>1. CASE row' = row
  BY <1>0, <1>1, StayMoves DEF Moves
<1>2. CASE RecordOwnProfile(p)
  <2>1. task[p] \in RecordTask /\ task[p].at = "record"
    BY <1>2, Remembered DEF RecordOwnProfile
  <2>2. /\ task[p].of \in Accounts /\ task[p].name \in Names
        /\ task[p].time \in Moments
    BY <2>1 DEF RecordTask
  <2>3. task'[p].at = "status"
    BY <1>2 DEF RecordOwnProfile, Finish, Goto, TypeOK
  <2>4. OwnProfile(task[p].of)
    BY <2>1, <2>3 DEF OwnProfile
  <2>5. PICK lock \in Locks :
          RecordCNSProfile(task[p].of, task[p].name, task[p].time, lock)
    BY <1>2 DEF RecordOwnProfile, Locks
  <2> QED
    BY <2>2, <2>4, <2>5, ProfileMoves
<1>3. CASE RecordAccountStatus(p) /\ row' # row
  <2>1. task[p] \in FetchTask
    BY <1>3, Remembered DEF RecordAccountStatus
  <2> DEFINE a == task[p].of
             own == WithAccountStatus(row[a], task[p].limited, now)
  <2>2. a \in Accounts /\ task[p].limited \in BOOLEAN
    BY <2>1 DEF FetchTask
  <2>3. Kept(a) /\ row' = [row EXCEPT ![a] = own]
    BY <1>3 DEF RecordAccountStatus
  <2>4. now \in Moments /\ now \in Nat
    BY TimeAssumption DEF TypeOK, Moments
  <2>5. row[a] \in CachedRow /\ Good(row[a])
    BY <2>2, <2>3, RowKinds
  <2>6. /\ Good(own) /\ own \in CachedRow
        /\ own.seen = row[a].seen /\ own.status = row[a].status
        /\ own.limitedSeen >= row[a].limitedSeen
        /\ own.limitedSeen \in {row[a].limitedSeen, now}
    BY <2>2, <2>4, <2>5, AccountStatuses
  <2> HIDE DEF own
  <2>7. /\ row' \in [Accounts -> {NoRow, Erased} \cup CachedRow]
        /\ row'[a] = own /\ \A b \in Accounts \ {a} : row'[b] = row[b]
    BY <1>0, <2>2, <2>3, <2>6
  <2>8. RowMove(a)
    <3>1. /\ row[a].limitedSeen <= now /\ row[a].seen \in Nat
          /\ Erased \notin CachedRow
      BY <2>2, <2>3, <2>5, TimeAssumption
         DEF NothingAhead, CachedRow, Moments, Erased
    <3> QED
      BY <2>3, <2>4, <2>6, <2>7, <3>1 DEF RowMove, Kept
  <2> QED
    BY <2>7, <2>8, StayMoves DEF Moves
<1> QED
  BY <1>1, <1>2, <1>3 DEF RequestStep, SyncIfStale, GetServiceProfile

\* The reconciliation job moves rows as they may.
LEMMA PassMoves ==
  ASSUME TypeOK, NothingAhead, PassStep
  PROVE  Moves
<1>0. row \in [Accounts -> {NoRow, Erased} \cup CachedRow]
  BY DEF TypeOK, RowsOK
<1>1. CASE row' = row
  BY <1>0, <1>1, StayMoves DEF Moves
<1>2. ASSUME NEW a \in Accounts, RecordFound(a)
      PROVE  Moves
  <2>1. pass \in ApplyPass
    BY <1>2, Remembered DEF RecordFound
  <2>2. pass.name[a] \in Names /\ pass.time \in Moments
    BY <2>1 DEF ApplyPass
  <2> QED
    BY <1>2, <2>2, ProfileMoves DEF RecordFound, Locks
<1>3. ASSUME NEW a \in Accounts, GetPublicUser(a)
      PROVE  Moves
  <2>1. cns[a].name \in Names /\ now \in Moments
    BY DEF TypeOK, CNSAccount
  <2> QED
    BY <1>3, <2>1, ProfileMoves, DeletionMoves DEF GetPublicUser, Locks
<1>4. CASE DeactivateStaleUsers
  <2>1. \A a \in Accounts :
          \/ row'[a] = row[a]
          \/ /\ row[a].status = "active"
             /\ row'[a] = [row[a] EXCEPT !.status = "stale"]
    BY <1>4 DEF DeactivateStaleUsers
  <2>2. ASSUME NEW a \in Accounts, row'[a] # row[a]
        PROVE  RowMove(a) /\ row'[a] \in CachedRow
    <3>1. row[a].status = "active" /\ row'[a] = [row[a] EXCEPT !.status = "stale"]
      BY <2>1, <2>2
    <3>2. row[a] \in CachedRow /\ Kept(a)
      BY <3>1, RowKinds
    <3>3. /\ row'[a] \in CachedRow /\ row'[a].status = "stale"
          /\ row'[a].seen = row[a].seen
          /\ row'[a].limitedSeen = row[a].limitedSeen
      BY <3>1, <3>2 DEF CachedRow
    <3>4. /\ row[a].seen \in Nat /\ row[a].limitedSeen \in Nat
          /\ row[a].limitedSeen <= now /\ Erased \notin CachedRow
      BY <3>2, TimeAssumption
         DEF CachedRow, Moments, Times, NothingAhead, Erased
    <3> QED
      BY <3>2, <3>3, <3>4 DEF RowMove, Good, Kept
  <2>3. row' \in [Accounts -> {NoRow, Erased} \cup CachedRow]
    <3>1. /\ row' = [a \in Accounts |-> row'[a]]
      BY <1>4 DEF DeactivateStaleUsers
    <3> QED
      BY <1>0, <2>2, <3>1
  <2> QED
    BY <2>2, <2>3, StayMoves DEF Moves
<1> QED
  BY <1>1, <1>2, <1>3, <1>4 DEF PassStep, VerifyWithDirectory,
                                ListUsersToVerify, List, GetPublicUsers,
                                EndOfBatch, EndOfLookups

\* So does every step.
LEMMA NextMoves ==
  ASSUME TypeOK, NothingAhead, [Next]_vars
  PROVE  Moves
<1>1. CASE row' = row
  BY <1>1, StayMoves DEF Moves, TypeOK, RowsOK
<1> QED
  BY <1>1, WebhookMoves, RequestMoves, PassMoves
     DEF Next, vars, CNSStep, Rename, ChangeStatus, ChangeLock, DeleteAccount,
         Change, Tick, DirectoryFails

----------------------------------------------------------------------------
(* Types *)

\* The variables other than the rows have their types.
OthersOK ==
  /\ now \in Moments
  /\ cns \in [Accounts -> CNSAccount]
  /\ sent \subseteq Event /\ applied \subseteq sent
  /\ task \in [Tasks -> {Idle} \cup FetchTask \cup RecordTask]
  /\ pass \in {Idle, StalePass} \cup BatchPass \cup ApplyPass \cup LookupPass

\* What happens at CNS keeps the types.
LEMMA CNSTypes ==
  ASSUME TypeOK, CNSStep
  PROVE  OthersOK'
<1> USE TimeAssumption DEF TypeOK, OthersOK
<1>1. ASSUME now < MaxTime, now' = now + 1
      PROVE  now' \in Moments
  BY <1>1 DEF Moments
<1>2. CASE Tick
  BY <1>1, <1>2 DEF Tick
<1>3. ASSUME NEW a \in Accounts, NEW account \in CNSAccount, Change(a, account),
             \/ UNCHANGED sent
             \/ \E kind \in {"updated", "deleted"} : Emit(kind, a)
      PROVE  OthersOK'
  <2>1. now' \in Moments /\ cns' \in [Accounts -> CNSAccount]
    BY <1>1, <1>3 DEF Change
  <2>2. sent \subseteq sent' /\ sent' \subseteq Event
    <3>1. CASE UNCHANGED sent
      BY <3>1
    <3>2. ASSUME NEW kind \in {"updated", "deleted"}, Emit(kind, a)
          PROVE  sent \subseteq sent' /\ sent' \subseteq Event
      <4>1. cns'[a].name \in Names /\ cns'[a].limited \in BOOLEAN
        BY <2>1 DEF CNSAccount
      <4> QED
        BY <2>1, <3>2, <4>1 DEF Emit, Event
    <3> QED
      BY <1>3, <3>1, <3>2
  <2> QED
    BY <1>3, <2>1, <2>2 DEF Change
<1>4. \A a \in Accounts :
        /\ \A n \in Names : [cns[a] EXCEPT !.name = n] \in CNSAccount
        /\ [cns[a] EXCEPT !.limited = ~@] \in CNSAccount
        /\ [cns[a] EXCEPT !.locked = ~@] \in CNSAccount
        /\ [cns[a] EXCEPT !.live = FALSE] \in CNSAccount
  BY DEF CNSAccount
<1> QED
  BY <1>2, <1>3, <1>4
     DEF CNSStep, Rename, ChangeStatus, ChangeLock, DeleteAccount

\* A request keeps the types.
LEMMA RequestTypes ==
  ASSUME TypeOK, NEW p \in Tasks, RequestStep(p)
  PROVE  OthersOK'
<1> USE Remembered DEF TypeOK, OthersOK, Goto, Finish
<1>1. ASSUME NEW a \in Accounts, SyncIfStale(p, a)
      PROVE  OthersOK'
  <2>1. cns[a].limited \in BOOLEAN
    BY DEF CNSAccount
  <2> QED
    BY <1>1, <2>1 DEF SyncIfStale, FetchTask
<1>2. CASE GetServiceProfile(p)
  <2>1. task[p] \in FetchTask
    BY <1>2 DEF GetServiceProfile
  <2>2. task[p].of \in Accounts /\ task[p].limited \in BOOLEAN
        /\ task[p].time \in Moments
    BY <2>1 DEF FetchTask
  <2>3. cns[task[p].of].name \in Names /\ cns[task[p].of].locked \in BOOLEAN
    BY <2>2 DEF CNSAccount
  <2> QED
    BY <1>2, <2>2, <2>3 DEF GetServiceProfile, FetchTask, RecordTask
<1>3. CASE RecordOwnProfile(p)
  <2>1. task[p] \in RecordTask
    BY <1>3 DEF RecordOwnProfile
  <2> QED
    BY <1>3, <2>1 DEF RecordOwnProfile, FetchTask, RecordTask
<1>4. CASE RecordAccountStatus(p)
  BY <1>4 DEF RecordAccountStatus
<1> QED
  BY <1>1, <1>2, <1>3, <1>4 DEF RequestStep

\* The job keeps the types.
LEMMA PassTypes ==
  ASSUME TypeOK, PassStep \/ DirectoryFails
  PROVE  OthersOK'
<1> USE Remembered DEF TypeOK, OthersOK
<1>1. CASE ListUsersToVerify
  BY <1>1 DEF ListUsersToVerify, List, BatchPass
<1>2. CASE GetPublicUsers
  <2>1. pass.todo \subseteq Accounts /\ pass.time \in Moments
    BY <1>2 DEF GetPublicUsers, BatchPass
  <2>2. [a \in Accounts |-> cns[a].name] \in [Accounts -> Names]
    BY DEF CNSAccount
  <2>3. PICK found \in SUBSET {a \in pass.todo : cns[a].live} :
          pass' = [at |-> "apply", found |-> found, time |-> pass.time,
                   name |-> [a \in Accounts |-> cns[a].name],
                   missing |-> pass.todo \ found]
    BY <1>2 DEF GetPublicUsers
  <2>4. found \in SUBSET Accounts /\ pass.todo \ found \in SUBSET Accounts
    BY <2>1
  <2>5. pass' \in ApplyPass
    BY <2>1, <2>2, <2>3, <2>4 DEF ApplyPass
  <2> QED
    BY <1>2, <2>5 DEF GetPublicUsers
<1>3. ASSUME NEW a \in Accounts, RecordFound(a)
      PROVE  OthersOK'
  <2>1. pass \in ApplyPass /\ pass' = [pass EXCEPT !.found = pass.found \ {a}]
    BY <1>3 DEF RecordFound
  <2>2. pass' \in ApplyPass
    BY <2>1 DEF ApplyPass
  <2> QED
    BY <1>3, <2>2 DEF RecordFound
<1>4. CASE EndOfBatch
  BY <1>4 DEF EndOfBatch, ApplyPass, LookupPass
<1>5. ASSUME NEW a \in Accounts, GetPublicUser(a)
      PROVE  OthersOK'
  <2>1. /\ pass \in LookupPass
        /\ pass' = [pass EXCEPT !.missing = pass.missing \ {a}]
    BY <1>5 DEF GetPublicUser, LookUp
  <2>2. pass' \in LookupPass
    BY <2>1 DEF LookupPass
  <2> QED
    BY <1>5, <2>2 DEF GetPublicUser, LookUp
<1>6. CASE EndOfLookups
  BY <1>6 DEF EndOfLookups
<1>7. CASE DeactivateStaleUsers
  BY <1>7 DEF DeactivateStaleUsers
<1>8. CASE DirectoryFails
  BY <1>8 DEF DirectoryFails
<1> QED
  BY <1>1, <1>2, <1>3, <1>4, <1>5, <1>6, <1>7, <1>8
     DEF PassStep, VerifyWithDirectory

----------------------------------------------------------------------------
(* When a status was observed *)

\* What a step does to the history of a row: nothing, while the stamp stays; or it
\* is the stamp; or the status was overtaken; or no event of the user is newer.
StatusMove(b) ==
  row'[b] \in CachedRow =>
    \/ /\ heard'[b] = heard[b] /\ (b \in overtaken => b \in overtaken')
       /\ Kept(b) => row'[b].limitedSeen = row[b].limitedSeen
       /\ ~Kept(b) => row'[b].limitedSeen = 0
    \/ heard'[b] = row'[b].limitedSeen
    \/ b \in overtaken'
    \/ \A e \in sent : e.of = b => e.time <= heard'[b]

StatusMoves ==
  /\ heard' \in [Accounts -> Times] /\ overtaken' \subseteq Accounts
  /\ \A b \in Accounts : StatusMove(b)

\* A row that stays is as old as it was.
LEMMA StayStatus ==
  ASSUME TypeOK, NEW b \in Accounts, row'[b] = row[b],
         heard'[b] = heard[b], b \in overtaken => b \in overtaken'
  PROVE  StatusMove(b)
BY RowKinds DEF StatusMove, Kept, Exists, Deleted, NoRow, Erased, CachedRow

\* A profile leaves the status alone.
LEMMA ProfileStatus ==
  ASSUME TypeOK, NEW a \in Accounts, NEW n \in Names, NEW t \in Moments,
         NEW lock \in Locks, NEW rows, rows = WithProfile(a, n, t, lock),
         NEW b \in Accounts, row'[b] = rows[b], UNCHANGED heard,
         b \in overtaken => b \in overtaken'
  PROVE  StatusMove(b)
<1>1. /\ Deleted(b) => row'[b] = row[b]
      /\ b # a /\ ~Exists(b) => row'[b] = row[b]
      /\ Kept(b) => row'[b].limitedSeen = row[b].limitedSeen
      /\ ~Exists(a) => rows[a].limitedSeen = 0
  BY WithProfiles
<1>2. CASE Kept(b)
  BY <1>1, <1>2 DEF StatusMove
<1>3. CASE ~Kept(b) /\ row'[b] # row[b]
  BY <1>1, <1>3 DEF StatusMove, Kept
<1>4. CASE row'[b] = row[b]
  BY <1>4, StayStatus
<1> QED
  BY <1>2, <1>3, <1>4

\* An event of a webhook.
LEMMA WebhookStatus ==
  ASSUME TypeOK, NEW e \in sent, ApplyCNSUserUpdated(e)
  PROVE  StatusMoves
<1> DEFINE a == e.of
<1>1. /\ a \in Accounts /\ e.name \in Names /\ e.time \in Moments
      /\ e.time \in Times
  BY TimeAssumption DEF TypeOK, Event, Moments, Times
<1>2. PICK rows : rows = WithProfile(a, e.name, e.time, "unknown")
  OBVIOUS
<1>3. /\ row' = [rows EXCEPT ![a] = WithAccountStatus(rows[a], e.limited, e.time)]
      /\ IF TakesStatus(rows[a], e.time) THEN Hear(a, e.time, FALSE)
         ELSE UNCHANGED history
  BY <1>2 DEF ApplyCNSUserUpdated
<1>4. rows \in [Accounts -> {NoRow, Erased} \cup CachedRow]
  BY <1>1, <1>2, WithProfiles DEF Locks
<1>5. CASE TakesStatus(rows[a], e.time)
  <2>1. /\ heard' = [heard EXCEPT ![a] = e.time] /\ overtaken' = overtaken \ {a}
    BY <1>3, <1>5 DEF Hear
  <2>2. rows[a] \in CachedRow
    BY <1>1, <1>4, <1>5 DEF TakesStatus, NoRow, Erased
  <2>3. row'[a] = [rows[a] EXCEPT !.limited = e.limited, !.limitedSeen = e.time]
        /\ \A b \in Accounts \ {a} : row'[b] = rows[b]
    BY <1>1, <1>3, <1>4, <1>5 DEF WithAccountStatus
  <2>4. row'[a].limitedSeen = e.time
    BY <2>2, <2>3 DEF CachedRow
  <2>5. /\ heard'[a] = e.time /\ heard' \in [Accounts -> Times]
        /\ \A b \in Accounts \ {a} : heard'[b] = heard[b]
    BY <1>1, <2>1 DEF TypeOK
  <2>6. ASSUME NEW b \in Accounts \ {a}
        PROVE  StatusMove(b)
    <3>1. /\ Deleted(b) => row'[b] = row[b]
          /\ ~Exists(b) => row'[b] = row[b]
          /\ Kept(b) => row'[b].limitedSeen = row[b].limitedSeen
      BY <1>1, <1>2, <2>3, WithProfiles DEF Locks
    <3>2. heard'[b] = heard[b] /\ (b \in overtaken => b \in overtaken')
      BY <2>1, <2>5
    <3>3. CASE Kept(b)
      BY <3>1, <3>2, <3>3 DEF StatusMove
    <3>4. CASE ~Kept(b)
      BY <3>1, <3>2, <3>4, StayStatus DEF Kept
    <3> QED
      BY <3>3, <3>4
  <2>7. StatusMove(a)
    BY <2>4, <2>5 DEF StatusMove
  <2> QED
    BY <2>1, <2>5, <2>6, <2>7 DEF StatusMoves, TypeOK
<1>6. CASE ~TakesStatus(rows[a], e.time)
  <2>1. UNCHANGED history /\ heard \in [Accounts -> Times] /\ overtaken \subseteq Accounts
    BY <1>3, <1>6 DEF TypeOK
  <2>2. row' = rows
    BY <1>1, <1>3, <1>4, <1>6 DEF WithAccountStatus
  <2>3. \A b \in Accounts : StatusMove(b)
    BY <1>1, <1>2, <2>1, <2>2, ProfileStatus DEF history, Locks
  <2> QED
    BY <2>1, <2>3 DEF StatusMoves, history
<1> QED
  BY <1>5, <1>6

\* The status of a request.
LEMMA RequestStatus ==
  ASSUME TypeOK, NEW p \in Tasks, RecordAccountStatus(p)
  PROVE  StatusMoves
<1> DEFINE a == task[p].of
<1>1. task[p] \in FetchTask
  BY Remembered DEF RecordAccountStatus
<1>2. /\ a \in Accounts /\ task[p].time \in Moments /\ task[p].time \in Times
  BY <1>1, TimeAssumption DEF FetchTask, Moments, Times
<1>3. CASE ~(Kept(a) /\ row[a].limited # task[p].limited)
  BY <1>3, StayStatus DEF RecordAccountStatus, StatusMoves, TypeOK, history
<1>4. CASE Kept(a) /\ row[a].limited # task[p].limited
  <2>1. /\ row' = [row EXCEPT ![a] = WithAccountStatus(row[a], task[p].limited, now)]
        /\ Hear(a, task[p].time, \E e \in sent : e.of = a /\ e.time > task[p].time)
    BY <1>4 DEF RecordAccountStatus
  <2>2. /\ heard' = [heard EXCEPT ![a] = task[p].time]
        /\ overtaken' = IF \E e \in sent : e.of = a /\ e.time > task[p].time
                        THEN overtaken \cup {a} ELSE overtaken \ {a}
    BY <2>1 DEF Hear
  <2>3. heard'[a] = task[p].time /\ heard' \in [Accounts -> Times]
        /\ \A b \in Accounts \ {a} : heard'[b] = heard[b] /\ row'[b] = row[b]
    BY <1>2, <2>1, <2>2 DEF TypeOK, RowsOK
  <2>4. overtaken' \subseteq Accounts
        /\ \A b \in Accounts \ {a} : b \in overtaken => b \in overtaken'
    BY <1>2, <2>2 DEF TypeOK
  <2>5. \A b \in Accounts \ {a} : StatusMove(b)
    BY <2>3, <2>4, StayStatus
  <2>6. StatusMove(a)
    <3>1. CASE \E e \in sent : e.of = a /\ e.time > task[p].time
      BY <2>2, <3>1 DEF StatusMove
    <3>2. CASE ~ \E e \in sent : e.of = a /\ e.time > task[p].time
      <4>1. \A e \in sent : e.time \in Nat /\ task[p].time \in Nat
        BY <1>2, TimeAssumption DEF TypeOK, Event, Moments
      <4> QED
        BY <2>3, <3>2, <4>1 DEF StatusMove
    <3> QED
      BY <3>1, <3>2
  <2> QED
    BY <2>3, <2>4, <2>5, <2>6 DEF StatusMoves
<1> QED
  BY <1>3, <1>4

\* So does every step.
LEMMA NextStatusMoves ==
  ASSUME TypeOK, [Next]_vars
  PROVE  StatusMoves
<1>0. heard \in [Accounts -> Times] /\ overtaken \subseteq Accounts
  BY DEF TypeOK
<1>1. CASE UNCHANGED history /\ row' = row
  BY <1>0, <1>1, StayStatus DEF StatusMoves, history
<1>2. ASSUME UNCHANGED history, NEW a \in Accounts, NEW n \in Names,
             NEW t \in Moments, NEW lock \in Locks, RecordCNSProfile(a, n, t, lock)
      PROVE  StatusMoves
  BY <1>0, <1>2, ProfileStatus DEF StatusMoves, history, RecordCNSProfile
<1>3. ASSUME UNCHANGED history, NEW a \in Accounts, MarkUserDeleted(a)
      PROVE  StatusMoves
  <2>1. row'[a] = Erased /\ \A b \in Accounts \ {a} : row'[b] = row[b]
    BY <1>3 DEF MarkUserDeleted, TypeOK, RowsOK
  <2>2. StatusMove(a)
    BY <2>1 DEF StatusMove, Erased, CachedRow
  <2> QED
    BY <1>0, <1>3, <2>1, <2>2, StayStatus DEF StatusMoves, history
<1>4. CASE WebhookStep
  BY <1>3, <1>4, WebhookStatus
     DEF WebhookStep, ApplyCNSUserDeleted, TypeOK, Event
<1>5. ASSUME NEW p \in Tasks, RequestStep(p)
      PROVE  StatusMoves
  <2>1. CASE RecordOwnProfile(p)
    <3>1. task[p] \in RecordTask
      BY <2>1, Remembered DEF RecordOwnProfile
    <3>2. /\ task[p].of \in Accounts /\ task[p].name \in Names
          /\ task[p].time \in Moments
      BY <3>1 DEF RecordTask
    <3> QED
      BY <1>2, <2>1, <3>2 DEF RecordOwnProfile, Locks
  <2> QED
    BY <1>1, <1>5, <2>1, RequestStatus
       DEF RequestStep, SyncIfStale, GetServiceProfile
<1>6. CASE PassStep
  <2>1. ASSUME NEW a \in Accounts, RecordFound(a)
        PROVE  StatusMoves
    <3>1. pass \in ApplyPass
      BY <2>1, Remembered DEF RecordFound
    <3>2. pass.name[a] \in Names /\ pass.time \in Moments
      BY <3>1 DEF ApplyPass
    <3> QED
      BY <1>2, <2>1, <3>2 DEF RecordFound, Locks
  <2>2. ASSUME NEW a \in Accounts, GetPublicUser(a)
        PROVE  StatusMoves
    <3>1. cns[a].name \in Names /\ now \in Moments
      BY DEF TypeOK, CNSAccount
    <3> QED
      BY <1>2, <1>3, <2>2, <3>1 DEF GetPublicUser, LookUp, Locks
  <2>3. CASE DeactivateStaleUsers
    <3>1. UNCHANGED history
      BY <2>3 DEF DeactivateStaleUsers
    <3>2. ASSUME NEW b \in Accounts
          PROVE  StatusMove(b)
      <4>1. CASE row'[b] = row[b]
        BY <3>1, <4>1, StayStatus DEF history
      <4>2. CASE row'[b] # row[b]
        <5>1. row[b].status = "active" /\ row'[b] = [row[b] EXCEPT !.status = "stale"]
          BY <2>3, <4>2 DEF DeactivateStaleUsers
        <5>2. row[b] \in CachedRow /\ Kept(b)
          BY <5>1, RowKinds
        <5>3. row'[b].limitedSeen = row[b].limitedSeen
          BY <5>1, <5>2 DEF CachedRow
        <5> QED
          BY <3>1, <5>2, <5>3 DEF StatusMove, history
      <4> QED
        BY <4>1, <4>2
    <3> QED
      BY <1>0, <3>1, <3>2 DEF StatusMoves, history
  <2> QED
    BY <1>1, <1>6, <2>1, <2>2, <2>3
       DEF PassStep, VerifyWithDirectory, ListUsersToVerify, List,
           GetPublicUsers, EndOfBatch, EndOfLookups
<1>7. CASE CNSStep \/ DirectoryFails \/ UNCHANGED vars
  BY <1>1, <1>7 DEF CNSStep, Rename, ChangeStatus, ChangeLock, DeleteAccount,
                    Change, Tick, DirectoryFails, vars, history
<1> QED
  BY <1>4, <1>5, <1>6, <1>7 DEF Next

\* Every step keeps the types.
LEMMA TypeStep ==
  ASSUME TypeOK, NothingAhead, [Next]_vars
  PROVE  TypeOK'
<1>1. OthersOK'
  <2>1. CASE UNCHANGED vars
    BY <2>1 DEF vars, TypeOK, OthersOK
  <2>2. CASE WebhookStep
    BY <2>2 DEF WebhookStep, ApplyCNSUserUpdated, ApplyCNSUserDeleted,
                ApplyOnce, TypeOK, OthersOK
  <2> QED
    BY <2>1, <2>2, CNSTypes, RequestTypes, PassTypes DEF Next
<1>2. /\ row' \in [Accounts -> {NoRow, Erased} \cup CachedRow]
      /\ \A a \in Accounts : Good(row[a])'
  BY NextMoves DEF Moves, RowMove, Good
<1>3. heard' \in [Accounts -> Times] /\ overtaken' \subseteq Accounts
  BY NextStatusMoves DEF StatusMoves
<1> QED
  BY <1>1, <1>2, <1>3 DEF TypeOK, OthersOK, RowsOK, Good

----------------------------------------------------------------------------
(* The invariant *)

\* Both hold at the start.
LEMMA InitInv == Init => TypeOK /\ CacheInv
<1> SUFFICES ASSUME Init
             PROVE  TypeOK /\ CacheInv
  OBVIOUS
<1>1. PICK known \in SUBSET Accounts :
        row = [a \in Accounts |->
                 IF a \in known THEN NewRow(FirstName[a], 1) ELSE NoRow]
  BY DEF Init
<1>2. 1 \in Moments /\ now = 1
  BY TimeAssumption DEF Init, Moments
<1>3. \A a \in Accounts : FirstName[a] \in Names
  BY NamesAssumption
<1>4. \A a \in Accounts :
        /\ row[a] \in {NoRow, Erased} \cup CachedRow
        /\ Good(row[a]) /\ ~Deleted(a)
        /\ Kept(a) => row[a].limitedSeen = 0
  <2>1. ASSUME NEW a \in Accounts, a \in known
        PROVE  row[a] \in CachedRow /\ Good(row[a]) /\ row[a].limitedSeen = 0
    BY <1>1, <1>2, <1>3, <2>1, NewRows
  <2>2. ASSUME NEW a \in Accounts, a \notin known
        PROVE  row[a] = NoRow /\ ~Kept(a)
    BY <1>1, <2>2 DEF Kept, Exists
  <2>3. NoRow # Erased /\ Erased \notin CachedRow /\ Good(NoRow)
    BY DEF NoRow, Erased, CachedRow, Good
  <2> QED
    BY <2>1, <2>2, <2>3 DEF Deleted, Good
<1>5. cns \in [Accounts -> CNSAccount]
  BY <1>3 DEF Init, CNSAccount
<1>6. row \in [Accounts -> {NoRow, Erased} \cup CachedRow]
  <2>1. row = [a \in Accounts |-> row[a]]
    BY <1>1
  <2> QED
    BY <1>4, <2>1
<1>7. TypeOK
  <2>1. 0 \in Times
    BY TimeAssumption DEF Times
  <2> QED
    BY <1>2, <1>4, <1>5, <1>6, <2>1 DEF Init, TypeOK, RowsOK, Good
<1> QED
  BY <1>2, <1>4, <1>7 DEF Init, CacheInv, OnlyGoneAreErased,
                          StampsInOrder, StampsAhead, DeletedAreGone, NothingAhead,
                          AppliedExist

\* The clock and CNS only go forward, and what CNS reports is so.
LEMMA CNSMoves ==
  ASSUME TypeOK, [Next]_vars
  PROVE  /\ now \in Nat /\ now' \in Nat /\ now' >= now
         /\ \A a \in Accounts : ~cns[a].live => ~cns'[a].live
         /\ \A e \in sent' \ sent :
              e.time > now /\ (e.kind = "deleted" => ~cns'[e.of].live)
         /\ \A e \in sent' \ sent : e.time = now'
<1>1. now \in Nat
  BY TimeAssumption DEF TypeOK, Moments
<1>2. CASE UNCHANGED <<now, cns, sent>>
  BY <1>1, <1>2
<1>3. CASE Tick
  BY <1>1, <1>3 DEF Tick
<1>4. ASSUME NEW a \in Accounts, NEW account \in CNSAccount, Change(a, account),
             \/ UNCHANGED sent
             \/ Emit("updated", a)
             \/ Emit("deleted", a) /\ ~account.live
      PROVE  /\ now' \in Nat /\ now' >= now
             /\ \A b \in Accounts : ~cns[b].live => ~cns'[b].live
             /\ \A e \in sent' \ sent :
                  e.time > now /\ (e.kind = "deleted" => ~cns'[e.of].live)
             /\ \A e \in sent' \ sent : e.time = now'
  <2>1. /\ now' = now + 1 /\ cns[a].live /\ cns'[a] = account
        /\ \A b \in Accounts \ {a} : cns'[b] = cns[b]
    BY <1>4 DEF Change, TypeOK
  <2>2. \A e \in sent' \ sent :
          e.of = a /\ e.time = now' /\ (e.kind = "deleted" => ~account.live)
    BY <1>4 DEF Emit
  <2> QED
    BY <1>1, <2>1, <2>2
<1>5. \A a \in Accounts :
        /\ \A n \in Names : [cns[a] EXCEPT !.name = n] \in CNSAccount
        /\ [cns[a] EXCEPT !.limited = ~@] \in CNSAccount
        /\ [cns[a] EXCEPT !.locked = ~@] \in CNSAccount
        /\ [cns[a] EXCEPT !.live = FALSE] \in CNSAccount
        /\ ~[cns[a] EXCEPT !.live = FALSE].live
  BY DEF TypeOK, CNSAccount
<1>6. CASE CNSStep
  BY <1>1, <1>3, <1>4, <1>5, <1>6
     DEF CNSStep, Rename, ChangeStatus, ChangeLock, DeleteAccount
<1> QED
  BY <1>2, <1>6 DEF Next, vars, WebhookStep, ApplyCNSUserUpdated,
                    ApplyCNSUserDeleted, RequestStep, SyncIfStale,
                    GetServiceProfile, RecordOwnProfile, RecordAccountStatus,
                    PassStep, VerifyWithDirectory, ListUsersToVerify, List,
                    GetPublicUsers, RecordFound, EndOfBatch, GetPublicUser,
                    LookUp, EndOfLookups, DeactivateStaleUsers, DirectoryFails

\* An event that is applied leaves a row that is not behind it.
LEMMA AppliedMoves ==
  ASSUME TypeOK, NothingAhead, [Next]_vars, NEW e \in applied' \ applied
  PROVE  /\ e \in sent /\ UNCHANGED <<now, cns, sent>>
         /\ Exists(e.of)'
         /\ e.kind = "deleted" => Deleted(e.of)'
         /\ Kept(e.of)' =>
              row'[e.of].seen >= e.time /\ row'[e.of].limitedSeen >= e.time
<1>1. ApplyCNSUserUpdated(e) \/ ApplyCNSUserDeleted(e)
  BY DEF Next, vars, CNSStep, Rename, ChangeStatus, ChangeLock, DeleteAccount,
         Change, Tick, WebhookStep, ApplyCNSUserUpdated, ApplyCNSUserDeleted,
         ApplyOnce, RequestStep, SyncIfStale, GetServiceProfile,
         RecordOwnProfile, RecordAccountStatus, PassStep, VerifyWithDirectory,
         ListUsersToVerify, List, GetPublicUsers, RecordFound, EndOfBatch,
         GetPublicUser, LookUp, EndOfLookups, DeactivateStaleUsers,
         DirectoryFails
<1>2. e \in sent /\ UNCHANGED <<now, cns, sent>>
  BY <1>1 DEF ApplyCNSUserUpdated, ApplyCNSUserDeleted, ApplyOnce
<1>3. /\ e.of \in Accounts /\ e.name \in Names /\ e.time \in Moments
      /\ e.limited \in BOOLEAN
  BY <1>2 DEF TypeOK, Event
<1>4. NoRow # Erased /\ NoRow \notin CachedRow /\ Erased \notin CachedRow
  BY DEF NoRow, Erased, CachedRow
<1>5. CASE ApplyCNSUserDeleted(e)
  <2>1. row'[e.of] = Erased
    BY <1>3, <1>5 DEF ApplyCNSUserDeleted, MarkUserDeleted, TypeOK, RowsOK
  <2> QED
    BY <1>2, <1>4, <2>1 DEF Deleted, Exists, Kept
<1>6. CASE ApplyCNSUserUpdated(e)
  <2> DEFINE a == e.of
             rows == WithProfile(a, e.name, e.time, "unknown")
             own == WithAccountStatus(rows[a], e.limited, e.time)
  <2>1. row' = [rows EXCEPT ![a] = own] /\ e.kind = "updated"
    BY <1>6 DEF ApplyCNSUserUpdated
  <2>2. /\ rows \in [Accounts -> {NoRow, Erased} \cup CachedRow]
        /\ Good(rows[a])
        /\ Deleted(a) => rows[a] = row[a]
        /\ ~Deleted(a) => rows[a] \in CachedRow /\ rows[a].seen >= e.time
    BY <1>3, WithProfiles DEF Locks
  <2>3. row'[a] = own
    BY <1>3, <2>1, <2>2
  <2>4. CASE Deleted(a)
    BY <1>2, <1>3, <1>4, <2>1, <2>2, <2>3, <2>4, AccountStatuses
       DEF Deleted, Exists, Kept
  <2>5. CASE ~Deleted(a)
    <3>1. /\ own \in CachedRow /\ own.seen = rows[a].seen
          /\ own.limitedSeen >= e.time
      BY <1>3, <2>2, <2>5, AccountStatuses
    <3> QED
      BY <1>2, <1>4, <2>1, <2>2, <2>3, <2>5, <3>1 DEF Deleted, Exists, Kept
  <2> QED
    BY <2>4, <2>5
<1> QED
  BY <1>1, <1>5, <1>6

\* Every step keeps the invariant.
LEMMA InvStep ==
  ASSUME TypeOK, CacheInv, [Next]_vars
  PROVE  TypeOK' /\ CacheInv'
<1> USE DEF CacheInv
<1>1. TypeOK'
  BY TypeStep
<1>2. Moves
  BY NextMoves
<1>3. DeletedAreGone'
  BY CNSMoves DEF DeletedAreGone, TypeOK, Event
<1>4. NoRow # Erased /\ NoRow \notin CachedRow /\ Erased \notin CachedRow
  BY DEF NoRow, Erased, CachedRow
<1>5. NothingAhead'
  <2>1. \A e \in sent' : (e.time <= now)'
    <3>1. \A e \in sent : e.time \in Nat
      BY TimeAssumption DEF TypeOK, Event, Moments
    <3> QED
      BY <3>1, CNSMoves DEF NothingAhead
  <2>2. ASSUME NEW a \in Accounts, Kept(a)'
        PROVE  (row[a].limitedSeen <= now)'
    <3>1. row'[a] \in CachedRow
      BY <1>2, <1>4, <2>2 DEF Moves, RowMove, Good, Kept, Exists, Deleted
    <3>2. row'[a].limitedSeen <= now /\ row'[a].limitedSeen \in Nat
      BY <1>2, <3>1, TimeAssumption DEF Moves, RowMove, CachedRow, Times
    <3> QED
      BY <3>2, CNSMoves
  <2> QED
    BY <2>1, <2>2 DEF NothingAhead
<1>6. OnlyGoneAreErased'
  <2> SUFFICES ASSUME NEW a \in Accounts, Deleted(a)'
               PROVE  ~cns'[a].live
    BY DEF OnlyGoneAreErased
  <2>1. ~cns[a].live
    BY <1>2 DEF Moves, RowMove, Deleted, OnlyGoneAreErased, DeletedAreGone
  <2> QED
    BY <2>1, CNSMoves
<1>7. AppliedExist' /\ StampsInOrder'
  <2> SUFFICES ASSUME NEW e \in applied'
               PROVE  /\ Exists(e.of)' /\ (e.kind = "deleted" => Deleted(e.of)')
                      /\ Kept(e.of)' => /\ row'[e.of].seen >= e.time
                                        /\ row'[e.of].limitedSeen >= e.time
    BY DEF AppliedExist, StampsInOrder
  <2>1. CASE e \notin applied
    BY <2>1, AppliedMoves
  <2>2. CASE e \in applied
    <3>1. e.of \in Accounts /\ e.time \in Nat
      BY <2>2, TimeAssumption DEF TypeOK, Event, Moments
    <3>2. Exists(e.of) /\ (e.kind = "deleted" => Deleted(e.of))
          /\ RowMove(e.of)
      BY <1>2, <2>2, <3>1 DEF AppliedExist, Moves
    <3>3. Exists(e.of)' /\ (e.kind = "deleted" => Deleted(e.of)')
      BY <1>4, <3>2 DEF RowMove, Exists, Kept, Deleted
    <3>4. ASSUME Kept(e.of)'
          PROVE  row'[e.of].seen >= e.time /\ row'[e.of].limitedSeen >= e.time
      <4>1. Kept(e.of)
        BY <3>2, <3>4 DEF RowMove, Kept, Deleted
      <4>2. /\ row'[e.of].seen >= row[e.of].seen
            /\ row'[e.of].limitedSeen >= row[e.of].limitedSeen
        BY <3>2, <3>4, <4>1 DEF RowMove, Kept, Deleted
      <4>3. row[e.of].seen >= e.time /\ row[e.of].limitedSeen >= e.time
        BY <2>2, <4>1 DEF StampsInOrder
      <4>4. /\ row[e.of] \in CachedRow /\ row'[e.of] \in CachedRow
        BY <3>1, <3>2, <3>4, <4>1, RowKinds DEF RowMove, Kept, Deleted
      <4>5. /\ row[e.of].seen \in Nat /\ row[e.of].limitedSeen \in Nat
            /\ row'[e.of].seen \in Nat /\ row'[e.of].limitedSeen \in Nat
        BY <4>4, TimeAssumption DEF CachedRow, Moments, Times
      <4> QED
        BY <3>1, <4>2, <4>3, <4>5
    <3> QED
      BY <3>3, <3>4
  <2> QED
    BY <2>1, <2>2
<1>8. StampsAhead'
  <2> SUFFICES ASSUME NEW a \in Accounts, Kept(a)', a \notin overtaken',
                      NEW e \in sent', e.of = a, row'[a].limitedSeen >= e.time
               PROVE  heard'[a] >= e.time
    BY DEF StampsAhead
  <2>1. row'[a] \in CachedRow /\ row'[a].limitedSeen <= now
    BY <1>2, <1>4 DEF Moves, RowMove, Good, Kept, Exists, Deleted
  <2>2. /\ row'[a].limitedSeen \in Nat /\ now \in Nat
        /\ e.time \in Nat /\ e.time >= 1
    BY <1>1, <2>1, TimeAssumption DEF TypeOK, Event, CachedRow, Moments, Times
  <2>3. e \in sent
    BY <2>1, <2>2, CNSMoves
  <2>4. heard'[a] \in Nat
    BY <1>1, TimeAssumption DEF TypeOK, Times
  <2>5. StatusMove(a)
    BY NextStatusMoves DEF StatusMoves
  <2>6. CASE heard'[a] = row'[a].limitedSeen
    BY <2>2, <2>6
  <2>7. CASE \A d \in sent : d.of = a => d.time <= heard'[a]
    BY <2>2, <2>3, <2>4, <2>7
  <2>8. CASE /\ heard'[a] = heard[a] /\ a \notin overtaken
             /\ Kept(a) /\ row'[a].limitedSeen = row[a].limitedSeen
    BY <2>3, <2>8 DEF StampsAhead
  <2> QED
    BY <2>1, <2>2, <2>5, <2>6, <2>7, <2>8 DEF StatusMove
<1> QED
  BY <1>1, <1>3, <1>5, <1>6, <1>7, <1>8

----------------------------------------------------------------------------
(* Theorems *)

\* The cache keeps its types and the invariant, whatever the order in which
\* requests, webhooks and the directory bring their news.
THEOREM CacheCorrect == Spec => [](TypeOK /\ CacheInv)
<1>1. TypeOK /\ CacheInv /\ [Next]_vars => (TypeOK /\ CacheInv)'
  BY InvStep
<1> QED
  BY <1>1, InitInv, PTL DEF Spec

\* "A user counts as gone only when a single lookup returns CNS's not_found": no
\* fault of the directory erases an account that exists.
THEOREM ErasedAreGone == Spec => []OnlyGoneAreErased
<1>1. TypeOK /\ CacheInv => OnlyGoneAreErased
  BY DEF CacheInv
<1> QED
  BY <1>1, CacheCorrect, PTL

\* "older events never overwrite newer data": the profile of a row is never older
\* than an event that was applied to it; nor is its account status, by the moment it
\* was observed, unless a request that an event overtook wrote it.
THEOREM EventsKept == Spec => []NeverBehindEvents
<1>1. TypeOK /\ CacheInv => NeverBehindEvents
  <2> SUFFICES ASSUME TypeOK, CacheInv, NEW e \in applied, Kept(e.of)
               PROVE  /\ row[e.of].seen >= e.time
                      /\ heard[e.of] >= e.time \/ e.of \in overtaken
    BY DEF NeverBehindEvents
  <2>1. e \in sent /\ e.of \in Accounts
    BY DEF TypeOK, Event
  <2>2. row[e.of].seen >= e.time /\ row[e.of].limitedSeen >= e.time
    BY DEF CacheInv, StampsInOrder
  <2> QED
    BY <2>1, <2>2 DEF CacheInv, StampsAhead
<1> QED
  BY <1>1, CacheCorrect, PTL

\* "deletion is final": no late webhook, profile or directory entry makes the row
\* of an erased user again.
THEOREM ErasedStay == Spec => DeletionIsFinal
<1>1. TypeOK /\ CacheInv /\ [Next]_vars =>
        [\A a \in Accounts : Deleted(a) => Deleted(a)']_vars
  BY NextMoves DEF CacheInv, Moves, RowMove, Deleted
<1> QED
  BY <1>1, CacheCorrect, PTL DEF Spec, DeletionIsFinal

\* "this is the only source that knows whether the account is locked": a locked
\* row is in search again only after the user's own profile was fetched.
THEOREM LockedStay == Spec => LockedStaysHidden
<1>1. TypeOK /\ CacheInv /\ [Next]_vars =>
        [\A a \in Accounts :
           row[a].status = "locked" /\ row'[a].status = "active" =>
             \E p \in Tasks : task[p].at = "record" /\ task[p].of = a
                              /\ task'[p].at = "status"]_vars
  BY NextMoves DEF CacheInv, Moves, RowMove, OwnProfile
<1> QED
  BY <1>1, CacheCorrect, PTL DEF Spec, LockedStaysHidden
=============================================================================
