# Sendly in TLA+

Sendly is an end-to-end encrypted file sharing service. This directory holds
TLA+ modules of the parts of its server in which several processes work on
shared state, the configurations that check them with TLC, and proofs of all
of their safety properties that TLAPS checks. Paths below are relative to the
repository.

1. [The system](#the-system)
2. [Components](#components)
3. [The modules](#the-modules)
4. [The runs](#the-runs)
5. [Fairness](#fairness)
6. [What is proved](#what-is-proved)
7. [Findings and known deviations](#findings-and-known-deviations)
8. [Not modelled](#not-modelled)
9. [Plan](#plan)

## The system

- **Replicas.** Any number of identical Go processes (`cmd/server`) behind a
  load balancer. Consecutive requests of a client reach different replicas. A
  replica keeps nothing that matters in memory: maps of what it is doing itself
  (`Upload.running`, the local cache of token refreshes, its WebSockets).
- **PostgreSQL.** The one source of truth: upload sessions and chunks, files,
  tunnels and participants, transfers, device identities, the mirror of user
  accounts, rate limit counters, shared token refreshes, claims of periodic
  jobs. `NOTIFY` carries events between replicas; advisory locks serialise
  token refreshes, jobs and migrations.
- **The volume.** One or two directories shared by all replicas:
  `chunks/<session>/` and one blob per file ID. Files are written under a
  temporary name and renamed. A marker file says which database they belong to.
- **CNS.** The external identity provider: it issues and rotates tokens,
  validates access tokens, has a directory of users, and reports account
  changes by webhook.
- **The clients.** The browser (`web/static/js`) and the desktop and Android
  apps encrypt, upload in chunks, retry everything, poll, and listen on
  WebSockets. The server cannot rely on what they do, and nothing here does:
  their requests are arbitrary ones in an arbitrary order. The exceptions are
  what properties are about: the page of a tunnel's host, which reads keys and
  pushes envelopes (`Tunnels`), a page that reloads its history on events
  (`Realtime`), and a device that wraps only key versions it has (`DeviceIdentity`).

Nothing holds a transaction across the database and the volume, and most
handlers are several transactions long. What keeps the state together is the
order of single steps, each of which may be the last one of a replica that dies,
plus row locks, unique indexes, leases, re-checks and a periodic cleanup. That
is where the modules look.

## Components

State, operations, what they interact with, what is hard, and what makes them
correct. The status of each, and the reason for what is left out, is also in
`PROJECT.json`.

### Resumable upload and finalize (modelled: `Uploads`, `UploadPromise`, `UploadRefinement`)

`internal/services/upload.go`, `internal/storage/upload_sessions.go`,
`internal/storage/filesystem.go`, `internal/handlers/upload.go`

- State: a row of `upload_sessions` (state, owner and end of the assembly lease,
  expiry), rows of `upload_chunks`, a chunk directory, the blob of the file ID,
  the `files` row, and in each replica the assemblies it runs.
- Operations: init, chunk, complete, the assembly in the background with its
  lease and renewal, finalize, cancel, the removal of expired sessions, the
  resumption of orphaned assemblies.
- Hard: an assembly is taken over when its lease runs out, while the one who
  lost it is still copying; every handler reads the session and acts on it
  later; commits whose answer is lost are retried; replicas die anywhere.
- Correct when: what is announced as assembled has its complete blob; chunks
  outlive every assembly that may need them again; an upload fails only for a
  reason; every file has its blob (where the code keeps it: a removal of the
  session beside its finalize loses it); a sealed upload comes to an end.

### Cleanup of expired, deleted and orphaned storage (modelled: `Cleanup`)

`internal/services/cleanup.go`, `internal/services/retention.go`,
`internal/storage/retention.go`, `internal/storage/filesystem.go`, and the
deletion of a file by `cmd/admin` and by reports

- State: `files.is_deleted`, the volume, and what a sweep has read.
- Operations: mark expired files, unlink blobs of deleted ones, remove orphaned
  chunk directories, purge rows past retention, remove orphaned blobs.
- Hard: database and directory are read at different times while uploads go
  on; a run may overlap the next one (see the jobs); it may stop anywhere.
- Correct when: no blob of a live file or of an upload in progress goes, and
  all that nothing refers to does go in the end.

### Sign-in token refresh (partly: `TokenRefresh`)

`internal/middleware/cns_auth.go`, `internal/storage/coordination.go`
(`SharedRefresh`), `internal/handlers/auth.go` (`Refresh`)

- State: the cookies of the browser, the tokens CNS accepts, the shared results
  in `token_refresh_results`, the advisory lock, each replica's local results.
- Operations: validation with a refresh before and after it, the refresh on
  demand, the shared and the local refresh.
- Hard: CNS takes a second redemption of a rotated token for theft; requests of
  one browser reach several replicas at once, and their answers come back in
  any order; CNS, the database and replicas fail between redeeming and storing.
- Correct when: a token is redeemed once, the user stays signed in unless CNS
  says otherwise, every request is answered.
- Left out: the OAuth redirect and callback, and logout.

### Rate limits (modelled: `RateLimit`)

`internal/middleware/ratelimit.go`, `internal/storage/coordination.go`
(`CheckRateLimit`)

- State: one row per key, with the start of a window and a count.
- Hard: the window is computed before the upsert; the count may be committed
  and its answer lost; strict and lenient limiters differ in what they do then.
- Correct when: no window admits more than its limit (a request counted late
  breaks it); nobody pays for another window.

### Tunnels (partly: `Tunnels`)

`internal/storage/tunnels.go`, `internal/handlers/tunnels.go`,
`internal/handlers/tunnel_auth.go`, `web/static/js/quick-share.js`

- State: the tunnel row, participants with throwaway keys, rejections,
  envelopes of the session key, files shared in the tunnel.
- Operations: creation with the host's row, join and re-join, approve, reject,
  confirm, push of envelopes, upload, leave (which deletes the tunnel behind
  the last one), end, expiry.
- Hard: a join locks the tunnel row, and the foreign keys of the others' inserts
  wait for it in the opposite order; the host's page wraps keys it read
  earlier; leaving is four separate statements.
- Correct when: who was declined stays out, an envelope is for the key on
  record, a tunnel and its files live as long as somebody is in it.
- Left out: the four-digit codes, read-only listings.

### Device identity and enrollment (modelled: `DeviceIdentity`, `IdentityPromise`)

`internal/services/device_identity.go`, `internal/storage/postgres.go`,
`internal/storage/legacy_user_key.go`, `internal/handlers/identity_migration.go`

- State: devices, versions of the account's identity key, a wrapped copy of a
  version per device, enrollments, legacy user keys and their escrow.
- Operations: register, create the first key, ask for enrollment, approve,
  reject, cancel, expire, recover, remove the approver app, migrate from a
  legacy user key, adopt the migrated key on another device.
- Hard: every one of them reads in one statement and writes in another; two
  first devices; an approval that stores its copy after a rejection, a removal
  or a recovery.
- Correct when: a copy is of the version it is filed under; an account with a
  key has a device that holds it; a stranger never founds the key of an
  existing account; an approved device has its copy.

### Transfers, shares and reports (modelled: `FileAccess`)

`internal/storage/transfers.go`, `internal/handlers/transfers.go`,
`internal/handlers/sharing.go`, `internal/storage/identity_rescue.go`,
`internal/handlers/identity_rescue.go`, `internal/handlers/report.go`

- State: the row of a file, its transfers, one wrapped copy of its key per
  account, reports.
- Operations: finalize with the owner's copy, share to an account, accept,
  decline, fetch a key, recover an identity key, rescue locked copies, migrate
  the key of an old file, report (as a user, as a guest, from a transfer),
  delete, expire, purge.
- Hard: two answers at once; the copy is wrapped for a version of the identity
  key that may be replaced meanwhile; check, insert, count and deletion of a
  report are separate statements.
- Correct when: every copy can be opened by some version of its account's key,
  a rescue never overwrites one that opens, an answer stays, a key is handed out
  only after the transfer was accepted, enough reports delete the file.

### User cache and account status (partly: `UserCache`)

`internal/services/user_cache.go`, `internal/storage/users.go`,
`internal/handlers/cns_webhook.go`, `internal/middleware/account_status.go`

- State: the `users` row of an account (name, status, moments of observation,
  the account's limits), the webhook events applied, a pass of the
  reconciliation job.
- Operations: record a profile that a request has fetched, record the status a
  request came with, apply a webhook, check the directory in batches, look up
  who is missing, put stale users out of search.
- Hard: three sources that are late and out of order; names move from one
  account to another; a deletion is final, so a wrong one is a disaster.
- Correct when: nobody who exists is erased, erased users stay so, no row is
  behind an event it has acknowledged, the mirror catches up.

### Periodic jobs, storage ownership, migrations (modelled: `Jobs`, `Deployment`; migrations partly)

`internal/storage/coordination.go` (`RunJob`), `internal/storage/instance.go`,
`internal/storage/migrator.go`, `cmd/server/main.go`

- State: `job_runs`, a session-level advisory lock on a connection of its own;
  `schema_migrations` and the lock of the migrations; the marker in each
  directory and the ID of the database.
- Operations: a server boots, migrates, claims its directories, serves, runs
  the cleanup job; it dies, or loses a connection that holds a lock.
- Hard: the connection is lost while the job or the migration goes on; the
  marker is created and written in two steps; two databases configured with the
  same directory; replicas of two images.
- Correct when: nothing of another database is swept, a migration is applied
  once, a job starts once per interval and is never forgotten.

### Realtime delivery (partly: `Realtime`)

`internal/realtime/hub.go`, `conn.go`, `listener.go`,
`internal/handlers/device_enrollments_ws.go`, `web/static/js/account-menu.js`,
`web/static/js/transfers.js`

- State: sockets of each replica's hub with their bounded queues, the listener,
  what a page shows.
- Operations: publish, `NOTIFY`, deliver, upgrade, add, serve, reconnect of the
  listener, shutdown; the page that reconnects and reloads.
- Hard: a socket added while the hub shuts down; a client that does not read; a
  listener that was away; a page that connects between its request and the event.
- Correct when: an open page has heard, or is going to hear, of all that it was
  not told to reload for, and a replica that goes away serves no socket.

### Others

Download, the desktop and Android handlers, the browser's uploader and
cryptography, administration and pages have no module: see
[Not modelled](#not-modelled).

## The modules

```
UploadPromise                          IdentityPromise
      ^ implemented by                        ^ implemented by
UploadRefinement                       DeviceIdentity        FileAccess
      | EXTENDS
   Uploads <--EXTENDS-- Cleanup        Deployment --INSTANCE--> Jobs

TokenRefresh     RateLimit     Tunnels     UserCache     Realtime
```

`X_proofs` holds the theorems of `X`; `Uploads_proofs` also those of the
refinement and of `Cleanup`, and `Replicas_proofs` those of `RateLimit` and
`Realtime`. `MC…` modules only name model values, symmetry sets and, for the
cleanup, one bound. Definitions keep the
names of the functions they translate. An operator whose comment starts with
"Mutant:" stands before the definition it would replace; it is no part of the
specification, it is the mistake that the named property has to catch. Every
module ends with the properties, and with *what the properties rest on*: the
parts of the inductive invariant that is proved.

In `DeviceIdentity`, `FileAccess`, `UserCache` and `Tunnels` a request is a task
that remembers what it has read (`task[p]`, with its next step in `at`).
One transaction is one step, and any other request may commit between two of
them; `Abort` ends a request anywhere.

### `Uploads`

A row of `upload_sessions` is kept column by column: `state` (with `none`
before and `gone` after it exists), `owner` (`assembly_owner`), `held`
(`assembly_lease_until > NOW()`), `expired` (`expires_at <= NOW()`), and
`recorded` (its `upload_chunks`). Time is visible only through `held` and
`expired`: `Expire` and `LeaseRunsOut` may happen at any moment, a claim or a
renewal holds the lease again, and the commit of an assembly gives the session a
new deadline. On the volume, `chunks[s]` are the files in a session's directory and `blob[f]` is the
session whose content stands under a file ID. `files[f]` is the session whose
finalize created the row.

Two kinds of process run concurrently.

- `worker[r][s]` is the assembly of a session by a replica (`assemble`). Its
  steps are the claim, the copy, the rename, the fenced commit of the result
  (`FinishAssembly`, `FailAssembly`, `ReleaseAssembly`) and the deletion of the
  chunks. `idle` is `!u.running[sessionID]`. The renewal goroutine is
  `RenewAssembly`; that it notices a lost lease is `Interrupt`. A commit whose
  answer is lost is retried by `record` and finds the row changed; `record`
  gives up after two minutes (`RecordGivesUp`).
- `task[p]` is a goroutine that serves a request or removes an expired session.
  A step is one transaction or one access to the volume. Any step may be its
  last (`Abandon`: the replica died, the context was cancelled, a call failed).

The chunks of one blob are copied in one step: no other step writes chunk files
of a session that is being assembled except by replacing one with the same
content, and the only step that removes them is caught by whether all of them
are there at the end. Sizes, hashes and names are left out.

A finalize may overlap a cancel or the expiry of its own session: neither looks
at the other. A file that is created when its session is already gone is `late`;
that is history, and the one exception of `FileHasBlob` (see the deviations).
`DiskErrors` lets reads and writes of an assembly fail. `MaxFaults` bounds crashes,
stalls, lost answers and disk errors together.

### `UploadPromise` and `UploadRefinement`

The promise has one variable, the phase of each upload: new, open, sealed,
ready, shared, and failed (may be sealed again) or closed (cancelled or
expired, never after it was shared). Replicas, leases, chunks and clean-up do
not occur in it. An upload that is removed under a finalize is `contested`: it may
still end as `torn`, a file of which nothing is promised. The refinement mapping
`Phase` computes the phase from the files row, the state of the session *and the
blob*: an assembled session whose blob is not its own, or a file without its blob
that is not torn, is `lost`, which is no phase of the promise. So "every step is a
step of the promise" says that nothing is ever announced without being there, that
nothing shared is un-shared, and that a file is torn only by a removal that came
between finalize's reads and its insert.

### `Cleanup`

Extends `Uploads`; `UploadStep` is any step of it. A sweeper is one run of
`performCleanup` or of the admin tool's delete, with what it has read: `refs`
(sessions or file IDs to leave alone), `fresh` (directories touched since, which
`orphanMinAge` protects), `todo` (what it still has to look at). One query, one
listing or one removal is one step. `SweepStops` ends a run anywhere.
`MarkFileDeleted` is the deletion by reports, whose blob stays for the sweep.
Assumed: the walk over the chunk directories takes less than `orphanMinAge` (15
minutes; a run has four), and rows are purged only after a retention longer than
the life of a session. An upload that goes from init to assembled between the two
reads of a sweep is on the sweep's list of orphans: such sessions are `fast`,
which is history, and the exception of the two properties about sweeps.
`CleanupStaleAssemblies` removes temporary files no other step names and is left
out.

### `TokenRefresh`

The tokens of a browser session are numbered: redeeming refresh token *g* gives
access and refresh token *g* + 1. CNS is external and is what the code relies on:
`Rotate` accepts the current token, or its predecessor within the grace period
of 10 seconds; `Refuse` answers anything else with 401 and revokes the session.
`stored` are the unexpired rows of `token_refresh_results`, `lock` the advisory
locks, `local` what each replica remembers. A request goes through
`CheckExpiry`, up to two refreshes and a validation as `CNSAuthMiddleware` does,
and one to `/auth/refresh` once more. Its answer is applied to the cookies when
it arrives, which may be after that of a later request, or never. An outage
(`Outages`) loses the call or its answer, and both are different: the token may
have been rotated. A client may hang up at any moment (`HangUp`): its context ends
the call to CNS, which may have rotated or refused the token by then, and the
transaction of the shared refresh is rolled back. A call that CNS gets to only after
the client has given up is taken as answered at that moment. `refusals`, `redeemed`
and `excused` are history for the properties only.

A row lives 10 seconds from the start of its transaction, and the transaction
starts before CNS rotates the token, so the row may expire before the grace
period does; `ResultExpires` allows it. Access tokens live much longer than both.

### `RateLimit`

One key. Windows are numbered; `Arrive` computes the window, `CheckRateLimit` is
the upsert and its answer, `StoreFails` its failure before or after the commit.
`Strict` chooses between `StrictHandler` and the lenient ones. All limiters
differ from each other only in the constants (`restrictedLimit` is `Max`).
Windows pass at any moment, so a request may be counted after the window it has
computed: `late` is history.

### `Tunnels`

One tunnel from `CreateTunnel` on, with the host's participant row or without
it (its insert may fail, and the error is dropped). Devices are of users or
guests. A join is the checks of the handler (`Join`), the row lock
(`LockTunnel`: `FOR UPDATE`, with the checks repeated under it) and the rest of
the transaction (`JoinTunnel`). Inserts that refer to the tunnel wait for that
lock, plain reads do not: this is what makes `DeclinedStayOut` true, and
`RejectUnlocked` (a rejection that waits for nobody) breaks it. A deadlock of a
join with a rejection ends with one of them failing (`JoinFails`,
`RejectFails`). The host's page reads which participants need an envelope
(`GetParticipantPublicKeys`) and pushes one later; the server checks again that
the participant is approved (`PushParticipantEnvelope`) and inserts it `ON
CONFLICT DO NOTHING`. Re-joining always drops the envelope: the code compares
the stored key with the one that was sent byte by byte, and `jsonb` never
returns the bytes it was given. Leaving is `RemoveTunnelParticipant`, then the
count, the blobs, the tunnel, each of which may be the last step. The host may
act on the tunnel after having left it, since the host is recognised by the
tunnel row. A join takes no notice of a departure, and the departure none of joins:
who enters after the last participant was counted out is `late`. `raced` and `late`
are history.

### `DeviceIdentity` and `IdentityPromise`

One account. `version` is its newest identity key, the only active one;
`copy[d][v]` is what the envelope stored for device *d* and version *v* really
has inside, which the server cannot see: a device may send a copy of a version
that was replaced. The public key that a copy is wrapped for is left out: a device keeps its key
pair. Registering again under the same ID may replace it (`CreateOrUpdateDevice`),
which makes the copies wrapped for the old one useless to the device; properties that
speak of copies speak of their version. `knows[d]` is what a device has taken home, `account` whether it
predates identity keys and how its first key was made. The unique index on
pending enrollments is what `CreateEnrollmentRequest` runs into, and the one
active version per account is what makes the second of two first devices lose
(`InsertFirstKey`). `Approve` goes through four steps: the trust of the approver
and the state of the enrollment, the version, the copy, the enrollment; a
recovery, a removal or a rejection may come between any two.

The promise has the newest version and the devices that hold it: `Replace` it
into the hands of one device that is not the approver, `HandOn`, `HandBack` by
an approver. Requests, enrollments and tables do not occur in it.

### `FileAccess`

One file, its transfers to `Users`, one copy of its key for each account.
A copy names the version it is filed under (`ver`) and the one it was really
wrapped for (`wrap`). The identity key of an account is only its version here;
`RecoverIdentityKey` is `DeviceIdentity`'s, seen from outside. `FOR UPDATE` of a
transfer that is being answered is `Locked`. Reports are kept by account or
guest address; guests are stored but do not count. `handed` is history: to whom the
server has given the wrapped key, and whether in the list of locked keys
(`ListLockedFileKeys`), which does not look at the transfer. `failed` is history: a
report whose follow-up failed.

### `UserCache`

A clock of a few moments; every change at CNS takes one. A row keeps the moments
of its profile (`seen`), of its last confirmation (`synced`) and of its account
status (`limitedSeen`). A request that stores an account status stamps it with the
time of writing; `heard` is history, the moment CNS really said so, and `overtaken`
the accounts for which a request was slower than an event. `NextUserState`, `DemoteNameHolders` and
`WithAccountStatus` are the functions of `storage/users.go`, whichever source
calls them. Webhooks are delivered in any order, or never; the directory may
leave out any user until the last moment of the clock, from which on it is
right (`Healthy`), so that catching up can be stated. A limit of deletions per run is
`MaxDeletions`. `GetPublicUser`'s look-up and the erasure that follows are one step:
nobody returns whom CNS has deleted, so nothing can come between them that would
matter.

### `Realtime`

What a client shows is the number of changes it has seen. Two kinds of client
show the two uses of a hub. A page with the history of sent transfers reloads it
over HTTP when an event comes and when its socket reopens (`account-menu.js`,
`transfers.js`), and takes the socket for open when the server upgrades it; the list
of received transfers works differently and is not modelled (see the deviations). A
watcher, a device that waits for its enrollment,
shows the snapshot its socket starts with and then what events carry. `inbox[r]`
is what Postgres has sent to the listener of a replica, `out[c]` the bounded
queue of a socket. `lost` are events a fault took away (`NOTIFY` failed, a
publisher died), `gap` the changes made before a client could count on hearing
of them: a page that has not connected once, a socket that is upgraded but not
yet added, and for a watcher the time between the read and the snapshot.

### `Jobs` and `Deployment`

`Jobs` has, per job, the holder of the advisory lock, whether the interval has
passed (`due`), and where each replica is. `Deployment` instantiates it with the
cleanup job of each database and puts the start of a server in front:
`RunMigrations` under its lock, `ClaimStorage` directory by directory (read the
marker, look for data, create the marker with `O_EXCL`, write it), then serve.
A directory is data only by whose files it holds. The sweep at the end of a job
deletes what its own database does not know: that is the damage the claim
prevents. An operator lets a server adopt storage only if it is all its own.
The wait for the migration lock is limited to two minutes, after which the
process exits; this is a `Crash` or a longer wait here.

## The runs

Twelve runs, one for each question. State counts are distinct states with the
symmetry the `.cfg` declares; runs with a liveness property declare none. Type
invariants are not among the properties: they are part of the invariants that
are proved.

Deadlock is checked in `identity_account`, `fileaccess_transfers`,
`usercache_sources` and `deployment_storage`. The other systems may go quiet
(all sessions over, no request in flight, a bound reached), which is no
deadlock; what could really wait for ever is checked as liveness instead.

| run | instance | properties | states |
|---|---|---|---|
| `uploads_promise` | 2 replicas, 1 session of 1 chunk, 3 tasks, 2 faults with disk errors | `AssembledHasBlob`, `ChunksKept`, `FileHasBlob`, `KeepsPromise` | 868 000 |
| `uploads_sequential` | 1 replica, 2 sessions under one file ID, 1 chunk, 2 tasks, 1 fault | `FileIDExclusive` | 462 000 |
| `cleanup_sweeps` | 1 upload, 2 overlapping sweepers, 2 tasks (1 beside a sweep), 1 fault | `LiveFileHasBlob`, `SweepsSpareUploads`, `StorageReclaimed` | 608 000 |
| `tokenrefresh_requests` | 2 requests to refresh, each through the middleware first, on 2 replicas, 1 rotation, outages, database faults, crashes, clients that hang up | `RedeemedOnce`, `SignedOutOnlyIfRefused`, `EveryRequestAnswered` | 569 000 |
| `tokenrefresh_outage` | 2 requests of both kinds, outages, no database faults | `OutageKeepsSession`: violated | - |
| `ratelimit_strict` | 5 requests, limit 4 halved for a restricted account, 3 windows, a failing database | `WithinLimit` | 37 000 |
| `tunnels_devices` | 2 devices of one user and the host, 2 keys, 3 participant rows | `DeclinedStayOut`, `EnvelopeFits`, `MembersKeepFiles`, `TunnelOutlivesMembers` | 6 340 000 |
| `identity_account` | 2 devices and the approver app, 2 versions, 1 enrollment, 2 requests at once | `EnvelopesOpen`, `KeyHasHolder`, `FoundedByOwner`, `ApprovedWithKey`, `KeepsIdentityPromise` | 1 610 000 |
| `fileaccess_transfers` | owner, one recipient, two reporters and a guest, 3 versions, threshold 2, 2 requests at once | `KeysReadable`, `TransferMatchesKey`, `HandedToAccepted`, `EnoughReportsDelete`, `OpenKeysStay`, `AnsweredOnce` | 4 176 000 |
| `usercache_sources` | 2 accounts, 3 names, 3 moments, 1 request, 1 deletion per pass | `OnlyGoneAreErased`, `NeverBehindEvents`, `DeletionIsFinal`, `LockedStaysHidden`, `CatchesUp` | 835 000 |
| `realtime_events` | 2 replicas, a page or a watcher, queues of 1, 2 changes, 2 faults | `NothingMissed`, `ShutdownLeavesNone`, `CatchesUp` | 399 000 |
| `deployment_storage` | 2 servers of one database with different images, 1 of another, 2 shared directories, 1 lost connection, 1 crash | `MigratedOnce`, `StartedOncePerInterval`, `OverlapOnlyIfLost`, `NothingSwept`, `DueJobStarts` | 264 000 |

What the properties say:

- `AssembledHasBlob`: a session that waits for finalize has its complete blob,
  whichever replica renamed it, and whoever lost a lease meanwhile.
- `ChunksKept`: chunks that are counted as received stay until an assembly is
  recorded, so that any replica can start over. Expired sessions are excepted: a
  cancel that no longer finds the session deletes the directory.
- `FileIDExclusive`: the insert keeps two sessions, or a session and the file of
  another one, from one ID, but for a file that was created after its session had
  been removed and had left the ID free.
- `FileHasBlob`, `LiveFileHasBlob`: what can be downloaded is there, and is the
  upload it was made from. A file that was created after the removal of its session
  and, beside sweeps, one whose upload was made between two reads of a sweep are
  the exceptions, and the only ones: these are deviations.
- `KeepsPromise`: the refinement, with the promise's fairness.
- `SweepsSpareUploads`: what is left of "a blob assembled in between still has its
  session in the list" (`cleanup.go`): it has, unless the session was made in
  between, too. And a chunk directory made in between is spared for its age.
- `StorageReclaimed`: blobs nothing refers to and chunks of dropped sessions go
  in the end, whatever removal was cut short.
- `RedeemedOnce`: unless CNS, the database or a replica failed during this very
  redemption, or its client hung up after CNS had rotated the token, no refresh token
  is redeemed twice while its result is shared.
- `SignedOutOnlyIfRefused`: the browser loses its refresh token only after CNS
  refused some token of its own.
- `EveryRequestAnswered`: nobody waits for ever behind a holder that died.
- `WithinLimit`: at most the limit per window, and once more for each request that
  was counted after its window had passed. (`DeniedFairly`, that a denial
  means that the window it was counted in is used up, is proved.)
- `DeclinedStayOut`: a declined device is no participant, although its join ran
  beside the rejection.
- `EnvelopeFits`: an envelope is for the key on record and its participant is
  approved, unless a join overtook the envelope (the exception is a deviation).
- `TunnelOutlivesMembers`, `MembersKeepFiles`: leaving in four statements takes
  along no tunnel, and no blob of a shared file, that somebody is still in, but for
  those who entered after the last participant had been counted out.
- `EnvelopesOpen`: what is stored for a version is that version, although the
  approver wraps it long before it is stored.
- `KeyHasHolder`: "a key never exists without a device holding it", one that is
  not revoked and not the approver, which may be removed.
- `FoundedByOwner`: the first key of an account from before identity keys comes
  from a device with the legacy key, or from a recovery.
- `ApprovedWithKey`: an enrollment becomes approved only when its device has a
  copy of the active key, whatever recovery, removal or expiry came between.
- `KeepsIdentityPromise`: the refinement of `IdentityPromise`.
- `KeysReadable`: every copy of a file key is wrapped for the version its row
  names, so that some version of the account's key opens it.
- `OpenKeysStay`: no rescue, migration, upload or transfer touches a copy the
  account can open.
- `TransferMatchesKey`: a recipient has a copy exactly as long as the transfer
  is pending or accepted.
- `HandedToAccepted`, `AnsweredOnce`: the key goes only to who accepted, or in the
  list of locked keys to an account that has replaced its identity key; and the
  answer stays.
- `EnoughReportsDelete`: of concurrent reports, one sees them all and goes on to
  delete the file, unless the follow-up of a report failed.
- `OnlyGoneAreErased`, `DeletionIsFinal`: no fault of the directory and no late
  webhook erases who exists, or brings back who does not.
- `NeverBehindEvents`: of the profile, "older events never overwrite newer data"; of
  the account status, nothing older than an event was written but by a request that
  the event had overtaken. It measures when CNS said so, not the stamp of the row.
- `LockedStaysHidden`: a locked row is in search again only after the account's
  own profile was fetched.
- `CatchesUp` (`UserCache`): once CNS is quiet and answers, every cached user
  agrees with it, unless more are gone than one pass may delete.
- `NothingMissed`: while its socket is held by a hub, a client that does not
  show a change is still going to be told, or was never owed it (a change during the
  snapshot of a watcher is not owed: a deviation).
- `ShutdownLeavesNone`: a hub that has closed its sockets to shut down serves none
  and takes none on, and a socket it refused is held only as long as the process
  goes away. That this one hears of it is not so: a deviation.
- `CatchesUp` (`Realtime`): a page comes to show every change of a sent transfer
  that it could count on.
- `MigratedOnce`: the statements of a migration are in the schema once and in
  order, and all of a server's image are there when it serves, also when the
  connection with the migration lock was lost.
- `NothingSwept`: no sweep deletes files of another database.
- `StartedOncePerInterval`, `OverlapOnlyIfLost`, `DueJobStarts`: a job starts
  once per interval, overlaps itself only after a lost connection, and is
  started again whichever server died.

Why the bounds are enough. The invariants of an upload relate one session to
one or two of its workers and tasks: two replicas give a lease that is lost and
taken over, three tasks give two finalizes beside a removal, or a finalize, a removal and a late
chunk, and two faults give a loss after a takeover. Sessions interact only through a shared
file ID, which is the second run. In the cleanup one upload, one sweep cut short
and one complete one show each loss; the second sweeper gives overlap. The state
constraint `OneTaskPerSweep` (`MCCleanup`) lets the second task, which is there to
remove a session under a finalize, work only while no sweep does; the finalize may
go on through any number of sweeps. `CleanupSafe` has no such bound. One
rotation is all a refresh token goes through. In the rate limiter five requests
exceed a limit of two in each of two windows, and in one that a late one resets. Two devices of one user are the
smallest case in which leaving and declining touch rows other than the caller's
own; three rows let each join and one come back. Two requests at once are what
the races between reads and writes of an account, a file or a tunnel need; two
versions give a copy that is stale, and three let a rescue be overtaken. Two
accounts and three names let a name move while another is free; three moments order
two changes of one account and one observation. Queues of one overflow with the
second event. Two servers of one database and one of another are every pair that
can meet at a lock or a marker; two directories are all there are. The theorems
settle all sizes for the safety properties they state.

Each property comes with a mutant in `PROJECT.json`, a plausible mistake in one
of the mapped definitions that violates it in the same run.

## Fairness

Only what the code schedules itself is fair; what users, CNS or time do is not.

- `Uploads.FairSpec`: weak fairness of each worker's step and of
  `LeaseRunsOut`. A replica runs what it has started, looks for orphaned
  assemblies every 10 seconds (`resumeOrphanedAssemblies`), and a lease of 30
  seconds that nobody renews runs out. Renewal is not fair. Since faults are
  bounded, a lease is lost under a working holder only so often. No request is
  fair: nothing promises that a client ever calls complete or finalize.
- `UploadPromise`: weak fairness of `Settle`, which the former implies.
- `FairCleanupSpec`: weak fairness of a sweeper's step; the job comes every five
  minutes on some replica. Whether the jobs give that is `DueJobStarts`.
- `TokenRefresh.FairSpec`: weak fairness of each serving step, since every call
  has a timeout, and strong fairness of `AcquireLock`, since PostgreSQL queues
  those who wait for an advisory lock. Running into the timeout of that wait is
  not required of anybody.
- `UserCache.FairSpec`: weak fairness of the pass; the job runs again and again.
  No request and no webhook is fair.
- `Realtime.FairSpec`: weak fairness of what is under way: publishers,
  listeners and their reconnection, the end of a shutdown and the replacement of
  the replica, the sockets' goroutines, and pages that reconnect and reload as
  `app.js` and `transfers.js` do. No change, fault or watcher is fair.
- `Deployment.FairSpec`: weak fairness of a server's boot (it is restarted by
  its supervisor), of its migrations and its claim, and of the job's steps: a
  serving server tries every minute, and jobs have timeouts. `DueJobStarts`
  assumes besides that some server of the database keeps coming to serve.

## What is proved

For every value of the constants that their assumptions allow, in eight modules:

| module | obligations | theorem | statement | assumes |
|---|---|---|---|---|
| `Uploads_proofs` | 2342 | `TypeCorrect` | `[]TypeOK` | - |
| | | `ChunksStay` | `ChunksKept`, `OnlyDiskErrorsFail` always | - |
| | | `AssemblySafe` | `[]Inv` | `DistinctFiles` |
| | | `AssemblyPromises` | `AssembledHasBlob`, `ChunksKept`, `OnlyDiskErrorsFail` always | `DistinctFiles` |
| | | `FilesWhole` | `FileInv`, `FileHasBlob` always | `DistinctFiles` |
| | | `OneUploadPerID` | `[]FileIDExclusive` | - |
| | | `InvariantsHold` | `Inv`, `FileInv`, `MkdirAlone` always | `DistinctFiles` |
| | | `StepsKeepPromise` | `P!PromiseSteps`: initial states and steps map to those of `UploadPromise` or to a stutter | `DistinctFiles` |
| | | `CleanupSafe` | `CleanupInv` always, types included | `DistinctFiles` |
| | | `FilesSurviveSweeps`, `UploadsSurviveSweeps` | `[]LiveFileHasBlob`, `[]SweepsSpareUploads` | `DistinctFiles` |
| `Replicas_proofs` | 2370 | `LimitHolds` | `[]WithinLimit` | - |
| | | `DenialsFair` | `[]DeniedFairly` | - |
| | | `RealtimeSafe` | types and `RealtimeInv` always | - |
| | | `NoEventMissed`, `NoSocketKept` | `[]NothingMissed`, `[]ShutdownLeavesNone` | - |
| `TokenRefresh_proofs` | 1244 | `TokensCorrect` | types, `SharedInv`, `RefusedInv` always | - |
| | | `Redemptions` | `[]RedeemedOnce` | - |
| | | `SignedOut` | `[]SignedOutOnlyIfRefused` | - |
| `Tunnels_proofs` | 300 | `TunnelCorrect` | types and `TunnelInv` always | - |
| | | `DeclinedAreOut`, `EnvelopesFit` | `[]DeclinedStayOut`, `[]EnvelopeFits` | - |
| | | `FilesKept`, `TunnelKept` | `[]MembersKeepFiles`, `TunnelOutlivesMembers` | - |
| `DeviceIdentity_proofs` | 1580 | `IdentityCorrect` | types and `IdentityInv` always | - |
| | | `CopiesOpen`, `KeyIsKept`, `OwnersFound` | `[]EnvelopesOpen`, `[]KeyHasHolder`, `[]FoundedByOwner` | - |
| | | `ApprovalsCarryKeys` | `ApprovedWithKey` | - |
| | | `PromiseKept` | `KeepsIdentityPromise`: the whole refinement | - |
| `FileAccess_proofs` | 477 | `TypeCorrect`, `KeysCorrect` | types and `KeyInv` always | - |
| | | `Readable`, `TransfersMatch`, `HandedOut`, `ReportsDelete` | `KeysReadable`, `TransferMatchesKey`, `HandedToAccepted`, `EnoughReportsDelete` always | - |
| | | `OneAnswer`, `OpenKeys` | `AnsweredOnce`, `OpenKeysStay` | - |
| `UserCache_proofs` | 1117 | `CacheCorrect` | types and `CacheInv` always | - |
| | | `ErasedAreGone`, `EventsKept` | `[]OnlyGoneAreErased`, `[]NeverBehindEvents` | - |
| | | `ErasedStay`, `LockedStay` | `DeletionIsFinal`, `LockedStaysHidden` | - |
| `Deployment_proofs` | 1059 | `DeploymentCorrect` | types and `DeploymentInv` always | - |
| | | `Migrated`, `StartedOnce`, `NoOverlap` | `[]MigratedOnce`, `[]StartedOncePerInterval`, `[]OverlapOnlyIfLost` | - |
| | | `StorageKept` | `NothingSwept` | - |

`DistinctFiles` says that no two sessions are created with one file ID. It holds
of generated IDs. The proofs need it because a removal looks up the `files` row
and then unlinks the blob, and a later session under the same ID could have a
blob by then (see the deviations). Nothing else is assumed but what is assumed of
the constants, which TLC evaluates in every run: the steps that break the code's own
comments are steps of the modules, and the properties name what they break.

All proofs have one shape. None of the properties is inductive, so an invariant
that is comes first: what tasks between two of their statements may rely on,
joined with the properties. A first layer of lemmas says for each variable which
moves it can make and under which conditions (`…Moves`, `…Facts`); only these
open the actions. Each conjunct is then preserved by a lemma of its own (`…Step`)
that cites the moves of the variables it mentions. A theorem combines the
initial states, the step and the implication.

**The assembly.** `AssembledHasBlob`
needs to know that a worker about to commit still has its blob
(`FinishedHasBlob`), which needs to know that blobs are unlinked only when the
row is gone (`Removals`), and that a gone row never returns (`Untouched`,
`InsertedOnce`: an ID is inserted once). `OnlyDiskErrorsFail` rests on
`FailingFairly`: whoever still holds the lease and fails has met a disk error or
an expired session, because for a lease holder all chunks are there. This
follows from `AssembledWhole` (assembling means that all chunks are recorded)
and `ChunksKept` (recorded chunks are on disk), which in turn needs that a task
about to record a chunk has saved it (`TasksKnow`) and that chunks are deleted
only after the commit (`Removals` again). All of this but the blobs is
`SessionInv`, which is inductive by itself, also when sessions share a file ID
(`ChunksStay`); `Inv` adds the blobs.

**The files.** `FileHasBlob` needs that a blob about to be unlinked has no file, or
one that came late (`UnlinkUnshared`), and that a row comes from a session with its
ID (`FileFromOwnSession`). A finalize between its reads and the insert may find its
session removed; the insert is then what makes the file late. That it creates
nothing of an upload that is open or sealed again is `FinalizesAssembled`.
`FileIDExclusive` needs `SessionInv` only, and no distinct IDs.

**The refinement of the upload.** Besides `Inv` and `FileInv` the phases need that
the session whose directory cannot be made has not been used (`MkdirAlone`); that
finalize marks sessions only when there is a file (`FinalizedHasFile`) is part of
`FileInv`. `OneSession` shows that a step changes the phase of at most one session;
`PhaseMoves` that this change is a move of the promise.

**The cleanup.** A sweep acts on what it has read earlier, so the invariant says
of every sweep that what it is still to remove is none of what is needed
(`SweepsKnow`): the chunk directories it has not put on its list are of sessions
that are gone or have recorded nothing, and the file IDs it goes through are of
sessions that are all gone, which never return (`AllGone`, from `InsertedOnce`).
An upload that is made and assembled between the two reads is on that list, too;
`Fast` excepts it and its file. `SessionInv` and `FinalizeInv` are taken over from
the uploads: their steps keep them whatever became of the blobs, and the cleanup
leaves the rows of sessions alone and removes only chunks they do not count. `Inv` itself
does not hold beside sweeps: the blob of a deleted file may go while the session it
came from is still there. `BlobsInUse` says what is left of it.

**The rate limit.** `CounterCovers`: what a window let through is covered by the row
that counts it, or by its being over, or by late requests, each of which lets a count
start over once (`Quota`). For denials the other bound, `CountsNotDenied`: a row counts no
more than those who were counted in its window, so that a full one is full of
admissions.

**Token refresh.** `LockHeld` says that who redeems holds the lock, `Shared`
that what was redeemed, and not excused by a fault or a client that hung up, is
stored or about to be by the holder, and `RedeemsFirst` that who goes to redeem is the first. None holds
without the others. `ClearsRefused` says of requests in flight what the second
property says of the browser: a response that will take the refresh token away
was caused by a refusal.

**Live events.** `NothingMissed` speaks of everything that may still tell a client;
for the induction this is too much, since the request of a later change may fail
and take its event along, and then the earlier change would have nothing on its
way. `Told` therefore counts on a request only for its own change. Every step
that takes something off the way puts it further on, or drops the socket, or
loses the event, after which it is owed no more. That needs that the events under
way tell only what was committed (`EventsCommitted`), that the sockets of an inbox
are on a process that runs (`HeldByRunning`), and that what a page will show is
not older than what it shows (`ShowsCommitted`). For pages, a socket that reopens
has a request for the list behind it until it is in the hub (`PageKnows`). For
watchers, the snapshot that was read before the socket was added covers all that is
owed, and nothing older is queued behind a message that tells a change
(`WatcherKnows`): here the proof uses that an enrollment is decided once.

**Tunnels.** `LockInv`: the lock on the tunnel is a join's that has found its
user not declined, and nobody is declined under it. `PushInv` relates the
envelope under way to the key on record, or to a join that raced it. `EmptyInv`:
who has counted no participants, and goes on to delete blobs, is right about it, but
for those who have entered since.

**Device identity.** `SentMatches` and `ApprovalsKnow`: as long as an enrollment
is open, nothing has replaced the version its approval was checked against, nor
taken away the copy that was stored for it; a recovery and a removal close it.
`FoundersWait`, `LegacyHolds`: who is about to make the first key of an account
may, since the legacy devices stay until there is one. `EscrowOfFirst`,
`NoCopyAhead`: no version is handed out before it is made, which is what
`KeepsIdentityPromise` needs of a replacement: nobody else holds it yet.

**File access.** `StoredAsSent`: what is stored was compared with the active
version; that this version may be replaced a moment later is why `KeysReadable`
is about the version a row names. `AnswersHoldRow`: a transfer is answered under
its row lock by one task. `FollowedUpStored`: a report on its way to the count is
stored, so that the last of them sees all.

**The user cache.** `AppliedExist`: an event leaves a row behind, if only that of a
deleted user, so that what is applied is not forgotten. `NothingAhead`: nothing
was observed later than now. `DeletedAreGone`: CNS reports a deletion after it,
and nobody returns from it. `heard` and `overtaken` follow the status alone.

**Deployment.** `MigrationInv`: what a server has passed is in the schema, also
without the lock, because the primary key refuses a version twice. `StorageInv`:
a marked directory has its database's files only, a server serves when all its
directories are marked as its own, and between `O_EXCL` and the write nobody
else touches the marker (`OneWriter`). `JobInv`: a due job has not started.

Only model-checked: liveness (`KeepsPromise` beyond its steps,
`StorageReclaimed`, `EveryRequestAnswered`, both `CatchesUp`, `DueJobStarts`),
which is out of the prover's reach. TLC has also checked the inductive invariants
before they were proved, on the instances of the runs.

## Findings and known deviations

One run ends in a violation of a sentence from the repository:

- `tokenrefresh_outage`: when CNS rejects an expired access token and the
  refresh that follows meets an outage, all cookies are cleared, although
  "transient failures (5xx, network) must not log the user out"
  (`cns_auth.go`).

The following are statements of the repository that the code does not keep. The
modules have the steps that break them; the named definitions, which no run checks,
say what is broken, and TLC shows how when one is added to the `.cfg` of its module's
run. The properties that are checked and proved state the exception instead.

| where | what happens | how to see it |
|---|---|---|
| `services/upload.go`, finalize | finalize reads the session and creates the file later, without a lock or a second look; a cancel or the expiry in between deletes the blob under the new file, although `upload.go:164-165` spares what "was finalized into a file" | `Uploads`, `EveryFileHasBlob` |
| `services/upload.go`, `removeSessionFiles` | a removal so slow that its file ID is used again, assembled and not yet finalized unlinks the new upload's blob | `Uploads`, `AssembledHasBlob` in `uploads_sequential` |
| `services/cleanup.go`, orphaned blobs | an upload that is initialised and assembled between the two reads of a sweep loses its blob, although "a blob assembled in between still has its session in the list" | `Cleanup`, `SweepSparesEvery` |
| `storage/coordination.go`, `CheckRateLimit` | a request that computes its window and is counted after the next one has begun resets that window's count, so that the next window lets more than its limit through | `RateLimit`, `StrictlyWithinLimit` |
| `handlers/tunnels.go`, leaving | a joiner who commits between the count and the deletion loses the tunnel; one who joins a tunnel whose deletion failed finds files without blobs | `Tunnels`, `MembersAlwaysKeepFiles` |
| `storage/coordination.go`, `SharedRefresh` | a client that hangs up after CNS has rotated its token cancels the transaction that would store the result, although it "runs refresh at most once per tokenID": the next request redeems the token again, which CNS takes for theft once its grace period is over | `TokenRefresh`, `RedeemedAtMostOnce` |
| `storage/tunnels.go`, envelopes | a device re-joins with a new key while the host's page sends the envelope for the old one; `ON CONFLICT DO NOTHING` keeps the old one, and the page pushes no other | `Tunnels`, `EnvelopeForCurrentKey` |
| `services/device_identity.go`, `Approve` | an approval under way stores a copy for an approver that was just removed, although "its identity key copy [is] deleted"; registered again, the device is trusted with it | `DeviceIdentity`, `RemovedHoldsNothing` |
| `services/device_identity.go`, `Approve` | an enrollment is rejected, cancelled or expires between the stored copy and the update of the enrollment: the device keeps the copy and can open what is wrapped for that version, until it is removed | `DeviceIdentity`, `ApprovalsComplete` |
| `storage/identity_rescue.go`, `ListLockedFileKeys` | the list of locked keys has the wrapped key of a transfer that is still pending, although "pending transfers are withheld" (`postgres.go`); it is wrapped for the version that the account has replaced | `FileAccess`, `PendingWithheld` |
| `handlers/report.go` | a report is stored, and counting or deleting fails: the file stays above the threshold until somebody else reports it, although `docs/API.md` deletes it once the number is reached | `FileAccess`, `DeletedAtThreshold` |
| `storage/users.go`, `RecordAccountStatus` | the status of a slow request is stamped with the time of writing and overwrites the newer one of a webhook, although "an older observation must not overwrite a newer one" | `UserCache`, `StatusInOrder` |
| `handlers/device_enrollments_ws.go`, `WaitingForApprovalWS` | an enrollment decided between the read and the snapshot: the device shows the old snapshot after the event and waits on | `Realtime`, `WatchersHear` |
| `realtime/hub.go`, `Add` | a socket that is added after `Shutdown` is closed only on paper: `closeWith` tells the goroutine that serves a socket, and this one has none. It gets no 1012 and stays open until the process exits, although shutdown is "telling clients to reconnect elsewhere right away" (`hub.go`, also `main.go` and `docs/ARCHITECTURE.md`) | `Realtime`, `ShutdownTellsAll` |
| `web/static/js/transfers.js`, the list of received transfers | an event whose count equals the number of items shown is dropped, a stale answer of `loadPending` may win over a later one, and a page that reconnects fetches the count before its socket is open: the list may miss a transfer until the page is loaded again, although "clients reload their state when they reconnect" (`docs/ARCHITECTURE.md`) | not modelled: `Realtime` has the history of sent transfers only |
| `storage/instance.go`, `writeInstanceMarker` | a server that dies between creating and writing a marker leaves an empty one, which every later start takes for another database's | `Deployment`, `MarkersAreWritten` |

Seen while reading, and not part of a module or without effect on its properties:

- *Sign-in.* Two sign-in tabs share one pair of PKCE cookies; a failed exchange
  keeps them. A refresh that answers after logout can bring cookies back if the
  revocation at CNS failed. Refresh without a refresh cookie clears only the
  host's own `auth_token`.
- *Tunnels.* The error of inserting the host's participant row is dropped, so
  that the host does not count when others leave. An expired or ended tunnel
  keeps its four-digit code, of which there are 10000, and a new tunnel tries
  twenty. Rejecting one device of a user leaves the user's other rows.
- *Identity.* An enrollment that has expired but still reads pending blocks a
  new one until somebody lists them. Badge counts are sent in no fixed order.
- *User cache.* The lock of an account is applied whatever the order; a row that
  lost its name is revived by a late webhook; what a webhook does besides (ending
  the tunnels of a locked host) is lost if the server dies after the event is
  recorded; an upload in flight stores the name of an erased owner; two renames
  within a fetch, and clocks that differ, show an old name until the next pass;
  two profiles that demote each other's holders may deadlock in the database,
  which ends one of them.
- *Statistics.* The reporter backs off 30 and 60 seconds within a context of 60
  seconds; its counters are absolute, so that repeating is harmless.

## Not modelled

| part | why |
|---|---|
| Download (`handlers/download.go`) | reads a file and its blob and counts the download; it has no state of its own, and what it needs is `LiveFileHasBlob` |
| Desktop and Android handlers (`handlers/desktop.go`, `handlers/android.go`, `middleware/desktop_auth.go`, `android_auth.go`) | stateless: each request carries an API key or a bearer token and calls the services of the other components, whose requests are arbitrary ones here |
| OAuth redirect, callback, logout (`handlers/auth.go`) | each writes cookies in one response; what is known of their races is listed above |
| Tunnel codes | the number of codes that are taken is unbounded, and nothing in the module depends on them |
| `PendingApprovalsWS`, `DeviceNotificationsWS`, the desktop's WebSocket, badge counts, the six-second timer of `app.js` | they use the hub the way pages and watchers do; the timer only adds reloads |
| `PurgeCNSWebhookEvents`, the erasure of owner names in files, overlapping passes, pages for locked accounts (`UserCache`) | the purge is after a month, far longer than CNS repeats events; the job's lock keeps passes apart (`OverlapOnlyIfLost`); the rest does not feed back |
| `CleanupStaleAssemblies`, quotas, sizes, hashes, names, metrics, logs | no other step depends on them |
| The contents of migrations | SQL of a schema, applied in order |
| The browser's uploader and its cryptography | its requests are the arbitrary ones of `Uploads`; encryption has no protocol of states, and is visible only as the version a key is wrapped for |
| Administration, pages, translations, configuration | rendering, plain I/O and one-shot commands; the administrator's deletion of a file is part of `Cleanup` and `FileAccess` |

## Plan

Done: the fourteen modules above with their proofs. They came in the order of
what can be lost: blobs, sessions, keys, accounts, events.

What would come next, in this order:

1. `TokenRefresh` with logout and the callback, once a response that arrives
   after logout is worth a property.
2. Larger instances by simulation: two recipients in `FileAccess`, two
   enrollments in `DeviceIdentity`.
