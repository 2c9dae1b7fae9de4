----------------------------- MODULE RateLimit -----------------------------
(***************************************************************************)
(* The rate limiters: one counter row per key, shared by all replicas, for *)
(* a fixed window. A request computes the start of the window from the     *)
(* clock of its replica and then counts itself in one upsert. The strict   *)
(* limiter refuses a request it cannot count, the other ones let it pass.  *)
(*                                                                         *)
(* The module is about one key, and the requests that have one: without a  *)
(* user or an IP nothing is counted. Windows are numbered.                 *)
(***************************************************************************)
EXTENDS Integers, FiniteSets

CONSTANTS
  Requests,      \* the requests that present the key
  Limit,         \* requests per window (RATE_LIMIT_MAX_PER_MINUTE and so on)
  Divisor,       \* restrictedDivisor
  Restricted,    \* is the account restricted (no StandardRateLimits)?
  Strict,        \* StrictHandler, or one of the others
  StoreFaults,   \* may the database fail?
  MaxWindow

ASSUME RequestsAssumption == IsFiniteSet(Requests)
ASSUME LimitAssumption == Limit \in Nat /\ Divisor \in Nat
ASSUME MaxWindowAssumption == MaxWindow \in Nat
ASSUME FlagsAssumption ==
  {Restricted, Strict, StoreFaults} \subseteq BOOLEAN

VARIABLES
  now,           \* the current window
  counter,       \* the key's row in rate_limit_counters
  req,           \* the requests: where each is, and the window it computed
  late           \* history: who was counted after its window had passed

limitVars == <<now, counter, req, late>>

Windows == 0 .. MaxWindow
NoRow == [window |-> -1, count |-> 0]

LimitTypeOK ==
  /\ now \in Windows
  /\ counter \in [window: Windows \cup {-1}, count: Nat]
  /\ req \in [Requests ->
       [at: {"idle", "counting", "allowed", "denied", "unavailable", "passed"},
        window: Windows]]
  /\ late \subseteq Requests

LimitInit ==
  /\ now = 0
  /\ counter = NoRow
  /\ req = [p \in Requests |-> [at |-> "idle", window |-> 0]]
  /\ late = {}

\* restrictedLimit
Max ==
  IF Divisor <= 1 \/ ~Restricted THEN Limit
  ELSE IF Limit \div Divisor < 1 THEN 1
  ELSE Limit \div Divisor

Answer(p, answer) == req' = [req EXCEPT ![p].at = answer]

\* Mutant: every upsert starts over.
CountedOnce(w) == [window |-> w, count |-> 1]

\* The row after a request of window w was counted.
Counted(w) ==
  [window |-> w, count |-> IF counter.window = w THEN counter.count + 1 ELSE 1]

----------------------------------------------------------------------------

\* windowStart is computed; by the time the request is counted the window may
\* have passed.
Arrive(p) ==
  /\ req[p].at = "idle"
  /\ req' = [req EXCEPT ![p] = [at |-> "counting", window |-> now]]
  /\ UNCHANGED <<now, counter, late>>

\* The upsert.
Count(p) ==
  /\ counter' = Counted(req[p].window)
  /\ late' = IF req[p].window < now THEN late \cup {p} ELSE late

CheckRateLimit(p) ==
  /\ req[p].at = "counting"
  /\ Count(p)
  /\ Answer(p, IF Counted(req[p].window).count <= Max THEN "allowed"
                                                      ELSE "denied")
  /\ UNCHANGED now

\* The upsert fails, or its answer is lost.
StoreFails(p) ==
  /\ StoreFaults
  /\ req[p].at = "counting"
  /\ Count(p) \/ UNCHANGED <<counter, late>>
  /\ Answer(p, IF Strict THEN "unavailable" ELSE "passed")
  /\ UNCHANGED now

\* The cleanup drops rows an hour older than the longest window, which is longer
\* than a request takes.
PurgeRateLimitCounters ==
  /\ counter.window \in 0 .. now - 1
  /\ \A p \in Requests : req[p].at = "counting" => req[p].window > counter.window
  /\ counter' = NoRow
  /\ UNCHANGED <<now, req, late>>

Tick ==
  /\ now < MaxWindow
  /\ now' = now + 1
  /\ UNCHANGED <<counter, req, late>>

LimitNext ==
  \/ \E p \in Requests : Arrive(p) \/ CheckRateLimit(p) \/ StoreFails(p)
  \/ PurgeRateLimitCounters
  \/ Tick

LimitSpec == LimitInit /\ [][LimitNext]_limitVars

----------------------------------------------------------------------------
(* Properties *)

Answered(w, answer) ==
  {p \in Requests : req[p].at = answer /\ req[p].window = w}

\* What is left of "reports whether it stays within maxRequests": the requests
\* that were counted and let through in a window are at most the limit, unless
\* requests are counted after their window has passed; each of those lets the
\* count start over once. It does so whichever replicas count, and whether or
\* not the answers of other counts were lost or rows were purged.
WithinLimit ==
  \A w \in Windows :
    Cardinality(Answered(w, "allowed")) <= Max * (1 + Cardinality(late))

\* No window lets more through than the limit. The code does not keep this: a
\* request counted after the next window has begun takes the row back to its own
\* window, and the next one starts over.
StrictlyWithinLimit ==
  \A w \in Windows : Cardinality(Answered(w, "allowed")) <= Max

NotDenied(w) ==
  Answered(w, "allowed") \cup Answered(w, "unavailable") \cup Answered(w, "passed")

\* A request is denied only if its window is used up by requests that were
\* counted before it: what was counted in an earlier window, or in a row that
\* was purged, is not held against it.
DeniedFairly ==
  \A w \in Windows : Answered(w, "denied") # {} =>
    Cardinality(NotDenied(w)) >= Max

----------------------------------------------------------------------------
(* What WithinLimit rests on.                                               *)

\* How many requests the row's current count stands for, of a window that may
\* start over only through a late request.
Quota(w) ==
  IF counter.window = w
    THEN IF counter.count <= Max THEN counter.count ELSE Max
    ELSE IF w < now THEN Max ELSE 0

\* What was let through is covered by the row, by the time that has passed, or
\* by late requests; there is no row of a later window, and a request is counted
\* once.
CounterCovers ==
  /\ counter.window <= now
  /\ \A p \in Requests :
       /\ req[p].at # "idle" => req[p].window <= now
       /\ p \in late => req[p].at \notin {"idle", "counting"}
  /\ \A w \in Windows :
       Cardinality(Answered(w, "allowed")) <= Max * Cardinality(late) + Quota(w)

Inv == LimitTypeOK /\ CounterCovers

\* What DeniedFairly rests on, always: until the first denial of a window, its
\* row counts nothing but requests that were not denied in it.
CountsNotDenied ==
  \A w \in Windows : counter.window = w /\ Answered(w, "denied") = {} =>
    counter.count <= Cardinality(NotDenied(w))

FairInv == LimitTypeOK /\ CountsNotDenied /\ DeniedFairly
=============================================================================
