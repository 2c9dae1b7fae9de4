--------------------------- MODULE Replicas_proofs ---------------------------
(***************************************************************************)
(* What identical replicas share to serve one user: the counters of the    *)
(* rate limits, and the events of their hubs.                              *)
(*                                                                         *)
(* Rate limits. No window lets more requests through than the limit, and   *)
(* once more for each request that is counted after its window has passed, *)
(* for any number of requests, any limit and any number of windows.        *)
(*                                                                         *)
(* Live events. No client that a hub holds misses an event unnoticed, and  *)
(* a hub that has shut down holds none, for any replicas, clients, changes *)
(* and faults, and for queues of any length.                               *)
(***************************************************************************)
EXTENDS RateLimit, Realtime, FiniteSetTheorems, TLAPS

-----------------------------------------------------------------------------
(* Rate limits *)

\* What becomes of a request that is counted, or not counted.
Answers == {"allowed", "denied", "unavailable", "passed"}

\* The limit is a number, and one that a single request can stay within unless
\* the configuration forbids all of them.
LEMMA MaxNat == Max \in Nat
<1>1. CASE Divisor <= 1 \/ ~Restricted
  BY <1>1, LimitAssumption DEF Max
<1>2. CASE ~(Divisor <= 1 \/ ~Restricted)
  <2>1. Divisor \in Nat /\ Divisor > 0 /\ Limit \in Nat
    BY <1>2, LimitAssumption
  <2>2. Limit \div Divisor \in Int
    BY <2>1
  <2> QED
    BY <1>2, <2>2, LimitAssumption DEF Max
<1> QED
  BY <1>1, <1>2

\* A set of requests is finite, and empty sets of them count nothing.
LEMMA AnsweredFinite ==
  ASSUME NEW w, NEW answer
  PROVE  /\ IsFiniteSet(Answered(w, answer))
         /\ Cardinality(Answered(w, answer)) \in Nat
         /\ Answered(w, answer) = {} => Cardinality(Answered(w, answer)) = 0
<1>1. Answered(w, answer) \subseteq Requests
  BY DEF Answered
<1> QED
  BY <1>1, RequestsAssumption, FS_Subset, FS_CardinalityType, FS_EmptySet

\* An answer adds its request to the answers of its window; the other ones stay.
LEMMA AnswerAdds ==
  ASSUME LimitTypeOK, NEW p \in Requests, NEW a \in Answers,
         req[p].at = "counting", Answer(p, a), NEW w
  PROVE  /\ Answered(w, "allowed")' =
              IF a = "allowed" /\ w = req[p].window
                THEN Answered(w, "allowed") \cup {p} ELSE Answered(w, "allowed")
         /\ Answered(w, "denied")' =
              IF a = "denied" /\ w = req[p].window
                THEN Answered(w, "denied") \cup {p} ELSE Answered(w, "denied")
         /\ NotDenied(w)' =
              IF a # "denied" /\ w = req[p].window
                THEN NotDenied(w) \cup {p} ELSE NotDenied(w)
         /\ p \notin NotDenied(w)
<1>1. \A q \in Requests \ {p} : req'[q] = req[q]
  BY DEF LimitTypeOK, Answer
<1>2. req'[p].at = a /\ req'[p].window = req[p].window
  BY DEF LimitTypeOK, Answer
<1> QED
  BY <1>1, <1>2 DEF Answered, NotDenied, Answers

\* The counter is started over by the first request of a new window, and counts
\* one more otherwise.
LEMMA CountedFacts ==
  ASSUME LimitTypeOK, NEW w \in Windows
  PROVE  /\ Counted(w) \in [window: Windows \cup {-1}, count: Nat]
         /\ Counted(w).window = w
         /\ Counted(w).count =
              IF counter.window = w THEN counter.count + 1 ELSE 1
BY DEF LimitTypeOK, Counted

\* What late requests are worth is a number, and one more is worth the limit.
LEMMA LateWorth ==
  ASSUME LimitTypeOK, NEW p \in Requests
  PROVE  /\ Max * Cardinality(late) \in Nat
         /\ p \notin late =>
              Max * Cardinality(late \cup {p}) = Max * Cardinality(late) + Max
         /\ Max * (1 + Cardinality(late)) = Max * Cardinality(late) + Max
<1> DEFINE k == Cardinality(late)
<1>1. IsFiniteSet(late) /\ k \in Nat
  BY RequestsAssumption, FS_Subset, FS_CardinalityType DEF LimitTypeOK
<1>2. p \notin late => Cardinality(late \cup {p}) = k + 1
  BY <1>1, FS_AddElement
<1> HIDE DEF k
<1>3. \A m, n \in Nat : m * n \in Nat /\ m * (n + 1) = m * n + m
                        /\ m * (1 + n) = m * n + m
  OBVIOUS
<1> QED
  BY <1>1, <1>2, <1>3, MaxNat DEF k

\* The invariant holds initially: nothing has been counted.
LEMMA InitInv == LimitInit => Inv
<1> SUFFICES ASSUME LimitInit PROVE Inv
  OBVIOUS
<1>1. LimitTypeOK
  BY MaxWindowAssumption DEF LimitInit, LimitTypeOK, NoRow, Windows
<1>2. \A w \in Windows : Cardinality(Answered(w, "allowed")) = 0
  BY AnsweredFinite DEF LimitInit, Answered
<1>3. Cardinality(late) = 0 /\ Max * 0 = 0
  BY MaxNat, FS_EmptySet DEF LimitInit
<1>4. \A w \in Windows : Quota(w) = 0
  BY MaxWindowAssumption DEF LimitInit, Quota, NoRow, Windows
<1>5. CounterCovers
  BY <1>2, <1>3, <1>4 DEF LimitInit, CounterCovers, NoRow
<1> QED
  BY <1>1, <1>5 DEF Inv

\* A window never lets through more than its quota allows for, and that is no
\* more than the limit.
LEMMA QuotaFacts ==
  ASSUME LimitTypeOK, NEW w \in Windows
  PROVE  Quota(w) \in Nat /\ Quota(w) <= Max
BY MaxNat DEF Quota, LimitTypeOK

\* Counting a request keeps what the counter covers: it is let through only
\* while the count of its window is within the limit, and when it takes the row
\* from the current window it is a late one.
LEMMA CountStep ==
  ASSUME Inv, NEW p \in Requests, NEW a \in Answers,
         req[p].at = "counting", Count(p), Answer(p, a), now' = now,
         a = "allowed" => Counted(req[p].window).count <= Max
  PROVE  Inv'
<1> DEFINE v == req[p].window
<1>0. /\ LimitTypeOK /\ v \in Windows /\ now \in Windows /\ v <= now
      /\ p \notin late /\ counter.count \in Nat
      /\ counter.window \in Int /\ counter.window <= now
      /\ \A w \in Windows : w \in Int
  BY DEF Inv, CounterCovers, LimitTypeOK, Windows
<1>1. LimitTypeOK'
  BY <1>0, CountedFacts DEF LimitTypeOK, Answer, Count, Answers
<1>2. /\ counter'.window = v
      /\ counter'.count = IF counter.window = v THEN counter.count + 1 ELSE 1
      /\ a = "allowed" => counter'.count <= Max
  BY <1>0, CountedFacts DEF Count
<1>3. \A q \in Requests :
        /\ req'[q].at # "idle" => req'[q].window <= now'
        /\ q \in late' => req'[q].at \notin {"idle", "counting"}
  <2>1. \A q \in Requests \ {p} : req'[q] = req[q]
    BY <1>0 DEF Answer, LimitTypeOK
  <2>2. req'[p].at = a /\ req'[p].window = v
    BY <1>0 DEF Answer, LimitTypeOK
  <2>3. late' \subseteq late \cup {p}
    BY DEF Count
  <2> QED
    BY <1>0, <2>1, <2>2, <2>3 DEF Inv, CounterCovers, Answers
<1> DEFINE L == Max * Cardinality(late)
<1>4. /\ L \in Nat
      /\ Max * Cardinality(late') = IF v < now THEN L + Max ELSE L
  BY <1>0, LateWorth DEF Count
<1> HIDE DEF L
<1>5. ASSUME NEW w \in Windows
      PROVE  Cardinality(Answered(w, "allowed")') <= Max * Cardinality(late') + Quota(w)'
  <2> DEFINE A == Cardinality(Answered(w, "allowed"))
             B == Cardinality(Answered(w, "allowed")')
  <2>1. A \in Nat /\ A <= L + Quota(w) /\ Quota(w) \in Nat /\ Quota(w) <= Max
    BY <1>0, AnsweredFinite, QuotaFacts DEF Inv, CounterCovers, L
  <2>2. B \in Nat /\ (B = A \/ (B <= A + 1 /\ w = v /\ counter'.count <= Max))
    <3>1. CASE a = "allowed" /\ w = v
      <4>1. Answered(w, "allowed")' = Answered(w, "allowed") \cup {p}
        BY <1>0, <3>1, AnswerAdds
      <4>2. IsFiniteSet(Answered(w, "allowed")) /\ A \in Nat
        BY AnsweredFinite
      <4>3. Cardinality(Answered(w, "allowed") \cup {p}) \in {A, A + 1}
        BY <4>2, FS_AddElement, Zenon
      <4> HIDE DEF A
      <4>4. B \in {A, A + 1}
        BY <4>1, <4>3
      <4> QED
        BY <1>2, <3>1, <4>2, <4>4
    <3>2. CASE ~(a = "allowed" /\ w = v)
      <4>1. Answered(w, "allowed")' = Answered(w, "allowed")
        BY <1>0, <3>2, AnswerAdds
      <4> QED
        BY <2>1, <4>1
    <3> QED
      BY <3>1, <3>2
  <2>3. Quota(w)' = IF w = v THEN IF counter'.count <= Max THEN counter'.count ELSE Max
                    ELSE IF w < now THEN Max ELSE 0
    BY <1>2 DEF Quota
  <2>4. Quota(w) = IF counter.window = w
                     THEN IF counter.count <= Max THEN counter.count ELSE Max
                     ELSE IF w < now THEN Max ELSE 0
    BY DEF Quota
  <2> HIDE DEF A, B
  <2>5. CASE v < now
    BY <1>0, <1>2, <1>4, <2>1, <2>2, <2>3, <2>5, MaxNat DEF B
  <2>6. CASE v = now
    BY <1>0, <1>2, <1>4, <2>1, <2>2, <2>3, <2>4, <2>6, MaxNat DEF B
  <2> QED
    BY <1>0, <2>5, <2>6
<1>6. counter'.window <= now'
  BY <1>0, <1>2
<1> QED
  BY <1>1, <1>3, <1>5, <1>6 DEF Inv, CounterCovers

\* The steps that count nobody keep it, since quotas only grow with time.
LEMMA QuietStep ==
  ASSUME Inv, LimitTypeOK', late' = late,
         counter' \in {counter, NoRow},
         counter' # counter => counter.window < now,
         now' \in {now, now + 1},
         \A q \in Requests :
           /\ req'[q].at = "allowed" <=> req[q].at = "allowed"
           /\ req[q].at = "allowed" => req'[q].window = req[q].window
           /\ req'[q].at \in {"idle", "counting"} => req[q].at \in {"idle", "counting"}
           /\ req'[q].at # "idle" => req'[q].window <= now
  PROVE  Inv'
<1>0. LimitTypeOK /\ now \in Windows /\ now \in Nat /\ counter.window <= now
        /\ \A w \in Windows : w \in Nat
  BY DEF Inv, CounterCovers, LimitTypeOK, Windows
<1>1. counter'.window <= now'
  BY <1>0 DEF NoRow, LimitTypeOK, Windows
<1>2. \A q \in Requests :
        /\ req'[q].at # "idle" => req'[q].window <= now'
        /\ q \in late' => req'[q].at \notin {"idle", "counting"}
  BY <1>0 DEF Inv, CounterCovers, LimitTypeOK, Windows
<1>3. ASSUME NEW w \in Windows
      PROVE  Cardinality(Answered(w, "allowed")') <= Max * Cardinality(late') + Quota(w)'
  <2>1. Answered(w, "allowed")' = Answered(w, "allowed")
    BY DEF Answered
  <2>2. Quota(w) <= Quota(w)'
    <3>1. CASE counter' = counter
      BY <1>0, <3>1, MaxNat DEF Quota, LimitTypeOK
    <3>2. CASE counter' # counter
      BY <1>0, <3>2, MaxNat DEF Quota, LimitTypeOK, NoRow
    <3> QED
      BY <3>1, <3>2
  <2>3. Cardinality(Answered(w, "allowed")) <= Max * Cardinality(late) + Quota(w)
    BY DEF Inv, CounterCovers
  <2>4. /\ Cardinality(Answered(w, "allowed")) \in Nat
        /\ Max * Cardinality(late) \in Nat /\ Quota(w) \in Nat /\ Quota(w)' \in Nat
    <3>1. IsFiniteSet(late)
      BY <1>0, RequestsAssumption, FS_Subset DEF LimitTypeOK
    <3>2. \A m, n \in Nat : m * n \in Nat
      OBVIOUS
    <3>3. Quota(w)' \in Nat
      BY MaxNat DEF Quota, LimitTypeOK
    <3> QED
      BY <1>0, <3>1, <3>2, <3>3, MaxNat, AnsweredFinite, QuotaFacts, FS_CardinalityType
  <2> QED
    BY <2>1, <2>2, <2>3, <2>4
<1> QED
  BY <1>1, <1>2, <1>3 DEF Inv, CounterCovers

\* Every step keeps the invariant.
LEMMA NextInv == Inv /\ [LimitNext]_limitVars => Inv'
<1> SUFFICES ASSUME Inv, [LimitNext]_limitVars PROVE Inv'
  OBVIOUS
<1>0. /\ LimitTypeOK /\ now \in Nat
      /\ \A q \in Requests : req[q].at # "idle" => req[q].window <= now
  BY DEF Inv, CounterCovers, LimitTypeOK, Windows
<1>1. ASSUME NEW p \in Requests, Arrive(p) PROVE Inv'
  <2>1. LimitTypeOK'
    BY <1>0, <1>1 DEF Arrive, LimitTypeOK
  <2>2. /\ req[p].at = "idle" /\ req'[p].at = "counting" /\ req'[p].window = now
        /\ \A q \in Requests \ {p} : req'[q] = req[q]
    BY <1>0, <1>1 DEF Arrive, LimitTypeOK
  <2> QED
    BY <1>0, <1>1, <2>1, <2>2, QuietStep DEF Arrive
<1>2. ASSUME NEW p \in Requests, CheckRateLimit(p) PROVE Inv'
  <2> DEFINE a == IF Counted(req[p].window).count <= Max THEN "allowed"
                                                        ELSE "denied"
  <2>1. a \in Answers /\ Answer(p, a)
        /\ (a = "allowed" => Counted(req[p].window).count <= Max)
    BY <1>2 DEF CheckRateLimit, Answers
  <2> QED
    BY <1>2, <2>1, CountStep DEF CheckRateLimit
<1>3. ASSUME NEW p \in Requests, StoreFails(p) PROVE Inv'
  <2> DEFINE a == IF Strict THEN "unavailable" ELSE "passed"
  <2>1. a \in Answers /\ a \notin {"allowed", "idle", "counting"} /\ Answer(p, a)
    BY <1>3 DEF StoreFails, Answers
  <2>2. CASE Count(p)
    BY <1>3, <2>1, <2>2, CountStep DEF StoreFails
  <2>3. CASE UNCHANGED <<counter, late>>
    <3>1. /\ req[p].at = "counting" /\ now' = now
          /\ req'[p].at = a /\ req'[p].window = req[p].window
          /\ \A q \in Requests \ {p} : req'[q] = req[q]
      BY <1>0, <1>3, <2>1 DEF StoreFails, Answer, LimitTypeOK
    <3>2. LimitTypeOK'
      BY <1>0, <2>1, <2>3, <3>1 DEF LimitTypeOK, Answer, Answers
    <3> HIDE DEF a
    <3> QED
      BY <1>0, <2>1, <2>3, <3>1, <3>2, QuietStep
  <2> QED
    BY <1>3, <2>2, <2>3 DEF StoreFails
<1>4. ASSUME PurgeRateLimitCounters PROVE Inv'
  <2>1. counter' = NoRow /\ now' = now /\ req' = req /\ late' = late
          /\ counter.window < now
    BY <1>0, <1>4 DEF PurgeRateLimitCounters
  <2>2. LimitTypeOK'
    BY <1>0, <2>1 DEF LimitTypeOK, NoRow
  <2> QED
    BY <1>0, <2>1, <2>2, QuietStep
<1>5. ASSUME Tick PROVE Inv'
  <2>1. now' = now + 1 /\ now' \in Windows /\ counter' = counter /\ req' = req
          /\ late' = late
    BY <1>0, <1>5, MaxWindowAssumption DEF Tick, Windows
  <2>2. LimitTypeOK'
    BY <1>0, <2>1 DEF LimitTypeOK
  <2> QED
    BY <1>0, <2>1, <2>2, QuietStep
<1>6. ASSUME UNCHANGED limitVars PROVE Inv'
  <2>1. LimitTypeOK'
    BY <1>0, <1>6 DEF limitVars, LimitTypeOK
  <2> QED
    BY <1>0, <1>6, <2>1, QuietStep DEF limitVars
<1> QED
  BY <1>1, <1>2, <1>3, <1>4, <1>5, <1>6 DEF LimitNext

\* What CheckRateLimit keeps of "reports whether it stays within maxRequests",
\* with every limiter, a failing database, and requests counted at any time
\* after they have computed their window.
THEOREM LimitHolds == LimitSpec => []WithinLimit
<1>1. Inv => WithinLimit
  <2> SUFFICES ASSUME Inv, NEW w \in Windows
               PROVE  Cardinality(Answered(w, "allowed"))
                        <= Max * (1 + Cardinality(late))
    BY DEF WithinLimit
  <2>0. LimitTypeOK
    BY DEF Inv
  <2>1. Cardinality(Answered(w, "allowed")) <= Max * Cardinality(late) + Quota(w)
    BY DEF Inv, CounterCovers
  <2>2. CASE Requests = {}
    <3>1. Answered(w, "allowed") = {}
      BY <2>2 DEF Answered
    <3>2. Cardinality(Answered(w, "allowed")) = 0
      BY <3>1, AnsweredFinite
    <3>3. IsFiniteSet(late)
      BY <2>0, RequestsAssumption, FS_Subset DEF LimitTypeOK
    <3>4. \A m, n \in Nat : m * (1 + n) \in Nat
      OBVIOUS
    <3> QED
      BY <3>2, <3>3, <3>4, MaxNat, FS_CardinalityType
  <2>3. CASE Requests # {}
    <3>1. PICK p : p \in Requests
      BY <2>3
    <3>2. /\ Max * Cardinality(late) \in Nat
          /\ Max * (1 + Cardinality(late)) = Max * Cardinality(late) + Max
      BY <2>0, <3>1, LateWorth
    <3>3. Cardinality(Answered(w, "allowed")) \in Nat
      BY AnsweredFinite
    <3> QED
      BY <2>0, <2>1, <3>2, <3>3, QuotaFacts, MaxNat
  <2> QED
    BY <2>2, <2>3
<1> QED
  BY <1>1, InitInv, NextInv, PTL DEF LimitSpec

----------------------------------------------------------------------------
(* Denials *)

\* The requests a window has not denied are finitely many.
LEMMA NotDeniedFinite ==
  ASSUME NEW w
  PROVE  /\ IsFiniteSet(NotDenied(w))
         /\ Cardinality(NotDenied(w)) \in Nat
<1>1. NotDenied(w) \subseteq Requests
  BY DEF NotDenied, Answered
<1> QED
  BY <1>1, RequestsAssumption, FS_Subset, FS_CardinalityType

\* An answer of a request that may have been counted keeps the invariant: it is
\* denied only past the limit.
LEMMA AnswerFair ==
  ASSUME FairInv, NEW p \in Requests, NEW a \in Answers,
         req[p].at = "counting", Answer(p, a), now' = now,
         late' \subseteq late \cup {p},
         \/ counter' = Counted(req[p].window)
         \/ counter' = counter /\ a # "denied",
         a = "denied" => Counted(req[p].window).count > Max
  PROVE  FairInv'
<1> DEFINE v == req[p].window
<1>0. LimitTypeOK /\ v \in Windows
  BY DEF FairInv, LimitTypeOK
<1>1. LimitTypeOK'
  BY <1>0, CountedFacts DEF LimitTypeOK, Answer, Answers
<1>2. ASSUME NEW w \in Windows
      PROVE  /\ Cardinality(NotDenied(w)) \in Nat
             /\ Cardinality(NotDenied(w)') =
                  IF a # "denied" /\ w = v THEN Cardinality(NotDenied(w)) + 1
                                          ELSE Cardinality(NotDenied(w))
  <2>1. IsFiniteSet(NotDenied(w)) /\ Cardinality(NotDenied(w)) \in Nat
    BY NotDeniedFinite
  <2>2. CASE a # "denied" /\ w = v
    <3>1. NotDenied(w)' = NotDenied(w) \cup {p} /\ p \notin NotDenied(w)
      BY <1>0, <2>2, AnswerAdds
    <3>2. Cardinality(NotDenied(w) \cup {p}) = Cardinality(NotDenied(w)) + 1
      BY <2>1, <3>1, FS_AddElement
    <3> QED
      BY <2>1, <2>2, <3>1, <3>2
  <2>3. CASE ~(a # "denied" /\ w = v)
    <3>1. NotDenied(w)' = NotDenied(w)
      BY <1>0, <2>3, AnswerAdds
    <3> QED
      BY <2>1, <2>3, <3>1
  <2> QED
    BY <2>2, <2>3
<1>3. /\ Counted(v).window = v /\ counter.count \in Nat
      /\ Counted(v).count = IF counter.window = v THEN counter.count + 1 ELSE 1
  BY <1>0, CountedFacts DEF LimitTypeOK
<1>4. \A w \in Windows : Answered(w, "denied") \subseteq Answered(w, "denied")'
  BY <1>0, AnswerAdds
<1>5. ASSUME NEW w \in Windows, counter'.window = w, Answered(w, "denied")' = {}
      PROVE  counter'.count <= Cardinality(NotDenied(w)')
  <2>1. Answered(w, "denied") = {}
    BY <1>4, <1>5
  <2>2. counter.window = w => counter.count <= Cardinality(NotDenied(w))
    BY <2>1 DEF FairInv, CountsNotDenied
  <2>3. CASE counter' = Counted(v)
    <3>1. w = v
      BY <1>3, <1>5, <2>3
    <3>2. a # "denied"
      BY <1>0, <1>5, <3>1, AnswerAdds
    <3> QED
      BY <1>2, <1>3, <2>2, <2>3, <3>1, <3>2
  <2>4. CASE counter' = counter
    BY <1>2, <1>3, <1>5, <2>2, <2>4
  <2> QED
    BY <2>3, <2>4
<1>6. ASSUME NEW w \in Windows, Answered(w, "denied")' # {}
      PROVE  Cardinality(NotDenied(w)') >= Max
  <2>1. CASE Answered(w, "denied") # {}
    BY <1>2, <2>1, MaxNat DEF FairInv, DeniedFairly
  <2>2. CASE Answered(w, "denied") = {}
    <3>1. a = "denied" /\ w = v
      BY <1>0, <1>6, <2>2, AnswerAdds
    <3>2. counter.window = v => counter.count <= Cardinality(NotDenied(w))
      BY <2>2, <3>1 DEF FairInv, CountsNotDenied
    <3> QED
      BY <1>2, <1>3, <3>1, <3>2, MaxNat
  <2> QED
    BY <2>1, <2>2
<1> QED
  BY <1>1, <1>5, <1>6 DEF FairInv, CountsNotDenied, DeniedFairly

\* Every step keeps it, whatever the configuration.
LEMMA FairStep ==
  ASSUME FairInv, [LimitNext]_limitVars
  PROVE  FairInv'
<1>0. LimitTypeOK
  BY DEF FairInv
<1>1. ASSUME NEW p \in Requests, CheckRateLimit(p)
      PROVE  FairInv'
  <2> DEFINE a == IF Counted(req[p].window).count <= Max THEN "allowed"
                                                        ELSE "denied"
  <2>1. req[p].window \in Windows
    BY <1>0 DEF LimitTypeOK
  <2>2. Counted(req[p].window).count \in Nat
    BY <1>0, <2>1, CountedFacts
  <2>3. a \in Answers /\ Answer(p, a)
        /\ (a = "denied" => Counted(req[p].window).count > Max)
    BY <1>1, <2>2, MaxNat DEF CheckRateLimit, Answers
  <2> QED
    BY <1>1, <2>3, AnswerFair DEF CheckRateLimit, Count
<1>2. ASSUME NEW p \in Requests, StoreFails(p)
      PROVE  FairInv'
  <2> DEFINE a == IF Strict THEN "unavailable" ELSE "passed"
  <2>1. a \in Answers /\ a # "denied" /\ Answer(p, a)
    BY <1>2 DEF StoreFails, Answers
  <2>2. /\ req[p].at = "counting" /\ now' = now
        /\ late' \subseteq late \cup {p}
        /\ counter' = Counted(req[p].window) \/ counter' = counter
    BY <1>2 DEF StoreFails, Count
  <2> HIDE DEF a
  <2> QED
    BY <2>1, <2>2, AnswerFair
<1>3. ASSUME LimitTypeOK', counter' \in {counter, NoRow},
             \A w \in Windows, answer \in Answers :
               Answered(w, answer)' = Answered(w, answer)
      PROVE  FairInv'
  <2>1. \A w \in Windows : NotDenied(w)' = NotDenied(w)
                          /\ Answered(w, "denied")' = Answered(w, "denied")
    BY <1>3 DEF NotDenied, Answers
  <2>2. counter' = NoRow => \A w \in Windows : counter'.window # w
    BY DEF NoRow, Windows
  <2> QED
    BY <1>3, <2>1, <2>2 DEF FairInv, CountsNotDenied, DeniedFairly
<1>4. ASSUME NEW p \in Requests, Arrive(p)
      PROVE  FairInv'
  <2>1. LimitTypeOK' /\ counter' = counter
    BY <1>0, <1>4 DEF Arrive, LimitTypeOK
  <2>2. /\ req[p].at = "idle" /\ req'[p].at = "counting"
        /\ \A q \in Requests \ {p} : req'[q] = req[q]
    BY <1>0, <1>4 DEF Arrive, LimitTypeOK
  <2> QED
    BY <1>3, <2>1, <2>2 DEF Answered, Answers
<1>5. CASE PurgeRateLimitCounters
  <2>1. LimitTypeOK'
    BY <1>0, <1>5 DEF PurgeRateLimitCounters, LimitTypeOK, NoRow
  <2> QED
    BY <1>3, <1>5, <2>1 DEF PurgeRateLimitCounters, Answered, Answers
<1>6. CASE Tick
  <2>1. LimitTypeOK'
    BY <1>0, <1>6, MaxWindowAssumption DEF Tick, LimitTypeOK, Windows
  <2> QED
    BY <1>3, <1>6, <2>1 DEF Tick, Answered, Answers
<1>7. CASE UNCHANGED limitVars
  <2>1. LimitTypeOK'
    BY <1>0, <1>7 DEF limitVars, LimitTypeOK
  <2> QED
    BY <1>3, <1>7, <2>1 DEF limitVars, Answered, Answers
<1> QED
  BY <1>1, <1>2, <1>4, <1>5, <1>6, <1>7 DEF LimitNext

\* A denial is deserved with every limiter, also while requests are counted
\* late and the database fails: CheckRateLimit denies a request only when its
\* own window has let as many through as the limit, or could not tell.
THEOREM DenialsFair == LimitSpec => []DeniedFairly
<1>1. LimitInit => FairInv
  <2> SUFFICES ASSUME LimitInit PROVE FairInv
    OBVIOUS
  <2>1. LimitTypeOK /\ \A w \in Windows : Answered(w, "denied") = {}
    BY InitInv DEF Inv, LimitInit, Answered
  <2>2. \A w \in Windows : counter.window # w
    BY DEF LimitInit, NoRow, Windows
  <2> QED
    BY <2>1, <2>2 DEF FairInv, CountsNotDenied, DeniedFairly
<1>2. FairInv => DeniedFairly
  BY DEF FairInv
<1> QED
  BY <1>1, <1>2, FairStep, PTL DEF LimitSpec

-----------------------------------------------------------------------------
(* Live events *)

\* What Append and Tail leave of the elements of a sequence.
LEMMA Appended ==
  ASSUME NEW S, NEW s \in Seq(S), NEW e \in S
  PROVE  /\ Append(s, e) \in Seq(S)
         /\ Len(Append(s, e)) = Len(s) + 1
         /\ DOMAIN s = 1 .. Len(s) /\ Len(s) \in Nat
         /\ DOMAIN Append(s, e) = 1 .. Len(s) + 1
         /\ \A i \in DOMAIN s : i \in DOMAIN Append(s, e) /\ Append(s, e)[i] = s[i]
         /\ Append(s, e)[Len(s) + 1] = e
OBVIOUS

LEMMA Tailed ==
  ASSUME NEW S, NEW s \in Seq(S), s # <<>>
  PROVE  /\ Head(s) \in S /\ Tail(s) \in Seq(S)
         /\ Len(Tail(s)) = Len(s) - 1 /\ Len(s) \in Nat \ {0}
         /\ DOMAIN s = 1 .. Len(s) /\ DOMAIN Tail(s) = 1 .. Len(s) - 1
         /\ s[1] = Head(s)
         /\ \A i \in 1 .. Len(s) - 1 : Tail(s)[i] = s[i + 1]
OBVIOUS

\* A socket in a hub is a connection.
LEMMA Connected ==
  ASSUME TypeOK, NEW c \in Clients
  PROVE  /\ sock[c] \in Conn <=> sock[c] \notin {Shut, Away}
         /\ sock[c].at \in {"upgraded", "added", "served", "closed", "ghost"}
              => sock[c] \in Conn
         /\ Joined(c) => sock[c] \in Conn
BY DEF TypeOK, Conn, Shut, Away, Joined

\* Versions are numbers, and an enrollment is decided once.
LEMMA Decided ==
  ASSUME TypeOK
  PROVE  /\ Versions \subseteq Nat
         /\ \A t \in Topics : state[t] \in Versions /\ state[t] \in Nat
         /\ state["enrollment"] <= 1
<1>1. /\ Changes["sent"] \in Nat /\ Changes["enrollment"] \in Nat
      /\ Changes["enrollment"] <= 1
  BY ChangesAssumption DEF Topics
<1>2. /\ state["sent"] \in Nat /\ state["sent"] <= Changes["sent"]
      /\ state["enrollment"] \in Nat /\ state["enrollment"] <= Changes["enrollment"]
  BY DEF TypeOK, Topics
<1>3. \A t \in Topics : t = "sent" \/ t = "enrollment"
  BY DEF Topics
<1> QED
  BY <1>1, <1>2, <1>3 DEF Versions

\* What a client shows, and what is on its way to it, are numbers.
LEMMA ClientTypes ==
  ASSUME TypeOK, NEW c \in Clients
  PROVE  /\ shows[c] \in Nat /\ out[c] \in Seq(Versions)
         /\ \A i \in DOMAIN out[c] : out[c][i] \in Nat
         /\ sock[c] \in Conn => sock[c].read \in Nat /\ sock[c].on \in Replicas
         /\ c \in Pages /\ load[c].at = "answered" => load[c].n \in Nat
<1>1. Versions \subseteq Nat
  BY Decided
<1>2. out[c] \in Seq(Versions) /\ shows[c] \in Versions
  BY DEF TypeOK
<1>3. \A i \in DOMAIN out[c] : out[c][i] \in Versions
  BY <1>2
<1>4. sock[c] \in Conn => sock[c].read \in Versions /\ sock[c].on \in Replicas
  BY DEF Conn
<1>5. c \in Pages /\ load[c].at = "answered" => load[c].n \in Versions
  <2>1. load \in [Pages -> {Quiet, Asked} \cup [at: {"answered"}, n: Versions]]
    BY DEF TypeOK
  <2> QED
    BY <2>1 DEF Quiet, Asked
<1> QED
  BY <1>1, <1>2, <1>3, <1>4, <1>5

(* What a step may do to a client's socket. *)
Stays(c) == sock'[c] = sock[c] /\ out'[c] = out[c]

Hears(c, n) ==
  /\ Joined(c) /\ sock'[c] = sock[c]
  /\ out'[c] = Append(out[c], n) /\ Len(out[c]) < SendBuffer

IsDropped(c) ==
  /\ Joined(c) /\ out'[c] = out[c]
  /\ sock'[c] = [at |-> "closed", on |-> sock[c].on, read |-> sock[c].read]

LEMMA DroppedFacts ==
  ASSUME TypeOK, NEW C \in SUBSET Clients, sock' = Dropped(C)
  PROVE  /\ sock' \in [Clients -> {Shut, Away} \cup Conn]
         /\ \A c \in Clients :
              IF c \in C /\ Joined(c)
                THEN sock'[c] = [at |-> "closed", on |-> sock[c].on, read |-> sock[c].read]
                ELSE sock'[c] = sock[c]
<1>1. ASSUME NEW c \in Clients, Joined(c)
      PROVE  /\ [sock[c] EXCEPT !.at = "closed"]
                  = [at |-> "closed", on |-> sock[c].on, read |-> sock[c].read]
             /\ [sock[c] EXCEPT !.at = "closed"] \in Conn
  BY <1>1, Connected DEF Conn
<1> QED
  BY <1>1 DEF Dropped, TypeOK

LEMMA DeliverFacts ==
  ASSUME TypeOK, NEW topic \in Topics, NEW n \in Versions, NEW R,
         Deliver(topic, n, R)
  PROVE  /\ sock' \in [Clients -> {Shut, Away} \cup Conn]
         /\ out' \in [Clients -> Seq(Versions)]
         /\ UNCHANGED <<opened, load, shows>>
         /\ \A c \in Clients : Len(out'[c]) <= SendBuffer
         /\ \A c \in Clients :
              \/ Stays(c) /\ ~(Joined(c) /\ Topic(c) = topic /\ sock[c].on \in R)
              \/ Hears(c, n) /\ Topic(c) = topic
              \/ IsDropped(c)
<1> DEFINE to == {c \in Clients : Joined(c) /\ Topic(c) = topic /\ sock[c].on \in R}
           full == {c \in to : Len(out[c]) = SendBuffer}
<1>1. /\ out' = [c \in Clients |-> IF c \in to \ full THEN Append(out[c], n) ELSE out[c]]
      /\ sock' = Dropped(full) /\ full \in SUBSET Clients
      /\ UNCHANGED <<opened, load, shows>>
  BY DEF Deliver
<1>2. ASSUME NEW c \in Clients
      PROVE  /\ out[c] \in Seq(Versions) /\ Len(out[c]) <= SendBuffer
             /\ Len(out[c]) \in Nat /\ SendBuffer \in Nat
             /\ Append(out[c], n) \in Seq(Versions)
             /\ Len(Append(out[c], n)) = Len(out[c]) + 1
  BY BoundsAssumption, Appended DEF TypeOK
<1>3. \A c \in to \ full : Joined(c) /\ Topic(c) = topic /\ Len(out[c]) < SendBuffer
  BY <1>2
<1>4. \A c \in full : Joined(c)
  OBVIOUS
<1>5. \A c \in Clients : c \notin to => ~(Joined(c) /\ Topic(c) = topic /\ sock[c].on \in R)
  OBVIOUS
<1> HIDE DEF to, full
<1>6. out' \in [Clients -> Seq(Versions)] /\ \A c \in Clients : Len(out'[c]) <= SendBuffer
  BY <1>1, <1>2, <1>3
<1>7. /\ sock' \in [Clients -> {Shut, Away} \cup Conn]
      /\ \A c \in Clients :
              IF c \in full
                THEN sock'[c] = [at |-> "closed", on |-> sock[c].on, read |-> sock[c].read]
                ELSE sock'[c] = sock[c]
  BY <1>1, <1>4, DroppedFacts
<1> QED
  BY <1>1, <1>3, <1>4, <1>5, <1>6, <1>7 DEF Stays, Hears, IsDropped

\* What is owed was owed before, as long as nothing new is committed.
LEMMA OwedBefore ==
  ASSUME NEW c \in Clients, NEW n, UNCHANGED <<state, gap>>, lost \subseteq lost',
         Owed(c, n)'
  PROVE  Owed(c, n)
BY DEF Owed, Topic

\* A client that stays where it is, hears of one more change, or is dropped,
\* still knows what it has to if what it is told otherwise stays.
LEMMA KnowsOn ==
  ASSUME RealtimeInv, NEW c \in Clients, UNCHANGED <<state, opened, load, shows, gap>>,
         lost \subseteq lost',
         \/ Stays(c)
         \/ IsDropped(c)
         \/ \E n \in Versions : n \in 1 .. state[Topic(c)] /\ Hears(c, n),
         \A n \in Versions : Joined(c) /\ sock'[c] = sock[c] /\ Owed(c, n)' /\ Told(c, n)
           => Told(c, n)'
  PROVE  ClientKnows(c)'
<1>0. /\ ClientKnows(c) /\ TypeOK
      /\ out[c] \in Seq(Versions)
      /\ state \in [Topics -> Nat] /\ Topic(c) \in Topics
      /\ UNCHANGED <<state, opened, load, shows>>
  BY DEF RealtimeInv, TypeOK, Topic, Topics
<1>1. CASE Stays(c)
  <2>1. ShowsCommitted(c)'
    BY <1>0, <1>1 DEF ClientKnows, ShowsCommitted, Stays, Topic
  <2>2. ASSUME c \in Pages
        PROVE  PageKnows(c)'
    BY <1>0, <1>1, <2>2, OwedBefore
       DEF ClientKnows, PageKnows, Reloads, Stays, Joined
  <2>3. ASSUME c \in Watchers
        PROVE  WatcherKnows(c)'
    BY <1>0, <1>1, <2>3, OwedBefore DEF ClientKnows, WatcherKnows, Stays, Joined
  <2> QED
    BY <2>1, <2>2, <2>3 DEF ClientKnows
<1>2. CASE IsDropped(c)
  <2>1. sock[c] \in Conn /\ sock'[c].at = "closed" /\ sock'[c].read = sock[c].read
    BY <1>0, <1>2, Connected DEF IsDropped
  <2>2. sock[c] \notin {Shut, Away} /\ ~Joined(c)'
    BY <1>0, <2>1, Connected DEF Joined
  <2>3. ShowsCommitted(c)'
    BY <1>0, <1>2, <2>1 DEF ClientKnows, ShowsCommitted, IsDropped, Topic
  <2>4. ASSUME c \in Pages
        PROVE  PageKnows(c)'
    BY <1>0, <2>1, <2>2, <2>4 DEF ClientKnows, PageKnows
  <2>5. ASSUME c \in Watchers
        PROVE  WatcherKnows(c)'
    BY <2>1 DEF WatcherKnows
  <2> QED
    BY <2>3, <2>4, <2>5 DEF ClientKnows
<1>3. ASSUME NEW n \in Versions, n \in 1 .. state[Topic(c)], Hears(c, n)
      PROVE  ClientKnows(c)'
  <2>1. /\ out'[c] = Append(out[c], n) /\ sock'[c] = sock[c] /\ Joined(c)
        /\ sock[c].at \in {"added", "served"} /\ state[Topic(c)] \in Nat
        /\ n <= state[Topic(c)] /\ n >= 1 /\ n \in Nat
    BY <1>0, <1>3 DEF Hears, Joined
  <2>2. /\ DOMAIN out[c] = 1 .. Len(out[c]) /\ Len(out[c]) \in Nat
        /\ DOMAIN out'[c] = 1 .. Len(out[c]) + 1
        /\ \A i \in DOMAIN out[c] : out'[c][i] = out[c][i]
        /\ out'[c][Len(out[c]) + 1] = n
    BY <1>0, <2>1, Appended
  <2>3. \A i \in DOMAIN out'[c] : i \in DOMAIN out[c] \/ (i = Len(out[c]) + 1 /\ out'[c][i] = n)
    BY <2>2
  <2>4. ShowsCommitted(c)'
    BY <1>0, <2>1, <2>3, <2>2 DEF ClientKnows, ShowsCommitted, Topic
  <2>5. ASSUME c \in Pages
        PROVE  PageKnows(c)'
    BY <1>0, <2>1, <2>5, OwedBefore DEF ClientKnows, PageKnows, Reloads, Joined
  <2>6. ASSUME c \in Watchers
        PROVE  WatcherKnows(c)'
    <3>1. sock[c].at = "added" => \A i \in DOMAIN out'[c] : out'[c][i] >= 1
      BY <1>0, <2>1, <2>2, <2>3, <2>6 DEF ClientKnows, WatcherKnows
    <3>2. ASSUME NEW m \in Versions, Owed(c, m)'
          PROVE  /\ sock[c].at = "added" => sock[c].read >= m
                 /\ sock[c].at = "served" =>
                      /\ shows[c] < m => Told(c, m)'
                      /\ \A i \in DOMAIN out'[c] : out'[c][i] < m =>
                           shows[c] < m /\ \A j \in 1 .. i : out'[c][j] < m
      <4>1. Owed(c, m) /\ m <= n /\ m \in Nat
        <5>1. Owed(c, m) /\ Topic(c) = "enrollment"
          BY <2>6, <3>2, OwedBefore, ClientsAssumption DEF Topic
        <5>2. m <= 1 /\ m \in Nat
          BY <1>0, <5>1, Decided DEF Owed
        <5> QED
          BY <2>1, <5>1, <5>2
      <4>2. sock[c].at = "added" => sock[c].read >= m
        BY <1>0, <2>6, <4>1 DEF ClientKnows, WatcherKnows
      <4>3. ASSUME sock[c].at = "served"
            PROVE  /\ shows[c] < m => Told(c, m)'
                   /\ \A i \in DOMAIN out[c] : out[c][i] < m =>
                        shows[c] < m /\ \A j \in 1 .. i : out[c][j] < m
        BY <1>0, <2>1, <2>6, <3>2, <4>1, <4>3 DEF ClientKnows, WatcherKnows
      <4>4. ASSUME sock[c].at = "served", NEW i \in DOMAIN out'[c], out'[c][i] < m
            PROVE  shows[c] < m /\ \A j \in 1 .. i : out'[c][j] < m
        <5>1. i \in DOMAIN out[c]
          BY <2>1, <2>3, <4>1, <4>4
        <5>2. out'[c][i] = out[c][i] /\ \A j \in 1 .. i : j \in DOMAIN out[c]
          BY <2>2, <5>1
        <5>3. shows[c] < m /\ \A j \in 1 .. i : out[c][j] < m
          BY <4>3, <4>4, <5>1, <5>2
        <5> QED
          BY <2>2, <5>2, <5>3
      <4> QED
        BY <4>2, <4>3, <4>4
    <3> QED
      BY <1>0, <2>1, <3>1, <3>2 DEF WatcherKnows
  <2> QED
    BY <2>4, <2>5, <2>6 DEF ClientKnows
<1> QED
  BY <1>1, <1>2, <1>3

\* A notification that is added is an event.
LEMMA NotifyFacts ==
  ASSUME TypeOK, NEW topic \in Topics, NEW n \in Versions, Notify(topic, n)
  PROVE  /\ [topic |-> topic, n |-> n] \in Event
         /\ inbox' \in [Replicas -> Seq(Event \cup {Resync})]
         /\ \A r \in Replicas :
              inbox'[r] = IF Running(r) /\ listening[r]
                            THEN Append(inbox[r], [topic |-> topic, n |-> n])
                            ELSE inbox[r]
<1>1. [topic |-> topic, n |-> n] \in Event
  BY DEF Event
<1>2. \A r \in Replicas : Append(inbox[r], [topic |-> topic, n |-> n])
                            \in Seq(Event \cup {Resync})
  BY <1>1 DEF TypeOK
<1> QED
  BY <1>1, <1>2 DEF Notify, TypeOK

\* The requests under way.
LEMMA TaskFacts ==
  ASSUME TypeOK, NEW t \in Tasks, task[t].at \in {"gather", "publish"}
  PROVE  /\ task[t] # Idle
         /\ task[t].topic \in Topics /\ task[t].n \in Versions
         /\ task[t].on \in Replicas
         /\ task[t] \in [at: {"gather", "publish"}, on: Replicas,
                         topic: Topics, n: Versions]
BY DEF TypeOK, Idle

LEMMA TypeStep ==
  ASSUME TypeOK, [Next]_vars
  PROVE  TypeOK'
<1>count. SendBuffer \in Nat \ {0} /\ MaxFaults \in Nat
  BY BoundsAssumption
<1>hubs. /\ hub \in [Replicas -> Hub] /\ listening \in [Replicas -> BOOLEAN]
         /\ faults \in 0 .. MaxFaults
  BY DEF TypeOK
<1>inbox. inbox \in [Replicas -> Seq(Event \cup {Resync})]
  BY DEF TypeOK
<1>load. load \in [Pages -> {Quiet, Asked} \cup [at: {"answered"}, n: Versions]]
  BY DEF TypeOK
<1>sock. sock \in [Clients -> {Shut, Away} \cup Conn]
  BY DEF TypeOK
<1>out. out \in [Clients -> Seq(Versions)] /\ \A c \in Clients : Len(out[c]) <= SendBuffer
  BY DEF TypeOK
<1>1. ASSUME NEW t \in Tasks, NEW r \in Replicas, NEW topic \in Topics,
             Change(t, r, topic)
      PROVE  TypeOK'
  <2>1. /\ state' = [state EXCEPT ![topic] = state[topic] + 1]
        /\ state[topic] + 1 <= Changes[topic] /\ state[topic] + 1 \in Nat
        /\ UNCHANGED <<lost, hub, listening, inbox, sock, out, opened, load, shows, faults>>
    BY <1>1 DEF Change, client, TypeOK
  <2>2. state[topic] + 1 \in Versions
    BY <2>1, ChangesAssumption DEF Versions, Topics
  <2>3. task' \in [Tasks -> {Idle} \cup [at: {"gather", "publish"}, on: Replicas,
                                         topic: Topics, n: Versions]]
    BY <1>1, <2>2 DEF Change, TypeOK
  <2>4. gap' \in [Clients -> SUBSET Versions]
    BY <1>1, <2>2 DEF Change, TypeOK
  <2>5. state' \in [Topics -> Nat] /\ \A u \in Topics : state'[u] <= Changes[u]
    BY <2>1 DEF TypeOK
  <2> QED
    BY <2>1, <2>3, <2>4, <2>5 DEF TypeOK
<1>2. ASSUME NEW t \in Tasks, GatherEnrollmentEventData(t)
      PROVE  TypeOK'
  <2>1. task[t].at = "gather"
        /\ UNCHANGED <<state, hub, listening, inbox, sock, out, opened, load, shows, gap>>
    BY <1>2 DEF GatherEnrollmentEventData, client
  <2>2. state[task[t].topic] \in Versions
    BY <2>1, TaskFacts, Decided
  <2>3. task' \in [Tasks -> {Idle} \cup [at: {"gather", "publish"}, on: Replicas,
                                         topic: Topics, n: Versions]]
    <3>1. /\ task \in [Tasks -> {Idle} \cup [at: {"gather", "publish"}, on: Replicas,
                                             topic: Topics, n: Versions]]
          /\ task[t] \in [at: {"gather", "publish"}, on: Replicas,
                           topic: Topics, n: Versions]
      BY <2>1, TaskFacts DEF TypeOK
    <3>2. \/ task' = [task EXCEPT ![t].at = "publish", ![t].n = state[task[t].topic]]
          \/ task' = [task EXCEPT ![t] = Idle]
      BY <1>2 DEF GatherEnrollmentEventData, Ends
    <3> QED
      BY <2>2, <3>1, <3>2
  <2>4. lost' \subseteq Event /\ faults' \in 0 .. MaxFaults
    BY <1>2, <1>count, <2>1, TaskFacts
       DEF GatherEnrollmentEventData, Lose, Event, Fault, TypeOK
  <2> QED
    BY <2>1, <2>3, <2>4 DEF TypeOK
<1>3. ASSUME NEW t \in Tasks, Publish(t)
      PROVE  TypeOK'
  <2>1. /\ task[t].at = "publish" /\ task[t].topic \in Topics /\ task[t].n \in Versions
        /\ task' = [task EXCEPT ![t] = Idle]
        /\ UNCHANGED <<state, hub, listening, gap>>
    BY <1>3, TaskFacts DEF Publish, Ends
  <2>2. \/ UNCHANGED <<sock, out, opened, load, shows, faults>>
        \/ Fault /\ Deliver(task[t].topic, task[t].n, {task[t].on})
    BY <1>3 DEF Publish, client
  <2>3. /\ sock' \in [Clients -> {Shut, Away} \cup Conn]
        /\ out' \in [Clients -> Seq(Versions)]
        /\ \A c \in Clients : Len(out'[c]) <= SendBuffer
        /\ UNCHANGED <<opened, load, shows>>
    BY <2>1, <2>2, DeliverFacts DEF TypeOK
  <2>4. inbox' = inbox \/ Notify(task[t].topic, task[t].n)
    BY <1>3 DEF Publish
  <2>5. inbox' \in [Replicas -> Seq(Event \cup {Resync})]
    BY <2>1, <2>4, NotifyFacts DEF TypeOK
  <2>6. lost' \subseteq Event
    BY <1>3, <2>1 DEF Publish, Lose, Event, TypeOK
  <2>7. task' \in [Tasks -> {Idle} \cup [at: {"gather", "publish"}, on: Replicas,
                                         topic: Topics, n: Versions]]
    BY <2>1 DEF TypeOK
  <2>8. faults' \in 0 .. MaxFaults
    BY <1>count, <2>2 DEF Fault, TypeOK
  <2> QED
    BY <2>1, <2>3, <2>5, <2>6, <2>7, <2>8 DEF TypeOK
<1>4. ASSUME NEW r \in Replicas, Listen(r)
      PROVE  TypeOK'
  <2>1. /\ inbox[r] \in Seq(Event \cup {Resync}) /\ inbox[r] # <<>>
        /\ inbox' = [inbox EXCEPT ![r] = Tail(@)]
        /\ UNCHANGED <<state, task, lost, hub, listening, gap, faults>>
    BY <1>4 DEF Listen, TypeOK
  <2>2. Head(inbox[r]) \in Event \cup {Resync} /\ Tail(inbox[r]) \in Seq(Event \cup {Resync})
    BY <2>1, Tailed
  <2>3. inbox' \in [Replicas -> Seq(Event \cup {Resync})]
    BY <2>1, <2>2 DEF TypeOK
  <2>4. CASE Head(inbox[r]) = Resync
    <3>1. UNCHANGED <<out, opened, load, shows>>
          /\ sock' = Dropped({c \in Clients : On(c, r)})
      BY <1>4, <2>4 DEF Listen
    <3>2. sock' \in [Clients -> {Shut, Away} \cup Conn]
      BY <3>1, DroppedFacts
    <3> QED
      BY <2>1, <2>3, <3>1, <3>2 DEF TypeOK
  <2>5. CASE Head(inbox[r]) # Resync
    <3>1. Head(inbox[r]).topic \in Topics /\ Head(inbox[r]).n \in Versions
      BY <2>2, <2>5 DEF Event
    <3>2. Deliver(Head(inbox[r]).topic, Head(inbox[r]).n, {r})
      BY <1>4, <2>5 DEF Listen, DeliverEnvelope
    <3>3. /\ sock' \in [Clients -> {Shut, Away} \cup Conn]
          /\ out' \in [Clients -> Seq(Versions)]
          /\ \A c \in Clients : Len(out'[c]) <= SendBuffer
          /\ UNCHANGED <<opened, load, shows>>
      BY <3>1, <3>2, DeliverFacts
    <3> QED
      BY <2>1, <2>3, <3>3 DEF TypeOK
  <2> QED
    BY <2>4, <2>5
<1>5. ASSUME NEW r \in Replicas, ListenerLost(r) \/ Start(r) \/ ListenerBack(r)
      PROVE  TypeOK'
  <2>1. /\ hub' \in [Replicas -> Hub] /\ listening' \in [Replicas -> BOOLEAN]
        /\ faults' \in 0 .. MaxFaults
        /\ UNCHANGED <<state, task, lost, sock, out, opened, load, shows, gap>>
    <3>1. CASE ListenerLost(r)
      BY <3>1, <1>count, <1>hubs DEF ListenerLost, Fault, client
    <3>2. CASE ListenerBack(r)
      BY <3>2, <1>hubs DEF ListenerBack, client
    <3>3. CASE Start(r)
      BY <3>3, <1>hubs DEF Start, client, Hub
    <3> QED
      BY <1>5, <3>1, <3>2, <3>3
  <2>2. \A q \in Replicas : Append(inbox[q], Resync) \in Seq(Event \cup {Resync})
    BY <1>inbox
  <2>3. inbox' = inbox \/ inbox' = [inbox EXCEPT ![r] = Append(@, Resync)]
    BY <1>5 DEF ListenerLost, ListenerBack, Start
  <2>4. inbox' \in [Replicas -> Seq(Event \cup {Resync})]
    BY <1>inbox, <2>2, <2>3
  <2> QED
    BY <2>1, <2>4 DEF TypeOK
<1>6. ASSUME NEW r \in Replicas, Shutdown(r)
      PROVE  TypeOK'
  <2>1. /\ hub' \in [Replicas -> Hub] /\ faults' \in 0 .. MaxFaults
        /\ UNCHANGED <<state, task, lost, listening, inbox, out, opened, load,
                       shows, gap>>
    BY <1>6, <1>count, <1>hubs DEF Shutdown, Fault, Hub
  <2>2. sock' = sock \/ sock' = Dropped({c \in Clients : On(c, r)})
    BY <1>6 DEF Shutdown
  <2>3. sock' \in [Clients -> {Shut, Away} \cup Conn]
    BY <2>2, DroppedFacts DEF TypeOK
  <2> QED
    BY <2>1, <2>3 DEF TypeOK
<1>7. ASSUME NEW r \in Replicas, Exit(r)
      PROVE  TypeOK'
  <2> DEFINE cut == {t \in Tasks : task[t] # Idle /\ task[t].on = r}
  <2>1. /\ hub' \in [Replicas -> Hub] /\ faults' \in 0 .. MaxFaults
        /\ UNCHANGED <<state, listening, opened, load, shows, gap>>
    BY <1>7, <1>count DEF Exit, Fault, TypeOK, Hub
  <2>2. inbox' \in [Replicas -> Seq(Event \cup {Resync})]
    BY <1>7 DEF Exit, TypeOK
  <2>3. task' \in [Tasks -> {Idle} \cup [at: {"gather", "publish"}, on: Replicas,
                                         topic: Topics, n: Versions]]
    BY <1>7 DEF Exit, TypeOK
  <2>4. lost' \subseteq Event
    <3>1. lost' = lost \cup {[topic |-> task[t].topic, n |-> task[t].n] : t \in cut}
      BY <1>7 DEF Exit
    <3>2. \A t \in cut : [topic |-> task[t].topic, n |-> task[t].n] \in Event
      BY DEF TypeOK, Event
    <3> QED
      BY <3>1, <3>2 DEF TypeOK
  <2>5. sock' \in [Clients -> {Shut, Away} \cup Conn]
    BY <1>7 DEF Exit, TypeOK
  <2>6. out' \in [Clients -> Seq(Versions)] /\ \A c \in Clients : Len(out'[c]) <= SendBuffer
    BY <1>7, <1>count DEF Exit, TypeOK
  <2> QED
    BY <2>1, <2>2, <2>3, <2>4, <2>5, <2>6 DEF TypeOK
<1>8. ASSUME NEW c \in Clients, NEW r \in Replicas, Upgrade(c, r)
      PROVE  TypeOK'
  <2>1. UNCHANGED <<state, task, lost, hub, listening, inbox, out, shows, gap, faults>>
    BY <1>8 DEF Upgrade, Opens
  <2>2. ReadFirst(c) \in Versions
    <3>1. 0 \in Versions /\ state["enrollment"] \in Versions
      BY Decided, ChangesAssumption DEF Versions, Topics
    <3> QED
      BY <3>1 DEF ReadFirst
  <2>3. sock' \in [Clients -> {Shut, Away} \cup Conn]
    BY <1>8, <1>sock, <2>2 DEF Upgrade, Opens, Conn
  <2>4. opened' \in [Pages -> BOOLEAN]
        /\ load' \in [Pages -> {Quiet, Asked} \cup [at: {"answered"}, n: Versions]]
    <3>1. opened \in [Pages -> BOOLEAN]
      BY DEF TypeOK
    <3>2. \/ UNCHANGED <<opened, load>>
          \/ /\ c \in Pages /\ opened' = [opened EXCEPT ![c] = TRUE]
             /\ load' \in {load, [load EXCEPT ![c] = Asked]}
      BY <1>8, <1>load DEF Upgrade, Opens
    <3> QED
      BY <1>load, <3>1, <3>2
  <2> QED
    BY <2>1, <2>3, <2>4 DEF TypeOK
<1>9. ASSUME NEW c \in Clients, Add(c)
      PROVE  TypeOK'
  <2>1. sock[c] \in Conn
    BY <1>9, Connected DEF Add
  <2>2. sock' \in [Clients -> {Shut, Away} \cup Conn]
    BY <1>9, <1>sock, <2>1 DEF Add, Conn
  <2> QED
    BY <1>9, <2>2 DEF Add, TypeOK
<1>10. ASSUME NEW c \in Clients, WriteSnapshot(c)
       PROVE  TypeOK'
  <2>1. sock[c] \in Conn /\ sock[c].read \in Versions /\ 0 \in Versions
    BY <1>10, Connected, ChangesAssumption DEF WriteSnapshot, Conn, Versions, Topics
  <2>2. sock' \in [Clients -> {Shut, Away} \cup Conn]
    <3>1. \/ sock' = [sock EXCEPT ![c].at = "served", ![c].read = 0]
          \/ sock' = [sock EXCEPT ![c].at = "closed"]
      BY <1>10 DEF WriteSnapshot
    <3> QED
      BY <1>sock, <2>1, <3>1 DEF Conn
  <2> DEFINE longer == Append(out[c], sock[c].read)
  <2>3. /\ longer \in Seq(Versions)
        /\ Len(out[c]) < SendBuffer => Len(longer) <= SendBuffer
    BY <1>count, <1>out, <2>1, Appended
  <2>4. out' = out \/ (out' = [out EXCEPT ![c] = longer] /\ Len(out[c]) < SendBuffer)
    BY <1>10 DEF WriteSnapshot
  <2> HIDE DEF longer
  <2>5. out' \in [Clients -> Seq(Versions)] /\ \A d \in Clients : Len(out'[d]) <= SendBuffer
    BY <1>count, <1>out, <2>3, <2>4
  <2> QED
    BY <1>10, <2>2, <2>5 DEF WriteSnapshot, TypeOK
<1>11. ASSUME NEW c \in Clients, Serve(c)
       PROVE  TypeOK'
  <2>1. /\ out[c] \in Seq(Versions) /\ Head(out[c]) \in Versions
        /\ Tail(out[c]) \in Seq(Versions) /\ Len(Tail(out[c])) = Len(out[c]) - 1
        /\ Len(out[c]) \in Nat
    BY <1>11, Tailed DEF Serve, Hear, TypeOK
  <2>2. out' \in [Clients -> Seq(Versions)] /\ \A d \in Clients : Len(out'[d]) <= SendBuffer
    BY <1>11, <1>count, <2>1 DEF Serve, Hear, TypeOK
  <2>3. load' \in [Pages -> {Quiet, Asked} \cup [at: {"answered"}, n: Versions]]
    BY <1>11 DEF Serve, Hear, TypeOK
  <2>4. shows' \in [Clients -> Versions]
    BY <1>11, <2>1 DEF Serve, Hear, TypeOK
  <2> QED
    BY <1>11, <2>2, <2>3, <2>4 DEF Serve, Hear, TypeOK
<1>12. ASSUME NEW c \in Clients, Close(c)
       PROVE  TypeOK'
  <2>1. UNCHANGED <<state, task, lost, hub, listening, inbox, opened, load, shows, gap>>
        /\ faults' \in 0 .. MaxFaults
    BY <1>12, <1>count DEF Close, Fault, TypeOK
  <2>2. sock' \in [Clients -> {Shut, Away} \cup Conn]
    BY <1>12 DEF Close, TypeOK
  <2>3. out' \in [Clients -> Seq(Versions)] /\ \A d \in Clients : Len(out'[d]) <= SendBuffer
    BY <1>12, <1>count DEF Close, TypeOK
  <2> QED
    BY <2>1, <2>2, <2>3 DEF TypeOK
<1>13. ASSUME NEW p \in Pages, ListTransfers(p) \/ LoadHistory(p)
       PROVE  TypeOK'
  <2>1. UNCHANGED <<state, task, lost, hub, listening, inbox, sock, out, opened, gap, faults>>
    BY <1>13 DEF ListTransfers, LoadHistory
  <2>2. state["sent"] \in Versions
    BY Decided DEF Topics
  <2>3. load' \in [Pages -> {Quiet, Asked} \cup [at: {"answered"}, n: Versions]]
    BY <1>13, <1>load, <2>2 DEF ListTransfers, LoadHistory
  <2>4. LoadHistory(p) => load[p].n \in Versions
    BY <1>load DEF LoadHistory, Quiet, Asked
  <2>5. shows' \in [Clients -> Versions]
    BY <1>13, <2>4 DEF ListTransfers, LoadHistory, TypeOK
  <2> QED
    BY <2>1, <2>3, <2>5 DEF TypeOK
<1>14. CASE UNCHANGED vars
  BY <1>14 DEF vars, client, TypeOK
<1> QED
  BY <1>1, <1>2, <1>3, <1>4, <1>5, <1>6, <1>7, <1>8, <1>9, <1>10, <1>11, <1>12,
     <1>13, <1>14 DEF Next, TaskStep, ReplicaStep, SocketStep, PageStep

\* The invariant holds again after a step that commits and reads nothing, if
\* sockets only hear or close, and what is told is still told.
LEMMA SocketsMove ==
  ASSUME RealtimeInv, TypeOK', EventsCommitted', lost \subseteq lost',
         UNCHANGED <<state, opened, load, shows, gap>>,
         \A r \in Replicas : Running(r) => Running(r)',
         \A c \in Clients :
           \/ Stays(c) \/ IsDropped(c)
           \/ \E n \in Versions : n \in 1 .. state[Topic(c)] /\ Hears(c, n),
         \A r \in Replicas, c \in Clients :
           hub'[r] = "dropped" /\ hub[r] # "dropped" /\ On(c, r) => ~Joined(c)',
         \A r \in Replicas :
           hub[r] \in {"closing", "dropped"} => hub'[r] \in {"closing", "dropped"},
         \A c \in Clients, n \in Versions :
           Joined(c) /\ sock'[c] = sock[c] /\ Owed(c, n)' /\ Told(c, n) => Told(c, n)'
  PROVE  RealtimeInv'
<1>1. TypeOK /\ HeldByRunning /\ ShutdownLeavesNone
  BY DEF RealtimeInv
<1>2. \A c \in Clients : ClientKnows(c)'
  BY KnowsOn
<1>3. ASSUME NEW c \in Clients, NEW r \in Replicas, On(c, r)'
      PROVE  On(c, r)
  <2>1. sock'[c] = sock[c] \/ IsDropped(c)
    BY DEF Stays, Hears
  <2>2. CASE sock'[c] = sock[c]
    BY <1>3, <2>2 DEF On
  <2>3. CASE IsDropped(c)
    <3>1. sock[c] \notin {Shut, Away}
      BY <1>1, <2>3, Connected DEF IsDropped
    <3>2. sock'[c].on = sock[c].on
      BY <2>3 DEF IsDropped
    <3> QED
      BY <1>3, <3>1, <3>2 DEF On
  <2> QED
    BY <2>1, <2>2, <2>3
<1>4. HeldByRunning'
  BY <1>1, <1>3 DEF HeldByRunning
<1>5. ShutdownLeavesNone'
  <2> SUFFICES ASSUME NEW c \in Clients, NEW r \in Replicas, On(c, r)'
               PROVE  /\ hub'[r] = "dropped" => ~Joined(c)'
                      /\ sock'[c].at = "ghost" => hub'[r] \in {"closing", "dropped"}
    BY DEF ShutdownLeavesNone
  <2>0. On(c, r)
    BY <1>3
  <2>1. ASSUME hub'[r] = "dropped"
        PROVE  ~Joined(c)'
    <3>1. CASE hub[r] = "dropped"
      BY <1>1, <2>0, <3>1 DEF ShutdownLeavesNone, Stays, Hears, IsDropped, Joined
    <3> QED
      BY <2>0, <2>1, <3>1
  <2>2. ASSUME sock'[c].at = "ghost"
        PROVE  hub'[r] \in {"closing", "dropped"}
    <3>1. sock'[c] = sock[c] \/ IsDropped(c)
      BY DEF Stays, Hears
    <3>2. sock[c].at = "ghost"
      BY <2>2, <3>1 DEF IsDropped
    <3>3. hub[r] \in {"closing", "dropped"}
      BY <1>1, <2>0, <3>2 DEF ShutdownLeavesNone
    <3> QED
      BY <3>3
  <2> QED
    BY <2>1, <2>2
<1> QED
  BY <1>2, <1>4, <1>5 DEF RealtimeInv

\* u has all the elements of s.
Kept(s, u) == \A i \in DOMAIN s : \E j \in DOMAIN u : u[j] = s[i]

LEMMA AppendKeeps ==
  ASSUME NEW S, NEW s \in Seq(S), NEW e \in S, NEW u, u = s \/ u = Append(s, e)
  PROVE  /\ Kept(s, u)
         /\ u = Append(s, e) => \E j \in DOMAIN u : u[j] = e
         /\ \A i \in DOMAIN u : (i \in DOMAIN s /\ u[i] = s[i]) \/ u[i] = e
BY Appended DEF Kept

\* A change is told as long as its event gets no further.
LEMMA ToldStays ==
  ASSUME NEW c \in Clients, NEW n \in Versions, Told(c, n), sock'[c] = sock[c],
         UNCHANGED load,
         \A t \in Tasks : task[t] # Idle /\ task[t].topic = Topic(c) /\ task[t].n = n
           => task'[t] = task[t],
         listening'[sock[c].on] => listening[sock[c].on],
         Kept(inbox[sock[c].on], inbox'[sock[c].on]), Kept(out[c], out'[c])
  PROVE  Told(c, n)'
<1> DEFINE r == sock[c].on
<1>1. Topic(c)' = Topic(c) /\ sock'[c].on = r
  BY DEF Topic
<1>2. ASSUME NEW t \in Tasks, task[t] # Idle, task[t].topic = Topic(c), task[t].n = n
      PROVE  Told(c, n)'
  BY <1>1, <1>2 DEF Told
<1>3. CASE ~listening[r]
  BY <1>1, <1>3 DEF Told
<1>4. ASSUME NEW i \in DOMAIN inbox[r], Tells(inbox[r][i], c, n)
      PROVE  Told(c, n)'
  <2>1. PICK j \in DOMAIN inbox'[r] : inbox'[r][j] = inbox[r][i]
    BY DEF Kept
  <2>2. Tells(inbox'[r][j], c, n)
    BY <1>4, <2>1 DEF Tells, Topic
  <2> QED
    BY <1>1, <2>2 DEF Told
<1>5. ASSUME NEW i \in DOMAIN out[c], out[c][i] >= n
      PROVE  Told(c, n)'
  BY <1>5 DEF Told, Kept
<1>6. CASE c \in Pages /\ Reloads(c, n)
  BY <1>6 DEF Told, Reloads
<1> QED
  BY <1>2, <1>3, <1>4, <1>5, <1>6 DEF Told

\* A socket that a hub holds is on a running replica.
LEMMA HubRuns ==
  ASSUME RealtimeInv, NEW c \in Clients, Joined(c)
  PROVE  /\ sock[c] \in Conn /\ sock[c].on \in Replicas
         /\ On(c, sock[c].on) /\ Running(sock[c].on)
<1>1. sock[c] \in Conn /\ sock[c] \notin {Shut, Away}
  BY Connected DEF RealtimeInv
<1>2. sock[c].on \in Replicas /\ On(c, sock[c].on)
  BY <1>1 DEF Conn, On
<1> QED
  BY <1>1, <1>2 DEF RealtimeInv, HeldByRunning

LEMMA GatherKeeps ==
  ASSUME RealtimeInv, NEW t \in Tasks, GatherEnrollmentEventData(t)
  PROVE  RealtimeInv'
<1>0. /\ TypeOK /\ EventsCommitted /\ TypeOK'
      /\ task[t].at = "gather" /\ task[t] # Idle
      /\ UNCHANGED <<state, hub, listening, inbox, sock, out, opened, load, shows, gap>>
  <2>1. TypeOK /\ EventsCommitted /\ task[t].at = "gather"
        /\ UNCHANGED <<state, hub, listening, inbox, sock, out, opened, load, shows, gap>>
    BY DEF RealtimeInv, GatherEnrollmentEventData, client
  <2> QED
    BY <2>1, TypeStep, TaskFacts DEF Next, TaskStep
<1>1. /\ task[t].topic = "enrollment" /\ task[t].n = 1 /\ state["enrollment"] = 1
  BY <1>0, Decided DEF EventsCommitted, Topics
<1>2. /\ \A u \in Tasks \ {t} : task'[u] = task[u]
      /\ \/ /\ task'[t] # Idle /\ task'[t].topic = task[t].topic
            /\ task'[t].n = 1 /\ task'[t].at = "publish"
            /\ lost' = lost
         \/ Lose(t) /\ task'[t] = Idle
  <2>1. task \in [Tasks -> {Idle} \cup [at: {"gather", "publish"}, on: Replicas,
                                         topic: Topics, n: Versions]]
        /\ task[t] \in [at: {"gather", "publish"}, on: Replicas,
                         topic: Topics, n: Versions]
    BY <1>0, TaskFacts DEF TypeOK
  <2>2. \/ /\ task' = [task EXCEPT ![t].at = "publish", ![t].n = 1]
           /\ lost' = lost
        \/ Lose(t) /\ task' = [task EXCEPT ![t] = Idle]
    BY <1>1 DEF GatherEnrollmentEventData, Ends
  <2> QED
    BY <2>1, <2>2 DEF Idle
<1>3. EventsCommitted'
  BY <1>0, <1>1, <1>2 DEF EventsCommitted
<1>4. lost \subseteq lost'
  BY <1>2 DEF Lose
<1>5. ASSUME NEW c \in Clients, NEW n \in Versions, Owed(c, n)', Told(c, n)
      PROVE  Told(c, n)'
  <2>1. CASE task[t].topic = Topic(c) /\ task[t].n = n
    <3>1. task'[t] # Idle /\ task'[t].topic = task[t].topic /\ task'[t].n = 1
      BY <1>2, <1>5, <2>1 DEF Owed, Lose, Topic
    <3> QED
      BY <1>1, <2>1, <3>1 DEF Told, Topic
  <2>2. CASE ~(task[t].topic = Topic(c) /\ task[t].n = n)
    BY <1>0, <1>2, <1>5, <2>2, ToldStays DEF Kept
  <2> QED
    BY <2>1, <2>2
<1>6. \A c \in Clients : Stays(c)
  BY <1>0 DEF Stays
<1>7. \A r \in Replicas : Running(r) => Running(r)'
  BY <1>0 DEF Running
<1> QED
  BY <1>0, <1>3, <1>4, <1>5, <1>6, <1>7, SocketsMove

LEMMA PublishKeeps ==
  ASSUME RealtimeInv, NEW t \in Tasks, Publish(t)
  PROVE  RealtimeInv'
<1> DEFINE topic == task[t].topic
           m == task[t].n
<1>0. /\ TypeOK /\ EventsCommitted /\ TypeOK' /\ HeldByRunning
      /\ task[t].at = "publish" /\ task[t] # Idle /\ topic \in Topics /\ m \in Versions
      /\ UNCHANGED <<state, hub, listening, opened, load, shows, gap>>
      /\ task' = [task EXCEPT ![t] = Idle]
  <2>1. /\ TypeOK /\ EventsCommitted /\ task[t].at = "publish" /\ HeldByRunning
        /\ UNCHANGED <<state, hub, listening, gap>>
        /\ task' = [task EXCEPT ![t] = Idle]
    BY DEF RealtimeInv, Publish, Ends
  <2>2. task[t] # Idle /\ topic \in Topics /\ m \in Versions
    BY <2>1, TaskFacts
  <2>3. UNCHANGED <<opened, load, shows>>
    BY DEF Publish, client, Deliver
  <2> QED
    BY <2>1, <2>2, <2>3, TypeStep DEF Next, TaskStep
<1>1. m \in 1 .. state[topic] /\ state[topic] \in Nat
  BY <1>0, Decided DEF EventsCommitted
<1>2. \A u \in Tasks \ {t} : task'[u] = task[u]
  BY <1>0 DEF TypeOK
<1>3. task'[t] = Idle
  BY <1>0 DEF TypeOK
<1>4. \/ UNCHANGED <<sock, out>> /\ UNCHANGED lost /\ Notify(topic, m)
      \/ Deliver(topic, m, {task[t].on}) /\ Lose(t) /\ UNCHANGED inbox
      \/ Deliver(topic, m, {task[t].on}) /\ Notify(topic, m) /\ UNCHANGED lost
  BY DEF Publish, client
<1>5. /\ lost \subseteq lost'
      /\ \/ Notify(topic, m)
         \/ UNCHANGED inbox /\ [topic |-> topic, n |-> m] \in lost'
  BY <1>4 DEF Lose
<1>6. \A c \in Clients :
        Stays(c) \/ IsDropped(c) \/ (Hears(c, m) /\ Topic(c) = topic)
  <2>1. CASE UNCHANGED <<sock, out>>
    BY <2>1 DEF Stays
  <2>2. CASE Deliver(topic, m, {task[t].on})
    <3> HIDE DEF topic, m
    <3> QED
      BY <1>0, <2>2, DeliverFacts
  <2> QED
    BY <1>4, <2>1, <2>2
<1> HIDE DEF topic, m
<1>7. ASSUME NEW r \in Replicas
      PROVE  /\ Kept(inbox[r], inbox'[r])
             /\ Notify(topic, m) /\ Running(r) /\ listening[r] =>
                  \E j \in DOMAIN inbox'[r] : inbox'[r][j] = [topic |-> topic, n |-> m]
             /\ \A i \in DOMAIN inbox'[r] :
                  \/ i \in DOMAIN inbox[r] /\ inbox'[r][i] = inbox[r][i]
                  \/ inbox'[r][i] = [topic |-> topic, n |-> m]
  <2> DEFINE e == [topic |-> topic, n |-> m]
             Notes == Event \cup {Resync}
  <2>1. inbox[r] \in Seq(Notes) /\ e \in Notes
    BY <1>0 DEF TypeOK, Event
  <2>2. inbox'[r] = inbox[r] \/ inbox'[r] = Append(inbox[r], e)
    BY <1>0, <1>5, NotifyFacts
  <2>3. Notify(topic, m) /\ Running(r) /\ listening[r] => inbox'[r] = Append(inbox[r], e)
    BY <1>0, NotifyFacts
  <2> HIDE DEF e, Notes
  <2>4. /\ Kept(inbox[r], inbox'[r])
        /\ inbox'[r] = Append(inbox[r], e) => \E j \in DOMAIN inbox'[r] : inbox'[r][j] = e
        /\ \A i \in DOMAIN inbox'[r] :
             \/ i \in DOMAIN inbox[r] /\ inbox'[r][i] = inbox[r][i]
             \/ inbox'[r][i] = e
    BY <2>1, <2>2, AppendKeeps
  <2> QED
    BY <2>3, <2>4 DEF e
<1>8. EventsCommitted'
  <2>1. \A u \in Tasks : task'[u] # Idle =>
          /\ task'[u].n \in 1 .. state[task'[u].topic]
          /\ task'[u].at = "gather" => task'[u].topic = "enrollment"
    BY <1>0, <1>2, <1>3 DEF EventsCommitted
  <2>2. ASSUME NEW r \in Replicas, NEW i \in DOMAIN inbox'[r], inbox'[r][i] # Resync
        PROVE  inbox'[r][i].n \in 1 .. state[inbox'[r][i].topic]
    <3>1. CASE i \in DOMAIN inbox[r] /\ inbox'[r][i] = inbox[r][i]
      BY <1>0, <2>2, <3>1 DEF EventsCommitted
    <3>2. CASE inbox'[r][i] = [topic |-> topic, n |-> m]
      BY <1>1, <3>2
    <3> QED
      BY <1>7, <3>1, <3>2
  <2> QED
    BY <1>0, <2>1, <2>2 DEF EventsCommitted
<1>9. ASSUME NEW c \in Clients, NEW n \in Versions, Joined(c), sock'[c] = sock[c],
             Owed(c, n)', Told(c, n)
      PROVE  Told(c, n)'
  <2> DEFINE r == sock[c].on
  <2>1. r \in Replicas /\ Running(r)
    BY <1>9, HubRuns
  <2>2. CASE topic = Topic(c) /\ m = n
    <3>1. Notify(topic, m)
      BY <1>5, <1>9, <2>2 DEF Owed, Topic
    <3>2. CASE listening[r]
      <4>1. PICK j \in DOMAIN inbox'[r] : inbox'[r][j] = [topic |-> topic, n |-> m]
        BY <1>7, <2>1, <3>1, <3>2, Zenon
      <4>2. n \in Nat
        BY <1>0, Decided
      <4>3. Tells(inbox'[r][j], c, n)
        BY <2>2, <4>1, <4>2 DEF Tells
      <4> QED
        BY <1>9, <4>1, <4>3 DEF Told, Tells, Topic
    <3>3. CASE ~listening[r]
      BY <1>0, <1>9, <3>3 DEF Told
    <3> QED
      BY <3>2, <3>3
  <2>3. CASE ~(topic = Topic(c) /\ m = n)
    <3>1. Kept(out[c], out'[c])
      <4>1. out[c] \in Seq(Versions) /\ m \in Versions
        BY <1>0 DEF TypeOK
      <4>2. out'[c] = out[c] \/ out'[c] = Append(out[c], m)
        BY <1>6 DEF Stays, Hears, IsDropped
      <4> QED
        BY <4>1, <4>2, AppendKeeps
    <3>2. \A u \in Tasks : task[u] # Idle /\ task[u].topic = Topic(c) /\ task[u].n = n
            => task'[u] = task[u]
      BY <1>2, <2>3 DEF topic, m
    <3> QED
      BY <1>0, <1>7, <1>9, <2>1, <3>1, <3>2, ToldStays
  <2> QED
    BY <2>2, <2>3
<1>10. \A r \in Replicas : Running(r) => Running(r)'
  BY <1>0 DEF Running
<1>11. \A c \in Clients :
         \/ Stays(c) \/ IsDropped(c)
         \/ \E n \in Versions : n \in 1 .. state[Topic(c)] /\ Hears(c, n)
  BY <1>0, <1>1, <1>6
<1> QED
  BY <1>0, <1>5, <1>8, <1>9, <1>10, <1>11, SocketsMove

LEMMA ListenKeeps ==
  ASSUME RealtimeInv, NEW r \in Replicas, Listen(r)
  PROVE  RealtimeInv'
<1> DEFINE Notes == Event \cup {Resync}
           e == Head(inbox[r])
<1>0. /\ TypeOK /\ EventsCommitted /\ HeldByRunning
      /\ UNCHANGED <<state, task, lost, hub, listening, gap, opened, load, shows>>
      /\ inbox[r] # <<>> /\ inbox \in [Replicas -> Seq(Notes)]
      /\ inbox' = [inbox EXCEPT ![r] = Tail(@)]
  BY DEF RealtimeInv, TypeOK, Listen, DeliverEnvelope, Deliver
<1>t. TypeOK'
  BY <1>0, TypeStep DEF Next, ReplicaStep
<1> HIDE DEF Notes
<1>1. /\ e \in Notes
      /\ DOMAIN inbox[r] = 1 .. Len(inbox[r]) /\ Len(inbox[r]) \in Nat \ {0}
      /\ inbox[r][1] = e
      /\ DOMAIN inbox'[r] = 1 .. Len(inbox[r]) - 1
      /\ \A i \in 1 .. Len(inbox[r]) - 1 : inbox'[r][i] = inbox[r][i + 1]
  <2>1. inbox'[r] = Tail(inbox[r]) /\ inbox[r] \in Seq(Notes)
    BY <1>0
  <2> QED
    BY <1>0, <2>1, Tailed
<1>2. \A q \in Replicas \ {r} : inbox'[q] = inbox[q]
  BY <1>0
<1> HIDE DEF e
<1>3. \A i \in DOMAIN inbox[r] : inbox[r][i] = e \/ \E j \in DOMAIN inbox'[r] : inbox'[r][j] = inbox[r][i]
  <2> SUFFICES ASSUME NEW i \in DOMAIN inbox[r], i # 1
               PROVE  \E j \in DOMAIN inbox'[r] : inbox'[r][j] = inbox[r][i]
    BY <1>1
  <2>1. i - 1 \in 1 .. Len(inbox[r]) - 1 /\ (i - 1) + 1 = i
    BY <1>1
  <2> QED
    BY <1>1, <2>1
<1>4. \A j \in DOMAIN inbox'[r] : \E i \in DOMAIN inbox[r] : inbox'[r][j] = inbox[r][i]
  <2> SUFFICES ASSUME NEW j \in DOMAIN inbox'[r]
               PROVE  inbox'[r][j] = inbox[r][j + 1] /\ j + 1 \in DOMAIN inbox[r]
    OBVIOUS
  <2> QED
    BY <1>1
<1>5. EventsCommitted'
  <2>1. ASSUME NEW q \in Replicas, NEW j \in DOMAIN inbox'[q], inbox'[q][j] # Resync
        PROVE  inbox'[q][j].n \in 1 .. state[inbox'[q][j].topic]
    <3>1. CASE q = r
      BY <1>0, <1>4, <2>1, <3>1 DEF EventsCommitted
    <3>2. CASE q # r
      BY <1>0, <1>2, <2>1, <3>2 DEF EventsCommitted
    <3> QED
      BY <3>1, <3>2
  <2> QED
    BY <1>0, <2>1 DEF EventsCommitted
<1>6. e # Resync => /\ e.topic \in Topics /\ e.n \in Versions
                    /\ e.n \in 1 .. state[e.topic]
  <2>1. e # Resync => e \in Event
    BY <1>1 DEF Notes
  <2>2. e # Resync => e.n \in 1 .. state[e.topic]
    <3>1. 1 \in DOMAIN inbox[r] /\ inbox[r][1] = e
      BY <1>1
    <3> QED
      BY <1>0, <3>1 DEF EventsCommitted
  <2> QED
    BY <2>1, <2>2 DEF Event
<1>7. ASSUME NEW c \in Clients
      PROVE  IF e = Resync
               THEN IF On(c, r) /\ Joined(c) THEN IsDropped(c) ELSE Stays(c)
               ELSE \/ Stays(c) /\ ~(Joined(c) /\ Topic(c) = e.topic /\ sock[c].on = r)
                    \/ Hears(c, e.n) /\ Topic(c) = e.topic
                    \/ IsDropped(c)
  <2>1. CASE e = Resync
    <3>1. sock' = Dropped({d \in Clients : On(d, r)}) /\ UNCHANGED out
      BY <2>1 DEF Listen, e
    <3>2. TypeOK /\ {d \in Clients : On(d, r)} \in SUBSET Clients
      BY <1>0
    <3>3. IF On(c, r) /\ Joined(c)
            THEN sock'[c] = [at |-> "closed", on |-> sock[c].on, read |-> sock[c].read]
            ELSE sock'[c] = sock[c]
      BY <3>1, <3>2, DroppedFacts
    <3> QED
      BY <2>1, <3>1, <3>3 DEF IsDropped, Stays
  <2>2. CASE e # Resync
    <3>1. Deliver(e.topic, e.n, {r})
      BY <2>2 DEF Listen, DeliverEnvelope, e
    <3> QED
      BY <1>0, <1>6, <2>2, <3>1, DeliverFacts
  <2> QED
    BY <2>1, <2>2
<1>8. ASSUME NEW c \in Clients, NEW n \in Versions, Joined(c), sock'[c] = sock[c],
             Told(c, n)
      PROVE  Told(c, n)'
  <2> DEFINE q == sock[c].on
  <2>0. q \in Replicas /\ On(c, q) /\ out[c] \in Seq(Versions) /\ n \in Nat
    BY <1>0, <1>8, HubRuns, Decided DEF TypeOK
  <2>1. CASE q = r /\ e = Resync
    <3>1. IsDropped(c)
      BY <1>7, <1>8, <2>0, <2>1
    <3>2. sock'[c].at = "closed"
      BY <3>1 DEF IsDropped
    <3> QED
      BY <1>8, <3>2 DEF Joined
  <2>2. CASE q = r /\ e # Resync /\ Tells(e, c, n)
    <3>1. Topic(c) = e.topic /\ e.n >= n
      BY <2>2 DEF Tells
    <3>2. Hears(c, e.n)
      <4>1. ~IsDropped(c)
        BY <1>8 DEF IsDropped, Joined
      <4> QED
        BY <1>7, <1>8, <2>2, <3>1, <4>1
    <3>3. \E j \in DOMAIN out'[c] : out'[c][j] = e.n
      BY <1>6, <2>0, <2>2, <3>2, AppendKeeps DEF Hears
    <3> QED
      BY <3>1, <3>3 DEF Told
  <2>3. CASE q # r \/ (e # Resync /\ ~Tells(e, c, n))
    <3>1. out'[c] = out[c] \/ (e.n \in Versions /\ out'[c] = Append(out[c], e.n))
      <4>1. CASE e = Resync
        BY <1>7, <4>1 DEF Stays, IsDropped
      <4>2. CASE e # Resync
        BY <1>6, <1>7, <4>2 DEF Stays, Hears, IsDropped
      <4> QED
        BY <4>1, <4>2
    <3>2. Kept(out[c], out'[c])
      <4>1. CASE out'[c] = out[c]
        BY <4>1 DEF Kept
      <4> QED
        BY <2>0, <3>1, <4>1, AppendKeeps
    <3>3. ASSUME NEW i \in DOMAIN inbox[q], Tells(inbox[q][i], c, n)
          PROVE  \E j \in DOMAIN inbox'[q] : inbox'[q][j] = inbox[q][i]
      <4>1. CASE q = r
        BY <1>3, <2>3, <3>3, <4>1
      <4>2. CASE q # r
        BY <1>2, <2>0, <4>2
      <4> QED
        BY <4>1, <4>2
    <3>4. CASE \E i \in DOMAIN inbox[q] : Tells(inbox[q][i], c, n)
      <4>1. \E j \in DOMAIN inbox'[q] : Tells(inbox'[q][j], c, n)
        BY <3>3, <3>4
      <4> QED
        BY <1>8, <4>1 DEF Told, Tells, Topic
    <3>5. CASE ~\E i \in DOMAIN inbox[q] : Tells(inbox[q][i], c, n)
      BY <1>0, <1>8, <3>2, <3>5 DEF Told, Kept, Reloads, Topic
    <3> QED
      BY <3>4, <3>5
  <2> QED
    BY <2>1, <2>2, <2>3
<1>9. \A c \in Clients :
         \/ Stays(c) \/ IsDropped(c)
         \/ \E n \in Versions : n \in 1 .. state[Topic(c)] /\ Hears(c, n)
  BY <1>6, <1>7
<1>10. \A q \in Replicas : Running(q) => Running(q)'
  BY <1>0 DEF Running
<1> QED
  BY <1>0, <1>t, <1>5, <1>8, <1>9, <1>10, SocketsMove

\* The listener's connection goes and comes; after that the sockets will be
\* closed.
LEMMA ListenerKeeps ==
  ASSUME RealtimeInv, NEW r \in Replicas,
         ListenerLost(r) \/ ListenerBack(r) \/ Start(r)
  PROVE  RealtimeInv'
<1> DEFINE Notes == Event \cup {Resync}
<1>0. /\ TypeOK /\ EventsCommitted /\ HeldByRunning
      /\ UNCHANGED <<state, task, lost, sock, out, opened, load, shows, gap>>
      /\ listening \in [Replicas -> BOOLEAN] /\ hub \in [Replicas -> Hub]
      /\ inbox \in [Replicas -> Seq(Notes)] /\ Resync \in Notes
  BY DEF RealtimeInv, TypeOK, ListenerLost, ListenerBack, Start, client
<1>t. TypeOK'
  BY <1>0, TypeStep DEF Next, ReplicaStep
<1> HIDE DEF Notes
<1>1. \A c \in Clients : Stays(c)
  BY <1>0 DEF Stays
<1>2. \A q \in Replicas :
        /\ Running(q) => Running(q)'
        /\ hub'[q] = "dropped" => hub[q] = "dropped"
        /\ hub[q] \in {"closing", "dropped"} => hub'[q] \in {"closing", "dropped"}
  BY <1>0 DEF ListenerLost, ListenerBack, Start, Running, Hub
<1>3. ASSUME NEW q \in Replicas
      PROVE  /\ Kept(inbox[q], inbox'[q])
             /\ \A j \in DOMAIN inbox'[q] : \/ j \in DOMAIN inbox[q] /\ inbox'[q][j] = inbox[q][j]
                                            \/ inbox'[q][j] = Resync
  <2>1. inbox[q] \in Seq(Notes) /\ Resync \in Notes
    BY <1>0
  <2>2. inbox'[q] = inbox[q] \/ inbox'[q] = Append(inbox[q], Resync)
    BY <1>0 DEF ListenerLost, ListenerBack, Start
  <2> QED
    BY <2>1, <2>2, AppendKeeps
<1>4. EventsCommitted'
  BY <1>0, <1>3 DEF EventsCommitted
<1>5. ASSUME NEW c \in Clients, NEW n \in Versions, Joined(c), Told(c, n)
      PROVE  Told(c, n)'
  <2> DEFINE q == sock[c].on
  <2>1. q \in Replicas /\ Running(q)
    BY <1>5, HubRuns
  <2>2. CASE listening'[q] => listening[q]
    BY <1>0, <1>3, <1>5, <2>1, <2>2, ToldStays DEF Kept
  <2>3. CASE ~(listening'[q] => listening[q])
    <3>1. ListenerBack(r) /\ q = r
      BY <1>0, <2>1, <2>3 DEF ListenerLost, ListenerBack, Start, Running
    <3>2. inbox'[q] = Append(inbox[q], Resync) /\ inbox[q] \in Seq(Notes)
            /\ Resync \in Notes
      BY <1>0, <2>1, <3>1 DEF ListenerBack
    <3>3. /\ inbox'[q][Len(inbox[q]) + 1] = Resync /\ Len(inbox[q]) \in Nat
          /\ DOMAIN inbox'[q] = 1 .. Len(inbox[q]) + 1
      BY <3>2, Appended
    <3>4. \E j \in DOMAIN inbox'[q] : inbox'[q][j] = Resync
      BY <3>3
    <3> QED
      BY <1>0, <3>4 DEF Told, Tells
  <2> QED
    BY <2>2, <2>3
<1> QED
  BY <1>0, <1>t, <1>1, <1>2, <1>4, <1>5, SocketsMove

\* A hub that has dropped its sockets holds none.
LEMMA ShutdownKeeps ==
  ASSUME RealtimeInv, NEW r \in Replicas, Shutdown(r)
  PROVE  RealtimeInv'
<1>0. /\ TypeOK /\ EventsCommitted /\ hub \in [Replicas -> Hub]
      /\ UNCHANGED <<state, task, lost, listening, inbox, out, opened, load,
                     shows, gap>>
  BY DEF RealtimeInv, TypeOK, Shutdown
<1>t. TypeOK'
  BY <1>0, TypeStep DEF Next, ReplicaStep
<1>1. EventsCommitted'
  BY <1>0 DEF EventsCommitted
<1>2. \/ /\ UNCHANGED sock
         /\ hub' = [hub EXCEPT ![r] = "closing"] /\ hub[r] = "open"
      \/ /\ sock' = Dropped({c \in Clients : On(c, r)})
         /\ hub' = [hub EXCEPT ![r] = "dropped"] /\ hub[r] = "closing"
  BY DEF Shutdown
<1>3. \A q \in Replicas :
        /\ Running(q) => Running(q)'
        /\ q # r => hub'[q] = hub[q]
        /\ hub[q] \in {"closing", "dropped"} => hub'[q] \in {"closing", "dropped"}
  BY <1>0, <1>2 DEF Running
<1>4. ASSUME NEW c \in Clients
      PROVE  /\ Stays(c) \/ IsDropped(c)
             /\ hub'[r] = "dropped" /\ On(c, r) => ~Joined(c)'
  <2>1. CASE UNCHANGED sock /\ hub' = [hub EXCEPT ![r] = "closing"]
    BY <1>0, <2>1 DEF Stays
  <2>2. CASE sock' = Dropped({d \in Clients : On(d, r)})
    <3>1. TypeOK /\ {d \in Clients : On(d, r)} \in SUBSET Clients
      BY <1>0
    <3>2. IF On(c, r) /\ Joined(c)
            THEN sock'[c] = [at |-> "closed", on |-> sock[c].on, read |-> sock[c].read]
            ELSE sock'[c] = sock[c]
      BY <2>2, <3>1, DroppedFacts
    <3> QED
      BY <1>0, <3>2 DEF IsDropped, Stays, Joined
  <2> QED
    BY <1>2, <2>1, <2>2
<1>5. ASSUME NEW c \in Clients, NEW n \in Versions, sock'[c] = sock[c], Told(c, n)
      PROVE  Told(c, n)'
  BY <1>0, <1>5, ToldStays DEF Kept
<1> QED
  BY <1>0, <1>t, <1>1, <1>3, <1>4, <1>5, SocketsMove

\* With the process of a replica go its requests, whose events are lost, and its
\* sockets.
LEMMA ExitKeeps ==
  ASSUME RealtimeInv, NEW r \in Replicas, Exit(r)
  PROVE  RealtimeInv'
<1> DEFINE cut == {t \in Tasks : task[t] # Idle /\ task[t].on = r}
<1>0. /\ TypeOK /\ EventsCommitted /\ HeldByRunning /\ ShutdownLeavesNone
      /\ UNCHANGED <<state, listening, opened, load, shows, gap>>
      /\ hub' = [hub EXCEPT ![r] = "gone"] /\ hub \in [Replicas -> Hub]
      /\ inbox' = [inbox EXCEPT ![r] = <<>>]
      /\ inbox \in [Replicas -> Seq(Event \cup {Resync})]
      /\ lost' = lost \cup {[topic |-> task[t].topic, n |-> task[t].n] : t \in cut}
      /\ \A t \in Tasks : task'[t] = IF t \in cut THEN Idle ELSE task[t]
      /\ \A c \in Clients : /\ sock'[c] = IF On(c, r) THEN Away ELSE sock[c]
                            /\ out'[c] = IF On(c, r) THEN <<>> ELSE out[c]
  BY DEF RealtimeInv, TypeOK, Exit
<1>t. TypeOK'
  BY <1>0, TypeStep DEF Next, ReplicaStep
<1>1. EventsCommitted'
  BY <1>0 DEF EventsCommitted
<1>2. \A c \in Clients, q \in Replicas : On(c, q)' => On(c, q) /\ q # r /\ sock'[c] = sock[c]
  BY <1>0 DEF On, Shut, Away
<1>3. HeldByRunning' /\ ShutdownLeavesNone'
  BY <1>0, <1>2 DEF HeldByRunning, ShutdownLeavesNone, Running, Joined
<1>4. ASSUME NEW c \in Clients, On(c, r)
      PROVE  ClientKnows(c)'
  <2>1. ClientKnows(c) /\ sock[c] \notin {Shut, Away}
    BY <1>4 DEF RealtimeInv, On
  <2>2. sock'[c] = Away /\ out'[c] = <<>> /\ sock'[c].at = "away" /\ ~Joined(c)'
    BY <1>0, <1>4 DEF Away, Joined
  <2>3. sock'[c] \notin Conn
    BY <2>2 DEF Conn
  <2>4. ShowsCommitted(c)'
    BY <1>0, <2>1, <2>2, <2>3 DEF ClientKnows, ShowsCommitted, Topic
  <2>5. c \in Pages => PageKnows(c)'
    BY <1>0, <2>1, <2>2 DEF ClientKnows, PageKnows
  <2>6. c \in Watchers => WatcherKnows(c)'
    BY <2>2 DEF WatcherKnows
  <2> QED
    BY <2>4, <2>5, <2>6 DEF ClientKnows
<1>5. ASSUME NEW c \in Clients, ~On(c, r)
      PROVE  ClientKnows(c)'
  <2>1. Stays(c) /\ lost \subseteq lost'
    BY <1>0, <1>5 DEF Stays
  <2>2. ASSUME NEW n \in Versions, Joined(c), Owed(c, n)', Told(c, n)
        PROVE  Told(c, n)'
    <3> DEFINE q == sock[c].on
    <3>1. q \in Replicas /\ q # r
      BY <1>5, <2>2, HubRuns
    <3>2. \A t \in Tasks : task[t] # Idle /\ task[t].topic = Topic(c) /\ task[t].n = n
            => task'[t] = task[t]
      BY <1>0, <2>2 DEF Owed, Topic
    <3> QED
      BY <1>0, <2>1, <2>2, <3>1, <3>2, ToldStays DEF Kept, Stays
  <2> QED
    BY <1>0, <2>1, <2>2, KnowsOn
<1> QED
  BY <1>t, <1>1, <1>3, <1>4, <1>5 DEF RealtimeInv

\* A change is told by its request, unless the client was just connecting.
LEMMA ChangeKeeps ==
  ASSUME RealtimeInv, NEW t \in Tasks, NEW r \in Replicas, NEW topic \in Topics,
         Change(t, r, topic)
  PROVE  RealtimeInv'
<1>m. PICK m : m = state[topic] + 1
  OBVIOUS
<1> DEFINE Deaf(c) == \/ sock[c] = Away /\ c \in Pages /\ ~opened[c]
                      \/ sock[c].at = "upgraded"
                      \/ sock[c].at = "added" /\ c \in Watchers
<1>0. /\ TypeOK /\ EventsCommitted /\ HeldByRunning /\ ShutdownLeavesNone
      /\ task[t] = Idle
      /\ UNCHANGED <<lost, hub, listening, inbox, sock, out, opened, load, shows>>
      /\ state[topic] \in Nat /\ state \in [Topics -> Nat]
      /\ \A u \in Topics : state'[u] = IF u = topic THEN m ELSE state[u]
      /\ task' = [task EXCEPT ![t] =
          [at |-> IF topic = "sent" THEN "publish" ELSE "gather",
           on |-> r, topic |-> topic, n |-> m]]
      /\ \A c \in Clients : gap'[c] =
          IF Topic(c) = topic /\ Deaf(c) THEN gap[c] \cup {m} ELSE gap[c]
  BY <1>m DEF RealtimeInv, TypeOK, Change, client
<1>t. TypeOK'
  BY TypeStep DEF Next, RealtimeInv
<1>1. /\ task'[t].at = IF topic = "sent" THEN "publish" ELSE "gather"
      /\ task'[t].topic = topic /\ task'[t].n = m /\ task'[t] # Idle
      /\ \A u \in Tasks \ {t} : task'[u] = task[u]
  BY <1>0 DEF TypeOK, Idle
<1> HIDE DEF Deaf
<1>2. EventsCommitted'
  <2>1. ASSUME NEW u \in Tasks, task'[u] # Idle
        PROVE  /\ task'[u].n \in 1 .. state'[task'[u].topic]
               /\ task'[u].at = "gather" => task'[u].topic = "enrollment"
    <3>1. CASE u = t
      BY <1>0, <1>m, <1>1, <3>1 DEF Topics
    <3>2. CASE u # t
      <4>1. /\ task[u].n \in 1 .. state[task[u].topic] /\ task[u].topic \in Topics
            /\ task[u].at = "gather" => task[u].topic = "enrollment"
        BY <1>0, <1>m, <1>1, <2>1, <3>2 DEF EventsCommitted, TypeOK
      <4> QED
        BY <1>0, <1>m, <1>1, <3>2, <4>1
    <3> QED
      BY <3>1, <3>2
  <2>2. ASSUME NEW q \in Replicas, NEW i \in DOMAIN inbox[q], inbox[q][i] # Resync
        PROVE  inbox[q][i].n \in 1 .. state'[inbox[q][i].topic]
    <3>1. /\ inbox[q][i].n \in 1 .. state[inbox[q][i].topic]
          /\ inbox[q][i].topic \in Topics
      <4>1. inbox[q][i] \in Event
        BY <1>0, <1>m, <2>2 DEF TypeOK
      <4> QED
        BY <1>0, <1>m, <2>2, <4>1 DEF EventsCommitted, Event
    <3> QED
      BY <1>0, <1>m, <3>1
  <2> QED
    BY <1>0, <1>m, <2>1, <2>2 DEF EventsCommitted
<1>3. HeldByRunning' /\ ShutdownLeavesNone'
  BY <1>0 DEF HeldByRunning, ShutdownLeavesNone, On, Running, Joined
<1>4. ASSUME NEW c \in Clients
      PROVE  ClientKnows(c)'
  <2>0. /\ ClientKnows(c) /\ Topic(c) \in Topics /\ Topic(c)' = Topic(c)
        /\ state[Topic(c)] \in Nat /\ state[Topic(c)] <= state'[Topic(c)]
        /\ state["sent"] <= state'["sent"] /\ state["enrollment"] <= state'["enrollment"]
        /\ state["sent"] \in Nat /\ state["enrollment"] \in Nat
    <3>1. ClientKnows(c) /\ Topic(c) \in Topics /\ Topic(c)' = Topic(c)
      BY DEF RealtimeInv, Topic, Topics
    <3>2. \A u \in Topics : state[u] \in Nat /\ state[u] <= state'[u]
      BY <1>0, <1>m
    <3> QED
      BY <3>1, <3>2 DEF Topics
  <2>1. ShowsCommitted(c)'
    <3>1. ShowsCommitted(c) /\ TypeOK
      BY <1>0, <1>m, <2>0 DEF ClientKnows
    <3> QED
      <4>1. /\ shows[c] \in Nat /\ shows[c] <= state[Topic(c)]
            /\ \A i \in DOMAIN out[c] : out[c][i] \in Nat /\ out[c][i] <= state[Topic(c)]
            /\ c \in Watchers /\ sock[c] \in Conn =>
                 sock[c].read \in Nat /\ sock[c].read <= state["enrollment"]
            /\ c \in Pages /\ load[c].at = "answered" =>
                 /\ load[c].n \in Nat /\ load[c].n <= state["sent"]
                 /\ shows[c] <= load[c].n
            /\ sock[c].at \in {"shut", "away", "upgraded", "ghost"} => out[c] = <<>>
        BY <3>1, ClientTypes DEF ShowsCommitted
      <4>2. /\ \A k \in Nat : k <= state[Topic(c)] => k <= state'[Topic(c)]
            /\ \A k \in Nat : k <= state["sent"] => k <= state'["sent"]
            /\ \A k \in Nat : k <= state["enrollment"] => k <= state'["enrollment"]
        BY <1>t, <2>0 DEF TypeOK, Topics
      <4> QED
        BY <1>0, <2>0, <4>1, <4>2 DEF ShowsCommitted
  <2>2. ASSUME NEW n \in Versions, Owed(c, n)'
        PROVE  Owed(c, n) \/ (n = m /\ Topic(c) = topic /\ ~Deaf(c))
    <3>1. /\ n <= state'[Topic(c)] /\ n \notin gap'[c] /\ n \in Nat
          /\ [topic |-> Topic(c), n |-> n] \notin lost
      BY <1>0, <1>m, <2>0, <2>2, Decided DEF Owed
    <3>2. CASE n <= state[Topic(c)]
      BY <1>0, <1>m, <3>1, <3>2 DEF Owed
    <3>3. CASE ~(n <= state[Topic(c)])
      <4>1. Topic(c) = topic /\ n = m
        BY <1>0, <1>m, <2>0, <3>1, <3>3
      <4> QED
        BY <1>0, <1>m, <3>1, <4>1
    <3> QED
      BY <3>2, <3>3
  <2>3. ASSUME NEW n \in Versions, Told(c, n)
        PROVE  Told(c, n)'
    <3>1. \A u \in Tasks : task[u] # Idle => task'[u] = task[u]
      BY <1>0, <1>m, <1>1
    <3> QED
      BY <1>0, <1>m, <2>3, <3>1, ToldStays DEF Kept
  <2>4. Topic(c) = topic => Told(c, m)'
    BY <1>1 DEF Told, Topic
  <2>5. ASSUME c \in Pages
        PROVE  PageKnows(c)'
    <3>1. PageKnows(c) /\ Topic(c) = "sent"
      BY <2>0, <2>5 DEF ClientKnows, Topic
    <3>2. CASE opened[c]
      <4> SUFFICES ASSUME NEW n \in Versions, Owed(c, n)', shows[c] < n
                   PROVE  /\ sock[c].at = "upgraded" => Reloads(c, n)
                          /\ Joined(c) => Told(c, n)'
        BY <1>0, <1>m, <3>2 DEF PageKnows, Reloads, Joined
      <4>1. CASE Owed(c, n)
        BY <2>3, <3>1, <3>2, <4>1 DEF PageKnows
      <4>2. CASE n = m /\ Topic(c) = topic /\ ~Deaf(c)
        BY <2>4, <4>2 DEF Deaf
      <4> QED
        BY <2>2, <4>1, <4>2
    <3>3. CASE ~opened[c]
      <4>1. /\ sock[c] \in {Shut, Away}
            /\ sock[c] = Away => 1 .. state["sent"] \subseteq gap[c]
        BY <3>1, <3>3 DEF PageKnows
      <4>2. sock[c] = Away => 1 .. state'["sent"] \subseteq gap'[c]
        <5> SUFFICES ASSUME sock[c] = Away, NEW n \in 1 .. state'["sent"]
                     PROVE  n \in gap'[c]
          OBVIOUS
        <5>1. 1 .. state["sent"] \subseteq gap[c] /\ Deaf(c)
          BY <2>5, <3>3, <4>1 DEF Deaf
        <5>2. CASE n \in 1 .. state["sent"]
          BY <1>0, <1>m, <5>1, <5>2
        <5>3. CASE n \notin 1 .. state["sent"]
          <6>1. topic = "sent" /\ n = m
            BY <1>0, <1>m, <2>0, <5>3 DEF Topics
          <6> QED
            BY <1>0, <1>m, <3>1, <5>1, <6>1
        <5> QED
          BY <5>2, <5>3
      <4> QED
        BY <1>0, <1>m, <3>3, <4>1, <4>2 DEF PageKnows
    <3> QED
      BY <3>2, <3>3
  <2>6. ASSUME c \in Watchers
        PROVE  WatcherKnows(c)'
    <3>1. WatcherKnows(c)
      BY <2>0, <2>6 DEF ClientKnows
    <3>2. ASSUME NEW n \in Versions, Owed(c, n)'
          PROVE  /\ sock[c].at \in {"upgraded", "added"} => sock[c].read >= n
                 /\ sock[c].at = "served" =>
                      /\ shows[c] < n => Told(c, n)'
                      /\ \A i \in DOMAIN out[c] : out[c][i] < n =>
                           shows[c] < n /\ \A j \in 1 .. i : out[c][j] < n
      <4>1. CASE Owed(c, n)
        BY <2>3, <3>1, <4>1 DEF WatcherKnows
      <4>2. CASE n = m /\ Topic(c) = topic /\ ~Deaf(c)
        <5>1. sock[c].at \notin {"upgraded", "added"}
          BY <2>6, <4>2 DEF Deaf
        <5>2. /\ shows[c] <= state[topic] /\ shows[c] \in Nat
              /\ out[c] \in Seq(Versions)
              /\ \A i \in DOMAIN out[c] : out[c][i] <= state[topic] /\ out[c][i] \in Nat
          BY <1>0, <1>m, <2>0, <4>2, Decided DEF ClientKnows, ShowsCommitted, TypeOK
        <5>3. shows[c] < n /\ \A i \in DOMAIN out[c] : out[c][i] < n
          BY <1>0, <1>m, <4>2, <5>2
        <5>4. \A i \in DOMAIN out[c] : \A j \in 1 .. i : j \in DOMAIN out[c]
          BY <5>2
        <5>5. Told(c, n)'
          BY <2>4, <4>2
        <5> QED
          BY <5>1, <5>3, <5>4, <5>5
      <4> QED
        BY <2>2, <3>2, <4>1, <4>2
    <3> QED
      BY <1>0, <1>m, <3>1, <3>2 DEF WatcherKnows
  <2> QED
    BY <2>1, <2>5, <2>6 DEF ClientKnows
<1> QED
  BY <1>t, <1>2, <1>3, <1>4 DEF RealtimeInv

\* A step of one client leaves what the others know.
LEMMA OneClient ==
  ASSUME RealtimeInv, TypeOK', NEW c \in Clients, ClientKnows(c)',
         UNCHANGED <<state, task, lost, hub, listening, inbox, gap>>,
         \A d \in Clients \ {c} :
           sock'[d] = sock[d] /\ out'[d] = out[d] /\ shows'[d] = shows[d],
         \A p \in Pages \ {c} : load'[p] = load[p] /\ opened'[p] = opened[p],
         \A r \in Replicas : On(c, r)' =>
           /\ On(c, r) \/ Running(r)
           /\ Joined(c)' => (On(c, r) /\ Joined(c)) \/ hub[r] # "dropped"
           /\ sock'[c].at = "ghost" =>
                \/ On(c, r) /\ sock[c].at = "ghost"
                \/ hub[r] \in {"closing", "dropped"}
  PROVE  RealtimeInv'
<1>0. EventsCommitted /\ HeldByRunning /\ ShutdownLeavesNone
      /\ UNCHANGED <<state, task, lost, hub, listening, inbox, gap>>
  BY DEF RealtimeInv
<1>1. EventsCommitted'
  BY <1>0 DEF EventsCommitted
<1>2. HeldByRunning' /\ ShutdownLeavesNone'
  BY <1>0 DEF HeldByRunning, ShutdownLeavesNone, Running, On, Joined
<1>3. ASSUME NEW d \in Clients \ {c}
      PROVE  ClientKnows(d)'
  <2>1. ClientKnows(d) /\ sock'[d] = sock[d] /\ out'[d] = out[d] /\ shows'[d] = shows[d]
    BY DEF RealtimeInv
  <2>2. d \in Pages => load'[d] = load[d] /\ opened'[d] = opened[d]
    OBVIOUS
  <2>3. \A n \in Versions : /\ Owed(d, n)' <=> Owed(d, n)
                            /\ Told(d, n) => Told(d, n)'
                            /\ d \in Pages /\ Reloads(d, n) => Reloads(d, n)'
    BY <1>0, <2>1, <2>2 DEF Owed, Told, Reloads, Topic, Tells
  <2>4. ShowsCommitted(d)'
    BY <1>0, <2>1, <2>2 DEF ClientKnows, ShowsCommitted, Topic
  <2>5. d \in Pages => PageKnows(d)'
    BY <1>0, <2>1, <2>2, <2>3 DEF ClientKnows, PageKnows, Joined
  <2>6. d \in Watchers => WatcherKnows(d)'
    BY <2>1, <2>3 DEF ClientKnows, WatcherKnows
  <2> QED
    BY <2>4, <2>5, <2>6 DEF ClientKnows
<1> QED
  BY <1>1, <1>2, <1>3 DEF RealtimeInv

\* A page that connects again asks for its list; a watcher's handler has read all
\* there is.
LEMMA UpgradeKeeps ==
  ASSUME RealtimeInv, NEW c \in Clients, NEW r \in Replicas, Upgrade(c, r)
  PROVE  RealtimeInv'
<1>0. /\ TypeOK /\ ClientKnows(c)
      /\ UNCHANGED <<state, task, lost, hub, listening, inbox, out, shows, gap>>
      /\ sock[c] = Away /\ Running(r)
      /\ sock' = [sock EXCEPT ![c] = [at |-> "upgraded", on |-> r, read |-> ReadFirst(c)]]
      /\ sock \in [Clients -> {Shut, Away} \cup Conn]
  BY DEF RealtimeInv, Upgrade, Opens, TypeOK
<1>t. TypeOK'
  BY <1>0, TypeStep DEF Next
<1>1. /\ sock'[c] = [at |-> "upgraded", on |-> r, read |-> ReadFirst(c)]
      /\ \A d \in Clients \ {c} : sock'[d] = sock[d]
  BY <1>0
<1>2. /\ c \in Pages => /\ opened'[c]
                        /\ load'[c] = IF opened[c] THEN Asked ELSE load[c]
      /\ \A p \in Pages \ {c} : load'[p] = load[p] /\ opened'[p] = opened[p]
  <2>1. /\ opened \in [Pages -> BOOLEAN]
        /\ load \in [Pages -> {Quiet, Asked} \cup [at: {"answered"}, n: Versions]]
    BY <1>0 DEF TypeOK
  <2>2. CASE c \in Pages
    BY <2>1, <2>2 DEF Upgrade, Opens
  <2>3. CASE c \notin Pages
    BY <2>3 DEF Upgrade, Opens
  <2> QED
    BY <2>2, <2>3
<1>3. sock'[c].at = "upgraded" /\ ~Joined(c)' /\ out'[c] = <<>>
  BY <1>0, <1>1 DEF Joined, ClientKnows, ShowsCommitted, Away
<1>4. /\ \A n \in Versions : Owed(c, n)' <=> Owed(c, n)
      /\ \A n \in Versions : Owed(c, n) => n <= state[Topic(c)] /\ n \in Nat
      /\ Topic(c)' = Topic(c)
  BY <1>0, Decided DEF Owed, Topic
<1>5. ShowsCommitted(c)'
  <2>1. c \in Watchers => sock'[c].read <= state'["enrollment"]
    BY <1>0, <1>1, Decided DEF ReadFirst, Topics
  <2>2. c \in Pages /\ load'[c].at = "answered" =>
          load[c].at = "answered" /\ load'[c] = load[c]
    BY <1>2 DEF Asked
  <2> QED
    BY <1>0, <1>3, <1>4, <2>1, <2>2 DEF ClientKnows, ShowsCommitted
<1>6. ASSUME c \in Pages
      PROVE  PageKnows(c)'
  <2>1. CASE opened[c]
    BY <1>2, <1>3, <1>6, <2>1 DEF PageKnows, Reloads
  <2>2. CASE ~opened[c]
    <3>1. 1 .. state["sent"] \subseteq gap[c] /\ Topic(c) = "sent"
      BY <1>0, <1>6, <2>2 DEF ClientKnows, PageKnows, Topic
    <3>2. \A n \in Versions : Owed(c, n)' => n = 0
      <4> SUFFICES ASSUME NEW n \in Versions, Owed(c, n), n # 0
                   PROVE  FALSE
        BY <1>4
      <4>1. n \in 1 .. state["sent"]
        BY <1>4, <3>1, <1>0, Decided DEF Topics
      <4> QED
        BY <3>1, <4>1 DEF Owed
    <3>3. ~(shows'[c] < 0)
      BY <1>0, ClientTypes
    <3> QED
      BY <1>2, <1>6, <3>2, <3>3 DEF PageKnows
  <2> QED
    BY <2>1, <2>2
<1>7. ASSUME c \in Watchers
      PROVE  WatcherKnows(c)'
  <2>1. Topic(c) = "enrollment" /\ sock'[c].read = state["enrollment"]
    BY <1>1, <1>7, ClientsAssumption DEF Topic, ReadFirst
  <2> QED
    BY <1>0, <1>3, <1>4, <2>1, Decided DEF WatcherKnows, Topics
<1>8. ASSUME NEW q \in Replicas, On(c, q)'
      PROVE  Running(q) /\ sock'[c].at # "ghost"
  BY <1>0, <1>1, <1>3, <1>8 DEF On
<1> QED
  BY <1>0, <1>t, <1>1, <1>2, <1>3, <1>5, <1>6, <1>7, <1>8, OneClient DEF ClientKnows

\* A socket that leaves its hub is told nothing any more.
LEMMA CloseKeeps ==
  ASSUME RealtimeInv, NEW c \in Clients, Close(c)
  PROVE  RealtimeInv'
<1>0. /\ TypeOK /\ ClientKnows(c)
      /\ UNCHANGED <<state, task, lost, hub, listening, inbox, opened, load, shows, gap>>
      /\ sock' = [sock EXCEPT ![c] = Away] /\ out' = [out EXCEPT ![c] = <<>>]
      /\ sock \in [Clients -> {Shut, Away} \cup Conn] /\ out \in [Clients -> Seq(Versions)]
      /\ sock[c].at \in {"added", "served", "closed"}
  BY DEF RealtimeInv, Close, TypeOK, Joined
<1>t. TypeOK'
  BY <1>0, TypeStep DEF Next, SocketStep
<1>1. /\ sock'[c] = Away /\ out'[c] = <<>>
      /\ \A d \in Clients \ {c} : sock'[d] = sock[d] /\ out'[d] = out[d]
  BY <1>0
<1>2. sock'[c].at = "away" /\ sock'[c] \notin Conn /\ ~Joined(c)'
      /\ \A q \in Replicas : ~On(c, q)'
  BY <1>1 DEF Away, Conn, Joined, On
<1>3. sock[c] \notin {Shut, Away}
  BY <1>0 DEF Shut, Away
<1>4. ShowsCommitted(c)'
  BY <1>0, <1>1, <1>2 DEF ClientKnows, ShowsCommitted, Topic
<1>5. c \in Pages => PageKnows(c)'
  BY <1>0, <1>2, <1>3 DEF ClientKnows, PageKnows
<1>6. c \in Watchers => WatcherKnows(c)'
  BY <1>2 DEF WatcherKnows
<1> QED
  BY <1>0, <1>t, <1>1, <1>2, <1>4, <1>5, <1>6, OneClient DEF ClientKnows

\* A page that has asked for its list sees every change made so far.
LEMMA PageKeeps ==
  ASSUME RealtimeInv, NEW p \in Pages, ListTransfers(p) \/ LoadHistory(p)
  PROVE  RealtimeInv'
<1>0. /\ TypeOK /\ ClientKnows(p) /\ p \in Clients
      /\ UNCHANGED <<state, task, lost, hub, listening, inbox, sock, out, opened, gap>>
      /\ shows \in [Clients -> Versions]
      /\ load \in [Pages -> {Quiet, Asked} \cup [at: {"answered"}, n: Versions]]
      /\ p \notin Watchers /\ Topic(p) = "sent"
  BY ClientsAssumption
     DEF RealtimeInv, ListTransfers, LoadHistory, TypeOK, Clients, Topic
<1>t. TypeOK'
  BY <1>0, TypeStep DEF Next, PageStep
<1>1. /\ \A d \in Clients \ {p} : shows'[d] = shows[d]
      /\ \A d \in Pages \ {p} : load'[d] = load[d]
      /\ \/ /\ load[p] = Asked /\ shows'[p] = shows[p]
            /\ load'[p] = [at |-> "answered", n |-> state["sent"]]
         \/ /\ load[p].at = "answered" /\ shows'[p] = load[p].n
            /\ load'[p] = Quiet
  BY <1>0 DEF ListTransfers, LoadHistory
<1>2. /\ shows[p] <= state["sent"] /\ shows[p] \in Nat /\ state["sent"] \in Nat
      /\ load[p].at = "answered" =>
           load[p].n \in Nat /\ load[p].n <= state["sent"] /\ shows[p] <= load[p].n
  BY <1>0, ClientTypes, Decided DEF ClientKnows, ShowsCommitted, Topics
<1>3. ShowsCommitted(p)'
  BY <1>0, <1>1, <1>2 DEF ClientKnows, ShowsCommitted, Topic, Quiet
<1>4. ASSUME NEW n \in Versions, Owed(p, n)', shows'[p] < n
      PROVE  /\ Owed(p, n) /\ shows[p] < n
             /\ Reloads(p, n) => Reloads(p, n)'
             /\ Told(p, n) => Told(p, n)'
  <2>1. Owed(p, n) /\ n <= state["sent"] /\ n \in Nat
    BY <1>0, <1>4, Decided DEF Owed, Topic
  <2>2. shows[p] < n
    BY <1>1, <1>2, <1>4, <2>1
  <2>3. Reloads(p, n) => Reloads(p, n)'
    BY <1>1, <1>2, <1>4, <2>1 DEF Reloads, Asked, Quiet
  <2>4. Told(p, n) => Told(p, n)'
    BY <1>0, <2>3 DEF Told, Topic, Tells
  <2> QED
    BY <2>1, <2>2, <2>3, <2>4
<1>5. PageKnows(p)'
  BY <1>0, <1>4 DEF ClientKnows, PageKnows, Joined
<1>6. \A q \in Replicas : On(p, q)' => On(p, q) /\ (Joined(p)' => Joined(p))
  BY <1>0 DEF On, Joined
<1> QED
  BY <1>0, <1>t, <1>1, <1>3, <1>5, <1>6, OneClient DEF ClientKnows

\* A socket that is added late is not in the hub.
LEMMA AddKeeps ==
  ASSUME RealtimeInv, NEW c \in Clients, Add(c)
  PROVE  RealtimeInv'
<1>0. /\ TypeOK /\ ClientKnows(c) /\ sock[c].at = "upgraded" /\ sock[c] \in Conn
      /\ UNCHANGED <<state, task, lost, hub, listening, inbox, out, opened, load, shows, gap>>
      /\ sock' = [sock EXCEPT ![c].at = IF hub[sock[c].on] = "open" THEN "added" ELSE "ghost"]
      /\ sock \in [Clients -> {Shut, Away} \cup Conn]
  BY Connected DEF RealtimeInv, Add, TypeOK
<1>t. TypeOK'
  BY <1>0, TypeStep DEF Next, SocketStep
<1>1. /\ sock'[c].at = IF hub[sock[c].on] = "open" THEN "added" ELSE "ghost"
      /\ sock'[c].on = sock[c].on /\ sock'[c].read = sock[c].read
      /\ \A d \in Clients \ {c} : sock'[d] = sock[d]
  BY <1>0 DEF Conn
<1>2. out[c] = <<>> /\ sock[c] \notin {Shut, Away}
      /\ \A n \in Versions : Owed(c, n)' => Owed(c, n)
  BY <1>0, Connected DEF ClientKnows, ShowsCommitted, Owed, Topic
<1>3. ShowsCommitted(c)'
  BY <1>0, <1>1, <1>2 DEF ClientKnows, ShowsCommitted, Topic
<1>4. ASSUME c \in Pages
      PROVE  PageKnows(c)'
  <2>1. opened[c] /\ \A n \in Versions : Owed(c, n) /\ shows[c] < n => Reloads(c, n)
    BY <1>0, <1>2, <1>4 DEF ClientKnows, PageKnows
  <2>2. \A n \in Versions : Reloads(c, n) => Told(c, n)'
    BY <1>0, <1>4 DEF Reloads, Told
  <2> QED
    BY <1>0, <1>1, <1>2, <2>1, <2>2 DEF PageKnows
<1>5. c \in Watchers => WatcherKnows(c)'
  BY <1>0, <1>1, <1>2 DEF ClientKnows, WatcherKnows
<1>6. \A q \in Replicas : On(c, q)' =>
        /\ On(c, q)
        /\ Joined(c)' => hub[q] # "dropped"
        /\ sock'[c].at = "ghost" => hub[q] \in {"closing", "dropped"}
  <2> SUFFICES ASSUME NEW q \in Replicas, On(c, q)'
               PROVE  /\ On(c, q)
                      /\ Joined(c)' => hub[q] # "dropped"
                      /\ sock'[c].at = "ghost" => hub[q] \in {"closing", "dropped"}
    OBVIOUS
  <2>1. On(c, q) /\ sock[c].on = q
    BY <1>1, <1>2 DEF On
  <2>2. hub[q] \in Hub /\ hub[q] # "gone"
    BY <1>0, <2>1 DEF TypeOK, RealtimeInv, HeldByRunning, Running
  <2> QED
    BY <1>1, <2>1, <2>2 DEF Joined, Hub
<1> QED
  BY <1>0, <1>t, <1>1, <1>3, <1>4, <1>5, <1>6, OneClient DEF ClientKnows

\* The snapshot tells a watcher everything it is owed.
LEMMA SnapshotKeeps ==
  ASSUME RealtimeInv, NEW c \in Clients, WriteSnapshot(c)
  PROVE  RealtimeInv'
<1> DEFINE v == sock[c].read
<1>0. /\ TypeOK /\ ClientKnows(c) /\ sock[c].at = "added" /\ sock[c] \in Conn
      /\ UNCHANGED <<state, task, lost, hub, listening, inbox, opened, load, shows, gap>>
      /\ sock \in [Clients -> {Shut, Away} \cup Conn] /\ out \in [Clients -> Seq(Versions)]
      /\ c \in Watchers /\ c \notin Pages /\ Topic(c) = "enrollment"
      /\ v \in Versions
  BY Connected, ClientsAssumption
     DEF RealtimeInv, WriteSnapshot, TypeOK, Topic, Conn
<1>t. TypeOK'
  BY <1>0, TypeStep DEF Next, SocketStep
<1>1. \A d \in Clients \ {c} : sock'[d] = sock[d] /\ out'[d] = out[d]
  BY <1>0 DEF WriteSnapshot
<1>2. sock'[c].on = sock[c].on /\ sock[c] \notin {Shut, Away} /\ Joined(c)
      /\ sock'[c].read \in {v, 0}
      /\ \/ sock'[c].at = "served" /\ out'[c] = Append(out[c], v)
         \/ sock'[c].at = "closed" /\ out'[c] = out[c]
  BY <1>0, Connected DEF WriteSnapshot, Conn, Joined
<1>3. WatcherKnows(c) /\ ShowsCommitted(c) /\ v <= state["enrollment"]
      /\ state["enrollment"] \in Nat /\ v \in Nat /\ state["enrollment"] <= 1
  BY <1>0, Decided DEF ClientKnows, ShowsCommitted, Topics
<1> HIDE DEF v
<1>4. \A i \in DOMAIN out'[c] :
        (i \in DOMAIN out[c] /\ out'[c][i] = out[c][i]) \/ out'[c][i] = v
  <2>1. /\ out[c] \in Seq(Versions) /\ v \in Versions
        /\ out'[c] = out[c] \/ out'[c] = Append(out[c], v)
    BY <1>0, <1>2
  <2> QED
    BY <2>1, Appended
<1>5. ShowsCommitted(c)'
  BY <1>0, <1>2, <1>3, <1>4 DEF ShowsCommitted, Topic
<1>6. WatcherKnows(c)'
  <2>1. ASSUME sock'[c].at = "served", NEW n \in Versions, Owed(c, n)'
        PROVE  /\ Told(c, n)'
               /\ \A i \in DOMAIN out'[c] : ~(out'[c][i] < n)
    <3>1. v >= n /\ n \in Nat /\ n <= 1
      <4>1. Owed(c, n) /\ n \in Nat
        BY <1>0, <2>1, Decided DEF Owed, Topic
      <4> QED
        BY <1>0, <1>3, <4>1 DEF WatcherKnows, Owed, v
    <3>2. \A i \in DOMAIN out[c] : out[c][i] \in Nat /\ out[c][i] >= 1
      BY <1>0, <1>3, ClientTypes DEF WatcherKnows
    <3>3. \A i \in DOMAIN out'[c] : ~(out'[c][i] < n)
      BY <1>3, <1>4, <3>1, <3>2
    <3>4. \E i \in DOMAIN out'[c] : out'[c][i] = v
      <4>1. out'[c] = Append(out[c], v) /\ out[c] \in Seq(Versions) /\ v \in Versions
        BY <1>0, <1>2, <2>1
      <4>2. Len(out[c]) + 1 \in DOMAIN out'[c] /\ out'[c][Len(out[c]) + 1] = v
        BY <4>1, Appended
      <4> QED
        BY <4>2
    <3>5. Told(c, n)'
      BY <3>1, <3>4 DEF Told
    <3> QED
      BY <3>3, <3>5
  <2> QED
    BY <1>2, <2>1 DEF WatcherKnows
<1>7. sock'[c].at # "ghost" /\ \A q \in Replicas : On(c, q)' => On(c, q) /\ Joined(c)
  BY <1>2 DEF On
<1> QED
  BY <1>0, <1>t, <1>1, <1>5, <1>6, <1>7, OneClient DEF ClientKnows

\* A page that is served reloads; a watcher shows what it is told.
LEMMA ServeKeeps ==
  ASSUME RealtimeInv, NEW c \in Clients, Serve(c)
  PROVE  RealtimeInv'
<1>0. /\ TypeOK /\ ClientKnows(c) /\ out[c] # <<>>
      /\ UNCHANGED <<state, task, lost, hub, listening, inbox, sock, opened, gap>>
      /\ out' = [out EXCEPT ![c] = Tail(@)]
      /\ out \in [Clients -> Seq(Versions)] /\ shows \in [Clients -> Versions]
      /\ load \in [Pages -> {Quiet, Asked} \cup [at: {"answered"}, n: Versions]]
      /\ IF c \in Pages THEN load' = [load EXCEPT ![c] = Asked] /\ shows' = shows
                        ELSE shows' = [shows EXCEPT ![c] = Head(out[c])] /\ load' = load
  BY DEF RealtimeInv, Serve, Hear, TypeOK
<1>t. TypeOK'
  BY <1>0, TypeStep DEF Next, SocketStep
<1>1. /\ \A d \in Clients \ {c} : out'[d] = out[d] /\ shows'[d] = shows[d]
      /\ \A p \in Pages \ {c} : load'[p] = load[p]
      /\ c \in Pages => load'[c] = Asked /\ shows'[c] = shows[c]
      /\ c \notin Pages => shows'[c] = Head(out[c])
      /\ out'[c] = Tail(out[c]) /\ out[c] \in Seq(Versions)
  BY <1>0
<1>2. /\ DOMAIN out[c] = 1 .. Len(out[c]) /\ Len(out[c]) \in Nat \ {0}
      /\ DOMAIN out'[c] = 1 .. Len(out[c]) - 1
      /\ Head(out[c]) = out[c][1] /\ 1 \in DOMAIN out[c]
      /\ \A i \in 1 .. Len(out[c]) - 1 : out'[c][i] = out[c][i + 1]
  BY <1>0, <1>1, Tailed
<1>3. \A i \in DOMAIN out'[c] : i \in Nat /\ i >= 1 /\ i + 1 \in DOMAIN out[c]
                                /\ out'[c][i] = out[c][i + 1]
  BY <1>2
<1>4. ShowsCommitted(c) /\ sock[c].at \notin {"shut", "away", "upgraded", "ghost"}
  BY <1>0 DEF ClientKnows, ShowsCommitted
<1>5. ShowsCommitted(c)'
  <2>1. shows'[c] <= state[Topic(c)]
    BY <1>1, <1>2, <1>4 DEF ShowsCommitted
  <2>2. \A i \in DOMAIN out'[c] : out'[c][i] <= state[Topic(c)]
    BY <1>3, <1>4 DEF ShowsCommitted
  <2>3. c \in Pages => load'[c].at = "asked"
    BY <1>1 DEF Asked
  <2> QED
    BY <1>0, <1>4, <2>1, <2>2, <2>3 DEF ShowsCommitted, Topic
<1>6. c \in Pages => PageKnows(c)'
  <2>1. c \in Pages => \A n \in Versions : Reloads(c, n)' /\ Told(c, n)'
    BY <1>1 DEF Reloads, Told
  <2> QED
    BY <1>0, <2>1 DEF ClientKnows, PageKnows
<1>7. ASSUME c \in Watchers
      PROVE  WatcherKnows(c)'
  <2>1. WatcherKnows(c) /\ c \notin Pages /\ shows'[c] = out[c][1]
    BY <1>0, <1>1, <1>2, <1>7, ClientsAssumption DEF ClientKnows
  <2>2. sock[c].at = "added" => \A i \in DOMAIN out'[c] : out'[c][i] >= 1
    BY <1>3, <2>1 DEF WatcherKnows
  <2>3. ASSUME NEW n \in Versions, Owed(c, n)', sock[c].at = "served"
        PROVE  /\ shows'[c] < n => Told(c, n)'
               /\ \A i \in DOMAIN out'[c] : out'[c][i] < n =>
                    shows'[c] < n /\ \A j \in 1 .. i : out'[c][j] < n
    <3>1. Owed(c, n)
      BY <1>0, <2>3 DEF Owed, Topic
    <3>2. /\ shows[c] < n => Told(c, n)
          /\ \A i \in DOMAIN out[c] : out[c][i] < n =>
               shows[c] < n /\ \A j \in 1 .. i : out[c][j] < n
      BY <2>1, <2>3, <3>1 DEF WatcherKnows
    <3>3. ASSUME shows'[c] < n
          PROVE  Told(c, n)'
      <4>1. out[c][1] < n /\ out[c][1] \in Nat /\ n \in Nat
        BY <1>0, <1>2, <2>1, <3>3, ClientTypes, Decided
      <4>2. Told(c, n)
        BY <1>2, <3>2, <4>1
      <4>3. ASSUME NEW i \in DOMAIN out[c], out[c][i] >= n
            PROVE  \E k \in DOMAIN out'[c] : out'[c][k] >= n
        <5>1. i # 1
          BY <4>1, <4>3
        <5>2. i - 1 \in DOMAIN out'[c] /\ (i - 1) + 1 = i
          BY <1>2, <5>1
        <5> QED
          BY <1>3, <4>3, <5>2
      <4> QED
        BY <1>0, <2>1, <4>2, <4>3 DEF Told, Topic, Tells
    <3>4. ASSUME NEW i \in DOMAIN out'[c], out'[c][i] < n
          PROVE  shows'[c] < n /\ \A j \in 1 .. i : out'[c][j] < n
      <4>0. i + 1 \in DOMAIN out[c] /\ out[c][i + 1] < n
        BY <1>3, <3>4
      <4>1. \A j \in 1 .. i + 1 : out[c][j] < n
        BY <3>2, <4>0
      <4>2. \A j \in 1 .. i : out'[c][j] = out[c][j + 1] /\ j + 1 \in 1 .. i + 1
        <5>1. i \in 1 .. Len(out[c]) - 1 /\ Len(out[c]) \in Nat
          BY <1>2, <3>4
        <5>2. \A j \in 1 .. i : j \in 1 .. Len(out[c]) - 1 /\ j + 1 \in 1 .. i + 1
          BY <5>1
        <5> QED
          BY <1>2, <5>2
      <4>3. 1 \in 1 .. i + 1
        BY <1>3
      <4> QED
        BY <2>1, <4>1, <4>2, <4>3
    <3> QED
      BY <3>3, <3>4
  <2>4. \A n \in Versions : Owed(c, n)' /\ sock[c].at = "added" => sock[c].read >= n
    BY <1>0, <2>1 DEF WatcherKnows, Owed, Topic
  <2> QED
    BY <1>0, <1>4, <2>2, <2>3, <2>4 DEF WatcherKnows
<1>8. \A q \in Replicas : On(c, q)' => On(c, q) /\ (Joined(c)' => Joined(c))
  BY <1>0 DEF On, Joined
<1> QED
  BY <1>0, <1>t, <1>1, <1>5, <1>6, <1>7, <1>8, OneClient DEF ClientKnows

LEMMA RealtimeInit ==
  ASSUME Init
  PROVE  RealtimeInv
<1>1. TypeOK
  <2>1. 0 \in Versions /\ \A t \in Topics : 0 <= Changes[t]
    BY ChangesAssumption DEF Versions, Topics
  <2>2. SendBuffer \in Nat \ {0} /\ MaxFaults \in Nat
    BY BoundsAssumption
  <2>3. sock \in [Clients -> {Shut, Away} \cup Conn]
        /\ load \in [Pages -> {Quiet, Asked} \cup [at: {"answered"}, n: Versions]]
    BY DEF Init
  <2>4. out \in [Clients -> Seq(Versions)] /\ \A c \in Clients : Len(out[c]) <= SendBuffer
    BY <2>2 DEF Init
  <2>5. inbox \in [Replicas -> Seq(Event \cup {Resync})]
    BY DEF Init
  <2>6. hub \in [Replicas -> Hub]
    BY DEF Init, Hub
  <2>7. state \in [Topics -> Nat] /\ \A t \in Topics : state[t] <= Changes[t]
    BY <2>1 DEF Init
  <2>8. faults \in 0 .. MaxFaults
    BY <2>2 DEF Init
  <2>9. task \in [Tasks -> {Idle} \cup [at: {"gather", "publish"}, on: Replicas,
                                     topic: Topics, n: Versions]]
    BY DEF Init
  <2>10. lost \subseteq Event /\ listening \in [Replicas -> BOOLEAN]
         /\ opened \in [Pages -> BOOLEAN]
         /\ shows \in [Clients -> Versions] /\ gap \in [Clients -> SUBSET Versions]
    BY <2>1 DEF Init
  <2> QED
    BY <2>3, <2>4, <2>5, <2>6, <2>7, <2>8, <2>9, <2>10 DEF TypeOK
<1>2. /\ \A c \in Clients : out[c] = <<>> /\ shows[c] = 0 /\ sock[c] \in {Shut, Away}
      /\ \A u \in Topics : state[u] = 0
      /\ \A p \in Pages : opened[p] = FALSE /\ load[p] \in {Quiet, Asked}
      /\ \A t \in Tasks : task[t] = Idle
      /\ \A r \in Replicas : inbox[r] = <<>>
  BY DEF Init, Clients
<1>3. HeldByRunning /\ ShutdownLeavesNone
  BY <1>2 DEF HeldByRunning, ShutdownLeavesNone, On
<1>4. EventsCommitted
  BY <1>2 DEF EventsCommitted
<1>5. ASSUME NEW c \in Clients
      PROVE  ClientKnows(c)
  <2>1. out[c] = <<>> /\ shows[c] = 0 /\ sock[c] \in {Shut, Away} /\ sock[c] \notin Conn
    BY <1>1, <1>2, Connected
  <2>2. sock[c].at \in {"shut", "away"}
    BY <2>1 DEF Shut, Away
  <2>3. DOMAIN out[c] = {} /\ state[Topic(c)] = 0 /\ Topic(c) \in Topics /\ state["sent"] = 0
    BY <1>2, <2>1 DEF Topic, Topics
  <2>4. ShowsCommitted(c)
    BY <1>2, <2>1, <2>2, <2>3 DEF ShowsCommitted, Quiet, Asked
  <2>5. c \in Pages => PageKnows(c)
    BY <1>2, <2>1, <2>3 DEF PageKnows
  <2>6. c \in Watchers => WatcherKnows(c)
    BY <2>2 DEF WatcherKnows
  <2> QED
    BY <2>4, <2>5, <2>6 DEF ClientKnows
<1> QED
  BY <1>1, <1>3, <1>4, <1>5 DEF RealtimeInv

\* What a step does not change stays known.
LEMMA StandsStill ==
  ASSUME RealtimeInv, UNCHANGED vars
  PROVE  RealtimeInv'
<1>0. UNCHANGED <<state, task, lost, hub, listening, inbox, sock, out, opened,
                  load, shows, gap, faults>>
  BY DEF vars, client
<1>1. TypeOK'
  BY <1>0 DEF RealtimeInv, TypeOK
<1>2. HeldByRunning' /\ ShutdownLeavesNone'
  BY <1>0 DEF RealtimeInv, HeldByRunning, ShutdownLeavesNone, On, Running, Joined
<1>3. EventsCommitted'
  BY <1>0 DEF RealtimeInv, EventsCommitted
<1>4. ASSUME NEW c \in Clients
      PROVE  ClientKnows(c)'
  <2>1. Stays(c) /\ \A n \in Versions : Told(c, n) => Told(c, n)'
    BY <1>0 DEF Stays, Told, Tells, Topic, Reloads
  <2> QED
    BY <1>0, <2>1, KnowsOn
<1> QED
  BY <1>1, <1>2, <1>3, <1>4 DEF RealtimeInv

LEMMA RealtimeStep ==
  ASSUME RealtimeInv, [Next]_vars
  PROVE  RealtimeInv'
<1>1. ASSUME NEW t \in Tasks, NEW r \in Replicas, NEW topic \in Topics,
             Change(t, r, topic)
      PROVE  RealtimeInv'
  BY <1>1, ChangeKeeps
<1>2. ASSUME NEW t \in Tasks, TaskStep(t)
      PROVE  RealtimeInv'
  BY <1>2, GatherKeeps, PublishKeeps DEF TaskStep
<1>3. ASSUME NEW r \in Replicas, ReplicaStep(r)
      PROVE  RealtimeInv'
  BY <1>3, ListenKeeps, ListenerKeeps, ShutdownKeeps, ExitKeeps DEF ReplicaStep
<1>4. ASSUME NEW c \in Clients, SocketStep(c)
      PROVE  RealtimeInv'
  BY <1>4, AddKeeps, SnapshotKeeps, ServeKeeps, CloseKeeps DEF SocketStep
<1>5. ASSUME NEW c \in Clients, NEW r \in Replicas, Upgrade(c, r)
      PROVE  RealtimeInv'
  BY <1>5, UpgradeKeeps
<1>6. ASSUME NEW p \in Pages, PageStep(p)
      PROVE  RealtimeInv'
  BY <1>6, PageKeeps DEF PageStep
<1> QED
  BY <1>1, <1>2, <1>3, <1>4, <1>5, <1>6, StandsStill DEF Next

\* What is told is on the way.
LEMMA ToldOnTheWay ==
  ASSUME RealtimeInv
  PROVE  NothingMissed
<1> SUFFICES ASSUME NEW c \in Clients,
                    IF c \in Pages THEN Joined(c) ELSE sock[c].at = "served",
                    NEW n \in Versions, Owed(c, n), shows[c] < n
             PROVE  OnTheWay(c, n)
  BY DEF NothingMissed
<1>1. TypeOK /\ ClientKnows(c) /\ Joined(c) /\ sock[c] \notin {Shut, Away}
  <2>1. TypeOK /\ ClientKnows(c) /\ Joined(c)
    BY DEF RealtimeInv, Joined
  <2> QED
    BY <2>1, Connected
<1>2. n \in Nat
  BY <1>1, Decided
<1>3. Told(c, n)
  <2>1. CASE c \in Pages
    BY <1>1, <2>1 DEF ClientKnows, PageKnows
  <2>2. CASE c \in Watchers /\ c \notin Pages
    BY <1>1, <2>2 DEF ClientKnows, WatcherKnows
  <2> QED
    BY <2>1, <2>2 DEF Clients
<1> QED
  BY <1>2, <1>3 DEF Told, OnTheWay, Reloads

\* The inductive invariant of the hubs, the listeners and the clients: sockets
\* are held by processes that run, what is told has been committed, and every
\* client that a hub holds is shown, or told, all that it is owed.
THEOREM RealtimeSafe == Spec => []RealtimeInv
<1>1. Init => RealtimeInv
  BY RealtimeInit
<1>2. RealtimeInv /\ [Next]_vars => RealtimeInv'
  BY RealtimeStep
<1> QED
  BY <1>1, <1>2, PTL DEF Spec

\* No client that a hub holds misses an event unnoticed: what it does not show
\* yet is under way to it, whatever publishers, listeners that reconnect, full
\* queues and snapshots do in between (Hub.deliver, listen, WaitingForApprovalWS).
THEOREM NoEventMissed == Spec => []NothingMissed
<1>1. RealtimeInv => NothingMissed
  BY ToldOnTheWay
<1> QED
  BY <1>1, RealtimeSafe, PTL

\* A hub that has closed its sockets to shut down serves none and takes none on;
\* a socket that it refused, and that nobody closes, is held only by a replica
\* that goes away (Hub.Add, Hub.Shutdown).
THEOREM NoSocketKept == Spec => []ShutdownLeavesNone
<1>1. RealtimeInv => ShutdownLeavesNone
  BY DEF RealtimeInv
<1> QED
  BY <1>1, RealtimeSafe, PTL
=============================================================================
