------------------------- MODULE TokenRefresh_proofs -------------------------
(***************************************************************************)
(* Any number of requests on any number of replicas redeem a refresh token *)
(* once while its result is shared, unless a fault met its redemption or   *)
(* its client hung up before the result was committed; and a browser loses *)
(* its refresh token only after CNS has refused one of its tokens. That    *)
(* every request is answered is liveness and stays with TLC.               *)
(***************************************************************************)
EXTENDS TokenRefresh, TLAPS

----------------------------------------------------------------------------
(* How a request goes on *)

\* Would this request's response take the refresh token away, now or after the
\* refresh it has to make?
Clears(p) == req[p].round = "again" \/ req[p].set.refresh = None

\* Request p goes on to one of the given steps with its cookies; it stays in the
\* middleware unless it was sent to refresh.
GoesOn(p, steps) ==
  /\ req' \in [Requests -> RequestStates]
  /\ \A q \in Requests \ {p} : req'[q] = req[q]
  /\ req'[p].sent = req[p].sent /\ req'[p].kind = req[p].kind
  /\ req'[p].replica = req[p].replica
  /\ req'[p].at \in steps

\* The numbers of tokens, and what is none.
LEMMA TokenFacts ==
  /\ Redeemed \subseteq Tokens
  /\ \A g \in Redeemed : g + 1 \in Tokens
  /\ \A g \in Tokens : g < MaxGen => g \in Redeemed
  /\ None \notin Requests /\ None \notin Tokens /\ None # Keep
BY MaxGenAssumption, NoneAssumption DEF Tokens, Redeemed

\* The state of a request.
LEMMA RequestTypes ==
  ASSUME TypeOK, NEW p \in Requests
  PROVE  req[p] \in RequestStates
BY DEF TypeOK

\* A request that becomes t leaves the others where they are.
Becomes(p, t) == req' = [req EXCEPT ![p] = t]

LEMMA BecomesFacts ==
  ASSUME TypeOK, NEW p \in Requests, NEW t \in RequestStates, Becomes(p, t)
  PROVE  /\ req' \in [Requests -> RequestStates]
         /\ req'[p] = t
         /\ \A q \in Requests \ {p} : req'[q] = req[q]
BY DEF Becomes, TypeOK

LEMMA GoesOnTo ==
  ASSUME TypeOK, NEW p \in Requests, NEW t \in RequestStates, Becomes(p, t),
         t.sent = req[p].sent, t.kind = req[p].kind, t.replica = req[p].replica
  PROVE  /\ GoesOn(p, {t.at}) /\ req'[p].at = t.at
         /\ Clears(p)' <=> t.round = "again" \/ t.set.refresh = None
<1>1. /\ req' \in [Requests -> RequestStates]
      /\ req'[p] = t
      /\ \A q \in Requests \ {p} : req'[q] = req[q]
  BY BecomesFacts
<1> QED
  BY <1>1 DEF GoesOn, Clears

\* A step ahead changes nothing else.
LEMMA GotoFacts ==
  ASSUME TypeOK, NEW p \in Requests, NEW step \in Steps, Goto(p, step)
  PROVE  GoesOn(p, {step}) /\ (Clears(p)' => Clears(p))
<1>1. req' = [req EXCEPT ![p] = [req[p] EXCEPT !.at = step]]
  BY RequestTypes DEF Goto, RequestStates, TypeOK
<1>2. req[p] \in RequestStates
  BY RequestTypes
<1> QED
  BY <1>1, <1>2 DEF GoesOn, Clears, RequestStates, TypeOK

\* Nor does the end of the middleware, except for the response.
LEMMA MiddlewareDoneFacts ==
  ASSUME TypeOK, NEW p \in Requests,
         NEW set \in [access: Tokens \cup {None, Keep},
                      refresh: Tokens \cup {None, Keep}],
         MiddlewareDone(p, set)
  PROVE  /\ GoesOn(p, {"begin", "respond"})
         /\ req'[p].at = "begin" => req[p].kind = "refresh"
         /\ Clears(p)' => Clears(p) \/ set.refresh = None
<1>1. req[p] \in RequestStates
  BY RequestTypes
<1>2. req' = [req EXCEPT ![p] =
        [req[p] EXCEPT
          !.set = set,
          !.round = IF req[p].kind = "refresh" THEN "handler" ELSE @,
          !.at = IF req[p].kind = "refresh" THEN "begin" ELSE "respond"]]
  BY <1>1 DEF MiddlewareDone, RequestStates, TypeOK
<1> DEFINE t == [req[p] EXCEPT
                   !.set = set,
                   !.round = IF req[p].kind = "refresh" THEN "handler" ELSE @,
                   !.at = IF req[p].kind = "refresh" THEN "begin" ELSE "respond"]
<1>3. /\ t \in RequestStates
      /\ t.sent = req[p].sent /\ t.kind = req[p].kind
      /\ t.replica = req[p].replica /\ t.set = set
      /\ t.round \in {req[p].round, "handler"}
      /\ t.at = IF req[p].kind = "refresh" THEN "begin" ELSE "respond"
  <2> DEFINE round == IF req[p].kind = "refresh" THEN "handler" ELSE req[p].round
             step == IF req[p].kind = "refresh" THEN "begin" ELSE "respond"
  <2>1. round \in Rounds /\ step \in Steps
    BY <1>1 DEF RequestStates, Rounds, Steps
  <2>2. t = [req[p] EXCEPT !.set = set, !.round = round, !.at = step]
    OBVIOUS
  <2> HIDE DEF round, step, t
  <2>3. /\ t \in RequestStates
        /\ t.sent = req[p].sent /\ t.kind = req[p].kind
        /\ t.replica = req[p].replica
        /\ t.set = set /\ t.round = round /\ t.at = step
    BY <1>1, <2>1, <2>2 DEF RequestStates
  <2> QED
    BY <2>3 DEF round, step
<1>4. Becomes(p, t)
  BY <1>2 DEF Becomes
<1> HIDE DEF t
<1>5. /\ GoesOn(p, {t.at}) /\ req'[p].at = t.at
      /\ Clears(p)' <=> t.round = "again" \/ t.set.refresh = None
  BY <1>3, <1>4, GoesOnTo
<1> QED
  BY <1>3, <1>5 DEF GoesOn, Clears

\* A refresh that succeeds sets new cookies.
LEMMA RefreshedFacts ==
  ASSUME TypeOK, NEW p \in Requests, NEW g \in Tokens, Refreshed(p, g)
  PROVE  GoesOn(p, {"respond", "validate"}) /\ (Clears(p)' => Clears(p))
<1>1. req[p] \in RequestStates
  BY RequestTypes
<1>2. req' = [req EXCEPT ![p] =
        [req[p] EXCEPT
          !.token = g, !.set = [access |-> g, refresh |-> g],
          !.at = IF req[p].round = "handler" THEN "respond" ELSE "validate"]]
  BY <1>1 DEF Refreshed, RequestStates, TypeOK
<1> DEFINE t == [req[p] EXCEPT
                   !.token = g, !.set = [access |-> g, refresh |-> g],
                   !.at = IF req[p].round = "handler" THEN "respond" ELSE "validate"]
<1>3. /\ t \in RequestStates
      /\ t.sent = req[p].sent /\ t.kind = req[p].kind
      /\ t.replica = req[p].replica /\ t.round = req[p].round
      /\ t.set.refresh = g /\ t.at \in {"respond", "validate"}
  BY <1>1 DEF RequestStates, Steps
<1>4. Becomes(p, t) /\ g # None
  BY <1>2, TokenFacts DEF Becomes
<1> HIDE DEF t
<1>5. /\ GoesOn(p, {t.at})
      /\ Clears(p)' <=> t.round = "again" \/ t.set.refresh = None
  BY <1>3, <1>4, GoesOnTo
<1> QED
  BY <1>3, <1>4, <1>5 DEF GoesOn, Clears

\* One that fails clears the refresh token if it is dead, or all cookies after
\* CNS has refused the access token.
LEMMA RefreshFailedFacts ==
  ASSUME TypeOK, NEW p \in Requests, NEW dead \in BOOLEAN, RefreshFailed(p, dead)
  PROVE  /\ GoesOn(p, {"begin", "validate", "respond"})
         /\ req'[p].at = "begin" => req[p].kind = "refresh"
         /\ Clears(p)' => Clears(p) \/ dead
<1> DEFINE set == IF dead THEN [req[p].set EXCEPT !.refresh = None] ELSE req[p].set
<1>1. req[p] \in RequestStates
  BY RequestTypes
<1>2. /\ set \in [access: Tokens \cup {None, Keep}, refresh: Tokens \cup {None, Keep}]
      /\ ~dead => set = req[p].set
  BY <1>1 DEF RequestStates
<1> HIDE DEF set
<1>3. ASSUME NEW step \in {"validate", "respond"},
             req' = [req EXCEPT ![p].at = step, ![p].set = set]
      PROVE  GoesOn(p, {step}) /\ (Clears(p)' => Clears(p) \/ dead)
  <2>1. req' = [req EXCEPT ![p] = [req[p] EXCEPT !.at = step, !.set = set]]
    BY <1>1, <1>3 DEF RequestStates, TypeOK
  <2> DEFINE t == [req[p] EXCEPT !.at = step, !.set = set]
  <2>2. /\ t \in RequestStates
        /\ t.sent = req[p].sent /\ t.kind = req[p].kind
        /\ t.replica = req[p].replica /\ t.round = req[p].round
        /\ t.set = set /\ t.at = step
    BY <1>1, <1>2 DEF RequestStates, Steps
  <2>3. Becomes(p, t)
    BY <2>1 DEF Becomes
  <2> HIDE DEF t
  <2>4. /\ GoesOn(p, {t.at})
        /\ Clears(p)' <=> t.round = "again" \/ t.set.refresh = None
    BY <2>2, <2>3, GoesOnTo
  <2> QED
    BY <1>2, <2>2, <2>4 DEF Clears
<1>4. CASE req[p].round = "again" /\ MiddlewareDone(p, NoCookies)
  <2>1. NoCookies \in [access: Tokens \cup {None, Keep},
                       refresh: Tokens \cup {None, Keep}]
    BY DEF NoCookies
  <2> QED
    BY <1>4, <2>1, MiddlewareDoneFacts DEF GoesOn, Clears
<1>5. \/ req' = [req EXCEPT ![p].at = "validate", ![p].set = set]
      \/ req[p].round = "again" /\ MiddlewareDone(p, NoCookies)
      \/ req' = [req EXCEPT ![p].at = "respond", ![p].set = set]
  BY DEF RefreshFailed, set
<1> QED
  BY <1>3, <1>4, <1>5 DEF GoesOn

\* A request that is over, or was never answered, holds nothing.
LEMMA NoRequestFacts ==
  /\ NoRequest \in RequestStates
  /\ NoRequest.at = "idle" /\ NoRequest.kind = "page"
  /\ NoRequest.round = "first" /\ NoRequest.set.refresh = Keep
BY DEF NoRequest, RequestStates, Steps, Rounds, Cookies, NoCookies,
       KeepCookies

\* What CNS does to its own state.
LEMMA RotateFacts ==
  ASSUME TypeOK, NEW g \in Tokens, Rotate(g)
  PROVE  /\ g \in Redeemed /\ g + 1 \in Tokens
         /\ current' \in Tokens /\ grace' \in BOOLEAN /\ valid' \subseteq Tokens
         /\ revoked' \in BOOLEAN
         /\ UNCHANGED refusals
         /\ redeemed' \in [Tokens -> 0 .. 2]
         /\ \A h \in Tokens \ {g} : redeemed'[h] = redeemed[h]
         /\ redeemed[g] = 0 => redeemed'[g] = 1
<1>1. g \in Redeemed /\ g + 1 \in Tokens
  BY TokenFacts DEF Rotate
<1>2. redeemed[g] \in 0 .. 2
  BY DEF TypeOK
<1> QED
  BY <1>1, <1>2 DEF Rotate, TypeOK

\* And when it refuses a token.
LEMMA RefuseFacts ==
  ASSUME TypeOK, NEW g, Refuse(g)
  PROVE  /\ current' \in Tokens /\ grace' \in BOOLEAN /\ valid' \subseteq Tokens
         /\ revoked' \in BOOLEAN
         /\ refusals' \subseteq {"access", "refresh"}
         /\ "refresh" \in refusals'
         /\ redeemed' = redeemed
BY DEF Refuse, TypeOK

----------------------------------------------------------------------------
(* Types *)

TypeInv == TypeOK /\ TokensKnown

\* Everything but the requests and the tokens at CNS.
StoreOK ==
  /\ aging \subseteq Tokens /\ stored \subseteq Redeemed
  /\ excused \subseteq Tokens
  /\ lock \in [Tokens -> Requests \cup {None}]
  /\ local \in [Replicas -> SUBSET Redeemed]

CNSOK ==
  /\ current \in Tokens /\ grace \in BOOLEAN /\ revoked \in BOOLEAN
  /\ valid \subseteq Tokens /\ refusals \subseteq {"access", "refresh"}
  /\ redeemed \in [Tokens -> 0 .. 2]

\* The types by their parts.
LEMMA TypeParts ==
  ASSUME TypeInv
  PROVE  CNSOK /\ StoreOK /\ cookies \in Cookies
BY DEF TypeInv, TypeOK, TokensKnown, CNSOK, StoreOK

\* A request that goes on keeps the types if the rest does.
LEMMA GoesOnTypes ==
  ASSUME TypeInv, NEW p \in Requests, CNSOK', StoreOK', cookies' \in Cookies,
         GoesOn(p, Steps), req[p].at # "idle",
         req'[p].at \in {"begin", "lock", "redeem", "store", "local"} =>
           req[p].sent.refresh \in Tokens,
         req'[p].at = "store" => req[p].sent.refresh \in Redeemed
  PROVE  TypeInv'
<1>1. TypeOK'
  BY TokenFacts DEF CNSOK, StoreOK, TypeOK, GoesOn
<1>2. TokensKnown'
  BY DEF TypeInv, TokensKnown, StoreOK, GoesOn
<1> QED
  BY <1>1, <1>2 DEF TypeInv

\* The steps of RefreshAccessToken keep the types.
LEMMA RefreshTypes ==
  ASSUME TypeInv, NEW p \in Requests,
         \/ BeginRefresh(p) \/ AcquireLock(p) \/ LockTimesOut(p)
         \/ Redeem(p) \/ StoreResult(p) \/ RefreshLocally(p)
  PROVE  TypeInv'
<1> DEFINE g == req[p].sent.refresh
<1> DEFINE r == req[p].replica
<1>0. /\ CNSOK /\ StoreOK /\ cookies \in Cookies /\ TypeOK
      /\ g \in Tokens /\ r \in Replicas /\ req[p].at # "idle"
  BY TypeParts DEF TypeInv, TokensKnown, BeginRefresh, AcquireLock,
                   LockTimesOut, Redeem, StoreResult, RefreshLocally, At
<1>1. req[p].kind = "refresh" => g \in Tokens
  BY <1>0
<1>2. aging' = aging /\ cookies' = cookies
  BY DEF BeginRefresh, AcquireLock, LockTimesOut, Redeem, StoreResult,
         RefreshLocally, browser
<1> HIDE DEF g
<1>3. \A steps \in SUBSET Steps : GoesOn(p, steps) => GoesOn(p, Steps)
  BY DEF GoesOn
<1>4. ASSUME NEW step \in Steps, Goto(p, step)
      PROVE  GoesOn(p, Steps) /\ req'[p].at = step
  BY <1>0, <1>4, GotoFacts DEF GoesOn
<1>5. ASSUME NEW h \in Redeemed, Refreshed(p, h + 1)
      PROVE  GoesOn(p, Steps) /\ req'[p].at \in {"respond", "validate"}
  BY <1>0, <1>5, TokenFacts, RefreshedFacts DEF GoesOn, Steps
<1>6. ASSUME NEW dead \in BOOLEAN, RefreshFailed(p, dead)
      PROVE  GoesOn(p, Steps) /\ req'[p].at \in {"begin", "validate", "respond"}
  BY <1>0, <1>6, RefreshFailedFacts DEF GoesOn, Steps
<1>7. UNCHANGED cns => CNSOK'
  BY <1>0 DEF cns, CNSOK
<1>8. Rotate(g) => CNSOK' /\ g \in Redeemed
  BY <1>0, RotateFacts DEF CNSOK
<1>9. Refuse(g) => CNSOK'
  BY <1>0, RefuseFacts DEF CNSOK
<1>10. Unlock(g) => lock' \in [Tokens -> Requests \cup {None}]
  BY <1>0 DEF Unlock, StoreOK
<1>11. Excuse(g) => excused' \subseteq Tokens
  BY <1>0 DEF Excuse, StoreOK
<1>12. CASE BeginRefresh(p)
  BY <1>0, <1>2, <1>4, <1>7, <1>11, <1>12, GoesOnTypes
     DEF BeginRefresh, StoreOK, Steps, g
<1>13. CASE AcquireLock(p)
  <2>1. StoreOK' /\ CNSOK'
    BY <1>0, <1>2, <1>7, <1>13 DEF AcquireLock, StoreOK
  <2>2. GoesOn(p, Steps) /\ req'[p].at \in {"respond", "validate", "redeem"}
    BY <1>0, <1>4, <1>5, <1>13 DEF AcquireLock, StoreOK, Steps, g
  <2> QED
    BY <1>0, <1>2, <2>1, <2>2, GoesOnTypes DEF g
<1>14. CASE LockTimesOut(p)
  <2>1. StoreOK' /\ CNSOK'
    BY <1>0, <1>2, <1>7, <1>14 DEF LockTimesOut, StoreOK, store
  <2>2. g \in local[r] => g \in Redeemed
    BY <1>0 DEF StoreOK
  <2>3. GoesOn(p, Steps) /\ req'[p].at \in {"respond", "validate", "begin"}
    BY <1>0, <1>5, <1>6, <1>14, <2>2 DEF LockTimesOut, g
  <2> QED
    BY <1>0, <1>2, <2>1, <2>3, GoesOnTypes DEF g
<1>15. CASE Redeem(p)
  <2>1. CNSOK' /\ StoreOK'
    BY <1>0, <1>2, <1>7, <1>8, <1>9, <1>10, <1>11, <1>15
       DEF Redeem, StoreOK, g
  <2>2. GoesOn(p, Steps) /\ (req'[p].at = "store" => g \in Redeemed)
    BY <1>4, <1>6, <1>8, <1>15 DEF Redeem, Steps, g
  <2> QED
    BY <1>0, <1>2, <2>1, <2>2, GoesOnTypes DEF g
<1>16. CASE StoreResult(p)
  <2>1. g \in Redeemed
    BY <1>16 DEF StoreResult, At, TypeInv, TokensKnown, g
  <2>2. CNSOK' /\ StoreOK'
    BY <1>0, <1>2, <1>7, <1>10, <1>11, <1>16, <2>1 DEF StoreResult, StoreOK, g
  <2>3. GoesOn(p, Steps) /\ req'[p].at \in {"respond", "validate"}
    BY <1>5, <1>16, <2>1 DEF StoreResult, g
  <2> QED
    BY <1>0, <1>2, <2>2, <2>3, GoesOnTypes DEF g
<1>17. CASE RefreshLocally(p)
  <2>1. CNSOK'
    BY <1>7, <1>8, <1>9, <1>17 DEF RefreshLocally, g
  <2>2. /\ local' \in [Replicas -> SUBSET Redeemed]
        /\ GoesOn(p, Steps) /\ req'[p].at \in {"respond", "validate", "begin"}
    <3>1. CASE g \in local[r] /\ Refreshed(p, g + 1) /\ UNCHANGED local
      <4>1. g \in Redeemed
        BY <1>0, <3>1 DEF StoreOK
      <4> QED
        BY <1>0, <1>5, <3>1, <4>1 DEF StoreOK
    <3>2. CASE /\ Rotate(g) /\ Refreshed(p, g + 1)
               /\ local' = [local EXCEPT ![r] = @ \cup {g}]
      BY <1>0, <1>5, <1>8, <3>2 DEF StoreOK
    <3>3. CASE UNCHANGED local /\ \E dead \in BOOLEAN : RefreshFailed(p, dead)
      BY <1>0, <1>6, <3>3 DEF StoreOK
    <3> QED
      BY <1>17, <3>1, <3>2, <3>3 DEF RefreshLocally, g
  <2>3. StoreOK'
    BY <1>0, <1>2, <1>17, <2>2 DEF RefreshLocally, StoreOK
  <2> QED
    BY <1>0, <1>2, <2>1, <2>2, <2>3, GoesOnTypes DEF g
<1> QED
  BY <1>12, <1>13, <1>14, <1>15, <1>16, <1>17

\* So does a request that ends, if the rest does.
LEMMA EndTypes ==
  ASSUME TypeInv, NEW p \in Requests, CNSOK', StoreOK', cookies' \in Cookies,
         req' = [req EXCEPT ![p] = NoRequest]
  PROVE  TypeInv'
<1>1. TypeOK'
  BY NoRequestFacts, TokenFacts DEF TypeInv, TypeOK, CNSOK, StoreOK
<1>2. TokensKnown'
  BY NoRequestFacts DEF TypeInv, TypeOK, TokensKnown, StoreOK
<1> QED
  BY <1>1, <1>2 DEF TypeInv

\* The other steps of a request keep the types.
LEMMA ServeTypes ==
  ASSUME TypeInv, NEW p \in Requests,
         CheckExpiry(p) \/ Validate(p) \/ Respond(p)
  PROVE  TypeInv'
<1>0. /\ CNSOK /\ StoreOK /\ cookies \in Cookies /\ TypeOK
      /\ req[p] \in RequestStates /\ req[p].at # "idle"
      /\ req[p].kind = "refresh" => req[p].sent.refresh \in Tokens
  BY TypeParts, RequestTypes DEF TypeInv, TokensKnown, CheckExpiry, Validate,
                                 Respond, At
<1>1. StoreOK'
  BY <1>0 DEF CheckExpiry, Validate, Respond, StoreOK, store, browser
<1>2. CASE CheckExpiry(p)
  <2>1. CNSOK' /\ cookies' \in Cookies
    BY <1>0, <1>2 DEF CheckExpiry, cns, browser, CNSOK
  <2>2. ASSUME NEW step \in {"begin", "validate"}, Goto(p, step),
               step = "begin" => req[p].sent.refresh # None
        PROVE  TypeInv'
    <3>1. GoesOn(p, Steps) /\ req'[p].at = step
      BY <1>0, <2>2, GotoFacts DEF GoesOn, Steps
    <3>2. step = "begin" => req[p].sent.refresh \in Tokens
      BY <1>0, <2>2 DEF RequestStates, Cookies
    <3> QED
      BY <1>0, <1>1, <2>1, <3>1, <3>2, GoesOnTypes
  <2> QED
    BY <1>2, <2>2 DEF CheckExpiry
<1>3. CASE Validate(p)
  <2>1. CNSOK' /\ cookies' \in Cookies
    BY <1>0, <1>3 DEF Validate, browser, CNSOK
  <2>2. ASSUME NEW set \in [access: Tokens \cup {None, Keep},
                            refresh: Tokens \cup {None, Keep}],
               MiddlewareDone(p, set)
        PROVE  TypeInv'
    <3>1. GoesOn(p, Steps) /\ req'[p].at \in {"begin", "respond"}
          /\ (req'[p].at = "begin" => req[p].kind = "refresh")
      BY <1>0, <2>2, MiddlewareDoneFacts DEF GoesOn, Steps
    <3> QED
      BY <1>0, <1>1, <2>1, <3>1, GoesOnTypes
  <2>3. CASE /\ req[p].sent.refresh # None
             /\ req' = [req EXCEPT ![p].at = "begin", ![p].round = "again"]
    <3>1. req' = [req EXCEPT ![p] =
                    [req[p] EXCEPT !.at = "begin", !.round = "again"]]
      BY <1>0, <2>3 DEF RequestStates, TypeOK
    <3>2. GoesOn(p, Steps) /\ req'[p].at = "begin"
      BY <1>0, <3>1 DEF GoesOn, RequestStates, TypeOK, Steps, Rounds
    <3>3. req[p].sent.refresh \in Tokens
      BY <1>0, <2>3 DEF RequestStates, Cookies
    <3> QED
      BY <1>0, <1>1, <2>1, <3>2, <3>3, GoesOnTypes
  <2>4. /\ NoCookies \in [access: Tokens \cup {None, Keep},
                           refresh: Tokens \cup {None, Keep}]
        /\ req[p].set \in [access: Tokens \cup {None, Keep},
                            refresh: Tokens \cup {None, Keep}]
    BY <1>0 DEF NoCookies, RequestStates
  <2> QED
    BY <1>3, <2>2, <2>3, <2>4 DEF Validate
<1>4. CASE Respond(p)
  <2>1. CNSOK' /\ req' = [req EXCEPT ![p] = NoRequest]
    BY <1>0, <1>4 DEF Respond, cns, CNSOK
  <2>2. cookies' \in Cookies
    <3>1. \A k \in {"access", "refresh"} : cookies'[k] \in Tokens \cup {None}
      BY <1>0, <1>4 DEF Respond, RequestStates, Cookies
    <3>2. cookies' = [k \in {"access", "refresh"} |-> cookies'[k]]
      BY <1>4 DEF Respond
    <3> QED
      BY <3>1, <3>2 DEF Cookies
  <2> QED
    BY <1>1, <2>1, <2>2, EndTypes
<1> QED
  BY <1>2, <1>3, <1>4

\* So does a client that hangs up.
LEMMA HangUpTypes ==
  ASSUME TypeInv, NEW p \in Requests, HangUp(p)
  PROVE  TypeInv'
<1> DEFINE g == req[p].sent.refresh
<1>0. CNSOK /\ StoreOK /\ cookies \in Cookies /\ TypeOK
  BY TypeParts DEF TypeInv
<1>1. At(p, "redeem") \/ At(p, "store") \/ At(p, "local") => g \in Tokens
  BY DEF TypeInv, TokensKnown, At
<1> HIDE DEF g
<1>2. CNSOK'
  <2>1. UNCHANGED cns => CNSOK'
    BY <1>0 DEF cns, CNSOK
  <2>2. g \in Tokens /\ Rotate(g) => CNSOK'
    BY <1>0, RotateFacts DEF CNSOK
  <2>3. Refuse(g) => CNSOK'
    BY <1>0, RefuseFacts DEF CNSOK
  <2> QED
    BY <1>1, <2>1, <2>2, <2>3 DEF HangUp, g
<1>3. excused' \subseteq Tokens
  BY <1>0, <1>1 DEF HangUp, Excuse, StoreOK, g
<1>4. lock' \in [Tokens -> Requests \cup {None}]
  BY <1>0 DEF HangUp, Unlock, StoreOK
<1>5. StoreOK' /\ cookies' \in Cookies
  BY <1>0, <1>3, <1>4 DEF HangUp, StoreOK, browser
<1>6. req' = [req EXCEPT ![p] = NoRequest]
  BY DEF HangUp
<1> QED
  BY <1>2, <1>5, <1>6, EndTypes

\* Requests that are sent, time and the death of a replica keep the types.
LEMMA OtherTypes ==
  ASSUME TypeInv,
         \/ \E p \in Requests, r \in Replicas : Send(p, r)
         \/ \E g \in Tokens : AccessAges(g) \/ AccessExpires(g) \/ ResultExpires(g)
         \/ GraceEnds \/ \E r \in Replicas : Crash(r)
  PROVE  TypeInv'
<1>0. CNSOK /\ StoreOK /\ cookies \in Cookies /\ TypeOK /\ TokensKnown
  BY TypeParts DEF TypeInv
<1>1. ASSUME NEW p \in Requests, NEW r \in Replicas, Send(p, r)
      PROVE  TypeInv'
  <2>1. PICK kind \in Kinds :
          /\ kind = "refresh" => cookies.refresh \in 0 .. MaxGen - 1
          /\ req' = [req EXCEPT ![p] =
               [NoRequest EXCEPT !.at = "check", !.kind = kind, !.replica = r,
                                 !.sent = cookies, !.token = cookies.access]]
    BY <1>1 DEF Send
  <2>2. kind \in {"page", "refresh"} /\ UNCHANGED <<cns, store, browser>>
    BY <1>1, KindsAssumption DEF Send
  <2>3. /\ req' \in [Requests -> RequestStates]
        /\ req'[p].at = "check" /\ req'[p].replica = r
        /\ req'[p].kind = kind /\ req'[p].sent = cookies
        /\ \A q \in Requests \ {p} : req'[q] = req[q]
    <3> DEFINE t == [NoRequest EXCEPT !.at = "check", !.kind = kind,
                                      !.replica = r, !.sent = cookies,
                                      !.token = cookies.access]
    <3>1. /\ t \in RequestStates /\ t.at = "check" /\ t.replica = r
          /\ t.kind = kind /\ t.sent = cookies
      BY <1>0, <2>2, NoRequestFacts DEF RequestStates, NoRequest, Cookies, Steps
    <3>2. Becomes(p, t)
      BY <2>1 DEF Becomes
    <3> HIDE DEF t
    <3> QED
      BY <1>0, <3>1, <3>2, BecomesFacts
  <2>4. TypeOK'
    BY <1>0, <2>2, <2>3 DEF TypeOK, cns, store, browser
  <2>5. TokensKnown'
    BY <1>0, <2>1, <2>2, <2>3, TokenFacts DEF TokensKnown, store, Redeemed
  <2> QED
    BY <2>4, <2>5 DEF TypeInv
<1>2. CASE UNCHANGED req /\ CNSOK' /\ StoreOK' /\ cookies' = cookies
  <2>1. TypeOK'
    BY <1>0, <1>2, TokenFacts DEF CNSOK, StoreOK, TypeOK
  <2>2. TokensKnown'
    BY <1>0, <1>2 DEF TokensKnown, StoreOK
  <2> QED
    BY <2>1, <2>2 DEF TypeInv
<1>3. ASSUME NEW g \in Tokens, AccessAges(g) \/ AccessExpires(g) \/ ResultExpires(g)
      PROVE  UNCHANGED req /\ CNSOK' /\ StoreOK' /\ cookies' = cookies
  <2>1. CASE AccessAges(g)
    BY <1>0, <2>1 DEF AccessAges, CNSOK, StoreOK, cns, store
  <2>2. CASE AccessExpires(g)
    BY <1>0, <2>2 DEF AccessExpires, CNSOK, StoreOK, store, browser
  <2>3. CASE ResultExpires(g)
    <3>1. CNSOK'
      BY <1>0, <2>3 DEF ResultExpires, CNSOK
    <3>2. StoreOK' /\ UNCHANGED req /\ cookies' = cookies
      BY <1>0, <2>3 DEF ResultExpires, StoreOK, browser
    <3> QED
      BY <3>1, <3>2
  <2> QED
    BY <1>3, <2>1, <2>2, <2>3
<1>4. ASSUME GraceEnds
      PROVE  UNCHANGED req /\ CNSOK' /\ StoreOK' /\ cookies' = cookies
  BY <1>0, <1>4 DEF GraceEnds, CNSOK, StoreOK, store, browser
<1>5. ASSUME NEW r \in Replicas, Crash(r)
      PROVE  TypeInv'
  <2>1. CNSOK' /\ cookies' = cookies
    BY <1>0, <1>5 DEF Crash, cns, browser, CNSOK
  <2>2. StoreOK'
    BY <1>0, <1>5 DEF Crash, browser, StoreOK
  <2>3. /\ req' \in [Requests -> RequestStates]
        /\ \A p \in Requests : req'[p] = req[p] \/ req'[p] = NoRequest
    BY <1>0, <1>5, NoRequestFacts DEF Crash, TypeOK
  <2>4. TypeOK'
    BY <1>0, <2>1, <2>2, <2>3, TokenFacts DEF CNSOK, StoreOK, TypeOK
  <2>5. TokensKnown'
    BY <1>0, <2>2, <2>3, NoRequestFacts DEF TokensKnown, StoreOK
  <2> QED
    BY <2>4, <2>5 DEF TypeInv
<1> QED
  BY <1>1, <1>2, <1>3, <1>4, <1>5

\* Every step keeps the types.
LEMMA TypeStep ==
  ASSUME TypeInv, [Next]_vars
  PROVE  TypeInv'
<1>1. CASE UNCHANGED vars
  <2>1. TypeOK'
    BY <1>1 DEF TypeInv, TypeOK, vars, cns, store, browser
  <2>2. TokensKnown'
    BY <1>1 DEF TypeInv, TokensKnown, vars, store
  <2> QED
    BY <2>1, <2>2 DEF TypeInv
<1> QED
  BY <1>1, RefreshTypes, ServeTypes, HangUpTypes, OtherTypes DEF Next, Serve

----------------------------------------------------------------------------
(* Redemptions *)

\* A step that neither takes a lock nor redeems an unexcused token keeps them
\* apart.
LEMMA SharedKept ==
  ASSUME TypeInv, SharedInv, UNCHANGED <<stored, lock>>, excused \subseteq excused',
         \A g \in Tokens \ excused' : redeemed'[g] = redeemed[g],
         \A p \in Requests :
           \/ req'[p] = req[p]
           \/ /\ req[p].at \notin {"redeem", "store"}
              /\ req'[p].at \notin {"redeem", "store"}
              /\ req'[p].at = "local" => req'[p].sent.refresh \in excused'
  PROVE  SharedInv'
<1>0. \A p \in Requests : req[p].at \in {"redeem", "store", "local"} =>
        req[p].sent.refresh \in Tokens
  BY DEF TypeInv, TokensKnown
<1>1. LockHeld'
  BY DEF SharedInv, LockHeld
<1>2. RedeemsFirst'
  BY <1>0 DEF SharedInv, RedeemsFirst
<1>3. Shared'
  BY DEF SharedInv, Shared
<1>4. RedeemedOnce'
  BY DEF SharedInv, RedeemedOnce
<1> QED
  BY <1>1, <1>2, <1>3, <1>4 DEF SharedInv

\* A request goes to redeem a token that nobody has redeemed.
LEMMA AcquireLockStep ==
  ASSUME TypeInv, SharedInv, NEW p \in Requests, AcquireLock(p)
  PROVE  SharedInv'
<1> DEFINE g == req[p].sent.refresh
<1>0. TypeOK /\ g \in Tokens /\ req[p].at = "lock" /\ lock[g] = None
  BY DEF TypeInv, TokensKnown, AcquireLock, At
<1>1. UNCHANGED <<stored, excused, redeemed>>
  BY DEF AcquireLock, cns
<1> HIDE DEF g
<1>2. CASE g \in stored /\ Refreshed(p, g + 1) /\ UNCHANGED lock
  <2>1. g + 1 \in Tokens
    BY <1>2, TokenFacts DEF TypeInv, TokensKnown
  <2>2. GoesOn(p, {"respond", "validate"})
    BY <1>0, <1>2, <2>1, RefreshedFacts
  <2> QED
    BY <1>0, <1>1, <1>2, <2>2, SharedKept DEF GoesOn
<1>3. CASE /\ g \notin stored /\ Goto(p, "redeem")
           /\ lock' = [lock EXCEPT ![g] = p]
  <2>1. GoesOn(p, {"redeem"})
    BY <1>0, <1>3, GotoFacts DEF Steps
  <2>2. /\ lock'[g] = p
        /\ \A h \in Tokens \ {g} : lock'[h] = lock[h]
    BY <1>0, <1>3 DEF TypeOK
  <2>3. \A q \in Requests : lock[g] # q
    BY <1>0, TokenFacts
  <2>4. LockHeld'
    <3> SUFFICES ASSUME NEW q \in Requests, req'[q].at \in {"redeem", "store"}
                 PROVE  lock'[req'[q].sent.refresh] = q
      BY DEF LockHeld
    <3>1. CASE q = p
      BY <2>1, <2>2, <3>1 DEF GoesOn, g
    <3>2. CASE q # p
      <4>1. req'[q] = req[q] /\ lock[req[q].sent.refresh] = q
        BY <2>1, <3>2 DEF GoesOn, SharedInv, LockHeld
      <4>2. req[q].sent.refresh \in Tokens \ {g}
        BY <2>3, <4>1 DEF TypeInv, TokensKnown
      <4> QED
        BY <2>2, <4>1, <4>2
    <3> QED
      BY <3>1, <3>2
  <2>5. g \notin excused => redeemed[g] = 0
    BY <1>0, <1>3, <2>3 DEF SharedInv, Shared
  <2>6. RedeemsFirst'
    BY <1>1, <2>1, <2>5 DEF SharedInv, RedeemsFirst, GoesOn, g
  <2>7. Shared'
    BY <1>0, <1>1, <2>1, <2>2, <2>3 DEF SharedInv, Shared, GoesOn
  <2> QED
    BY <1>1, <2>4, <2>6, <2>7 DEF SharedInv, RedeemedOnce
<1> QED
  BY <1>2, <1>3 DEF AcquireLock, g

\* It redeems it, once, or is excused by an outage.
LEMMA RedeemStep ==
  ASSUME TypeInv, SharedInv, NEW p \in Requests, Redeem(p)
  PROVE  SharedInv'
<1> DEFINE g == req[p].sent.refresh
<1>0. TypeOK /\ g \in Tokens /\ req[p].at = "redeem" /\ lock[g] = p
  BY DEF TypeInv, TokensKnown, Redeem, At, SharedInv, LockHeld
<1>1. stored' = stored /\ (g \notin excused => redeemed[g] = 0)
  BY <1>0 DEF Redeem, SharedInv, RedeemsFirst, g
<1> HIDE DEF g
<1>2. ASSUME NEW q \in Requests \ {p}, req[q].at \in {"redeem", "store"}
      PROVE  req[q].sent.refresh \in Tokens \ {g}
  BY <1>0, <1>2 DEF TypeInv, TokensKnown, SharedInv, LockHeld
<1>3. CASE /\ Rotate(g) /\ Goto(p, "store")
           /\ UNCHANGED <<lock, excused>>
  <2>1. GoesOn(p, {"store"})
    BY <1>0, <1>3, GotoFacts DEF Steps
  <2>2. /\ redeemed[g] = 0 => redeemed'[g] = 1
        /\ \A h \in Tokens \ {g} : redeemed'[h] = redeemed[h]
    BY <1>0, <1>3, RotateFacts
  <2>3. LockHeld'
    BY <1>0, <1>3, <2>1 DEF SharedInv, LockHeld, GoesOn, g
  <2>4. RedeemsFirst'
    BY <1>2, <1>3, <2>1, <2>2 DEF SharedInv, RedeemsFirst, GoesOn
  <2>5. Shared'
    <3> SUFFICES ASSUME NEW h \in Tokens \ excused, redeemed'[h] # 0, h \notin stored
                 PROVE  \E q \in Requests :
                          /\ lock[h] = q /\ req'[q].at = "store"
                          /\ req'[q].sent.refresh = h
      BY <1>1, <1>3 DEF Shared
    <3>1. CASE h = g
      BY <1>0, <2>1, <3>1 DEF GoesOn, g
    <3>2. CASE h # g
      <4>1. PICK q \in Requests : /\ lock[h] = q /\ req[q].at = "store"
                                  /\ req[q].sent.refresh = h
        BY <2>2, <3>2 DEF SharedInv, Shared
      <4> QED
        BY <1>0, <2>1, <4>1 DEF GoesOn
    <3> QED
      BY <3>1, <3>2
  <2>6. RedeemedOnce'
    BY <1>1, <1>3, <2>2 DEF SharedInv, RedeemedOnce
  <2> QED
    BY <2>3, <2>4, <2>5, <2>6 DEF SharedInv
<1>4. CASE /\ Unlock(g) /\ excused \subseteq excused'
           /\ \A h \in Tokens \ excused' : redeemed'[h] = redeemed[h]
           /\ GoesOn(p, {"begin", "validate", "respond", "local"})
           /\ req'[p].at = "local" => g \in excused'
           /\ redeemed[g] = 0 \/ g \in excused'
  <2>1. \A h \in Tokens \ {g} : lock'[h] = lock[h]
    BY <1>0, <1>4 DEF Unlock, TypeOK
  <2>2. LockHeld'
    BY <1>2, <1>4, <2>1 DEF SharedInv, LockHeld, GoesOn
  <2>3. RedeemsFirst'
    BY <1>2, <1>4 DEF SharedInv, RedeemsFirst, GoesOn, g
  <2>4. Shared'
    <3> SUFFICES ASSUME NEW h \in Tokens \ excused', redeemed'[h] # 0, h \notin stored
                 PROVE  \E q \in Requests :
                          /\ lock'[h] = q /\ req'[q].at = "store"
                          /\ req'[q].sent.refresh = h
      BY <1>1 DEF Shared
    <3>1. h # g /\ h \notin excused /\ redeemed[h] # 0
      BY <1>4
    <3>2. PICK q \in Requests : /\ lock[h] = q /\ req[q].at = "store"
                                /\ req[q].sent.refresh = h
      BY <3>1 DEF SharedInv, Shared
    <3> QED
      BY <1>0, <1>4, <2>1, <3>1, <3>2 DEF GoesOn
  <2>5. RedeemedOnce'
    BY <1>4 DEF SharedInv, RedeemedOnce
  <2> QED
    BY <2>2, <2>3, <2>4, <2>5 DEF SharedInv
<1>5. ASSUME NEW dead \in BOOLEAN, RefreshFailed(p, dead)
      PROVE  /\ GoesOn(p, {"begin", "validate", "respond", "local"})
             /\ req'[p].at # "local"
  BY <1>0, <1>5, RefreshFailedFacts DEF GoesOn
<1>6. CASE Refuse(g) /\ RefreshFailed(p, TRUE) /\ Unlock(g) /\ UNCHANGED excused
  <2>1. redeemed' = redeemed
    BY <1>6 DEF Refuse
  <2> QED
    BY <1>1, <1>4, <1>5, <1>6, <2>1
<1>7. CASE /\ UNCHANGED cns \/ Rotate(g)
           /\ Goto(p, "local") \/ RefreshFailed(p, FALSE)
           /\ Excuse(g) /\ Unlock(g)
  <2>1. \A h \in Tokens \ {g} : redeemed'[h] = redeemed[h]
    BY <1>0, <1>7, RotateFacts DEF cns
  <2>2. GoesOn(p, {"begin", "validate", "respond", "local"})
    BY <1>0, <1>5, <1>7, GotoFacts DEF GoesOn, Steps
  <2>3. g \in excused' /\ excused \subseteq excused'
    BY <1>7 DEF Excuse
  <2> QED
    BY <1>4, <1>7, <2>1, <2>2, <2>3
<1> QED
  BY <1>3, <1>6, <1>7 DEF Redeem, g

\* The result is stored before the lock is released, or the token excused.
LEMMA StoreResultStep ==
  ASSUME TypeInv, SharedInv, NEW p \in Requests, StoreResult(p)
  PROVE  SharedInv'
<1> DEFINE g == req[p].sent.refresh
<1>0. /\ TypeOK /\ g \in Redeemed /\ g \in Tokens /\ g + 1 \in Tokens
      /\ req[p].at = "store" /\ lock[g] = p
  BY TokenFacts DEF TypeInv, TokensKnown, StoreResult, At, SharedInv, LockHeld
<1>1. /\ redeemed' = redeemed /\ Unlock(g) /\ excused \subseteq excused'
      /\ stored \subseteq stored' /\ (g \in stored' \/ g \in excused')
      /\ Refreshed(p, g + 1)
  BY DEF StoreResult, cns, Excuse
<1> HIDE DEF g
<1>2. GoesOn(p, {"respond", "validate"})
  BY <1>0, <1>1, RefreshedFacts
<1>3. \A h \in Tokens \ {g} : lock'[h] = lock[h]
  BY <1>0, <1>1 DEF Unlock, TypeOK
<1>4. ASSUME NEW q \in Requests \ {p}, req[q].at \in {"redeem", "store"}
      PROVE  req[q].sent.refresh \in Tokens \ {g}
  BY <1>0, <1>4 DEF TypeInv, TokensKnown, SharedInv, LockHeld
<1>5. LockHeld'
  BY <1>2, <1>3, <1>4 DEF SharedInv, LockHeld, GoesOn
<1>6. RedeemsFirst'
  BY <1>1, <1>2 DEF SharedInv, RedeemsFirst, GoesOn
<1>7. Shared'
  <2> SUFFICES ASSUME NEW h \in Tokens \ excused', redeemed[h] # 0, h \notin stored'
               PROVE  \E q \in Requests :
                        /\ lock'[h] = q /\ req'[q].at = "store"
                        /\ req'[q].sent.refresh = h
    BY <1>1 DEF Shared
  <2>1. h # g
    BY <1>1
  <2>2. PICK q \in Requests : /\ lock[h] = q /\ req[q].at = "store"
                              /\ req[q].sent.refresh = h
    BY <1>1 DEF SharedInv, Shared
  <2> QED
    BY <1>0, <1>2, <1>3, <2>1, <2>2 DEF GoesOn, g
<1>8. RedeemedOnce'
  BY <1>1 DEF SharedInv, RedeemedOnce
<1> QED
  BY <1>5, <1>6, <1>7, <1>8 DEF SharedInv

\* A result that expires takes its redemption along.
LEMMA ResultExpiresStep ==
  ASSUME TypeInv, SharedInv, NEW g \in Tokens, ResultExpires(g)
  PROVE  SharedInv'
<1>1. UNCHANGED <<req, lock, excused>>
  BY DEF ResultExpires
<1>2. CASE UNCHANGED <<stored, redeemed>>
  BY <1>1, <1>2, SharedKept
<1>3. CASE /\ stored' = stored \ {g}
           /\ redeemed' = [redeemed EXCEPT ![g] = 0]
  <2>1. redeemed'[g] = 0 /\ \A h \in Tokens \ {g} : redeemed'[h] = redeemed[h]
    BY <1>3 DEF TypeInv, TypeOK
  <2>2. LockHeld'
    BY <1>1 DEF SharedInv, LockHeld
  <2>3. RedeemsFirst'
    <3>1. \A p \in Requests : req[p].at = "redeem" => req[p].sent.refresh \in Tokens
      BY DEF TypeInv, TokensKnown
    <3> QED
      BY <1>1, <2>1, <3>1 DEF SharedInv, RedeemsFirst
  <2>4. Shared'
    BY <1>1, <1>3, <2>1 DEF SharedInv, Shared
  <2>5. RedeemedOnce'
    BY <1>1, <2>1 DEF SharedInv, RedeemedOnce
  <2> QED
    BY <2>2, <2>3, <2>4, <2>5 DEF SharedInv
<1> QED
  BY <1>2, <1>3 DEF ResultExpires

\* A replica that dies while it holds the lock on a token excuses the token.
LEMMA CrashStep ==
  ASSUME TypeInv, SharedInv, NEW r \in Replicas, Crash(r)
  PROVE  SharedInv'
<1>0. TypeOK /\ \A p \in Requests : req[p].at \in {"redeem", "store", "local"} =>
                  req[p].sent.refresh \in Tokens
  BY DEF TypeInv, TokensKnown
<1>1. /\ UNCHANGED <<stored, redeemed>> /\ excused \subseteq excused'
      /\ \A p \in Requests : req'[p] = IF req[p].replica = r THEN NoRequest ELSE req[p]
      /\ \A g \in Tokens : lock'[g] = IF \E p \in Requests :
                                            lock[g] = p /\ req[p].replica = r
                                      THEN None ELSE lock[g]
      /\ \A g \in Tokens : lock[g] # lock'[g] => g \in excused'
  BY DEF Crash, cns
<1>2. LockHeld'
  BY <1>0, <1>1, NoRequestFacts DEF SharedInv, LockHeld
<1>3. RedeemsFirst'
  BY <1>0, <1>1, NoRequestFacts DEF SharedInv, RedeemsFirst
<1>4. Shared'
  <2> SUFFICES ASSUME NEW g \in Tokens \ excused', redeemed[g] # 0, g \notin stored
               PROVE  \E q \in Requests :
                        /\ lock'[g] = q /\ req'[q].at = "store"
                        /\ req'[q].sent.refresh = g
    BY <1>1 DEF Shared
  <2>1. PICK q \in Requests : /\ lock[g] = q /\ req[q].at = "store"
                              /\ req[q].sent.refresh = g
    BY <1>1 DEF SharedInv, Shared
  <2>2. lock'[g] = q
    BY <1>1, <2>1
  <2>3. req[q].replica # r
    BY <1>1, <2>1, <2>2, TokenFacts
  <2> QED
    BY <1>1, <2>1, <2>2, <2>3
<1>5. RedeemedOnce'
  BY <1>1 DEF SharedInv, RedeemedOnce
<1> QED
  BY <1>2, <1>3, <1>4, <1>5 DEF SharedInv

\* The other steps of a request leave locks and shared results alone; what they
\* redeem without the lock is excused.
LEMMA OwnSteps ==
  ASSUME TypeInv, SharedInv, NEW p \in Requests,
         \/ CheckExpiry(p) \/ BeginRefresh(p) \/ LockTimesOut(p)
         \/ RefreshLocally(p) \/ Validate(p) \/ Respond(p)
  PROVE  SharedInv'
<1> DEFINE g == req[p].sent.refresh
<1> DEFINE r == req[p].replica
<1>0. /\ TypeOK /\ req[p].at \notin {"redeem", "store"} /\ req[p].at # "idle"
      /\ UNCHANGED <<stored, lock>>
  BY DEF TypeInv, CheckExpiry, BeginRefresh, LockTimesOut, RefreshLocally,
         Validate, Respond, At, store
<1>1. r \in Replicas
  BY <1>0 DEF TypeInv, TokensKnown
<1> HIDE DEF g, r
<1> DEFINE Quiet == {"begin", "lock", "validate", "respond"}
<1>2. ASSUME GoesOn(p, Quiet), excused \subseteq excused',
             \A h \in Tokens \ excused' : redeemed'[h] = redeemed[h]
      PROVE  SharedInv'
  BY <1>0, <1>2, SharedKept DEF GoesOn
<1>3. ASSUME NEW step \in Quiet, Goto(p, step)
      PROVE  GoesOn(p, Quiet)
  BY <1>0, <1>3, GotoFacts DEF GoesOn, Steps
<1>4. ASSUME NEW h \in Redeemed, Refreshed(p, h + 1)
      PROVE  GoesOn(p, Quiet)
  BY <1>0, <1>4, TokenFacts, RefreshedFacts DEF GoesOn
<1>5. ASSUME NEW dead \in BOOLEAN, RefreshFailed(p, dead)
      PROVE  GoesOn(p, Quiet)
  BY <1>0, <1>5, RefreshFailedFacts DEF GoesOn
<1>6. CASE CheckExpiry(p)
  <2>1. UNCHANGED <<excused, redeemed>> /\ \E step \in Quiet : Goto(p, step)
    BY <1>6 DEF CheckExpiry, cns, store
  <2> QED
    BY <1>2, <1>3, <2>1
<1>7. CASE BeginRefresh(p)
  <2>1. CASE Goto(p, "lock") /\ UNCHANGED excused
    BY <1>2, <1>3, <1>7, <2>1 DEF BeginRefresh, cns
  <2>2. CASE Goto(p, "local") /\ Excuse(g)
    <3>1. GoesOn(p, {"local"})
      BY <1>0, <2>2, GotoFacts DEF Steps
    <3>2. excused \subseteq excused' /\ g \in excused' /\ redeemed' = redeemed
      BY <1>7, <2>2 DEF BeginRefresh, Excuse, cns
    <3> QED
      BY <1>0, <3>1, <3>2, SharedKept DEF GoesOn, g
  <2> QED
    BY <1>7, <2>1, <2>2 DEF BeginRefresh, g
<1>8. CASE LockTimesOut(p)
  <2>1. UNCHANGED <<excused, redeemed>>
    BY <1>8 DEF LockTimesOut, cns, store
  <2>2. g \in local[r] => g \in Redeemed
    BY <1>1 DEF TypeInv, TokensKnown
  <2> QED
    BY <1>2, <1>4, <1>5, <1>8, <2>1, <2>2 DEF LockTimesOut, g, r
<1>9. CASE RefreshLocally(p)
  <2>1. g \in excused /\ g \in Tokens /\ UNCHANGED excused
    BY <1>9 DEF RefreshLocally, At, SharedInv, RedeemsFirst, TypeInv,
                TokensKnown, g
  <2>2. \A h \in Tokens \ {g} : redeemed'[h] = redeemed[h]
    BY <1>0, <1>9, <2>1, RotateFacts DEF RefreshLocally, Refuse, cns, g
  <2>3. GoesOn(p, Quiet)
    <3>1. g \in local[r] \/ Rotate(g) => g \in Redeemed
      BY <1>0, <1>1, <2>1, RotateFacts DEF TypeInv, TokensKnown
    <3> QED
      BY <1>4, <1>5, <1>9, <3>1 DEF RefreshLocally, g, r
  <2> QED
    BY <1>2, <2>1, <2>2, <2>3
<1>10. CASE Validate(p)
  <2>1. UNCHANGED <<excused, redeemed>>
    BY <1>10 DEF Validate, store
  <2>2. req[p] \in RequestStates
    BY <1>0, RequestTypes
  <2>3. ASSUME NEW set \in [access: Tokens \cup {None, Keep},
                            refresh: Tokens \cup {None, Keep}],
               MiddlewareDone(p, set)
        PROVE  GoesOn(p, Quiet)
    BY <1>0, <2>3, MiddlewareDoneFacts DEF GoesOn
  <2>4. ASSUME req' = [req EXCEPT ![p].at = "begin", ![p].round = "again"]
        PROVE  GoesOn(p, Quiet)
    <3>1. req' = [req EXCEPT ![p] =
                    [req[p] EXCEPT !.at = "begin", !.round = "again"]]
      BY <1>0, <2>2, <2>4 DEF RequestStates, TypeOK
    <3> QED
      BY <1>0, <2>2, <3>1 DEF GoesOn, RequestStates, TypeOK, Steps, Rounds
  <2>5. /\ NoCookies \in [access: Tokens \cup {None, Keep},
                           refresh: Tokens \cup {None, Keep}]
        /\ req[p].set \in [access: Tokens \cup {None, Keep},
                            refresh: Tokens \cup {None, Keep}]
    BY <2>2 DEF NoCookies, RequestStates
  <2>6. GoesOn(p, Quiet)
    BY <1>10, <2>3, <2>4, <2>5 DEF Validate
  <2> QED
    BY <1>2, <2>1, <2>6
<1>11. CASE Respond(p)
  <2>1. UNCHANGED <<excused, redeemed>> /\ req' = [req EXCEPT ![p] = NoRequest]
    BY <1>11 DEF Respond, cns, store
  <2>2. req'[p] = NoRequest /\ \A q \in Requests \ {p} : req'[q] = req[q]
    BY <1>0, <2>1 DEF TypeOK
  <2> QED
    BY <1>0, <2>1, <2>2, SharedKept, NoRequestFacts
<1> QED
  BY <1>6, <1>7, <1>8, <1>9, <1>10, <1>11

\* A client that hangs up takes its request and its lock along; a token that CNS
\* has redeemed for it is excused.
LEMMA HangUpStep ==
  ASSUME TypeInv, SharedInv, NEW p \in Requests, HangUp(p)
  PROVE  SharedInv'
<1> DEFINE g == req[p].sent.refresh
<1>0. /\ TypeOK /\ stored' = stored /\ excused \subseteq excused'
      /\ req'[p].at = "idle" /\ \A q \in Requests \ {p} : req'[q] = req[q]
  BY NoRequestFacts DEF HangUp, Excuse, TypeInv, TypeOK
<1>1. req[p].at \in {"redeem", "store", "local"} => g \in Tokens
  BY DEF TypeInv, TokensKnown
<1> HIDE DEF g
<1>2. \A h \in Tokens \ excused' : redeemed'[h] = redeemed[h]
  <2>1. CASE redeemed' = redeemed
    BY <2>1
  <2>2. CASE g \in Tokens /\ Rotate(g) /\ Excuse(g)
    BY <1>0, <2>2, RotateFacts DEF Excuse
  <2> QED
    BY <1>1, <2>1, <2>2 DEF HangUp, Refuse, cns, At, g
<1>3. CASE req[p].at \notin {"redeem", "store"}
  <2>1. lock' = lock
    BY <1>3 DEF HangUp, At
  <2> QED
    BY <1>0, <1>2, <1>3, <2>1, SharedKept
<1>4. CASE req[p].at \in {"redeem", "store"}
  <2>1. Unlock(g) /\ g \in Tokens /\ lock[g] = p
    BY <1>1, <1>4 DEF HangUp, At, SharedInv, LockHeld, g
  <2>2. \A h \in Tokens \ {g} : lock'[h] = lock[h]
    BY <1>0, <2>1 DEF Unlock, TypeOK
  <2>3. ASSUME NEW q \in Requests \ {p}, req[q].at \in {"redeem", "store"}
        PROVE  req[q].sent.refresh \in Tokens \ {g}
    BY <2>1, <2>3 DEF TypeInv, TokensKnown, SharedInv, LockHeld
  <2>4. LockHeld'
    BY <1>0, <2>2, <2>3 DEF SharedInv, LockHeld
  <2>5. RedeemsFirst'
    <3>1. \A q \in Requests : req[q].at \in {"redeem", "local"} =>
            req[q].sent.refresh \in Tokens
      BY DEF TypeInv, TokensKnown
    <3> QED
      BY <1>0, <1>2, <3>1 DEF SharedInv, RedeemsFirst
  <2>6. redeemed[g] = 0 \/ g \in excused'
    BY <1>0, <1>4, <2>1 DEF HangUp, At, Excuse, SharedInv, RedeemsFirst, g
  <2>7. Shared'
    <3> SUFFICES ASSUME NEW h \in Tokens \ excused', redeemed[h] # 0, h \notin stored
                 PROVE  \E q \in Requests :
                          /\ lock'[h] = q /\ req'[q].at = "store"
                          /\ req'[q].sent.refresh = h
      BY <1>0, <1>2 DEF Shared
    <3>1. h # g
      BY <2>6
    <3>2. PICK q \in Requests : /\ lock[h] = q /\ req[q].at = "store"
                                /\ req[q].sent.refresh = h
      BY <1>0 DEF SharedInv, Shared
    <3> QED
      BY <1>0, <2>2, <3>1, <3>2 DEF g
  <2>8. RedeemedOnce'
    BY <1>0, <1>2 DEF SharedInv, RedeemedOnce
  <2> QED
    BY <2>4, <2>5, <2>7, <2>8 DEF SharedInv
<1> QED
  BY <1>3, <1>4

\* Every step keeps redemptions apart.
LEMMA SharedStep ==
  ASSUME TypeInv, SharedInv, [Next]_vars
  PROVE  SharedInv'
<1>1. CASE UNCHANGED vars
  BY <1>1, SharedKept DEF vars, cns, store
<1>2. ASSUME NEW p \in Requests, NEW r \in Replicas, Send(p, r)
      PROVE  SharedInv'
  <2>1. UNCHANGED <<stored, lock, excused, redeemed>>
    BY <1>2 DEF Send, cns, store
  <2>2. /\ req[p].at = "idle" /\ req'[p].at = "check"
        /\ \A q \in Requests \ {p} : req'[q] = req[q]
    BY <1>2 DEF Send, At, NoRequest, TypeInv, TypeOK
  <2> QED
    BY <2>1, <2>2, SharedKept
<1>3. ASSUME NEW g \in Tokens, AccessAges(g) \/ AccessExpires(g) \/ GraceEnds
      PROVE  SharedInv'
  <2>1. UNCHANGED <<stored, lock, excused, redeemed, req>>
    BY <1>3 DEF AccessAges, AccessExpires, GraceEnds, cns, store
  <2> QED
    BY <2>1, SharedKept
<1>4. \E g \in Tokens : TRUE
  BY MaxGenAssumption DEF Tokens
<1> QED
  BY <1>1, <1>2, <1>3, <1>4, OwnSteps, AcquireLockStep, RedeemStep,
     StoreResultStep, HangUpStep, ResultExpiresStep, CrashStep
     DEF Next, Serve

----------------------------------------------------------------------------
(* Cookies *)

\* What clears cookies is a refusal, and refusals are not forgotten.
LEMMA ClearsKept ==
  ASSUME RefusedInv, refusals \subseteq refusals', cookies' = cookies,
         \A p \in Requests : Clears(p)' => Clears(p) \/ refusals' # {}
  PROVE  RefusedInv'
<1>1. refusals # {} => refusals' # {}
  OBVIOUS
<1>2. ClearsRefused'
  BY <1>1 DEF RefusedInv, ClearsRefused, Clears
<1>3. SignedOutOnlyIfRefused'
  BY <1>1 DEF RefusedInv, SignedOutOnlyIfRefused
<1> QED
  BY <1>2, <1>3 DEF RefusedInv

\* The steps of a request before its response.
LEMMA ServeClears ==
  ASSUME TypeInv, RefusedInv, NEW p \in Requests,
         \/ CheckExpiry(p) \/ BeginRefresh(p) \/ AcquireLock(p)
         \/ LockTimesOut(p) \/ Redeem(p) \/ StoreResult(p) \/ RefreshLocally(p)
         \/ Validate(p)
  PROVE  RefusedInv'
<1> DEFINE g == req[p].sent.refresh
<1> DEFINE r == req[p].replica
<1>0. TypeOK /\ req[p] \in RequestStates /\ cookies' = cookies
  BY RequestTypes DEF TypeInv, CheckExpiry, BeginRefresh, AcquireLock,
                      LockTimesOut, Redeem, StoreResult, RefreshLocally,
                      Validate, browser
<1> HIDE DEF g, r
<1>1. ASSUME NEW steps, GoesOn(p, steps), refusals \subseteq refusals',
             Clears(p)' => Clears(p) \/ refusals' # {}
      PROVE  RefusedInv'
  <2>1. \A q \in Requests : Clears(q)' => Clears(q) \/ refusals' # {}
    BY <1>1 DEF GoesOn, Clears
  <2> QED
    BY <1>0, <1>1, <2>1, ClearsKept
<1>2. ASSUME NEW step \in Steps, Goto(p, step), refusals \subseteq refusals'
      PROVE  RefusedInv'
  BY <1>0, <1>1, <1>2, GotoFacts
<1>3. ASSUME NEW h \in Redeemed, Refreshed(p, h + 1), refusals \subseteq refusals'
      PROVE  RefusedInv'
  BY <1>0, <1>1, <1>3, TokenFacts, RefreshedFacts
<1>4. ASSUME NEW dead \in BOOLEAN, RefreshFailed(p, dead),
             refusals \subseteq refusals', dead => refusals' # {}
      PROVE  RefusedInv'
  BY <1>0, <1>1, <1>4, RefreshFailedFacts
<1>5. Rotate(g) => refusals' = refusals
  BY DEF Rotate
<1>6. Refuse(g) => refusals \subseteq refusals' /\ refusals' # {}
  BY DEF Refuse
<1>7. UNCHANGED cns => refusals' = refusals
  BY DEF cns
<1>8. CASE CheckExpiry(p)
  BY <1>2, <1>7, <1>8 DEF CheckExpiry, Steps
<1>9. CASE BeginRefresh(p)
  BY <1>2, <1>7, <1>9 DEF BeginRefresh, Steps
<1>10. CASE AcquireLock(p)
  <2>1. g \in stored => g \in Redeemed
    BY DEF TypeInv, TokensKnown
  <2> QED
    BY <1>2, <1>3, <1>7, <1>10, <2>1 DEF AcquireLock, Steps, g
<1>11. ASSUME req[p].at = "local" \/ LockTimesOut(p), g \in local[r]
       PROVE  g \in Redeemed
  <2>1. r \in Replicas
    BY <1>11 DEF TypeInv, TokensKnown, LockTimesOut, At, r
  <2> QED
    BY <1>11, <2>1 DEF TypeInv, TokensKnown
<1>12. CASE LockTimesOut(p)
  BY <1>3, <1>4, <1>7, <1>11, <1>12 DEF LockTimesOut, g, r
<1>13. CASE Redeem(p)
  BY <1>2, <1>4, <1>5, <1>6, <1>7, <1>13 DEF Redeem, Steps, g
<1>14. CASE StoreResult(p)
  <2>1. g \in Redeemed
    BY <1>14 DEF StoreResult, At, TypeInv, TokensKnown, g
  <2> QED
    BY <1>3, <1>7, <1>14, <2>1 DEF StoreResult, g
<1>15. CASE RefreshLocally(p)
  <2>1. g \in Tokens /\ req[p].at = "local"
    BY <1>15 DEF RefreshLocally, At, TypeInv, TokensKnown, g
  <2>2. Rotate(g) => g \in Redeemed
    BY <1>0, <2>1, RotateFacts
  <2> QED
    BY <1>3, <1>4, <1>5, <1>6, <1>7, <1>11, <1>15, <2>1, <2>2
       DEF RefreshLocally, g, r
<1>16. CASE Validate(p)
  <2>1. refusals \subseteq refusals'
    BY <1>16 DEF Validate
  <2>2. ASSUME NEW set \in [access: Tokens \cup {None, Keep},
                            refresh: Tokens \cup {None, Keep}],
               MiddlewareDone(p, set),
               set.refresh = None => Clears(p) \/ refusals' # {}
        PROVE  RefusedInv'
    BY <1>0, <1>1, <2>1, <2>2, MiddlewareDoneFacts
  <2>3. /\ NoCookies \in [access: Tokens \cup {None, Keep},
                           refresh: Tokens \cup {None, Keep}]
        /\ req[p].set \in [access: Tokens \cup {None, Keep},
                            refresh: Tokens \cup {None, Keep}]
    BY <1>0 DEF NoCookies, RequestStates
  <2>4. CASE \/ MiddlewareDone(p, req[p].set)
             \/ req[p].round = "again" /\ MiddlewareDone(p, NoCookies)
    BY <2>2, <2>3, <2>4 DEF Clears
  <2>5. CASE /\ refusals' = refusals \cup {"access"}
             /\ \/ req' = [req EXCEPT ![p].at = "begin", ![p].round = "again"]
                \/ MiddlewareDone(p, NoCookies)
    <3>1. CASE req' = [req EXCEPT ![p].at = "begin", ![p].round = "again"]
      <4>1. \A q \in Requests \ {p} : req'[q] = req[q]
        BY <1>0, <3>1 DEF TypeOK
      <4>2. \A q \in Requests : Clears(q)' => Clears(q) \/ refusals' # {}
        BY <2>5, <4>1 DEF Clears
      <4> QED
        BY <1>0, <2>1, <4>2, ClearsKept
    <3> QED
      BY <2>2, <2>3, <2>5, <3>1
  <2> QED
    BY <1>16, <2>4, <2>5 DEF Validate
<1> QED
  BY <1>8, <1>9, <1>10, <1>12, <1>13, <1>14, <1>15, <1>16

\* Every step keeps the reason why a browser is signed out.
LEMMA RefusedStep ==
  ASSUME TypeInv, RefusedInv, [Next]_vars
  PROVE  RefusedInv'
<1>0. TypeOK
  BY DEF TypeInv
<1>1. CASE UNCHANGED vars
  BY <1>1, ClearsKept DEF vars, cns, browser, Clears
<1>2. ASSUME NEW p \in Requests, NEW r \in Replicas, Send(p, r)
      PROVE  RefusedInv'
  <2>1. refusals' = refusals /\ cookies' = cookies
    BY <1>2 DEF Send, cns, browser
  <2>2. /\ req'[p].round = "first" /\ req'[p].set.refresh = Keep
        /\ \A q \in Requests \ {p} : req'[q] = req[q]
    BY <1>0, <1>2 DEF Send, NoRequest, KeepCookies, TypeOK
  <2> QED
    BY <2>1, <2>2, TokenFacts, ClearsKept DEF Clears
<1>3. ASSUME NEW p \in Requests, Respond(p) \/ HangUp(p)
      PROVE  RefusedInv'
  <2>1. refusals \subseteq refusals' /\ req' = [req EXCEPT ![p] = NoRequest]
    BY <1>3 DEF Respond, HangUp, Rotate, Refuse, cns
  <2>2. req'[p] = NoRequest /\ \A q \in Requests \ {p} : req'[q] = req[q]
    BY <1>0, <2>1 DEF TypeOK
  <2>3. ClearsRefused'
    BY <2>1, <2>2, TokenFacts, NoRequestFacts DEF RefusedInv, ClearsRefused
  <2>4. cookies'.refresh = None =>
          cookies.refresh = None \/ req[p].set.refresh = None
    BY <1>3, TokenFacts DEF Respond, HangUp, browser
  <2>5. SignedOutOnlyIfRefused'
    BY <2>1, <2>4 DEF RefusedInv, ClearsRefused, SignedOutOnlyIfRefused
  <2> QED
    BY <2>3, <2>5 DEF RefusedInv
<1>4. ASSUME NEW g \in Tokens,
             AccessAges(g) \/ AccessExpires(g) \/ ResultExpires(g) \/ GraceEnds
      PROVE  RefusedInv'
  <2>1. UNCHANGED <<refusals, cookies, req>>
    BY <1>4 DEF AccessAges, AccessExpires, ResultExpires, GraceEnds, cns,
                browser
  <2> QED
    BY <2>1, ClearsKept DEF Clears
<1>5. ASSUME NEW r \in Replicas, Crash(r)
      PROVE  RefusedInv'
  <2>1. refusals' = refusals /\ cookies' = cookies
    BY <1>5 DEF Crash, cns, browser
  <2>2. \A p \in Requests : req'[p] = req[p] \/ req'[p] = NoRequest
    BY <1>5 DEF Crash
  <2> QED
    BY <2>1, <2>2, TokenFacts, NoRequestFacts, ClearsKept DEF Clears
<1>6. \E g \in Tokens : TRUE
  BY MaxGenAssumption DEF Tokens
<1> QED
  BY <1>1, <1>2, <1>3, <1>4, <1>5, <1>6, ServeClears DEF Next, Serve

----------------------------------------------------------------------------
(* Theorems *)

\* Signed in with the first tokens, and nothing redeemed yet.
LEMMA InitInv ==
  ASSUME Init
  PROVE  TypeInv /\ SharedInv /\ RefusedInv
<1>1. 0 \in Tokens /\ 0 \in Nat /\ 0 # None
  BY MaxGenAssumption, NoneAssumption DEF Tokens
<1>2. \A p \in Requests : req[p] = NoRequest
  BY DEF Init
<1>3. TypeOK
  <2>1. redeemed \in [Tokens -> 0 .. 2]
    BY DEF Init
  <2>2. cookies \in Cookies
    BY <1>1 DEF Init, Cookies
  <2>3. lock \in [Tokens -> Requests \cup {None}]
    BY DEF Init
  <2>4. local \in [Replicas -> SUBSET Tokens] /\ req \in [Requests -> RequestStates]
    BY NoRequestFacts DEF Init
  <2> QED
    BY <1>1, <2>1, <2>2, <2>3, <2>4 DEF Init, TypeOK
<1>4. TokensKnown
  BY <1>2, NoRequestFacts DEF Init, TokensKnown
<1>5. SharedInv
  BY <1>2, NoRequestFacts
     DEF Init, SharedInv, LockHeld, RedeemsFirst, Shared, RedeemedOnce
<1>6. RefusedInv
  BY <1>1, <1>2, TokenFacts, NoRequestFacts
     DEF Init, RefusedInv, ClearsRefused, SignedOutOnlyIfRefused
<1> QED
  BY <1>3, <1>4, <1>5, <1>6 DEF TypeInv

\* Requests and tokens have their types, and the sharing of redemptions and the
\* reasons for clearing cookies stay as they should.
THEOREM TokensCorrect == Spec => [](TypeInv /\ SharedInv /\ RefusedInv)
<1>1. Init => TypeInv /\ SharedInv /\ RefusedInv
  BY InitInv
<1>2. TypeInv /\ SharedInv /\ RefusedInv /\ [Next]_vars
        => (TypeInv /\ SharedInv /\ RefusedInv)'
  BY TypeStep, SharedStep, RefusedStep
<1> QED
  BY <1>1, <1>2, PTL DEF Spec

\* No refresh token is redeemed twice while the result of its redemption is
\* shared, on any number of replicas, unless a fault met its redemption or the
\* client it was redeemed for hung up before the result was committed
\* (SharedRefresh).
THEOREM Redemptions == Spec => []RedeemedOnce
<1>1. SharedInv => RedeemedOnce
  BY DEF SharedInv
<1> QED
  BY <1>1, TokensCorrect, PTL

\* The browser loses its refresh token only after CNS has refused one of its
\* tokens (CNSAuthMiddleware, Refresh).
THEOREM SignedOut == Spec => []SignedOutOnlyIfRefused
<1>1. RefusedInv => SignedOutOnlyIfRefused
  BY DEF RefusedInv
<1> QED
  BY <1>1, TokensCorrect, PTL
=============================================================================
