---------------------------- MODULE TokenRefresh ----------------------------
(***************************************************************************)
(* Staying signed in: CNSAuthMiddleware validates the access token of each *)
(* request and refreshes it, and POST /auth/refresh refreshes it on        *)
(* demand. CNS rotates the refresh token at every redemption; a token that *)
(* was rotated is accepted for another 10 seconds, and later counts as     *)
(* stolen, which revokes the session. Replicas therefore share the result  *)
(* of a redemption in PostgreSQL for 10 seconds.                           *)
(*                                                                         *)
(* The tokens of one browser session are numbered: redeeming refresh token *)
(* g gives access token g + 1 and refresh token g + 1. CNS is external and *)
(* modelled by what the code relies on. A step is one call to CNS, one     *)
(* exchange with the database, or the arrival of one response.             *)
(***************************************************************************)
EXTENDS Integers

CONSTANTS
  Replicas,
  Requests,      \* requests of the browser that may be in flight together
  Kinds,         \* what they ask for: a page, or POST /auth/refresh
  MaxGen,        \* how often the refresh token is rotated
  Outages,       \* may CNS fail to answer (network, 5xx)?
  StoreFaults,   \* may the database fail, and replicas die?
  None

ASSUME KindsAssumption == Kinds \subseteq {"page", "refresh"}
ASSUME MaxGenAssumption == MaxGen \in Nat \ {0}
ASSUME OutagesAssumption == Outages \in BOOLEAN
ASSUME StoreFaultsAssumption == StoreFaults \in BOOLEAN

Tokens == 0 .. MaxGen

VARIABLES
  current,       \* CNS: the refresh token that is redeemed next
  grace,         \* CNS: current - 1 was rotated less than 10 seconds ago
  revoked,       \* CNS: the session is revoked
  valid,         \* CNS: the access tokens it accepts
  refusals,      \* which kinds of token CNS has answered 401 or 403 to
  redeemed,      \* how often CNS has redeemed each refresh token since its last
                 \* shared result expired, up to 2
  cookies,       \* the browser's auth_token and refresh_token
  aging,         \* access tokens whose auth_expires_at is less than 60 s away
  excused,       \* tokens whose redemption met with a fault of CNS, the database or
                 \* a replica, or lost its client before the result was shared
  stored,        \* the tokens with an unexpired row in token_refresh_results
  lock,          \* the request that holds the advisory lock on a token
  local,         \* results each replica remembers itself
  req            \* the requests in flight

cns == <<current, grace, revoked, valid, refusals, redeemed>>
store == <<stored, lock, local, excused>>
browser == <<cookies, aging>>
vars == <<cns, store, browser, req>>

Steps == {"idle", "check", "begin", "lock", "redeem", "store", "local",
          "validate", "respond"}

\* Which refresh of a request it is: CNSAuthMiddleware tries before and after
\* the validation, then the Refresh handler does.
Rounds == {"first", "again", "handler"}

Keep == -1
Cookies == [access: Tokens \cup {None}, refresh: Tokens \cup {None}]
KeepCookies == [access |-> Keep, refresh |-> Keep]
NoCookies == [access |-> None, refresh |-> None]

ASSUME NoneAssumption == None \notin Requests \cup Tokens \cup {Keep}

\* sent are the cookies of the request, token is the access token it goes on
\* with, set is what the response does to the cookies.
RequestStates ==
  [at: Steps, kind: {"page", "refresh"}, replica: Replicas \cup {None},
   sent: Cookies, token: Tokens \cup {None}, round: Rounds,
   set: [access: Tokens \cup {None, Keep}, refresh: Tokens \cup {None, Keep}]]

NoRequest ==
  [at |-> "idle", kind |-> "page", replica |-> None, sent |-> NoCookies,
   token |-> None, round |-> "first", set |-> KeepCookies]

TypeOK ==
  /\ current \in Tokens
  /\ grace \in BOOLEAN /\ revoked \in BOOLEAN
  /\ valid \subseteq Tokens
  /\ refusals \subseteq {"access", "refresh"}
  /\ redeemed \in [Tokens -> 0 .. 2]
  /\ cookies \in Cookies
  /\ aging \subseteq Tokens
  /\ stored \subseteq Tokens
  /\ excused \subseteq Tokens
  /\ lock \in [Tokens -> Requests \cup {None}]
  /\ local \in [Replicas -> SUBSET Tokens]
  /\ req \in [Requests -> RequestStates]

Init ==
  /\ current = 0 /\ grace = FALSE /\ revoked = FALSE
  /\ valid = {0} /\ refusals = {}
  /\ redeemed = [g \in Tokens |-> 0]
  /\ cookies = [access |-> 0, refresh |-> 0]
  /\ aging = {} /\ stored = {} /\ excused = {}
  /\ lock = [g \in Tokens |-> None]
  /\ local = [r \in Replicas |-> {}]
  /\ req = [p \in Requests |-> NoRequest]

----------------------------------------------------------------------------
(* Helpers *)

At(p, step) == req[p].at = step
Goto(p, step) == req' = [req EXCEPT ![p].at = step]

\* CNSAuthMiddleware is done; set is what it does to the cookies. A request to
\* the Refresh handler goes on there.
MiddlewareDone(p, set) ==
  req' = [req EXCEPT
    ![p].set = set,
    ![p].round = IF req[p].kind = "refresh" THEN "handler" ELSE @,
    ![p].at = IF req[p].kind = "refresh" THEN "begin" ELSE "respond"]

\* RefreshAccessToken returns token g: setAuthCookies, and on to the validation.
Refreshed(p, g) ==
  req' = [req EXCEPT
    ![p].token = g, ![p].set = [access |-> g, refresh |-> g],
    ![p].at = IF req[p].round = "handler" THEN "respond" ELSE "validate"]

\* RefreshAccessToken fails. A dead refresh token is cleared. The first round
\* goes on with the old access token; after the second clearAuthTokenCookie
\* clears everything.
RefreshFailed(p, dead) ==
  LET set == IF dead THEN [req[p].set EXCEPT !.refresh = None] ELSE req[p].set
  IN  \/ req[p].round = "first"
         /\ req' = [req EXCEPT ![p].at = "validate", ![p].set = set]
      \/ req[p].round = "again" /\ MiddlewareDone(p, NoCookies)
      \/ req[p].round = "handler"
         /\ req' = [req EXCEPT ![p].at = "respond", ![p].set = set]

Unlock(g) == lock' = [lock EXCEPT ![g] = None]
Excuse(g) == excused' = excused \cup {g}

\* What CNS does with refresh token g, redeemed for the first time or within
\* its grace period. Any other presentation is a theft.
Redeemable(g) == ~revoked /\ (g = current \/ (g = current - 1 /\ grace))

Rotate(g) ==
  /\ Redeemable(g) /\ g < MaxGen
  /\ current' = g + 1
  /\ grace' = TRUE
  /\ valid' = valid \cup {g + 1}
  /\ redeemed' = [redeemed EXCEPT ![g] = IF @ < 2 THEN @ + 1 ELSE @]
  /\ UNCHANGED <<revoked, refusals>>

Refuse(g) ==
  /\ ~Redeemable(g)
  /\ revoked' = TRUE
  /\ valid' = {}
  /\ refusals' = refusals \cup {"refresh"}
  /\ UNCHANGED <<current, grace, redeemed>>

----------------------------------------------------------------------------
(* The request arrives at CNSAuthMiddleware                                 *)

Send(p, r) ==
  /\ At(p, "idle")
  /\ cookies.access # None
  /\ \E kind \in Kinds :
       /\ kind = "refresh" => cookies.refresh \in 0 .. MaxGen - 1
       /\ req' = [req EXCEPT ![p] =
            [NoRequest EXCEPT !.at = "check", !.kind = kind, !.replica = r,
                              !.sent = cookies, !.token = cookies.access]]
  /\ UNCHANGED <<cns, store, browser>>

\* A token about to expire is refreshed first, if there is a refresh token.
CheckExpiry(p) ==
  /\ At(p, "check")
  /\ Goto(p, IF req[p].token \in aging /\ req[p].sent.refresh # None
               THEN "begin" ELSE "validate")
  /\ UNCHANGED <<cns, store, browser>>

----------------------------------------------------------------------------
(* RefreshAccessToken and SharedRefresh                                     *)

\* The database may be unreachable before anything is redeemed.
BeginRefresh(p) ==
  /\ At(p, "begin")
  /\ \/ Goto(p, "lock") /\ UNCHANGED excused
     \/ StoreFaults /\ Goto(p, "local") /\ Excuse(req[p].sent.refresh)
  /\ UNCHANGED <<cns, stored, lock, local, browser>>

\* Mutant: the stored results are not looked up again once the lock is held.
AcquireLockBlindly(p) ==
  /\ At(p, "lock")
  /\ LET g == req[p].sent.refresh IN
       /\ lock[g] = None
       /\ Goto(p, "redeem")
       /\ lock' = [lock EXCEPT ![g] = p]
  /\ UNCHANGED <<cns, stored, local, excused, browser>>

\* With the lock, a stored result is used instead of a second redemption.
AcquireLock(p) ==
  /\ At(p, "lock")
  /\ LET g == req[p].sent.refresh IN
       /\ lock[g] = None
       /\ IF g \in stored
            THEN Refreshed(p, g + 1) /\ UNCHANGED lock
            ELSE Goto(p, "redeem") /\ lock' = [lock EXCEPT ![g] = p]
  /\ UNCHANGED <<cns, stored, local, excused, browser>>

\* The wait for the lock takes the five seconds of the refresh: the local
\* refresh that follows has no time left to ask CNS.
LockTimesOut(p) ==
  /\ At(p, "lock")
  /\ Outages \/ StoreFaults
  /\ lock[req[p].sent.refresh] # None
  /\ IF req[p].sent.refresh \in local[req[p].replica]
       THEN Refreshed(p, req[p].sent.refresh + 1)
       ELSE RefreshFailed(p, FALSE)
  /\ UNCHANGED <<cns, store, browser>>

\* Mutant: the lock outlives a refresh that fails.
RedeemKeepsLock(p) ==
  /\ At(p, "redeem")
  /\ LET g == req[p].sent.refresh IN
       \/ Rotate(g) /\ Goto(p, "store") /\ UNCHANGED <<lock, excused>>
       \/ Refuse(g) /\ RefreshFailed(p, TRUE) /\ UNCHANGED <<lock, excused>>
       \/ /\ Outages
          /\ UNCHANGED cns \/ Rotate(g)
          /\ Goto(p, "local") \/ RefreshFailed(p, FALSE)
          /\ Excuse(g) /\ UNCHANGED lock
  /\ UNCHANGED <<stored, local, browser>>

\* requestTokenRefresh, under the lock. A network error is taken for one of the
\* database, so that the refresh is tried again locally; a 5xx is not.
Redeem(p) ==
  /\ At(p, "redeem")
  /\ LET g == req[p].sent.refresh IN
       \/ Rotate(g) /\ Goto(p, "store") /\ UNCHANGED <<lock, excused>>
       \/ Refuse(g) /\ RefreshFailed(p, TRUE) /\ Unlock(g) /\ UNCHANGED excused
       \/ /\ Outages
          /\ UNCHANGED cns \/ Rotate(g)   \* not reached, or the answer is lost
          /\ Goto(p, "local") \/ RefreshFailed(p, FALSE)
          /\ Excuse(g) /\ Unlock(g)
  /\ UNCHANGED <<stored, local, browser>>

\* The result is used even if storing it failed.
StoreResult(p) ==
  /\ At(p, "store")
  /\ LET g == req[p].sent.refresh IN
       /\ \/ stored' = stored \cup {g} /\ UNCHANGED excused
          \/ StoreFaults /\ Excuse(g) /\ UNCHANGED stored
       /\ Unlock(g)
       /\ Refreshed(p, g + 1)
  /\ UNCHANGED <<cns, local, browser>>

\* refreshAccessTokenLocally holds a mutex of its replica all the way through.
RefreshLocally(p) ==
  /\ At(p, "local")
  /\ LET g == req[p].sent.refresh
         r == req[p].replica
     IN \/ /\ g \in local[r]
           /\ Refreshed(p, g + 1)
           /\ UNCHANGED <<cns, local>>
        \/ /\ g \notin local[r]
           /\ \/ /\ Rotate(g) /\ Refreshed(p, g + 1)
                 /\ local' = [local EXCEPT ![r] = @ \cup {g}]
              \/ Refuse(g) /\ RefreshFailed(p, TRUE) /\ UNCHANGED local
              \/ /\ Outages
                 /\ UNCHANGED cns \/ Rotate(g)
                 /\ RefreshFailed(p, FALSE) /\ UNCHANGED local
  /\ UNCHANGED <<stored, lock, excused, browser>>

----------------------------------------------------------------------------
(* Validation and response                                                  *)

\* Mutant: an outage during the validation clears the cookies.
ValidateOrClear(p) ==
  /\ At(p, "validate")
  /\ \/ req[p].token \in valid /\ MiddlewareDone(p, req[p].set)
     \/ Outages /\ MiddlewareDone(p, NoCookies)
  /\ UNCHANGED <<cns, store, browser>>

\* Only a token CNS refuses leads to a refresh, the second one at most; a
\* network error or 5xx leaves the cookies alone.
Validate(p) ==
  /\ At(p, "validate")
  /\ \/ /\ req[p].token \in valid
        /\ MiddlewareDone(p, req[p].set)
        /\ UNCHANGED refusals
     \/ /\ req[p].token \notin valid
        /\ refusals' = refusals \cup {"access"}
        /\ IF req[p].round = "first" /\ req[p].sent.refresh # None
             THEN req' = [req EXCEPT ![p].at = "begin", ![p].round = "again"]
             ELSE MiddlewareDone(p, NoCookies)
     \/ /\ Outages
        /\ MiddlewareDone(p, IF req[p].round = "again" THEN NoCookies
                                                      ELSE req[p].set)
        /\ UNCHANGED refusals
  /\ UNCHANGED <<current, grace, revoked, valid, redeemed, store, browser>>

\* Responses arrive in any order; each one's cookies replace the browser's.
Respond(p) ==
  /\ At(p, "respond")
  /\ cookies' = [k \in {"access", "refresh"} |->
                   IF req[p].set[k] = Keep THEN cookies[k] ELSE req[p].set[k]]
  /\ req' = [req EXCEPT ![p] = NoRequest]
  /\ UNCHANGED <<cns, store, aging>>

\* The browser goes away, at any time: the request runs on the context of its
\* connection, so the call it waits for is given up. CNS may have dealt with the
\* refresh already, and whatever SharedRefresh did is rolled back.
HangUp(p) ==
  /\ ~At(p, "idle")
  /\ LET g == req[p].sent.refresh IN
       \/ /\ At(p, "redeem") \/ At(p, "local")
          /\ \/ Rotate(g) /\ Excuse(g)
             \/ Refuse(g) /\ UNCHANGED excused
          /\ IF At(p, "redeem") THEN Unlock(g) ELSE UNCHANGED lock
       \/ At(p, "redeem") /\ Unlock(g) /\ UNCHANGED <<cns, excused>>
       \/ At(p, "store") /\ Unlock(g) /\ Excuse(g) /\ UNCHANGED cns
       \/ /\ ~At(p, "redeem") /\ ~At(p, "store")
          /\ UNCHANGED <<cns, lock, excused>>
  /\ req' = [req EXCEPT ![p] = NoRequest]
  /\ UNCHANGED <<stored, local, browser>>

----------------------------------------------------------------------------
(* Time and failures. An access token lives for minutes: much longer than   *)
(* the 10 seconds of CNS and of the shared results.                         *)

AccessAges(g) ==
  /\ g \in valid \ aging /\ g < MaxGen /\ ~grace
  /\ aging' = aging \cup {g}
  /\ UNCHANGED <<cns, store, cookies, req>>

AccessExpires(g) ==
  /\ g \in valid \cap aging
  /\ valid' = valid \ {g}
  /\ UNCHANGED <<current, grace, revoked, refusals, redeemed, store, browser,
                 req>>

GraceEnds ==
  /\ grace
  /\ grace' = FALSE
  /\ UNCHANGED <<current, revoked, valid, refusals, redeemed, store, browser,
                 req>>

\* The row lasts 10 seconds from the start of the transaction that stored it
\* (NOW()), which began before CNS rotated the token: it may go before the grace
\* period ends. What a replica remembers lasts longer than that period.
ResultExpires(g) ==
  /\ \/ /\ g \in stored
        /\ stored' = stored \ {g}
        /\ redeemed' = [redeemed EXCEPT ![g] = 0]
        /\ UNCHANGED local
     \/ /\ \E r \in Replicas : g \in local[r]
        /\ ~(grace /\ g = current - 1)
        /\ local' = [r \in Replicas |-> local[r] \ {g}]
        /\ UNCHANGED <<stored, redeemed>>
  /\ UNCHANGED <<current, grace, revoked, valid, refusals, lock, excused,
                 browser, req>>

\* A replica dies; the database ends its transactions.
Crash(r) ==
  /\ StoreFaults
  /\ \E p \in Requests : req[p].replica = r
  /\ lock' = [g \in Tokens |-> IF \E p \in Requests :
                                    lock[g] = p /\ req[p].replica = r
                                 THEN None ELSE lock[g]]
  /\ excused' = excused \cup {g \in Tokens : lock[g] # lock'[g]}
  /\ local' = [local EXCEPT ![r] = {}]
  /\ req' = [p \in Requests |-> IF req[p].replica = r THEN NoRequest ELSE req[p]]
  /\ UNCHANGED <<cns, stored, browser>>

----------------------------------------------------------------------------

Serve(p) ==
  \/ CheckExpiry(p)
  \/ BeginRefresh(p)
  \/ AcquireLock(p)
  \/ Redeem(p)
  \/ StoreResult(p)
  \/ RefreshLocally(p)
  \/ Validate(p)
  \/ Respond(p)

Next ==
  \/ \E p \in Requests, r \in Replicas : Send(p, r)
  \/ \E p \in Requests : Serve(p) \/ LockTimesOut(p) \/ HangUp(p)
  \/ \E g \in Tokens : AccessAges(g) \/ AccessExpires(g) \/ ResultExpires(g)
  \/ GraceEnds
  \/ \E r \in Replicas : Crash(r)

Spec == Init /\ [][Next]_vars

\* Every call to CNS is bounded by a timeout, and PostgreSQL hands an advisory
\* lock to those who wait for it in turn. Nobody has to run into the timeout of
\* that wait.
FairSpec ==
  /\ Spec
  /\ \A p \in Requests : WF_vars(Serve(p)) /\ SF_vars(AcquireLock(p))

----------------------------------------------------------------------------
(* Properties *)

\* "runs refresh at most once per tokenID across all replicas within ttl": no
\* refresh token is redeemed twice before the shared result of its redemption
\* expires, however many requests present it on however many replicas and in
\* whatever order they answer, unless CNS, the database or a replica failed while
\* this very token was redeemed, or the client for which CNS had redeemed it hung
\* up before the result was committed. Clients that hang up at any other time, or
\* with another token, are no excuse.
RedeemedOnce == \A g \in Tokens \ excused : redeemed[g] <= 1

\* The same without excuse, which the code does not keep: even where CNS, the
\* database and every replica answer, the redemption of a client that hangs up is
\* not shared, and the next request redeems its token again.
RedeemedAtMostOnce == \A g \in Tokens : redeemed[g] <= 1

\* The browser loses its refresh token only after CNS refused one of its tokens.
SignedOutOnlyIfRefused == cookies.refresh = None => refusals # {}

\* "CNS being briefly unreachable ... must never sign the user out": the browser
\* keeps its refresh token until CNS refuses that token.
OutageKeepsSession == cookies.refresh = None => "refresh" \in refusals

\* A request does not wait for ever on other requests that present the same
\* token, even when the replica that redeems it dies.
EveryRequestAnswered ==
  \A p \in Requests : req[p].at # "idle" ~> req[p].at = "idle"

----------------------------------------------------------------------------
(* What the properties rest on *)

Redeemed == 0 .. MaxGen - 1   \* the tokens that can be redeemed

\* Who refreshes has a refresh token, and results are of tokens that were
\* redeemed.
TokensKnown ==
  /\ \A p \in Requests :
       /\ req[p].kind = "refresh"
            \/ req[p].at \in {"begin", "lock", "redeem", "store", "local"}
          => req[p].sent.refresh \in Tokens
       /\ req[p].at = "store" => req[p].sent.refresh \in Redeemed
       /\ req[p].at # "idle" => req[p].replica \in Replicas
  /\ stored \subseteq Redeemed
  /\ \A r \in Replicas : local[r] \subseteq Redeemed

\* A token is redeemed under its lock.
LockHeld ==
  \A p \in Requests : req[p].at \in {"redeem", "store"} =>
    lock[req[p].sent.refresh] = p

\* Whoever goes to redeem a token is the first; a refresh without the lock only
\* follows a fault.
RedeemsFirst ==
  \A p \in Requests :
    LET g == req[p].sent.refresh IN
    /\ req[p].at = "redeem" /\ g \notin excused => redeemed[g] = 0
    /\ req[p].at = "local" => g \in excused

\* What was redeemed is shared, or about to be.
Shared ==
  \A g \in Tokens \ excused : redeemed[g] # 0 =>
    \/ g \in stored
    \/ \E p \in Requests :
         lock[g] = p /\ req[p].at = "store" /\ req[p].sent.refresh = g

SharedInv == LockHeld /\ RedeemsFirst /\ Shared /\ RedeemedOnce

\* Cookies are only cleared by a response to a request that CNS has refused.
ClearsRefused ==
  \A p \in Requests :
    req[p].round = "again" \/ req[p].set.refresh = None => refusals # {}

RefusedInv == ClearsRefused /\ SignedOutOnlyIfRefused
=============================================================================
