CONSTANTS
  r1 = r1  r2 = r2
  q1 = q1  q2 = q2  q3 = q3
  None = None
  Replicas = {r1, r2}
  Requests = {q1, q2}
  Kinds = {"refresh"}
  MaxGen = 1
  Outages = TRUE
  StoreFaults = TRUE
SPECIFICATION FairSpec
INVARIANTS
  RedeemedOnce
  SignedOutOnlyIfRefused
PROPERTIES
  EveryRequestAnswered
CHECK_DEADLOCK FALSE
