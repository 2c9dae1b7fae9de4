CONSTANTS
  r1 = r1  r2 = r2  p1 = p1  w1 = w1  t1 = t1  t2 = t2
  Replicas = {r1, r2}
  Pages = {p1}
  Watchers = {w1}
  Tasks = {t1}
  Changes <- MCChanges
  SendBuffer = 1
  MaxFaults = 2
  MaxOpen = 1
SPECIFICATION FairSpec
INVARIANTS
  NothingMissed
  ShutdownLeavesNone
PROPERTIES
  CatchesUp
CHECK_DEADLOCK FALSE
