CONSTANTS
  a = a  b = b  x = x  y = y  z = z  p1 = p1
  Accounts = {a, b}
  Names = {x, y, z}
  FirstName <- MCFirstName
  Tasks = {p1}
  MaxTime = 3
  StaleAfter = 1
  MaxDeletions = 1
SPECIFICATION FairSpec
INVARIANTS
  OnlyGoneAreErased
  NeverBehindEvents
PROPERTIES
  DeletionIsFinal
  LockedStaysHidden
  CatchesUp
