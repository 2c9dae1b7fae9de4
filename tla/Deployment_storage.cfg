CONSTANTS
  a = a  b = b  a1 = a1  a2 = a2  b1 = b1
  None = None
  Servers = {a1, a2, b1}
  Databases = {a, b}
  DatabaseOf <- MCDatabaseOf
  Image <- MCImage
  Before <- MCBefore
  Dirs <- MCDirs
  Settled = a
  MaxLosses = 1
  MaxCrashes = 1
SPECIFICATION FairSpec
INVARIANTS
  MigratedOnce
  StartedOncePerInterval
  OverlapOnlyIfLost
PROPERTIES
  NothingSwept
  DueJobStarts
