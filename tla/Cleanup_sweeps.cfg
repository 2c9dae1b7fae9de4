CONSTANTS
  r1 = r1
  s1 = s1  s2 = s2
  f1 = f1  f2 = f2
  c1 = c1
  p1 = p1  p2 = p2
  w1 = w1  w2 = w2
  None = None
  Replicas = {r1}
  Sessions = {s1}
  Files = {f1}
  FileOf <- OnlyFile
  Chunks = {c1}
  Tasks = {p1, p2}
  DiskErrors = FALSE
  MaxFaults = 1
  Sweepers = {w1, w2}
SPECIFICATION FairCleanupSpec
INVARIANTS
  LiveFileHasBlob
  SweepsSpareUploads
PROPERTIES
  StorageReclaimed
CONSTRAINT
  OneTaskPerSweep
CHECK_DEADLOCK FALSE
