CONSTANTS
  r1 = r1  r2 = r2
  s1 = s1
  f1 = f1
  c1 = c1
  p1 = p1  p2 = p2  p3 = p3
  None = None
  Replicas = {r1, r2}
  Sessions = {s1}
  Files = {f1}
  FileOf <- OnlyFile
  Chunks = {c1}
  Tasks = {p1, p2, p3}
  DiskErrors = TRUE
  MaxFaults = 2
SPECIFICATION FairSpec
INVARIANTS
  AssembledHasBlob
  ChunksKept
  FileHasBlob
PROPERTIES
  KeepsPromise
CHECK_DEADLOCK FALSE
