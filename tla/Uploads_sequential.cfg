CONSTANTS
  r1 = r1  r2 = r2
  s1 = s1  s2 = s2
  f1 = f1  f2 = f2
  c1 = c1  c2 = c2
  p1 = p1  p2 = p2
  None = None
  Replicas = {r1}
  Sessions = {s1, s2}
  Files = {f1}
  FileOf <- SameFile
  Chunks = {c1}
  Tasks = {p1, p2}
  DiskErrors = FALSE
  MaxFaults = 1
SPECIFICATION Spec
SYMMETRY Symmetry
INVARIANTS
  FileIDExclusive
CHECK_DEADLOCK FALSE
