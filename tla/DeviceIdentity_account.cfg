CONSTANTS
  d1 = d1  d2 = d2  app = app  e1 = e1  e2 = e2  p1 = p1  p2 = p2
  Devices = {d1, d2, app}
  Approvers = {app}
  LegacyDevices = {d1, d2}
  Asks = {e1}
  Tasks = {p1, p2}
  MaxVersion = 2
SPECIFICATION Spec
SYMMETRY Symmetry
INVARIANTS
  EnvelopesOpen
  KeyHasHolder
  FoundedByOwner
PROPERTIES
  ApprovedWithKey
  KeepsIdentityPromise
