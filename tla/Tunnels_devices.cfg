CONSTANTS
  d1 = d1  d2 = d2  k1 = k1  k2 = k2  u1 = u1
  None = None  Host = Host
  Devices = {d1, d2}
  UserOf <- OneUser
  Keys = {k1, k2}
  MaxRows = 3
SPECIFICATION Spec
SYMMETRY Symmetry
INVARIANTS
  DeclinedStayOut
  EnvelopeFits
  MembersKeepFiles
PROPERTIES
  TunnelOutlivesMembers
CHECK_DEADLOCK FALSE
