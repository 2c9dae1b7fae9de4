CONSTANTS
  owner = owner  alice = alice  bob = bob  guest = guest  p1 = p1  p2 = p2
  Owner = owner
  Users = {alice}
  Reporters = {alice, bob}
  Guests = {guest}
  Tasks = {p1, p2}
  MaxVersion = 3
  Threshold = 2
SPECIFICATION Spec
SYMMETRY Symmetry
INVARIANTS
  KeysReadable
  TransferMatchesKey
  HandedToAccepted
  EnoughReportsDelete
PROPERTIES
  OpenKeysStay
  AnsweredOnce
