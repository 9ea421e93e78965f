\* Every interleaving of one agent on three nodes with one node failure and
\* one upset (a connection lost or doubled, a slow peer, a routing update or a
\* repeated bootstrap).
SPECIFICATION Spec
CONSTANTS
  Node = {n1, n2, n3}
  Agent = {a}
  TotalFrags = 1
  Threshold = 1
  MaxCreated = 2
  MaxFailures = 1
  MaxUpsets = 1
SYMMETRY Symmetry
INVARIANTS
  TypeOK
  PeerManagersConsistent
  VesselRecordsOnlyAtGuardians
  OneRespawnPerReverie
  RespawnsHaveCiphertext
  FragmentsOnlyToNextVessel
PROPERTIES
  ImplementsLineage
\* Every event loop can end in a panic: the network may stop.
CHECK_DEADLOCK FALSE
