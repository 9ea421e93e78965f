\* Two connected peers connect once more.
SPECIFICATION Spec
CONSTANTS
  Node = {n1, n2, n3}
  Agent = {a}
  TotalFrags = 1
  Threshold = 1
  MaxCreated = 1
  MaxFailures = 0
  MaxUpsets = 1
SYMMETRY Symmetry
PROPERTY VesselRecordsKept
CHECK_DEADLOCK FALSE
