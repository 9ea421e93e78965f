\* Two agents whose vessels, next vessels and providers are each other.
SPECIFICATION Spec
CONSTANTS
  Node = {n1, n2, n3}
  Agent = {a, b}
  TotalFrags = 1
  Threshold = 1
  MaxCreated = 1
  MaxFailures = 0
  MaxUpsets = 0
SYMMETRY Symmetry
INVARIANT TargetTracksVessel
CHECK_DEADLOCK FALSE
