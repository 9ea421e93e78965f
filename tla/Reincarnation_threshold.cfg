\* One of two fragments is enough, and one of the two providers fails.
SPECIFICATION Spec
CONSTANTS
  Node = {n1, n2, n3, n4}
  Agent = {a}
  TotalFrags = 2
  Threshold = 1
  MaxCreated = 1
  MaxFailures = 1
  MaxUpsets = 0
SYMMETRY Symmetry
PROPERTY ThresholdSuffices
CHECK_DEADLOCK FALSE
