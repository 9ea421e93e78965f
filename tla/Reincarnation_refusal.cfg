\* A next vessel that was restarted asks for a fragment.
SPECIFICATION Spec
CONSTANTS
  Node = {n1, n2, n3}
  Agent = {a}
  TotalFrags = 1
  Threshold = 1
  MaxCreated = 1
  MaxFailures = 1
  MaxUpsets = 1
SYMMETRY Symmetry
PROPERTY RefusalIsHarmless
CHECK_DEADLOCK FALSE
