\* Two providers, both needed: a vessel, its next vessel and two fragment
\* holders, any one of which fails.
SPECIFICATION Spec
CONSTANTS
  Node = {n1, n2, n3, n4}
  Agent = {a}
  TotalFrags = 2
  Threshold = 2
  MaxCreated = 1
  MaxFailures = 1
  MaxUpsets = 0
SYMMETRY Symmetry
INVARIANT SecretsNeedThreshold
\* Every event loop can end in a panic: the network may stop.
CHECK_DEADLOCK FALSE
