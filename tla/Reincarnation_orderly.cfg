\* A vessel fails between hand-overs: its agent must come back.
SPECIFICATION OrderlySpec
CONSTANTS
  Node = {n1, n2, n3, n4}
  Agent = {a}
  TotalFrags = 1
  Threshold = 1
  MaxCreated = 2
  MaxFailures = 1
  MaxUpsets = 0
PROPERTIES
  AgentsComeBack
  RespawnMarkersCleared
\* Once the agent is back and the markers are cleared nothing is left to do.
CHECK_DEADLOCK FALSE
