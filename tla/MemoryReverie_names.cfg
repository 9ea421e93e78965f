\* An agent is broadcast and its name looked up.
SPECIFICATION FairSpec
CONSTANTS
  None = None
  a = a
  b = b
  c = c
  d = d
  e = e
  s1 = s1
  s2 = s2
  s3 = s3
  s4 = s4
  s5 = s5
  d1 = d1
  e1 = e1
  e2 = e2
  e3 = e3
  e4 = e4
  n1 = n1
  g1 = g1
  agent = agent
  alice = alice
  bob = bob
  reveries = reveries
  elsewhere = elsewhere
  Node = {a, b, c, d, e}
  Task = {n1, g1}
  Call <- MCCall
  Connected <- MCConnected
  VesselStatus <- MCStatus
  Bootstrapped = {b, c, d, e}
  Account = {alice, bob}
  EnvContract = reveries
  MaxCalls = 2
  MaxDeposit = 1
  Crashing = {b}
PROPERTIES
  NamesFound
CHECK_DEADLOCK FALSE
