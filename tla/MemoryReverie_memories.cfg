\* Every two of twelve calls on five nodes; node b's loop may also crash.
SPECIFICATION FairSpec
CONSTANTS
  None = None
  a = a
  b = b
  c = c
  d = d
  e = e
  s1 = s1
  s2 = s2
  s3 = s3
  s4 = s4
  s5 = s5
  d1 = d1
  e1 = e1
  e2 = e2
  e3 = e3
  e4 = e4
  n1 = n1
  g1 = g1
  agent = agent
  alice = alice
  bob = bob
  reveries = reveries
  elsewhere = elsewhere
  Node = {a, b, c, d, e}
  Task = {s1, s2, s3, s4, s5, d1, e1, e2, e3, e4, n1, g1}
  Call <- MCCall
  Connected <- MCConnected
  VesselStatus <- MCStatus
  Bootstrapped = {b, c, d, e}
  Account = {alice, bob}
  EnvContract = reveries
  MaxCalls = 2
  MaxDeposit = 1
  Crashing = {b}
INVARIANTS
  TypeOK
  VesselsDistinct
  RegisteredBeforeShared
  SecretsNeedDeposit
  LookupsUnderWay
  ProvidersAccountedFor
PROPERTIES
  LookupsAnswered
  AccessesEnd
CHECK_DEADLOCK FALSE
