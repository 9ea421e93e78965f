\* One request of any kind, and a restart of the proxy or of the node.
SPECIFICATION FairSpec
CONSTANTS
  None = None
  r1 = r1
  r2 = r2
  s1 = s1
  s2 = s2
  t1 = t1
  t2 = t2
  Reverie = {r1, r2}
  KeyPayloads <- MCPayloads
  RequestKinds <- MCKinds
  Replies <- MCReplies
  Refusal <- MCRefusal
  Misreadings <- MCMisreadings
  Req = {q1}
  ChannelCap = 2
  MaxRestarts = 1
  MaxCalls = 2
INVARIANTS
  TypeOK
  UsageBookedToInjectedKey
  NoReverieOvercharged
  DelegatedUsageVerifies
PROPERTIES
  UsageStoredOrAccountedFor
CHECK_DEADLOCK FALSE
