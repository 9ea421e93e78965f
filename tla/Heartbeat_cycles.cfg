\* Two connections, one of which may fail in every way the handler knows.
SPECIFICATION FairSpec
CONSTANTS
  Conn = {c1, c2}
  MaxFailures = 1
  Forced = 2
  CountMax = 2
  EventBuf = 1
  SignalBuf = 1
  MaxUpsets = 2
INVARIANTS
  TypeOK
  OneRequestPerCycle
  HeartbeatsFreshlyAttested
  ShutdownHasCause
PROPERTIES
  HeartbeatsKeepComing
  CutOffNodeShutsDown
