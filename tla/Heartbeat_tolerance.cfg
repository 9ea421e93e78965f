\* One stream that cannot be opened is counted again and again.
SPECIFICATION Spec
CONSTANTS
  Conn = {c1, c2}
  MaxFailures = 1
  Forced = 2
  CountMax = 2
  EventBuf = 1
  SignalBuf = 1
  MaxUpsets = 1
INVARIANTS
  FailuresTolerated
