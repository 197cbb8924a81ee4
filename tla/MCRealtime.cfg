SPECIFICATION FairSpec
CONSTANTS
  Conns = {c}
  Polls = {p}
  None = None
  RetryLimit = 1
  WireCap = 1
  MaxVersion = 1
  MaxFaults = 3
CHECK_DEADLOCK FALSE
INVARIANTS
  TypeOK
PROPERTIES
  CatchesUp
  GoroutinesEnd
  NoStepBack
