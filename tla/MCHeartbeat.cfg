SPECIFICATION Spec
CONSTANTS
  Second = 2
  Interval = 3
  Delay = 1
  MaxMisses = 1
  OfflineAfter = 13
  WatchEvery = 4
  Walk = 5
  Never = Never
  MaxTime = 30
  MaxStops = 2
  MaxFaults = 1
CHECK_DEADLOCK FALSE
INVARIANTS
  NeverJudgedOffline
  SilenceIsNoticed
