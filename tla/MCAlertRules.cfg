SPECIFICATION Spec
CONSTANTS
  r1 = r1
  r2 = r2
  Requests = {r1, r2}
  Keys = {1, 2, 3, 4}
  Values = {10, 20}
  NoRule = NoRule
  NoWish = NoWish
  OfflineAll = 4
  LatencyAll = 1
  LossAll = 3
  AlertOffline = TRUE
  AlertLatency = 10
  OfflineValue = 10
  LossValue = 10
  Fallible = {"load", "seed", "override", "write"}
  MaxEdits = 3
  MaxFaults = 1
  MaxRestarts = 2
CHECK_DEADLOCK FALSE
SYMMETRY Handlers
INVARIANTS
  TypeOK
  CleanKeysAgree
PROPERTIES
  ImplementsRegistry
