SPECIFICATION Spec
CONSTANTS
  x = x
  y = y
  Nodes = {1, 2}
  Extra = {1}
  Global = Global
  Names = {x, y}
  Intervals <- MCIntervals
  DefaultInterval = 1
  NoRow = NoRow
  Never = Never
  NoTick = NoTick
  Cap = 1
  Timeout = 1
  InitRows <- OneTask
  InitNodes = {1, 2}
  MaxTime = 6
  MaxId = 2
  MaxEvents = 2
  ScanBound = 4
CHECK_DEADLOCK FALSE
INVARIANTS
  TypeOK
  AtMostCapAtWork
  RecordsBelongToTask
PROPERTIES
  ImplementsWorkerPool
