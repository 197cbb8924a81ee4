SPECIFICATION Spec
CONSTANTS
  x = x
  y = y
  Nodes = {1, 2}
  Extra = {1}
  Global = Global
  Names = {x}
  Intervals <- MCIntervals
  DefaultInterval = 1
  NoRow = NoRow
  Never = Never
  NoTick = NoTick
  Cap = 1
  Timeout = 1
  InitRows <- OneTask
  InitNodes = {1, 2}
  MaxTime = 12
  MaxId = 1
  MaxEvents = 2
  ScanBound = 2
CHECK_DEADLOCK FALSE
INVARIANTS
  DisabledIsLeftAlone
  NotOverdue
  NotTooOften
