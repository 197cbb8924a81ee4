SPECIFICATION FairSpec
CONSTANTS
  n1 = n1
  n2 = n2
  a = a
  b = b
  t1 = t1
  t2 = t2
  Nodes = {n1, n2}
  Global = Global
  Names = {a}
  Targets = {t1, t2}
  Host <- HostEach
  Intervals <- MCIntervals
  DefaultInterval = 60
  NoTask = NoTask
  Remote = {n1}
  Declared <- DeclaresOne
  MaxEdits = 3
  MaxFaults = 1
INVARIANTS
  TypeOK
  NoInventedTarget
  IntervalAsConfigured
  AdminOnlyFollowsAdmin
PROPERTIES
  DeclaredIsRegistered
