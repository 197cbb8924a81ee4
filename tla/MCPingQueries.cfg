SPECIFICATION Spec
CONSTANTS
  c1 = c1
  c2 = c2
  Clients = {c1, c2}
  Millis = {1, 3}
  Window = 3
  Retention = 1
  MaxProbes = 4
  MaxTime = 2
  AnyClient = AnyClient
  MaxRows = 3
  DefaultRows = 2
  HalfHours = {1}
  Limits = {0, 3, 4}
SYMMETRY Symmetry
INVARIANTS
  StatisticsAreOfTheWindow
  LatestIsNewest
  RecordsAreReadAlike
  PercentilesSplitTheSamples
  LatestUnlessCut
PROPERTIES
  PurgeKeepsLatest
CHECK_DEADLOCK FALSE
