SPECIFICATION Spec
CONSTANTS
  u1 = u1
  eu = eu
  host = host
  named = named
  cpu = cpu
  goarch = goarch
  Uuids = {u1}
  Regions = {eu}
  NoRegion = NoRegion
  AgentNames = {host}
  AdminNames = {named}
  Hardware = {cpu, goarch}
  Fallback = goarch
  NotReported = NotReported
  NoNode = NoNode
  Cores <- MCCores
  Retain = 1
  MaxTime = 3
  MaxReports = 3
  MaxEdits = 4
  MaxFaults = 2
CHECK_DEADLOCK FALSE
INVARIANTS
  TypeOK
  WhatIsKnownIsKept
  OrphansNeedOverlap
PROPERTIES
  NothingRecentIsLost
