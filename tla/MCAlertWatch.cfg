SPECIFICATION Spec
CONSTANTS
  n = n
  a = a
  b = b
  none = none
  Readings <- MCReadings
  AnyNode = AnyNode
  RuleChoices <- MCRuleChoices
  InitRules <- MCRules
  Channels = 1
  Never = Never
  Nothing = Nothing
  Cooldown = 10
  TickEvery = 2
  SendTimeout = 1
  MaxTime = 17
  MaxFlips = 2
  MaxEdits = 1
  Walk = 3
  MaxFaults = 1
  Minute = 2
  Day = 5
CHECK_DEADLOCK FALSE
INVARIANTS
  Deduplicated
  NotifiedInTime
  NoOldNews
PROPERTIES
  NothingWhileMuted
