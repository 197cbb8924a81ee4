SPECIFICATION FairSpec
CONSTANTS
  ZeroTime <- MCZeroTime
  MaxVersion = 3
  MaxTime = 2
PROPERTIES
  CleanEditsArePickedUp
  NoStepBack
