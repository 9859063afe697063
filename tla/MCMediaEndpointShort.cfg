CONSTANTS
  Duration <- Short
  MaxUpdates = 1
SPECIFICATION FairSpec
PROPERTY AlwaysEnds
CHECK_DEADLOCK FALSE
