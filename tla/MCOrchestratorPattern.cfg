CONSTANTS
  N = 2
  Config <- SmallConfig
  Checks = 1
SPECIFICATION Spec
INVARIANT StoppedAtEnd
CHECK_DEADLOCK FALSE
