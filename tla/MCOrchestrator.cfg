CONSTANTS
  N = 2
  Config <- AnyConfig
  Checks = 2
SPECIFICATION FairSpec
INVARIANTS
  TypeOK ClientsStopFirst PortsDisjoint RegisteredFirst StoppedBeforeUnregistering
  NumbersRest
PROPERTY Terminates
CHECK_DEADLOCK FALSE
