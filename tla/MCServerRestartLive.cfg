CONSTANTS
  Slot = {s1}
  Port = {a}
  Dest = {d1}
  Duration = {0, 1}
  Pid = {p1, p2}
  NoPort = NoPort
  NoSlot = NoSlot
  NoPid = NoPid
  MaxPending = 1
  MaxCrashes = 1
  QueueMayFill = FALSE
  uint16 <- SamePort
SPECIFICATION FairRestartSpec
PROPERTIES LeaveCompletes EventuallyConsistent ZombiesReaped
CHECK_DEADLOCK FALSE
