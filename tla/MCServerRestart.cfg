CONSTANTS
  Slot = {s1, s2}
  Port = {a, b, c}
  Dest = {d1}
  Duration = {1}
  Pid = {p1, p2}
  NoPort = NoPort
  NoSlot = NoSlot
  NoPid = NoPid
  MaxPending = 1
  MaxCrashes = 1
  QueueMayFill = FALSE
  uint16 <- SamePort
SYMMETRY Symmetry
SPECIFICATION RestartSpec
INVARIANTS
  RestartTypeOK OnlyTheUntrackedCrash EntriesAreOwn
PROPERTY OnlyTheUntrackedTake
CHECK_DEADLOCK FALSE
