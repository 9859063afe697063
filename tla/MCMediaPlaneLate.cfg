CONSTANTS
  Slot = {s1, s2}
  Port = {a, b}
  Dest = {d1, d2}
  Duration = {1}
  Pid = {p1, p2}
  NoPort = NoPort
  NoSlot = NoSlot
  NoPid = NoPid
  MaxPending = 2
  QueueMayFill = FALSE
  uint16 <- SamePort
SYMMETRY Symmetry
SPECIFICATION Spec
INVARIANT NotifiedIsServed
