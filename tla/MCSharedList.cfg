CONSTANTS
  N = 4
  Port = {a, b}
  Dest = {d}
  Duration = {1}
  Pid = {p1, p2}
  NoPort = NoPort
SPECIFICATION Spec
INVARIANTS
  TypeOK ChainComplete
PROPERTIES
  OrderKept RefinesRegistry
