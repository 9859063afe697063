CONSTANTS
  Http = {h1, h2}
  MaxRequests = 3
  SigThread = {"main", "worker", "http"}
SPECIFICATION FairSpec
INVARIANTS
  NoLostWakeup PopsARequest InOrder
PROPERTIES
  Served StopsAtNextRequest
CHECK_DEADLOCK FALSE
