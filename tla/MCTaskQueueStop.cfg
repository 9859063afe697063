CONSTANTS
  Http = {h1, h2}
  MaxRequests = 1
  SigThread = {"main"}
SPECIFICATION FairSpec
PROPERTY WorkerStops
CHECK_DEADLOCK FALSE
