CONSTANTS
  Duration <- Any
  MaxUpdates = 4
  MaxStreams = 2
  Rtt <- SomeDelays
SPECIFICATION FairRtpSpec
INVARIANTS
  RtpTypeOK NothingMissed CallGoesToConf SocketClosedFirst MosOnScale
PROPERTIES
  UpdatesStreamed EndCompletes
CHECK_DEADLOCK FALSE
