CONSTANTS
  N = 2
  Config <- NumbersConfig
  Checks = 1
SPECIFICATION Spec
INVARIANT DnsAsAnnounced
CHECK_DEADLOCK FALSE
