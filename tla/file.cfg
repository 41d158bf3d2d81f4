\* Three chunks through a window of two, one command and one of: a lost channel,
\* a full buffer, a failing disk; every thread goes on.
SPECIFICATION FairSpec
CONSTANTS
  Chunks = 3
  Window = 2
  MaximumResyncs = 1
  Patient = TRUE
  PeersLeave = TRUE
  MaxCommands = 1
  MaxLosses = 1
  MaxBlips = 0
  MaxRefusals = 1
  MaxJams = 1
  MaxFaults = 1
  MaxTroubles = 1
CHECK_DEADLOCK FALSE
INVARIANTS
  OnlyDelivered
  OffsetsAgree
PROPERTIES
  Delivers
  Settles
