\* Two devices, of which one places two calls; one broken connection.
CONSTANTS
  None = None
  Device = {d1, d2}
  RoomId = {}
  Caller = {d1}
  MaxCalls = 2
  MaxCuts = 1
  Hasty = FALSE
SPECIFICATION FairSpec
INVARIANTS
  EndsAreHeard
PROPERTIES
  SessionsAreShared
  HangUpWorks
CHECK_DEADLOCK FALSE
