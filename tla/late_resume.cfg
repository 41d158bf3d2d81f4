\* A resume that arrives between the end of the window and the sweep.
SPECIFICATION Spec
CONSTANTS
  Device = {d1, d2}
  RoomId = {r1}
  None = None
  MaxMembers = 2
  MaxEpoch = 1
  AccountDeletion = FALSE
CHECK_DEADLOCK FALSE
INVARIANT
  RecoveringSharerIsMember
