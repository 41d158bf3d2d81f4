\* Three devices that move between two rooms and sessions; nobody shares a
\* screen (MaxEpoch = 0).
SPECIFICATION Spec
CONSTANTS
  Device = {d1, d2, d3}
  RoomId = {r1, r2}
  None = None
  MaxMembers = 3
  MaxEpoch = 0
  AccountDeletion = TRUE
SYMMETRY Symmetry
CHECK_DEADLOCK FALSE
INVARIANTS
  IndexesAgree
  OneEngagement
PROPERTIES
  AdmittedByOwner
  ImplementsEngagement
