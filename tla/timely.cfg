\* Four devices in one room, every resume timely, no account deletion.
SPECIFICATION TimelySpec
CONSTANTS
  Device = {d1, d2, d3, d4}
  RoomId = {r1}
  None = None
  MaxMembers = 4
  MaxEpoch = 2
  AccountDeletion = FALSE
SYMMETRY Symmetry
CHECK_DEADLOCK FALSE
INVARIANTS
  OnlyMembersHold
  RequestsAnswerable
  OnlineMeansConnected
