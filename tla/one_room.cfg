\* Three devices, one room, every behaviour, account deletion included.
SPECIFICATION Spec
CONSTANTS
  Device = {d1, d2, d3}
  RoomId = {r1}
  None = None
  MaxMembers = 3
  MaxEpoch = 2
  AccountDeletion = TRUE
SYMMETRY Symmetry
CHECK_DEADLOCK FALSE
INVARIANTS
  TypeOK
  RoomsSound
PROPERTIES
  EpochFencesLease
  SharerKeepsLease
  RecoverySlotKept
  ImplementsScreenLease
