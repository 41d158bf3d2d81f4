\* Liveness in every behaviour, under time and the maintenance timer.
SPECIFICATION FairSpec
CONSTANTS
  Device = {d1, d2}
  RoomId = {r1}
  None = None
  MaxMembers = 2
  MaxEpoch = 1
  AccountDeletion = FALSE
CHECK_DEADLOCK FALSE
PROPERTIES
  RequestsEnd
  LostLinksSettle
  RecoveryEnds
