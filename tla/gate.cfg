\* Three sockets of two users, two of them connected at a time, a window of one
\* message id.
CONSTANTS
  None = None
  u1 = u1
  u2 = u2
  d1 = d1
  d2 = d2
  Socket = {s1, s2, s3}
  Address = {a1, a2}
  User = {u1, u2}
  Device = {d1, d2}
  OwnerOf <- MCOwnerOf
  MessageId = {m1, m2}
  MaximumConnections = 2
  MaximumConnectionsPerIp = 2
  MaximumUnauthenticatedConnections = 2
  MaximumRememberedMessageIds = 1
SPECIFICATION FairSpec
INVARIANTS
  TypeOK
  CountersAgree
  IndexesAgree
  AnswersExpected
PROPERTIES
  UnauthenticatedSettle
