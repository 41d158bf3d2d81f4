\* Two controllers: one attempt at a time, a lost signaling connection, a failing
\* operation and a close.  Native operations take less than a timeout.
SPECIFICATION FairSpec
CONSTANTS
  MaximumAttempts = 1
  Patient = TRUE
  Coincide = FALSE
  MaxChanges = 3
  MaxFlaps = 1
  MaxFailures = 1
  MaxCloses = 1
CHECK_DEADLOCK FALSE
INVARIANTS
  PendingIsCurrent
  NeverAhead
PROPERTIES
  RecoveryEnds
