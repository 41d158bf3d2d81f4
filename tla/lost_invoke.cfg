\* A thread in SendData while the executor stops.
SPECIFICATION FairSpec
CONSTANTS
  Caller = {t1}
  Stopper = stopper
  Key = {k1}
  NoKey = NoKey
  MaxCalls = 2
CHECK_DEADLOCK FALSE
PROPERTY
  WaitingSendsReturn
