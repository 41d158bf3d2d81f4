\* Two threads send while a third shuts the controller down; every thread that
\* can go on does.
SPECIFICATION FairSpec
CONSTANTS
  Caller = {t1, t2}
  Stopper = stopper
  Key = {k1}
  NoKey = NoKey
  MaxCalls = 3
CHECK_DEADLOCK FALSE
INVARIANTS
  ReportedOnce
  SentInCallOrder
  UpdatesCollapse
PROPERTIES
  QuietAfterShutdown
  SendsEnd
  ShutdownReturns
