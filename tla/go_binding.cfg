SPECIFICATION FairSpec
CONSTANTS
  Goroutines = {g1, g2, g3}
  None = None
  Timeouts <- MCTimeouts
  Threads = {t1, t2}
  MaxRecords = 1
  MaxCalls = 3

INVARIANTS
  TypeOK
  GoInv
  OneWorker
CHECK_DEADLOCK FALSE
PROPERTIES PromisedCallsEnd
