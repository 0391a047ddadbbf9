SPECIFICATION ProducerFairSpec
CONSTANTS
  Producers = {p1}
  Flushers = {f1}
  BufferCapacity = 1
  MaxStreams = 1
  MaxCalls = 2
  Worker = Worker
  None = None
INVARIANTS
  FlushDrained
PROPERTIES
  EmptyAnswer
  AdmittedIsDispatched
  ShutdownSeenStops
  FlushReturns
  CallsReturn
