SPECIFICATION FairSpec
CONSTANTS
  Producers = {p1}
  Flushers = {}
  BufferCapacity = 1
  MaxStreams = 1
  MaxCalls = 1
  Worker = Worker
  None = None
PROPERTIES
  ShutdownStopsWorker
