SPECIFICATION AllSpec
CONSTANTS
  Producers = {p1, p2}
  Flushers = {}
  BufferCapacity = 2
  MaxStreams = 1
  MaxCalls = 3
  Worker = Worker
  None = None
SYMMETRY ProducerSymmetry
INVARIANTS
  TypeOK
  InOrderDispatch
  DrainedBeforeStop
  DropsWarnedOfAtStop
  BacklogReal
  CallsCovered
PROPERTIES
  ImplementsBoundedLog
