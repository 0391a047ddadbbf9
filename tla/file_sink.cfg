SPECIFICATION Spec
CONSTANTS
  Pieces = 2
  MaxEntries = 4
INVARIANTS
  InOrder
  CrashLosesOnlyFailed
CHECK_DEADLOCK FALSE
