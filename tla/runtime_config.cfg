SPECIFICATION Spec
CONSTANTS
  Callers = {t1, t2}
  None = None
  Requests <- MCRequests
SYMMETRY CallerSymmetry
INVARIANTS
  TypeOK
  NothingIgnored
  SnapshotTakenBack
PROPERTIES
  InitOnlyKept
