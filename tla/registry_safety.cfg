SPECIFICATION Spec
CONSTANTS
  Builtins = {file}
  Customs = {sink}
  MaxLevel = 1
  MaxStreams = 2
  Formats = {text, json}
  Callers = {c1, c2}
  Worker = Worker
  None = None
SYMMETRY CallerSymmetry
INVARIANTS
  TypeOK
  UniqueNames
  EnabledIsAccepted
  BuiltinsFollowConfig
  WrittenOnceEach
  OneConfigPerRecord
PROPERTIES
  CustomsPreserved
