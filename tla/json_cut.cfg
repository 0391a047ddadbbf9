SPECIFICATION Spec
CONSTANTS
  BufferCapacity = 1
  MessageCapacity = 512
  ContextCapacity = 1024
  FieldCapacity = 8
  FieldKeyCapacity = 32
  FieldValueCapacity = 128
  Messages <- DefaultMessages
  Contexts <- DefaultContexts
  FieldLists <- DefaultFieldLists
  Configs <- DefaultConfigs
  MaxRecords = 1
INVARIANTS
  ShapeKept
