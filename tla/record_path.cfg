SPECIFICATION Spec
CONSTANTS
  BufferCapacity = 1
  MessageCapacity = 3
  ContextCapacity = 600
  FieldCapacity = 3
  FieldKeyCapacity = 4
  FieldValueCapacity = 4
  Messages <- MCMessages
  Contexts <- MCContexts
  FieldLists <- MCFieldLists
  Configs <- MCConfigs
  MaxRecords = 2
INVARIANTS
  TypeOK
  HandedAsAccepted
  AnswerIsContract
  PlainIsWhole
