SPECIFICATION BootSpec
CONSTANTS
  StdioNames = {"stdout", "stderr"}
  Customs = {s1, s2}
  MaxStreams = 3
  MaxNames = 4
  TextKeys <- MCTextKeys
  ChoiceKeys <- MCChoiceKeys
  SizeKeys <- MCSizeKeys
  PortKeys <- MCPortKeys
  MaxLines = 4
SYMMETRY CustomSymmetry
INVARIANTS
  TypeOK
  OwnsExactly
  NothingLeaked
  ReadyIsComplete
  LoadedIsWhatFileSays
  AllOrNothing
