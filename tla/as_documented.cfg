SPECIFICATION BootSpec
CONSTANTS
  StdioNames = {"stdout", "stderr"}
  Customs = {s1, s2}
  MaxStreams = 3
  MaxNames = 4
  TextKeys <- MCTextKeys
  ChoiceKeys <- MCChoiceKeys
  SizeKeys <- MCSizeKeys
  PortKeys <- MCPortKeys
  MaxLines = 4
INVARIANT
  LoadedAsDocumented
