SPECIFICATION Spec
CONSTANTS
  Radix = 8
  BUFFER_SIZE = 6
  Word = 256
  Strings <- MCStrings
  MaxPackets = 2
  Scenarios = {"packets", "buffered", "up", "bin"}
INVARIANTS
  TypeOK
  NothingLost
PROPERTIES
  ImplementsChannel
CHECK_DEADLOCK FALSE
