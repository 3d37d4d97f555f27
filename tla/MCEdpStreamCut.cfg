SPECIFICATION Spec
CONSTANTS
  Radix = 8
  BUFFER_SIZE = 6
  Word = 256
  Strings <- MCStrings
  MaxPackets = 1
  Scenarios = {"stream"}
INVARIANTS
  NothingLost
CHECK_DEADLOCK FALSE
