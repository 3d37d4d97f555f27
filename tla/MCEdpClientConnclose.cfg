SPECIFICATION FairSpec
CONSTANTS
  SendBuffer = 2
  Worlds <- ConncloseWorlds
PROPERTIES
  LogsInAgain
