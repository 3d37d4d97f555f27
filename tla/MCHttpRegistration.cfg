SPECIFICATION FairSpec
CONSTANTS
  Ids = {1, 2, 3, 4}
  Keys = {1, 2, 3, 4}
  Patience = 2
  SendBuffer = 3
  Budget <- MCBudget
  FaultSets <- MCFaultSets
INVARIANTS
  FlagMeansComplete
  CheckEndsBeforeClient
PROPERTIES
  GivenUpOnlyIfGone
  EndsRegistered
CHECK_DEADLOCK FALSE
