SPECIFICATION FairSpec
CONSTANTS
  SendBuffer = 2
  Worlds <- MCWorlds
INVARIANTS
  HeartbeatKept
  LossNoticed
PROPERTIES
  ImplementsLifecycle
  RecoversWhenWell
