SPECIFICATION FairSpec
CONSTANTS
  TIMER_CNT = 2
  Keys = {k1, k2, k3}
  Timeouts = {0, 1}
  NoKey = NoKey
  ReArm = FALSE
INVARIANTS
  TypeOK
  UniqueTimers
PROPERTIES
  ImplementsTimerMap
  ReloadingFires
