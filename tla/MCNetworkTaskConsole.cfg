SPECIFICATION Spec
CONSTANTS
  QUEUE_SIZE = 2
  TIMER_CNT = 3
  SysTickPeriod = 1
  NwTickPeriod = 1
  RegisterPeriod = 1
  LateTicks = 0
  MaxConsole = 2
  NoKey = NoKey
INVARIANTS
  SmartconfigOnlyInSmart
