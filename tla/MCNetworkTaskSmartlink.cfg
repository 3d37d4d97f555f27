SPECIFICATION FairSpec
CONSTANTS
  QUEUE_SIZE = 3
  TIMER_CNT = 3
  SysTickPeriod = 3
  NwTickPeriod = 1
  RegisterPeriod = 3
  LateTicks = 1
  MaxConsole = 0
  NoKey = NoKey
PROPERTIES
  SmartlinkAfterTimeout
