SPECIFICATION FairSpec
CONSTANTS
  TASKS_CNT = 2
  QUEUE_SIZE = 2
  Events = {"NW_TICK_EVT"}
  h1 = h1
  h2 = h2
  Handlers <- MCHandlers
  InitHandler <- MCInitHandler
INVARIANTS
  TypeOK
  RingConsistent
  WakeupArmed
  NoStrayTran
PROPERTIES
  AcceptedPostWakes
  ImplementsFifo
  DeliveredWithTraffic
