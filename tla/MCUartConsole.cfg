SPECIFICATION FairSpec
CONSTANTS
  UART_BUF_LENGTH = 3
  QUEUE_LEN = 2
  FIFO_LENGTH = 3
  FULL_THRHD = 2
  MaxTyped = 6
CHECK_DEADLOCK FALSE
INVARIANTS
  TypeOK
  EventsServed
  NoMixedCommands
  ExecutedInOrder
  WaitedLinesWhole
PROPERTY
  WaitedLinesRun
