SPECIFICATION DevicesSpec
CONSTANTS
  SectorSize = 3
  Word = 4
  LineBytes = 8
  DetectBytes = 2
  Unit = 4
  Chip = 8
  SizeTypes = 2
  Addresses = {1, 4, 20}
  Texts <- MCTexts
  MaxCommands = 2
  MaxFaults = 1
  MaxTries = 4
  PWM_CHANNEL = 2
  PWM_DEPTH = 3
  PWM_1S = 6
  PWM_FREQ_MAX = 2
  InitFreq = 1
  Pins = {1, 2}
  Duties = {1, 2, 4}
  Freqs = {3}
  MaxCalls = 7
  Callers = {TRUE, FALSE}
INVARIANTS
  OneSectorInDoubt
  ReadBack
  PlaysAsAsked
  BootsWholeImage
  MadeAsWritten
PROPERTIES
  LastDutyShown
CHECK_DEADLOCK FALSE
