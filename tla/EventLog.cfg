SPECIFICATION Spec
CONSTANTS
  FlushEvery = 2
  MaxEvents = 6
  MaxProcesses = 3
  MaxPowerLosses = 1
  MaxShortWrites = 1
  MaxFlushFaults = 1
CHECK_DEADLOCK FALSE
INVARIANTS
  CommittedIsDurable
  KillKeepsLog
PROPERTIES
  EventsStay
