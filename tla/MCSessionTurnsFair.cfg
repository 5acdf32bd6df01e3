SPECIFICATION FairSpec
CONSTANTS
  Procs = {p1, p2}
  Tasks <- MCTasks
  RetainTurns = 1
  MaxEvents = 2
  MaxTurns = 2
  MaxCrashes = 1
  MaxFaults = 2
CHECK_DEADLOCK FALSE
PROPERTIES
  TurnsSettle
