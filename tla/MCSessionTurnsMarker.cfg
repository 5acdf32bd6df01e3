SPECIFICATION FairSpec
CONSTANTS
  Procs = {p1}
  Tasks <- MCTasks
  RetainTurns = 1
  MaxEvents = 3
  MaxTurns = 1
  MaxCrashes = 0
  MaxFaults = 0
CHECK_DEADLOCK FALSE
PROPERTIES
  EveryTurnSettles
