SPECIFICATION Spec
CONSTANTS
  Procs = {p1, p2}
  Tasks <- MCTasks
  RetainTurns = 1
  MaxEvents = 2
  MaxTurns = 3
  MaxCrashes = 1
  MaxFaults = 1
SYMMETRY MCSymmetry
CHECK_DEADLOCK FALSE
INVARIANTS
  ViewsAreHistory
  ContextKept
  AnswersKept
  OutcomesFollowTasks
