SPECIFICATION Spec
CONSTANTS
  Sessions = {s1}
  Workers = {w1, w2}
  Contents = {a}
  NoSession = NoSession
  MaxTurns = 2
  MaxEdits = 2
  MaxFaults = 1
  MaxLaunches = 1
SYMMETRY MCSymmetry
CHECK_DEADLOCK FALSE
INVARIANTS
  NothingSkipped
  NoTwins
  PendingIsCovered
PROPERTIES
  ForgetReachesWorkers
