CONSTANTS
  Bad = Bad
  Executables = {python, script}
  python = python
  script = script
  Locking = TRUE
  MaxRewrites = 1
  TopK = 2
  MaxTotalBytes = 2
  MaxItemBytes = 2
  Asks <- MCAsks
  Revisions = {r1, r2}
  r1 = r1
  r2 = r2
  Policy = "Auto"
  Answers <- MCAnswers
  CacheBytes = 2
  MaxAsks = 2
  MaxExtra = 1
SPECIFICATION Spec
CHECK_DEADLOCK FALSE
INVARIANT EvidenceIsCurrent
INVARIANT NoStrayProcess
INVARIANT ServesVerifiedPack
PROPERTY EveryCallReturns
