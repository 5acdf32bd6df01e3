CONSTANTS
  Folded <- MCFolded
  Temps = {"tmp1", "tmp2"}
  Runtime = {}
  MaxFragmentBytes = 4
  Hosts = {"windows", "posix"}
  Requests <- MCRequests
  Edits <- MCEdits
  MaxTextFileBytes = 2
  MaxAnswerBytes = 2
  MaxAttempts = 2
  MaxEdits = 1
  MaxKills = 1
  OutputBudget = 2
  Bytes = {"x", "broken"}
  ExitCodes = {"0", "1"}
  MaxWritten = 3
  MaxMembers = 2
  Trees <- MCTrees
  Builds <- MCBuilds
  MaxCalls = 2
SPECIFICATION Spec
CHECK_DEADLOCK FALSE
INVARIANT OnlyLateChangesAreLost
INVARIANT AnswersAreTrue
INVARIANT NoTemporaryLeft
INVARIANT NothingOutlivesTheRun
INVARIANT OutputIsWhole
PROPERTY EveryToolCallReturns
