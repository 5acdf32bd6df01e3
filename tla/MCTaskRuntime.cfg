SPECIFICATION FairSpec
CONSTANTS
  read = read
  write = write
  ask = ask
  etc = etc
  hooked = hooked
  Tools <- MCTools
  ConcurrencySafe <- MCSafe
  Permitted <- MCPermitted
  HookDenied <- MCHookDenied
  Dangerous <- MCDangerous
  Answers <- MCAnswers
  MaxAnswer = 3
  MaxModelRounds = 2
  MaxToolCalls = 4
  MaxParallel = 3
  MaxCrashes = 2
  MaxStoreFaults = 1
CHECK_DEADLOCK FALSE
INVARIANTS
  TypeOK
  MutationsOpenAlone
  BudgetsHold
  MutationsRunOnce
  NothingRefusedRuns
  TranscriptWellFormed
PROPERTIES
  FaultsOnlyInWideWindows
  JournalSpec
  TaskDecided
