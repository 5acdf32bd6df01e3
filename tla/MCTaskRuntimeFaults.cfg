SPECIFICATION Spec
CONSTANTS
  read = read
  write = write
  ask = ask
  etc = etc
  hooked = hooked
  Tools <- MCTools
  ConcurrencySafe <- MCSafe
  Permitted <- MCPermitted
  HookDenied <- MCHookDenied
  Dangerous <- MCDangerous
  Answers <- MCFewAnswers
  MaxAnswer = 3
  MaxModelRounds = 1
  MaxToolCalls = 2
  MaxParallel = 2
  MaxCrashes = 0
  MaxStoreFaults = 0
CHECK_DEADLOCK FALSE
INVARIANT NeverFaults
