CONSTANTS
  NumSteps = 3
  MaxAttempts <- MCMaxAttempts
  InProcess <- MCInProcess
  Faults = TRUE
  MaxRestarts = 0
SPECIFICATION Spec
CHECK_DEADLOCK FALSE
INVARIANT SettledRunHasNoRunningStep
