CONSTANTS
  NumSteps = 3
  MaxAttempts <- MCMaxAttempts
  InProcess <- MCInProcess
  Faults = TRUE
  MaxRestarts = 2
  s1 = s1
  s2 = s2
  w1 = w1
  w2 = w2
  Schedules <- MCSchedules
  Workflows = {w1, w2}
  WorkflowOf <- MCWorkflowOf
  Order <- MCOrder
  Intervals = {}
  Period <- MCPeriod
  Coalesce = {w1, w2}
  Grace = 1
  Stalls = TRUE
  Main = Main
  Apis = {}
  Clis = {}
  MaxClock = 7
  MaxStops = 2
  Never = Never
SPECIFICATION RestartSpec
CHECK_DEADLOCK FALSE
INVARIANTS
  SuccessIsComplete
  RestartConverges
  SlotIsRemembered
PROPERTIES
  NoWorkAfterResult
  StepResultsAreKept
  CalmRunsSettle
