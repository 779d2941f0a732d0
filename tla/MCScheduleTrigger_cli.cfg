CONSTANTS
  s1 = s1
  s2 = s2
  w1 = w1
  w2 = w2
  Schedules <- MCSchedules
  Workflows = {w1, w2}
  WorkflowOf <- OneEach
  Order <- MCOrder
  Intervals = {}
  Period <- MCPeriod
  Coalesce = {w1, w2}
  Grace = 1
  Stalls = TRUE
  Main = Main
  Apis = {}
  Clis = {c1}
  MaxClock = 3
  MaxStops = 0
  Never = Never
SPECIFICATION TriggerSpec
CHECK_DEADLOCK FALSE
INVARIANTS
  EnabledHasJob
