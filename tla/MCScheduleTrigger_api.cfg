CONSTANTS
  s1 = s1
  s2 = s2
  w1 = w1
  w2 = w2
  Schedules <- MCSchedules
  Workflows = {w1}
  WorkflowOf <- Shared
  Order <- MCOrder
  Intervals = {s2}
  Period <- MCPeriod
  Coalesce = {w1}
  Grace = 0
  Stalls = FALSE
  Main = Main
  Apis = {a1, a2}
  Clis = {}
  MaxClock = 3
  MaxStops = 1
  Never = Never
SPECIFICATION TriggerSpec
CHECK_DEADLOCK FALSE
SYMMETRY Callers
INVARIANTS
  OverlapsRegister
PROPERTIES
  RestartHeals
