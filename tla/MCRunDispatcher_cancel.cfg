CONSTANTS
  r1 = r1
  r2 = r2
  r3 = r3
  r4 = r4
  shared = shared
  own = own
  Runs = {r1, r2, r3}
  LockKeys <- MCLockKeys
  LockKeyOf <- MCLockKeyOf
  NoKey = NoKey
  NoRun = NoRun
  MaxConcurrentRuns = 2
  HeartbeatsKeepUp = TRUE
  Faults = FALSE
  MaxRestarts = 0
SPECIFICATION Spec
CHECK_DEADLOCK FALSE
PROPERTIES
  CanceledIsFinal
