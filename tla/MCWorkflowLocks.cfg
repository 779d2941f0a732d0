CONSTANTS
  shared = shared
  Leases = {r1, r2, r3}
  LockKeys <- MCLockKeys
  LockKeyOf <- MCLockKeyOf
  NoLease = NoLease
  LeaseSeconds = 3
  HeartbeatEvery = 1
  MaxDelay = 1
  MaxClock = 6
  Urls = {u}
  Syncs = {s1, s2}
  Window = 1
  BatchSize = 2
  MaxPosts = 2
  MonthEnd = 1
  MaxTick = 4
  MaxMishaps = 1
  MaxMaintenance = 1
  Repos = {p1, p2}
  RecentLimit = 2
  MaxItems = 2
  Lookback = 1
  MonthOf <- MCMonthOf
  MaxNow = 3
  MaxMade = 3
  MaxFaults = 1
SYMMETRY Symmetry
SPECIFICATION ScenesSpec
CHECK_DEADLOCK FALSE
INVARIANTS
  MutualExclusion
  VisitsArrive
  ItemsArrive
PROPERTIES
  ImplementsLeaseTable
