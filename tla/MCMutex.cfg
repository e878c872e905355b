SPECIFICATION MCSpec
CONSTANTS
  t1 = t1
  t2 = t2
  t3 = t3
  Threads = {t1, t2, t3}
  NoThread = NoThread
  recursive_ = TRUE
  Interruptible = {t1, t2, t3}
  MaxLocks = 1
  MaxHeldCalls = 3
INVARIANTS
  MutualExclusion
PROPERTIES
  NotifyReachesWaiters
  EveryContenderAcquires
