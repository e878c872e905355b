CONSTANTS
  Threads = {t1, t2}
  None = None
  kThinLockMaxCount = 1
  Hashes = {1, 2}
  MaxCalls = 4
  MaxInterrupts = 1
  MaxPauses = 2
SPECIFICATION Spec
INVARIANTS
  MonitorStaysWhileUsed
  HashNeverChanges
  SleeperIsReachable
PROPERTIES
  ImplementsJavaLock
  EveryEnterReturns
CHECK_DEADLOCK FALSE
