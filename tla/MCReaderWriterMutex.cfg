SPECIFICATION MCSpec
CONSTANTS
  t1 = t1
  t2 = t2
  t3 = t3
  Threads = {t1, t2, t3}
  NoThread = NoThread
  Interruptible = {"exclusive", "timed"}
  MaxOps = 4
INVARIANTS
  NoStrandedSleeper
PROPERTIES
  ImplementsRWLock
  EveryCallReturns
