SPECIFICATION MCSpec
CONSTANTS
  g1 = g1
  g2 = g2
  m = m
  Threads = {g1, g2, m}
  InitialThreads = {g1, g2}
  Suspenders = {g1, g2}
  NoThread = NoThread
  MaxSuspendAlls = 2
INVARIANTS
  CountsRequests
  WorldStopped
PROPERTIES
  SuspendAllCompletes
  EveryoneRunsAgain
