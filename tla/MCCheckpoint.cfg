SPECIFICATION MCSpec
CONSTANTS
  g = g
  m = m
  p = p
  Threads = {g, m, p}
  InitialThreads = {g, p}
  Suspenders = {p}
  Collectors = {g}
  Profilers = {p}
  kMaxCheckpoints = 3
  NoThread = NoThread
  MaxCalls = 1
  MaxTrips = 1
INVARIANTS
  SuspendedWhileChecked
  EveryThreadChecked
  NoDeletedThreadUsed
  NoLostResumeAfterCheckpoint
PROPERTIES
  CheckpointCompletes
