SPECIFICATION BSpec
CONSTANTS
  c = c
  p1 = p1
  p2 = p2
  p3 = p3
  Threads = {c, p1, p2, p3}
  Coordinator = c
  NoThread = NoThread
  recursive_ = FALSE
  Interruptible = {p1, p2, p3}
INVARIANTS
  LeavesAfterAllPassed
PROPERTIES
  CoordinatorReturns
