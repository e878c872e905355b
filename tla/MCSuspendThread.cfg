SPECIFICATION MCSpec
CONSTANTS
  a = a
  b = b
  c = c
  d = d
  NoThread = NoThread
  Threads = {a, b, c, d}
  InitialThreads = {a, b}
  Suspenders = {c}
  PeerCalls <- AOnB
  IdCalls <- ACallsIds
  Mortal = {c, d}
  Created = {c}
  ThreadIds = {1, 2, 3}
  TimeOuts = {"id"}
  MaxCalls = 1
INVARIANTS
  EveryCountOwned
  TargetStaysSuspended
  IdStillNamesTarget
PROPERTIES
  SuspensionReturns
