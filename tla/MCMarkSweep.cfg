CONSTANTS
  Threads = {t1}
  Kind <- MCKind
  InitialHeaps <- MCInitialHeaps
  MaxCollections = 2
  MaxOperations = 3
  GetReferentIsAtomic = TRUE
SPECIFICATION Spec
INVARIANTS
  ReachableIsKept
  GarbageIsFreed
  ClearedBeforeFinalized
  NoForgottenWaiter
CHECK_DEADLOCK FALSE
