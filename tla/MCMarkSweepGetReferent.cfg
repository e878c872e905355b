CONSTANTS
  Threads = {t1}
  Kind <- MCKind
  InitialHeaps <- MCInitialHeaps
  MaxCollections = 1
  MaxOperations = 1
  GetReferentIsAtomic = FALSE
SPECIFICATION Spec
INVARIANTS
  ReachableIsKept
CHECK_DEADLOCK FALSE
