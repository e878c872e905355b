SPECIFICATION Spec
CONSTANTS
  A = A
  B = B
  I = I
  Array = Array
  None = None
  Threads = {t1, t2}
  Classes = {A, B, I, Array}
  SuperClass <- BExtendsA
  Interfaces <- BImplementsI
  ComponentType <- ArrayOfB
  Mentions <- BIInA
  Catches <- IInA
  Uses <- BInA
  MaxCalls = 1
INVARIANTS
  NoCheckFails
  ClinitRunsOnceAfterSuper
  ReadyWhenReturned
PROPERTIES
  OneClassPerName
  EveryCallReturns
CHECK_DEADLOCK FALSE
