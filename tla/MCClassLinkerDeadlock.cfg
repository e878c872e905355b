SPECIFICATION Spec
CONSTANTS
  A = A
  B = B
  I = I
  Array = Array
  None = None
  Threads = {t1, t2}
  Classes = {A, B, I, Array}
  SuperClass <- BExtendsA
  Interfaces <- BImplementsI
  ComponentType <- ArrayOfB
  Mentions <- BInA
  Catches <- BInA
  Uses <- BInA
  MaxCalls = 1
PROPERTY
  EnsureResolvedReturns
CHECK_DEADLOCK FALSE
