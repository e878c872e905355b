SPECIFICATION Spec
CONSTANTS
  Apps = {a1, a2}
  GcDaemon = gcd
  TrimDaemon = trimd
  foreground_collector_type_ = "CMS"
  background_collector_type_ = "SS"
  have_zygote_space_ = TRUE
  MaxOperations = 2
INVARIANTS
  OneCollector
  CriticalArraysStayPut
  NothingInRetiredSpace
PROPERTIES
  EveryCallReturns
  DesiredCollectorInstalled
CHECK_DEADLOCK FALSE
