\* Every trace of up to MaxReqs lines, for every policy; the simulator stops at
\* the end of the trace.
SPECIFICATION Spec
CONSTANTS
  Ids = {"a", "b", "c"}
  Lines <- MCLines
  Policies = {"GD", "GDS", "GDSF", "LRUK", "LFUDA"}
  CacheSizes = {2, 3}
  K = 2
  Unit = 2
  MaxReqs = 6
INVARIANTS TypeOK MapsAgree ValuesAged GDIsLRU KthReference FrequencyExact
CHECK_DEADLOCK FALSE
