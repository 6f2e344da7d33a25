\* Every trace of up to MaxReqs lines, for every policy and cache size.  The
\* simulator stops at the end of the trace.
SPECIFICATION Spec
CONSTANTS
  Ids = {"a", "b", "c", "d"}
  Lines <- MCLines
  Policies = {"LRU", "FIFO", "Filter", "ThLRU", "ExpLRU"}
  CacheSizes = {2, 4}
  NParam = 1
  SizeThreshold = 2
  MaxReqs = 5
  Thresholds = {0, 1, 2, 3}
INVARIANTS TypeOK SizeAccounting IndexAgrees FilterAdmission CleanedTrace
PROPERTY ImplementsStack
CHECK_DEADLOCK FALSE
