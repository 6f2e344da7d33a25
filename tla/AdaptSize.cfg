\* Every trace of up to MaxReqs lines; the simulator stops at the end of the
\* trace.
SPECIFICATION Spec
CONSTANTS
  Ids = {"a", "b", "c"}
  Lines <- MCLines
  CacheSizes = {1, 2}
  Intervals = {2}
  FirstInterval = 4
  Postponement = 2
  Unit = 10000
  MaxReqs = 11
  MaxReconfigurations = 4
INVARIANTS TypeOK StatSizeExact StatsFade Punctual
CHECK_DEADLOCK FALSE
