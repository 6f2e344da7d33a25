\* The victims of LFUDA while nothing has aged.
SPECIFICATION Spec
CONSTANTS
  Ids = {"a", "b", "c"}
  Lines <- MCLines
  Policies = {"LFUDA"}
  CacheSizes = {2, 3}
  K = 2
  Unit = 2
  MaxReqs = 6
PROPERTY LeastFrequentEvicted
CHECK_DEADLOCK FALSE
