\* Every order of four servers on the ring, and every trace of up to MaxReqs
\* lines: two windows.
SPECIFICATION Spec
CONSTANTS
  Ids = {"a", "b", "c"}
  Lines <- MCLines
  Positions = {0, 40, 80, 160}
  HashFunctions <- MCHashFunctions
  virtual_node = 1
  window_size = 4
  alpha = 15
  cache_size = 2
  MaxReqs = 8
INVARIANTS TypeOK RingKept
PROPERTY LoadForMax
CHECK_DEADLOCK FALSE
