\* Every ring of two servers and every trace of up to MaxReqs lines: two windows
\* when each request is sampled, one when every other is.
SPECIFICATION Spec
CONSTANTS
  Ids = {"a", "b", "c"}
  Lines <- MCLines
  Hashes = {0, 1, 2, 3}
  HashFunctions <- MCHashFunctions
  SampleRates = {1, 2}
  cache_number = 2
  virtual_node = 2
  window_size = 4
  threshold = 2
  alpha = 50
  cache_size = 2
  MaxReqs = 8
INVARIANTS TypeOK VnodesPartitioned StacksExact FragmentsCounted
PROPERTY MovesImprove
CHECK_DEADLOCK FALSE
