\* Whether find() always finds a fragment.
SPECIFICATION Spec
CONSTANTS
  Ids = {"a", "b", "c"}
  Lines <- MCLines
  Hashes = {0, 1, 2, 3}
  HashFunctions <- MCHashFunctions
  SampleRates = {1}
  cache_number = 2
  virtual_node = 2
  window_size = 4
  threshold = 2
  alpha = 50
  cache_size = 2
  MaxReqs = 8
INVARIANT FragmentFound
CHECK_DEADLOCK FALSE
