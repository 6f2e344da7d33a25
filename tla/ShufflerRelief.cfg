\* Which way the files of a moved arc go.
SPECIFICATION Spec
CONSTANTS
  Ids = {"a", "b", "c"}
  Lines <- MCLines
  Positions = {0, 40, 80, 160}
  HashFunctions <- MCHashFunctions
  virtual_node = 1
  window_size = 4
  alpha = 15
  cache_size = 2
  MaxReqs = 8
PROPERTY ReliefForMax
CHECK_DEADLOCK FALSE
