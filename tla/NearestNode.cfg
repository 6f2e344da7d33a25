\* A search stops when it has returned.
SPECIFICATION SearchSpec
CONSTANTS
  Lists <- MCLists
  Hashes = {0, 1, 2, 3, 4, 5, 6}
INVARIANTS SearchTypeOK FindsNearest
PROPERTY Terminates
CHECK_DEADLOCK FALSE
