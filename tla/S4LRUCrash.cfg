\* Objects larger than a quarter of the cache: a hit on one kills the process.
SPECIFICATION Spec
CONSTANTS
  Ids = {"a", "b", "c"}
  Lines <- MCLines
  Runs <- CrashRuns
  MaxReqs = 40
VIEW MCView
INVARIANT HitMovesUp
CHECK_DEADLOCK FALSE
