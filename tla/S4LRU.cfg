\* Every arrangement that traces of up to MaxReqs requests lead to; the
\* simulator stops at the end of the trace.
SPECIFICATION Spec
CONSTANTS
  Ids = {"a", "b", "c"}
  Lines <- MCLines
  Runs <- MCRuns
  MaxReqs = 40
VIEW MCView
INVARIANTS TypeOK SegmentsDisjoint HitMovesUp
PROPERTIES OnlyBottomLoses HitKeepsAll
CHECK_DEADLOCK FALSE
