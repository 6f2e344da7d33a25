\* Every ring of each cluster and every trace of up to MaxReqs lines;
\* the simulator stops at the end of the trace.
SPECIFICATION Spec
CONSTANTS
  Ids = {"a", "b"}
  Lines <- MCLines
  Clusters <- MCClusters
  max_hash = 15
  CacheSizes = {3}
  MaxReqs = 5
  Percents = {0, 50, 100}
INVARIANTS TypeOK RingExact UnevenRing FilesStay ReportAddsUp ProcessedTrace
PROPERTY ServersAreLRU
CHECK_DEADLOCK FALSE
