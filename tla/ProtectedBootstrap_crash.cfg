\* As deployed: a worker dies, is restarted, and nothing reconciles its lease.
SPECIFICATION FairSpec
CONSTANTS
  Workers = {w1}
  MaxReconciles = 0
  MaxCrashes = 1
  ReconcilerRuns = FALSE
  NoWorker = NoWorker
PROPERTIES
  ClaimedEnds
\* The row ends, and idle workers poll for nothing.
CHECK_DEADLOCK FALSE
