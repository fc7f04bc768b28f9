\* Two workers, two reconciliations, two deaths; expired leases are reconciled,
\* so that a worker can outlive its claim.
SPECIFICATION Spec
CONSTANTS
  Workers = {w1, w2}
  MaxReconciles = 2
  MaxCrashes = 2
  ReconcilerRuns = TRUE
  NoWorker = NoWorker
SYMMETRY WorkerSymmetry
INVARIANTS
  PublishedIsOurs
  CreatedOnce
PROPERTIES
  NeverReplaced
  SettledForever
\* The row ends, and idle workers poll for nothing.
CHECK_DEADLOCK FALSE
