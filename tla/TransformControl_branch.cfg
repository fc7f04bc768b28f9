\* Two independent batches of a run and two workers; nothing fails.
SPECIFICATION Spec
CONSTANTS
  r1 = r1
  r2 = r2
  b1 = b1
  b2 = b2
  k1 = k1
  k2 = k2
  k3 = k3
  w1 = w1
  w2 = w2
  Runs = {r1}
  Batches = {b1, b2}
  Prerequisite <- Independent
  Keys = {k1, k2}
  KeyRun <- OneRun
  KeyBatch <- BatchesOfRuns
  Workers = {w1, w2}
  MaxCrashes = 0
  NoKey = NoKey
  NoWorker = NoWorker
INVARIANTS
  BranchCreationIdempotent
