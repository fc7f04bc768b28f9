\* Two runs, a chain of two batches in the first and its head in the second;
\* two workers; one death.
SPECIFICATION Spec
CONSTANTS
  r1 = r1
  r2 = r2
  b1 = b1
  b2 = b2
  k1 = k1
  k2 = k2
  k3 = k3
  w1 = w1
  w2 = w2
  Runs = {r1, r2}
  Batches = {b1, b2}
  Prerequisite <- Chain
  Keys = {k1, k2, k3}
  KeyRun <- TwoRuns
  KeyBatch <- BatchesOfRuns
  Workers = {w1, w2}
  MaxCrashes = 1
  NoKey = NoKey
  NoWorker = NoWorker
SYMMETRY WorkerSymmetry
INVARIANTS
  TypeOK
  OneActiveRun
  PrerequisitesBuilt
  OneBuilder
PROPERTIES
  NeverRevived
