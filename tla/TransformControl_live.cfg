\* One batch of a run submitted under two keys, two workers, one death; fair.
SPECIFICATION FairSpec
CONSTANTS
  r1 = r1
  r2 = r2
  b1 = b1
  b2 = b2
  k1 = k1
  k2 = k2
  k3 = k3
  w1 = w1
  w2 = w2
  Runs = {r1}
  Batches = {b1, b2}
  Prerequisite <- Chain
  Keys = {k1, k2}
  KeyRun <- OneRun
  KeyBatch <- SubmittedTwice
  Workers = {w1, w2}
  MaxCrashes = 1
  NoKey = NoKey
  NoWorker = NoWorker
INVARIANTS
  OneActiveExecution
PROPERTIES
  EveryBatchEnds
