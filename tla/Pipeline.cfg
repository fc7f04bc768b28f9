\* Two DAG runs and two faults; three attempts of two executions, two models.
SPECIFICATION FairSpec
CONSTANTS
  Attempts = {a1, a2, a3}
  ExecutionOf <- MCExecutionOf
  Models <- MCModels
  MaxRaw = 2
  DagRuns = {1, 2}
  MaxActive = 2
  MaxTries = 2
  MaxFaults = 2
  a1 = a1
  a2 = a2
  a3 = a3
  e1 = e1
  e2 = e2
  m1 = m1
  m2 = m2
INVARIANTS
  DagTrue
  AcceptedIsBuilt
  BronzeKept
PROPERTIES
  PipelineEnds
\* Ended runs and attempts stop.
CHECK_DEADLOCK FALSE
