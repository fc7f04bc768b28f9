\* Two jobs after each other, of which one may be killed at any step.
SPECIFICATION MCSpec
CONSTANTS
  LocationsIn = 2
  LastMonth = 16
  Jobs <- MCJobs
  MaxRuns = 2
  MaxFaults = 1
INVARIANTS
  DatasetTrue
  MessagesAgree
  MastersHonest
PROPERTIES
  RunEnds
\* After the last job nothing runs.
CHECK_DEADLOCK FALSE
