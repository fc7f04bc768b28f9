SPECIFICATION FairSpec
CONSTANTS
  Files <- MCFiles
  Topics <- MCTopics
  Form <- MCForm
  Route <- MCRoute
  Technical <- MCTechnical
  Size <- MCSize
  QueueLimit = 2
  MaxRuns = 2
  MaxFaults = 2
  InputTopics <- MCInput
  Correlation <- MCCorrelation
  Stage <- MCStage
  Retrying <- MCRetrying
  MaxJobFaults = 1
  Specs <- MCSpecs
  Authority <- MCAuthority
  Keys <- MCKeys
  Contents <- MCContents
  Buffer = 2
  MaxEdits = 1
  MaxErrors = 1
  Commands <- MCCommands
  Payloads <- MCPayloads
  MaxSource = 4
  MaxDlq = 2
  Clients <- MCClients
  Requests <- MCRequests
  IdentityOf <- MCIdentityOf
  IdOf <- MCIdOf
  Refused <- MCRefused
  Targets <- MCTargets
  Calls = 2
  o1 = o1
  o2 = o2
  c1 = c1
  c2 = c2
  r1 = r1
  r2 = r2
  r3 = r3
  r4 = r4
  i1 = i1
  i2 = i2
INVARIANTS
  ProducerTrue
  JobExact
  MdmTrue
  ReplayTrue
  LedgerOnce
PROPERTIES
  StreamEnds
