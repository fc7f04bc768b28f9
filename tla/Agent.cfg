\* Two tool requests on one worker, one on two workers, one governed read, one plan, two
\* publications with an operator's job beside them.
SPECIFICATION MCFairSpec
CONSTANTS
  r1 = r1
  r2 = r2
  q1 = q1
  s1 = s1
  s2 = s2
  a1 = a1
  l1 = l1
  l2 = l2
  p1 = p1
  p2 = p2
  None = None
  Requests <- MCRequests
  Jobs = {1, 2, 3, 4, 5, 6, 7, 8, 9}
  NoJob = NoJob
  AgentsOf <- MCAgentsOf
  PoolSize = 1
  MaxRetries = 1
  MaxToolCalls = 3
  Described = 0
  Charts = 1
  Rules = 1
  Queries <- MCReads
  Inputs <- MCInputs
  Labels <- MCLabels
  Subjects <- MCSubjects
  Bindings <- MCBindings
  Approvals <- MCApprovals
  Records <- MCRecords
  AuthEnabled = TRUE
  Plans <- MCPlans
  MaxSteps = 4
  MaxDepth = 3
  MaxTotalTools = 3
  HandlerCalls <- MCHandlerCalls
  Publications <- MCPublications
  Dashboards <- MCDashboards
  Built <- MCBuilt
  SlugOf <- MCSlugOf
  Visuals <- MCVisuals
  Layout <- MCLayout
  Suites <- MCSuites
  SuiteVisuals <- MCSuiteVisuals
  Operators <- MCOperators
  Standing <- MCStanding
  Granted <- MCGranted
INVARIANTS
  ToolsBounded
  AccessGoverned
  PlanKept
  PublicationTrue
PROPERTIES
  AnswersCome
  QueueDrains
\* Answered requests and finished plans stop.
CHECK_DEADLOCK FALSE
