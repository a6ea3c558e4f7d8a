SPECIFICATION FairSpec
CONSTANTS
  None = None
  Tasks <- PlanTasks
  Workers <- TwoWorkers
  Nodes <- TwoNodes
  Successors <- PlanSuccessors
  Jobs <- PlanJobs
  NodeOf <- OneEach
  FirstNode = "n1"
  Stealable <- PlanStealable
INVARIANTS
  TasksConsistent
  NothingLeftAfterWait
PROPERTIES
  ImplementsTaskGraph
  FinishReturns
