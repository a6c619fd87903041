CONSTANTS
  q1 = q1
  q2 = q2
  q3 = q3
  Requests <- Prompts
  KeepRuns = 2
  None = None
  Overlap <- SomeFiles
  Plans <- AllPlans
SPECIFICATION FairSpec
INVARIANTS OneRunPerCommit ReportsAreTrue FailedLeavesNothing
PROPERTIES BranchOnlyGrows SessionRecovers
CHECK_DEADLOCK FALSE
