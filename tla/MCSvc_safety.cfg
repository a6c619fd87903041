CONSTANTS
  MaxCommits = 2
  DockerfileOf <- EachItsOwn
  Plans <- SafetyPlans
  MaxLag = 1
SPECIFICATION Spec
INVARIANT ReadyMeansRan
CHECK_DEADLOCK FALSE
