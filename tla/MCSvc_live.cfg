CONSTANTS
  MaxCommits = 2
  DockerfileOf <- EachItsOwn
  Plans <- LivePlans
  MaxLag = 1
SPECIFICATION FairSpec
INVARIANT PollingGoesOn
PROPERTIES PipelineConverges ServiceDeletionCompletes
CHECK_DEADLOCK FALSE
