CONSTANTS
  MaxCommits = 2
  DockerfileOf <- EachItsOwn
  Plans <- QuietPlans
  MaxLag = 1
SPECIFICATION Spec
INVARIANT CIHasItsDockerfile
CHECK_DEADLOCK FALSE
