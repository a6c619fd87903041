CONSTANTS
  Specs <- TwoSpecs
  NoRepo = NoRepo
  Refused = {}
  Plans <- HostPlans
  MaxLag = 1
SPECIFICATION Spec
INVARIANT RepoIsTheOneAsked
CHECK_DEADLOCK FALSE
