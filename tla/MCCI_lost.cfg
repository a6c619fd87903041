CONSTANTS
  Revisions = {r1}
  Registries = {g1}
  PodNames = {p1, p2}
  None = None
  Plans <- QuietPlans
  MaxLag = 2
SPECIFICATION Spec
INVARIANT LostOnlyIfDeleted
CHECK_DEADLOCK FALSE
