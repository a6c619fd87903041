CONSTANTS
  Revisions = {r1}
  Registries = {g1}
  PodNames = {p1, p2}
  None = None
  Plans <- LivePlans
  MaxLag = 1
SPECIFICATION FairSpec
INVARIANT OutcomeAtRest
PROPERTIES BuildSettles QuotaIsRetried DeletionCompletes SuccessReachesCD
CHECK_DEADLOCK FALSE
