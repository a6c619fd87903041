CONSTANTS
  Revisions = {r1, r2}
  Registries = {g1}
  PodNames = {p1, p2}
  None = None
  Plans <- SafetyPlans
  MaxLag = 2
SPECIFICATION Spec
SYMMETRY PodSymmetry
INVARIANTS IInv SucceededMeansPushed OneActiveBuild BuildingFollowsItsPod
PROPERTY OutcomeIsFinal
CHECK_DEADLOCK FALSE
