CONSTANTS
  Specs <- MixedSpecs
  NoRepo = NoRepo
  Refused <- HttpOnly
  Plans <- MixedPlans
  MaxLag = 1
SPECIFICATION FairSpec
INVARIANTS ProvisionedAtRest ReadyMeansProvisioned NoDanglingRepo
PROPERTIES NoTakeover SelfServiceConverges SelfServiceDeletionCompletes
CHECK_DEADLOCK FALSE
