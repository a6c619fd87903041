CONSTANTS
  Faults = {"secrets", "stall", "unavailable", "crash", "ci", "api", "delete", "remove"}
  MaxChanges = 2
  MaxLag = 1
  MaxFaults = 1
SPECIFICATION FairSpec
INVARIANT RolloutAtRest
PROPERTIES RolloutsGoForward DeliversInOrder StatusConverges DeletionRemovesChildren
CHECK_DEADLOCK FALSE
