CONSTANTS
  Channels = {"c1", "c2"}
  Specs <- AllSpecs
  FirstSpec <- OneChannel
  Faults = {"send", "secret", "build", "creds", "quota", "service", "rollout", "api", "crash"}
  MaxChanges = 2
  MaxLag = 1
  MaxFaults = 1
SPECIFICATION FairSpec
INVARIANTS RecordedMeansHandled NothingBeforeBaseline HandledAtRest
PROPERTIES EventsArrive SendingStops
CHECK_DEADLOCK FALSE
