CONSTANTS
  Plugins = {1, 2}
  Specs <- ThreeSpecs
  Plans <- TwoPlans
SPECIFICATION PlanSpec
INVARIANTS NeverOlderThanPinned BuildsAtRest StatusAtRest
PROPERTIES PluginsConverge AttachmentReported
CHECK_DEADLOCK FALSE
