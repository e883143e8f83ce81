\* A provider with a T0 ceiling runs after a T1 fact.
SPECIFICATION Spec
CONSTANTS
  None = None
  Providers <- MCProviders
  Manifest <- MCManifestT0
  Adapters = {"code", "gguf"}
  ControlCaps = {}
  Rows <- MCRows
  StepIds = {"s1", "s2", "s3"}
  Plans <- LongPlans
  Tools <- MCTools
  WallLimit = 3
  MaxSteps = 2
  MaxRetries = 2
  QualityFloor = None
  RejectTypes = {"validation_failed", "tool_failed"}
  Ticks = {0}
  Faults = {}
  MaxRuns = 1
  MaxBoots = 1
INVARIANTS
  ProjectedWithinCeiling
CHECK_DEADLOCK FALSE
