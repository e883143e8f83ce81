\* A breaker cuts a plan of three steps after the first.
SPECIFICATION Spec
CONSTANTS
  None = None
  Providers <- MCProviders
  Manifest <- MCManifest
  Adapters = {"code", "gguf"}
  ControlCaps = {}
  Rows <- MCRows
  StepIds = {"s1", "s2", "s3"}
  Plans <- LongPlans
  Tools <- MCTools
  WallLimit = 3
  MaxSteps = 1
  MaxRetries = 2
  QualityFloor = None
  RejectTypes = {"validation_failed", "tool_failed"}
  Ticks = {0}
  Faults = {}
  MaxRuns = 1
  MaxBoots = 1
INVARIANTS
  GapsNamed
CHECK_DEADLOCK FALSE
