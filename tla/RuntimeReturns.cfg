\* An on_output listener rejects.
SPECIFICATION FairSpec
CONSTANTS
  None = None
  Providers <- MCProviders
  Manifest <- MCManifest
  Adapters = {"code", "gguf"}
  ControlCaps = {}
  Rows <- MCRows
  StepIds = {"s1", "s2", "s3"}
  Plans <- LongPlans
  Tools <- MCTools
  WallLimit = 3
  MaxSteps = 2
  MaxRetries = 2
  QualityFloor = None
  RejectTypes = {"validation_failed", "tool_failed"}
  Ticks = {0}
  Faults = {"output_reject"}
  MaxRuns = 1
  MaxBoots = 1
PROPERTIES
  RunReturns
CHECK_DEADLOCK FALSE
