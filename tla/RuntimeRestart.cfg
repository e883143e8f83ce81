\* Two runs of one step over two processes, every fault, the ids reused with other tools.
SPECIFICATION Spec
CONSTANTS
  None = None
  Providers <- MCProviders
  Manifest <- MCManifest
  Adapters = {"code", "gguf"}
  ControlCaps = {}
  Rows <- MCRows
  StepIds = {"s1", "s2"}
  Plans <- SinglePlans
  Tools <- MCTools
  WallLimit = 1
  MaxSteps = 2
  MaxRetries = 1
  QualityFloor = 50
  RejectTypes = {"validation_failed"}
  Ticks = {0, 1}
  Faults = {"crash", "relabel", "output_reject", "listener_error", "adapter_error", "unload_error"}
  MaxRuns = 2
  MaxBoots = 2
INVARIANTS
  FactGrounded
  FactTrustIsOrigin
  StoreAgreesWithProjection
  ProjectedWithinCeiling
  ControlRecallClean
CHECK_DEADLOCK FALSE
