\* Two runs of one process, every fault but its death, the ids reused.
SPECIFICATION Spec
CONSTANTS
  None = None
  Providers <- MCProviders
  Manifest <- MCManifest
  Adapters = {"code", "gguf"}
  ControlCaps = {}
  Rows <- MCRows
  StepIds = {"s1", "s2"}
  Plans <- SwapPlans
  Tools <- MCTools
  WallLimit = 3
  MaxSteps = 3
  MaxRetries = 1
  QualityFloor = 50
  RejectTypes = {"validation_failed"}
  Ticks = {0, 3}
  Faults = {"relabel", "output_reject", "listener_error", "adapter_error", "unload_error"}
  MaxRuns = 2
  MaxBoots = 1
INVARIANTS
  TypeOK
  SettledOnce
  LedgerTellsEnding
  LadderClimbs
  StepsBounded
  RowsTellOutcome
PROPERTIES
  RemedyKept
CHECK_DEADLOCK FALSE
