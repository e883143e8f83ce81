\* Two models, two schemas, three more calls; the index may lag two behind.
SPECIFICATION Spec
CONSTANTS
  None = None
  Providers = {"small", "large"}
  Manifest <- MCManifest
  Adapters = {"gguf"}
  ControlCaps = {}
  Requests <- MCRequests
  Floor = 5000
  Budgets = {2, 9}
  Outcomes <- MCOutcomes
  MinSamples = 2
  Histories <- MCHistories
  MaxNew = 3
  MaxLag = 2
INVARIANTS
  TypeOK
  CostIsP90
  VerdictEarned
PROPERTIES
  DemotionIsFinal
CHECK_DEADLOCK FALSE
