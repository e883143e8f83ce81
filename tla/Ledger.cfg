\* Crashes, power losses at line boundaries and failing system calls.
SPECIFICATION Spec
CONSTANTS
  Types = {"composition", "event"}
  Faults = {"death", "power_loss", "flush_error", "fsync_error"}
  MaxLines = 5
INVARIANTS
  TypeOK
  AckedSurvives
  AckedInOrder
  SeqIsPlace
  CompositionFirst
PROPERTIES
  DurableGrows
