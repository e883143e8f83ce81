\* A rebuild that is interrupted between two of its deletes.
SPECIFICATION Spec
CONSTANTS
  None = None
  Paths = {"a", "b"}
  SessionOf <- MCSessionOf
  PathOrder <- MCPathOrder
  Faults = {"crash", "rebuild_crash"}
  MaxLen = 2
INVARIANTS
  IngestComplete
