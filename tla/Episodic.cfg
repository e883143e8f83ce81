\* Three ledgers of two sessions that grow and go bad, ingests and rebuilds, and a process that may die.
SPECIFICATION Spec
CONSTANTS
  None = None
  Paths = {"a", "b", "c"}
  SessionOf <- MCSessionOf
  PathOrder <- MCPathOrder
  Faults = {"crash", "bad_line"}
  MaxLen = 2
INVARIANTS
  TypeOK
  SessionsWhole
  DigestNotAhead
  IngestComplete
PROPERTIES
  IngestKeeps
