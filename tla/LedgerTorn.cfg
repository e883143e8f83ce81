\* A power loss can leave a part of the line that was being written.
SPECIFICATION Spec
CONSTANTS
  Types = {"composition", "event"}
  Faults = {"power_loss", "torn"}
  MaxLines = 3
INVARIANTS
  Resumable
