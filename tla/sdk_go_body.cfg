SPECIFICATION Spec
CONSTANTS
  c1 = c1
  c2 = c2
  s1 = s1
  s2 = s2
  None = None
  Call = {c1}
  Subject = {s1}
  Sdk = {"go"}
  Operation = {"detect", "list", "delete"}
  MaxRetries = 1
  MaxEdits = 0
SYMMETRY Symmetry
INVARIANTS
  AttemptsUsedUp
CHECK_DEADLOCK FALSE
