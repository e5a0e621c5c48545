SPECIFICATION Spec
CONSTANTS
  c1 = c1
  c2 = c2
  s1 = s1
  s2 = s2
  None = None
  Call = {c1}
  Subject = {s1}
  Sdk = {"java"}
  Operation = {"detect"}
  MaxRetries = 1
  MaxEdits = 1
SYMMETRY Symmetry
INVARIANTS
  SameImage
CHECK_DEADLOCK FALSE
