SPECIFICATION FairSpec
CONSTANTS
  c1 = c1
  c2 = c2
  s1 = s1
  s2 = s2
  None = None
  Call = {c1}
  Subject = {s1}
  Sdk = {"python", "async", "go", "java", "node"}
  Operation = {"detect", "verify", "recognize", "list", "create", "add", "delete"}
  MaxRetries = 3
  MaxEdits = 2
INVARIANTS
  TypeOK
  AtMostOnce
  AnswersAreTrue
  NothingLeftBehind
  RetriesExhausted
  BufferedImage
PROPERTIES
  CallsReturn
CHECK_DEADLOCK FALSE
