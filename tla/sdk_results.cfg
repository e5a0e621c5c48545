SPECIFICATION Spec
CONSTANTS
  Missing = Missing
  None = None
  MaxScore = 10
  WebThreshold = 8
  Sdk = {"python", "go", "java", "node", "web"}
  Threshold <- Thresholds
  Limit = {0, 1}
  Key = {"", "own", Missing}
  Single = {"", "single"}
  DetectDoc <- Detections
  SearchDoc <- Searches
  VerifyDoc <- Verifications
INVARIANTS
  TypeOK
  SearchRanked
  OneToOne
  FeatureDecodes
  ConfidenceKept
  KeyOfService
CHECK_DEADLOCK FALSE
