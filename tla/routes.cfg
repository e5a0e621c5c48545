SPECIFICATION Spec
CONSTANTS
  Name <- Names
  Id <- Ids
  Enrolled <- MCEnrolled
  Pictured <- MCPictured
  None = None
INVARIANTS
  TypeOK
  PlansWhatIsAsked
  AnswersAreHonest
  WritesWait
  StatusKept
CHECK_DEADLOCK FALSE
