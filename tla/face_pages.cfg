SPECIFICATION Spec
CONSTANTS
  Face <- MCFace
  Mine <- MCMine
  Size = 2
  PageLimit = 1
INVARIANTS
  TypeOK
  ConfirmedGone
  AdoptedFresh
  KnownExact
CHECK_DEADLOCK FALSE
