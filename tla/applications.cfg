SPECIFICATION Spec
CONSTANTS
  u1 = u1
  u2 = u2
  user_1 = user_1
  user_2 = user_2
  User = {u1, u2}
  Subject = {user_1, user_2}
  Bound <- MCBound
  Person = {p1}
  Session = {r1}
  Refresh = {k1, k2}
  Removal = {d1}
  Failing = {user_1}
  MaxFaces = 1
  MaxActive = 2
  Supervised = {u1}
  Edited = {user_1}
  Watched = u1
  None = None
INVARIANTS
  TypeOK
  DeletedCannotVerify
  VerifiedIsOwner
  ShownIsCurrent
SYMMETRY Symmetry
CHECK_DEADLOCK FALSE
