SPECIFICATION LiveSpec
CONSTANTS
  f1 = f1
  f2 = f2
  f3 = f3
  k1 = k1
  k2 = k2
  k3 = k3
  s1 = s1
  s2 = s2
  r1 = r1
  r2 = r2
  w = w
  None = None
  Request = {r1, r2}
  Worker = w
  Face = {f1, f2}
  Legacy = {f1}
  Key = {k1}
  Subject = {s1}
  Late = {"add", "delete"}
  Bypass = {}
  FlushLimit = 2
  Refused = None
  MaxCrash = 1
  MaxCalls = 1
  MaxRows = 1
INVARIANTS
  OneIntent
  ReadsOwnOriginal
PROPERTIES
  RequestsEnd
  OutboxDrains
  UploadsRecover
