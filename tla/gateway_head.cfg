SPECIFICATION StuckSpec
CONSTANTS
  f1 = f1
  f2 = f2
  f3 = f3
  k1 = k1
  k2 = k2
  k3 = k3
  s1 = s1
  s2 = s2
  r1 = r1
  r2 = r2
  w = w
  None = None
  Request = {r1}
  Worker = w
  Face = {f2}
  Legacy = {}
  Key = {k1, k2}
  Subject = {s1}
  Late = {"add", "delete"}
  Bypass = {}
  FlushLimit = 2
  Refused = k1
  MaxCrash = 0
  MaxCalls = 2
  MaxRows = 2
PROPERTIES
  OthersRetried
