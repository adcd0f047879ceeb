SPECIFICATION Spec
CONSTANTS
  a = a
  b = b
  Ids <- MCIds
  MaxCred = 2
  MaxVer = 1
  MaxFail = 0
INVARIANT StopLosesNothing
