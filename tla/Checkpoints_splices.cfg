CONSTANTS
  Paths = {p}
  Contents <- TwoLines
  MaxLog = 5
  MaxMsgs = 2
  Faults = {}
  Ways = {}
SPECIFICATION Spec
INVARIANT SplicesLandExactly
CHECK_DEADLOCK FALSE
