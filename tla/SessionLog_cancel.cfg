CONSTANTS
  MaxMessages = 3
  MaxRewrites = 0
  MaxLoops = 0
  MaxSaves = 2
  MaxLines = 3
  Disturbances = {}
SPECIFICATION CancelSpec
INVARIANT LoggedOnce
CHECK_DEADLOCK FALSE
