CONSTANTS
  MaxMessages = 2
  MaxRewrites = 1
  MaxLoops = 1
  MaxSaves = 2
  MaxLines = 3
  Disturbances = {"crash", "fail", "rename"}
SPECIFICATION Spec
INVARIANTS TypeOK LogIsTheLastSave SavedMessagesSurvive LoopsReachTheDisk
CHECK_DEADLOCK FALSE
