CONSTANTS
  Callbacks = {c1}
  Requests = {r1, r2}
  Answers = {"always", "cancelTurn"}
  None = None
  MaxTurns = 2
  MaxAttaches = 0
SPECIFICATION FairSpec
PROPERTIES
  ImplementsContract
  EveryAnswerIsHandled
  SettledToolResumes
CHECK_DEADLOCK FALSE
