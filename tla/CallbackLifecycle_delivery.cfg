CONSTANTS
  Callbacks = {c1, c2}
  Requests = {r1}
  Answers = {"approve"}
  None = None
  MaxTurns = 1
  MaxAttaches = 2
SPECIFICATION Spec
INVARIANTS
  TypeOK
  AttachedClientWasAsked
CHECK_DEADLOCK FALSE
