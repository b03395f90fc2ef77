CONSTANTS
  Entries = {c, e, n}
  Callbacks = {c}
  Turn = turn
  Requests = {r}
  Outbox = 1
  Inbox = 1
  MaxAttaches = 1
  MaxCancelled = 1
SPECIFICATION Spec
INVARIANTS
  TypeOK
  OnlyCancelledSendsAreLost
  QuiescentClientIsCurrent
PROPERTY ImplementsMirror
SYMMETRY Symmetry
CHECK_DEADLOCK FALSE
