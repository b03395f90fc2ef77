CONSTANTS
  Turns = {t1, t2}
  Requests = {r1, r2}
  NoTurn = NoTurn
SPECIFICATION FairSpec
INVARIANTS
  TypeOK
  RunningTurnIsReserved
  OneTaskAtATime
  InterruptHitsTheActiveTurn
  ReservationIsAccountedFor
  IdleMeansNoTurn
PROPERTIES
  ResetLeavesNoTask
  FinalizedTurnReleases
