------------------------ MODULE TurnControllerProofs ------------------------
(***************************************************************************)
(* Machine-checked proofs about TurnController, for any number of turns    *)
(* and of concurrent requests.                                             *)
(*                                                                         *)
(* The safety invariants of the module are not inductive: they say nothing *)
(* of what a suspended request is entitled to.  IInv adds it: a start      *)
(* request alone owns a turn that has no task yet, a lifecycle request     *)
(* owns the execution, and a turn on its way out no longer owns anything.  *)
(***************************************************************************)
EXTENDS TurnController, TLAPS

\* A start that waits for its response is the only one, it reserves the
\* session for a turn without a task, and no other task is live.
StartOwnsItsTurn ==
  /\ \A r \in Requests : req[r].op = "start" =>
       /\ req[r].turn \in Turns
       /\ execution = TurnRun(req[r].turn)
       /\ activeTurn = req[r].turn
       /\ task[req[r].turn] = "none"
       /\ \A t \in Turns : task[t] \notin Live
  /\ \A r, q \in Requests : req[r].op = "start" /\ req[q].op = "start" => r = q

\* A compaction, clear, rewind or fork in progress holds the execution.
LifecycleOwnsExecution ==
  \A r \in Requests : req[r].op \in {"core", "reset"} => execution = Lifecycle(r)

\* A turn that has published the idle status is detached from the controller.
IdlingTurnIsDetached ==
  \A t \in Turns : task[t] = "idling" => activeTurn = NoTurn /\ projector = NoTurn
                                         /\ held = NoTurn

\* A completed turn is sending its last notification, or over.
CompletedTurnIsLate ==
  \A t \in completed : task[t] \in {"completing", "done"}

\* A suspended steer names the turn it checked.
SteerNamesATurn ==
  \A r \in Requests : req[r].op = "steer" => req[r].turn \in Turns

IInv ==
  /\ TypeOK
  /\ RunningTurnIsReserved
  /\ InterruptHitsTheActiveTurn
  /\ ReservationIsAccountedFor
  /\ IdleMeansNoTurn
  /\ CompletedTurnIsOver
  /\ StartOwnsItsTurn
  /\ LifecycleOwnsExecution
  /\ IdlingTurnIsDetached
  /\ CompletedTurnIsLate
  /\ SteerNamesATurn

-----------------------------------------------------------------------------
\* The initial state satisfies the inductive invariant.
THEOREM InitIsInductive == Init => IInv
BY NoTurnAssumption
   DEF Init, IInv, TypeOK, RunningTurnIsReserved, InterruptHitsTheActiveTurn,
       ReservationIsAccountedFor, IdleMeansNoTurn, CompletedTurnIsOver,
       StartOwnsItsTurn, LifecycleOwnsExecution, IdlingTurnIsDetached,
       CompletedTurnIsLate, SteerNamesATurn, MaybeTurn, Idle, TurnRun,
       Lifecycle, Executions, Announcing, InLoop, Closing, Reserved, Live,
       Steps, Ops, NoRequest

\* Every step of a request, of a turn's task or of the connection preserves
\* the inductive invariant.
THEOREM NextIsInductive == IInv /\ [Next]_vars => IInv'
<1> SUFFICES ASSUME IInv, [Next]_vars PROVE IInv'
  OBVIOUS
<1> USE NoTurnAssumption
<1> USE DEF IInv, TypeOK, RunningTurnIsReserved, InterruptHitsTheActiveTurn,
            ReservationIsAccountedFor, IdleMeansNoTurn, CompletedTurnIsOver,
            StartOwnsItsTurn, LifecycleOwnsExecution, IdlingTurnIsDetached,
            CompletedTurnIsLate, SteerNamesATurn, MaybeTurn, Idle, TurnRun,
            Lifecycle, Executions, Announcing, InLoop, Closing, Reserved, Live,
            Steps, Ops, NoRequest, vars, turnVars
<1>1. ASSUME NEW r \in Requests, NEW t \in Turns, StartTurn(r, t)
      PROVE  IInv'
  <2> USE <1>1 DEF StartTurn, Accepts, Reserve, FreshTurn, Suspend,
                   ActiveTaskRuns, ExecutionIsIdle
  <2>1. /\ \A u \in Turns : task[u] \notin Live
        /\ \A q \in Requests : req[q].op \notin {"start", "core", "reset"}
    <3>1. \A u \in Turns : task[u] \notin Live
      OBVIOUS
    <3>2. \A q \in Requests : req[q].op \notin {"start", "core", "reset"}
      OBVIOUS
    <3> QED
      BY <3>1, <3>2
  <2>2. TypeOK'
    OBVIOUS
  <2>3. (RunningTurnIsReserved /\ InterruptHitsTheActiveTurn /\ IdleMeansNoTurn)'
    BY <2>1
  <2>4. ReservationIsAccountedFor'
    OBVIOUS
  <2>5. CompletedTurnIsOver'
    BY <2>1
  <2>6. StartOwnsItsTurn'
    <3>1. req'[r].op = "start" /\ req'[r].turn = t
      OBVIOUS
    <3>2. \A q \in Requests \ {r} : req'[q].op # "start"
      BY <2>1
    <3> QED
      BY <2>1, <3>1, <3>2
  <2>7. (LifecycleOwnsExecution /\ SteerNamesATurn)'
    BY <2>1
  <2>8. (IdlingTurnIsDetached /\ CompletedTurnIsLate)'
    BY <2>1
  <2> QED
    BY <2>2, <2>3, <2>4, <2>5, <2>6, <2>7, <2>8
<1>2. ASSUME NEW r \in Requests, NEW t \in Turns, Interrupt(r, t)
      PROVE  IInv'
  BY <1>2, SMTT(20) DEF Interrupt, Accepts, ActiveTaskRuns
<1>3. ASSUME NEW r \in Requests, NEW t \in Turns, Steer(r, t)
      PROVE  IInv'
  BY <1>3, SMTT(20) DEF Steer, Accepts, Suspend
<1>4. ASSUME NEW r \in Requests, Inject(r)
      PROVE  IInv'
  BY <1>4, SMTT(20) DEF Inject, Accepts, ExecutionIsIdle, Suspend
<1>5. ASSUME NEW r \in Requests, CompactOrClear(r)
      PROVE  IInv'
  BY <1>5, SMTT(20) DEF CompactOrClear, ReserveLifecycle, Accepts, ExecutionIsIdle, Suspend
<1>6. ASSUME NEW r \in Requests, RewindOrFork(r)
      PROVE  IInv'
  BY <1>6, SMTT(20) DEF RewindOrFork, ReserveLifecycle, Accepts, ExecutionIsIdle, Suspend
<1>7. ASSUME NEW r \in Requests, StartResponded(r)
      PROVE  IInv'
  BY <1>7, SMTT(20) DEF StartResponded, Finish
<1>8. ASSUME NEW r \in Requests, SteerProjected(r)
      PROVE  IInv'
  BY <1>8, SMTT(20) DEF SteerProjected, Finish
<1>9. ASSUME NEW r \in Requests, Injected(r)
      PROVE  IInv'
  BY <1>9, SMTT(20) DEF Injected, Finish
<1>10. ASSUME NEW r \in Requests, LifecycleReleased(r)
       PROVE  IInv'
  BY <1>10, SMTT(20) DEF LifecycleReleased, Finish
<1>11. ASSUME NEW r \in Requests, CoreReplaced(r)
       PROVE  IInv'
  BY <1>11, SMTT(20) DEF CoreReplaced, ResetTurns, Finish, Suspend, ActiveTaskRuns
<1>12. ASSUME NEW r \in Requests, TaskCancelled(r)
       PROVE  IInv'
  BY <1>12, SMTT(20) DEF TaskCancelled, ResetTurns, Finish, ActiveTaskRuns
<1>13. ASSUME NEW r \in Requests, ResetTimesOut(r)
       PROVE  IInv'
  BY <1>13, SMTT(20) DEF ResetTimesOut, Finish, ActiveTaskRuns
<1>14. ASSUME NEW t \in Turns, FireScheduledLoop(t)
       PROVE  IInv'
  BY <1>14, SMTT(20) DEF FireScheduledLoop, Reserve, FreshTurn, ActiveTaskRuns, ExecutionIsIdle
<1>15. ASSUME NEW t \in Turns, RunTurn(t)
       PROVE  IInv'
  BY <1>15, SMTT(20) DEF RunTurn, Moves
<1>16. ASSUME NEW t \in Turns, ReportRunning(t)
       PROVE  IInv'
  BY <1>16, SMTT(20) DEF ReportRunning, Moves
<1>17. ASSUME NEW t \in Turns, EnterLoop(t)
       PROVE  IInv'
  BY <1>17, SMTT(20) DEF EnterLoop, Moves
<1>18. ASSUME NEW t \in Turns, LeaveLoop(t)
       PROVE  IInv'
  BY <1>18, SMTT(20) DEF LeaveLoop, Moves
<1>19. ASSUME NEW t \in Turns, Conclude(t)
       PROVE  IInv'
  BY <1>19, SMTT(20) DEF Conclude, Moves
<1>20. ASSUME NEW t \in Turns, GoIdle(t)
       PROVE  IInv'
  BY <1>20, SMTT(20) DEF GoIdle, Moves
<1>21. ASSUME NEW t \in Turns, CompleteTurn(t)
       PROVE  IInv'
  BY <1>21, SMTT(20) DEF CompleteTurn, Moves, Release
<1>22. ASSUME NEW t \in Turns, EndTask(t)
       PROVE  IInv'
  BY <1>22, SMTT(20) DEF EndTask, Moves, Release
<1>23. ASSUME NEW t \in Turns, CancelBeforeLoop(t)
       PROVE  IInv'
  BY <1>23, SMTT(20) DEF CancelBeforeLoop, Delivers
<1>24. ASSUME NEW t \in Turns, CancelInLoop(t)
       PROVE  IInv'
  BY <1>24, SMTT(20) DEF CancelInLoop, Delivers
<1>25. ASSUME NEW t \in Turns, CancelWhileFinalizing(t)
       PROVE  IInv'
  BY <1>25, SMTT(20) DEF CancelWhileFinalizing, Delivers, Release
<1>26. ASSUME Detach
       PROVE  IInv'
  <2> USE <1>26 DEF Detach
  <2>1. \A r \in Requests : req'[r] = NoRequest
    OBVIOUS
  <2>2. abandoned' \in SUBSET Turns
    OBVIOUS
  <2>3. TypeOK'
    BY <2>1, <2>2
  <2>4. \A t \in Turns : execution' = TurnRun(t) <=> execution = TurnRun(t)
    OBVIOUS
  <2>5. (RunningTurnIsReserved /\ CompletedTurnIsOver)'
    BY <2>4
  <2>6. ReservationIsAccountedFor'
    BY <2>4
  <2>7. (InterruptHitsTheActiveTurn /\ IdleMeansNoTurn /\ IdlingTurnIsDetached
         /\ CompletedTurnIsLate)'
    OBVIOUS
  <2>8. (StartOwnsItsTurn /\ LifecycleOwnsExecution /\ SteerNamesATurn)'
    BY <2>1
  <2> QED
    BY <2>3, <2>5, <2>6, <2>7, <2>8
<1>27. ASSUME Attach
       PROVE  IInv'
  BY <1>27, SMTT(20) DEF Attach
<1>28. CASE UNCHANGED vars
  BY <1>28
<1>29. QED
  BY <1>1, <1>2, <1>3, <1>4, <1>5, <1>6, <1>7, <1>8, <1>9, <1>10, <1>11,
     <1>12, <1>13, <1>14, <1>15, <1>16, <1>17, <1>18, <1>19, <1>20, <1>21,
     <1>22, <1>23, <1>24, <1>25, <1>26, <1>27, <1>28 DEF Next, RequestStep,
     TaskStep

\* Every reachable state satisfies the inductive invariant.
THEOREM Invariance == Spec => []IInv
BY InitIsInductive, NextIsInductive, PTL DEF Spec

\* The controller's variables always have their types, whatever requests,
\* cancellations, timeouts and disconnections occur.
THEOREM TypeCorrect == Spec => []TypeOK
<1>1. IInv => TypeOK
  BY DEF IInv
<1> QED
  BY <1>1, Invariance, PTL

\* A running turn holds the session's execution until its completion is
\* published (SessionExecution.begin, finish).
THEOREM RunningTurnHoldsTheSession == Spec => []RunningTurnIsReserved
<1>1. IInv => RunningTurnIsReserved
  BY DEF IInv
<1> QED
  BY <1>1, Invariance, PTL

\* turn/interrupt can only ever cancel the active turn (TurnController.interrupt).
THEOREM InterruptIsPrecise == Spec => []InterruptHitsTheActiveTurn
<1>1. IInv => InterruptHitsTheActiveTurn
  BY DEF IInv
<1> QED
  BY <1>1, Invariance, PTL

\* The tasks of two turns never overlap (TurnController.start and reset).
THEOREM TurnsNeverOverlap == Spec => []OneTaskAtATime
<1>1. IInv => OneTaskAtATime
  BY DEF IInv, InterruptHitsTheActiveTurn, OneTaskAtATime
<1> QED
  BY <1>1, Invariance, PTL

\* The session stays reserved only for a turn that will release it, or for
\* one abandoned before its loop.
THEOREM ReservationsAreAccountedFor == Spec => []ReservationIsAccountedFor
<1>1. IInv => ReservationIsAccountedFor
  BY DEF IInv
<1> QED
  BY <1>1, Invariance, PTL

\* A session shown idle runs no turn (TurnController._emit_status).
THEOREM IdleStatusIsTrue == Spec => []IdleMeansNoTurn
<1>1. IInv => IdleMeansNoTurn
  BY DEF IInv
<1> QED
  BY <1>1, Invariance, PTL

\* A completed turn is never active, projected or reserved again
\* (_finalize_turn).
THEOREM CompletedTurnsAreOver == Spec => []CompletedTurnIsOver
<1>1. IInv => CompletedTurnIsOver
  BY DEF IInv
<1> QED
  BY <1>1, Invariance, PTL

\* What a lifecycle operation resets has no live task left behind
\* (TurnController.close, reset).
THEOREM ResetIsClean == Spec => ResetLeavesNoTask
<1>1. IInv /\ [Next]_vars =>
        [\A r \in Requests :
           req[r].op \in {"core", "reset"} /\ activeTask # NoTurn
             /\ activeTask' = NoTurn
             => \A t \in Turns : task'[t] \notin Live]_vars
  <2> SUFFICES ASSUME IInv, [Next]_vars,
                      NEW r \in Requests, req[r].op \in {"core", "reset"},
                      activeTask' = NoTurn,
                      NEW t \in Turns
               PROVE  task'[t] \notin Live
    OBVIOUS
  <2>1. IInv'
    BY NextIsInductive
  <2> QED
    BY <2>1, NoTurnAssumption DEF IInv, InterruptHitsTheActiveTurn, Live, Reserved,
                                  Announcing, InLoop, Closing
<1> QED
  BY <1>1, Invariance, PTL DEF Spec, ResetLeavesNoTask

=============================================================================
