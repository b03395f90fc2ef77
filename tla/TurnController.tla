--------------------------- MODULE TurnController ---------------------------
(***************************************************************************)
(* The turn lifecycle of one root session of the app server:               *)
(* TurnController (_turns.py), the execution reservation it shares with    *)
(* the session's lifecycle operations (_execution.py), and the parts of    *)
(* AppServer and CoreRequestHandler that start, steer, interrupt, inject,  *)
(* reset and drop requests (server.py, _handler.py).                       *)
(*                                                                         *)
(* Everything runs on one asyncio loop, so a step is what a task does      *)
(* between two awaits that may suspend it.  A send suspends whenever the   *)
(* transport's bounded queue is full (always, on stdio), so every notify   *)
(* is such an await.  The records of callbacks are in CallbackLifecycle    *)
(* and the events the notifications carry in EventStream: here a turn that *)
(* waits for a callback is simply in its loop.                             *)
(***************************************************************************)
EXTENDS FiniteSets

CONSTANTS Turns,     \* the ids turn/start draws (uuid4: never reused)
          Requests,  \* request tasks the server runs concurrently
          NoTurn     \* None

ASSUME NoTurnAssumption == NoTurn \notin Turns

VARIABLES
  execution,    \* SessionExecution._active
  held,         \* TurnController._session_execution: the turn it names
  activeTurn,   \* TurnController._active_turn
  lastTurn,     \* TurnController._last_turn
  activeTask,   \* TurnController._active_task: the turn that task runs
  projector,    \* TurnController._projector: the turn it projects
  history,      \* turns and injections TurnController._history holds
  task,         \* where each turn's task is suspended
  cancelling,   \* turns whose task has a cancellation not yet delivered
  status,       \* the status published last: "idle" or "running"
  completed,    \* turns whose turn/completed was published
  req,          \* what each request task is suspended in
  connected,    \* a client is attached (AppServer._connection_attached)
  abandoned     \* ghost: turns that ended before their loop was entered

turnVars == <<held, activeTurn, lastTurn, activeTask, projector, history>>
vars == <<execution, turnVars, task, cancelling, status, completed, req,
          connected, abandoned>>

MaybeTurn == Turns \cup {NoTurn}

\* SessionExecution._active: nothing, a turn, or a lifecycle operation.
Idle         == [kind |-> "none", id |-> NoTurn]
TurnRun(t)   == [kind |-> "turn", id |-> t]
Lifecycle(r) == [kind |-> "lifecycle", id |-> r]

Executions == {Idle} \cup {TurnRun(t) : t \in Turns}
                     \cup {Lifecycle(r) : r \in Requests}

\* The awaits of _run_turn and _finalize_turn a task can be suspended at.
Announcing == {"announcing", "reporting"}
InLoop     == {"looping"}
Closing    == {"finalizing", "concluding", "idling"}
Reserved   == {"created"} \cup Announcing \cup InLoop \cup Closing
Live       == Reserved \cup {"completing"}
Steps      == {"none", "done"} \cup Live

Ops == {"idle", "start", "steer", "inject", "core", "reset"}

\* Mutants: the task counts as done once turn/completed is out; no check.
RunsUntilCompleted == activeTask # NoTurn /\ task[activeTask] \in Reserved
NeverRuns          == FALSE

\* _active_task is a task that is not done().
ActiveTaskRuns == activeTask # NoTurn /\ task[activeTask] \in Live

\* Mutant: begin() does not look at what is active.
BeginsAnyway == TRUE

\* SessionExecution.begin and require_idle raise unless nothing is active.
ExecutionIsIdle == execution = Idle

NoRequest == [op |-> "idle", turn |-> NoTurn]

Init ==
  /\ execution = Idle
  /\ held = NoTurn
  /\ activeTurn = NoTurn
  /\ lastTurn = NoTurn
  /\ activeTask = NoTurn
  /\ projector = NoTurn
  /\ history = {}
  /\ task = [t \in Turns |-> "none"]
  /\ cancelling = {}
  /\ status = "idle"
  /\ completed = {}
  /\ req = [r \in Requests |-> NoRequest]
  /\ connected = TRUE
  /\ abandoned = {}

-----------------------------------------------------------------------------
(* Requests.  CoreRequestHandler.dispatch refuses every request while a    *)
(* lifecycle operation holds the execution; a refused request changes no   *)
(* state and is not a step.                                                *)

Accepts(r) ==
  /\ connected
  /\ req[r] = NoRequest
  /\ execution.kind # "lifecycle"

Suspend(r, op, t) == req' = [req EXCEPT ![r] = [op |-> op, turn |-> t]]
Finish(r)         == req' = [req EXCEPT ![r] = NoRequest]

FreshTurn(t) ==
  /\ task[t] = "none"
  /\ t \notin abandoned
  /\ activeTurn # t

\* TurnController.start: everything up to the response.
Reserve(t) ==
  /\ FreshTurn(t)
  /\ ~ActiveTaskRuns
  /\ ExecutionIsIdle
  /\ execution' = TurnRun(t)
  /\ held' = t
  /\ activeTurn' = t
  /\ lastTurn' = NoTurn
  /\ projector' = t

\* turn/start: the turn is reserved and the response is being sent.
StartTurn(r, t) ==
  /\ Accepts(r)
  /\ Reserve(t)
  /\ Suspend(r, "start", t)
  /\ UNCHANGED <<activeTask, history, task, cancelling, status, completed,
                 connected, abandoned>>

\* The response is sent, and only then does _after_response create the task.
StartResponded(r) ==
  /\ req[r].op = "start"
  /\ activeTask' = req[r].turn
  /\ task' = [task EXCEPT ![req[r].turn] = "created"]
  /\ Finish(r)
  /\ UNCHANGED <<execution, held, activeTurn, lastTurn, projector, history,
                 cancelling, status, completed, connected, abandoned>>

\* A scheduled loop fires: the server itself starts the turn, with no
\* response to send first.
FireScheduledLoop(t) ==
  /\ Reserve(t)
  /\ activeTask' = t
  /\ task' = [task EXCEPT ![t] = "created"]
  /\ UNCHANGED <<history, cancelling, status, completed, req, connected, abandoned>>

\* Mutant: turn/interrupt goes by the active turn alone, and cancels without a
\* look at _active_task, which start sets only after its response is sent.
InterruptsUnlooked(r, t) ==
  /\ Accepts(r)
  /\ activeTurn = t
  /\ cancelling' = cancelling \cup {activeTask}
  /\ UNCHANGED <<execution, turnVars, task, status, completed, req, connected,
                 abandoned>>

\* turn/interrupt cancels whatever task _active_task holds, if it still runs.
Interrupt(r, t) ==
  /\ Accepts(r)
  /\ activeTurn = t
  /\ cancelling' = IF ActiveTaskRuns THEN cancelling \cup {activeTask} ELSE cancelling
  /\ UNCHANGED <<execution, turnVars, task, status, completed, req, connected,
                 abandoned>>

\* turn/steer: the message enters the model context at once, and the request
\* waits for the session log to be saved.
Steer(r, t) ==
  /\ Accepts(r)
  /\ activeTurn = t
  /\ Suspend(r, "steer", t)
  /\ UNCHANGED <<execution, turnVars, task, cancelling, status, completed,
                 connected, abandoned>>

\* _project_events reads the projector only now: the entry goes to whatever
\* turn is projected, and is dropped without one.
SteerProjected(r) ==
  /\ req[r].op = "steer"
  /\ Finish(r)
  /\ UNCHANGED <<execution, turnVars, task, cancelling, status, completed,
                 connected, abandoned>>

\* session/context/inject checks that the session is idle, and reserves
\* nothing while it saves and projects the message.
Inject(r) ==
  /\ Accepts(r)
  /\ ExecutionIsIdle
  /\ activeTurn = NoTurn
  /\ Suspend(r, "inject", NoTurn)
  /\ UNCHANGED <<execution, turnVars, task, cancelling, status, completed,
                 connected, abandoned>>

Injected(r) ==
  /\ req[r].op = "inject"
  /\ history' = history \cup {r}
  /\ Finish(r)
  /\ UNCHANGED <<execution, held, activeTurn, lastTurn, activeTask, projector,
                 task, cancelling, status, completed, connected, abandoned>>

-----------------------------------------------------------------------------
(* Lifecycle operations: compact, clear and rewind.                        *)

\* The execution is reserved around the core operation.
ReserveLifecycle(r) ==
  /\ Accepts(r)
  /\ ExecutionIsIdle
  /\ execution' = Lifecycle(r)
  /\ Suspend(r, "core", NoTurn)
  /\ UNCHANGED <<turnVars, task, cancelling, status, completed, connected, abandoned>>

\* session/compact and session/history/clear refuse while a turn is active.
CompactOrClear(r) == activeTurn = NoTurn /\ ReserveLifecycle(r)

\* session/rewind and session/fork rely on the reservation alone.
RewindOrFork(r) == ReserveLifecycle(r)

\* The core operation failed, or it was a fork, which resets nothing: the
\* reservation is given back.
LifecycleReleased(r) ==
  /\ req[r].op = "core"
  /\ execution' = Idle
  /\ Finish(r)
  /\ UNCHANGED <<turnVars, task, cancelling, status, completed, connected, abandoned>>

\* TurnController.reset once close() is over, replace_idle and the release.
ResetTurns(r) ==
  /\ held' = NoTurn
  /\ activeTurn' = NoTurn
  /\ lastTurn' = NoTurn
  /\ activeTask' = NoTurn
  /\ projector' = NoTurn
  /\ history' = {}
  /\ status' = "idle"
  /\ execution' = Idle
  /\ Finish(r)

\* The core operation is done; close() cancels the last task and waits for it.
CoreReplaced(r) ==
  /\ req[r].op = "core"
  /\ IF activeTask = NoTurn
     THEN /\ ResetTurns(r)
          /\ UNCHANGED cancelling
     ELSE /\ cancelling' = IF ActiveTaskRuns THEN cancelling \cup {activeTask}
                           ELSE cancelling
          /\ Suspend(r, "reset", NoTurn)
          /\ UNCHANGED <<turnVars, status, execution>>
  /\ UNCHANGED <<task, completed, connected, abandoned>>

TaskCancelled(r) ==
  /\ req[r].op = "reset"
  /\ ~ActiveTaskRuns
  /\ ResetTurns(r)
  /\ UNCHANGED <<task, cancelling, completed, connected, abandoned>>

\* The task outlived SHUTDOWN_TIMEOUT_SECONDS: close() raises, after it
\* forgot _session_execution, and nothing is reset.
ResetTimesOut(r) ==
  /\ req[r].op = "reset"
  /\ ActiveTaskRuns
  /\ held' = NoTurn
  /\ execution' = Idle
  /\ Finish(r)
  /\ UNCHANGED <<activeTurn, lastTurn, activeTask, projector, history, task,
                 cancelling, status, completed, connected, abandoned>>

-----------------------------------------------------------------------------
(* The task of a turn: _run_turn and _finalize_turn.                       *)

\* Mutant: finish() is given _session_execution, which is already cleared.
ReleaseHeld(t) == execution' = IF held = t THEN Idle ELSE execution

\* SessionExecution.finish: only its own reservation is released.
Release(t) == execution' = IF execution = TurnRun(t) THEN Idle ELSE execution

Moves(t, from, to) ==
  /\ task[t] = from
  /\ t \notin cancelling
  /\ task' = [task EXCEPT ![t] = to]

\* First step: turn/started is being sent.
RunTurn(t) ==
  /\ Moves(t, "created", "announcing")
  /\ UNCHANGED <<execution, turnVars, cancelling, status, completed, req,
                 connected, abandoned>>

\* Mutant: only the statistics are published.
ReportStats(t) ==
  /\ Moves(t, "announcing", "reporting")
  /\ UNCHANGED <<execution, turnVars, cancelling, status, completed, req,
                 connected, abandoned>>

\* The running status is published, then the statistics.
ReportRunning(t) ==
  /\ Moves(t, "announcing", "reporting")
  /\ status' = "running"
  /\ UNCHANGED <<execution, turnVars, cancelling, completed, req, connected, abandoned>>

\* Into the try block: from here on the turn is finalized however it ends.
EnterLoop(t) ==
  /\ Moves(t, "reporting", "looping")
  /\ UNCHANGED <<execution, turnVars, cancelling, status, completed, req,
                 connected, abandoned>>

\* The core's event stream ends, normally or with an exception, and the
\* projector closes the entries still open.
LeaveLoop(t) ==
  /\ Moves(t, "looping", "finalizing")
  /\ UNCHANGED <<execution, turnVars, cancelling, status, completed, req,
                 connected, abandoned>>

\* The closing patches are sent; the turn's entries join the history, and
\* the statistics are being sent.
Conclude(t) ==
  /\ Moves(t, "finalizing", "concluding")
  /\ history' = history \cup ({projector} \ {NoTurn})
  /\ lastTurn' = t
  /\ UNCHANGED <<execution, held, activeTurn, activeTask, projector,
                 cancelling, status, completed, req, connected, abandoned>>

\* The turn is no longer active, and the idle status is being sent.
GoIdle(t) ==
  /\ Moves(t, "concluding", "idling")
  /\ activeTurn' = NoTurn
  /\ projector' = NoTurn
  /\ held' = NoTurn
  /\ status' = "idle"
  /\ UNCHANGED <<execution, lastTurn, activeTask, history, cancelling,
                 completed, req, connected, abandoned>>

\* The session is free again, and turn/completed is being sent.
CompleteTurn(t) ==
  /\ Moves(t, "idling", "completing")
  /\ Release(t)
  /\ completed' = completed \cup {t}
  /\ UNCHANGED <<turnVars, cancelling, status, req, connected, abandoned>>

\* The finally clauses of _run_turn.
EndTask(t) ==
  /\ Moves(t, "completing", "done")
  /\ held' = NoTurn
  /\ Release(t)
  /\ UNCHANGED <<activeTurn, lastTurn, activeTask, projector, history,
                 cancelling, status, completed, req, connected, abandoned>>

\* A cancellation is delivered where the task is suspended.
Delivers(t, steps, to) ==
  /\ t \in cancelling
  /\ task[t] \in steps
  /\ cancelling' = cancelling \ {t}
  /\ task' = [task EXCEPT ![t] = to]
  /\ UNCHANGED <<activeTurn, lastTurn, activeTask, projector, history, status,
                 completed, req, connected>>

\* Before the try block it ends the task there and then.
CancelBeforeLoop(t) ==
  /\ Delivers(t, {"created"} \cup Announcing, "done")
  /\ abandoned' = abandoned \cup {t}
  /\ UNCHANGED <<execution, held>>

\* In the loop it is caught, and the turn is finalized as interrupted.
CancelInLoop(t) ==
  /\ Delivers(t, InLoop, "finalizing")
  /\ UNCHANGED <<execution, held, abandoned>>

\* While the turn is finalized it skips the rest of _finalize_turn: only the
\* finally clauses run.
CancelWhileFinalizing(t) ==
  /\ Delivers(t, Closing \cup {"completing"}, "done")
  /\ held' = NoTurn
  /\ Release(t)
  /\ UNCHANGED abandoned

-----------------------------------------------------------------------------
(* The connection.                                                         *)

\* _detach_connection cancels every request task where it is suspended.  A
\* start loses its turn; a lifecycle operation gives its reservation back.
Detach ==
  /\ connected
  /\ connected' = FALSE
  /\ execution' = IF execution.kind = "lifecycle" THEN Idle ELSE execution
  /\ abandoned' = abandoned \cup
       {req[r].turn : r \in {q \in Requests : req[q].op = "start"}}
  /\ req' = [r \in Requests |-> NoRequest]
  /\ UNCHANGED <<turnVars, task, cancelling, status, completed>>

\* session/resume of the live session, on a new connection.
Attach ==
  /\ ~connected
  /\ connected' = TRUE
  /\ UNCHANGED <<execution, turnVars, task, cancelling, status, completed, req,
                 abandoned>>

-----------------------------------------------------------------------------
RequestStep(r) ==
  \/ StartResponded(r) \/ SteerProjected(r) \/ Injected(r)
  \/ LifecycleReleased(r) \/ CoreReplaced(r) \/ TaskCancelled(r)

TaskStep(t) ==
  \/ RunTurn(t) \/ ReportRunning(t) \/ EnterLoop(t)
  \/ Conclude(t) \/ GoIdle(t) \/ CompleteTurn(t) \/ EndTask(t)
  \/ CancelBeforeLoop(t) \/ CancelInLoop(t) \/ CancelWhileFinalizing(t)

Next ==
  \/ \E r \in Requests :
       \/ \E t \in Turns : StartTurn(r, t) \/ Interrupt(r, t) \/ Steer(r, t)
       \/ Inject(r) \/ CompactOrClear(r) \/ RewindOrFork(r)
       \/ RequestStep(r)
       \/ ResetTimesOut(r)
  \/ \E t \in Turns : FireScheduledLoop(t) \/ TaskStep(t) \/ LeaveLoop(t)
  \/ Detach
  \/ Attach

Spec == Init /\ [][Next]_vars

\* The loop runs every ready task.  Nothing makes the model, a tool or the
\* user end a turn: LeaveLoop is not fair.
Fairness ==
  /\ \A t \in Turns : WF_vars(TaskStep(t))
  /\ \A r \in Requests : WF_vars(RequestStep(r))

FairSpec == Spec /\ Fairness

-----------------------------------------------------------------------------
(* Properties.                                                             *)

TypeOK ==
  /\ execution \in Executions
  /\ held \in MaybeTurn
  /\ activeTurn \in MaybeTurn
  /\ lastTurn \in MaybeTurn
  /\ activeTask \in MaybeTurn
  /\ projector \in MaybeTurn
  /\ history \in SUBSET (Turns \cup Requests)
  /\ task \in [Turns -> Steps]
  /\ cancelling \in SUBSET Turns
  /\ status \in {"idle", "running"}
  /\ completed \in SUBSET Turns
  /\ req \in [Requests -> [op : Ops, turn : MaybeTurn]]
  /\ connected \in BOOLEAN
  /\ abandoned \in SUBSET Turns

\* From the moment its task exists until turn/completed is published, a turn
\* holds the session's execution: no compaction, rewind, fork, injection or
\* other turn can begin under it (SessionExecution.begin, _finalize_turn).
RunningTurnIsReserved ==
  \A t \in Turns : task[t] \in Reserved => execution = TurnRun(t)

\* The tasks of two turns never overlap, not even in the last send of the
\* first one, when the execution is already free (TurnController.start,
\* TurnController.reset).
OneTaskAtATime ==
  \A t, u \in Turns : task[t] \in Live /\ task[u] \in Live => t = u

\* A live task is the one turn/interrupt would cancel, and turn/interrupt for
\* the active turn never hits the task of another one.
InterruptHitsTheActiveTurn ==
  /\ \A t \in Turns : task[t] \in Live => activeTask = t
  /\ \A t \in Turns : task[t] \in Live /\ activeTurn # NoTurn => activeTurn = t

\* The session is only ever left reserved for a turn that has a task to
\* release it or a start request about to create one, except by a turn that
\* was abandoned before its loop: those are the only leaks.
ReservationIsAccountedFor ==
  \A t \in Turns :
    execution = TurnRun(t) =>
      \/ task[t] \in Reserved
      \/ \E r \in Requests : req[r].op = "start" /\ req[r].turn = t
      \/ t \in abandoned

\* A session shown idle runs no turn: from the running status to the idle
\* one, nothing else publishes a status.
IdleMeansNoTurn ==
  status = "idle" => \A t \in Turns :
                       task[t] \notin {"reporting", "looping"} \cup
                                      {"finalizing", "concluding"}

\* A turn published as completed is over: it is not the active turn, nothing
\* projects onto it, and it reserves nothing.
CompletedTurnIsOver ==
  \A t \in completed :
    /\ t \notin {activeTurn, projector, held}
    /\ execution # TurnRun(t)

\* A reset empties the controller: what a lifecycle operation leaves behind
\* is what Init starts from, with no live task of an older turn.
ResetLeavesNoTask ==
  [][\A r \in Requests :
       req[r].op \in {"core", "reset"} /\ activeTask # NoTurn /\ activeTask' = NoTurn
         => \A t \in Turns : task'[t] \notin Live]_vars

\* A turn that leaves its loop gives the session back, however many times it
\* is cancelled on the way.
FinalizedTurnReleases ==
  \A t \in Turns : (task[t] = "finalizing") ~> (execution # TurnRun(t))

=============================================================================
