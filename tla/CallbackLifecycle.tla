-------------------------- MODULE CallbackLifecycle --------------------------
(***************************************************************************)
(* Approvals and user questions of the root session: the tool that asks    *)
(* (InteractionRequestBroker), the record and history entry the turn opens *)
(* for it and the client that answers (TurnController), and how the server *)
(* delivers the callback to whichever client is attached (AppServer).      *)
(*                                                                         *)
(* A step runs from one await to the next.  The turn's task handles one    *)
(* core request at a time; tools ask, requests are answered and the        *)
(* connection comes and goes beside it.  The reservation of the session is *)
(* in TurnController.  All kinds of callback are one kind here: a client   *)
(* supports them or does not.                                              *)
(***************************************************************************)
EXTENDS Naturals

CONSTANTS Callbacks,  \* core request ids (uuid4: never reused)
          Requests,   \* request tasks the server runs concurrently
          Answers,    \* what clients answer
          None,
          MaxTurns,   \* bound: turns that are started
          MaxAttaches \* bound: session/resume requests

ASSUME NoneAssumption   == None \notin Callbacks
ASSUME AnswerAssumption == Answers \subseteq {"approve", "always", "cancelTurn"}
ASSUME BoundAssumption  == MaxTurns \in Nat /\ MaxAttaches \in Nat

VARIABLES
  turn,         \* where the turn's task is suspended
  turns,        \* turns started
  active,       \* _active_turn is set
  cancelling,   \* a cancellation of the task is not yet delivered
  current,      \* the callback the task is handling
  projected,    \* callbacks of the turn _projector projects
  entry,        \* the state of each callback's history entry
  future,       \* CallbackRecord.future
  output,       \* CallbackRecord.output
  coreResolved, \* records with CallbackRecord.core_resolved
  tool,         \* the broker's future the tool awaits
  status,       \* the session status published last
  req,          \* callback/respond requests
  conn,         \* the connection, and the session/resume it is serving
  wasAttached,  \* was_attached of that session/resume
  supports,     \* the client advertised the callback kind
  attaches,     \* session/resume requests made
  outstanding,  \* callback/call requests without a response, not answered
  redeliver,    \* callbacks _redeliver_open_callbacks has yet to deliver
  delivered,    \* ghost: callbacks this connection was sent
  accepted      \* ghost: <<callback, answer>> responded "accepted"

turnVars   == <<turn, turns, active, cancelling, current, projected, status>>
recordVars == <<entry, future, output, coreResolved, tool>>
connVars   == <<conn, wasAttached, supports, attaches>>
sentVars   == <<outstanding, redeliver, delivered>>
vars == <<turnVars, recordVars, req, connVars, sentVars, accepted>>

Handling  == {"adding", "blocking", "delivering", "waiting", "saving"}
InTheLoop == {"looping"} \cup Handling
Ending    == {"closing", "concluding", "idling"}

NoRequest == [at |-> "idle", cb |-> None, out |-> "none", done |-> FALSE]

Init ==
  /\ turn = "none"
  /\ turns = 0
  /\ active = FALSE
  /\ cancelling = FALSE
  /\ current = None
  /\ projected = {}
  /\ entry = [c \in Callbacks |-> "absent"]
  /\ future = [c \in Callbacks |-> "none"]
  /\ output = [c \in Callbacks |-> "none"]
  /\ coreResolved = {}
  /\ tool = [c \in Callbacks |-> "none"]
  /\ status = "idle"
  /\ req = [r \in Requests |-> NoRequest]
  /\ conn = "attached"
  /\ wasAttached = FALSE
  /\ supports = TRUE
  /\ attaches = 0
  /\ outstanding = [c \in Callbacks |-> 0]
  /\ redeliver = {}
  /\ delivered = {}
  /\ accepted = {}

-----------------------------------------------------------------------------
(* The records.                                                            *)

Set(f, c, v) == [f EXCEPT ![c] = v]

\* A future is resolved unless it is done already.
Settle(f, pending, S, v) ==
  [c \in Callbacks |-> IF c \in S /\ f[c] = pending THEN v ELSE f[c]]

\* _reject_callback_record, for every record of S.
RejectRecords(S) ==
  LET unresolved == S \ coreResolved IN
  /\ coreResolved' = coreResolved \cup unresolved
  /\ tool' = Settle(tool, "waiting", unresolved, "rejected")
  /\ future' = Settle(future, "pending", unresolved, "rejected")

HasRecord(c) == future[c] # "none"

-----------------------------------------------------------------------------
(* The turn.                                                               *)

StartTurn ==
  /\ turn = "none"
  /\ turns < MaxTurns
  /\ turn' = "looping"
  /\ turns' = turns + 1
  /\ active' = TRUE
  /\ cancelling' = FALSE
  /\ projected' = {}
  /\ status' = "running"
  /\ UNCHANGED <<current, recordVars, req, connVars, sentVars, accepted>>

\* A tool of the running batch asks, whatever the task is doing.
AskApproval(c) ==
  /\ turn \in InTheLoop
  /\ tool[c] = "none"
  /\ tool' = Set(tool, c, "waiting")
  /\ UNCHANGED <<turnVars, entry, future, output, coreResolved, req, connVars,
                 sentVars, accepted>>

\* The task takes the request from the event stream: the record and the
\* entry exist, and the entry and the blocked effect are being sent.
OpenCallback(c) ==
  /\ turn = "looping"
  /\ ~cancelling
  /\ tool[c] = "waiting"
  /\ ~HasRecord(c)
  /\ turn' = "adding"
  /\ current' = c
  /\ projected' = projected \cup {c}
  /\ entry' = Set(entry, c, "open")
  /\ future' = Set(future, c, "pending")
  /\ UNCHANGED <<turns, active, cancelling, status, output, coreResolved, tool,
                 req, connVars, sentVars, accepted>>

EmitBlocked ==
  /\ turn = "adding"
  /\ ~cancelling
  /\ turn' = "blocking"
  /\ status' = "blocked"
  /\ UNCHANGED <<turns, active, cancelling, current, projected, recordVars, req,
                 connVars, sentVars, accepted>>

Send(c) ==
  /\ outstanding' = [outstanding EXCEPT ![c] = @ + 1]
  /\ delivered' = delivered \cup {c}

\* _deliver_callback sends callback/call to an attached client only.
DeliverCallback ==
  /\ turn = "blocking"
  /\ ~cancelling
  /\ conn = "attached" => supports
  /\ IF conn = "attached"
     THEN turn' = "delivering" /\ Send(current)
     ELSE turn' = "waiting" /\ UNCHANGED <<outstanding, delivered>>
  /\ UNCHANGED <<turns, active, cancelling, current, projected, status,
                 recordVars, req, connVars, redeliver, accepted>>

CallbackSent ==
  /\ turn = "delivering"
  /\ ~cancelling
  /\ turn' = "waiting"
  /\ UNCHANGED <<turns, active, cancelling, current, projected, status,
                 recordVars, req, connVars, sentVars, accepted>>

\* The core's event stream is closed, which cancels the tools.
Unwind(asked) ==
  /\ turn' = "unwinding"
  /\ current' = None
  /\ tool' = [c \in Callbacks |-> IF asked[c] = "waiting" THEN "cancelled" ELSE asked[c]]

\* The handler raises: the record is rejected, and the turn fails.
FailTurn ==
  LET rejected == {current} \ coreResolved IN
  /\ Unwind(Settle(tool, "waiting", rejected, "rejected"))
  /\ coreResolved' = coreResolved \cup rejected
  /\ future' = Settle(future, "pending", rejected, "rejected")

\* The attached client cannot take the callback.
DeliveryUnsupported ==
  /\ turn = "blocking"
  /\ ~cancelling
  /\ conn = "attached" /\ ~supports
  /\ FailTurn
  /\ UNCHANGED <<turns, active, cancelling, projected, status, entry, output,
                 req, connVars, sentVars, accepted>>

\* The tool gets the answer; cancelTurn also cancels the task.
ResolveCore(c, a) ==
  /\ tool' = Settle(tool, "waiting", {c}, a)
  /\ coreResolved' = coreResolved \cup {c}
  /\ cancelling' = (a = "cancelTurn")
  /\ turn' = "looping"
  /\ current' = None
  /\ UNCHANGED <<entry, future, output>>

\* The future is answered.  An answer for the session or for good is saved
\* first.
TakeAnswer ==
  /\ turn = "waiting"
  /\ ~cancelling
  /\ future[current] \in Answers
  /\ IF future[current] = "always"
     THEN /\ turn' = "saving"
          /\ UNCHANGED <<current, cancelling, recordVars>>
     ELSE ResolveCore(current, future[current])
  /\ UNCHANGED <<turns, active, projected, status, req, connVars, sentVars, accepted>>

AnswerSaved ==
  /\ turn = "saving"
  /\ ~cancelling
  /\ ResolveCore(current, future[current])
  /\ UNCHANGED <<turns, active, projected, status, req, connVars, sentVars,
                 accepted>>

\* approve_always raises.
SavingFails ==
  /\ turn = "saving"
  /\ ~cancelling
  /\ FailTurn
  /\ UNCHANGED <<turns, active, cancelling, projected, status, entry, output,
                 req, connVars, sentVars, accepted>>

\* The future was rejected: CallbackRejectedError fails the turn.
TakeRejection ==
  /\ turn = "waiting"
  /\ ~cancelling
  /\ future[current] = "rejected"
  /\ Unwind(tool)
  /\ UNCHANGED <<turns, active, cancelling, projected, status, entry, future,
                 output, coreResolved, req, connVars, sentVars, accepted>>

\* The core's event stream ends, or raises.
LeaveLoop ==
  /\ turn = "looping"
  /\ ~cancelling
  /\ Unwind(tool)
  /\ UNCHANGED <<turns, active, cancelling, projected, status, entry, future,
                 output, coreResolved, req, connVars, sentVars, accepted>>

\* turn/interrupt; cancelling a task cancels the future it awaits.
Interrupt ==
  /\ conn # "none"
  /\ active
  /\ turn # "none"
  /\ cancelling' = TRUE
  /\ future' = IF turn = "waiting" THEN Settle(future, "pending", {current}, "cancelled")
               ELSE future
  /\ UNCHANGED <<turn, turns, active, current, projected, status, entry, output,
                 coreResolved, tool, req, connVars, sentVars, accepted>>

CancelInLoop ==
  /\ cancelling
  /\ turn \in InTheLoop
  /\ cancelling' = FALSE
  /\ Unwind(tool)
  /\ UNCHANGED <<turns, active, projected, status, entry, future, output,
                 coreResolved, req, connVars, sentVars, accepted>>

\* Mutant: finalize closes the answered entries too.
Unfinished(c) == c \in projected

\* An entry finalize still has to close.
Open(c) == c \in projected /\ entry[c] = "open"

\* The stream is closed, even if that is cancelled: projector.finalize closes
\* the open entries, and the patches are being sent.
CloseEntries ==
  /\ turn = "unwinding"
  /\ turn' = "closing"
  /\ cancelling' = FALSE
  /\ entry' = [c \in Callbacks |-> IF Open(c) THEN "cancelled" ELSE entry[c]]
  /\ UNCHANGED <<turns, active, current, projected, status, future, output,
                 coreResolved, tool, req, connVars, sentVars, accepted>>

\* The rest of _finalize_turn is skipped.
CancelWhileEnding ==
  /\ cancelling
  /\ turn \in Ending
  /\ cancelling' = FALSE
  /\ turn' = "none"
  /\ UNCHANGED <<turns, active, current, projected, status, recordVars, req,
                 connVars, sentVars, accepted>>

\* The closing patches are sent: _cancel_callbacks, then the statistics.
CancelCallbacks ==
  /\ turn = "closing"
  /\ ~cancelling
  /\ turn' = "concluding"
  /\ RejectRecords({c \in Callbacks : HasRecord(c)})
  /\ UNCHANGED <<turns, active, cancelling, current, projected, status, entry,
                 output, req, connVars, sentVars, accepted>>

GoIdle ==
  /\ turn = "concluding"
  /\ ~cancelling
  /\ turn' = "idling"
  /\ active' = FALSE
  /\ projected' = {}
  /\ status' = "idle"
  /\ UNCHANGED <<turns, cancelling, current, recordVars, req, connVars, sentVars,
                 accepted>>

EndTurn ==
  /\ turn = "idling"
  /\ ~cancelling
  /\ turn' = "none"
  /\ UNCHANGED <<turns, active, cancelling, current, projected, status,
                 recordVars, req, connVars, sentVars, accepted>>

-----------------------------------------------------------------------------
(* callback/respond: answer_callback, under the record's lock.             *)

Holds(r, c) == req[r].cb = c /\ req[r].at \in {"emitting", "reporting"}

LockFree(c) == \A r \in Requests : ~Holds(r, c)

\* The request waits for its task to run, and for the lock.
Respond(r, c, a) ==
  /\ conn # "none"
  /\ req[r] = NoRequest
  /\ HasRecord(c)
  /\ req' = Set(req, r, [at |-> "locking", cb |-> c, out |-> a, done |-> FALSE])
  /\ UNCHANGED <<turnVars, recordVars, connVars, sentVars, accepted>>

Reply(r, ok) == req' = [req EXCEPT ![r].at = "replying", ![r].done = ok]
Move(r, at)  == req' = [req EXCEPT ![r].at = at]

\* A callback that has an output: a duplicate, or a conflict.
AnswerAgain(r) ==
  LET c == req[r].cb IN
  /\ req[r].at = "locking"
  /\ LockFree(c)
  /\ output[c] # "none"
  /\ Reply(r, output[c] = req[r].out)
  /\ UNCHANGED <<turnVars, recordVars, connVars, sentVars, accepted>>

\* The entry takes the answer at once, and its patches are being sent.
PatchAnswer(r) ==
  LET c == req[r].cb IN
  /\ req[r].at = "locking"
  /\ LockFree(c)
  /\ output[c] = "none"
  /\ c \in projected
  /\ entry[c] = "open"
  /\ entry' = Set(entry, c, req[r].out)
  /\ Move(r, "emitting")
  /\ UNCHANGED <<turnVars, future, output, coreResolved, tool, connVars, sentVars,
                 accepted>>

\* The entry is frozen: the request fails with an internal error.
AnswerFrozen(r) ==
  LET c == req[r].cb IN
  /\ req[r].at = "locking"
  /\ LockFree(c)
  /\ output[c] = "none"
  /\ c \in projected
  /\ entry[c] # "open"
  /\ Reply(r, FALSE)
  /\ UNCHANGED <<turnVars, recordVars, connVars, sentVars, accepted>>

\* Mutant: the record keeps the answer, but its future is not resolved.
AcceptSilently(r) ==
  LET c == req[r].cb IN
  /\ output' = Set(output, c, req[r].out)
  /\ UNCHANGED future
  /\ accepted' = accepted \cup {<<c, req[r].out>>}
  /\ Reply(r, TRUE)

\* The record and its future take the answer, and it is "accepted".
Accept(r) ==
  LET c == req[r].cb IN
  /\ output' = Set(output, c, req[r].out)
  /\ future' = Settle(future, "pending", {c}, req[r].out)
  /\ accepted' = accepted \cup {<<c, req[r].out>>}
  /\ Reply(r, TRUE)

\* _emit_status("running") publishes nothing without an active turn.
EmitsStatus == active

\* A record the projector does not know has nothing to patch.
Unprojected(r) ==
  /\ req[r].at = "locking"
  /\ LockFree(req[r].cb)
  /\ output[req[r].cb] = "none"
  /\ req[r].cb \notin projected

\* resolve_callback is over, and the running status is being sent.
EmitRunning(r) ==
  /\ req[r].at = "emitting" \/ Unprojected(r)
  /\ EmitsStatus
  /\ status' = "running"
  /\ Move(r, "reporting")
  /\ UNCHANGED <<turn, turns, active, cancelling, current, projected, recordVars,
                 connVars, sentVars, accepted>>

\* Mutant: without an active turn the request returns no status.
NeverInactive(r) == FALSE

\* With no turn left, the answer is accepted at once.
AcceptInactive(r) ==
  /\ req[r].at = "emitting" \/ Unprojected(r)
  /\ ~EmitsStatus
  /\ Accept(r)
  /\ UNCHANGED <<turnVars, entry, coreResolved, tool, connVars, sentVars>>

AcceptAnswer(r) ==
  /\ req[r].at = "reporting"
  /\ Accept(r)
  /\ UNCHANGED <<turnVars, entry, coreResolved, tool, connVars, sentVars>>

\* The response is sent; a success settles every delivery of the callback.
Replied(r) ==
  /\ req[r].at = "replying"
  /\ outstanding' = IF req[r].done THEN Set(outstanding, req[r].cb, 0) ELSE outstanding
  /\ req' = Set(req, r, NoRequest)
  /\ UNCHANGED <<turnVars, recordVars, connVars, redeliver, delivered, accepted>>

-----------------------------------------------------------------------------
(* The client's response to callback/call.                                 *)

Acknowledge(c) ==
  /\ conn # "none"
  /\ outstanding[c] > 0
  /\ outstanding' = [outstanding EXCEPT ![c] = @ - 1]
  /\ UNCHANGED <<turnVars, recordVars, req, connVars, redeliver, delivered, accepted>>

\* An error, or accepted = false.
RefuseDelivery(c) ==
  /\ conn # "none"
  /\ outstanding[c] > 0
  /\ outstanding' = [outstanding EXCEPT ![c] = @ - 1]
  /\ RejectRecords({c})
  /\ UNCHANGED <<turnVars, entry, output, req, connVars, redeliver, delivered,
                 accepted>>

-----------------------------------------------------------------------------
(* The connection.                                                         *)

\* session/resume of the live session, on a new connection or on this one.
BeginAttachment(s) ==
  /\ conn \in {"none", "attached"}
  /\ redeliver = {}
  /\ attaches < MaxAttaches
  /\ attaches' = attaches + 1
  /\ supports' = IF conn = "none" THEN s ELSE supports
  /\ wasAttached' = (conn = "attached")
  /\ conn' = "attaching"
  /\ UNCHANGED <<turnVars, recordVars, req, sentVars, accepted>>

OpenCallbacks == {c \in Callbacks : Open(c)}

\* _validate_open_callback_capabilities passes; the response and the pending
\* notifications are being sent.
ResumeAccepted ==
  /\ conn = "attaching"
  /\ OpenCallbacks # {} => supports
  /\ conn' = "replying"
  /\ UNCHANGED <<turnVars, recordVars, req, wasAttached, supports, attaches,
                 sentVars, accepted>>

\* An error response: no such session, or missing callback kinds.
ResumeFails ==
  /\ conn = "attaching"
  /\ conn' = IF wasAttached THEN "attached" ELSE "none"
  /\ UNCHANGED <<turnVars, recordVars, req, wasAttached, supports, attaches,
                 sentVars, accepted>>

\* Mutant: nothing is delivered again.
NothingToRedeliver == {}

\* What _redeliver_open_callbacks goes through.
ToRedeliver == OpenCallbacks

Attached ==
  /\ conn = "replying"
  /\ conn' = "attached"
  /\ redeliver' = ToRedeliver
  /\ UNCHANGED <<turnVars, recordVars, req, wasAttached, supports, attaches,
                 outstanding, delivered, accepted>>

\* Mutant: a callback that was delivered again is still to be delivered.
RedeliverAgain(c) ==
  /\ c \in redeliver
  /\ supports
  /\ Send(c)
  /\ UNCHANGED <<turnVars, recordVars, req, connVars, redeliver, accepted>>

Redeliver(c) ==
  /\ c \in redeliver
  /\ supports
  /\ Send(c)
  /\ redeliver' = redeliver \ {c}
  /\ UNCHANGED <<turnVars, recordVars, req, connVars, accepted>>

\* Every request task is cancelled where it is suspended; an unsupported
\* redelivery and a failed send end the connection too.
Detach ==
  /\ conn # "none"
  /\ conn' = "none"
  /\ req' = [r \in Requests |-> NoRequest]
  /\ outstanding' = [c \in Callbacks |-> 0]
  /\ redeliver' = {}
  /\ delivered' = {}
  /\ UNCHANGED <<turnVars, recordVars, wasAttached, supports, attaches, accepted>>

-----------------------------------------------------------------------------
TurnStep ==
  \/ EmitBlocked \/ DeliverCallback \/ CallbackSent \/ DeliveryUnsupported
  \/ TakeAnswer \/ AnswerSaved \/ SavingFails \/ TakeRejection
  \/ CancelInLoop \/ CloseEntries \/ CancelWhileEnding
  \/ CancelCallbacks \/ GoIdle \/ EndTurn
  \/ \E c \in Callbacks : OpenCallback(c)

RequestStep(r) ==
  \/ AnswerAgain(r) \/ PatchAnswer(r) \/ AnswerFrozen(r)
  \/ EmitRunning(r) \/ AcceptInactive(r) \/ AcceptAnswer(r) \/ Replied(r)

AttachStep ==
  \/ ResumeAccepted \/ ResumeFails \/ Attached
  \/ \E c \in Callbacks : Redeliver(c)

Next ==
  \/ TurnStep \/ AttachStep \/ StartTurn \/ LeaveLoop \/ Interrupt \/ Detach
  \/ \E s \in BOOLEAN : BeginAttachment(s)
  \/ \E c \in Callbacks : AskApproval(c) \/ Acknowledge(c) \/ RefuseDelivery(c)
  \/ \E r \in Requests :
       \/ RequestStep(r)
       \/ \E c \in Callbacks, a \in Answers : Respond(r, c, a)

Spec == Init /\ [][Next]_vars

\* The loop runs every ready task.  Nothing makes a client answer, connect,
\* or stay connected, and nothing makes the core's stream end.
Fairness ==
  /\ WF_vars(TurnStep)
  /\ WF_vars(AttachStep)
  /\ \A r \in Requests : WF_vars(RequestStep(r))

FairSpec == Spec /\ Fairness

-----------------------------------------------------------------------------
(* Properties.                                                             *)

TypeOK ==
  /\ turn \in {"none", "unwinding"} \cup InTheLoop \cup Ending
  /\ turns \in 0..MaxTurns
  /\ active \in BOOLEAN
  /\ cancelling \in BOOLEAN
  /\ current \in Callbacks \cup {None}
  /\ projected \subseteq Callbacks
  /\ entry \in [Callbacks -> {"absent", "open", "cancelled"} \cup Answers]
  /\ future \in [Callbacks -> {"none", "pending", "rejected", "cancelled"} \cup Answers]
  /\ output \in [Callbacks -> {"none"} \cup Answers]
  /\ coreResolved \subseteq Callbacks
  /\ tool \in [Callbacks -> {"none", "waiting", "rejected", "cancelled"} \cup Answers]
  /\ status \in {"idle", "running", "blocked"}
  /\ req \in [Requests -> [at : {"idle", "locking", "emitting", "reporting", "replying"},
                            cb : Callbacks \cup {None}, out : {"none"} \cup Answers,
                            done : BOOLEAN]]
  /\ conn \in {"none", "attaching", "replying", "attached"}
  /\ wasAttached \in BOOLEAN
  /\ supports \in BOOLEAN
  /\ attaches \in 0..MaxAttaches
  /\ outstanding \in [Callbacks -> 0..(MaxAttaches + 1)]
  /\ redeliver \subseteq Callbacks
  /\ delivered \subseteq Callbacks
  /\ accepted \subseteq Callbacks \X Answers

\* A tool proceeds only on the answer the public history shows for its
\* callback, and what the history shows of a callback that was answered or
\* cancelled never changes again: the abstract specification.
Contract == INSTANCE CallbackContract WITH shown <- entry, verdict <- tool
ImplementsContract == Contract!Spec

\* Of all the answers clients give to a callback, on any connection and in
\* any order, only one is ever accepted (answer_callback's output check under
\* resolution_lock).
OneAnswerIsAccepted ==
  \A p, q \in accepted : p[1] = q[1] => p = q

\* Without an active turn the published status stays idle: an answer that is
\* late for its turn does not bring the running status back.
IdleOnceInactive == ~active => status = "idle"

\* A client that attached on a new connection has been sent the callback the
\* turn waits for: whether it opened before, while or after the client
\* attached, either the turn or the redelivery sends it.
AttachedClientWasAsked ==
  conn = "attached" /\ ~wasAttached /\ redeliver = {} /\ turn = "waiting"
    /\ entry[current] = "open"
  => current \in delivered

\* Every callback/respond is answered, or dropped with its connection: no
\* cancelled request keeps the lock of a record.
EveryAnswerIsHandled ==
  \A r \in Requests : (req[r] # NoRequest) ~> (req[r] = NoRequest)

\* A tool never waits on once its callback has been answered or refused.
SettledToolResumes ==
  \A c \in Callbacks :
    (output[c] # "none" \/ future[c] = "rejected") ~> (tool[c] # "waiting")

=============================================================================
