---------------------------- MODULE EventStream ----------------------------
(***************************************************************************)
(* The public event stream of one session, from the projectors that change *)
(* its history to the client that mirrors it: event ids and the buffering  *)
(* of an attachment (AppServer), the bounded in-memory transport, the      *)
(* client's reader and its bounded queue (AppServerClient), the pump and   *)
(* the reducer (AppServerSession, ClientProjection), and its replacement   *)
(* of a failed connection (AppServerConnection).                           *)
(*                                                                         *)
(* An entry is a revision: absent, in progress, blocked on a callback,     *)
(* resumed by its answer, completed.  Writers are the tasks that project:  *)
(* the turn's, and those of requests that steer, inject or answer.  A      *)
(* notification suspends its writer only in a send to an attached client,  *)
(* where an interrupt may cancel the turn's.                               *)
(***************************************************************************)
EXTENDS Naturals, Sequences, FiniteSets

CONSTANTS Entries,    \* ids of history entries
          Callbacks,  \* those of callback entries
          Turn,       \* the task of the running turn
          Requests,   \* tasks of requests that steer, inject or answer
          Outbox,     \* size of the transport's queue to the client
          Inbox,      \* size of AppServerClient._incoming
          MaxAttaches, \* bound: connections after the first
          MaxCancelled \* bound: cancelled sends the client has yet to make up for

ASSUME StreamAssumption ==
  /\ Callbacks \subseteq Entries
  /\ Turn \notin Requests
  /\ Outbox \in Nat \ {0}
  /\ Inbox \in Nat \ {0}
  /\ MaxAttaches \in Nat
  /\ MaxCancelled \in Nat

Writers == {Turn} \cup Requests

VARIABLES
  history,   \* the revision of every entry in the projectors
  watermark, \* AppServer._event_watermarks of the session
  toSend,    \* updates each writer has applied but not yet notified
  blocked,   \* the notification each writer waits to put on the full queue
  conn,      \* "none", "opening" (attaching, before the snapshot is taken),
             \* "attaching" or "attached"
  buffered,  \* AppServer._pending_notifications, numbered
  answer,    \* the session/read response waiting to be put
  outbox,    \* the transport's queue
  inbox,     \* AppServerClient._incoming
  mode,      \* what the client's pump is doing
  view,      \* the revisions ClientProjection shows
  lastId,    \* ClientProjection._last_event_id
  attaches,  \* connections made after the first
  lost       \* history variable: the events whose send an interrupt cancelled,
             \* and the updates their writer then never numbered, under the id of
             \* that event, until a snapshot makes up for them

serverVars == <<history, watermark, toSend, blocked, conn, buffered, answer>>
clientVars == <<inbox, mode, view, lastId, attaches>>
vars == <<serverVars, outbox, clientVars, lost>>

Absent     == 0
InProgress == 1
Blocked    == 2
Resumed    == 3
Completed  == 4
Revisions  == Absent..Completed

Updates == [entry : Entries, from : Revisions, to : Revisions]

Event(id, u) == [kind |-> "event", id |-> id, update |-> u]
State(id, h) == [kind |-> "state", id |-> id, view |-> h]

\* What session/read and session/resume return: the content as it is now and
\* the watermark, in one step.
Snapshot == State(watermark, history)

Init ==
  /\ history = [e \in Entries |-> Absent]
  /\ watermark = 0
  /\ toSend = [w \in Writers |-> <<>>]
  /\ blocked = [w \in Writers |-> <<>>]
  /\ conn = "attached"
  /\ buffered = <<>>
  /\ answer = <<>>
  /\ outbox = <<>>
  /\ inbox = <<>>
  /\ mode = "up"
  /\ view = [e \in Entries |-> Absent]
  /\ lastId = 0
  /\ attaches = 0
  /\ lost = {}

-----------------------------------------------------------------------------
(* The server: projecting and notifying.                                   *)

\* Mutant: an unbounded queue.
Unbounded == TRUE

\* asyncio.Queue.put suspends while the queue is full.
Room == Len(outbox) < Outbox

Numbered(us) == [i \in 1..Len(us) |-> Event(watermark + i, us[i])]

\* Mutant: an attachment does not buffer.
Dropped(events) == buffered

\* _notify while a client is attaching.
Buffer(events) ==
  IF conn \in {"opening", "attaching"} THEN buffered \o events ELSE buffered

\* _notify for the updates a writer has left.  To an attached client the next
\* one is numbered and sent, and the send may suspend; otherwise all of them
\* are numbered at once, and buffered or dropped.
Notify(w, us) ==
  IF conn = "attached"
  THEN LET event == Event(watermark + 1, us[1]) IN
       /\ watermark' = watermark + 1
       /\ toSend' = [toSend EXCEPT ![w] = Tail(us)]
       /\ IF Room
          THEN outbox' = Append(outbox, event) /\ UNCHANGED blocked
          ELSE blocked' = [blocked EXCEPT ![w] = <<event>>] /\ UNCHANGED outbox
       /\ UNCHANGED buffered
  ELSE /\ watermark' = watermark + Len(us)
       /\ toSend' = [toSend EXCEPT ![w] = <<>>]
       /\ buffered' = Buffer(Numbered(us))
       /\ UNCHANGED <<outbox, blocked>>

Idle(w) == toSend[w] = <<>> /\ blocked[w] = <<>>

Update(e, to) == [entry |-> e, from |-> history[e], to |-> to]

\* What the turn may do to an entry: _add and _patch, a core event at a time,
\* open_callback, and finalize, which completes what is left.
TurnUpdates ==
  LET To(e) ==
        CASE history[e] = Absent     -> IF e \in Callbacks THEN {InProgress}
                                        ELSE {InProgress, Completed}
          [] history[e] = InProgress -> IF e \in Callbacks THEN {Completed}
                                        ELSE {Blocked, Completed}
          [] history[e] \in {Blocked, Resumed} -> {Completed}
          [] history[e] = Completed  -> {}
  IN UNION {{Update(e, to) : to \in To(e)} : e \in Entries}

\* The updates of one core event, of different entries.
TurnBatches ==
  {<<u>> : u \in TurnUpdates}
    \cup {p \in TurnUpdates \X TurnUpdates : p[1].entry # p[2].entry}

Apply(us) ==
  [e \in Entries |->
     IF \E i \in DOMAIN us : us[i].entry = e
     THEN (CHOOSE u \in {us[i] : i \in DOMAIN us} : u.entry = e).to
     ELSE history[e]]

\* The projector applies all updates, then the first is notified.
Project(w, us) ==
  /\ Idle(w)
  /\ history' = Apply(us)
  /\ Notify(w, us)
  /\ UNCHANGED <<conn, answer, clientVars, lost>>

ProjectTurn == \E us \in TurnBatches : Project(Turn, us)

\* Requests come from a client that attached.
Serving == conn \in {"attaching", "attached"}

\* A steered or injected message, or a notice: added complete.
AddNote(w, e) ==
  /\ Serving
  /\ e \notin Callbacks
  /\ history[e] = Absent
  /\ Project(w, <<Update(e, Completed)>>)

\* resolve_callback completes the callback and resumes its effect.  A client
\* answers what callback/call sent it, once the turn has published it.
Answer(w, c, e) ==
  /\ Serving
  /\ c \in Callbacks
  /\ history[c] = InProgress
  /\ history[e] = Blocked
  /\ toSend[Turn] = <<>>
  /\ Project(w, <<Update(c, Completed), Update(e, Resumed)>>)

\* The writer goes on with the next update.
NotifyNext(w) ==
  /\ blocked[w] = <<>>
  /\ toSend[w] # <<>>
  /\ Notify(w, toSend[w])
  /\ UNCHANGED <<history, conn, answer, clientVars, lost>>

\* A suspended put goes through.  A put that arrives as the queue gets room
\* may overtake the ones that were waiting, which then queue up again.
PutBlocked(w) ==
  /\ blocked[w] # <<>>
  /\ Room
  /\ outbox' = outbox \o blocked[w]
  /\ blocked' = [blocked EXCEPT ![w] = <<>>]
  /\ UNCHANGED <<history, watermark, toSend, conn, buffered, answer, clientVars, lost>>

\* turn/interrupt cancels the turn's task where it is suspended in a put.  The
\* event has its number and is in no queue, the updates behind it are never
\* numbered, and the client stays attached.
Interrupt ==
  /\ Serving
  /\ blocked[Turn] # <<>>
  /\ Cardinality({m.id : m \in lost}) < MaxCancelled
  /\ LET event == blocked[Turn][1] IN
     lost' = lost \cup {event} \cup
               {Event(event.id, toSend[Turn][i]) : i \in DOMAIN toSend[Turn]}
  /\ blocked' = [blocked EXCEPT ![Turn] = <<>>]
  /\ toSend' = [toSend EXCEPT ![Turn] = <<>>]
  /\ UNCHANGED <<history, watermark, conn, buffered, answer, outbox, clientVars>>

\* The response to session/read or session/resume is put.
PutAnswer ==
  /\ answer # <<>>
  /\ Room
  /\ outbox' = outbox \o answer
  /\ answer' = <<>>
  /\ UNCHANGED <<history, watermark, toSend, blocked, conn, buffered, clientVars, lost>>

\* _finish_attachment: the buffered notifications are sent in their order,
\* while later ones are still buffered behind them.
Flush ==
  /\ conn = "attaching"
  /\ answer = <<>>
  /\ buffered # <<>>
  /\ Room
  /\ outbox' = Append(outbox, Head(buffered))
  /\ buffered' = Tail(buffered)
  /\ UNCHANGED <<history, watermark, toSend, blocked, conn, answer, clientVars, lost>>

FinishAttachment ==
  /\ conn = "attaching"
  /\ answer = <<>>
  /\ buffered = <<>>
  /\ conn' = "attached"
  /\ UNCHANGED <<history, watermark, toSend, blocked, buffered, answer, outbox,
                 clientVars, lost>>

-----------------------------------------------------------------------------
(* The client.                                                             *)

Listening == mode \in {"up", "resyncing", "resuming"}

\* The reader queues notifications for the pump, and waits while the queue is
\* full; it hands responses over directly.
ReceiveEvent ==
  /\ Listening
  /\ outbox # <<>>
  /\ Head(outbox).kind = "event"
  /\ Len(inbox) < Inbox
  /\ inbox' = Append(inbox, Head(outbox))
  /\ outbox' = Tail(outbox)
  /\ UNCHANGED <<serverVars, mode, view, lastId, attaches, lost>>

\* replace_state, with the snapshot of session/read or session/resume.
ReceiveState ==
  /\ Listening
  /\ outbox # <<>>
  /\ Head(outbox).kind = "state"
  /\ view' = Head(outbox).view
  /\ lastId' = Head(outbox).id
  /\ mode' = "up"
  /\ outbox' = Tail(outbox)
  /\ lost' = {m \in lost : m.id > lastId'}
  /\ UNCHANGED <<serverVars, inbox, attaches>>

\* Mutant: a larger event id is accepted.
NoGap(m) == FALSE

\* _next_event_id.
IsGap(m) == m.id > lastId + 1
IsStale(m) == m.id <= lastId

\* Mutant: a completed entry can be patched.
RejectsDuplicates(u) == u.from = Absent /\ view[u.entry] # Absent

\* _add_entry raises on a known entry, _update_entry on a completed one.
Rejects(u) ==
  IF u.from = Absent THEN view[u.entry] # Absent ELSE view[u.entry] = Completed

\* An update of an entry the client does not know is ignored.
Ignores(u) == u.from # Absent /\ view[u.entry] = Absent

Pumps == mode = "up" /\ inbox # <<>>

SkipEvent ==
  /\ Pumps
  /\ IsStale(Head(inbox))
  /\ inbox' = Tail(inbox)
  /\ UNCHANGED <<serverVars, outbox, mode, view, lastId, attaches, lost>>

ApplyEvent ==
  LET m == Head(inbox) IN
  /\ Pumps
  /\ ~IsStale(m) /\ ~IsGap(m) /\ ~Rejects(m.update)
  /\ view' = IF Ignores(m.update) THEN view
             ELSE [view EXCEPT ![m.update.entry] = m.update.to]
  /\ lastId' = m.id
  /\ inbox' = Tail(inbox)
  /\ UNCHANGED <<serverVars, outbox, mode, attaches, lost>>

\* The reducer raises: the pump gives the connection up.
RejectEvent ==
  LET m == Head(inbox) IN
  /\ Pumps
  /\ ~IsStale(m) /\ ~IsGap(m) /\ Rejects(m.update)
  /\ mode' = "broken"
  /\ inbox' = Tail(inbox)
  /\ UNCHANGED <<serverVars, outbox, view, lastId, attaches, lost>>

\* _resync: the pump asks for session/read and waits.
Resync ==
  /\ Pumps
  /\ IsGap(Head(inbox))
  /\ mode' = "asking"
  /\ inbox' = Tail(inbox)
  /\ UNCHANGED <<serverVars, outbox, view, lastId, attaches, lost>>

\* The server handles session/read.
ReadSession ==
  /\ mode = "asking"
  /\ conn = "attached"
  /\ mode' = "resyncing"
  /\ answer' = <<Snapshot>>
  /\ UNCHANGED <<history, watermark, toSend, blocked, conn, buffered, outbox,
                 inbox, view, lastId, attaches, lost>>

-----------------------------------------------------------------------------
(* The connection is replaced.                                             *)

\* _detach_connection cancels the requests' tasks and forgets what it buffered.
Detach ==
  /\ conn' = "none"
  /\ toSend' = [w \in Writers |-> IF w = Turn THEN toSend[w] ELSE <<>>]
  /\ blocked' = [w \in Writers |-> IF w = Turn THEN blocked[w] ELSE <<>>]
  /\ buffered' = <<>>
  /\ answer' = <<>>
  /\ UNCHANGED <<history, watermark>>

\* The server's loop for the connection ends, as when a request's task raises.
ConnectionFails ==
  /\ conn # "none"
  /\ mode # "broken"
  /\ attaches < MaxAttaches
  /\ Detach
  /\ UNCHANGED <<outbox, clientVars, lost>>

\* The end of the stream is put behind what was being sent.  A pump that
\* follows the stream first takes what is queued; one that waits for a
\* response fails at once.  Then the connection is closed and replaced.
EndOfStream ==
  /\ conn = "none"
  /\ mode \in {"up", "asking", "resyncing", "resuming"}
  /\ outbox = <<>> /\ blocked[Turn] = <<>>
  /\ mode = "up" => inbox = <<>>
  /\ mode' = "closed"
  /\ inbox' = <<>>
  /\ UNCHANGED <<serverVars, outbox, view, lastId, attaches, lost>>

\* The client closes the connection it gives up: its reader stops, then the
\* server detaches.
CloseConnection ==
  /\ mode = "broken"
  /\ mode' = "closing"
  /\ Detach
  /\ UNCHANGED <<outbox, inbox, view, lastId, attaches, lost>>

\* The client's close waits for the server's, whose own last put waits for
\* room, behind the turn's: nobody reads that queue any more.
ConnectionClosed ==
  /\ mode = "closing"
  /\ Room /\ blocked[Turn] = <<>>
  /\ mode' = "closed"
  /\ outbox' = <<>>
  /\ inbox' = <<>>
  /\ UNCHANGED <<serverVars, view, lastId, attaches, lost>>

\* session/resume of the live session on a new connection: the server buffers
\* from the start of the request.
Resume ==
  /\ mode = "closed"
  /\ attaches < MaxAttaches
  /\ attaches' = attaches + 1
  /\ mode' = "resuming"
  /\ conn' = "opening"
  /\ UNCHANGED <<history, watermark, toSend, blocked, buffered, answer, outbox,
                 inbox, view, lastId, lost>>

\* Its response is made.
ResumeSession ==
  /\ conn = "opening"
  /\ conn' = "attaching"
  /\ answer' = <<Snapshot>>
  /\ UNCHANGED <<history, watermark, toSend, blocked, buffered, outbox, clientVars, lost>>

-----------------------------------------------------------------------------
ServerStep ==
  \/ \E w \in Writers : NotifyNext(w) \/ PutBlocked(w)
  \/ Interrupt \/ PutAnswer \/ Flush \/ FinishAttachment \/ ResumeSession

ClientStep ==
  \/ SkipEvent \/ ApplyEvent \/ RejectEvent \/ Resync \/ ReadSession
  \/ EndOfStream \/ CloseConnection \/ ConnectionClosed \/ Resume

ReadStep == ReceiveEvent \/ ReceiveState

Next ==
  \/ ProjectTurn
  \/ \E w \in Requests, e \in Entries : AddNote(w, e)
  \/ \E w \in Requests, c, e \in Entries : Answer(w, c, e)
  \/ ServerStep
  \/ ClientStep
  \/ ReadStep
  \/ ConnectionFails

Spec == Init /\ [][Next]_vars

-----------------------------------------------------------------------------
(* Properties.                                                             *)

Events == [kind : {"event"}, id : Nat \ {0}, update : Updates]
States == [kind : {"state"}, id : Nat, view : [Entries -> Revisions]]

Messages(s) == {s[i] : i \in DOMAIN s}
InTransit == Messages(buffered) \cup Messages(answer) \cup Messages(outbox)
             \cup Messages(inbox) \cup UNION {Messages(blocked[w]) : w \in Writers}

Shape ==
  /\ history \in [Entries -> Revisions]
  /\ watermark \in Nat
  /\ toSend \in [Writers -> Seq(Updates)]
  /\ blocked \in [Writers -> Seq(Events)]
  /\ \A w \in Writers : Len(toSend[w]) <= 1 /\ Len(blocked[w]) <= 1
  /\ conn \in {"none", "opening", "attaching", "attached"}
  /\ buffered \in Seq(Events)
  /\ answer \in Seq(States) /\ Len(answer) <= 1
  /\ outbox \in Seq(Events \cup States) /\ Len(outbox) <= Outbox
  /\ inbox \in Seq(Events) /\ Len(inbox) <= Inbox
  /\ mode \in {"up", "asking", "resyncing", "broken", "closing", "closed",
              "resuming"}
  /\ view \in [Entries -> Revisions]
  /\ lastId \in 0..watermark
  /\ attaches \in 0..MaxAttaches
  /\ lost \subseteq Events

TypeOK == Shape /\ \A m \in InTransit \cup lost : m.id <= watermark

IdsIn(s) == {s[i].id : i \in {j \in DOMAIN s : s[j].kind = "event"}}
InFlight == IdsIn(buffered) \cup IdsIn(outbox) \cup IdsIn(inbox)
            \cup UNION {IdsIn(blocked[w]) : w \in Writers}

\* No event is lost to a client that follows the stream but those whose send an
\* interrupt cancelled: each other one past its watermark is on its way, whether
\* it was published before, while or after the client attached.
OnlyCancelledSendsAreLost ==
  mode = "up" /\ conn # "none" =>
    \A id \in (lastId + 1)..watermark : id \in InFlight \/ \E m \in lost : m.id = id

\* Once everything is delivered a client shows the server's history, whatever
\* gaps, resyncs and reconnections it went through, but for the entries that a
\* cancelled send held, which it lacks until its watermark has passed that event.
QuiescentClientIsCurrent ==
  mode = "up" /\ conn # "none" /\ InFlight = {} /\ (\A w \in Writers : toSend[w] = <<>>)
    /\ (\A i \in DOMAIN outbox : outbox[i].kind # "state")
  => \A e \in Entries :
       view[e] = history[e] \/ \E m \in lost : m.id > lastId /\ m.update.entry = e

\* What a client shows never goes back on any connection, and is nothing the
\* server's history has not reached; the history only moves on: the abstract
\* specification (ClientProjection, EventProjector).
Mirror == INSTANCE HistoryMirror WITH Final <- Completed
ImplementsMirror == Mirror!Spec

\* What a client shows of an entry never goes back, on any connection.
ViewNeverGoesBack == [][\A e \in Entries : view'[e] >= view[e]]_vars

=============================================================================
