# TLA+ models of oh-mon-vibe

oh-mon-vibe is a coding agent. Its engine runs inside an *app server* that
clients (the Textual UI, ACP, the CLI) drive over JSON-RPC: they start turns,
steer and interrupt them, answer approvals, and mirror the session's public
history from a stream of events. Below the server an *agent loop* talks to the
model and runs tools, a *session log* keeps the conversation, *checkpoints* keep
what every turn did to the files, and a *managed shell* keeps processes alive
between calls. Everything but the shell and the log's writers runs on asyncio:
one loop, many tasks, and an interleaving at every `await` that may suspend;
the shell and the writers are threads. That is where the program is hard to get
right and to test, and what these modules are about.

Paths below are relative to the repository; `app_server/` is
`vibe/app_server/`, ADR is `docs/adr/0009-app-server-boundary.md`.

## Inventory

| Component | State it keeps | Operations | What makes it correct |
| --- | --- | --- | --- |
| Turn controller (`_turns.py`) | active/last turn, its task, the projector, the history of earlier turns, callback records | start, scheduled start, steer, interrupt, inject, answer, reset; the turn's own task | one turn at a time; a turn always ends and frees the session; requests act on the turn they name |
| Session execution (`_execution.py`) | what the session is reserved for | begin, finish, reserve, require_idle | turns and lifecycle operations exclude each other; nothing leaks |
| Request broker (`core/agent_loop/_request_broker.py`) | futures tools wait for | request, resolve, reject | each request is resolved once; no tool waits for ever |
| Server (`server.py`, `_handler.py`, `_dispatch.py`) | connection, attachment, buffered notifications, event watermarks, callback deliveries, request tasks | requests, responses, notify, attach, detach, redeliver | no event is lost around an attachment; open callbacks reach a client |
| Root session (`server.py`, `_root_session.py`, `_runtime.py`) | the authoritative runtime, staged forks, the lifecycle lock | open, replace, fork, adopt, stage, close, snapshot, handoff | the attached root is open and whole, no runtime is dropped open, a close ends |
| Event projector (`_projector.py`) | public entries of a turn | project, open/resolve callback, finalize | completed entries are immutable |
| Transports (`transport.py`) | bounded queue of messages | send, close | order; no deadlock at the bound |
| Client (`client.py`, `connection.py`, `session.py`, `events.py`) | pending requests, bounded queue, projection, connection | read, dispatch, pump, reduce, resync, reconnect | the view converges to the server's history |
| Subagent sessions (`_sessions.py`, `core/subagents.py`) | children of the root, their turns and callbacks | run, restore, discard, handoff | a child's callbacks reach its own record; no child outlives its root |
| Shell operations (`_shell.py`) | running processes | run, interrupt, close | interrupt hits the operation it names |
| Agent loop (`core/agent_loop/_loop.py`, `agent_loop_hooks.py`, `core/middleware.py`, `core/compaction`) | messages, running tools, plan mode and what the model was told of it | act, steer, inject, tool batches, interrupt, switch, clear, compact | what the model is sent answers every call once; the last notice is true; a turn ends on an answer |
| Checkpoints, review, rewind (`core/checkpoints`, `core/review`, `core/rewind`) | log of turn marks, edits and decisions; the files | begin, snapshot, seal, approve, revert, truncate, rewind in place or by fork | the content the log derives is the disk; a rewind restores the start of the turn; approving touches no file |
| Session persistence (`core/session`) | messages and metadata on disk | append, overwrite, update a field, rename, load | nothing saved is lost by a crash, a failed write or a stale update |
| Managed shell (`core/tools/builtins/experimental_bash.py`, `core/tools/terminal_runtime.py`) | processes, logs, manifests, statuses | start, wait, poll, kill, reset, list, annotate, restart of Vibe | polls resume exactly; killed means gone; every exit is reported |
| Scheduled loops (`core/loop.py`) | loops and due times | create, fire, persist | a due loop fires once |
| Other tools and permissions, MCP, hooks, LLM backends, teleport, configuration, telemetry, UI, ACP | | | see "Not modelled" |

How they interact: a request is a task of the server; it calls the handler,
which calls the turn controller, and its response is sent before
`_after_response` starts what the response promised (`start_turn`). The turn's
task consumes the agent loop's events, projects each into patches and notifies
them one by one through the server, which numbers them and sends or buffers
them. A tool that needs an approval puts a request into the same event stream
and waits on the broker's future; the turn's task opens a callback, has the
server deliver it and waits on the record's future; `callback/respond` comes
back as another request task. The client's reader moves messages into a bounded
queue; its pump reduces them into the projection and asks for `session/read`
when it sees a gap.

What is hard:

- *Interleavings at awaits.* Every send can suspend: `StdioJsonRpcTransport`
  always does, `MemoryJsonRpcTransport` when its queue of 256 is full. Between
  two patches of one projection any other task may run.
- *Cancellation.* `turn/interrupt`, a detaching client, `close()` and
  `cancelTurn` cancel tasks at whichever await they are in, including the ones
  in `finally`.
- *Connections.* Clients detach, reattach and resume the same live session, and
  their request tasks die with them.
- *Bounded queues* on both sides, with a pump that both drains one and waits
  for a response behind it.
- *Threads.* A cancelled `asyncio.to_thread` goes on writing while its lock is
  free; readers and callers of the shell change one status.
- *Crashes.* The log and its metadata, the manifests of the shell are several
  files, replaced one after the other.
- *Replay.* The checkpoint log is truncated, and gets entries in its middle,
  while decisions refer to hunks by number.
- *Ordering.* Responses precede what they cause; snapshots carry a watermark;
  completed entries are frozen.

`PROJECT.json` lists each hazard at its line. One more has no entry there since no
property can promise anything of it: managers that share a directory of shell
sessions orphan each other's (`experimental_bash.py:1103`). Two Vibes do, and within
one Vibe every `AgentLoop` has a manager of its own on the same directory, so a
subagent can orphan the sessions of its parent.

## Modules

| Module | Models | Extends / instantiates |
| --- | --- | --- |
| `TurnController` | life of turns, reservation of the session, lifecycle operations, requests, detach | |
| `TurnControllerProofs` | inductive invariant and theorems | `TurnController` |
| `CallbackContract` | abstract: what a tool and a client are promised of a callback | |
| `CallbackLifecycle` | broker, records, entries, answers, delivery and redelivery | `CallbackContract` by refinement |
| `CallbackLifecycleProofs` | inductive invariant, theorems, refinement proof | `CallbackLifecycle` |
| `HistoryMirror` | abstract: what a client is promised of the public history | |
| `EventStream` | numbering, buffering, queues, reducer, resync, reconnection | `HistoryMirror` by refinement |
| `EventStreamProofs` | inductive invariant, theorems, refinement proof | `EventStream` |
| `RootLifecycle` | roots opened, replaced, forked, staged and closed; subagents beside them | |
| `RootLifecycleProofs` | inductive invariant and theorems | `RootLifecycle` |
| `AgentTranscript` | the conversation loop and the transcript it builds | |
| `AgentTranscriptProofs` | induction over transcripts, inductive invariant and theorems | `AgentTranscript` |
| `SessionLog` | saves of messages and metadata, crashes, failures, resuming | |
| `SessionLogProofs` | two inductive invariants and theorems | `SessionLog` |
| `LineDiff` | pure: difflib's matches, the regions of a diff, rebasing a region | |
| `FileHistory` | pure: the read model of the checkpoint log | `LineDiff` |
| `Checkpoints` | recorder, reviews, rewinds over files that change | `FileHistory` |
| `CheckpointsProofs` | diffs, splices and replays; inductive invariant and theorems | `Checkpoints` |
| `MCCheckpoints` | contents of files for its runs | `Checkpoints` |
| `MCEventStream` | symmetry of entries for its run | `EventStream` |
| `ManagedShell` | sessions, reader and caller threads, logs, manifests, restarts | |
| `ManagedShellProofs` | inductive invariant and theorems | `ManagedShell` |

Each module is one view of the program. They share no variables: what
another module details is one step here (a turn waiting for a callback is
"looping" in `TurnController`, its tools and messages are `AgentTranscript`, each
save of it is a thread of `SessionLog`; the turn's own start-up and its
reservation are left out of `CallbackLifecycle`; `EventStream` sees only patches
of entries). Where two views meet, both model the code: `Detach` cancels request
tasks in three modules, `CancelWhileFinalizing` and `CancelWhileEnding` are the
same lines, a steered message is a request in `TurnController` and a message in
`AgentTranscript`. A step is what a task does from one await that may suspend to
the next, or a thread from one release of a lock to the next. Requests that are
refused change nothing and are not steps.

### TurnController

The suspension points of `_run_turn` and `_finalize_turn` are the values of
`task`:

| value | suspended in |
| --- | --- |
| `created` | not yet run (`create_task`) |
| `announcing` | `turn/started` being sent |
| `reporting` | running status, statistics |
| `looping` | the `try` block: the core's events |
| `finalizing` | patches of `projector.finalize` |
| `concluding` | statistics; the history already holds the turn |
| `idling` | idle status; `_active_turn` already cleared |
| `completing` | `turn/completed`; the execution already free |
| `done` | |

A cancellation (`cancelling`) is delivered at the suspension it meets:
before the `try` it ends the task at once (`CancelBeforeLoop`), inside it leads
to `finalizing`, later it skips to the `finally` clauses
(`CancelWhileFinalizing`). The auxiliary `abandoned` is the set of turns given up
before their loop; a session that stays reserved is reserved for one of them.

### CallbackLifecycle

The turn's task walks `adding` (entry and blocked effect being sent),
`blocking` (status), `delivering` (`callback/call`), `waiting` (`record.future`),
`saving` (`approve_always`), and the end of the turn (`unwinding`, `closing`,
`concluding`, `idling`). A `callback/respond` walks `locking`, `emitting`,
`reporting`, `replying` under the record's `resolution_lock`. `entry`, `future`,
`output`, `coreResolved` and `tool` are the five places that must agree on an
answer: the history entry, the fields of `CallbackRecord`, and the broker's
future. All kinds of callback are one kind: an attaching client supports it or
does not.

### EventStream

An entry is a revision: absent, in progress, blocked on a callback, resumed,
completed. A callback opens together with its effect's block and is answered
together with its resumption, in two patches sent one after the other. Writers
are the turn and request tasks. `conn` follows `_begin_attachment`, the
snapshot, `_finish_attachment`. The client's `mode` says whether its pump follows
the stream, waits for `session/read`, or replaces the connection.

`turn/interrupt` may cancel the turn's task in a send (`Interrupt`): the event has
its number and is in no queue, and the rest of its projection is never numbered.
The history variable `lost` keeps both until a snapshot makes up for them. The client
stays attached and notices by the gap before the next event; if none follows, as when
the cancelled send was of `_finalize_turn`, it stays behind. The properties except
exactly what is in `lost`, and nothing else. Requests are cancelled only with their
connection, whose replacement brings a snapshot.

### RootLifecycle

Four tasks interleave: a request that may change the root (`req`; the attachment
lock lets one through at a time), a `session/close` (`bye`), `AppServer.close`
(`stop`), and the root's turn (`run`), which creates subagents. The first three
close runtimes under `_lifecycle_lock` (`server.lock`); the close under way is
`closing`, in the order of `_RootRuntime.close`: handler, children, turn, loop.
Every build, bind, restore and close may fail, and a cancellation (a broken
connection, a close) may meet a request at any of its awaits. A loop is
`closed` once all of its clean-up was attempted: the errors are collected, and
decide whether a replacement goes on.

Abstractions: loops not built yet are interchangeable (`Fresh`); which saved
children are restored is free, and each is restored in one step, those skipped
left out; the leftovers of a registry are closed in the step that binds the new
root; one turn at a time, and a turn that was given up must end before another
starts. Left out: resuming the id that is already live, starting on an existing
root, subagents of subagents, session handoffs, the scheduler, worktrees, the
clean-up of staged forks by the process.

### AgentTranscript

`msgs` is the transcript as kinds of messages and the calls they make or
answer; `loop` is where the generator of the turn waits (asking, tools, saving,
judging, hooks, compacting, resetting) and what it has learnt; `plan` is plan
mode: the profile, the middleware's memory, pending edits. A turn opens on the
cleaned history (`Cleaned` is `_clean_message_history`), injects the notices of
`core/middleware.py`, asks, runs the calls at the same time, saves, judges. The
user interrupts (`Interrupt`, `InterruptMention`, `InterruptReset`), refuses a
call, reviews a plan, switches agents, reloads. Compaction comes from the limit,
from an overflowing context or by hand.

An interrupt meets the turn's task in one of two places. If the task waits inside the
loop, `Interrupt` cancels the running tools and the turn waits for them ("cancelling"),
unless it is interrupted again: then they go on alone. If it is in its
consumer, between two events (`_turns.py:435-471`), `Abandon` ends the turn
at once: `aclosing` closes `act` only, and the generators under it are closed by the
event loop later, one by one. Until the batch's is (`CloseBatch`), its tools run as if
nothing had happened and the loop's queue stays bound, so that a new turn's batch is
refused with "A tool batch is already active" and the turn fails (`BatchRefused`);
afterwards they are cancelled and nobody waits for them. `late` keeps who they are:
`left` work still, `cancelled` end at some time, each with an answer that is appended to
whatever is there by then (`LateAnswers`) or without one (`LateVanishes`); a review of
the plan can end that late as well (`LateReview`). `late.astray` is auxiliary: an
answer came when its call was no longer open at the end of the transcript, because the
next turn had put a placeholder or other messages there; a transcript that is replaced
(cleared or summarized) starts clean again. Cleaning counts answers, whosever they are, before it
looks for the missing ones (`ToFill`), as the code does: with answers astray it may
leave a call open.

`Rewind` cuts the transcript before one of the user's messages, between turns; files
and the log of checkpoints are `Checkpoints`'s. Neither `rewind_to_message` nor
`session/rewind` nor `_reset_session` tells the middleware, whose memory `plan.was` stays
what it was.

Abstractions: the system prompt is left out; one mentioned file; calls the
loop cannot resolve are answered by the same step as tools; what a stream had
delivered when it was cut is `got`; a switch of agents happens at its commit.
Tools that die of exceptions of their own infrastructure are left out, and so is
context that `context/inject` adds between turns. What is
pending (a cleared context, injected messages) survives an interrupt as in the
code. `plan.told` is auxiliary: the middleware's memory is of this transcript; after a
reload, an interrupted compaction or a rewind that cut notices it is not, until the next
notice. `loop.answered` is auxiliary too: the turn ends by itself.

The properties name what this costs. `ModelSeesAnsweredCalls` and the answers in
`EndsOnAnAnswer` except the time from an answer that went astray to the next
transcript, `PlanNoticeIsCurrent` the time in which the memory is of another
transcript, and nothing else: tools that outlive their turn and answer in their place,
or before the next turn opens, break neither.

`SteerSpec` adds `turn/steer`, which appends a message wherever the turn is
suspended. It is in no passing run: it breaks `EndsOnAnAnswer` (below), and
`ModelSeesAnsweredCalls` too, as a message steered in between an answer and the
results of its calls stays there.

### SessionLog

A save takes a snapshot of the conversation, waits in `queue` for `_save_lock`
and writes in a thread (`threads`): append or overwrite of `messages.jsonl`, dump
of the new metadata to a temporary file, `os.replace`. Title updates use a
thread of their own, without the lock. A message is a number and has a `text`,
which `RewriteMessage` changes, for any message and at any time: hooks of tools that
run at the same time rewrite the assistant's message although the answers of others
were appended and saved behind it. A snapshot shares the messages with the
conversation, so a save takes their texts when its thread serializes them
(`threads[s].text`; all lines of one save at once). `logged` are the texts in the
log; of a message that is in the log twice it keeps the later one. Metadata keeps the number of
messages, the fingerprint of the last (the message and its text), and the loops. `Crash` stops the process between any two steps, and in an
append leaves any prefix of it and perhaps a torn line; `FailWrite` does the same
and lets the process live; `Resume` loads what it finds.

Auxiliary: `kept` is what the last complete save was asked to save, `owed` the
messages of complete saves nobody has taken back, `raced` notes what the
properties except: an interrupted save, a metadata update lost to a rename,
loops changed before there is metadata. `late` has the messages that were rewritten
after a save had taken their text and that the fingerprint will not tell of: the
next save only appends and their lines stay as they were. `LogIsTheLastSave` excepts
exactly these, so it says that a rewritten message is on disk as it is in memory
unless it came too late for a save. Titles themselves are left out.
`CancelSpec` adds the cancellation of the task that waits for its thread. It is
in no passing run since it breaks `LoggedOnce` (below) and with it the rest.

### LineDiff, FileHistory, Checkpoints

`LineDiff` is difflib's longest-block matching and what `history.py` makes of
it: the unmatched regions and `_base_to_result`. `FileHistory` is `History`:
replay, dependencies between hunks, what a decision drags with it, the accepted
baseline, the plan of a restore. Both are pure. A loop of the code is a `Fold`
(`Each` over a set) whose step is an operator with a name, so that TLC evaluates
it once and a proof can follow it step by step. difflib's recursion matches one
window at a time (`MatchBlock`): windows do not bear on each other, so the order
does not matter. The transitive loop of `_decide` is the least set that holds the
hunks and what they are built on (`KeptWith`). `ReplaceSlice` clips its bounds as
Python does.

`Checkpoints` is `Checkpointer`, `CheckpointRecorder`, `ReviewManager` and
`RewindManager`. `cp` is the checkpointer's log and open turn; `disk` the files,
which the agent's tools, shell commands and the user change; `fork` a rewind
that has restored the files and waits for its save before it truncates the log.
Faults: a turn cancelled before its message, a read that fails at its beginning
or its seal, a write that fails half-way. Numbers of events are reused after a
truncation, as in the code; an open mark that was never sealed refuses the turns
after it. One file changes at most once between two looks of the log, nothing is
written in the gap of a rewind by fork, and a review asks for one region at a
time. The auxiliary `dirty` is the files changed since the log last saw them, a
mark's `begun` the disk when its turn began.

### ManagedShell

A session is a process that writes numbered bytes (an odd byte leads a
character, an even one ends it), a reader thread, a status, a log and a manifest.
`call` is what each worker thread of the tools is doing: starting, waiting,
killing, resetting, annotating; `manager` the life of the Vibe, its lock and the
sessions it calls orphaned. `Die` ends a Vibe at any step; `Create` starts the
next one, which reads the manifests. Polls (`Poll`) are those of a model that
follows `next_cursor`.

Abstractions: stdin, exit codes and failures to open a terminal are left out;
the graceful and the forced termination are one step that may leave survivors;
the marks of a reset are one step, as are the reads of the manifests; a client
is not followed any longer once the log it polls was rewritten. `unkilled` is
auxiliary: sessions a kill of which failed.

## Runs

All passing runs are exhaustive.

| Run | Bounds | Shows |
| --- | --- | --- |
| `turns` | 2 turns, 2 requests | turns exclude each other and lifecycle operations; interrupts are precise; reservations leak only through a turn abandoned before its loop; a reset leaves no task; a finalized turn releases |
| `callback_answers` | 1 callback, 2 requests, answers `always`/`cancelTurn`, 2 turns, no new client | one answer wins and is the one the tool and the history have (refinement of `CallbackContract`); every answer request ends; no settled tool waits on |
| `callback_delivery` | 2 callbacks, 1 request, 2 `session/resume`s | a client on a new connection is sent what the turn waits for |
| `events` | 3 entries, a turn and a request, queues of 1, 1 reconnection, 1 cancelled send to make up for; entries that are no callbacks are symmetric | nothing is lost but what an interrupt cancelled in a send; the view never goes back or ahead of the history (refinement of `HistoryMirror`), and converges |
| `root_lifecycle` | 3 roots, 2 subagents | no runtime is dropped open; the attached root is open, registered and has its own children only, and is not replaced under a turn; after a successful `session/close` and the shutdown no child of it is open; a server that begins to close gets closed |
| `transcript` | 2 turns, 3 answers, 2 calls, 1 switch or reload, 1 compaction; interrupts, rewinds and late tools unbounded | but for answers astray, the model is sent transcripts whose calls are all answered; but for a memory of another transcript, the last notice of plan mode is true; a turn ends on an answer |
| `session_log` | 2 messages, 1 of them rewritten, 1 change of loops, 2 saves, saves to logs of up to 3 lines | the log is the last save; what was saved survives crashes, failed writes and renames; loops reach the disk |
| `checkpoints` | 1 file, 3 contents, 4 events, 3 messages | derived content is the disk; dependencies come first and are kept with what needs them; a rewind restores the start of its turn; approval writes nothing |
| `managed_shell` | 1 session, 2 callers, 2 bytes, pages of 1 and 2 | polls resume exactly; killed means gone; the manifest tells the end; every exit is reported |
| `splices_land`, `saves_serialized`, `steer_answered` | like the passing run of the module | each finds a behaviour of the code that contradicts a comment or the ADR (below) |

Why the bounds are enough. Two turns are an old one and its replacement, two
requests are any pair that races; every property relates at most two turns or
two requests, and turn ids are never reused. Queues of one make every send a
possible suspension, as stdio does, and make "full" and "overtaken while
waiting" common instead of rare; the real bound is 256. Three entries are a
callback, its effect and something else. One reconnection is a snapshot over a
stream in flight. Three roots are one that is replaced, its successor and a
fork; two subagents are one restored and one being created (four roots and three
subagents gave nothing new). Two calls are one answered and one not; three
answers are a call, an answer and a retry; one switch, beside the plan that is accepted
and a start in either mode, is a notice given and one taken back, by a rewind or a
cleared context, and 2 switches gave nothing new on fewer answers. Two messages and two saves are an
append that waits behind a rewrite, and a text rewritten behind a later message; lines
may outnumber messages after a failed write (3 messages on logs of 2 lines gave nothing
new). Four events are a mark, two edits that
depend on each other, and a decision or a change by hand. Two bytes are a
character cut in the middle; two callers are a kill racing a wait or a reset. The theorems lift
the safety properties of the passing runs to every value of the constants; only
liveness rests on the bounds.

Deadlock is checked in `TurnController`. In the other modules turns,
attachments, loops, messages or bytes are bounded, so the model really stops once they are
used up, and their runs say `CHECK_DEADLOCK FALSE`; there, what must happen is
stated as a liveness property.

Fairness: asyncio runs every ready task, so each step of a turn's task and of a
request's task is weakly fair. Nothing
obliges the model, a tool, a user or a client: the end of the core's stream
(`LeaveLoop`), answers, interrupts, timeouts, new connections and disconnections
are not fair. In `CallbackLifecycle` one weak fairness over all steps of the
turn's task is enough because there is one such task; the choice between
`SavingFails` and `AnswerSaved` stays open. In `RootLifecycle` builds, closes and
shutdowns are fair: a build and a close end, by failing if need be (the wait for
a cancelled turn has a timeout, `cancel_tasks`); requests, restoring more
children and the turn are not. In `ManagedShell` reader and caller threads are fair, as the
operating system runs them; processes, polls and the life of Vibe are not.
`EventStream`, `AgentTranscript`, `SessionLog` and `Checkpoints` state safety only:
a client whose pump waits for `session/read` behind a full queue waits for ever (below).

### Where code and docs disagree

Each has a run that finds it.

1. **A splice removes a line it does not own** (`SplicesLandExactly`;
   `history.py:82-83`): reverting a deletion puts a line back beside one that a
   later edit replaces, and the rebased replacement takes both.
2. **A message is logged twice** (`LoggedOnce`; `session_logger.py:53-54`): a
   cancelled save releases the lock, its thread goes on, and the save in the
   `finally` of the interrupted loop appends the same messages.
3. **A steered message is not read** (`EndsOnAnAnswer` under `SteerSpec`; ADR 203)
   when it arrives between the last look at the transcript and the end of the turn.

What else the modelling showed, and the properties therefore do not promise:

- An interrupt may end nothing (ADR 204): before `start_turn` there is no task to
  cancel; before the `try` of `_run_turn` nothing is finalized and the execution
  leaks; in `_finalize_turn` the rest of it is skipped. `ReservationIsAccountedFor`
  says that this is the only leak.
- An event whose send an interrupt cancels is missed by an attached client, and if no
  event follows it, for good (ADR 53, 438).
- A snapshot taken while the statistics of an ending turn are sent lists its
  entries twice (ADR 242).
- A steered message lands in another turn (ADR 206) when its turn ends while the
  session log is saved; one between an answer and the results of its calls stays there.
- A callback stays unanswerable (ADR 297) when its answering client disconnects
  between the patch and the record, and is never delivered (ADR 291) when it
  opens during a `session/resume` that then fails.
- The reducer raises (ADR 253) on a patch computed before an interrupt and
  published after the entry was completed; a resync deadlocks (ADR 273) once the
  client's queue is full.
- A fork that waits for `_lifecycle_lock` behind a `session/close` is closed by
  nobody when it then finds no root, or is cancelled (ADR 220-221):
  `EveryRuntimeIsOwned` excepts roots of a server that closes. The server's own close
  likewise leaks a child that is created while it closes; only a
  `session/close`, after which the registry is closed again, does not.
- A new root answers `session/read` while its children are still being restored
  (ADR 221-222).
- An assistant message that a hook rewrites when a later message was saved behind it
  (`agent_loop_hooks.py:343`), or while a save works that has serialized it, is not
  written again until something else makes a save rewrite the whole log: the metadata
  compare the last message only (`late` in `SessionLog`).
- The notice of plan mode is lost by a reload until the next one. After a rewind the
  model can be asked in plan mode without having been told, or out of it with the old
  reminder last (`rewind/manager.py:126`): the middleware remembers a notice that was cut.
- A tool that outlives its turn (`_loop.py:2032`) answers behind the placeholder that the next
  turn gave its call, or among its messages: the call is answered twice or out of
  place, and the provider sees it so. Until its generator is closed the next turn's
  tools are refused and that turn fails (`_loop.py:2006`).
- Output that a process writes between a `wait_readable` that found nothing and the
  `poll` that finds it exited (`experimental_bash.py:882`) is never read, so a session is
  completed with output in flight although the comment at 1007-1010 says that
  callers never see one. The model has this step; no property forbids it.
- A killed process that ends as its kill fails leaves a manifest that does not
  say how (`ManifestTellsTheEnd` excepts `unkilled`).

## Proofs

`TurnControllerProofs` proves, for any sets `Turns` and `Requests` and from
`NoTurn \notin Turns` alone, `Spec => []IInv` and from it `TypeOK`,
`RunningTurnIsReserved`, `OneTaskAtATime`, `InterruptHitsTheActiveTurn`,
`ReservationIsAccountedFor`, `IdleMeansNoTurn`, `CompletedTurnIsOver` (which no
run checks on its own any longer) and the action property `ResetLeavesNoTask`.

`RunningTurnIsReserved` is not inductive. A turn's task is created by the
response to `turn/start`, one step after the reservation, so the invariant must
say what a suspended start request owns (`StartOwnsItsTurn`: the execution is
its turn's, that turn is active and projected, and no task runs), and what a
lifecycle operation owns (`LifecycleOwnsExecution`), including that a reset has
at most a task that is being cancelled. `Release` frees the execution before
the task is done, so a live task that is `completing` must be known to be the
last of its turn (`CompletedTurnIsLate`), and one that is `idling` to be
detached from the controller (`IdlingTurnIsDetached`). `InterruptHitsTheActiveTurn`
ties live tasks to `_active_task`, which gives `OneTaskAtATime` without an
induction of its own. The proof has one step per action and, under it, one per
conjunct the action can disturb. TLC checks `IInv` too, ad hoc, on the instance
of the `turns` run.

`CallbackLifecycleProofs` proves, for any callbacks, requests, answers and
bounds, that the detailed lifecycle implements `CallbackContract`
(`Spec => ImplementsContract`), that one answer is accepted at most and that the
status stays idle once no turn is active (`OneAnswerIsAccepted`,
`IdleOnceInactive`; proved, not run: the refinement run has the former's cases). It uses `NoneAssumption` and
`AnswerAssumption` (answers are none of the states of a future or an entry). The
contract needs, at the step where the tool gets its answer, that the history
shows it; but an answer passes through four places before that, in different
tasks. The invariant says what agrees at each: the entry a lock holder patched
shows what the holder will put into the record (`HeldAnswerIsShown`), the future
carries what the entry shows (`FutureIsShown`), the task that saves an answer has
one (`SavedIsSettled`). Both hold only for callbacks the current turn projects:
an answer that arrives after its turn goes into a record nobody reads, while the
entry stays cancelled. The task only handles projected callbacks
(`HandledIsProjected`), which is why that is enough. `LockHasOneHolder`,
`HolderHasNoOutput` and `AcceptedIsOutput` are the lock's argument: who holds it
found no output, and nobody else can add one. The refinement maps every action to
one of the contract's, or to a stutter (`StepImplementsContract`).

Its second part proves `AttachedClientWasAsked` and `TypeOK`. `TypeOK` bounds
`outstanding` by the number of connections, so the invariant counts
(`SendingsAreCounted`): what was sent, what the redelivery will send, what the turn
has yet to send and the connection being made are together at most one for each
connection and callback. `ClientIsAsked` covers the window in which the turn
has not reached the delivery or the redelivery has not reached the callback.

`EventStreamProofs` proves, for any entries, writers, sizes of the two queues
and numbers of connections and cancelled sends, `TypeOK`,
`OnlyCancelledSendsAreLost`, `QuiescentClientIsCurrent`, and that the stream implements `HistoryMirror` (`Spec => ImplementsMirror`): the
server's entries only move on, and a view moves between what it showed and what
they have reached. `ViewNeverGoesBack` is the half of it a user sees (proved, not
run on its own). None is inductive: an event goes through up to five
places, and a reconnection replaces the view by a snapshot that was itself
overtaken by events. The invariant therefore speaks of `Flying`, the events in any
of those places, and is the same for the view the client shows and for a
snapshot on its way (`IsBehind(v, k)`, `IsCaughtUp(v, k)` for a view with the
events up to `k`). Behind: no event past `k` takes the view back, but for one on
a completed entry or one that adds an entry, which the reducer refuses. Caught up:
every number up to the watermark is flying or lost, an entry's last revision is in the
view, flying, lost or still to be notified, and an entry is added before it is patched;
with consecutive numbers, the event applied next is never one the reducer ignores.
An interrupt moves what is flying to what is lost (`Cancels`). For the updates
behind the cancelled event that needs that nobody had the event yet: a put that
waits is the only copy of its event (`PutsAreSingle`), and a snapshot past its number has
those updates, which were applied together with it.
That needs `UpdatesAreRecent` (what a writer has yet to notify is the entry's last
revision, but for an effect resumed by an answer that the turn completed
meanwhile), `EventsAreNumbered` (numbers are unique; of one entry later
numbers do not go back) and `ResponsesAreAwaited` (at most one response is on its
way, to a client that waits for it). Steps are grouped by what they do:
`Publication` by a writer, `Loses` for those that move messages or lose them to a
client that does not need them, `Applies`, snapshots.

`RootLifecycleProofs` proves, for any roots and subagents (`NoOneAssumption`,
`LoopsAssumption`: the two kinds are different), `TypeOK`, `EveryRuntimeIsOwned`,
`AttachedRootIsWhole` and `SessionCloseReleases`. The argument is who holds what: the lock has the holder whose state says
so (`LockHasItsHolder`), a request its old and new root (`RequestHoldsItsRoots`),
the server the registered root (`ServerHoldsItsRoot`), the registry or the close under
way each open subagent (`ChildrenAreHeld`), a session its one reservation
(`ReservedForOne`). `SessionCloseReleases` needs in addition what
remains possible after a close (`CloseFollowsItsRoot`, `StoppedStays`).

`ManagedShellProofs` proves, for any sessions, callers and output
(`ShellAssumption`: sizes are numbers, `NoFile` is not a log), `TypeOK`,
`PollsResume`, `KilledMeansGone` and `ManifestTellsTheEnd`. The last two are inductive once it
is known what a call is about (`CallsAreWhatTheyAre`), that a session is its
starter's alone until it is registered (`StarterIsAlone`: nobody else, and
no orphan of an earlier Vibe, has it), and that a failed kill is noted before
the status is restored (`FailureIsNoted`). `PollsResume` is two steps:
the log is the first bytes of the output and the reader holds the next ones
(`LogIsTheOutput`), and a client has them up to its cursor (`ClientHasTheLog`).

`SessionLogProofs` proves `TypeOK`, `LoopsReachTheDisk` (from `LInv`),
`SavedMessagesSurvive` and `LogIsTheLastSave` (from `IInv`), with no hypothesis on what is
rewritten or disturbed. A save is decided by metadata that may be several saves old,
so the invariant follows every version of the conversation that waits to be
saved: a place that changed never changes back, and all that follows it changes too
(`VersionsBranch`); hence a version that agrees with the metadata, on disk or
about to be, has in the log everything up to there (`MetasCover`). `LogIsExact`
and `VersionsExtendTheLog` say the same exactly while nothing was interrupted.
For the texts, `TextsAreLogged` follows each from memory through the thread that has
taken it into the log, and `TextsAreKnown` (no text is newer than the last rewriting)
is why a message rewritten anew differs from the fingerprint on disk.

`AgentTranscriptProofs` proves, for any numbers of turns, answers, calls, switches
and compactions, `TypeOK`, `ModelSeesAnsweredCalls`, `PlanNoticeIsCurrent` and
`EndsOnAnAnswer`. A transcript has any length and its cleaning is a recursive function,
so the module first proves induction over the numbers for sets (`Induction`, from
the least element that a well-founded order gives) and that a recursion defines
a function (`Recursion`); with them what `CleanedTo` and `NoResponses`
return (`CleanedToIsRead`, `PlaceholdersAnswer`); what counts as open in a block is
read off the transcript (`TheLastBlock`, `WhatWaitsIsFilled`). The argument
is about `Blocks(s)`: each answer stands in the unbroken block of answers after
its call, no call is made or answered twice. `Missing(s)` are the calls without
an answer, `Waiting(s)` those that may still get one at the end of the transcript.
Cleaning is proved along the beginnings of a transcript (`CleanedIsComplete`), and
blocks with nothing missing are what `AllAnswered` counts out
(`NothingMissingIsAllAnswered`). None of the four properties is inductive. The
invariant says what is missing wherever the loop waits (`Answerable`): nothing where the
model can be called from, exactly what runs while tools run, at least
that after an interrupt, so that each answer still lands in its block; that names of
calls are new (`History`); that tools which outlive their turn work on other calls than
the turn's own (`Apart`). What is said of answers holds until one goes astray: a late
answer either fills a call that is open at the end of the transcript or sets
`late.astray`, and a replaced transcript is good again. The invariant also says that
the middleware remembers of plan mode what the transcript says, while `plan.told`
(`Memory`), and what the last message is when a turn judges it (`LastWord`). `Budget` is about the bound alone: the model is not called past it.

`CheckpointsProofs` proves, for any finite set of files, any contents, numbers of events
and messages, faults and ways to rewind (`CheckpointsAssumption`), `TypeOK`,
`ContentIsDisk`, `DependenciesHold`, `PlanIsTheStart` and the action property
`ApprovalLeavesTheFiles`. It is built from the bottom up.

- *Data.* What a fold computes is read off its steps (the `...Unrolls` lemmas) with
  `Induction`. The matches of two texts are a chain whichever way
  they were found, so a diff is exact (`DiffIsExact`): its regions, replaced from
  right to left, give the new text. A text rebased onto itself stays where it is, so
  an edit of what the log derives for a file gives the state after it
  (`NewEditGivesAfter`). Nothing like this is true of the splices of older edits into a
  text they were not made on, which is the disagreement of `splices_land`.
- *Logs.* In a `WellFormed` log each event fits what is before it: its number is new,
  hunks are built on hunks of the log, decisions are about hunks of the log. In a
  `SoundLog` marks recorded what the log derived then (`Sees`), and in a `GoodLog`
  whoever keeps a hunk keeps what it is built on (`KeptHold`), at the end and before
  each mark. Marks and decisions on other files leave a file's derivation alone
  (`QuietEvent`); a KEEP changes no content, so an approval writes nothing. Drift goes in
  before the mark of the open turn, which is the last event (`OpenIsLast`): adding
  it there is appending it to the log without the mark (`DriftInserted`).
- *Steps.* `IInv` adds that marks know every file the log knew before them, except
  that of a turn which could not begin (`MarksComplete`): without it a restore
  would have to derive a file that a later mark recorded after it had changed.
  `ForkHolds` says of a rewind that waits for its save that the restored files are what the
  log has before the place where it will be cut. What a truncation restores is read at
  the mark (`PlanStarts`), and dropping events keeps a good log good since every
  clause speaks of prefixes.

None of the five properties is inductive: each needs that the log is good, and
`ContentIsDisk` needs, after a truncation, that the marks saw what the log derives.

TLC checked each of these invariants on the bounds of the module's run (for
`AgentTranscriptProofs` with one answer less; for `CheckpointsProofs` with `State`
cut to texts of four lines at most).

Only model-checked: liveness (`FinalizedTurnReleases`, `EveryAnswerIsHandled`,
`SettledToolResumes`, `ExitIsReported`, `CloseEnds`), which needs fairness and
`ENABLED`. Induction over data is proved for sets and sequences by way of sets of
numbers, never over an operator.

## Plan

1. `SessionHandoff`: compaction of a running turn and its effect on session ids,
   watermarks and callbacks; composed with `EventStream`.
2. Callbacks and handoffs of subagents; shell and teleport reservations (a
   further kind of `execution` in `TurnController`); due times of scheduled loops.

## Not modelled

Most of the repository by lines is not state that interleaves: the Textual UI and
CLI, the ACP agent (front ends over `AppServerSession`), the wire protocol's
types, tools that read or write one file or call one service, LLM backends, MCP,
connectors, hooks and telemetry (network and subprocess I/O with little shared
state), configuration, identity and trusted folders (file formats), skills and
prompts (text). A model of these would restate them, so the share of lines the
modules stand for stays small, and the modules are where tasks, threads, crashes and
replays meet.

Of the modelled parts, left out: session handoffs after a compaction, callbacks of
subagents, requests of the server to the client, shell and teleport reservations,
rendered diffs and encodings of checkpoints, listing and indexing of saved
sessions, migration of old logs, the content of messages and summaries.
