---------------------------- MODULE ManagedShell ----------------------------
(* The sessions of the managed shell: a process on a terminal, a reader       *)
(* thread that copies its output to a log, worker threads of the tools that   *)
(* start, wait for, kill, reset, look at and annotate sessions, and the       *)
(* manifests by which a later Vibe finds the sessions of an earlier one. One  *)
(* Vibe runs at a time, and in it one agent loop works on the directory.      *)
(*                                                                            *)
(* Output is numbered: the process writes the bytes 1, 2, ... and its text    *)
(* is of two-byte characters, an odd byte leading an even one; 0 is an        *)
(* annotation. Each step of a thread ends where it releases a session's       *)
(* condition or waits for a process. Standard input and exit codes are left   *)
(* out: what the process does is free.                                        *)
EXTENDS Naturals, Sequences, FiniteSets, SequencesExt

CONSTANTS Sessions,     \* session ids, each started at most once
          Callers,      \* worker threads of the tools
          MaxOutput,    \* bytes a process writes
          Pages,        \* max_bytes of a poll
          Nobody, NoFile

ASSUME ShellAssumption ==
    /\ MaxOutput \in Nat /\ Pages \subseteq Nat \ {0}
    /\ Nobody \notin Callers /\ NoFile \notin Seq(0..MaxOutput) \union {"running"}

VARIABLES process,  \* per session: the process and what it wrote
          reader,   \* per session: the reader thread, what it took and holds
          status,   \* TerminalSession.status
          listed,   \* the manager's _sessions
          log,      \* output_path
          manifest, \* the status in manifest_path
          manager,  \* its life, its _lock, its _orphaned
          call,     \* per worker thread: what it is doing
          client,   \* per session: what a model polling it with next_cursor knows
          unkilled  \* history: the sessions a kill of which failed

vars == <<process, reader, status, listed, log, manifest, manager, call,
          client, unkilled>>

Final == {"completed", "killed", "timed_out"}
Status == Final \union {"running"}

IsLead(byte) == byte % 2 = 1

Bytes(from, to) == [i \in 1..(to - from + 1) |-> from + i - 1]

(* What the reader still holds or finds in the terminal.                      *)
InFlight(s) == reader[s].held # <<>> \/ reader[s].taken < process[s].wrote

Alive(s) == process[s].at \in {"running", "detached"}

ReaderIsAlive(s) == reader[s].at \notin {"unborn", "dead"}

Processes == [Sessions -> [at : {"none", "running", "detached", "exited"},
                           wrote : 0..MaxOutput]]
Readers == [Sessions -> [at : {"unborn", "select", "read", "append", "idle",
                               "ending", "report", "dead"},
                         taken : 0..MaxOutput, held : Seq(0..MaxOutput)]]
Statuses == [Sessions -> Status]
Logs == [Sessions -> Seq(0..MaxOutput) \union {NoFile}]
Manifests == [Sessions -> Status \union {"orphaned", NoFile}]
Orphans == [Sessions -> Final \union {"orphaned", NoFile}]
Managers == [at : {"off", "up", "closed"}, lock : Callers \union {Nobody},
             orphaned : Orphans]
Calls == [Callers -> [at : {"idle", "spawned", "registered", "waiting", "terminate",
                            "restore", "restoring", "join", "write"},
                      targets : SUBSET Sessions,
                      how : {"background", "soft", "hard", "kill", "reset", "clear",
                             "replace", "append"}]]
Clients == [Sessions -> [cursor : Nat, got : Seq(0..MaxOutput),
                         over : BOOLEAN, rewritten : BOOLEAN]]

Shape ==
    /\ process \in Processes
    /\ reader \in Readers
    /\ status \in Statuses
    /\ listed \subseteq Sessions
    /\ log \in Logs
    /\ manifest \in Manifests
    /\ manager \in Managers
    /\ call \in Calls
    /\ client \in Clients
    /\ unkilled \subseteq Sessions

Killing == {"terminate", "restore", "restoring", "join"}

(* The shape of the state; the reader holds what it took of what was written, *)
(* and the manager's lock is held by a call that resets it.                   *)
TypeOK ==
    /\ Shape
    /\ \A s \in Sessions : /\ reader[s].taken <= process[s].wrote
                           /\ reader[s].held = <<>> <=> reader[s].at # "append"
    /\ manager.lock # Nobody => call[manager.lock].at \in Killing

Idle == [at |-> "idle", targets |-> {}, how |-> "reset"]

Init ==
    /\ process = [s \in Sessions |-> [at |-> "none", wrote |-> 0]]
    /\ reader = [s \in Sessions |-> [at |-> "unborn", taken |-> 0, held |-> <<>>]]
    /\ status = [s \in Sessions |-> "running"]
    /\ listed = {}
    /\ log = [s \in Sessions |-> NoFile]
    /\ manifest = [s \in Sessions |-> NoFile]
    /\ manager = [at |-> "off", lock |-> Nobody, orphaned |-> [s \in Sessions |-> NoFile]]
    /\ call = [c \in Callers |-> Idle]
    /\ unkilled = {}
    /\ client = [s \in Sessions |-> [cursor |-> 0, got |-> <<>>,
                                     over |-> FALSE, rewritten |-> FALSE]]

-----------------------------------------------------------------------------
(* The process, on a terminal it may leave before it ends and that the reader *)
(* closes when it does.                                                       *)

Write(s) ==
    /\ process[s].at = "running" /\ reader[s].at # "dead"
    /\ process[s].wrote < MaxOutput
    /\ process' = [process EXCEPT ![s].wrote = @ + 1]
    /\ UNCHANGED <<reader, status, listed, log, manifest, manager, call, client, unkilled>>

Detach(s) ==
    /\ process[s].at = "running" /\ reader[s].at # "dead"
    /\ process' = [process EXCEPT ![s].at = "detached"]
    /\ UNCHANGED <<reader, status, listed, log, manifest, manager, call, client, unkilled>>

Exit(s) ==
    /\ Alive(s)
    /\ process' = [process EXCEPT ![s].at = "exited"]
    /\ UNCHANGED <<reader, status, listed, log, manifest, manager, call, client, unkilled>>

-----------------------------------------------------------------------------
(* The reader thread.                                                         *)

(* wait_readable: output and the end of the terminal are readable; the end    *)
(* may be hidden by a child of the process that keeps the terminal open.      *)
ReaderSelects(s) ==
    /\ reader[s].at = "select"
    /\ \E readable \in BOOLEAN :
        /\ reader[s].taken < process[s].wrote => readable
        /\ process[s].at = "running" /\ reader[s].taken = process[s].wrote => ~readable
        /\ reader' = [reader EXCEPT ![s].at = IF readable THEN "read" ELSE "idle"]
    /\ UNCHANGED <<process, status, listed, log, manifest, manager, call, client, unkilled>>

(* A chunk of what is there; nothing, or EIO, is the end of the terminal.     *)
ReaderReads(s) ==
    /\ reader[s].at = "read"
    /\ IF reader[s].taken < process[s].wrote
         THEN \E upto \in (reader[s].taken + 1)..process[s].wrote :
                reader' = [reader EXCEPT ![s] =
                    [at |-> "append", taken |-> upto, held |-> Bytes(@.taken + 1, upto)]]
         ELSE reader' = [reader EXCEPT ![s].at = "ending"]
    /\ UNCHANGED <<process, status, listed, log, manifest, manager, call, client, unkilled>>

ReaderAppends(s) ==
    /\ reader[s].at = "append"
    /\ log' = [log EXCEPT ![s] = IF @ = NoFile THEN reader[s].held ELSE @ \o reader[s].held]
    /\ reader' = [reader EXCEPT ![s].at = "select", ![s].held = <<>>]
    /\ UNCHANGED <<process, status, listed, manifest, manager, call, client, unkilled>>

(* Mutant: the reader ends on an exit only while output is left.             *)
DoneWhileReadable(s) == ~Alive(s) /\ InFlight(s)

ReaderIsDone(s) == ~Alive(s)

(* Nothing was readable: the reader ends if the process has.                  *)
ReaderPolls(s) ==
    /\ reader[s].at = "idle"
    /\ reader' = [reader EXCEPT ![s].at = IF ReaderIsDone(s) THEN "ending" ELSE "select"]
    /\ UNCHANGED <<process, status, listed, log, manifest, manager, call, client, unkilled>>

(* The terminal or the log fails: reader_error is set and the reader ends.    *)
ReaderFails(s) ==
    /\ reader[s].at \in {"select", "read", "append"}
    /\ reader' = [reader EXCEPT ![s].at = "ending", ![s].held = <<>>]
    /\ UNCHANGED <<process, status, listed, log, manifest, manager, call, client, unkilled>>

(* A process without a reader is terminated by force, if that works.          *)
ReaderTerminates(s) ==
    /\ reader[s].at = "ending"
    /\ reader' = [reader EXCEPT ![s].at = "report"]
    /\ \/ process' = [process EXCEPT ![s].at = "exited"]
       \/ Alive(s) /\ UNCHANGED process
    /\ UNCHANGED <<status, listed, log, manifest, manager, call, client, unkilled>>

ReportedStatus(s) == IF status[s] = "running" THEN "completed" ELSE status[s]

(* Mutant: the reader leaves the manifest as it is.                           *)
ReaderReportsUnsaved(s) ==
    /\ reader[s].at = "report"
    /\ reader' = [reader EXCEPT ![s].at = "dead"]
    /\ status' = [status EXCEPT ![s] = ReportedStatus(s)]
    /\ UNCHANGED <<process, listed, log, manifest, manager, call, client, unkilled>>

ReaderReports(s) ==
    /\ reader[s].at = "report"
    /\ reader' = [reader EXCEPT ![s].at = "dead"]
    /\ status' = [status EXCEPT ![s] = ReportedStatus(s)]
    /\ manifest' = [manifest EXCEPT ![s] = ReportedStatus(s)]
    /\ UNCHANGED <<process, listed, log, manager, call, client, unkilled>>

-----------------------------------------------------------------------------
(* Looking at sessions.                                                       *)

(* The status a look at the session finds: a process that ended is completed  *)
(* here only when no reader is left to say so.                                *)
Refreshed(s) ==
    IF status[s] = "running" /\ ~Alive(s) /\ ~ReaderIsAlive(s)
      THEN "completed" ELSE status[s]

(* _refresh_session_locked, for every session of ss.                          *)
Refresh(ss) ==
    LET changed == {s \in ss : Refreshed(s) # status[s]}
    IN  /\ status' = [s \in Sessions |-> IF s \in ss THEN Refreshed(s) ELSE status[s]]
        /\ manifest' = [s \in Sessions |->
                            IF s \in changed THEN Refreshed(s) ELSE manifest[s]]

Up == manager.at = "up"
Free == manager.lock = Nobody

(* info, inspect_session                                                      *)
Look(s) ==
    /\ Up /\ s \in listed
    /\ Refresh({s})
    /\ UNCHANGED <<process, reader, listed, log, manager, call, client, unkilled>>

ListSessions ==
    /\ Up /\ Free
    /\ Refresh(listed)
    /\ UNCHANGED <<process, reader, listed, log, manager, call, client, unkilled>>

(* Mutant: a character cut by the end of the log is returned.                *)
TrimNothing(raw) == raw

TrimIncomplete(raw) ==
    IF raw # <<>> /\ IsLead(Last(raw)) THEN Front(raw) ELSE raw

(* _read_file_chunk at the client's cursor: what it returns and next_cursor.  *)
Page(s, cursor, max, trim) ==
    IF log[s] = NoFile
      THEN [output |-> <<>>, next |-> cursor]
      ELSE LET size == Len(log[s])
               safe == IF cursor < size THEN cursor ELSE size
               raw  == SubSeq(log[s], safe + 1, IF safe + max < size THEN safe + max ELSE size)
               kept == IF trim \/ size > safe + Len(raw) THEN TrimIncomplete(raw) ELSE raw
           IN  [output |-> kept, next |-> safe + Len(kept)]

(* read_output with the next_cursor of the last poll, for a session listed    *)
(* here or, never trimming, one an earlier Vibe left. Once the log has been   *)
(* rewritten the cursor means nothing and the client is no longer followed.   *)
Poll(s) ==
    /\ Up
    /\ ~client[s].rewritten
    /\ IF s \in listed
         THEN Refresh({s})
         ELSE manager.orphaned[s] # NoFile /\ UNCHANGED <<status, manifest>>
    /\ \E max \in Pages :
        LET running == s \in listed /\ status'[s] = "running"
            page    == Page(s, client[s].cursor, max, running)
        IN  client' = [client EXCEPT ![s].cursor = page.next,
                                     ![s].got = @ \o page.output,
                                     ![s].over = @ \/ ~running]
    /\ UNCHANGED <<process, reader, listed, log, manager, call, unkilled>>

-----------------------------------------------------------------------------
(* Starting a command and waiting for it.                                     *)

(* manager.start, up to the process; the log file is there before it.         *)
Start(c, s, how) ==
    /\ Up
    /\ call[c] = Idle
    /\ log[s] = NoFile /\ process[s].at = "none"
    /\ log' = [log EXCEPT ![s] = <<>>]
    /\ process' = [process EXCEPT ![s].at = "running"]
    /\ call' = [call EXCEPT ![c] = [at |-> "spawned", targets |-> {s}, how |-> how]]
    /\ UNCHANGED <<reader, status, listed, manifest, manager, client, unkilled>>

Register(c) ==
    /\ call[c].at = "spawned"
    /\ Free
    /\ listed' = listed \union call[c].targets
    /\ manifest' = [s \in Sessions |-> IF s \in call[c].targets THEN status[s] ELSE manifest[s]]
    /\ manager' = [manager EXCEPT !.orphaned =
                        [s \in Sessions |-> IF s \in call[c].targets THEN NoFile ELSE @[s]]]
    /\ call' = [call EXCEPT ![c].at = "registered"]
    /\ UNCHANGED <<process, reader, status, log, client, unkilled>>

(* reader.start(): a background command is left alone from here, and so is    *)
(* one whose tool was interrupted while its thread went on.                   *)
StartReader(c) ==
    /\ call[c].at = "registered"
    /\ \E s \in call[c].targets : reader' = [reader EXCEPT ![s].at = "select"]
    /\ call' = [call EXCEPT ![c] = IF call[c].how = "background" THEN Idle
                                   ELSE [@ EXCEPT !.at = "waiting"]]
    /\ UNCHANGED <<process, status, listed, log, manifest, manager, client, unkilled>>

(* wait_for_exit returns: the status is final, or the time is over and the    *)
(* session is left running or killed. Its result is a look at the session.    *)
WaitReturns(c) ==
    /\ call[c].at = "waiting"
    /\ \E s \in call[c].targets :
        \/ /\ status[s] # "running" \/ call[c].how = "soft"
           /\ IF s \in listed THEN Refresh({s}) ELSE UNCHANGED <<status, manifest>>
           /\ call' = [call EXCEPT ![c] = Idle]
        \/ /\ status[s] = "running" /\ call[c].how = "hard"
           /\ IF s \in listed
                THEN /\ status' = [status EXCEPT ![s] = "timed_out"]
                     /\ call' = [call EXCEPT ![c].at = "terminate", ![c].how = "kill"]
                ELSE UNCHANGED status /\ call' = [call EXCEPT ![c] = Idle]
           /\ UNCHANGED manifest
    /\ UNCHANGED <<process, reader, listed, log, manager, client, unkilled>>

-----------------------------------------------------------------------------
(* Killing one session, and all of them.                                      *)

(* kill marks a session that runs; of one that does not it only reports.      *)
Kill(c, s) ==
    /\ Up /\ s \in listed
    /\ call[c] = Idle
    /\ status[s] = "running"
    /\ status' = [status EXCEPT ![s] = "killed"]
    /\ call' = [call EXCEPT ![c] = [at |-> "terminate", targets |-> {s}, how |-> "kill"]]
    /\ UNCHANGED <<process, reader, listed, log, manifest, manager, client, unkilled>>

(* reset takes the lock, keeps it, and marks every session that runs.         *)
ResetMarks(c, how) ==
    LET running == {s \in listed : Refreshed(s) = "running"}
        ended   == {s \in listed : Refreshed(s) # status[s]}
    IN  /\ call[c] = Idle
        /\ Free
        /\ status' = [s \in Sessions |-> IF s \in running THEN "killed"
                                         ELSE IF s \in ended THEN "completed"
                                         ELSE status[s]]
        /\ manifest' = [s \in Sessions |-> IF s \in ended THEN "completed" ELSE manifest[s]]
        /\ call' = [call EXCEPT ![c] = [at |-> "terminate", targets |-> running, how |-> how]]
        /\ UNCHANGED <<process, reader, listed, log, client, unkilled>>

Reset(c, how) ==
    /\ Up
    /\ ResetMarks(c, how)
    /\ manager' = [manager EXCEPT !.lock = c]

(* TerminalRuntime.close: no tool reaches the manager any more, and it is     *)
(* reset.                                                                     *)
CloseRuntime(c) ==
    /\ Up
    /\ ResetMarks(c, "reset")
    /\ manager' = [manager EXCEPT !.at = "closed", !.lock = c]

(* Mutant: reset leaves with the lock.                                       *)
StillLocked(c) == manager

(* The lock of the manager, once the call of c lets go of it.                 *)
Unlocked(c) == [manager EXCEPT !.lock = IF @ = c THEN Nobody ELSE @]

(* _terminate_sessions: what is alive is asked to end, and after the grace    *)
(* forced to. It raises when some process outlives that.                      *)
Terminate(c) ==
    LET live == {s \in call[c].targets : Alive(s)}
    IN  /\ call[c].at = "terminate"
        /\ \E survivors \in SUBSET live :
            /\ process' = [s \in Sessions |-> IF s \in live \ survivors
                                                THEN [process[s] EXCEPT !.at = "exited"]
                                                ELSE process[s]]
            /\ call' = [call EXCEPT ![c].at = IF survivors = {} THEN "join" ELSE "restore"]
        /\ UNCHANGED <<reader, status, listed, log, manifest, manager, client, unkilled>>

(* Mutant: a kill that fails takes its word back of what has ended.          *)
RestorableOnceGone(s) == ~Alive(s)

Restorable(s) == Alive(s)

(* _restore_running_status: a session still alive is found, then becomes      *)
(* running again, and the error goes to the caller.                           *)
FindSurvivors(c) ==
    /\ call[c].at = "restore"
    /\ call' = [call EXCEPT ![c].at = "restoring",
                            ![c].targets = {s \in @ : Restorable(s)}]
    /\ unkilled' = unkilled \union call[c].targets
    /\ UNCHANGED <<process, reader, status, listed, log, manifest, manager, client>>

RestoreRunning(c) ==
    /\ call[c].at = "restoring"
    /\ status' = [s \in Sessions |-> IF s \in call[c].targets THEN "running" ELSE status[s]]
    /\ call' = [call EXCEPT ![c] = Idle]
    /\ manager' = Unlocked(c)
    /\ UNCHANGED <<process, reader, listed, log, manifest, client, unkilled>>

(* The readers are joined, for at most two seconds, and the manifests saved.  *)
KillReturns(c) ==
    /\ call[c].at = "join"
    /\ call[c].how = "kill"
    /\ \E s \in call[c].targets :
        /\ status' = [status EXCEPT ![s] = Refreshed(s)]
        /\ manifest' = [manifest EXCEPT ![s] = Refreshed(s)]
    /\ call' = [call EXCEPT ![c] = Idle]
    /\ UNCHANGED <<process, reader, listed, log, manager, client, unkilled>>

ResetReturns(c) ==
    /\ call[c].at = "join"
    /\ call[c].how = "reset"
    /\ manifest' = [s \in Sessions |-> IF s \in call[c].targets THEN status[s] ELSE manifest[s]]
    /\ call' = [call EXCEPT ![c] = Idle]
    /\ manager' = Unlocked(c)
    /\ UNCHANGED <<process, reader, status, listed, log, client, unkilled>>

Rewritten == [cursor |-> 0, got |-> <<>>, over |-> FALSE, rewritten |-> TRUE]

(* reset(clear_logs=True) also forgets every session and unlinks every file   *)
(* of the directory, those of an earlier Vibe too.                            *)
ResetClears(c) ==
    /\ call[c].at = "join"
    /\ call[c].how = "clear"
    /\ listed' = {}
    /\ log' = [s \in Sessions |-> NoFile]
    /\ manifest' = [s \in Sessions |-> NoFile]
    /\ client' = [s \in Sessions |-> IF log[s] = NoFile THEN client[s] ELSE Rewritten]
    /\ manager' = [Unlocked(c) EXCEPT !.orphaned = [s \in Sessions |-> NoFile]]
    /\ call' = [call EXCEPT ![c] = Idle]
    /\ UNCHANGED <<process, reader, status, unkilled>>

-----------------------------------------------------------------------------
(* Annotating a log.                                                          *)

(* _reject_live_session_log_write, for a log the manager knows of.            *)
WriteAllowed(c, s, how) ==
    /\ Up /\ Free
    /\ call[c] = Idle
    /\ log[s] # NoFile
    /\ s \in listed \/ manager.orphaned[s] # NoFile
    /\ how = "append" => 0 \notin Range(log[s])
    /\ IF s \in listed
         THEN /\ Refresh({s})
              /\ status'[s] # "running"
         ELSE UNCHANGED <<status, manifest>>
    /\ call' = [call EXCEPT ![c] = [at |-> "write", targets |-> {s}, how |-> how]]
    /\ UNCHANGED <<process, reader, listed, log, manager, client, unkilled>>

WriteLog(c) ==
    /\ call[c].at = "write"
    /\ \E s \in call[c].targets :
        /\ log' = [log EXCEPT ![s] = IF call[c].how = "replace" \/ @ = NoFile THEN <<0>>
                                     ELSE Append(@, 0)]
        /\ client' = [client EXCEPT ![s] = Rewritten]
    /\ call' = [call EXCEPT ![c] = Idle]
    /\ UNCHANGED <<process, reader, status, listed, manifest, manager, unkilled>>

-----------------------------------------------------------------------------
(* The life of a Vibe.                                                        *)

(* _load_orphaned_manifests: what runs by its manifest is orphaned.           *)
Orphan(s) == IF manifest[s] = "running" THEN "orphaned" ELSE manifest[s]

Create ==
    /\ manager.at = "off"
    /\ manifest' = [s \in Sessions |-> Orphan(s)]
    /\ manager' = [manager EXCEPT !.at = "up", !.orphaned = [s \in Sessions |-> Orphan(s)]]
    /\ UNCHANGED <<process, reader, status, listed, log, call, client, unkilled>>

(* Vibe ends or crashes, and with it all its threads. The processes of its    *)
(* sessions may go on; what memory knew of them is gone.                      *)
Die ==
    /\ manager.at # "off"
    /\ manager' = [manager EXCEPT !.at = "off", !.lock = Nobody]
    /\ listed' = {}
    /\ reader' = [s \in Sessions |-> IF process[s].at = "none" THEN reader[s]
                                     ELSE [at |-> "dead", taken |-> 0, held |-> <<>>]]
    /\ status' = [s \in Sessions |-> "running"]
    /\ unkilled' = {}
    /\ call' = [c \in Callers |-> Idle]
    /\ UNCHANGED <<process, log, manifest, client>>

-----------------------------------------------------------------------------
ReaderNext(s) ==
    \/ ReaderSelects(s) \/ ReaderReads(s) \/ ReaderAppends(s) \/ ReaderPolls(s)
    \/ ReaderTerminates(s) \/ ReaderReports(s)

CallerNext(c) ==
    \/ Register(c) \/ StartReader(c) \/ WaitReturns(c)
    \/ Terminate(c) \/ FindSurvivors(c) \/ RestoreRunning(c)
    \/ KillReturns(c) \/ ResetReturns(c) \/ ResetClears(c) \/ WriteLog(c)

Next ==
    \/ \E s \in Sessions : \/ Write(s) \/ Detach(s) \/ Exit(s)
                           \/ ReaderNext(s) \/ ReaderFails(s)
                           \/ Look(s) \/ Poll(s)
    \/ \E c \in Callers :
        \/ CallerNext(c) \/ CloseRuntime(c)
        \/ \E how \in {"reset", "clear"} : Reset(c, how)
        \/ \E s \in Sessions :
            \/ Kill(c, s)
            \/ \E how \in {"background", "soft", "hard"} : Start(c, s, how)
            \/ \E how \in {"replace", "append"} : WriteAllowed(c, s, how)
    \/ ListSessions \/ Create \/ Die

(* Threads run on; nothing else need happen.                                  *)
Fairness ==
    /\ \A s \in Sessions : WF_vars(ReaderNext(s))
    /\ \A c \in Callers : WF_vars(CallerNext(c))

Spec == Init /\ [][Next]_vars /\ Fairness

-----------------------------------------------------------------------------
(* Polling with next_cursor neither repeats nor skips a byte of the log, and  *)
(* never cuts a character while every poll was told the session runs.         *)
PollsResume ==
    \A s \in Sessions : ~client[s].rewritten =>
        /\ client[s].cursor = Len(client[s].got)
        /\ client[s].cursor > 0 => client[s].got = SubSeq(log[s], 1, client[s].cursor)
        /\ ~client[s].over => client[s].cursor % 2 = 0

(* A listed session that says it was killed has no process, unless the thread *)
(* that is killing it has not seen to that yet: a kill that fails takes its   *)
(* word back, whatever else is killed, reset or waited for meanwhile.         *)
KilledMeansGone ==
    \A s \in listed : status[s] \in {"killed", "timed_out"} /\ Alive(s) =>
        \E c \in Callers : call[c].at \in {"terminate", "restore", "restoring"}
                               /\ s \in call[c].targets

(* The manifest of a listed session that ended tells a later Vibe how, unless *)
(* a thread is killing it or a kill of it failed: one that fails as the       *)
(* process ends leaves its mark without saving it.                            *)
ManifestTellsTheEnd ==
    \A s \in listed \ unkilled :
        status[s] \in Final
            /\ (\A c \in Callers : s \in call[c].targets => call[c].at \notin Killing)
        => manifest[s] = status[s]

(* A session whose process has ended is in the end reported so by any look.   *)
ExitIsReported ==
    \A s \in Sessions :
        (s \in listed /\ ~Alive(s)) ~> (s \notin listed \/ Refreshed(s) # "running")

=============================================================================
