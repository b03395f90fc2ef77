------------------------- MODULE ManagedShellProofs -------------------------
(* Machine-checked proofs about ManagedShell, for any number of sessions and  *)
(* worker threads and any amount of output.                                   *)
EXTENDS ManagedShell, SequenceTheorems, TLAPS

Starting == {"spawned", "registered", "waiting"}

(* What a call is about tells how far it is, and all but a reset are about    *)
(* one session.                                                               *)
CallsAreWhatTheyAre ==
    \A c \in Callers :
        /\ call[c].at \in Starting => call[c].how \in {"background", "soft", "hard"}
        /\ call[c].at \in Killing => call[c].how \in {"kill", "reset", "clear"}
        /\ call[c].at = "idle" => call[c] = Idle
        /\ call[c].how = "kill" /\ call[c].at \notin {"restoring"}
              => \E s \in Sessions : call[c].targets = {s}
        /\ call[c].at \in Starting \union {"write"}
              => \E s \in Sessions : call[c].targets = {s}

(* The lock is a reset's, and no thread outlives its Vibe.                    *)
LockIsAResets ==
    /\ \A c \in Callers : manager.lock = c =>
          /\ call[c].at \in Killing
          /\ call[c].how \in {"reset", "clear"}
    /\ manager.at = "off" => listed = {} /\ \A c \in Callers : call[c] = Idle

(* A reader took what was written, and holds some of it while it appends.     *)
HoldsWhatItTook(s) ==
    /\ reader[s].taken <= process[s].wrote
    /\ reader[s].held = <<>> <=> reader[s].at # "append"

ReaderHoldsWhatItTook == \A s \in Sessions : HoldsWhatItTook(s)

(* Of a session not started there is no trace.                                *)
NoTraceBeforeStart ==
    \A s \in Sessions : process[s].at = "none" =>
        /\ reader[s].at = "unborn" /\ status[s] = "running" /\ s \notin listed
        /\ log[s] = NoFile /\ manager.orphaned[s] = NoFile /\ manifest[s] = NoFile
        /\ ~client[s].rewritten /\ client[s].cursor = 0
        /\ \A c \in Callers : s \notin call[c].targets

(* A session is its starter's until it is registered, and its reader is not   *)
(* there before that.                                                         *)
StarterIsAlone ==
    /\ \A s \in Sessions : reader[s].at = "unborn" => reader[s].taken = 0
    /\ \A c \in Callers, s \in Sessions :
        s \in call[c].targets /\ call[c].at \in {"spawned", "registered"} =>
            /\ reader[s].at = "unborn"
            /\ \A d \in Callers : s \in call[d].targets
                    /\ call[d].at \in {"spawned", "registered"} => d = c
    /\ \A c \in Callers, s \in Sessions :
        s \in call[c].targets /\ call[c].at = "spawned" =>
            /\ status[s] = "running" /\ s \notin listed /\ manager.orphaned[s] = NoFile
            /\ \A d \in Callers : s \in call[d].targets => d = c

(* A kill that failed has said so.                                            *)
FailureIsNoted ==
    \A c \in Callers : call[c].at = "restoring" => call[c].targets \subseteq unkilled

(* Until it is rewritten, a log is the first bytes of the output, and the     *)
(* reader has the next ones.                                                  *)
LogIsOutput(s) ==
    process[s].at # "none" /\ ~client[s].rewritten =>
        /\ log[s] \in Seq(0..MaxOutput)
        /\ Len(log[s]) <= reader[s].taken \/ reader[s].at = "dead"
        /\ \A i \in 1..Len(log[s]) : log[s][i] = i
        /\ reader[s].at \in {"unborn", "select", "read", "idle"} =>
                reader[s].taken = Len(log[s])
        /\ reader[s].at = "append" =>
                reader[s].held = Bytes(Len(log[s]) + 1, reader[s].taken)

LogIsTheOutput == \A s \in Sessions : LogIsOutput(s)

(* A client that polls has the output up to its cursor, which is in the log.  *)
HasTheLog(s) ==
    ~client[s].rewritten =>
        /\ client[s].cursor = Len(client[s].got)
        /\ client[s].cursor > 0 =>
                process[s].at # "none" /\ client[s].cursor <= Len(log[s])
        /\ \A i \in 1..client[s].cursor : client[s].got[i] = i
        /\ ~client[s].over => client[s].cursor % 2 = 0

ClientHasTheLog == \A s \in Sessions : HasTheLog(s)

Held ==
    /\ CallsAreWhatTheyAre /\ LockIsAResets /\ ReaderHoldsWhatItTook
    /\ NoTraceBeforeStart /\ StarterIsAlone /\ KilledMeansGone
    /\ ManifestTellsTheEnd /\ FailureIsNoted /\ LogIsTheOutput /\ ClientHasTheLog

IInv == Shape /\ Held

(* What a step does to a call, and what a look at sessions does to them.      *)
CallEnds(c) ==
    /\ call'[c] = Idle
    /\ \A d \in Callers : d # c => call'[d] = call[d]

CallGoesOn(c, at, how) ==
    /\ call'[c].at = at /\ call'[c].how = how
    /\ \A d \in Callers : d # c => call'[d] = call[d]

Refreshes(ss) ==
    /\ status' \in Statuses /\ manifest' \in Manifests
    /\ \A t \in Sessions :
        \/ status'[t] = status[t] /\ manifest'[t] = manifest[t]
        \/ /\ t \in ss /\ status[t] = "running" /\ ~Alive(t)
           /\ status'[t] = "completed" /\ manifest'[t] = "completed"

(* A look only finds ended what ended, and saves that.                        *)
LEMMA RefreshRefreshes ==
  ASSUME Shape, NEW ss \in SUBSET Sessions, Refresh(ss)
  PROVE  Refreshes(ss)
BY DEF Shape, Refresh, Refreshed, Refreshes, Statuses, Manifests, Status, Final

(* Processes write and end; the reader's terminal does not change that.       *)
LEMMA ProcessGoesOn ==
  ASSUME Shape, NEW s \in Sessions, Write(s) \/ Detach(s) \/ Exit(s)
  PROVE  /\ process' \in Processes
         /\ \A t \in Sessions :
             /\ process'[t].at = "none" <=> process[t].at = "none"
             /\ process[t].wrote <= process'[t].wrote
             /\ Alive(t)' => Alive(t)
         /\ UNCHANGED <<reader, status, listed, log, manifest, manager, call, client, unkilled>>
<1>1. CASE Write(s)
  BY <1>1, ShellAssumption DEF Write, Shape, Processes, Alive
<1>2. CASE Detach(s)
  BY <1>2, ShellAssumption DEF Detach, Shape, Processes, Alive
<1>3. CASE Exit(s)
  BY <1>3, ShellAssumption DEF Exit, Shape, Processes, Alive
<1> QED
  BY <1>1, <1>2, <1>3

(* A reader that finds nothing to append.                                     *)
LEMMA ReaderTurns ==
  ASSUME Shape, NEW s \in Sessions, ReaderSelects(s) \/ ReaderPolls(s) \/ ReaderFails(s)
  PROVE  /\ reader' \in Readers
         /\ \A t \in Sessions : t # s => reader'[t] = reader[t]
         /\ reader[s].at \in {"select", "idle", "read", "append"}
         /\ \/ reader'[s].at = "ending" /\ reader'[s].held = <<>>
            \/ /\ reader[s].at \in {"select", "idle"} /\ reader'[s].held = reader[s].held
               /\ reader'[s].at \in {"select", "idle", "read", "ending"}
         /\ reader'[s].taken = reader[s].taken
         /\ UNCHANGED <<process, status, listed, log, manifest, manager, call, client, unkilled>>
<1>1. CASE ReaderSelects(s)
  <2>1. PICK at \in {"read", "idle"} : reader' = [reader EXCEPT ![s].at = at]
    BY <1>1 DEF ReaderSelects
  <2>2. reader \in Readers
    BY DEF Shape
  <2>3. /\ reader' \in Readers /\ reader'[s].at = at
        /\ reader'[s].held = reader[s].held /\ reader'[s].taken = reader[s].taken
        /\ \A t \in Sessions : t # s => reader'[t] = reader[t]
    BY <2>1, <2>2 DEF Readers
  <2> QED
    BY <1>1, <2>3 DEF ReaderSelects
<1>2. CASE ReaderPolls(s)
  BY <1>2 DEF ReaderPolls, Shape, Readers
<1>3. CASE ReaderFails(s)
  BY <1>3, EmptySeq DEF ReaderFails, Shape, Readers
<1> QED
  BY <1>1, <1>2, <1>3

(* The bytes after one byte of the output and up to another.                  *)
LEMMA BytesProperties ==
  ASSUME NEW from \in Nat, NEW to \in Nat, 0 < from, to <= MaxOutput
  PROVE  /\ Bytes(from, to) \in Seq(0..MaxOutput)
         /\ Len(Bytes(from, to)) = IF from <= to THEN to - from + 1 ELSE 0
         /\ \A i \in 1..(to - from + 1) : Bytes(from, to)[i] = from + i - 1
         /\ from <= to => Bytes(from, to) # <<>>
<1>1. DEFINE n == IF from <= to THEN to - from + 1 ELSE 0
<1>2. n \in Nat /\ 1..(to - from + 1) = 1..n
  OBVIOUS
<1>3. Bytes(from, to) \in [1..n -> 0..MaxOutput]
  BY <1>2, ShellAssumption DEF Bytes
<1>4. Bytes(from, to) \in Seq(0..MaxOutput) /\ Len(Bytes(from, to)) = n
  <2>1. Bytes(from, to) \in Seq(0..MaxOutput)
    <3>1. ASSUME NEW S, NEW k \in Nat, NEW f \in [1..k -> S] PROVE f \in Seq(S)
      BY SeqDef
    <3> HIDE DEF n
    <3> QED
      BY <1>2, <1>3, <3>1, Zenon
  <2>2. DOMAIN Bytes(from, to) = 1..n
    BY <1>2 DEF Bytes
  <2> HIDE DEF n
  <2> QED
    BY <1>2, <2>1, <2>2, LenProperties
<1>5. \A i \in 1..(to - from + 1) : Bytes(from, to)[i] = from + i - 1
  BY DEF Bytes
<1>6. from <= to => Bytes(from, to) # <<>>
  BY <1>4, EmptySeq
<1> QED
  BY <1>4, <1>5, <1>6

(* A reader takes the next bytes of what was written.                         *)
LEMMA ReaderTakes ==
  ASSUME Shape, ReaderHoldsWhatItTook, NEW s \in Sessions, ReaderReads(s)
  PROVE  /\ reader' \in Readers
         /\ \A t \in Sessions : t # s => reader'[t] = reader[t]
         /\ reader[s].at = "read"
         /\ \/ /\ reader'[s].at = "ending"
               /\ reader'[s].taken = reader[s].taken /\ reader'[s].held = reader[s].held
            \/ /\ reader'[s].at = "append"
               /\ reader'[s].taken > reader[s].taken
               /\ reader'[s].taken <= process[s].wrote
               /\ reader'[s].held # <<>>
               /\ reader'[s].held = Bytes(reader[s].taken + 1, reader'[s].taken)
         /\ UNCHANGED <<process, status, listed, log, manifest, manager, call, client, unkilled>>
<1>1. /\ reader[s].at = "read"
      /\ UNCHANGED <<process, status, listed, log, manifest, manager, call, client, unkilled>>
  BY DEF ReaderReads
<1>2. CASE reader[s].taken < process[s].wrote
  <2>1. PICK upto \in (reader[s].taken + 1)..process[s].wrote :
            reader' = [reader EXCEPT ![s] =
                [at |-> "append", taken |-> upto, held |-> Bytes(@.taken + 1, upto)]]
    BY <1>2 DEF ReaderReads
  <2>2. /\ reader[s].taken + 1 \in Nat /\ upto \in Nat /\ 0 < reader[s].taken + 1
        /\ reader[s].taken + 1 <= upto /\ upto <= MaxOutput
    BY <2>1, ShellAssumption DEF Shape, Readers, Processes
  <2>3. /\ Bytes(reader[s].taken + 1, upto) \in Seq(0..MaxOutput)
        /\ Bytes(reader[s].taken + 1, upto) # <<>>
    BY <2>2, BytesProperties, Zenon
  <2> QED
    BY <1>1, <2>1, <2>2, <2>3 DEF Shape, Readers
<1>3. CASE ~(reader[s].taken < process[s].wrote)
  BY <1>1, <1>3 DEF ReaderReads, Shape, Readers
<1> QED
  BY <1>2, <1>3

(* A reader appends what it holds.                                            *)
LEMMA ReaderWrites ==
  ASSUME Shape, NEW s \in Sessions, ReaderAppends(s)
  PROVE  /\ reader' \in Readers /\ log' \in Logs
         /\ \A t \in Sessions : t # s => reader'[t] = reader[t] /\ log'[t] = log[t]
         /\ reader[s].at = "append" /\ reader'[s].at = "select"
         /\ reader'[s].held = <<>> /\ reader'[s].taken = reader[s].taken
         /\ log'[s] = IF log[s] = NoFile THEN reader[s].held ELSE log[s] \o reader[s].held
         /\ UNCHANGED <<process, status, listed, manifest, manager, call, client, unkilled>>
<1>1. reader' \in Readers
  BY EmptySeq DEF ReaderAppends, Shape, Readers
<1>2. log' \in Logs
  BY ConcatProperties DEF ReaderAppends, Shape, Readers, Logs
<1> QED
  BY <1>1, <1>2 DEF ReaderAppends, Shape, Readers, Logs

(* A reader that ends terminates what it reads from.                          *)
LEMMA ReaderEnds ==
  ASSUME Shape, NEW s \in Sessions, ReaderTerminates(s)
  PROVE  /\ process' \in Processes /\ reader' \in Readers
         /\ \A t \in Sessions :
             /\ t # s => reader'[t] = reader[t]
             /\ process'[t].wrote = process[t].wrote
             /\ process'[t].at = process[t].at \/ (t = s /\ process'[t].at = "exited")
         /\ reader[s].at = "ending" /\ reader'[s].at = "report"
         /\ reader'[s].held = reader[s].held /\ reader'[s].taken = reader[s].taken
         /\ UNCHANGED <<status, listed, log, manifest, manager, call, client, unkilled>>
<1>1. /\ reader' \in Readers
      /\ \A t \in Sessions : t # s => reader'[t] = reader[t]
      /\ reader[s].at = "ending" /\ reader'[s].at = "report"
      /\ reader'[s].held = reader[s].held /\ reader'[s].taken = reader[s].taken
  BY DEF ReaderTerminates, Shape, Readers
<1>2. /\ process' \in Processes
      /\ \A t \in Sessions :
             /\ process'[t].wrote = process[t].wrote
             /\ process'[t].at = process[t].at \/ (t = s /\ process'[t].at = "exited")
  BY DEF ReaderTerminates, Shape, Processes
<1> QED
  BY <1>1, <1>2 DEF ReaderTerminates

(* A reader's last step saves how the session ended.                          *)
LEMMA ReaderSays ==
  ASSUME Shape, NEW s \in Sessions, ReaderReports(s)
  PROVE  /\ reader' \in Readers /\ status' \in Statuses /\ manifest' \in Manifests
         /\ \A t \in Sessions : t # s =>
             reader'[t] = reader[t] /\ status'[t] = status[t] /\ manifest'[t] = manifest[t]
         /\ reader[s].at = "report" /\ reader'[s].at = "dead"
         /\ reader'[s].held = reader[s].held /\ reader'[s].taken = reader[s].taken
         /\ status'[s] = IF status[s] = "running" THEN "completed" ELSE status[s]
         /\ manifest'[s] = status'[s]
         /\ UNCHANGED <<process, listed, log, manager, call, client, unkilled>>
BY DEF ReaderReports, ReportedStatus, Shape, Readers, Statuses, Manifests,
   Status, Final

(* Looking at sessions only refreshes them.                                   *)
LEMMA LooksRefresh ==
  ASSUME Shape, ListSessions \/ \E s \in Sessions : Look(s)
  PROVE  /\ Refreshes(listed)
         /\ UNCHANGED <<process, reader, listed, log, manager, call, client, unkilled>>
<1>1. ASSUME NEW s \in Sessions, Look(s) PROVE Refreshes({s}) /\ s \in listed
  BY <1>1, RefreshRefreshes DEF Look
<1>2. CASE ListSessions
  BY <1>2, RefreshRefreshes DEF ListSessions, Shape
<1> QED
  BY <1>1, <1>2 DEF Look, ListSessions, Refreshes

(* A registered session is listed and has a manifest.                         *)
LEMMA Registers ==
  ASSUME Shape, NEW c \in Callers, Register(c)
  PROVE  /\ call' \in Calls /\ manifest' \in Manifests /\ manager' \in Managers
         /\ call[c].at = "spawned" /\ CallGoesOn(c, "registered", call[c].how)
         /\ call'[c].targets = call[c].targets
         /\ listed' = listed \union call[c].targets
         /\ \A t \in Sessions :
             /\ manifest'[t] = IF t \in call[c].targets THEN status[t] ELSE manifest[t]
             /\ manager'.orphaned[t] =
                    IF t \in call[c].targets THEN NoFile ELSE manager.orphaned[t]
         /\ manager'.lock = manager.lock /\ manager'.at = manager.at
         /\ UNCHANGED <<process, reader, status, log, client, unkilled>>
<1>1. /\ call' \in Calls /\ call[c].at = "spawned" /\ CallGoesOn(c, "registered", call[c].how)
      /\ call'[c].targets = call[c].targets
  BY DEF Register, Shape, Calls, CallGoesOn
<1>2. /\ manifest' \in Manifests
      /\ \A t \in Sessions :
            manifest'[t] = IF t \in call[c].targets THEN status[t] ELSE manifest[t]
  BY DEF Register, Shape, Manifests, Statuses
<1>3. /\ manager' \in Managers
      /\ manager'.lock = manager.lock /\ manager'.at = manager.at
      /\ \A t \in Sessions : manager'.orphaned[t] =
                    IF t \in call[c].targets THEN NoFile ELSE manager.orphaned[t]
  BY DEF Register, Shape, Managers, Orphans
<1> QED
  BY <1>1, <1>2, <1>3 DEF Register

(* A reader that starts has taken nothing yet.                                *)
LEMMA ReaderStarts ==
  ASSUME Shape, NEW c \in Callers, StartReader(c)
  PROVE  /\ reader' \in Readers /\ call' \in Calls
         /\ call[c].at = "registered"
         /\ CallEnds(c) \/ CallGoesOn(c, "waiting", call[c].how)
         /\ call'[c].targets \subseteq call[c].targets
         /\ call'[c].at = "waiting" => call'[c].targets = call[c].targets
         /\ \E s \in call[c].targets :
             /\ s \in Sessions /\ reader'[s].at = "select"
             /\ reader'[s].held = reader[s].held /\ reader'[s].taken = reader[s].taken
             /\ \A t \in Sessions : t # s => reader'[t] = reader[t]
         /\ UNCHANGED <<process, status, listed, log, manifest, manager, client, unkilled>>
<1>1. /\ reader' \in Readers
      /\ \E s \in call[c].targets :
             /\ s \in Sessions /\ reader'[s].at = "select"
             /\ reader'[s].held = reader[s].held /\ reader'[s].taken = reader[s].taken
             /\ \A t \in Sessions : t # s => reader'[t] = reader[t]
  <2>1. PICK s \in call[c].targets : reader' = [reader EXCEPT ![s].at = "select"]
    BY DEF StartReader
  <2>2. s \in Sessions
    BY DEF Shape, Calls
  <2>3. /\ reader' \in Readers /\ reader'[s].at = "select"
        /\ reader'[s].held = reader[s].held /\ reader'[s].taken = reader[s].taken
        /\ \A t \in Sessions : t # s => reader'[t] = reader[t]
    BY <2>1, <2>2 DEF Shape, Readers
  <2> QED
    BY <2>2, <2>3
<1>2. /\ call' \in Calls
      /\ CallEnds(c) \/ CallGoesOn(c, "waiting", call[c].how)
      /\ call'[c].targets \subseteq call[c].targets
      /\ call'[c].at = "waiting" => call'[c].targets = call[c].targets
  BY DEF StartReader, Shape, Calls, CallEnds, CallGoesOn, Idle
<1> QED
  BY <1>1, <1>2 DEF StartReader

(* A wait that is over looks at its session, or sets out to kill it.          *)
LEMMA WaitIsOver ==
  ASSUME Shape, CallsAreWhatTheyAre, NEW c \in Callers, WaitReturns(c)
  PROVE  /\ call' \in Calls /\ call[c].at = "waiting"
         /\ \E s \in Sessions :
             /\ call[c].targets = {s}
             /\ \/ CallEnds(c) /\ Refreshes(listed)
                \/ /\ CallGoesOn(c, "terminate", "kill") /\ call'[c].targets = {s}
                   /\ s \in listed /\ status[s] = "running" /\ status'[s] = "timed_out"
                   /\ status' \in Statuses
                   /\ \A t \in Sessions : t # s => status'[t] = status[t]
                   /\ manifest' = manifest
         /\ UNCHANGED <<process, reader, listed, log, manager, client, unkilled>>
<1>1. PICK s \in Sessions : call[c].targets = {s}
  BY DEF WaitReturns, CallsAreWhatTheyAre, Starting
<1>2. /\ call[c].at = "waiting"
      /\ UNCHANGED <<process, reader, listed, log, manager, client, unkilled>>
  BY DEF WaitReturns
<1>3. ASSUME call' = [call EXCEPT ![c] = Idle] PROVE call' \in Calls /\ CallEnds(c)
  BY <1>3 DEF Shape, Calls, CallEnds, Idle
<1>4. Refreshes(listed) \/ ~UNCHANGED <<status, manifest>>
  BY DEF Shape, Refreshes
<1>5. CASE /\ status[s] # "running" \/ call[c].how = "soft"
           /\ IF s \in listed THEN Refresh({s}) ELSE UNCHANGED <<status, manifest>>
           /\ call' = [call EXCEPT ![c] = Idle]
  <2>1. CASE s \in listed
    <3>1. Refreshes({s})
      BY <1>5, <2>1, RefreshRefreshes
    <3> QED
      BY <1>1, <1>2, <1>3, <1>5, <2>1, <3>1 DEF Refreshes
  <2>2. CASE s \notin listed
    BY <1>1, <1>2, <1>3, <1>4, <1>5, <2>2
  <2> QED
    BY <2>1, <2>2
<1>6. CASE /\ status[s] = "running" /\ call[c].how = "hard"
           /\ IF s \in listed
                THEN /\ status' = [status EXCEPT ![s] = "timed_out"]
                     /\ call' = [call EXCEPT ![c].at = "terminate", ![c].how = "kill"]
                ELSE UNCHANGED status /\ call' = [call EXCEPT ![c] = Idle]
           /\ UNCHANGED manifest
  <2>1. CASE s \in listed
    <3>1. /\ call' \in Calls /\ CallGoesOn(c, "terminate", "kill")
          /\ call'[c].targets = {s}
      BY <1>1, <1>6, <2>1 DEF Shape, Calls, CallGoesOn
    <3>2. /\ status' \in Statuses /\ status'[s] = "timed_out"
          /\ \A t \in Sessions : t # s => status'[t] = status[t]
      BY <1>6, <2>1 DEF Shape, Statuses, Status, Final
    <3> QED
      BY <1>1, <1>2, <1>6, <2>1, <3>1, <3>2
  <2>2. CASE s \notin listed
    BY <1>1, <1>2, <1>3, <1>4, <1>6, <2>2
  <2> QED
    BY <2>1, <2>2
<1> QED
  BY <1>1, <1>5, <1>6 DEF WaitReturns

(* Only targets are ended, and all of them if the call goes on to join.       *)
LEMMA Terminates ==
  ASSUME Shape, NEW c \in Callers, Terminate(c)
  PROVE  /\ process' \in Processes /\ call' \in Calls
         /\ \A t \in Sessions :
             /\ process'[t].wrote = process[t].wrote
             /\ \/ process'[t].at = process[t].at
                \/ t \in call[c].targets /\ Alive(t) /\ process'[t].at = "exited"
         /\ call[c].at = "terminate" /\ call'[c].targets = call[c].targets
         /\ \/ CallGoesOn(c, "restore", call[c].how)
            \/ /\ CallGoesOn(c, "join", call[c].how)
               /\ \A t \in call[c].targets : ~Alive(t)'
         /\ UNCHANGED <<reader, status, listed, log, manifest, manager, client, unkilled>>
<1>1. PICK survivors \in SUBSET {s \in call[c].targets : Alive(s)} :
            /\ process' = [s \in Sessions |->
                  IF s \in {t \in call[c].targets : Alive(t)} \ survivors
                    THEN [process[s] EXCEPT !.at = "exited"] ELSE process[s]]
            /\ call' = [call EXCEPT ![c].at = IF survivors = {} THEN "join" ELSE "restore"]
  BY DEF Terminate
<1>2. /\ process' \in Processes
      /\ \A t \in Sessions :
             /\ process'[t].wrote = process[t].wrote
             /\ \/ process'[t].at = process[t].at
                \/ t \in call[c].targets /\ Alive(t) /\ process'[t].at = "exited"
             /\ survivors = {} /\ t \in call[c].targets => ~Alive(t)'
  BY <1>1 DEF Shape, Processes, Alive
<1>3. /\ call' \in Calls /\ call'[c].targets = call[c].targets
      /\ CallGoesOn(c, IF survivors = {} THEN "join" ELSE "restore", call[c].how)
  BY <1>1 DEF Shape, Calls, CallGoesOn
<1>4. call[c].targets \subseteq Sessions
  BY DEF Shape, Calls
<1> QED
  BY <1>2, <1>3, <1>4 DEF Terminate

(* What survives stays a target, and every target is noted.                   *)
LEMMA FindsSurvivors ==
  ASSUME Shape, NEW c \in Callers, FindSurvivors(c)
  PROVE  /\ call' \in Calls /\ unkilled' \subseteq Sessions
         /\ call[c].at = "restore" /\ CallGoesOn(c, "restoring", call[c].how)
         /\ \A t \in Sessions : t \in call'[c].targets <=> t \in call[c].targets /\ Alive(t)
         /\ unkilled' = unkilled \union call[c].targets
         /\ UNCHANGED <<process, reader, status, listed, log, manifest, manager, client>>
<1> DEFINE alive == {t \in call[c].targets : Alive(t)}
<1>1. call' = [call EXCEPT ![c].at = "restoring", ![c].targets = alive]
  BY DEF FindSurvivors, Restorable
<1>2. alive \in SUBSET Sessions /\ call[c].targets \in SUBSET Sessions
  BY DEF Shape, Calls
<1> HIDE DEF alive
<1>3. call' \in Calls /\ CallGoesOn(c, "restoring", call[c].how) /\ call'[c].targets = alive
  BY <1>1, <1>2 DEF Shape, Calls, CallGoesOn
<1> QED
  BY <1>2, <1>3 DEF FindSurvivors, Shape, alive

(* A call lets go of the lock only if it has it.                              *)
LEMMA UnlockedManager ==
  ASSUME Shape, NEW c \in Callers
  PROVE  /\ Unlocked(c) \in Managers /\ Unlocked(c).at = manager.at
         /\ Unlocked(c).lock = IF manager.lock = c THEN Nobody ELSE manager.lock
         /\ Unlocked(c).orphaned = manager.orphaned
BY DEF Shape, Managers, Unlocked

(* The survivors of a kill run again.                                         *)
LEMMA RestoresRunning ==
  ASSUME Shape, NEW c \in Callers, RestoreRunning(c)
  PROVE  /\ call' \in Calls /\ status' \in Statuses /\ manager' \in Managers
         /\ call[c].at = "restoring" /\ CallEnds(c)
         /\ \A t \in Sessions :
                status'[t] = IF t \in call[c].targets THEN "running" ELSE status[t]
         /\ manager'.at = manager.at /\ manager'.orphaned = manager.orphaned
         /\ manager'.lock = IF manager.lock = c THEN Nobody ELSE manager.lock
         /\ UNCHANGED <<process, reader, listed, log, manifest, client, unkilled>>
<1>1. call' \in Calls /\ call[c].at = "restoring" /\ CallEnds(c)
  BY DEF RestoreRunning, Shape, Calls, CallEnds, Idle
<1>2. /\ status' \in Statuses
      /\ \A t \in Sessions :
                status'[t] = IF t \in call[c].targets THEN "running" ELSE status[t]
  BY DEF RestoreRunning, Shape, Statuses, Status
<1> QED
  BY <1>1, <1>2, UnlockedManager DEF RestoreRunning

(* A kill that worked saves the status of its session.                        *)
LEMMA KillIsOver ==
  ASSUME Shape, CallsAreWhatTheyAre, NEW c \in Callers, KillReturns(c)
  PROVE  /\ call' \in Calls /\ status' \in Statuses /\ manifest' \in Manifests
         /\ call[c].at = "join" /\ call[c].how = "kill" /\ CallEnds(c)
         /\ \E s \in Sessions :
             /\ call[c].targets = {s}
             /\ manifest'[s] = status'[s]
             /\ \/ status'[s] = status[s]
                \/ status'[s] = "completed" /\ status[s] = "running" /\ ~Alive(s)
             /\ \A t \in Sessions : t # s =>
                    status'[t] = status[t] /\ manifest'[t] = manifest[t]
         /\ UNCHANGED <<process, reader, listed, log, manager, client, unkilled>>
<1>1. call' \in Calls /\ call[c].at = "join" /\ call[c].how = "kill" /\ CallEnds(c)
  BY DEF KillReturns, Shape, Calls, CallEnds, Idle
<1>2. PICK s \in Sessions : call[c].targets = {s}
  BY <1>1 DEF CallsAreWhatTheyAre
<1>3. /\ status' = [status EXCEPT ![s] = Refreshed(s)]
      /\ manifest' = [manifest EXCEPT ![s] = Refreshed(s)]
  BY <1>2 DEF KillReturns
<1>4. \/ Refreshed(s) = status[s]
      \/ Refreshed(s) = "completed" /\ status[s] = "running" /\ ~Alive(s)
  BY DEF Refreshed
<1>5. Refreshed(s) \in Status
  BY <1>4 DEF Shape, Statuses, Status, Final
<1>6. /\ status' \in Statuses /\ manifest' \in Manifests
      /\ status'[s] = Refreshed(s) /\ manifest'[s] = Refreshed(s)
      /\ \A t \in Sessions : t # s =>
                    status'[t] = status[t] /\ manifest'[t] = manifest[t]
  BY <1>3, <1>5 DEF Shape, Statuses, Manifests
<1> QED
  BY <1>1, <1>2, <1>4, <1>6 DEF KillReturns

(* A reset that worked saves the status of its sessions.                      *)
LEMMA ResetIsOver ==
  ASSUME Shape, NEW c \in Callers, ResetReturns(c)
  PROVE  /\ call' \in Calls /\ manifest' \in Manifests /\ manager' \in Managers
         /\ call[c].at = "join" /\ CallEnds(c)
         /\ \A t \in Sessions :
                manifest'[t] = IF t \in call[c].targets THEN status[t] ELSE manifest[t]
         /\ manager'.at = manager.at /\ manager'.orphaned = manager.orphaned
         /\ manager'.lock = IF manager.lock = c THEN Nobody ELSE manager.lock
         /\ UNCHANGED <<process, reader, status, listed, log, client, unkilled>>
<1>1. call' \in Calls /\ call[c].at = "join" /\ CallEnds(c)
  BY DEF ResetReturns, Shape, Calls, CallEnds, Idle
<1>2. /\ manifest' \in Manifests
      /\ \A t \in Sessions :
                manifest'[t] = IF t \in call[c].targets THEN status[t] ELSE manifest[t]
  BY DEF ResetReturns, Shape, Manifests, Statuses
<1> QED
  BY <1>1, <1>2, UnlockedManager DEF ResetReturns

(* A reset that clears leaves no log, no manifest and no client.              *)
LEMMA ResetClearsAll ==
  ASSUME Shape, NEW c \in Callers, ResetClears(c)
  PROVE  /\ call' \in Calls /\ manifest' \in Manifests /\ manager' \in Managers
         /\ log' \in Logs /\ client' \in Clients /\ listed' = {}
         /\ call[c].at = "join" /\ CallEnds(c)
         /\ \A t \in Sessions :
             /\ log'[t] = NoFile /\ manifest'[t] = NoFile /\ manager'.orphaned[t] = NoFile
             /\ \/ client'[t] = Rewritten
                \/ client'[t] = client[t] /\ log[t] = NoFile
             /\ log[t] = NoFile => client'[t] = client[t]
         /\ manager'.at = manager.at
         /\ manager'.lock = IF manager.lock = c THEN Nobody ELSE manager.lock
         /\ UNCHANGED <<process, reader, status, unkilled>>
<1>1. call' \in Calls /\ call[c].at = "join" /\ CallEnds(c)
  BY DEF ResetClears, Shape, Calls, CallEnds, Idle
<1>2. /\ manager' \in Managers /\ manager'.at = manager.at
      /\ manager'.lock = IF manager.lock = c THEN Nobody ELSE manager.lock
      /\ \A t \in Sessions : manager'.orphaned[t] = NoFile
  <2>1. manager' = [Unlocked(c) EXCEPT !.orphaned = [s \in Sessions |-> NoFile]]
    BY DEF ResetClears
  <2>2. [s \in Sessions |-> NoFile] \in Orphans
    BY DEF Orphans
  <2> QED
    BY <2>1, <2>2, UnlockedManager DEF Managers
<1>3. /\ log' \in Logs /\ manifest' \in Manifests
      /\ \A t \in Sessions : log'[t] = NoFile /\ manifest'[t] = NoFile
  BY DEF ResetClears, Logs, Manifests
<1>4. Rewritten \in [cursor : Nat, got : Seq(0..MaxOutput), over : BOOLEAN, rewritten : BOOLEAN]
  BY EmptySeq DEF Rewritten
<1>5. /\ client' \in Clients
      /\ \A t \in Sessions : client'[t] = IF log[t] = NoFile THEN client[t] ELSE Rewritten
  BY <1>4 DEF ResetClears, Shape, Clients
<1> QED
  BY <1>1, <1>2, <1>3, <1>5 DEF ResetClears

(* An annotation changes one log, which its client no longer follows.         *)
LEMMA LogIsWritten ==
  ASSUME Shape, NEW c \in Callers, WriteLog(c)
  PROVE  /\ call' \in Calls /\ log' \in Logs /\ client' \in Clients
         /\ call[c].at = "write" /\ CallEnds(c)
         /\ \E s \in call[c].targets :
             /\ s \in Sessions /\ client'[s] = Rewritten
             /\ \A t \in Sessions : t # s => client'[t] = client[t] /\ log'[t] = log[t]
         /\ UNCHANGED <<process, reader, status, listed, manifest, manager, unkilled>>
<1>1. call' \in Calls /\ call[c].at = "write" /\ CallEnds(c)
  BY DEF WriteLog, Shape, Calls, CallEnds, Idle
<1>2. PICK s \in call[c].targets :
        /\ log' = [log EXCEPT ![s] = IF call[c].how = "replace" \/ @ = NoFile THEN <<0>>
                                     ELSE Append(@, 0)]
        /\ client' = [client EXCEPT ![s] = Rewritten]
  BY DEF WriteLog
<1>3. s \in Sessions
  BY DEF Shape, Calls
<1>4. Rewritten \in [cursor : Nat, got : Seq(0..MaxOutput), over : BOOLEAN, rewritten : BOOLEAN]
  BY EmptySeq DEF Rewritten
<1>5. /\ client' \in Clients /\ client'[s] = Rewritten
      /\ \A t \in Sessions : t # s => client'[t] = client[t]
  BY <1>2, <1>3, <1>4 DEF Shape, Clients
<1>6. /\ log' \in Logs
      /\ \A t \in Sessions : t # s => log'[t] = log[t]
  <2> DEFINE new == IF call[c].how = "replace" \/ log[s] = NoFile THEN <<0>>
                    ELSE Append(log[s], 0)
  <2>1. 0 \in 0..MaxOutput
    BY ShellAssumption
  <2>2. new \in Seq(0..MaxOutput)
    <3>1. <<0>> \in Seq(0..MaxOutput)
      BY <2>1
    <3>2. log[s] = NoFile \/ Append(log[s], 0) \in Seq(0..MaxOutput)
      BY <1>3, <2>1, AppendProperties DEF Shape, Logs
    <3> QED
      BY <3>1, <3>2
  <2>3. log' = [log EXCEPT ![s] = new]
    BY <1>2
  <2> HIDE DEF new
  <2> QED
    BY <1>3, <2>2, <2>3 DEF Shape, Logs
<1> QED
  BY <1>1, <1>2, <1>3, <1>5, <1>6 DEF WriteLog

(* A reset marks what runs and notices what ended.                            *)
LEMMA ResetMarksWhatRuns ==
  ASSUME Shape, NEW c \in Callers,
         \/ CloseRuntime(c)
         \/ \E how \in {"reset", "clear"} : Reset(c, how)
  PROVE  /\ call' \in Calls /\ status' \in Statuses /\ manifest' \in Manifests
         /\ manager' \in Managers
         /\ manager.lock = Nobody /\ manager'.lock = c /\ call[c] = Idle
         /\ manager.at = "up" /\ manager'.at # "off"
         /\ manager'.orphaned = manager.orphaned
         /\ \E how \in {"reset", "clear"} : CallGoesOn(c, "terminate", how)
         /\ call'[c].targets \subseteq listed
         /\ \A t \in Sessions :
             \/ /\ status'[t] = status[t] /\ manifest'[t] = manifest[t]
                /\ t \notin call'[c].targets
             \/ /\ t \in call'[c].targets /\ status[t] = "running"
                /\ status'[t] = "killed" /\ manifest'[t] = manifest[t]
             \/ /\ t \in listed /\ t \notin call'[c].targets /\ status[t] = "running"
                /\ status'[t] = "completed" /\ manifest'[t] = "completed"
         /\ UNCHANGED <<process, reader, listed, log, client, unkilled>>
<1>1. PICK how \in {"reset", "clear"} : ResetMarks(c, how)
  BY DEF CloseRuntime, Reset
<1> DEFINE running == {s \in listed : Refreshed(s) = "running"}
           ended   == {s \in listed : Refreshed(s) # status[s]}
<1>2. /\ status' = [s \in Sessions |-> IF s \in running THEN "killed"
                                       ELSE IF s \in ended THEN "completed"
                                       ELSE status[s]]
      /\ manifest' = [s \in Sessions |-> IF s \in ended THEN "completed" ELSE manifest[s]]
      /\ call' = [call EXCEPT ![c] = [at |-> "terminate", targets |-> running, how |-> how]]
      /\ call[c] = Idle /\ Free
      /\ UNCHANGED <<process, reader, listed, log, client, unkilled>>
  BY <1>1 DEF ResetMarks
<1>3. running \subseteq listed /\ listed \subseteq Sessions
  BY DEF Shape
<1>4. \A s \in Sessions : /\ s \in ended => /\ status[s] = "running"
                                            /\ s \notin running /\ s \in listed
                          /\ s \in running => status[s] = "running"
  BY DEF Refreshed
<1> HIDE DEF running, ended
<1>5. /\ status' \in Statuses /\ manifest' \in Manifests
      /\ \A t \in Sessions :
             /\ status'[t] = IF t \in running THEN "killed"
                             ELSE IF t \in ended THEN "completed" ELSE status[t]
             /\ manifest'[t] = IF t \in ended THEN "completed" ELSE manifest[t]
  BY <1>2 DEF Shape, Statuses, Manifests, Status, Final
<1>6. /\ call' \in Calls /\ CallGoesOn(c, "terminate", how) /\ call'[c].targets = running
  BY <1>2, <1>3 DEF Shape, Calls, CallGoesOn
<1>7. /\ manager' \in Managers /\ manager'.lock = c /\ manager'.at # "off"
      /\ manager'.orphaned = manager.orphaned /\ manager.at = "up"
  BY DEF CloseRuntime, Reset, Up, Shape, Managers
<1> QED
  BY <1>2, <1>3, <1>4, <1>5, <1>6, <1>7 DEF Free

(* A kill marks one running session.                                          *)
LEMMA KillMarks ==
  ASSUME Shape, NEW c \in Callers, NEW s \in Sessions, Kill(c, s)
  PROVE  /\ call' \in Calls /\ status' \in Statuses
         /\ call[c] = Idle /\ manager.at = "up" /\ s \in listed
         /\ CallGoesOn(c, "terminate", "kill") /\ call'[c].targets = {s}
         /\ status[s] = "running" /\ status'[s] = "killed"
         /\ \A t \in Sessions : t # s => status'[t] = status[t]
         /\ UNCHANGED <<process, reader, listed, log, manifest, manager, client, unkilled>>
<1>1. /\ call' \in Calls /\ CallGoesOn(c, "terminate", "kill") /\ call'[c].targets = {s}
  BY DEF Kill, Shape, Calls, CallGoesOn
<1>2. /\ status' \in Statuses /\ status'[s] = "killed"
      /\ \A t \in Sessions : t # s => status'[t] = status[t]
  BY DEF Kill, Shape, Statuses, Status, Final
<1> QED
  BY <1>1, <1>2 DEF Kill, Up

(* A process starts, on an empty log, for a call that tells nobody yet.       *)
LEMMA Starts ==
  ASSUME Shape, NEW c \in Callers, NEW s \in Sessions,
         NEW how \in {"background", "soft", "hard"}, Start(c, s, how)
  PROVE  /\ process' \in Processes /\ log' \in Logs /\ call' \in Calls
         /\ process[s].at = "none" /\ process'[s].at = "running"
         /\ process'[s].wrote = process[s].wrote /\ log'[s] = <<>>
         /\ \A t \in Sessions : t # s => process'[t] = process[t] /\ log'[t] = log[t]
         /\ call[c] = Idle /\ manager.at = "up"
         /\ CallGoesOn(c, "spawned", how) /\ call'[c].targets = {s}
         /\ UNCHANGED <<reader, status, listed, manifest, manager, client, unkilled>>
<1>1. /\ call' \in Calls /\ CallGoesOn(c, "spawned", how) /\ call'[c].targets = {s}
  BY DEF Start, Shape, Calls, CallGoesOn
<1>2. /\ process' \in Processes /\ process'[s].at = "running"
      /\ process'[s].wrote = process[s].wrote
      /\ \A t \in Sessions : t # s => process'[t] = process[t]
  BY DEF Start, Shape, Processes
<1>3. /\ log' \in Logs /\ log'[s] = <<>>
      /\ \A t \in Sessions : t # s => log'[t] = log[t]
  BY EmptySeq DEF Start, Shape, Logs
<1> QED
  BY <1>1, <1>2, <1>3 DEF Start, Up

(* An annotation begins at a session that does not run.                       *)
LEMMA WriteBegins ==
  ASSUME Shape, NEW c \in Callers, NEW s \in Sessions,
         NEW how \in {"replace", "append"}, WriteAllowed(c, s, how)
  PROVE  /\ call' \in Calls /\ call[c] = Idle /\ manager.at = "up"
         /\ CallGoesOn(c, "write", how) /\ call'[c].targets = {s}
         /\ s \in listed \/ manager.orphaned[s] # NoFile
         /\ s \in listed => status'[s] # "running"
         /\ Refreshes(listed)
         /\ UNCHANGED <<process, reader, listed, log, manager, client, unkilled>>
<1>1. /\ call' \in Calls /\ CallGoesOn(c, "write", how) /\ call'[c].targets = {s}
  BY DEF WriteAllowed, Shape, Calls, CallGoesOn
<1>2. CASE s \in listed
  <2>1. Refreshes({s})
    BY <1>2, RefreshRefreshes DEF WriteAllowed
  <2> QED
    BY <1>1, <1>2, <2>1 DEF WriteAllowed, Up, Refreshes
<1>3. CASE s \notin listed
  BY <1>1, <1>3 DEF WriteAllowed, Up, Refreshes, Shape
<1> QED
  BY <1>2, <1>3

(* A new Vibe takes over the manifests it finds.                              *)
LEMMA Creates ==
  ASSUME Shape, Create
  PROVE  /\ manifest' \in Manifests /\ manager' \in Managers
         /\ manager.at = "off" /\ manager'.at = "up" /\ manager'.lock = manager.lock
         /\ \A t \in Sessions :
             /\ manager'.orphaned[t] = Orphan(t) /\ manifest'[t] = Orphan(t)
         /\ UNCHANGED <<process, reader, status, listed, log, call, client, unkilled>>
<1>1. \A t \in Sessions : Orphan(t) \in Final \union {"orphaned", NoFile}
  BY DEF Orphan, Shape, Manifests, Status
<1>2. manifest' \in Manifests /\ \A t \in Sessions : manifest'[t] = Orphan(t)
  BY <1>1 DEF Create, Manifests, Status
<1>3. [s \in Sessions |-> Orphan(s)] \in Orphans
  BY <1>1 DEF Orphans
<1>4. /\ manager' \in Managers /\ manager'.at = "up" /\ manager'.lock = manager.lock
      /\ \A t \in Sessions : manager'.orphaned[t] = Orphan(t)
  BY <1>3 DEF Create, Shape, Managers
<1> QED
  BY <1>2, <1>4 DEF Create

(* What Vibe had in memory dies with it.                                      *)
LEMMA EverythingDies ==
  ASSUME Shape, Die
  PROVE  /\ manager' \in Managers /\ reader' \in Readers /\ status' \in Statuses
         /\ call' \in Calls /\ listed' = {} /\ unkilled' = {}
         /\ manager'.at = "off" /\ manager'.lock = Nobody
         /\ manager'.orphaned = manager.orphaned
         /\ \A c \in Callers : call'[c] = Idle
         /\ \A t \in Sessions :
             /\ status'[t] = "running"
             /\ process[t].at = "none" => reader'[t] = reader[t]
             /\ process[t].at # "none" =>
                    reader'[t].at = "dead" /\ reader'[t].taken = 0 /\ reader'[t].held = <<>>
         /\ UNCHANGED <<process, log, manifest, client>>
<1>1. /\ manager' \in Managers /\ manager'.at = "off" /\ manager'.lock = Nobody
      /\ manager'.orphaned = manager.orphaned
  BY DEF Die, Shape, Managers
<1>2. /\ reader' \in Readers
      /\ \A t \in Sessions :
             /\ process[t].at = "none" => reader'[t] = reader[t]
             /\ process[t].at # "none" =>
                    reader'[t].at = "dead" /\ reader'[t].taken = 0 /\ reader'[t].held = <<>>
  BY EmptySeq, ShellAssumption DEF Die, Shape, Readers
<1>3. /\ call' \in Calls /\ \A c \in Callers : call'[c] = Idle
  BY DEF Die, Calls, Idle
<1>4. /\ status' \in Statuses /\ \A t \in Sessions : status'[t] = "running"
  BY DEF Die, Statuses, Status
<1> QED
  BY <1>1, <1>2, <1>3, <1>4 DEF Die

(* A page continues the log at the cursor, and ends between two characters    *)
(* of a log that goes on, or at its end if it need not be trimmed.            *)
IsNextPage(page, s, cursor, trim) ==
    /\ page.next = cursor + Len(page.output) /\ page.next <= Len(log[s])
    /\ \A i \in 1..Len(page.output) : page.output[i] = log[s][cursor + i]
    /\ trim => \/ page.next = cursor
               \/ ~IsLead(log[s][page.next])
               \/ IsLead(log[s][page.next + 1]) /\ page.next < Len(log[s])

(* A trimmed output is the output, or the output without half a character.    *)
LEMMA TrimmedIsAPrefix ==
  ASSUME NEW raw \in Seq(0..MaxOutput)
  PROVE  /\ TrimIncomplete(raw) \in Seq(0..MaxOutput)
         /\ Len(TrimIncomplete(raw)) <= Len(raw)
         /\ \A i \in 1..Len(TrimIncomplete(raw)) : TrimIncomplete(raw)[i] = raw[i]
         /\ \/ TrimIncomplete(raw) = raw /\ (raw = <<>> \/ ~IsLead(raw[Len(raw)]))
            \/ Len(TrimIncomplete(raw)) = Len(raw) - 1 /\ IsLead(raw[Len(raw)])
<1>1. CASE raw # <<>> /\ IsLead(Last(raw))
  <2>1. TrimIncomplete(raw) = SubSeq(raw, 1, Len(raw) - 1) /\ IsLead(raw[Len(raw)])
    BY <1>1 DEF TrimIncomplete, Front, Last
  <2>2. Len(raw) \in Nat \ {0} /\ raw \in Seq(0..MaxOutput)
    BY <1>1, EmptySeq
  <2>3. PICK m \in Nat : m = Len(raw) - 1
    BY <2>2
  <2>4. /\ SubSeq(raw, 1, m) \in Seq(0..MaxOutput)
        /\ Len(SubSeq(raw, 1, m)) = m
        /\ \A i \in 1..m : SubSeq(raw, 1, m)[i] = raw[i]
    <3>1. ASSUME NEW i \in 1..m PROVE raw[i] \in 0..MaxOutput
      <4>1. i \in 1..Len(raw)
        <5> DEFINE n == Len(raw)
        <5>1. n \in Nat /\ m = n - 1
          BY <2>2, <2>3
        <5> HIDE DEF n
        <5>2. i \in 1..n
          BY <5>1
        <5> QED
          BY <5>2 DEF n
      <4> QED
        BY <2>2, <4>1, ElementOfSeq, Zenon
    <3> QED
      BY <2>2, <2>3, <3>1, SubSeqProperties
  <2> QED
    BY <2>1, <2>2, <2>3, <2>4
<1>2. CASE ~(raw # <<>> /\ IsLead(Last(raw)))
  BY <1>2 DEF TrimIncomplete, Last
<1> QED
  BY <1>1, <1>2

(* What a poll returns is what comes next in the log.                         *)
LEMMA PageIsTheNextOfTheLog ==
  ASSUME NEW s, log[s] = NoFile \/ log[s] \in Seq(0..MaxOutput),
         NEW cursor \in Nat, NEW max \in Nat \ {0}, NEW trim \in BOOLEAN,
         NEW page, page = Page(s, cursor, max, trim)
  PROVE  /\ page.output \in Seq(0..MaxOutput) /\ page.next \in Nat
         /\ log[s] \in Seq(0..MaxOutput) /\ cursor <= Len(log[s])
               => IsNextPage(page, s, cursor, trim)
<1>1. CASE log[s] = NoFile
  <2>1. page = [output |-> <<>>, next |-> cursor]
    BY <1>1 DEF Page
  <2>2. page.output = <<>> /\ page.next = cursor
    BY <2>1
  <2>3. page.output \in Seq(0..MaxOutput) /\ Len(page.output) = 0
    BY <2>2, EmptySeq
  <2>4. log[s] \notin Seq(0..MaxOutput)
    BY <1>1, ShellAssumption
  <2> QED
    BY <2>2, <2>3, <2>4
<1>2. CASE log[s] # NoFile
  <2> DEFINE size == Len(log[s])
             safe == IF cursor < size THEN cursor ELSE size
             end  == IF safe + max < size THEN safe + max ELSE size
             raw  == SubSeq(log[s], safe + 1, end)
             kept == IF trim \/ size > safe + Len(raw) THEN TrimIncomplete(raw) ELSE raw
  <2>1. page = [output |-> kept, next |-> safe + Len(kept)]
    BY <1>2 DEF Page
  <2>2. /\ log[s] \in Seq(0..MaxOutput) /\ size \in Nat /\ safe \in Nat /\ end \in Nat
        /\ safe <= end /\ end <= size
        /\ cursor <= size => safe = cursor
    BY <1>2
  <2>3. /\ raw \in Seq(0..MaxOutput) /\ Len(raw) = end - safe
        /\ \A i \in 1..Len(raw) : raw[i] = log[s][safe + i]
    <3> HIDE DEF size, safe, end
    <3>1. ASSUME NEW i \in (safe + 1)..end PROVE log[s][i] \in 0..MaxOutput
      <4>1. i \in 1..size
        BY <2>2
      <4>2. i \in 1..Len(log[s]) /\ log[s] \in Seq(0..MaxOutput)
        BY <2>2, <4>1, Zenon DEF size
      <4> QED
        BY <4>2, ElementOfSeq, Zenon
    <3> QED
      BY <2>2, <3>1, SubSeqProperties
  <2> HIDE DEF size, safe, end, raw
  <2>4. /\ kept \in Seq(0..MaxOutput) /\ Len(kept) \in Nat /\ Len(kept) <= Len(raw)
        /\ \A i \in 1..Len(kept) : kept[i] = raw[i]
    BY <2>2, <2>3, TrimmedIsAPrefix
  <2>5. ASSUME trim
        PROVE  \/ kept = raw /\ (raw = <<>> \/ ~IsLead(raw[Len(raw)]))
               \/ Len(kept) = Len(raw) - 1 /\ IsLead(raw[Len(raw)])
    BY <2>3, <2>5, TrimmedIsAPrefix
  <2> HIDE DEF kept
  <2>6. page.output = kept /\ page.next = safe + Len(kept)
    BY <2>1
  <2>7. \A i \in 1..Len(kept) : kept[i] = log[s][safe + i]
    BY <2>3, <2>4, <2>2
  <2>8. ASSUME trim
        PROVE  \/ page.next = safe
               \/ ~IsLead(log[s][page.next])
               \/ IsLead(log[s][page.next + 1]) /\ page.next < size
    <3>1. CASE kept = raw /\ raw = <<>>
      BY <3>1, <2>6, <2>2, EmptySeq
    <3>2. CASE kept = raw /\ raw # <<>> /\ ~IsLead(raw[Len(raw)])
      <4>1. Len(raw) \in Nat \ {0}
        BY <2>3, <3>2, EmptySeq
      <4>2. raw[Len(raw)] = log[s][safe + Len(raw)]
        BY <2>3, <4>1
      <4> QED
        BY <2>6, <3>2, <4>2
    <3>3. CASE Len(kept) = Len(raw) - 1 /\ IsLead(raw[Len(raw)])
      <4>1. Len(raw) \in Nat \ {0}
        BY <2>3, <2>4, <3>3
      <4>2. raw[Len(raw)] = log[s][safe + Len(raw)]
        BY <2>3, <4>1
      <4>3. page.next + 1 = safe + Len(raw) /\ page.next < size
        BY <2>2, <2>3, <2>6, <3>3, <4>1
      <4> QED
        BY <3>3, <4>2, <4>3
    <3> QED
      BY <2>5, <2>8, <3>1, <3>2, <3>3
  <2>9. page.output \in Seq(0..MaxOutput) /\ page.next \in Nat
    BY <2>2, <2>4, <2>6
  <2>10. ASSUME cursor <= Len(log[s]) PROVE IsNextPage(page, s, cursor, trim)
    <3>1. safe = cursor /\ size = Len(log[s])
      BY <2>2, <2>10 DEF size
    <3>2. /\ page.next = cursor + Len(page.output) /\ page.next <= Len(log[s])
          /\ \A i \in 1..Len(page.output) : page.output[i] = log[s][cursor + i]
          /\ trim => \/ page.next = cursor \/ ~IsLead(log[s][page.next])
                     \/ IsLead(log[s][page.next + 1]) /\ page.next < Len(log[s])
      BY <2>2, <2>3, <2>4, <2>6, <2>7, <2>8, <3>1
    <3> QED
      BY <3>2, Zenon DEF IsNextPage
  <2> QED
    BY <2>9, <2>10, Zenon
<1> QED
  BY <1>1, <1>2

(* What a poll leaves alone, and the page it gives its client.                *)
LEMMA PollGoesOn ==
  ASSUME Shape, NEW s \in Sessions, Poll(s)
  PROVE  /\ Refreshes(listed) /\ client' \in Clients
         /\ \A t \in Sessions : t # s => client'[t] = client[t]
         /\ s \in listed \/ manager.orphaned[s] # NoFile
         /\ ~client[s].rewritten /\ ~client'[s].rewritten
         /\ \E max \in Pages, running \in BOOLEAN :
              /\ client'[s].cursor = Page(s, client[s].cursor, max, running).next
              /\ client'[s].got = client[s].got \o Page(s, client[s].cursor, max, running).output
              /\ ~client'[s].over => ~client[s].over /\ running
         /\ UNCHANGED <<process, reader, listed, log, manager, call, unkilled>>
<1>1. /\ Refreshes(listed)
      /\ s \in listed \/ manager.orphaned[s] # NoFile
  <2>1. CASE s \in listed
    <3>1. Refreshes({s})
      BY <2>1, RefreshRefreshes DEF Poll
    <3> QED
      BY <2>1, <3>1 DEF Refreshes
  <2>2. CASE s \notin listed
    BY <2>2 DEF Poll, Refreshes, Shape
  <2> QED
    BY <2>1, <2>2
<1>2. PICK max \in Pages :
        client' = [client EXCEPT
            ![s].cursor = Page(s, client[s].cursor, max, s \in listed /\ status'[s] = "running").next,
            ![s].got = @ \o Page(s, client[s].cursor, max, s \in listed /\ status'[s] = "running").output,
            ![s].over = @ \/ ~(s \in listed /\ status'[s] = "running")]
  BY DEF Poll
<1> DEFINE running == s \in listed /\ status'[s] = "running"
           page == Page(s, client[s].cursor, max, running)
           over == client[s].over \/ ~running
<1>3. running \in BOOLEAN /\ over \in BOOLEAN
  BY Zenon
<1>4. client' = [client EXCEPT ![s].cursor = page.next, ![s].got = @ \o page.output,
                               ![s].over = over]
  BY <1>2, Zenon
<1> HIDE DEF running
<1>5. /\ client[s].cursor \in Nat /\ client[s].got \in Seq(0..MaxOutput)
      /\ log[s] = NoFile \/ log[s] \in Seq(0..MaxOutput)
      /\ max \in Nat \ {0}
  BY ShellAssumption DEF Shape, Clients, Logs
<1>6. page.next \in Nat /\ page.output \in Seq(0..MaxOutput)
  BY <1>3, <1>5, PageIsTheNextOfTheLog
<1> HIDE DEF page
<1> DEFINE got == client[s].got \o page.output
<1>7. got \in Seq(0..MaxOutput)
  BY <1>5, <1>6, ConcatProperties
<1>8. client' = [client EXCEPT ![s].cursor = page.next, ![s].got = got, ![s].over = over]
  BY <1>4 DEF Shape, Clients
<1> HIDE DEF got, over
<1>9. /\ client' \in Clients
      /\ \A t \in Sessions : t # s => client'[t] = client[t]
      /\ client'[s].cursor = page.next /\ client'[s].got = got /\ client'[s].over = over
      /\ client'[s].rewritten = client[s].rewritten
  BY <1>3, <1>6, <1>7, <1>8 DEF Shape, Clients
<1>10. ~client[s].rewritten
  BY DEF Poll
<1>11. ~client'[s].rewritten
  BY <1>9, <1>10
<1>12. ~client'[s].over => ~client[s].over /\ running
  BY <1>9 DEF over
<1> QED
  BY <1>1, <1>3, <1>9, <1>10, <1>11, <1>12 DEF Poll, page, got

(* What a poll leaves alone.                                                  *)
LEMMA PollOnlyLooks ==
  ASSUME Shape, NEW s \in Sessions, Poll(s)
  PROVE  /\ Refreshes(listed) /\ client' \in Clients
         /\ \A t \in Sessions : t # s => client'[t] = client[t]
         /\ s \in listed \/ manager.orphaned[s] # NoFile
         /\ ~client[s].rewritten /\ ~client'[s].rewritten
         /\ UNCHANGED <<process, reader, listed, log, manager, call, unkilled>>
  BY PollGoesOn, Zenon

(* Before an odd number is an even one.                                       *)
LEMMA OddAfterEven ==
  ASSUME NEW n \in Nat, (n + 1) % 2 = 1
  PROVE  n % 2 = 0
  OBVIOUS

(* Two stretches of the output that follow each other make one.               *)
LEMMA StretchesJoin ==
  ASSUME NEW old \in Seq(0..MaxOutput), NEW more \in Seq(0..MaxOutput),
         NEW n \in Nat, NEW k \in Nat, n = Len(old), k = Len(more),
         \A i \in 1..n : old[i] = i, \A i \in 1..k : more[i] = n + i
  PROVE  /\ old \o more \in Seq(0..MaxOutput)
         /\ Len(old \o more) = n + k
         /\ \A i \in 1..(n + k) : (old \o more)[i] = i
<1> DEFINE joined == old \o more
<1>1. /\ joined \in Seq(0..MaxOutput) /\ Len(joined) = Len(old) + Len(more)
      /\ \A i \in 1..(Len(old) + Len(more)) :
            joined[i] = IF i <= Len(old) THEN old[i] ELSE more[i - Len(old)]
  BY ConcatProperties, Zenon
<1> HIDE DEF joined
<1>2. /\ Len(joined) = n + k
      /\ \A i \in 1..(n + k) : joined[i] = IF i <= n THEN old[i] ELSE more[i - n]
  BY <1>1, Zenon
<1>3. ASSUME NEW i \in 1..(n + k) PROVE joined[i] = i
  <2>1. CASE i <= n
    <3>1. i \in 1..n
      BY <2>1
    <3>2. joined[i] = old[i] /\ old[i] = i
      BY <1>2, <2>1, <3>1, Zenon
    <3> QED
      BY <3>2, Zenon
  <2>2. CASE ~(i <= n)
    <3>1. i - n \in 1..k /\ n + (i - n) = i
      BY <2>2
    <3>2. joined[i] = more[i - n] /\ more[i - n] = n + (i - n)
      BY <1>2, <2>2, <3>1, Zenon
    <3> QED
      BY <3>1, <3>2, Zenon
  <2> QED
    BY <2>1, <2>2
<1> QED
  BY <1>1, <1>2, <1>3, Zenon DEF joined

(* What a reader appends makes the log the first bytes of the output again.   *)
LEMMA OutputGoesOn ==
  ASSUME MaxOutput \in Nat, NEW old \in Seq(0..MaxOutput), NEW upto \in Nat,
         Len(old) <= upto, upto <= MaxOutput, \A i \in 1..Len(old) : old[i] = i
  PROVE  /\ old \o Bytes(Len(old) + 1, upto) \in Seq(0..MaxOutput)
         /\ Len(old \o Bytes(Len(old) + 1, upto)) = upto
         /\ \A i \in 1..upto : (old \o Bytes(Len(old) + 1, upto))[i] = i
<1> DEFINE n == Len(old)  held == Bytes(n + 1, upto)
<1>1. /\ n \in Nat /\ n <= upto /\ n + 1 \in Nat /\ 0 < n + 1 /\ n = Len(old)
      /\ \A i \in 1..n : old[i] = i
  OBVIOUS
<1> HIDE DEF n
<1>2. /\ held \in Seq(0..MaxOutput)
      /\ Len(held) = IF n + 1 <= upto THEN upto - (n + 1) + 1 ELSE 0
      /\ \A i \in 1..(upto - (n + 1) + 1) : held[i] = n + 1 + i - 1
  BY <1>1, BytesProperties
<1> HIDE DEF held
<1>3. PICK k \in Nat : k = upto - n
  BY <1>1
<1>4. k = Len(held) /\ \A i \in 1..k : held[i] = n + i
  BY <1>1, <1>2, <1>3
<1>5. /\ old \o held \in Seq(0..MaxOutput) /\ Len(old \o held) = n + k
      /\ \A i \in 1..(n + k) : (old \o held)[i] = i
  BY <1>1, <1>2, <1>4, StretchesJoin
<1>6. n + k = upto
  BY <1>1, <1>3
<1> QED
  BY <1>5, <1>6, Zenon DEF n, held

(* A log only grows by what is appended.                                      *)
LEMMA LogGrows ==
  ASSUME NEW old \in Seq(0..MaxOutput), NEW more \in Seq(0..MaxOutput)
  PROVE  Len(old) \in Nat /\ Len(old \o more) \in Nat /\ Len(old) <= Len(old \o more)
<1>1. Len(old \o more) = Len(old) + Len(more)
  BY ConcatProperties, Zenon
<1>2. Len(old) \in Nat /\ Len(more) \in Nat
  BY LenProperties, Zenon
<1> DEFINE a == Len(old)  b == Len(more)  ab == Len(old \o more)
<1> HIDE DEF a, b, ab
<1>3. a \in Nat /\ b \in Nat /\ ab = a + b
  BY <1>1, <1>2, Zenon DEF a, b, ab
<1>4. ab \in Nat /\ a <= ab
  BY <1>3
<1> QED
  BY <1>3, <1>4, Zenon DEF a, ab

(* What a client has after a poll of a log that is the output.                *)
LEMMA ClientGoesOn ==
  ASSUME NEW s, NEW cursor, NEW got, NEW max, NEW running
  PROVE  LET page == Page(s, cursor, max, running)
             now  == got \o page.output
         IN  /\ max \in Nat \ {0} /\ running \in BOOLEAN
             /\ log[s] \in Seq(0..MaxOutput) /\ \A i \in 1..Len(log[s]) : log[s][i] = i
             /\ cursor \in Nat /\ cursor = Len(got) /\ cursor <= Len(log[s])
             /\ got \in Seq(0..MaxOutput) /\ \A i \in 1..cursor : got[i] = i
             => /\ page.next \in Nat /\ page.next <= Len(log[s])
                /\ page.next = Len(now) /\ \A i \in 1..page.next : now[i] = i
                /\ running /\ cursor % 2 = 0 => page.next % 2 = 0
<1> DEFINE page == Page(s, cursor, max, running)
           out == page.output
           next == page.next
           size == Len(log[s])
<1>0. SUFFICES ASSUME max \in Nat \ {0}, running \in BOOLEAN,
                      log[s] \in Seq(0..MaxOutput), \A i \in 1..size : log[s][i] = i,
                      cursor \in Nat, cursor = Len(got), cursor <= size,
                      got \in Seq(0..MaxOutput), \A i \in 1..cursor : got[i] = i
               PROVE  /\ next \in Nat /\ next <= size
                      /\ next = Len(got \o out) /\ \A i \in 1..next : (got \o out)[i] = i
                      /\ running /\ cursor % 2 = 0 => next % 2 = 0
  BY Zenon
<1>1. /\ out \in Seq(0..MaxOutput) /\ next \in Nat
      /\ next = cursor + Len(out) /\ next <= size
      /\ \A i \in 1..Len(out) : out[i] = log[s][cursor + i]
      /\ running => \/ next = cursor \/ ~IsLead(log[s][next])
                    \/ IsLead(log[s][next + 1]) /\ next < size
  <2>1. /\ cursor \in Nat /\ max \in Nat \ {0} /\ running \in BOOLEAN
        /\ log[s] \in Seq(0..MaxOutput) /\ cursor <= Len(log[s])
        /\ page = Page(s, cursor, max, running)
    BY <1>0
  <2> HIDE DEF page
  <2>2. /\ page.output \in Seq(0..MaxOutput) /\ page.next \in Nat
        /\ IsNextPage(page, s, cursor, running)
    BY <2>1, PageIsTheNextOfTheLog
  <2> QED
    BY <2>2, Zenon DEF IsNextPage
<1> HIDE DEF page, out, next, size
<1>9. /\ cursor \in Nat /\ cursor = Len(got) /\ got \in Seq(0..MaxOutput)
      /\ \A i \in 1..cursor : got[i] = i
  BY <1>0
<1>10. cursor \in Nat
  BY <1>0
<1>2. PICK k \in Nat : k = Len(out)
  BY <1>1, LenProperties
<1>3. PICK n \in Nat : n = size
  BY <1>0, LenProperties DEF size
<1>4. next = cursor + k /\ cursor + k <= n /\ next <= n
  BY <1>1, <1>2, <1>3, Zenon
<1>5. ASSUME NEW i \in Nat, 0 < i, i <= n PROVE log[s][i] = i
  <2>1. i \in 1..n
    BY <1>5
  <2> QED
    BY <1>0, <1>3, <2>1, Zenon
<1>6. ASSUME NEW i \in 1..k PROVE out[i] = cursor + i
  <2>1. cursor + i \in Nat /\ 0 < cursor + i /\ cursor + i <= n
    BY <1>10, <1>4
  <2>2. out[i] = log[s][cursor + i]
    BY <1>1, <1>2, Zenon
  <2> QED
    BY <1>5, <2>1, <2>2, Zenon
<1>11. out \in Seq(0..MaxOutput)
  BY <1>1, Zenon
<1>7. /\ got \o out \in Seq(0..MaxOutput) /\ Len(got \o out) = cursor + k
      /\ \A i \in 1..(cursor + k) : (got \o out)[i] = i
  BY <1>9, <1>11, <1>2, <1>6, StretchesJoin
<1>8. ASSUME running, cursor % 2 = 0 PROVE next % 2 = 0
  <2>1. CASE next # cursor /\ ~IsLead(log[s][next])
    <3>1. 0 < next /\ next \in Nat
      BY <1>0, <1>1, <1>2, <1>4, <2>1
    <3>2. log[s][next] = next
      BY <1>4, <1>5, <3>1, Zenon
    <3> QED
      BY <2>1, <3>1, <3>2 DEF IsLead
  <2>2. CASE IsLead(log[s][next + 1]) /\ next < size
    <3>1. next \in Nat /\ next + 1 \in Nat /\ 0 < next + 1 /\ next + 1 <= n
      BY <1>1, <1>3, <2>2
    <3>2. log[s][next + 1] = next + 1
      BY <1>5, <3>1, Zenon
    <3> QED
      BY <2>2, <3>1, <3>2, OddAfterEven DEF IsLead
  <2> QED
    BY <1>1, <1>8, <2>1, <2>2
<1> QED
  BY <1>1, <1>4, <1>7, <1>8, Zenon

(* The shape of the state is kept.                                           *)
LEMMA ShapeIsKept ==
  ASSUME Shape, CallsAreWhatTheyAre, ReaderHoldsWhatItTook, [Next]_vars
  PROVE  Shape'
<1>1. ASSUME NEW s \in Sessions, Write(s) \/ Detach(s) \/ Exit(s) PROVE Shape'
  BY <1>1, ProcessGoesOn, SMTT(20) DEF Shape, Refreshes
<1>2. ASSUME NEW s \in Sessions, ReaderSelects(s) \/ ReaderPolls(s) \/ ReaderFails(s)
      PROVE  Shape'
  BY <1>2, ReaderTurns, SMTT(20) DEF Shape, Refreshes
<1>3. ASSUME NEW s \in Sessions, ReaderReads(s) PROVE Shape'
  BY <1>3, ReaderTakes, SMTT(20) DEF Shape, Refreshes
<1>4. ASSUME NEW s \in Sessions, ReaderAppends(s) PROVE Shape'
  BY <1>4, ReaderWrites, SMTT(20) DEF Shape, Refreshes
<1>5. ASSUME NEW s \in Sessions, ReaderTerminates(s) PROVE Shape'
  BY <1>5, ReaderEnds, SMTT(20) DEF Shape, Refreshes
<1>6. ASSUME NEW s \in Sessions, ReaderReports(s) PROVE Shape'
  BY <1>6, ReaderSays, SMTT(20) DEF Shape, Refreshes
<1>7. ASSUME ListSessions \/ \E s \in Sessions : Look(s) PROVE Shape'
  BY <1>7, LooksRefresh, SMTT(20) DEF Shape, Refreshes
<1>8. ASSUME NEW s \in Sessions, Poll(s) PROVE Shape'
  BY <1>8, PollOnlyLooks, SMTT(20) DEF Shape, Refreshes
<1>9. ASSUME NEW c \in Callers, Register(c) PROVE Shape'
  <2>1. listed' \subseteq Sessions
    BY <1>9, Registers DEF Shape, Calls
  <2> QED
    BY <1>9, <2>1, Registers, SMTT(20) DEF Shape
<1>10. ASSUME NEW c \in Callers, StartReader(c) PROVE Shape'
  BY <1>10, ReaderStarts, SMTT(20) DEF Shape, Refreshes
<1>11. ASSUME NEW c \in Callers, WaitReturns(c) PROVE Shape'
  BY <1>11, WaitIsOver, SMTT(20) DEF Shape, Refreshes
<1>12. ASSUME NEW c \in Callers, Terminate(c) PROVE Shape'
  BY <1>12, Terminates, SMTT(20) DEF Shape, Refreshes
<1>13. ASSUME NEW c \in Callers, FindSurvivors(c) PROVE Shape'
  BY <1>13, FindsSurvivors, SMTT(20) DEF Shape, Refreshes
<1>14. ASSUME NEW c \in Callers, RestoreRunning(c) PROVE Shape'
  BY <1>14, RestoresRunning, SMTT(20) DEF Shape, Refreshes
<1>15. ASSUME NEW c \in Callers, KillReturns(c) PROVE Shape'
  BY <1>15, KillIsOver, SMTT(20) DEF Shape, Refreshes
<1>16. ASSUME NEW c \in Callers, ResetReturns(c) PROVE Shape'
  BY <1>16, ResetIsOver, SMTT(20) DEF Shape, Refreshes
<1>17. ASSUME NEW c \in Callers, ResetClears(c) PROVE Shape'
  BY <1>17, ResetClearsAll, SMTT(20) DEF Shape, Refreshes
<1>18. ASSUME NEW c \in Callers, WriteLog(c) PROVE Shape'
  BY <1>18, LogIsWritten, SMTT(20) DEF Shape, Refreshes
<1>19. ASSUME NEW c \in Callers,
              CloseRuntime(c) \/ \E how \in {"reset", "clear"} : Reset(c, how)
       PROVE  Shape'
  BY <1>19, ResetMarksWhatRuns, SMTT(20) DEF Shape, Refreshes
<1>20. ASSUME NEW c \in Callers, NEW s \in Sessions, Kill(c, s) PROVE Shape'
  BY <1>20, KillMarks, SMTT(20) DEF Shape, Refreshes
<1>21. ASSUME NEW c \in Callers, NEW s \in Sessions, NEW how \in {"background",
              "soft", "hard"}, Start(c, s, how)
       PROVE  Shape'
  BY <1>21, Starts, SMTT(20) DEF Shape, Refreshes
<1>22. ASSUME NEW c \in Callers, NEW s \in Sessions, NEW how \in {"replace",
              "append"}, WriteAllowed(c, s, how)
       PROVE  Shape'
  BY <1>22, WriteBegins, SMTT(20) DEF Shape, Refreshes
<1>23. ASSUME Create PROVE Shape'
  BY <1>23, Creates, SMTT(20) DEF Shape, Refreshes
<1>24. ASSUME Die PROVE Shape'
  BY <1>24, EverythingDies, SMTT(20) DEF Shape, Refreshes
<1>25. ASSUME UNCHANGED vars PROVE Shape'
  BY <1>25, SMTT(20) DEF Shape, Refreshes, vars
<1> QED
  BY <1>1, <1>2, <1>3, <1>4, <1>5, <1>6, <1>7, <1>8, <1>9, <1>10, <1>11, <1>12,
     <1>13, <1>14, <1>15, <1>16, <1>17, <1>18, <1>19, <1>20, <1>21, <1>22,
     <1>23, <1>24, <1>25
  DEF Next, ReaderNext, CallerNext

(* Calls stay what they are.                                                  *)
LEMMA CallsAreWhatTheyAreIsKept ==
  ASSUME Shape, Shape', ReaderHoldsWhatItTook, CallsAreWhatTheyAre, [Next]_vars
  PROVE  CallsAreWhatTheyAre'
<1> USE DEF CallsAreWhatTheyAre, Killing, Starting, CallEnds, CallGoesOn,
        Refreshes, Final, Idle, Alive
<1>1. ASSUME NEW s \in Sessions, Write(s) \/ Detach(s) \/ Exit(s)
      PROVE  CallsAreWhatTheyAre'
  BY <1>1, ProcessGoesOn, SMTT(10)
<1>2. ASSUME NEW s \in Sessions, ReaderSelects(s) \/ ReaderPolls(s) \/ ReaderFails(s)
      PROVE  CallsAreWhatTheyAre'
  BY <1>2, ReaderTurns, SMTT(10)
<1>3. ASSUME NEW s \in Sessions, ReaderReads(s) PROVE CallsAreWhatTheyAre'
  BY <1>3, ReaderTakes, SMTT(10)
<1>4. ASSUME NEW s \in Sessions, ReaderAppends(s) PROVE CallsAreWhatTheyAre'
  BY <1>4, ReaderWrites, SMTT(10)
<1>5. ASSUME NEW s \in Sessions, ReaderTerminates(s) PROVE CallsAreWhatTheyAre'
  BY <1>5, ReaderEnds, SMTT(10)
<1>6. ASSUME NEW s \in Sessions, ReaderReports(s) PROVE CallsAreWhatTheyAre'
  BY <1>6, ReaderSays, SMTT(10)
<1>7. ASSUME ListSessions \/ \E s \in Sessions : Look(s) PROVE CallsAreWhatTheyAre'
  BY <1>7, LooksRefresh, SMTT(10)
<1>8. ASSUME NEW s \in Sessions, Poll(s) PROVE CallsAreWhatTheyAre'
  BY <1>8, PollOnlyLooks, SMTT(10)
<1>9. ASSUME NEW c \in Callers, Register(c) PROVE CallsAreWhatTheyAre'
  BY <1>9, Registers, SMTT(10)
<1>10. ASSUME NEW c \in Callers, StartReader(c) PROVE CallsAreWhatTheyAre'
  BY <1>10, ReaderStarts, SMTT(10)
<1>11. ASSUME NEW c \in Callers, WaitReturns(c) PROVE CallsAreWhatTheyAre'
  BY <1>11, WaitIsOver, SMTT(10)
<1>12. ASSUME NEW c \in Callers, Terminate(c) PROVE CallsAreWhatTheyAre'
  BY <1>12, Terminates, SMTT(10)
<1>13. ASSUME NEW c \in Callers, FindSurvivors(c) PROVE CallsAreWhatTheyAre'
  BY <1>13, FindsSurvivors, SMTT(10)
<1>14. ASSUME NEW c \in Callers, RestoreRunning(c) PROVE CallsAreWhatTheyAre'
  BY <1>14, RestoresRunning, SMTT(10)
<1>15. ASSUME NEW c \in Callers, KillReturns(c) PROVE CallsAreWhatTheyAre'
  BY <1>15, KillIsOver, SMTT(10)
<1>16. ASSUME NEW c \in Callers, ResetReturns(c) PROVE CallsAreWhatTheyAre'
  BY <1>16, ResetIsOver, SMTT(10)
<1>17. ASSUME NEW c \in Callers, ResetClears(c) PROVE CallsAreWhatTheyAre'
  BY <1>17, ResetClearsAll, SMTT(10)
<1>18. ASSUME NEW c \in Callers, WriteLog(c) PROVE CallsAreWhatTheyAre'
  BY <1>18, LogIsWritten, SMTT(10)
<1>19. ASSUME NEW c \in Callers,
              CloseRuntime(c) \/ \E how \in {"reset", "clear"} : Reset(c, how)
       PROVE  CallsAreWhatTheyAre'
  BY <1>19, ResetMarksWhatRuns, SMTT(10)
<1>20. ASSUME NEW c \in Callers, NEW s \in Sessions, Kill(c, s)
       PROVE  CallsAreWhatTheyAre'
  BY <1>20, KillMarks, SMTT(10)
<1>21. ASSUME NEW c \in Callers, NEW s \in Sessions, NEW how \in {"background",
              "soft", "hard"}, Start(c, s, how)
       PROVE  CallsAreWhatTheyAre'
  BY <1>21, Starts, SMTT(10)
<1>22. ASSUME NEW c \in Callers, NEW s \in Sessions, NEW how \in {"replace",
              "append"}, WriteAllowed(c, s, how)
       PROVE  CallsAreWhatTheyAre'
  BY <1>22, WriteBegins, SMTT(10)
<1>23. ASSUME Create PROVE CallsAreWhatTheyAre'
  BY <1>23, Creates, SMTT(10)
<1>24. ASSUME Die PROVE CallsAreWhatTheyAre'
  BY <1>24, EverythingDies, SMTT(10)
<1>25. ASSUME UNCHANGED vars PROVE CallsAreWhatTheyAre'
  BY <1>25, SMTT(10) DEF vars
<1> HIDE DEF CallsAreWhatTheyAre, Killing, Starting, CallEnds, CallGoesOn,
        Refreshes, Final, Idle, Alive
<1> QED
  BY <1>1, <1>2, <1>3, <1>4, <1>5, <1>6, <1>7, <1>8, <1>9, <1>10, <1>11, <1>12,
     <1>13, <1>14, <1>15, <1>16, <1>17, <1>18, <1>19, <1>20, <1>21, <1>22,
     <1>23, <1>24, <1>25
  DEF Next, ReaderNext, CallerNext

(* Only a reset holds the lock, and Vibe's end ends all its threads.          *)
LEMMA LockIsAResetsIsKept ==
  ASSUME Shape, Shape', ReaderHoldsWhatItTook, CallsAreWhatTheyAre,
         LockIsAResets, [Next]_vars
  PROVE  LockIsAResets'
<1> USE DEF LockIsAResets, CallsAreWhatTheyAre, Killing, Starting, CallEnds,
        CallGoesOn, Refreshes, Final, Idle, Alive
<1>1. ASSUME NEW s \in Sessions, Write(s) \/ Detach(s) \/ Exit(s)
      PROVE  LockIsAResets'
  BY <1>1, ProcessGoesOn, SMTT(10)
<1>2. ASSUME NEW s \in Sessions, ReaderSelects(s) \/ ReaderPolls(s) \/ ReaderFails(s)
      PROVE  LockIsAResets'
  BY <1>2, ReaderTurns, SMTT(10)
<1>3. ASSUME NEW s \in Sessions, ReaderReads(s) PROVE LockIsAResets'
  BY <1>3, ReaderTakes, SMTT(10)
<1>4. ASSUME NEW s \in Sessions, ReaderAppends(s) PROVE LockIsAResets'
  BY <1>4, ReaderWrites, SMTT(10)
<1>5. ASSUME NEW s \in Sessions, ReaderTerminates(s) PROVE LockIsAResets'
  BY <1>5, ReaderEnds, SMTT(10)
<1>6. ASSUME NEW s \in Sessions, ReaderReports(s) PROVE LockIsAResets'
  BY <1>6, ReaderSays, SMTT(10)
<1>7. ASSUME ListSessions \/ \E s \in Sessions : Look(s) PROVE LockIsAResets'
  BY <1>7, LooksRefresh, SMTT(10)
<1>8. ASSUME NEW s \in Sessions, Poll(s) PROVE LockIsAResets'
  BY <1>8, PollOnlyLooks, SMTT(10)
<1>9. ASSUME NEW c \in Callers, Register(c) PROVE LockIsAResets'
  BY <1>9, Registers, SMTT(10)
<1>10. ASSUME NEW c \in Callers, StartReader(c) PROVE LockIsAResets'
  BY <1>10, ReaderStarts, SMTT(10)
<1>11. ASSUME NEW c \in Callers, WaitReturns(c) PROVE LockIsAResets'
  BY <1>11, WaitIsOver, SMTT(10)
<1>12. ASSUME NEW c \in Callers, Terminate(c) PROVE LockIsAResets'
  BY <1>12, Terminates, SMTT(10)
<1>13. ASSUME NEW c \in Callers, FindSurvivors(c) PROVE LockIsAResets'
  BY <1>13, FindsSurvivors, SMTT(10)
<1>14. ASSUME NEW c \in Callers, RestoreRunning(c) PROVE LockIsAResets'
  BY <1>14, RestoresRunning, ShellAssumption, SMTT(10)
<1>15. ASSUME NEW c \in Callers, KillReturns(c) PROVE LockIsAResets'
  BY <1>15, KillIsOver, SMTT(10)
<1>16. ASSUME NEW c \in Callers, ResetReturns(c) PROVE LockIsAResets'
  BY <1>16, ResetIsOver, ShellAssumption, SMTT(10)
<1>17. ASSUME NEW c \in Callers, ResetClears(c) PROVE LockIsAResets'
  BY <1>17, ResetClearsAll, ShellAssumption, SMTT(10)
<1>18. ASSUME NEW c \in Callers, WriteLog(c) PROVE LockIsAResets'
  BY <1>18, LogIsWritten, SMTT(10)
<1>19. ASSUME NEW c \in Callers,
              CloseRuntime(c) \/ \E how \in {"reset", "clear"} : Reset(c, how)
       PROVE  LockIsAResets'
  BY <1>19, ResetMarksWhatRuns, SMTT(10)
<1>20. ASSUME NEW c \in Callers, NEW s \in Sessions, Kill(c, s) PROVE LockIsAResets'
  BY <1>20, KillMarks, SMTT(10)
<1>21. ASSUME NEW c \in Callers, NEW s \in Sessions, NEW how \in {"background",
              "soft", "hard"}, Start(c, s, how)
       PROVE  LockIsAResets'
  BY <1>21, Starts, SMTT(10)
<1>22. ASSUME NEW c \in Callers, NEW s \in Sessions, NEW how \in {"replace",
              "append"}, WriteAllowed(c, s, how)
       PROVE  LockIsAResets'
  BY <1>22, WriteBegins, SMTT(10)
<1>23. ASSUME Create PROVE LockIsAResets'
  BY <1>23, Creates, SMTT(10)
<1>24. ASSUME Die PROVE LockIsAResets'
  BY <1>24, EverythingDies, ShellAssumption, SMTT(10)
<1>25. ASSUME UNCHANGED vars PROVE LockIsAResets'
  BY <1>25, SMTT(10) DEF vars
<1> HIDE DEF LockIsAResets, CallsAreWhatTheyAre, Killing, Starting, CallEnds,
        CallGoesOn, Refreshes, Final, Idle, Alive
<1> QED
  BY <1>1, <1>2, <1>3, <1>4, <1>5, <1>6, <1>7, <1>8, <1>9, <1>10, <1>11, <1>12,
     <1>13, <1>14, <1>15, <1>16, <1>17, <1>18, <1>19, <1>20, <1>21, <1>22,
     <1>23, <1>24, <1>25
  DEF Next, ReaderNext, CallerNext

(* A reader never holds or took more than there is.                           *)
LEMMA ReaderHoldsWhatItTookIsKept ==
  ASSUME Shape, Shape', CallsAreWhatTheyAre, NoTraceBeforeStart, StarterIsAlone,
         ReaderHoldsWhatItTook, [Next]_vars
  PROVE  ReaderHoldsWhatItTook'
<1> SUFFICES ASSUME NEW t \in Sessions PROVE HoldsWhatItTook(t)'
  BY DEF ReaderHoldsWhatItTook
<1>0. /\ reader[t].taken \in Nat /\ process[t].wrote \in Nat /\ process'[t].wrote \in Nat
      /\ reader'[t].taken \in Nat
      /\ \A d \in Callers : call[d].targets \subseteq Sessions
  BY ShellAssumption DEF Shape, Readers, Processes, Calls
<1> USE DEF ReaderHoldsWhatItTook, NoTraceBeforeStart, StarterIsAlone, Killing,
        Starting, CallEnds, CallGoesOn, Refreshes, Final, Idle, Alive,
        HoldsWhatItTook
<1>1. ASSUME NEW s \in Sessions, Write(s) \/ Detach(s) \/ Exit(s)
      PROVE  HoldsWhatItTook(t)'
  BY <1>1, <1>0, ProcessGoesOn, SMTT(10)
<1>2. ASSUME NEW s \in Sessions, ReaderSelects(s) \/ ReaderPolls(s) \/ ReaderFails(s)
      PROVE  HoldsWhatItTook(t)'
  BY <1>2, <1>0, ReaderTurns, SMTT(10)
<1>3. ASSUME NEW s \in Sessions, ReaderReads(s) PROVE HoldsWhatItTook(t)'
  BY <1>3, <1>0, ReaderTakes, SMTT(10)
<1>4. ASSUME NEW s \in Sessions, ReaderAppends(s) PROVE HoldsWhatItTook(t)'
  BY <1>4, <1>0, ReaderWrites, SMTT(10)
<1>5. ASSUME NEW s \in Sessions, ReaderTerminates(s) PROVE HoldsWhatItTook(t)'
  BY <1>5, <1>0, ReaderEnds, SMTT(10)
<1>6. ASSUME NEW s \in Sessions, ReaderReports(s) PROVE HoldsWhatItTook(t)'
  BY <1>6, <1>0, ReaderSays, SMTT(10)
<1>7. ASSUME ListSessions \/ \E s \in Sessions : Look(s) PROVE HoldsWhatItTook(t)'
  BY <1>7, <1>0, LooksRefresh, SMTT(10)
<1>8. ASSUME NEW s \in Sessions, Poll(s) PROVE HoldsWhatItTook(t)'
  BY <1>8, <1>0, PollOnlyLooks, SMTT(10)
<1>9. ASSUME NEW c \in Callers, Register(c) PROVE HoldsWhatItTook(t)'
  BY <1>9, <1>0, Registers, SMTT(10)
<1>10. ASSUME NEW c \in Callers, StartReader(c) PROVE HoldsWhatItTook(t)'
  BY <1>10, <1>0, ReaderStarts, SMTT(10)
<1>11. ASSUME NEW c \in Callers, WaitReturns(c) PROVE HoldsWhatItTook(t)'
  BY <1>11, <1>0, WaitIsOver, SMTT(10)
<1>12. ASSUME NEW c \in Callers, Terminate(c) PROVE HoldsWhatItTook(t)'
  BY <1>12, <1>0, Terminates, SMTT(10)
<1>13. ASSUME NEW c \in Callers, FindSurvivors(c) PROVE HoldsWhatItTook(t)'
  BY <1>13, <1>0, FindsSurvivors, SMTT(10)
<1>14. ASSUME NEW c \in Callers, RestoreRunning(c) PROVE HoldsWhatItTook(t)'
  BY <1>14, <1>0, RestoresRunning, SMTT(10)
<1>15. ASSUME NEW c \in Callers, KillReturns(c) PROVE HoldsWhatItTook(t)'
  BY <1>15, <1>0, KillIsOver, SMTT(10)
<1>16. ASSUME NEW c \in Callers, ResetReturns(c) PROVE HoldsWhatItTook(t)'
  BY <1>16, <1>0, ResetIsOver, SMTT(10)
<1>17. ASSUME NEW c \in Callers, ResetClears(c) PROVE HoldsWhatItTook(t)'
  BY <1>17, <1>0, ResetClearsAll, SMTT(10)
<1>18. ASSUME NEW c \in Callers, WriteLog(c) PROVE HoldsWhatItTook(t)'
  BY <1>18, <1>0, LogIsWritten, SMTT(10)
<1>19. ASSUME NEW c \in Callers,
              CloseRuntime(c) \/ \E how \in {"reset", "clear"} : Reset(c, how)
       PROVE  HoldsWhatItTook(t)'
  BY <1>19, <1>0, ResetMarksWhatRuns, SMTT(10)
<1>20. ASSUME NEW c \in Callers, NEW s \in Sessions, Kill(c, s)
       PROVE  HoldsWhatItTook(t)'
  BY <1>20, <1>0, KillMarks, SMTT(10)
<1>21. ASSUME NEW c \in Callers, NEW s \in Sessions, NEW how \in {"background",
              "soft", "hard"}, Start(c, s, how)
       PROVE  HoldsWhatItTook(t)'
  BY <1>21, <1>0, Starts, SMTT(10)
<1>22. ASSUME NEW c \in Callers, NEW s \in Sessions, NEW how \in {"replace",
              "append"}, WriteAllowed(c, s, how)
       PROVE  HoldsWhatItTook(t)'
  BY <1>22, <1>0, WriteBegins, SMTT(10)
<1>23. ASSUME Create PROVE HoldsWhatItTook(t)'
  BY <1>23, <1>0, Creates, SMTT(10)
<1>24. ASSUME Die PROVE HoldsWhatItTook(t)'
  BY <1>24, <1>0, EverythingDies, SMTT(10)
<1>25. ASSUME UNCHANGED vars PROVE HoldsWhatItTook(t)'
  BY <1>25, <1>0, SMTT(10) DEF vars
<1> HIDE DEF ReaderHoldsWhatItTook, NoTraceBeforeStart, StarterIsAlone, Killing,
        Starting, CallEnds, CallGoesOn, Refreshes, Final, Idle, Alive,
        HoldsWhatItTook
<1> QED
  BY <1>1, <1>2, <1>3, <1>4, <1>5, <1>6, <1>7, <1>8, <1>9, <1>10, <1>11, <1>12,
     <1>13, <1>14, <1>15, <1>16, <1>17, <1>18, <1>19, <1>20, <1>21, <1>22,
     <1>23, <1>24, <1>25
  DEF Next, ReaderNext, CallerNext

(* Nothing is left of, or done to, a session that was never started.          *)
LEMMA NoTraceBeforeStartIsKept ==
  ASSUME Shape, Shape', ReaderHoldsWhatItTook, CallsAreWhatTheyAre,
         NoTraceBeforeStart, [Next]_vars
  PROVE  NoTraceBeforeStart'
<1> USE DEF NoTraceBeforeStart, CallsAreWhatTheyAre, Killing, Starting,
        CallEnds, CallGoesOn, Refreshes, Final, Idle, Alive
<1>1. ASSUME NEW s \in Sessions, Write(s) \/ Detach(s) \/ Exit(s)
      PROVE  NoTraceBeforeStart'
  BY <1>1, ProcessGoesOn, SMTT(10)
<1>2. ASSUME NEW s \in Sessions, ReaderSelects(s) \/ ReaderPolls(s) \/ ReaderFails(s)
      PROVE  NoTraceBeforeStart'
  BY <1>2, ReaderTurns, SMTT(10)
<1>3. ASSUME NEW s \in Sessions, ReaderReads(s) PROVE NoTraceBeforeStart'
  BY <1>3, ReaderTakes, SMTT(10)
<1>4. ASSUME NEW s \in Sessions, ReaderAppends(s) PROVE NoTraceBeforeStart'
  BY <1>4, ReaderWrites, SMTT(10)
<1>5. ASSUME NEW s \in Sessions, ReaderTerminates(s) PROVE NoTraceBeforeStart'
  BY <1>5, ReaderEnds, SMTT(10)
<1>6. ASSUME NEW s \in Sessions, ReaderReports(s) PROVE NoTraceBeforeStart'
  BY <1>6, ReaderSays, SMTT(10)
<1>7. ASSUME ListSessions \/ \E s \in Sessions : Look(s) PROVE NoTraceBeforeStart'
  BY <1>7, LooksRefresh, SMTT(10)
<1>8. ASSUME NEW s \in Sessions, Poll(s) PROVE NoTraceBeforeStart'
  BY <1>8, PollOnlyLooks, SMTT(10)
<1>9. ASSUME NEW c \in Callers, Register(c) PROVE NoTraceBeforeStart'
  BY <1>9, Registers, SMTT(10)
<1>10. ASSUME NEW c \in Callers, StartReader(c) PROVE NoTraceBeforeStart'
  BY <1>10, ReaderStarts, SMTT(10)
<1>11. ASSUME NEW c \in Callers, WaitReturns(c) PROVE NoTraceBeforeStart'
  BY <1>11, WaitIsOver, SMTT(10)
<1>12. ASSUME NEW c \in Callers, Terminate(c) PROVE NoTraceBeforeStart'
  BY <1>12, Terminates, SMTT(10)
<1>13. ASSUME NEW c \in Callers, FindSurvivors(c) PROVE NoTraceBeforeStart'
  BY <1>13, FindsSurvivors, SMTT(10)
<1>14. ASSUME NEW c \in Callers, RestoreRunning(c) PROVE NoTraceBeforeStart'
  BY <1>14, RestoresRunning, SMTT(10)
<1>15. ASSUME NEW c \in Callers, KillReturns(c) PROVE NoTraceBeforeStart'
  BY <1>15, KillIsOver, SMTT(10)
<1>16. ASSUME NEW c \in Callers, ResetReturns(c) PROVE NoTraceBeforeStart'
  BY <1>16, ResetIsOver, SMTT(10)
<1>17. ASSUME NEW c \in Callers, ResetClears(c) PROVE NoTraceBeforeStart'
  BY <1>17, ResetClearsAll, SMTT(10)
<1>18. ASSUME NEW c \in Callers, WriteLog(c) PROVE NoTraceBeforeStart'
  BY <1>18, LogIsWritten, SMTT(10)
<1>19. ASSUME NEW c \in Callers,
              CloseRuntime(c) \/ \E how \in {"reset", "clear"} : Reset(c, how)
       PROVE  NoTraceBeforeStart'
  BY <1>19, ResetMarksWhatRuns, SMTT(10)
<1>20. ASSUME NEW c \in Callers, NEW s \in Sessions, Kill(c, s)
       PROVE  NoTraceBeforeStart'
  BY <1>20, KillMarks, SMTT(10)
<1>21. ASSUME NEW c \in Callers, NEW s \in Sessions, NEW how \in {"background",
              "soft", "hard"}, Start(c, s, how)
       PROVE  NoTraceBeforeStart'
  BY <1>21, Starts, SMTT(10)
<1>22. ASSUME NEW c \in Callers, NEW s \in Sessions, NEW how \in {"replace",
              "append"}, WriteAllowed(c, s, how)
       PROVE  NoTraceBeforeStart'
  BY <1>22, WriteBegins, SMTT(10)
<1>23. ASSUME Create PROVE NoTraceBeforeStart'
  BY <1>23, Creates, ShellAssumption, SMTT(10) DEF Orphan
<1>24. ASSUME Die PROVE NoTraceBeforeStart'
  BY <1>24, EverythingDies, SMTT(10)
<1>25. ASSUME UNCHANGED vars PROVE NoTraceBeforeStart'
  BY <1>25, SMTT(10) DEF vars
<1> HIDE DEF NoTraceBeforeStart, CallsAreWhatTheyAre, Killing, Starting,
        CallEnds, CallGoesOn, Refreshes, Final, Idle, Alive
<1> QED
  BY <1>1, <1>2, <1>3, <1>4, <1>5, <1>6, <1>7, <1>8, <1>9, <1>10, <1>11, <1>12,
     <1>13, <1>14, <1>15, <1>16, <1>17, <1>18, <1>19, <1>20, <1>21, <1>22,
     <1>23, <1>24, <1>25
  DEF Next, ReaderNext, CallerNext

(* Until a session is registered, only its starter knows it.                  *)
LEMMA StarterIsAloneIsKept ==
  ASSUME Shape, Shape', ReaderHoldsWhatItTook, CallsAreWhatTheyAre,
         NoTraceBeforeStart, LockIsAResets, StarterIsAlone, [Next]_vars
  PROVE  StarterIsAlone'
<1> USE DEF StarterIsAlone, NoTraceBeforeStart, LockIsAResets, Killing,
        Starting, CallEnds, CallGoesOn, Refreshes, Final, Idle, Alive
<1>1. ASSUME NEW s \in Sessions, Write(s) \/ Detach(s) \/ Exit(s)
      PROVE  StarterIsAlone'
  BY <1>1, ProcessGoesOn, SMTT(10)
<1>2. ASSUME NEW s \in Sessions, ReaderSelects(s) \/ ReaderPolls(s) \/ ReaderFails(s)
      PROVE  StarterIsAlone'
  BY <1>2, ReaderTurns, SMTT(10)
<1>3. ASSUME NEW s \in Sessions, ReaderReads(s) PROVE StarterIsAlone'
  BY <1>3, ReaderTakes, SMTT(10)
<1>4. ASSUME NEW s \in Sessions, ReaderAppends(s) PROVE StarterIsAlone'
  BY <1>4, ReaderWrites, SMTT(10)
<1>5. ASSUME NEW s \in Sessions, ReaderTerminates(s) PROVE StarterIsAlone'
  BY <1>5, ReaderEnds, SMTT(10)
<1>6. ASSUME NEW s \in Sessions, ReaderReports(s) PROVE StarterIsAlone'
  BY <1>6, ReaderSays, SMTT(10)
<1>7. ASSUME ListSessions \/ \E s \in Sessions : Look(s) PROVE StarterIsAlone'
  BY <1>7, LooksRefresh, SMTT(10)
<1>8. ASSUME NEW s \in Sessions, Poll(s) PROVE StarterIsAlone'
  BY <1>8, PollOnlyLooks, SMTT(10)
<1>9. ASSUME NEW c \in Callers, Register(c) PROVE StarterIsAlone'
  BY <1>9, Registers, SMTT(10)
<1>10. ASSUME NEW c \in Callers, StartReader(c) PROVE StarterIsAlone'
  BY <1>10, ReaderStarts, SMTT(10)
<1>11. ASSUME NEW c \in Callers, WaitReturns(c) PROVE StarterIsAlone'
  BY <1>11, WaitIsOver, SMTT(10)
<1>12. ASSUME NEW c \in Callers, Terminate(c) PROVE StarterIsAlone'
  BY <1>12, Terminates, SMTT(10)
<1>13. ASSUME NEW c \in Callers, FindSurvivors(c) PROVE StarterIsAlone'
  BY <1>13, FindsSurvivors, SMTT(10)
<1>14. ASSUME NEW c \in Callers, RestoreRunning(c) PROVE StarterIsAlone'
  BY <1>14, RestoresRunning, SMTT(10)
<1>15. ASSUME NEW c \in Callers, KillReturns(c) PROVE StarterIsAlone'
  BY <1>15, KillIsOver, SMTT(10)
<1>16. ASSUME NEW c \in Callers, ResetReturns(c) PROVE StarterIsAlone'
  BY <1>16, ResetIsOver, SMTT(10)
<1>17. ASSUME NEW c \in Callers, ResetClears(c) PROVE StarterIsAlone'
  BY <1>17, ResetClearsAll, SMTT(10)
<1>18. ASSUME NEW c \in Callers, WriteLog(c) PROVE StarterIsAlone'
  BY <1>18, LogIsWritten, SMTT(10)
<1>19. ASSUME NEW c \in Callers,
              CloseRuntime(c) \/ \E how \in {"reset", "clear"} : Reset(c, how)
       PROVE  StarterIsAlone'
  BY <1>19, ResetMarksWhatRuns, SMTT(10)
<1>20. ASSUME NEW c \in Callers, NEW s \in Sessions, Kill(c, s)
       PROVE  StarterIsAlone'
  BY <1>20, KillMarks, SMTT(10)
<1>21. ASSUME NEW c \in Callers, NEW s \in Sessions, NEW how \in {"background",
              "soft", "hard"}, Start(c, s, how)
       PROVE  StarterIsAlone'
  BY <1>21, Starts, SMTT(10)
<1>22. ASSUME NEW c \in Callers, NEW s \in Sessions, NEW how \in {"replace",
              "append"}, WriteAllowed(c, s, how)
       PROVE  StarterIsAlone'
  BY <1>22, WriteBegins, SMTT(10)
<1>23. ASSUME Create PROVE StarterIsAlone'
  BY <1>23, Creates, SMTT(10)
<1>24. ASSUME Die PROVE StarterIsAlone'
  BY <1>24, EverythingDies, SMTT(10)
<1>25. ASSUME UNCHANGED vars PROVE StarterIsAlone'
  BY <1>25, SMTT(10) DEF vars
<1> HIDE DEF StarterIsAlone, NoTraceBeforeStart, LockIsAResets, Killing,
        Starting, CallEnds, CallGoesOn, Refreshes, Final, Idle, Alive
<1> QED
  BY <1>1, <1>2, <1>3, <1>4, <1>5, <1>6, <1>7, <1>8, <1>9, <1>10, <1>11, <1>12,
     <1>13, <1>14, <1>15, <1>16, <1>17, <1>18, <1>19, <1>20, <1>21, <1>22,
     <1>23, <1>24, <1>25
  DEF Next, ReaderNext, CallerNext

(* A kill that fails, at whatever moment, takes its word back.                *)
LEMMA KilledMeansGoneIsKept ==
  ASSUME Shape, Shape', ReaderHoldsWhatItTook, CallsAreWhatTheyAre,
         StarterIsAlone, NoTraceBeforeStart, LockIsAResets, KilledMeansGone,
         [Next]_vars
  PROVE  KilledMeansGone'
<1> SUFFICES ASSUME NEW t \in listed', status'[t] \in {"killed", "timed_out"}, Alive(t)',
                    \A d \in Callers : ~(/\ call'[d].at \in {"terminate", "restore", "restoring"}
                                           /\ t \in call'[d].targets)
             PROVE  FALSE
  BY DEF KilledMeansGone
<1>0. t \in Sessions /\ listed \subseteq Sessions
  BY DEF Shape
<1> USE DEF KilledMeansGone, StarterIsAlone, NoTraceBeforeStart, LockIsAResets,
        Killing, Starting, CallEnds, CallGoesOn, Refreshes, Final, Idle, Alive
<1>1. ASSUME NEW s \in Sessions, Write(s) \/ Detach(s) \/ Exit(s) PROVE FALSE
  BY <1>1, <1>0, ProcessGoesOn, SMTT(10)
<1>2. ASSUME NEW s \in Sessions, ReaderSelects(s) \/ ReaderPolls(s) \/ ReaderFails(s)
      PROVE  FALSE
  BY <1>2, <1>0, ReaderTurns, SMTT(10)
<1>3. ASSUME NEW s \in Sessions, ReaderReads(s) PROVE FALSE
  BY <1>3, <1>0, ReaderTakes, SMTT(10)
<1>4. ASSUME NEW s \in Sessions, ReaderAppends(s) PROVE FALSE
  BY <1>4, <1>0, ReaderWrites, SMTT(10)
<1>5. ASSUME NEW s \in Sessions, ReaderTerminates(s) PROVE FALSE
  BY <1>5, <1>0, ReaderEnds, SMTT(10)
<1>6. ASSUME NEW s \in Sessions, ReaderReports(s) PROVE FALSE
  BY <1>6, <1>0, ReaderSays, SMTT(10)
<1>7. ASSUME ListSessions \/ \E s \in Sessions : Look(s) PROVE FALSE
  BY <1>7, <1>0, LooksRefresh, SMTT(10)
<1>8. ASSUME NEW s \in Sessions, Poll(s) PROVE FALSE
  BY <1>8, <1>0, PollOnlyLooks, SMTT(10)
<1>9. ASSUME NEW c \in Callers, Register(c) PROVE FALSE
  BY <1>9, <1>0, Registers, SMTT(10)
<1>10. ASSUME NEW c \in Callers, StartReader(c) PROVE FALSE
  BY <1>10, <1>0, ReaderStarts, SMTT(10)
<1>11. ASSUME NEW c \in Callers, WaitReturns(c) PROVE FALSE
  BY <1>11, <1>0, WaitIsOver, SMTT(10)
<1>12. ASSUME NEW c \in Callers, Terminate(c) PROVE FALSE
  BY <1>12, <1>0, Terminates, SMTT(10)
<1>13. ASSUME NEW c \in Callers, FindSurvivors(c) PROVE FALSE
  BY <1>13, <1>0, FindsSurvivors, SMTT(10)
<1>14. ASSUME NEW c \in Callers, RestoreRunning(c) PROVE FALSE
  BY <1>14, <1>0, RestoresRunning, SMTT(10)
<1>15. ASSUME NEW c \in Callers, KillReturns(c) PROVE FALSE
  BY <1>15, <1>0, KillIsOver, SMTT(10)
<1>16. ASSUME NEW c \in Callers, ResetReturns(c) PROVE FALSE
  BY <1>16, <1>0, ResetIsOver, SMTT(10)
<1>17. ASSUME NEW c \in Callers, ResetClears(c) PROVE FALSE
  BY <1>17, <1>0, ResetClearsAll, SMTT(10)
<1>18. ASSUME NEW c \in Callers, WriteLog(c) PROVE FALSE
  BY <1>18, <1>0, LogIsWritten, SMTT(10)
<1>19. ASSUME NEW c \in Callers,
              CloseRuntime(c) \/ \E how \in {"reset", "clear"} : Reset(c, how)
       PROVE  FALSE
  BY <1>19, <1>0, ResetMarksWhatRuns, SMTT(10)
<1>20. ASSUME NEW c \in Callers, NEW s \in Sessions, Kill(c, s) PROVE FALSE
  BY <1>20, <1>0, KillMarks, SMTT(10)
<1>21. ASSUME NEW c \in Callers, NEW s \in Sessions, NEW how \in {"background",
              "soft", "hard"}, Start(c, s, how)
       PROVE  FALSE
  BY <1>21, <1>0, Starts, SMTT(10)
<1>22. ASSUME NEW c \in Callers, NEW s \in Sessions, NEW how \in {"replace",
              "append"}, WriteAllowed(c, s, how)
       PROVE  FALSE
  BY <1>22, <1>0, WriteBegins, SMTT(10)
<1>23. ASSUME Create PROVE FALSE
  BY <1>23, <1>0, Creates, SMTT(10)
<1>24. ASSUME Die PROVE FALSE
  BY <1>24, <1>0, EverythingDies, SMTT(10)
<1>25. ASSUME UNCHANGED vars PROVE FALSE
  BY <1>25, <1>0, SMTT(10) DEF vars
<1> HIDE DEF KilledMeansGone, StarterIsAlone, NoTraceBeforeStart, LockIsAResets,
        Killing, Starting, CallEnds, CallGoesOn, Refreshes, Final, Idle, Alive
<1> QED
  BY <1>1, <1>2, <1>3, <1>4, <1>5, <1>6, <1>7, <1>8, <1>9, <1>10, <1>11, <1>12,
     <1>13, <1>14, <1>15, <1>16, <1>17, <1>18, <1>19, <1>20, <1>21, <1>22,
     <1>23, <1>24, <1>25
  DEF Next, ReaderNext, CallerNext

(* Whoever ends a session, or finds it ended, saves that.                     *)
LEMMA ManifestTellsTheEndIsKept ==
  ASSUME Shape, Shape', ReaderHoldsWhatItTook, CallsAreWhatTheyAre,
         StarterIsAlone, FailureIsNoted, LockIsAResets, ManifestTellsTheEnd,
         [Next]_vars
  PROVE  ManifestTellsTheEnd'
<1> SUFFICES ASSUME NEW t \in listed' \ unkilled', status'[t] \in Final,
                    \A d \in Callers : t \in call'[d].targets => call'[d].at \notin Killing
             PROVE  manifest'[t] = status'[t]
  BY DEF ManifestTellsTheEnd
<1>0. t \in Sessions /\ listed \subseteq Sessions
  BY DEF Shape
<1> USE DEF ManifestTellsTheEnd, StarterIsAlone, FailureIsNoted, LockIsAResets,
        Killing, Starting, CallEnds, CallGoesOn, Refreshes, Final, Idle, Alive
<1>1. ASSUME NEW s \in Sessions, Write(s) \/ Detach(s) \/ Exit(s)
      PROVE  manifest'[t] = status'[t]
  BY <1>1, <1>0, ProcessGoesOn, SMTT(10)
<1>2. ASSUME NEW s \in Sessions, ReaderSelects(s) \/ ReaderPolls(s) \/ ReaderFails(s)
      PROVE  manifest'[t] = status'[t]
  BY <1>2, <1>0, ReaderTurns, SMTT(10)
<1>3. ASSUME NEW s \in Sessions, ReaderReads(s) PROVE manifest'[t] = status'[t]
  BY <1>3, <1>0, ReaderTakes, SMTT(10)
<1>4. ASSUME NEW s \in Sessions, ReaderAppends(s) PROVE manifest'[t] = status'[t]
  BY <1>4, <1>0, ReaderWrites, SMTT(10)
<1>5. ASSUME NEW s \in Sessions, ReaderTerminates(s) PROVE manifest'[t] = status'[t]
  BY <1>5, <1>0, ReaderEnds, SMTT(10)
<1>6. ASSUME NEW s \in Sessions, ReaderReports(s) PROVE manifest'[t] = status'[t]
  BY <1>6, <1>0, ReaderSays, SMTT(10)
<1>7. ASSUME ListSessions \/ \E s \in Sessions : Look(s)
      PROVE  manifest'[t] = status'[t]
  BY <1>7, <1>0, LooksRefresh, SMTT(10)
<1>8. ASSUME NEW s \in Sessions, Poll(s) PROVE manifest'[t] = status'[t]
  BY <1>8, <1>0, PollOnlyLooks, SMTT(10)
<1>9. ASSUME NEW c \in Callers, Register(c) PROVE manifest'[t] = status'[t]
  BY <1>9, <1>0, Registers, SMTT(10)
<1>10. ASSUME NEW c \in Callers, StartReader(c) PROVE manifest'[t] = status'[t]
  BY <1>10, <1>0, ReaderStarts, SMTT(10)
<1>11. ASSUME NEW c \in Callers, WaitReturns(c) PROVE manifest'[t] = status'[t]
  BY <1>11, <1>0, WaitIsOver, SMTT(10)
<1>12. ASSUME NEW c \in Callers, Terminate(c) PROVE manifest'[t] = status'[t]
  BY <1>12, <1>0, Terminates, SMTT(10)
<1>13. ASSUME NEW c \in Callers, FindSurvivors(c) PROVE manifest'[t] = status'[t]
  BY <1>13, <1>0, FindsSurvivors, SMTT(10)
<1>14. ASSUME NEW c \in Callers, RestoreRunning(c) PROVE manifest'[t] = status'[t]
  BY <1>14, <1>0, RestoresRunning, SMTT(10)
<1>15. ASSUME NEW c \in Callers, KillReturns(c) PROVE manifest'[t] = status'[t]
  BY <1>15, <1>0, KillIsOver, SMTT(10)
<1>16. ASSUME NEW c \in Callers, ResetReturns(c) PROVE manifest'[t] = status'[t]
  BY <1>16, <1>0, ResetIsOver, SMTT(10)
<1>17. ASSUME NEW c \in Callers, ResetClears(c) PROVE manifest'[t] = status'[t]
  BY <1>17, <1>0, ResetClearsAll, SMTT(10)
<1>18. ASSUME NEW c \in Callers, WriteLog(c) PROVE manifest'[t] = status'[t]
  BY <1>18, <1>0, LogIsWritten, SMTT(10)
<1>19. ASSUME NEW c \in Callers,
              CloseRuntime(c) \/ \E how \in {"reset", "clear"} : Reset(c, how)
       PROVE  manifest'[t] = status'[t]
  BY <1>19, <1>0, ResetMarksWhatRuns, SMTT(10)
<1>20. ASSUME NEW c \in Callers, NEW s \in Sessions, Kill(c, s)
       PROVE  manifest'[t] = status'[t]
  BY <1>20, <1>0, KillMarks, SMTT(10)
<1>21. ASSUME NEW c \in Callers, NEW s \in Sessions, NEW how \in {"background",
              "soft", "hard"}, Start(c, s, how)
       PROVE  manifest'[t] = status'[t]
  BY <1>21, <1>0, Starts, SMTT(10)
<1>22. ASSUME NEW c \in Callers, NEW s \in Sessions, NEW how \in {"replace",
              "append"}, WriteAllowed(c, s, how)
       PROVE  manifest'[t] = status'[t]
  BY <1>22, <1>0, WriteBegins, SMTT(10)
<1>23. ASSUME Create PROVE manifest'[t] = status'[t]
  BY <1>23, <1>0, Creates, SMTT(10) DEF LockIsAResets
<1>24. ASSUME Die PROVE manifest'[t] = status'[t]
  BY <1>24, <1>0, EverythingDies, SMTT(10)
<1>25. ASSUME UNCHANGED vars PROVE manifest'[t] = status'[t]
  BY <1>25, <1>0, SMTT(10) DEF vars
<1> HIDE DEF ManifestTellsTheEnd, StarterIsAlone, FailureIsNoted, LockIsAResets,
        Killing, Starting, CallEnds, CallGoesOn, Refreshes, Final, Idle, Alive
<1> QED
  BY <1>1, <1>2, <1>3, <1>4, <1>5, <1>6, <1>7, <1>8, <1>9, <1>10, <1>11, <1>12,
     <1>13, <1>14, <1>15, <1>16, <1>17, <1>18, <1>19, <1>20, <1>21, <1>22,
     <1>23, <1>24, <1>25
  DEF Next, ReaderNext, CallerNext

(* A kill that fails is noted before it is taken back.                        *)
LEMMA FailureIsNotedIsKept ==
  ASSUME Shape, Shape', ReaderHoldsWhatItTook, CallsAreWhatTheyAre,
         FailureIsNoted, [Next]_vars
  PROVE  FailureIsNoted'
<1> USE DEF FailureIsNoted, Killing, Starting, CallEnds, CallGoesOn, Refreshes,
        Final, Idle, Alive
<1>1. ASSUME NEW s \in Sessions, Write(s) \/ Detach(s) \/ Exit(s)
      PROVE  FailureIsNoted'
  BY <1>1, ProcessGoesOn, SMTT(10)
<1>2. ASSUME NEW s \in Sessions, ReaderSelects(s) \/ ReaderPolls(s) \/ ReaderFails(s)
      PROVE  FailureIsNoted'
  BY <1>2, ReaderTurns, SMTT(10)
<1>3. ASSUME NEW s \in Sessions, ReaderReads(s) PROVE FailureIsNoted'
  BY <1>3, ReaderTakes, SMTT(10)
<1>4. ASSUME NEW s \in Sessions, ReaderAppends(s) PROVE FailureIsNoted'
  BY <1>4, ReaderWrites, SMTT(10)
<1>5. ASSUME NEW s \in Sessions, ReaderTerminates(s) PROVE FailureIsNoted'
  BY <1>5, ReaderEnds, SMTT(10)
<1>6. ASSUME NEW s \in Sessions, ReaderReports(s) PROVE FailureIsNoted'
  BY <1>6, ReaderSays, SMTT(10)
<1>7. ASSUME ListSessions \/ \E s \in Sessions : Look(s) PROVE FailureIsNoted'
  BY <1>7, LooksRefresh, SMTT(10)
<1>8. ASSUME NEW s \in Sessions, Poll(s) PROVE FailureIsNoted'
  BY <1>8, PollOnlyLooks, SMTT(10)
<1>9. ASSUME NEW c \in Callers, Register(c) PROVE FailureIsNoted'
  BY <1>9, Registers, SMTT(10)
<1>10. ASSUME NEW c \in Callers, StartReader(c) PROVE FailureIsNoted'
  BY <1>10, ReaderStarts, SMTT(10)
<1>11. ASSUME NEW c \in Callers, WaitReturns(c) PROVE FailureIsNoted'
  BY <1>11, WaitIsOver, SMTT(10)
<1>12. ASSUME NEW c \in Callers, Terminate(c) PROVE FailureIsNoted'
  BY <1>12, Terminates, SMTT(10)
<1>13. ASSUME NEW c \in Callers, FindSurvivors(c) PROVE FailureIsNoted'
  <2>1. \A d \in Callers : call[d].targets \subseteq Sessions /\ call'[d].targets \subseteq Sessions
    BY DEF Shape, Calls
  <2> QED
    BY <1>13, <2>1, FindsSurvivors, SMTT(10)
<1>14. ASSUME NEW c \in Callers, RestoreRunning(c) PROVE FailureIsNoted'
  BY <1>14, RestoresRunning, SMTT(10)
<1>15. ASSUME NEW c \in Callers, KillReturns(c) PROVE FailureIsNoted'
  BY <1>15, KillIsOver, SMTT(10)
<1>16. ASSUME NEW c \in Callers, ResetReturns(c) PROVE FailureIsNoted'
  BY <1>16, ResetIsOver, SMTT(10)
<1>17. ASSUME NEW c \in Callers, ResetClears(c) PROVE FailureIsNoted'
  BY <1>17, ResetClearsAll, SMTT(10)
<1>18. ASSUME NEW c \in Callers, WriteLog(c) PROVE FailureIsNoted'
  BY <1>18, LogIsWritten, SMTT(10)
<1>19. ASSUME NEW c \in Callers,
              CloseRuntime(c) \/ \E how \in {"reset", "clear"} : Reset(c, how)
       PROVE  FailureIsNoted'
  BY <1>19, ResetMarksWhatRuns, SMTT(10)
<1>20. ASSUME NEW c \in Callers, NEW s \in Sessions, Kill(c, s)
       PROVE  FailureIsNoted'
  BY <1>20, KillMarks, SMTT(10)
<1>21. ASSUME NEW c \in Callers, NEW s \in Sessions, NEW how \in {"background",
              "soft", "hard"}, Start(c, s, how)
       PROVE  FailureIsNoted'
  BY <1>21, Starts, SMTT(10)
<1>22. ASSUME NEW c \in Callers, NEW s \in Sessions, NEW how \in {"replace",
              "append"}, WriteAllowed(c, s, how)
       PROVE  FailureIsNoted'
  BY <1>22, WriteBegins, SMTT(10)
<1>23. ASSUME Create PROVE FailureIsNoted'
  BY <1>23, Creates, SMTT(10)
<1>24. ASSUME Die PROVE FailureIsNoted'
  BY <1>24, EverythingDies, SMTT(10)
<1>25. ASSUME UNCHANGED vars PROVE FailureIsNoted'
  BY <1>25, SMTT(10) DEF vars
<1> HIDE DEF FailureIsNoted, Killing, Starting, CallEnds, CallGoesOn, Refreshes,
        Final, Idle, Alive
<1> QED
  BY <1>1, <1>2, <1>3, <1>4, <1>5, <1>6, <1>7, <1>8, <1>9, <1>10, <1>11, <1>12,
     <1>13, <1>14, <1>15, <1>16, <1>17, <1>18, <1>19, <1>20, <1>21, <1>22,
     <1>23, <1>24, <1>25
  DEF Next, ReaderNext, CallerNext

(* The reader appends what it took, in order and once.                        *)
LEMMA LogIsTheOutputIsKept ==
  ASSUME Shape, Shape', ReaderHoldsWhatItTook, CallsAreWhatTheyAre,
         NoTraceBeforeStart, StarterIsAlone, LogIsTheOutput, [Next]_vars
  PROVE  LogIsTheOutput'
<1> SUFFICES ASSUME NEW t \in Sessions PROVE LogIsOutput(t)'
  BY DEF LogIsTheOutput
<1>0. /\ reader[t].taken \in Nat /\ process[t].wrote \in Nat /\ process'[t].wrote \in Nat
      /\ reader'[t].taken \in Nat
      /\ \A d \in Callers : call[d].targets \subseteq Sessions
  BY ShellAssumption DEF Shape, Readers, Processes, Calls
<1> USE DEF LogIsTheOutput, NoTraceBeforeStart, StarterIsAlone, Killing,
        Starting, CallEnds, CallGoesOn, Refreshes, Final, Idle, Alive,
        LogIsOutput
<1>1. ASSUME NEW s \in Sessions, Write(s) \/ Detach(s) \/ Exit(s)
      PROVE  LogIsOutput(t)'
  BY <1>1, <1>0, ProcessGoesOn, SMTT(10)
<1>2. ASSUME NEW s \in Sessions, ReaderSelects(s) \/ ReaderPolls(s) \/ ReaderFails(s)
      PROVE  LogIsOutput(t)'
  BY <1>2, <1>0, ReaderTurns, SMTT(10)
<1>3. ASSUME NEW s \in Sessions, ReaderReads(s) PROVE LogIsOutput(t)'
  BY <1>3, <1>0, ReaderTakes, SMTT(10)
<1>4. ASSUME NEW s \in Sessions, ReaderAppends(s) PROVE LogIsOutput(t)'
  <2>1. /\ reader[s].at = "append" /\ reader'[s].at = "select"
        /\ reader'[s].taken = reader[s].taken
        /\ log'[s] = IF log[s] = NoFile THEN reader[s].held ELSE log[s] \o reader[s].held
        /\ \A u \in Sessions : u # s => reader'[u] = reader[u] /\ log'[u] = log[u]
        /\ UNCHANGED <<process, client>>
    BY <1>4, ReaderWrites
  <2>2. CASE t # s
    BY <2>1, <2>2
  <2>3. CASE t = s /\ process[t].at # "none" /\ ~client[t].rewritten
    <3>1. /\ log[t] \in Seq(0..MaxOutput)
          /\ reader[t].held = Bytes(Len(log[t]) + 1, reader[t].taken)
          /\ Len(log[t]) <= reader[t].taken
          /\ \A i \in 1..Len(log[t]) : log[t][i] = i
      BY <2>1, <2>3
    <3>2. reader[t].taken \in Nat /\ reader[t].taken <= MaxOutput /\ MaxOutput \in Nat
      BY ShellAssumption DEF Shape, Readers
    <3>3. log'[t] = log[t] \o Bytes(Len(log[t]) + 1, reader[t].taken)
      BY <2>1, <2>3, <3>1, ShellAssumption
    <3>4. /\ log'[t] \in Seq(0..MaxOutput) /\ Len(log'[t]) = reader[t].taken
          /\ \A i \in 1..reader[t].taken : log'[t][i] = i
      <4> DEFINE old == log[t]  upto == reader[t].taken
      <4>1. /\ old \in Seq(0..MaxOutput) /\ upto \in Nat /\ Len(old) <= upto
            /\ upto <= MaxOutput /\ MaxOutput \in Nat
            /\ \A i \in 1..Len(old) : old[i] = i
        BY <3>1, <3>2
      <4>2. log'[t] = old \o Bytes(Len(old) + 1, upto)
        BY <3>3
      <4> HIDE DEF old, upto
      <4>3. /\ old \o Bytes(Len(old) + 1, upto) \in Seq(0..MaxOutput)
            /\ Len(old \o Bytes(Len(old) + 1, upto)) = upto
            /\ \A i \in 1..upto : (old \o Bytes(Len(old) + 1, upto))[i] = i
        BY <4>1, OutputGoesOn
      <4> QED
        BY <4>2, <4>3, Zenon DEF upto
    <3> QED
      BY <2>1, <2>3, <3>2, <3>4
  <2> QED
    BY <2>1, <2>2, <2>3
<1>5. ASSUME NEW s \in Sessions, ReaderTerminates(s) PROVE LogIsOutput(t)'
  BY <1>5, <1>0, ReaderEnds, SMTT(10)
<1>6. ASSUME NEW s \in Sessions, ReaderReports(s) PROVE LogIsOutput(t)'
  BY <1>6, <1>0, ReaderSays, SMTT(10)
<1>7. ASSUME ListSessions \/ \E s \in Sessions : Look(s) PROVE LogIsOutput(t)'
  BY <1>7, <1>0, LooksRefresh, SMTT(10)
<1>8. ASSUME NEW s \in Sessions, Poll(s) PROVE LogIsOutput(t)'
  BY <1>8, <1>0, PollOnlyLooks, SMTT(10)
<1>9. ASSUME NEW c \in Callers, Register(c) PROVE LogIsOutput(t)'
  BY <1>9, <1>0, Registers, SMTT(10)
<1>10. ASSUME NEW c \in Callers, StartReader(c) PROVE LogIsOutput(t)'
  BY <1>10, <1>0, ReaderStarts, SMTT(10)
<1>11. ASSUME NEW c \in Callers, WaitReturns(c) PROVE LogIsOutput(t)'
  BY <1>11, <1>0, WaitIsOver, SMTT(10)
<1>12. ASSUME NEW c \in Callers, Terminate(c) PROVE LogIsOutput(t)'
  BY <1>12, <1>0, Terminates, SMTT(10)
<1>13. ASSUME NEW c \in Callers, FindSurvivors(c) PROVE LogIsOutput(t)'
  BY <1>13, <1>0, FindsSurvivors, SMTT(10)
<1>14. ASSUME NEW c \in Callers, RestoreRunning(c) PROVE LogIsOutput(t)'
  BY <1>14, <1>0, RestoresRunning, SMTT(10)
<1>15. ASSUME NEW c \in Callers, KillReturns(c) PROVE LogIsOutput(t)'
  BY <1>15, <1>0, KillIsOver, SMTT(10)
<1>16. ASSUME NEW c \in Callers, ResetReturns(c) PROVE LogIsOutput(t)'
  BY <1>16, <1>0, ResetIsOver, SMTT(10)
<1>17. ASSUME NEW c \in Callers, ResetClears(c) PROVE LogIsOutput(t)'
  <2>1. \/ client'[t].rewritten
        \/ client'[t] = client[t] /\ log'[t] = log[t]
    BY <1>17, ResetClearsAll DEF Rewritten
  <2>2. UNCHANGED <<process, reader>>
    BY <1>17, ResetClearsAll
  <2> QED
    BY <2>1, <2>2, SMTT(10)
<1>18. ASSUME NEW c \in Callers, WriteLog(c) PROVE LogIsOutput(t)'
  <2>1. \/ client'[t].rewritten
        \/ client'[t] = client[t] /\ log'[t] = log[t]
    BY <1>18, LogIsWritten DEF Rewritten
  <2>2. UNCHANGED <<process, reader>>
    BY <1>18, LogIsWritten
  <2> QED
    BY <2>1, <2>2, SMTT(10)
<1>19. ASSUME NEW c \in Callers,
              CloseRuntime(c) \/ \E how \in {"reset", "clear"} : Reset(c, how)
       PROVE  LogIsOutput(t)'
  BY <1>19, <1>0, ResetMarksWhatRuns, SMTT(10)
<1>20. ASSUME NEW c \in Callers, NEW s \in Sessions, Kill(c, s)
       PROVE  LogIsOutput(t)'
  BY <1>20, <1>0, KillMarks, SMTT(10)
<1>21. ASSUME NEW c \in Callers, NEW s \in Sessions, NEW how \in {"background",
              "soft", "hard"}, Start(c, s, how)
       PROVE  LogIsOutput(t)'
  <2>1. CASE t = s
    <3>1. /\ process[t].at = "none" /\ log'[t] = <<>> /\ reader'[t] = reader[t]
      BY <1>21, <2>1, Starts
    <3>2. reader[t].at = "unborn" /\ reader[t].taken = 0
      BY <3>1, <1>0
    <3>3. <<>> \in Seq(0..MaxOutput) /\ Len(<<>>) = 0
      BY EmptySeq
    <3> QED
      BY <3>1, <3>2, <3>3
  <2>2. CASE t # s
    BY <1>21, <2>2, Starts
  <2> QED
    BY <2>1, <2>2
<1>22. ASSUME NEW c \in Callers, NEW s \in Sessions, NEW how \in {"replace",
              "append"}, WriteAllowed(c, s, how)
       PROVE  LogIsOutput(t)'
  BY <1>22, <1>0, WriteBegins, SMTT(10)
<1>23. ASSUME Create PROVE LogIsOutput(t)'
  BY <1>23, <1>0, Creates, SMTT(10)
<1>24. ASSUME Die PROVE LogIsOutput(t)'
  BY <1>24, <1>0, EverythingDies, SMTT(10)
<1>25. ASSUME UNCHANGED vars PROVE LogIsOutput(t)'
  BY <1>25, <1>0, SMTT(10) DEF vars
<1> HIDE DEF LogIsTheOutput, NoTraceBeforeStart, StarterIsAlone, Killing,
        Starting, CallEnds, CallGoesOn, Refreshes, Final, Idle, Alive,
        LogIsOutput
<1> QED
  BY <1>1, <1>2, <1>3, <1>4, <1>5, <1>6, <1>7, <1>8, <1>9, <1>10, <1>11, <1>12,
     <1>13, <1>14, <1>15, <1>16, <1>17, <1>18, <1>19, <1>20, <1>21, <1>22,
     <1>23, <1>24, <1>25
  DEF Next, ReaderNext, CallerNext

(* Polls go on where the last one ended.                                      *)
LEMMA ClientHasTheLogIsKept ==
  ASSUME Shape, Shape', ReaderHoldsWhatItTook, CallsAreWhatTheyAre,
         LogIsTheOutput, NoTraceBeforeStart, ClientHasTheLog, [Next]_vars
  PROVE  ClientHasTheLog'
<1> SUFFICES ASSUME NEW t \in Sessions PROVE HasTheLog(t)'
  BY DEF ClientHasTheLog
<1>0. /\ reader[t].taken \in Nat /\ process[t].wrote \in Nat /\ process'[t].wrote \in Nat
      /\ reader'[t].taken \in Nat
      /\ \A d \in Callers : call[d].targets \subseteq Sessions
  BY ShellAssumption DEF Shape, Readers, Processes, Calls
<1> USE DEF ClientHasTheLog, LogIsTheOutput, NoTraceBeforeStart, Killing,
        Starting, CallEnds, CallGoesOn, Refreshes, Final, Idle, Alive,
        HasTheLog, LogIsOutput
<1>1. ASSUME NEW s \in Sessions, Write(s) \/ Detach(s) \/ Exit(s)
      PROVE  HasTheLog(t)'
  BY <1>1, <1>0, ProcessGoesOn, SMTT(10)
<1>2. ASSUME NEW s \in Sessions, ReaderSelects(s) \/ ReaderPolls(s) \/ ReaderFails(s)
      PROVE  HasTheLog(t)'
  BY <1>2, <1>0, ReaderTurns, SMTT(10)
<1>3. ASSUME NEW s \in Sessions, ReaderReads(s) PROVE HasTheLog(t)'
  BY <1>3, <1>0, ReaderTakes, SMTT(10)
<1>4. ASSUME NEW s \in Sessions, ReaderAppends(s) PROVE HasTheLog(t)'
  <2>1. /\ reader[s].at = "append" /\ reader'[s].at = "select"
        /\ reader'[s].taken = reader[s].taken
        /\ log'[s] = IF log[s] = NoFile THEN reader[s].held ELSE log[s] \o reader[s].held
        /\ \A u \in Sessions : u # s => reader'[u] = reader[u] /\ log'[u] = log[u]
        /\ UNCHANGED <<process, client>>
    BY <1>4, ReaderWrites
  <2>2. CASE t # s
    BY <2>1, <2>2
  <2>3. CASE t = s /\ process[t].at # "none" /\ ~client[t].rewritten
    <3>1. /\ log[t] \in Seq(0..MaxOutput) /\ reader[t].held \in Seq(0..MaxOutput)
          /\ log'[t] = log[t] \o reader[t].held
      BY <2>1, <2>3, ShellAssumption DEF Shape, Readers
    <3>2. Len(log[t]) \in Nat /\ Len(log'[t]) \in Nat /\ Len(log[t]) <= Len(log'[t])
      BY <3>1, LogGrows
    <3>3. client[t].cursor \in Nat
      BY DEF Shape, Clients
    <3> QED
      BY <2>1, <2>3, <3>2, <3>3
  <2> QED
    BY <2>1, <2>2, <2>3
<1>5. ASSUME NEW s \in Sessions, ReaderTerminates(s) PROVE HasTheLog(t)'
  BY <1>5, <1>0, ReaderEnds, SMTT(10)
<1>6. ASSUME NEW s \in Sessions, ReaderReports(s) PROVE HasTheLog(t)'
  BY <1>6, <1>0, ReaderSays, SMTT(10)
<1>7. ASSUME ListSessions \/ \E s \in Sessions : Look(s) PROVE HasTheLog(t)'
  BY <1>7, <1>0, LooksRefresh, SMTT(10)
<1>8. ASSUME NEW s \in Sessions, Poll(s) PROVE HasTheLog(t)'
  <2>1. CASE t # s
    BY <1>8, <2>1, PollOnlyLooks
  <2>2. CASE t = s
    <3>1. /\ s \in listed \/ manager.orphaned[s] # NoFile
          /\ ~client[t].rewritten /\ UNCHANGED <<process, log>>
      BY <1>8, <2>2, PollOnlyLooks
    <3>2. /\ process[t].at # "none" /\ log[t] \in Seq(0..MaxOutput) /\ Len(log[t]) \in Nat
          /\ \A i \in 1..Len(log[t]) : log[t][i] = i
      BY <2>2, <3>1
    <3>3. PICK max \in Pages, running \in BOOLEAN :
            /\ client'[s].cursor = Page(s, client[s].cursor, max, running).next
            /\ client'[s].got = client[s].got \o Page(s, client[s].cursor, max, running).output
            /\ ~client'[s].over => ~client[s].over /\ running
      BY <1>8, PollGoesOn
    <3>4. /\ client[t].cursor \in Nat /\ client[t].got \in Seq(0..MaxOutput)
          /\ max \in Nat \ {0}
      BY ShellAssumption DEF Shape, Clients
    <3>5. /\ client[t].cursor = Len(client[t].got) /\ client[t].cursor <= Len(log[t])
          /\ \A i \in 1..client[t].cursor : client[t].got[i] = i
          /\ ~client[t].over => client[t].cursor % 2 = 0
      BY <3>1, <3>2, <3>4
    <3>6. LET page == Page(t, client[t].cursor, max, running)
              now  == client[t].got \o page.output
          IN  /\ page.next \in Nat /\ page.next <= Len(log[t])
              /\ page.next = Len(now) /\ \A i \in 1..page.next : now[i] = i
              /\ running /\ client[t].cursor % 2 = 0 => page.next % 2 = 0
      BY <3>2, <3>4, <3>5, ShellAssumption, ClientGoesOn
    <3>7. /\ client'[t].cursor \in Nat /\ client'[t].cursor <= Len(log[t])
          /\ client'[t].cursor = Len(client'[t].got)
          /\ \A i \in 1..client'[t].cursor : client'[t].got[i] = i
          /\ running /\ client[t].cursor % 2 = 0 => client'[t].cursor % 2 = 0
      BY <2>2, <3>3, <3>6, Zenon
    <3> QED
      BY <2>2, <3>1, <3>2, <3>3, <3>5, <3>7
  <2> QED
    BY <2>1, <2>2
<1>9. ASSUME NEW c \in Callers, Register(c) PROVE HasTheLog(t)'
  BY <1>9, <1>0, Registers, SMTT(10)
<1>10. ASSUME NEW c \in Callers, StartReader(c) PROVE HasTheLog(t)'
  BY <1>10, <1>0, ReaderStarts, SMTT(10)
<1>11. ASSUME NEW c \in Callers, WaitReturns(c) PROVE HasTheLog(t)'
  BY <1>11, <1>0, WaitIsOver, SMTT(10)
<1>12. ASSUME NEW c \in Callers, Terminate(c) PROVE HasTheLog(t)'
  BY <1>12, <1>0, Terminates, SMTT(10)
<1>13. ASSUME NEW c \in Callers, FindSurvivors(c) PROVE HasTheLog(t)'
  BY <1>13, <1>0, FindsSurvivors, SMTT(10)
<1>14. ASSUME NEW c \in Callers, RestoreRunning(c) PROVE HasTheLog(t)'
  BY <1>14, <1>0, RestoresRunning, SMTT(10)
<1>15. ASSUME NEW c \in Callers, KillReturns(c) PROVE HasTheLog(t)'
  BY <1>15, <1>0, KillIsOver, SMTT(10)
<1>16. ASSUME NEW c \in Callers, ResetReturns(c) PROVE HasTheLog(t)'
  BY <1>16, <1>0, ResetIsOver, SMTT(10)
<1>17. ASSUME NEW c \in Callers, ResetClears(c) PROVE HasTheLog(t)'
  <2>1. \/ client'[t].rewritten
        \/ client'[t] = client[t] /\ log'[t] = log[t]
    BY <1>17, ResetClearsAll DEF Rewritten
  <2>2. UNCHANGED <<process, reader>>
    BY <1>17, ResetClearsAll
  <2> QED
    BY <2>1, <2>2, SMTT(10)
<1>18. ASSUME NEW c \in Callers, WriteLog(c) PROVE HasTheLog(t)'
  <2>1. \/ client'[t].rewritten
        \/ client'[t] = client[t] /\ log'[t] = log[t]
    BY <1>18, LogIsWritten DEF Rewritten
  <2>2. UNCHANGED <<process, reader>>
    BY <1>18, LogIsWritten
  <2> QED
    BY <2>1, <2>2, SMTT(10)
<1>19. ASSUME NEW c \in Callers,
              CloseRuntime(c) \/ \E how \in {"reset", "clear"} : Reset(c, how)
       PROVE  HasTheLog(t)'
  BY <1>19, <1>0, ResetMarksWhatRuns, SMTT(10)
<1>20. ASSUME NEW c \in Callers, NEW s \in Sessions, Kill(c, s) PROVE HasTheLog(t)'
  BY <1>20, <1>0, KillMarks, SMTT(10)
<1>21. ASSUME NEW c \in Callers, NEW s \in Sessions, NEW how \in {"background",
              "soft", "hard"}, Start(c, s, how)
       PROVE  HasTheLog(t)'
  BY <1>21, <1>0, Starts, SMTT(10)
<1>22. ASSUME NEW c \in Callers, NEW s \in Sessions, NEW how \in {"replace",
              "append"}, WriteAllowed(c, s, how)
       PROVE  HasTheLog(t)'
  BY <1>22, <1>0, WriteBegins, SMTT(10)
<1>23. ASSUME Create PROVE HasTheLog(t)'
  BY <1>23, <1>0, Creates, SMTT(10)
<1>24. ASSUME Die PROVE HasTheLog(t)'
  BY <1>24, <1>0, EverythingDies, SMTT(10)
<1>25. ASSUME UNCHANGED vars PROVE HasTheLog(t)'
  BY <1>25, <1>0, SMTT(10) DEF vars
<1> HIDE DEF ClientHasTheLog, LogIsTheOutput, NoTraceBeforeStart, Killing,
        Starting, CallEnds, CallGoesOn, Refreshes, Final, Idle, Alive,
        HasTheLog, LogIsOutput
<1> QED
  BY <1>1, <1>2, <1>3, <1>4, <1>5, <1>6, <1>7, <1>8, <1>9, <1>10, <1>11, <1>12,
     <1>13, <1>14, <1>15, <1>16, <1>17, <1>18, <1>19, <1>20, <1>21, <1>22,
     <1>23, <1>24, <1>25
  DEF Next, ReaderNext, CallerNext

(* Every step keeps the invariant.                                            *)
THEOREM NextIsInductive == IInv /\ [Next]_vars => IInv'
<1> SUFFICES ASSUME IInv, [Next]_vars PROVE IInv'
  OBVIOUS
<1>1. /\ Shape
      /\ CallsAreWhatTheyAre
      /\ LockIsAResets
      /\ ReaderHoldsWhatItTook
      /\ NoTraceBeforeStart
      /\ StarterIsAlone
      /\ KilledMeansGone
      /\ ManifestTellsTheEnd
      /\ FailureIsNoted
      /\ LogIsTheOutput
      /\ ClientHasTheLog
  BY DEF IInv, Held
<1>2. Shape'
  BY <1>1, ShapeIsKept
<1>3. CallsAreWhatTheyAre'
  BY <1>1, <1>2, CallsAreWhatTheyAreIsKept
<1>4. LockIsAResets'
  BY <1>1, <1>2, LockIsAResetsIsKept
<1>5. ReaderHoldsWhatItTook'
  BY <1>1, <1>2, ReaderHoldsWhatItTookIsKept
<1>6. NoTraceBeforeStart'
  BY <1>1, <1>2, NoTraceBeforeStartIsKept
<1>7. StarterIsAlone'
  BY <1>1, <1>2, StarterIsAloneIsKept
<1>8. KilledMeansGone'
  BY <1>1, <1>2, KilledMeansGoneIsKept
<1>9. ManifestTellsTheEnd'
  BY <1>1, <1>2, ManifestTellsTheEndIsKept
<1>10. FailureIsNoted'
  BY <1>1, <1>2, FailureIsNotedIsKept
<1>11. LogIsTheOutput'
  BY <1>1, <1>2, LogIsTheOutputIsKept
<1>12. ClientHasTheLog'
  BY <1>1, <1>2, ClientHasTheLogIsKept
<1> QED
  BY <1>2, <1>3, <1>4, <1>5, <1>6, <1>7, <1>8, <1>9, <1>10, <1>11, <1>12 DEF
     IInv, Held

(* The invariant holds at the start.                                          *)
LEMMA InitIsInductive == Init => IInv
<1> SUFFICES ASSUME Init PROVE IInv
  OBVIOUS
<1>1. Shape
  <2>1. <<>> \in Seq(0..MaxOutput) /\ 0 \in 0..MaxOutput
    BY ShellAssumption, EmptySeq
  <2>2. process \in Processes /\ reader \in Readers /\ status \in Statuses
    BY <2>1 DEF Init, Processes, Readers, Statuses, Status, Final
  <2>3. log \in Logs /\ manifest \in Manifests /\ manager \in Managers
    BY DEF Init, Logs, Manifests, Managers, Orphans, Status, Final
  <2>4. call \in Calls
    BY DEF Init, Calls, Idle
  <2>5. client \in Clients
    BY <2>1 DEF Init, Clients
  <2> QED
    BY <2>2, <2>3, <2>4, <2>5 DEF Init, Shape
<1>2. CallsAreWhatTheyAre /\ LockIsAResets /\ FailureIsNoted
  BY ShellAssumption DEF Init, Idle, CallsAreWhatTheyAre, LockIsAResets,
     FailureIsNoted, Starting, Killing
<1>3. ReaderHoldsWhatItTook
  BY DEF Init, ReaderHoldsWhatItTook, HoldsWhatItTook
<1>4. NoTraceBeforeStart /\ StarterIsAlone
  BY DEF Init, Idle, NoTraceBeforeStart, StarterIsAlone
<1>5. KilledMeansGone /\ ManifestTellsTheEnd
  BY DEF Init, KilledMeansGone, ManifestTellsTheEnd
<1>6. LogIsTheOutput
  BY DEF Init, LogIsTheOutput, LogIsOutput
<1>7. ClientHasTheLog
  <2>1. Len(<<>>) = 0
    BY EmptySeq
  <2> QED
    BY <2>1 DEF Init, ClientHasTheLog, HasTheLog
<1> QED
  BY <1>1, <1>2, <1>3, <1>4, <1>5, <1>6, <1>7 DEF IInv, Held

(* Every reachable state satisfies the invariant.                             *)
THEOREM Invariance == Spec => []IInv
<1>1. Init => IInv
  BY InitIsInductive
<1>2. IInv /\ [Next]_vars => IInv'
  BY NextIsInductive
<1> QED
  BY <1>1, <1>2, PTL DEF Spec

(* The state has its shape, a reader holds what it took of what was written,  *)
(* and only a call that resets the manager holds its lock.                    *)
THEOREM TypeCorrect == Spec => []TypeOK
<1>1. IInv => TypeOK
  <2> SUFFICES ASSUME IInv PROVE TypeOK
    OBVIOUS
  <2>1. Shape /\ LockIsAResets /\ ReaderHoldsWhatItTook
    BY DEF IInv, Held
  <2>2. manager.lock \in Callers \union {Nobody}
    BY <2>1 DEF Shape, Managers
  <2> QED
    BY <2>1, <2>2, Zenon DEF TypeOK, LockIsAResets, ReaderHoldsWhatItTook,
       HoldsWhatItTook
<1> QED
  BY <1>1, Invariance, PTL

(* Polls neither repeat nor skip a byte, and cut no character while the       *)
(* session runs.                                                              *)
THEOREM NoByteIsLost == Spec => []PollsResume
<1>1. IInv => PollsResume
  <2> SUFFICES ASSUME IInv, NEW s \in Sessions, ~client[s].rewritten
               PROVE  /\ client[s].cursor = Len(client[s].got)
                      /\ client[s].cursor > 0 =>
                            client[s].got = SubSeq(log[s], 1, client[s].cursor)
                      /\ ~client[s].over => client[s].cursor % 2 = 0
    BY DEF PollsResume
  <2>1. HasTheLog(s) /\ LogIsOutput(s)
    BY DEF IInv, Held, ClientHasTheLog, LogIsTheOutput
  <2>2. client[s].got \in Seq(0..MaxOutput) /\ client[s].cursor \in Nat
    BY DEF IInv, Shape, Clients
  <2>3. ASSUME client[s].cursor > 0 PROVE client[s].got = SubSeq(log[s], 1, client[s].cursor)
    <3> DEFINE n == client[s].cursor  got == client[s].got  part == SubSeq(log[s], 1, n)
    <3>1. /\ log[s] \in Seq(0..MaxOutput) /\ n <= Len(log[s]) /\ n = Len(got)
          /\ \A i \in 1..n : got[i] = i
          /\ \A i \in 1..Len(log[s]) : log[s][i] = i
          /\ n \in Nat /\ got \in Seq(0..MaxOutput)
      BY <2>1, <2>2, <2>3 DEF HasTheLog, LogIsOutput
    <3> HIDE DEF n, got
    <3>2. ASSUME NEW i \in 1..n PROVE log[s][i] \in 0..MaxOutput /\ log[s][i] = i
      <4>1. i \in 1..Len(log[s])
        BY <3>1
      <4> QED
        BY <3>1, <4>1, ElementOfSeq, Zenon
    <3>3. /\ part \in Seq(0..MaxOutput) /\ Len(part) = n
          /\ \A i \in 1..n : part[i] = log[s][i]
      BY <3>1, <3>2, SubSeqProperties
    <3> HIDE DEF part
    <3>4. \A i \in 1..n : got[i] = part[i]
      BY <3>1, <3>2, <3>3, Zenon
    <3> QED
      BY <3>1, <3>3, <3>4, SeqEqual, Zenon DEF got, part, n
  <2> QED
    BY <2>1, <2>3 DEF HasTheLog
<1> QED
  BY <1>1, Invariance, PTL

(* A session that says it was killed has no process, or a thread still at it. *)
THEOREM NoKillIsMadeUp == Spec => []KilledMeansGone
<1>1. IInv => KilledMeansGone
  BY DEF IInv, Held
<1> QED
  BY <1>1, Invariance, PTL

(* A later Vibe reads in the manifest how a session ended.                    *)
THEOREM TheEndIsSaved == Spec => []ManifestTellsTheEnd
<1>1. IInv => ManifestTellsTheEnd
  BY DEF IInv, Held
<1> QED
  BY <1>1, Invariance, PTL

=============================================================================
