----------------------------- MODULE SessionLog -----------------------------
(***************************************************************************)
(* The log of a session on disk: messages.jsonl, to which saves append or  *)
(* which they rewrite, and the metadata that says how far it goes.  Saves  *)
(* take a snapshot of the conversation on the event loop, wait for a lock  *)
(* and write in a worker thread, several steps each; the process may stop  *)
(* between any two, and a later one resumes what it finds.                 *)
(*                                                                         *)
(* A message is a number, and has a text, which a hook may rewrite.  Of    *)
(* the metadata the model keeps the number of messages, the fingerprint of *)
(* the last (the message and its text) and the loops.                      *)
(***************************************************************************)
EXTENDS Integers, SequencesExt

CONSTANTS MaxMessages, \* bound: messages ever written
          MaxRewrites, \* bound: messages rewritten
          MaxLoops,    \* bound: changes of the scheduled loops
          MaxSaves,    \* bound: saves under way or waiting for the lock
          MaxLines,    \* bound: lines of a log that is still saved to
          Disturbances \* what may happen besides the saves of one process:
                       \* "crash", "fail" (a write), "rename" (a title update)

ASSUME SessionLogAssumption ==
  /\ MaxMessages \in Nat
  /\ MaxRewrites \in Nat
  /\ MaxLoops \in Nat
  /\ MaxSaves \in Nat
  /\ MaxLines \in Nat
  /\ Disturbances \subseteq {"crash", "fail", "rename"}

VARIABLES
  up,      \* the process runs
  conv,    \* the messages in memory, without the system prompt
  given,   \* how many messages there have been
  text,    \* the text of each message in memory, by the number of its rewriting
  edits,   \* how many messages were rewritten
  loops,   \* the scheduled loops in memory, by the number of their last change
  queue,   \* those who wait for _save_lock; the first holds it
  threads, \* the worker threads: that of the lock's holder, one whose caller
           \* was cancelled, and that of a title update
  file,    \* the lines of messages.jsonl
  logged,  \* the texts of its messages
  meta,    \* the metadata file
  kept,    \* auxiliary: the messages of the last save that was completed
  owed,    \* auxiliary: messages of completed saves that nobody has taken back
  late,    \* auxiliary: messages rewritten after a save had taken their text
  raced    \* auxiliary: a save was interrupted or an update of the metadata lost

textVars == <<text, edits, logged, late>>
vars == <<up, conv, given, loops, queue, threads, file, meta, kept, owed, raced, textVars>>

Messages == 1..MaxMessages
Torn == 0   \* a line that was cut off

Slots == {"lock", "stray", "rename"}

Unedited == [m \in Messages |-> 0]
NoMeta == [total |-> -1, last |-> Torn, text |-> 0, loops |-> 0]
NoThread ==
  [pc |-> "none", lines |-> <<>>, text |-> Unedited, msgs |-> <<>>, out |-> NoMeta]

SaveJob(msgs) == [kind |-> "save", msgs |-> msgs, loops |-> 0]
LoopsJob(value) == [kind |-> "loops", msgs |-> <<>>, loops |-> value]

Init ==
  /\ up = TRUE
  /\ conv = <<>>
  /\ given = 0
  /\ text = Unedited
  /\ edits = 0
  /\ loops = 0
  /\ queue = <<>>
  /\ threads = [s \in Slots |-> NoThread]
  /\ file = <<>>
  /\ logged = Unedited
  /\ meta = NoMeta
  /\ kept = <<>>
  /\ owed = {}
  /\ late = {}
  /\ raced = FALSE

-----------------------------------------------------------------------------
(* What a save finds on disk, and what it does about it.                   *)

OldTotal == IF meta = NoMeta THEN 0 ELSE meta.total

LastOf(msgs) == IF msgs = <<>> THEN Torn ELSE Last(msgs)
TextOfLast(msgs) == IF msgs = <<>> THEN 0 ELSE text[Last(msgs)]

\* Mutant: only the lengths are compared.
LengthAlone(msgs) == OldTotal <= Len(msgs)

\* Mutant: the last message is recognised without its text.
TextIgnored(msgs) ==
  OldTotal > 0 => OldTotal <= Len(msgs) /\ msgs[OldTotal] = meta.last

\* boundary_unchanged: the message the metadata calls the last is still there, and
\* was not rewritten.
BoundaryUnchanged(msgs) ==
  OldTotal > 0 =>
    /\ OldTotal <= Len(msgs)
    /\ msgs[OldTotal] = meta.last
    /\ text[msgs[OldTotal]] = meta.text

UpToDate(msgs) ==
  /\ meta # NoMeta
  /\ Len(msgs) = OldTotal
  /\ BoundaryUnchanged(msgs)

\* Append the new messages or rewrite the log.
Plan(msgs) ==
  IF Len(msgs) > OldTotal /\ BoundaryUnchanged(msgs)
  THEN [pc |-> "append", lines |-> SubSeq(msgs, OldTotal + 1, Len(msgs))]
  ELSE [pc |-> "overwrite", lines |-> msgs]

\* messages.jsonl with lines appended.  The first is lost in a line that was
\* cut off before it.
WithLines(lines) ==
  IF file # <<>> /\ Last(file) = Torn /\ lines # <<>>
  THEN file \o Tail(lines) ELSE file \o lines

-----------------------------------------------------------------------------
(* The conversation.                                                       *)

AddMessage ==
  /\ up
  /\ given < MaxMessages
  /\ given' = given + 1
  /\ conv' = Append(conv, given + 1)
  /\ UNCHANGED <<up, loops, queue, threads, file, meta, kept, owed, raced, textVars>>

\* The message whose fingerprint the next save will compare, if no save is at work.
Compared ==
  CASE threads["lock"].pc = "none"    -> meta.last
    [] threads["lock"].pc = "replace" -> threads["lock"].out.last
    [] OTHER                          -> Torn

\* A pre_tool hook rewrites the arguments of a tool call in the assistant's
\* message, in place, so that a snapshot that waits to be written changes too.
\* Tools of one answer run at the same time, and others may have been answered
\* and saved before.
RewriteMessage(i) ==
  LET m == conv[i] IN
  /\ up
  /\ edits < MaxRewrites
  /\ edits' = edits + 1
  /\ text' = [text EXCEPT ![m] = edits + 1]
  /\ late' = IF m # Compared
                /\ m \in ToSet(file) \cup UNION {ToSet(threads[s].lines) : s \in Slots}
             THEN late \cup {m} ELSE late
  /\ UNCHANGED <<up, conv, given, loops, queue, threads, file, logged, meta, kept, owed, raced>>

Enqueue(job) == queue' = Append(queue, job)
CanSave == up /\ Len(queue) < MaxSaves /\ Len(file) <= MaxLines

\* save_interaction; an empty conversation is saved only on request.
Save ==
  /\ CanSave
  /\ conv # <<>>
  /\ Enqueue(SaveJob(conv))
  /\ UNCHANGED <<up, conv, given, loops, threads, file, meta, kept, owed, raced, textVars>>

\* RewindManager, in place: messages go, and what is left is saved.
Rewind(k) ==
  /\ CanSave
  /\ conv' = SubSeq(conv, 1, k)
  /\ Enqueue(SaveJob(conv'))
  /\ owed' = owed \cap ToSet(conv')
  /\ UNCHANGED <<up, given, loops, threads, file, meta, kept, raced, textVars>>

\* LoopManager: the loops change, and are written at once if there is already a
\* metadata file; the first save will write them otherwise.  It does not when it
\* is so far that it has read them (raced).
ChangeLoops ==
  /\ up
  /\ loops < MaxLoops
  /\ loops' = loops + 1
  /\ IF meta = NoMeta
     THEN UNCHANGED queue
     ELSE Len(queue) < MaxSaves /\ Enqueue(LoopsJob(loops'))
  /\ raced' = (raced \/ (meta = NoMeta /\ threads["lock"].pc = "replace"))
  /\ UNCHANGED <<up, conv, given, threads, file, meta, kept, owed, textVars>>

-----------------------------------------------------------------------------
(* The worker threads.                                                     *)

\* A thread takes the lines it will write as their messages are now.
Start(s, pc, lines, msgs, out) ==
  threads' = [threads EXCEPT ![s] =
               [pc |-> pc, lines |-> lines, msgs |-> msgs, out |-> out,
                text |-> IF lines = <<>> THEN Unedited ELSE text]]

\* A save is over: the lock is released.
Saved(msgs) ==
  /\ queue' = Tail(queue)
  /\ kept' = msgs
  /\ owed' = owed \cup (ToSet(msgs) \cap ToSet(conv))

Holds(kind) == queue # <<>> /\ threads["lock"] = NoThread /\ Head(queue).kind = kind

\* _save_interaction_sync reads the metadata and finds the log up to date or
\* what to do about it.
ReadLog ==
  /\ Holds("save")
  /\ LET msgs == Head(queue).msgs IN
     \/ /\ UpToDate(msgs)
        /\ Saved(msgs)
        /\ UNCHANGED <<threads, late>>
     \/ /\ ~UpToDate(msgs)
        /\ Start("lock", Plan(msgs).pc, Plan(msgs).lines, msgs, NoMeta)
        /\ late' = late \ ToSet(Plan(msgs).lines)
        /\ UNCHANGED <<queue, kept, owed>>
  /\ UNCHANGED <<up, conv, given, loops, file, meta, raced, text, edits, logged>>

\* The texts of the log once some of the thread's messages are in it.
Land(s, msgs) == [m \in Messages |-> IF m \in msgs THEN threads[s].text[m] ELSE logged[m]]

\* The messages are appended, or a new file takes the place of the old.
WriteLog(s) ==
  /\ threads[s].pc \in {"append", "overwrite"}
  /\ file' = IF threads[s].pc = "append" THEN WithLines(threads[s].lines)
             ELSE threads[s].lines
  /\ logged' = Land(s, ToSet(threads[s].lines))
  /\ Start(s, "dump", <<>>, threads[s].msgs, NoMeta)
  /\ UNCHANGED <<up, conv, given, loops, queue, meta, kept, owed, raced,
                 text, edits, late>>

\* Mutant: the loops are those of the metadata on disk.
DumpOldLoops(s) ==
  LET msgs == threads[s].msgs IN
  /\ threads[s].pc = "dump"
  /\ Start(s, "replace", <<>>, msgs,
           [total |-> Len(msgs), last |-> LastOf(msgs), text |-> TextOfLast(msgs),
            loops |-> meta.loops])
  /\ UNCHANGED <<up, conv, given, loops, queue, file, meta, kept, owed, raced, textVars>>

\* The new metadata is put together from the session's in memory.
DumpMeta(s) ==
  LET msgs == threads[s].msgs IN
  /\ threads[s].pc = "dump"
  /\ Start(s, "replace", <<>>, msgs,
           [total |-> Len(msgs), last |-> LastOf(msgs), text |-> TextOfLast(msgs),
            loops |-> loops])
  /\ UNCHANGED <<up, conv, given, loops, queue, file, meta, kept, owed, raced, textVars>>

\* _persist_metadata_field reads the metadata and writes it with the field changed.
ReadField ==
  /\ Holds("loops")
  /\ Start("lock", "replace", <<>>, <<>>, [meta EXCEPT !.loops = Head(queue).loops])
  /\ UNCHANGED <<up, conv, given, loops, queue, file, meta, kept, owed, raced, textVars>>

\* update_saved_session_title_at_path reads the metadata and writes it with the
\* title changed, without the lock.
ReadTitle ==
  /\ up
  /\ "rename" \in Disturbances
  /\ meta # NoMeta
  /\ threads["rename"] = NoThread
  /\ Start("rename", "replace", <<>>, <<>>, meta)
  /\ UNCHANGED <<up, conv, given, loops, queue, file, meta, kept, owed, raced, textVars>>

\* The metadata file is replaced, and what the thread was for is done.
ReplaceMeta(s) ==
  /\ threads[s].pc = "replace"
  /\ meta' = threads[s].out
  /\ threads' = [threads EXCEPT ![s] = NoThread]
  /\ IF s # "lock" THEN UNCHANGED <<queue, kept, owed>>
     ELSE IF Head(queue).kind = "save" THEN Saved(Head(queue).msgs)
     ELSE queue' = Tail(queue) /\ UNCHANGED <<kept, owed>>
  /\ raced' = (raced \/ (s = "rename" /\ meta # threads[s].out))
  /\ UNCHANGED <<up, conv, given, loops, file, textVars>>

-----------------------------------------------------------------------------
(* What goes wrong.                                                        *)

\* What messages.jsonl may be when the thread goes no further.
CutOff(s) ==
  IF threads[s].pc # "append" THEN {file}
  ELSE LET lines == threads[s].lines IN
       {WithLines(SubSeq(lines, 1, n)) : n \in 0..Len(lines)}
       \cup {WithLines(Append(SubSeq(lines, 1, n), Torn)) : n \in 0..(Len(lines) - 1)}

\* Mutant: the lock is released by a thread that goes on.
FailAndGoOn ==
  /\ "fail" \in Disturbances
  /\ threads["lock"].pc \in {"append", "overwrite", "replace"}
  /\ file' \in CutOff("lock")
  /\ logged' = Land("lock", ToSet(file') \ ToSet(file))
  /\ queue' = Tail(queue)
  /\ raced' = TRUE
  /\ UNCHANGED <<up, conv, given, loops, threads, meta, kept, owed, text, edits, late>>

\* A write fails: the save is over with an error.
FailWrite ==
  /\ "fail" \in Disturbances
  /\ threads["lock"].pc \in {"append", "overwrite", "replace"}
  /\ file' \in CutOff("lock")
  /\ logged' = Land("lock", ToSet(file') \ ToSet(file))
  /\ threads' = [threads EXCEPT !["lock"] = NoThread]
  /\ queue' = Tail(queue)
  /\ raced' = TRUE
  /\ UNCHANGED <<up, conv, given, loops, meta, kept, owed, text, edits, late>>

\* A task that waits for the lock, or has just got it, is cancelled.
GiveUp(i) ==
  /\ up
  /\ i > 1 \/ threads["lock"] = NoThread
  /\ queue' = RemoveAt(queue, i)
  /\ raced' = (raced \/ queue[i].kind = "loops")
  /\ UNCHANGED <<up, conv, given, loops, threads, file, meta, kept, owed, textVars>>

\* The task that saves is cancelled: it lets go of the lock, but its thread
\* goes on.
CancelWriter ==
  /\ up
  /\ threads["lock"] # NoThread
  /\ threads["stray"] = NoThread
  /\ queue' = Tail(queue)
  /\ threads' = [threads EXCEPT !["stray"] = threads["lock"], !["lock"] = NoThread]
  /\ UNCHANGED <<up, conv, given, loops, file, meta, kept, owed, raced, textVars>>

\* The process stops, whatever it is doing.
Crash ==
  /\ up
  /\ "crash" \in Disturbances
  /\ file' \in CutOff("lock")
  /\ logged' = Land("lock", ToSet(file') \ ToSet(file))
  /\ up' = FALSE
  /\ conv' = <<>>
  /\ text' = Unedited
  /\ late' = {}
  /\ queue' = <<>>
  /\ threads' = [s \in Slots |-> NoThread]
  /\ raced' = (raced \/ \E s \in Slots : threads[s] # NoThread)
  /\ UNCHANGED <<given, loops, meta, kept, owed, edits>>

\* load_session refuses a log without metadata, one with a line that is no
\* message, and an empty one unless the metadata says so.
Loadable ==
  /\ meta # NoMeta
  /\ Torn \notin ToSet(file)
  /\ file # <<>> \/ meta.total = 0

\* A new process resumes the session: all lines of the log are its messages.
Resume ==
  /\ ~up
  /\ Loadable
  /\ up' = TRUE
  /\ conv' = file
  /\ text' = logged
  /\ loops' = meta.loops
  /\ UNCHANGED <<given, queue, threads, file, meta, kept, owed, raced, edits,
                 logged, late>>

Next ==
  \/ AddMessage
  \/ \E i \in DOMAIN conv : RewriteMessage(i)
  \/ Save
  \/ \E k \in 0..(Len(conv) - 1) : Rewind(k)
  \/ ChangeLoops
  \/ ReadLog
  \/ \E s \in Slots : WriteLog(s) \/ DumpMeta(s) \/ ReplaceMeta(s)
  \/ ReadField
  \/ ReadTitle
  \/ FailWrite
  \/ \E i \in DOMAIN queue : GiveUp(i)
  \/ Crash
  \/ Resume

Spec == Init /\ [][Next]_vars

CancelSpec == Init /\ [][Next \/ CancelWriter]_vars

-----------------------------------------------------------------------------

\* The shape of the state.  Lines that are written are whole messages.
Texts == 0..MaxRewrites
Metas == [total : Nat \cup {-1}, last : Messages \cup {Torn}, text : Texts,
          loops : 0..MaxLoops]
Jobs == [kind : {"save", "loops"}, msgs : Seq(Messages), loops : 0..MaxLoops]
Threads == [pc : {"none", "append", "overwrite", "dump", "replace"},
            lines : Seq(Messages), text : [Messages -> Texts], msgs : Seq(Messages),
            out : Metas]

Shape ==
  /\ up \in BOOLEAN
  /\ conv \in Seq(Messages)
  /\ given \in 0..MaxMessages
  /\ text \in [Messages -> Texts] /\ edits \in Texts
  /\ loops \in 0..MaxLoops
  /\ queue \in Seq(Jobs)
  /\ threads \in [Slots -> Threads]
  /\ file \in Seq(Messages \cup {Torn}) /\ logged \in [Messages -> Texts]
  /\ meta \in Metas
  /\ kept \in Seq(Messages)
  /\ owed \subseteq Messages /\ late \subseteq Messages
  /\ raced \in BOOLEAN

\* The shape of the state; the queue is bounded, and a thread writes for the
\* holder of the lock only as long as there is one.
TypeOK ==
  /\ Shape
  /\ Len(queue) <= MaxSaves
  /\ threads["lock"] # NoThread => queue # <<>>

Quiet == queue = <<>> /\ \A s \in Slots : threads[s] = NoThread

\* Whatever is appended, rewritten, rewound and saved in whatever order, by
\* however many: when no save is under way the log has the messages the last one
\* was asked to save, and the metadata says how far it goes
\* (session_logger.py:370).  It has their texts in memory too, but for a message
\* rewritten after a save had taken it; where that is the last one of the log, its
\* fingerprint tells the next save.  A save that was interrupted or a lost update
\* of the metadata is excepted.
LogIsTheLastSave ==
  Quiet /\ meta # NoMeta /\ ~raced =>
    /\ file = kept
    /\ meta.total = Len(kept)
    /\ meta.last = LastOf(kept)
    /\ up => \A m \in ToSet(file) :
         \/ logged[m] = text[m]
         \/ m \in late
         \/ m = meta.last /\ text[m] # meta.text

\* A message that a completed save contained, and that nobody has taken back
\* since, is in the log for as long as the log can be loaded, whatever fails
\* and wherever the process stops: appends, rewrites and stale metadata never
\* lose one.
SavedMessagesSurvive == Loadable => owed \subseteq ToSet(file)

\* The loops on disk are those in memory when nothing is under way, although
\* saves and updates of single fields write the whole metadata.
LoopsReachTheDisk == up /\ Quiet /\ meta # NoMeta /\ ~raced => meta.loops = loops

\* "Serializes writes so concurrent saves cannot interleave appends to
\* messages.jsonl or race on the metadata read-modify-write"
\* (session_logger.py:53): no message is twice in the log.
LoggedOnce == IsInjective(file)
=============================================================================
