---------------------------- MODULE Checkpoints ----------------------------
(***************************************************************************)
(* The checkpoint log of a session and those who write it: the recorder    *)
(* that brackets every turn of the agent, the review of its changes, and   *)
(* the rewind of the conversation, over files that tools, shell commands   *)
(* and the user change at any time.                                        *)
(*                                                                         *)
(* cp is the Checkpointer; its methods are operators from one value of cp  *)
(* to the next.  The order of the paths in its dictionaries is abstracted. *)
(***************************************************************************)
EXTENDS FileHistory

CONSTANTS Paths,
          Contents, \* bound: the states a tool, a command or the user gives a file
          MaxLog,   \* bound: events in the log
          MaxMsgs,  \* bound: messages of the conversation
          Faults,   \* what may go wrong: "cancel" (a turn before its message),
                    \* "begin" and "seal" (reads), "write"
          Ways      \* bound: the ways to rewind, "inplace" and "fork"

ASSUME CheckpointsAssumption ==
  /\ IsFiniteSet(Paths)
  /\ \A s \in Contents :
       s \in {Absent, Binary} \/ (s = Text(s.lines) /\ s.lines \in Seq(ToSet(s.lines)))
  /\ MaxLog \in Nat
  /\ MaxMsgs \in Nat \ {0}
  /\ Faults \subseteq {"cancel", "begin", "seal", "write"}
  /\ Ways \subseteq {"inplace", "fork"}

VARIABLES
  cp,     \* the Checkpointer: events, numbers, and the open turn's mark
  acting, \* AgentLoop.act runs a turn
  msgs,   \* the number of messages in the conversation
  fork,   \* a rewind that waits for its save: the message, and (auxiliary) the
          \* files it restored and nobody changed since
  disk,   \* the files
  dirty   \* auxiliary: files changed since the log last saw them

vars == <<cp, acting, msgs, fork, disk, dirty>>

NoFork == [at |-> 0, clean |-> {}]

Init ==
  /\ cp = [events |-> <<>>, open |-> 0]
  /\ acting = FALSE
  /\ msgs = 1
  /\ fork = NoFork
  /\ disk \in [Paths -> Contents]
  /\ dirty = {}

-----------------------------------------------------------------------------
(* The Checkpointer.                                                       *)

Cleared == [events |-> <<>>, open |-> 0]

\* The next event's number.  The code never gives one twice; here a number is
\* free again when a truncation has dropped its event, for nothing remembers it.
\* A manual edit is known by its event's number, where the code counts them.
NextSeq(c) == 1 + Max({0} \cup {e.seq : e \in ToSet(c.events)})

\* begin_turn: refused while a turn is open.
BeginTurn(c, id) ==
  [open |-> NextSeq(c),
   events |-> Append(c.events, Mark(NextSeq(c), id, [p \in Tracked(c.events) |-> disk[p]]))]

OpenIndex(c) == CHOOSE i \in DOMAIN c.events : c.events[i].seq = c.open
OpenPre(c) == IF c.open = 0 THEN {} ELSE DOMAIN c.events[OpenIndex(c)].pre

\* Mutant: the drift goes after the mark of the turn.
InsertAfterMark(c, p, before, after) ==
  [c EXCEPT !.events = InsertAt(@, OpenIndex(c) + 1,
              Edit(@, NextSeq(c), ByHand(NextSeq(c)), p, before, after))]

\* _insert_local_before_mark
InsertBeforeMark(c, p, before, after) ==
  [c EXCEPT !.events = InsertAt(@, OpenIndex(c),
              Edit(@, NextSeq(c), ByHand(NextSeq(c)), p, before, after))]

\* record_pre_edit: the first touch in a turn owns its pre-edit state, and
\* seals what was changed by hand since the log last saw the file.
RecordPreEdit(c, p, pre) ==
  IF p \in OpenPre(c) THEN c
  ELSE LET Drifted(seen) == IF p \in Tracked(c.events) /\ pre # seen
                            THEN InsertBeforeMark(c, p, seen, pre) ELSE c
           Recorded(d) == [d EXCEPT !.events[OpenIndex(d)].pre =
                             [q \in DOMAIN @ \cup {p} |-> IF q = p THEN pre ELSE @[q]]]
       IN Only({Recorded(d) : d \in {Drifted(seen) : seen \in {Content(c.events, p)}}})

AppendEdit(c, owner, p, before, after) ==
  IF before = after THEN c
  ELSE [c EXCEPT !.events = Append(@, Edit(@, NextSeq(c), owner, p, before, after))]

\* seal_turn, with the states read after the turn (the pre-edit state stands
\* for one that could not be read).
SealPath(c, mark, post, p) ==
  AppendEdit(c, ByTurn(mark.turnId), p, mark.pre[p],
             IF p \in DOMAIN post THEN post[p] ELSE mark.pre[p])

SealTurn(c, post) ==
  LET mark == c.events[OpenIndex(c)]
  IN IF c.open = 0 THEN c
     ELSE [Each(LAMBDA d, p : SealPath(d, mark, post, p), c, DOMAIN mark.pre)
             EXCEPT !.open = 0]

\* drop_turns_from.
\* Mutants: the open turn stays open; what the user changed is not dropped.
DropButStayOpen(c, id) ==
  LET index == EventIndexOfTurn(c.events, id) IN
  IF index = 0 THEN c ELSE [c EXCEPT !.events = SubSeq(@, 1, index - 1)]

DropButManual(c, id) ==
  LET index == EventIndexOfTurn(c.events, id)
      Manual(e) == e.kind = "edit" /\ e.owner[1] = "manual"
  IN IF index = 0 THEN c
     ELSE [open |-> 0,
           events |-> SubSeq(c.events, 1, index - 1)
                        \o SelectSeq(SubSeq(c.events, index, Len(c.events)), Manual)]

DropTurnsFrom(c, id) ==
  LET index == EventIndexOfTurn(c.events, id) IN
  IF index = 0 THEN c
  ELSE [c EXCEPT !.events = SubSeq(@, 1, index - 1), !.open = 0]

\* reconcile: a manual edit when the disk has drifted, between turns only.
ReconcilePath(c, p) ==
  IF c.open # 0 THEN c
  ELSE Only({AppendEdit(c, ByHand(NextSeq(c)), p, seen, disk[p]) :
               seen \in {Content(c.events, p)}})

\* Mutant: nothing is reconciled.
NotReconciled(c) == c

Reconciled(c) == Each(ReconcilePath, c, Tracked(c.events))

\* The hunks a KEEP accepts: those named and the pending ones under them.
KeptWith(log, p, hunks) ==
  LET pending == Pending(log, p)
      HoldsItsOwn(S) ==
        /\ hunks \cap pending \subseteq S
        /\ \A e \in ToSet(log) : \A i \in HunksOf(e, p) :
             <<e.seq, i>> \in S => e.hunks[i].deps \cap pending \subseteq S
  IN {h \in pending : \A S \in SUBSET pending : HoldsItsOwn(S) => h \in S}

\* _decide: one event for each hunk kept, or reverted by name (the order among
\* them tells nothing).
Targets(c, p, hunks, keep) ==
  IF keep THEN KeptWith(c.events, p, hunks) ELSE hunks \ Reverted(c.events, p)

RecordDecision(c, p, hunk, keep) ==
  [c EXCEPT !.events = Append(@, Decide(NextSeq(c), p, hunk, keep))]

DecideHunks(c, p, hunks, keep) ==
  Each(LAMBDA d, h : RecordDecision(d, p, h, keep), c, Targets(c, p, hunks, keep))

-----------------------------------------------------------------------------
(* Turns: CheckpointRecorder, driven by AgentLoop.act.                     *)

\* Mutant: the files of the last turn are not carried into the next.
NothingCarried == {}
Carried == LastTurnPaths(cp.events)

\* act: create_checkpoint reads the files the last turn knew again, and the
\* conversation loop appends the user's message, unless the turn is cancelled
\* before.  When a read fails the turn does not run, but it was begun.
\* Bound: a message's turn is cancelled once.
StartTurn ==
  /\ ~acting
  /\ fork = NoFork
  /\ cp.open = 0
  /\ msgs < MaxMsgs
  /\ \E read \in SUBSET Carried :
       /\ read = Carried \/ "begin" \in Faults
       /\ cp' = Each(LAMBDA c, p : RecordPreEdit(c, p, disk[p]),
                   BeginTurn(cp, msgs), read)
       /\ acting' = (read = Carried)
       /\ dirty' = dirty \ read
  /\ \E said \in BOOLEAN :
       /\ said => acting'
       /\ \/ said
          \/ ~acting'
          \/ "cancel" \in Faults /\ ~HasTurn(cp.events, msgs)
       /\ msgs' = IF said THEN msgs + 1 ELSE msgs
  /\ UNCHANGED <<fork, disk>>

\* add_snapshot, before a tool changes the file.  A file is read by a thread and
\* recorded after it; a change in between counts as one after the snapshot.
Snapshot(p) ==
  /\ acting
  /\ p \notin OpenPre(cp)
  /\ cp' = RecordPreEdit(cp, p, disk[p])
  /\ dirty' = dirty \ {p}
  /\ UNCHANGED <<acting, msgs, fork, disk>>

\* A tool (after its snapshot), a shell command or the user changes a file.
\* Bounds: once between two looks at it, since nobody sees what a second change
\* hides, and not while a fork is being saved.
Write(p, s) ==
  /\ disk[p] # s
  /\ fork = NoFork
  /\ p \notin dirty
  /\ disk' = [disk EXCEPT ![p] = s]
  /\ dirty' = dirty \cup ({p} \cap Tracked(cp.events))
  /\ UNCHANGED <<cp, acting, msgs, fork>>

\* seal_turn when act ends, whatever ended it.
EndTurn ==
  /\ acting
  /\ \E read \in SUBSET OpenPre(cp) :
       /\ read = OpenPre(cp) \/ "seal" \in Faults
       /\ cp' = SealTurn(cp, [p \in read |-> disk[p]])
       /\ dirty' = dirty \ read
  /\ acting' = FALSE
  /\ UNCHANGED <<msgs, fork, disk>>

\* The conversation is cleared, or compacted (its summary counts with the
\* system message, as the first), in a turn or
\* between turns; an open turn is opened again on the empty log.
ResetMessages ==
  /\ fork = NoFork
  /\ cp' = IF cp.open # 0 THEN BeginTurn(Cleared, 1) ELSE Cleared
  /\ msgs' = 1
  /\ dirty' = {}
  /\ UNCHANGED <<acting, fork, disk>>

-----------------------------------------------------------------------------
(* Reviews: ReviewManager.                                                 *)

\* review_state (every tracked file) and file_hunks (one).
Look ==
  /\ cp.open = 0
  /\ \E shown \in {Tracked(cp.events)} \cup {{p} : p \in Tracked(cp.events)} :
       /\ cp' = Each(ReconcilePath, cp, shown)
       /\ dirty' = dirty \ shown
  /\ UNCHANGED <<acting, msgs, fork, disk>>

\* What a review can be asked to decide: a hunk, a file's pending hunks, all
\* of them, those of one owner (in all files or in one), or, one turn after the
\* other, those of the last turns past the accepted frontier.
Asks(log) ==
  LET pending == [p \in Tracked(log) |-> Pending(log, p)]
      Of(owner) == [p \in Tracked(log) |-> pending[p] \cap Owned(log, p, owner)]
      owners == {e.owner : e \in {x \in ToSet(log) : x.kind = "edit"}}
      turns == TurnIds(log)
      fresh == SubSeq(turns, AcceptedTurnFrontier(log) + 1, Len(turns))
  IN (UNION {{<<[q \in {p} |-> {h}]>> : h \in HunkIds(log, p)} : p \in Tracked(log)})
     \cup {<<[q \in {p} |-> pending[p]]>> : p \in Tracked(log)}
     \cup {<<pending>>}
     \cup {<<Of(o)>> : o \in owners}
     \cup (UNION {{<<[q \in {p} |-> Of(o)[p]]>> : o \in owners} : p \in Tracked(log)})
     \cup {[k \in 1..n |-> Of(ByTurn(fresh[Len(fresh) - n + k]))] : n \in 1..Len(fresh)}

\* _decide_target
DecideTarget(c, one, keep) ==
  Each(LAMBDA d, p : DecideHunks(d, p, one[p], keep), c, DOMAIN one)

Outcome(c, ask, keep) ==
  Fold(LAMBDA acc, one : DecideTarget(acc, one, keep), c, ask)

\* approve_review and revert_review: reconcile, decide, and write what the log
\* then says of the files; a failing write takes the decision back, but not
\* what was written before it.
Review(keep) ==
  /\ cp.open = 0
  /\ \E c \in {Reconciled(cp)} : \E d \in {Outcome(c, ask, keep) : ask \in Asks(c.events)} :
       \E content \in {Only({[p \in Tracked(c.events) |-> Content(d.events, p)]})} :
       LET towrite == {p \in DOMAIN content : content[p] # disk[p]} IN
       \E wrote \in SUBSET towrite :
         /\ wrote = towrite \/ "write" \in Faults
         /\ disk' = [p \in Paths |-> IF p \in wrote THEN content[p] ELSE disk[p]]
         /\ fork' = [fork EXCEPT !.clean = @ \ wrote]
         /\ IF wrote = towrite
            THEN cp' = d /\ dirty' = dirty \ DOMAIN content
            ELSE cp' = c /\ dirty' = (dirty \ DOMAIN content) \cup wrote
  /\ UNCHANGED <<acting, msgs>>

-----------------------------------------------------------------------------
(* Rewinds: RewindManager.rewind_to_message, under a reservation.          *)

\* FileStore.apply on the restore plan, where the accesses to some files fail;
\* `done` are the files that have the planned content afterwards.
Restore(plan, done) ==
  /\ done \subseteq DOMAIN plan
  /\ {p \in DOMAIN plan : disk[p] = plan[p]} \subseteq done
  /\ done = DOMAIN plan \/ "write" \in Faults
  /\ disk' = [p \in Paths |-> IF p \in done THEN plan[p] ELSE disk[p]]

PlanFor(i, restore) ==
  IF restore THEN RestorePlanToTurn(cp.events, i) ELSE <<>>

DroppedPaths(i) ==
  LET index == EventIndexOfTurn(cp.events, i) IN
  IF index = 0 THEN {} ELSE Tracked(SubSeq(cp.events, index, Len(cp.events)))

\* _truncate
Truncate(i, clean) ==
  /\ cp' = DropTurnsFrom(cp, i)
  /\ msgs' = i
  /\ dirty' = ((dirty \cup DroppedPaths(i)) \ clean) \cap Tracked(cp'.events)

\* inplace: truncate, then save.
RewindInPlace(i, restore) ==
  /\ ~acting
  /\ fork = NoFork
  /\ \E plan \in {PlanFor(i, restore)} : \E done \in SUBSET DOMAIN plan :
       /\ Restore(plan, done)
       /\ Truncate(i, done)
  /\ UNCHANGED <<acting, fork>>

\* A fork restores the files, saves the whole history, then truncates.
RewindFork(i) ==
  /\ ~acting
  /\ fork = NoFork
  /\ \E plan \in {RestorePlanToTurn(cp.events, i)} : \E done \in SUBSET DOMAIN plan :
       /\ Restore(plan, done)
       /\ fork' = [at |-> i, clean |-> done]
       /\ dirty' = dirty \cup {p \in done : disk[p] # plan[p]}
  /\ UNCHANGED <<cp, acting, msgs>>

RewindSaved ==
  /\ fork.at # 0
  /\ Truncate(fork.at, fork.clean)
  /\ fork' = NoFork
  /\ UNCHANGED <<acting, disk>>

\* The save raises: the conversation stays, the files are restored.
RewindFails ==
  /\ fork.at # 0
  /\ fork' = NoFork
  /\ UNCHANGED <<cp, acting, msgs, disk, dirty>>

-----------------------------------------------------------------------------
Step ==
  \/ StartTurn
  \/ \E p \in Paths : Snapshot(p) \/ \E s \in Contents : Write(p, s)
  \/ EndTurn
  \/ ResetMessages
  \/ Look
  \/ \E keep \in BOOLEAN : Review(keep)
  \/ \E i \in 1..(msgs - 1) :
       \/ "fork" \in Ways /\ RewindFork(i)
       \/ "inplace" \in Ways /\ \E restore \in BOOLEAN : RewindInPlace(i, restore)
  \/ RewindSaved
  \/ RewindFails

\* Bound: a log starts afresh on files in Contents, as at the start.
Next ==
  /\ Step
  /\ Len(cp'.events) <= MaxLog
  /\ cp'.events = <<>> => \A p \in Paths : disk'[p] \in Contents

Spec == Init /\ [][Next]_vars

-----------------------------------------------------------------------------
(* Properties.                                                             *)

Log == cp.events

\* The events have their own numbers, an open turn has its mark, and the agent
\* acts only in an open turn (checkpointer.py's _open and the agent loop).
TypeOK ==
  /\ Len(Log) <= MaxLog
  /\ \A i, j \in DOMAIN Log : Log[i].seq = Log[j].seq => i = j
  /\ cp.open # 0 => \E i \in DOMAIN Log : Log[i].kind = "turn" /\ Log[i].seq = cp.open
  /\ acting \in BOOLEAN
  /\ acting => cp.open # 0
  /\ msgs \in 0..MaxMsgs
  /\ fork.at \in 0..(msgs - 1)
  /\ \A p \in Paths : disk[p].kind \in {"absent", "binary", "text"}
  /\ dirty \subseteq Paths

\* The content the log derives for a file is what is on disk, unless somebody
\* changed the file since the log last saw it: whatever was reviewed, sealed,
\* truncated or restored in between (History.content, Checkpointer).
ContentIsDisk ==
  \A p \in Tracked(Log) \ dirty : Content(Log, p) = disk[p]

\* A hunk is built only on hunks that are in the log before it, even when a
\* change by hand is inserted before the mark of the open turn and turns are
\* dropped (what every pass over the versions in history.py relies on). No hunk
\* the user kept is left out of the accepted baseline for want of one it was
\* built on (History.accepted_baseline).
DependenciesHold ==
  \A p \in Tracked(Log) :
    /\ \A k \in DOMAIN Log : \A i \in HunksOf(Log[k], p) :
         Log[k].hunks[i].deps \subseteq HunkIds(SubSeq(Log, 1, k - 1), p)
    /\ Kept(Log, p) \subseteq Accepted(Log, p)

\* A rewind to a message restores every file the log then knew to what was on
\* disk when its turn began (History.restore_plan).
PlanIsTheStart ==
  \A i \in 1..(msgs - 1) :
    HasTurn(Log, i) =>
      LET index == EventIndexOfTurn(Log, i)
          plan == RestorePlanToTurn(Log, i)
      IN \A p \in Tracked(SubSeq(Log, 1, index - 1)) :
           p \in DOMAIN plan /\ plan[p] = Log[index].begun[p]

\* Approving leaves the files as they are, whatever was changed by hand since
\* the last look and whatever else is pending or reverted (ReviewManager).
ApprovalLeavesTheFiles ==
  [][(Len(Log') > Len(Log) /\ Last(Log').kind = "decide" /\ Last(Log').keep)
       => disk' = disk]_vars

\* Every splice lands on its exact lines: a file without whole-file changes has
\* as many lines as it had, less those the applied hunks remove, plus those they
\* add (the docstring of history.py's _splice).
LineCount(log, p, applied, Lines_(_)) ==
  Fold(LAMBDA n, e :
         n + MapThenSumSet(LAMBDA i : Len(Lines_(e.hunks[i].region)),
                           {i \in HunksOf(e, p) : <<e.seq, i>> \in applied}),
       0, log)

SplicesLandExactly ==
  \A p \in Tracked(Log) :
    (\A k \in EditsOf(Log, p) : ~Opaque(Log[k].before, Log[k].after)) =>
      LET applied == Applied(Log, p) IN
      Len(Content(Log, p).lines) + LineCount(Log, p, applied, LAMBDA r : r.removed)
        = Len(Original(Log, p).lines) + LineCount(Log, p, applied, LAMBDA r : r.added)

=============================================================================
