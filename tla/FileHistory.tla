---------------------------- MODULE FileHistory ----------------------------
(***************************************************************************)
(* The read model of the checkpoint log (core/checkpoints/history.py): an  *)
(* ordered log of turn marks, edits and decisions, resolved into the       *)
(* decision of every hunk, the set of hunks applied, and the content of a  *)
(* file.  Every operator is a function of the log.                         *)
(***************************************************************************)
EXTENDS LineDiff

\* A fold of a set; its order is abstracted.
ListOne(set, list) == Append(list, CHOOSE x \in set : x \notin ToSet(list))
Listing(set) ==
  Fold(LAMBDA list, n : ListOne(set, list), <<>>, [n \in 1..Cardinality(set) |-> n])

Each(op(_, _), base, set) == Fold(op, base, Listing(set))

\* A file's state: absent, binary, or a sequence of lines.
Absent      == [kind |-> "absent", lines |-> <<>>]
Binary      == [kind |-> "binary", lines |-> <<>>]
Text(lines) == [kind |-> "text", lines |-> lines]

\* Events.  An edit holds its hunks, each with the hunks it was built on.
\* A mark's `begun` is auxiliary: the disk when the turn began.
Mark(s, id, disk) ==
  [kind |-> "turn", seq |-> s, turnId |-> id, pre |-> <<>>, begun |-> disk]
Decide(s, p, hunk, keep) ==
  [kind |-> "decide", seq |-> s, path |-> p, hunk |-> hunk, keep |-> keep]

ByTurn(id)   == <<"turn", id>>
ByHand(n)    == <<"manual", n>>
NoHunk       == <<0, 0>>
WholeFile    == [start |-> 1, removed |-> <<>>, added |-> <<>>]

IsEditOf(e, p) == e.kind = "edit" /\ e.path = p
Knows(e, p)    == IsEditOf(e, p) \/ (e.kind = "turn" /\ p \in DOMAIN e.pre)
MarksOf(log)   == {i \in DOMAIN log : log[i].kind = "turn"}
EditsOf(log, p) == {i \in DOMAIN log : IsEditOf(log[i], p)}

LastTurnPaths(log) ==
  IF MarksOf(log) = {} THEN {} ELSE DOMAIN log[Max(MarksOf(log))].pre

Tracked(log) ==
  {e.path : e \in {x \in ToSet(log) : x.kind = "edit"}}
    \cup UNION {DOMAIN e.pre : e \in {x \in ToSet(log) : x.kind = "turn"}}

\* A change with no line hunk to review is a whole-file barrier.
Opaque(before, after) ==
  \/ before.kind = "binary"
  \/ after.kind # "text"
  \/ before.kind = "absent" /\ after.lines = <<>>

Changes(before, after) ==
  IF Opaque(before, after) THEN <<WholeFile>>
  ELSE Regions(before.lines, after.lines)

\* The hunks of a file: each is named by the number of its edit and its place
\* in it.
HunksOf(e, p) == IF IsEditOf(e, p) THEN DOMAIN e.hunks ELSE {}

HunkIds(log, p) == UNION {{<<e.seq, i>> : i \in HunksOf(e, p)} : e \in ToSet(log)}
Owned(log, p, owner) ==
  UNION {{<<e.seq, i>> : i \in HunksOf(e, p)} :
           e \in {x \in ToSet(log) : x.kind = "edit" /\ x.owner = owner}}

-----------------------------------------------------------------------------
(* Decisions.                                                              *)

Decided(log, p, keep) ==
  {e.hunk : e \in {x \in ToSet(log) :
                     x.kind = "decide" /\ x.path = p /\ x.keep = keep}}

\* REVERT is a ratchet: no later KEEP undoes it, and it drags the hunks built on
\* the one reverted.  (No two hunks of an edit are built on each other.)
Drag(e, p, acc) ==
  acc \cup {<<e.seq, i>> : i \in {j \in HunksOf(e, p) : e.hunks[j].deps \cap acc # {}}}

Reverted(log, p) ==
  Fold(LAMBDA acc, e : Drag(e, p, acc), Decided(log, p, FALSE), log)

Kept(log, p)    == Decided(log, p, TRUE) \ Reverted(log, p)
Pending(log, p) == HunkIds(log, p) \ (Reverted(log, p) \cup Kept(log, p))

\* The hunks to apply, closed under dependencies: of those kept, or of those
\* not reverted.
Admit(e, p, wanted, acc) ==
  acc \cup {<<e.seq, i>> : i \in {j \in HunksOf(e, p) : /\ <<e.seq, j>> \in wanted
                                                        /\ e.hunks[j].deps \subseteq acc}}

Closed(log, p, wanted) ==
  Fold(LAMBDA acc, e : Admit(e, p, wanted, acc), {}, log)

Applied(log, p) == Closed(log, p, HunkIds(log, p) \ Reverted(log, p))
Accepted(log, p) == Closed(log, p, Kept(log, p))

-----------------------------------------------------------------------------
(* Contents.                                                               *)

\* The file before anything was recorded of it.
Original(log, p) ==
  LET about == {i \in DOMAIN log : Knows(log[i], p)}
      first == log[Min(about)]
  IN IF about = {} THEN Absent
     ELSE IF first.kind = "edit" THEN first.before ELSE first.pre[p]

\* Lines with the hunk that wrote them.
Written(lines, hunk) == [i \in 1..Len(lines) |-> [text |-> lines[i], by |-> hunk]]
Texts(lines)         == [i \in 1..Len(lines) |-> lines[i].text]

\* The hunks `here` of edit e from right to left in the result, of two at one
\* place the later first (where the code compares their lines): each is put
\* before those that are not to its right.
StartOf(e, i) == e.hunks[i].region.start - 1
EndOf(e, i)   == StartOf(e, i) + Len(e.hunks[i].region.removed)

RightOf(e, to, i, j) ==
  \/ to[StartOf(e, i)] > to[StartOf(e, j)]
  \/ to[StartOf(e, i)] = to[StartOf(e, j)] /\ to[EndOf(e, i)] > to[EndOf(e, j)]

PutInOrder(e, here, to, order, i) ==
  IF i \notin here THEN order
  ELSE InsertAt(order, 1 + Cardinality({k \in DOMAIN order : RightOf(e, to, order[k], i)}), i)

RightToLeft(e, here, to) ==
  Fold(LAMBDA order, i : PutInOrder(e, here, to, order, i),
       <<>>, [i \in 1..Len(e.hunks) |-> i])

\* Apply them to the running result: rebase each, computed on e.before, and
\* splice.
Splice(e, to, result, i) ==
  ReplaceSlice(result, to[StartOf(e, i)], to[EndOf(e, i)],
               Written(e.hunks[i].region.added, <<e.seq, i>>))

SpliceAll(result, e, to, order) ==
  Fold(LAMBDA acc, i : Splice(e, to, acc, i), result, order)

SpliceHunks(result, e, here) ==
  Only({SpliceAll(result, e, to, RightToLeft(e, here, to)) :
          to \in {Rebasing(e.before.lines, Texts(result))}})

\* Replay the applied hunks of every edit on the oldest known state.
ReplayEdit(e, here, acc) ==
  IF here = {} THEN acc
  ELSE IF Opaque(e.before, e.after)
  THEN [kind |-> e.after.kind, lines |-> Written(e.after.lines, <<e.seq, 1>>)]
  ELSE [kind |-> "text", lines |-> SpliceHunks(acc.lines, e, here)]

Oldest(log, p) ==
  IF EditsOf(log, p) = {} THEN Original(log, p) ELSE log[Min(EditsOf(log, p))].before

Replay(log, p, applied) ==
  Fold(LAMBDA acc, e :
         ReplayEdit(e, {i \in HunksOf(e, p) : <<e.seq, i>> \in applied}, acc),
       [kind  |-> Oldest(log, p).kind,
        lines |-> Written(Oldest(log, p).lines, NoHunk)],
       log)

Reconstruct(log, p, applied) ==
  Only({[kind |-> r.kind, lines |-> Texts(r.lines)] : r \in {Replay(log, p, applied)}})

\* The file as the log has it on disk, and as the user has accepted it.
Content(log, p)  == Only({Reconstruct(log, p, h) : h \in {Applied(log, p)}})
Baseline(log, p) == Only({Reconstruct(log, p, h) : h \in {Accepted(log, p)}})

-----------------------------------------------------------------------------
(* The dependencies of a new edit of the current projection.               *)

Barriers(log, p, applied) ==
  {<<e.seq, 1>> : e \in {x \in ToSet(log) : IsEditOf(x, p) /\ Opaque(x.before, x.after)}}
    \cap applied

\* The lines a new edit replaces, with their writers.
Provenance(log, p, before, applied) ==
  IF EditsOf(log, p) = {} THEN Written(before.lines, NoHunk)
  ELSE Replay(log, p, applied).lines

\* A text hunk is built on the writers of the lines it replaces, an insertion
\* on the writer of the line above (below, at the top); both on the whole-file
\* changes in force.  A whole-file change is built on everything applied.
Writers(prov, r) ==
  LET under == IF r.removed # <<>> THEN r.start..(r.start + Len(r.removed) - 1)
               ELSE {IF r.start > 1 THEN r.start - 1 ELSE 1}
  IN {prov[k].by : k \in under \cap DOMAIN prov} \ {NoHunk}

ComputeDeps(log, p, before, after) ==
  Only(UNION {{[i \in DOMAIN changes |->
           [region |-> changes[i],
            deps |-> IF Opaque(before, after) THEN applied
                     ELSE Writers(prov, changes[i]) \cup Barriers(log, p, applied)]] :
          changes \in {Changes(before, after)},
          prov \in {Provenance(log, p, before, applied)}} :
        applied \in {Applied(log, p)}})

Edit(log, s, owner, p, before, after) ==
  [kind |-> "edit", seq |-> s, owner |-> owner, path |-> p,
   before |-> before, after |-> after, hunks |-> ComputeDeps(log, p, before, after)]

-----------------------------------------------------------------------------
(* Turns.                                                                  *)

HasTurn(log, id) == \E e \in ToSet(log) : e.kind = "turn" /\ e.turnId = id

\* Where a truncation to a turn cuts: at its newest mark, else at the first
\* mark of a later turn; 0 if there is neither.
EventIndexOfTurn(log, id) ==
  LET exact == {i \in MarksOf(log) : log[i].turnId = id}
      later == {i \in MarksOf(log) : log[i].turnId > id}
  IN IF exact # {} THEN Max(exact) ELSE IF later # {} THEN Min(later) ELSE 0

\* What a truncation at an event restores: the state the earliest dropped turn
\* recorded, or the projection of what is kept.
RestorePlan(log, index) ==
  LET kept == SubSeq(log, 1, index - 1)
      dropped == SubSeq(log, index, Len(log))
      Recording(p) == {i \in MarksOf(dropped) : p \in DOMAIN dropped[i].pre}
  IN [p \in Tracked(dropped) |->
        IF Recording(p) # {} THEN dropped[Min(Recording(p))].pre[p]
        ELSE Content(kept, p)]

RestorePlanToTurn(log, id) ==
  IF HasTurn(log, id) THEN RestorePlan(log, EventIndexOfTurn(log, id)) ELSE <<>>

OwnerIsKept(log, owner) ==
  \A p \in Tracked(log) : Owned(log, p, owner) \subseteq Kept(log, p)

\* The turns of the log, and how many from the first on are wholly kept.
AddTurn(turns, e) == IF e.kind = "turn" THEN Append(turns, e.turnId) ELSE turns
TurnIds(log) == Fold(AddTurn, <<>>, log)

AcceptedTurnFrontier(log) ==
  LET turns == TurnIds(log)
      open == {i \in DOMAIN turns : ~OwnerIsKept(log, ByTurn(turns[i]))}
  IN IF open = {} THEN Len(turns) ELSE Min(open) - 1

=============================================================================
