------------------------------ MODULE LineDiff ------------------------------
(***************************************************************************)
(* Line diffs as the checkpoint history uses them: Python's difflib with   *)
(* autojunk off, the regions it leaves unmatched, and the rebasing of a    *)
(* position from the text it was computed on to another text.  Lines are   *)
(* numbered from 1; a position is the number of lines before it.           *)
(***************************************************************************)
EXTENDS Integers, FiniteSets, SequencesExt

\* The member of a singleton: `Only({F(x) : x \in {e}})` is F(e), with e evaluated
\* once.
Only(S) == CHOOSE x \in S : x = x

\* A fold that evaluates what it has so far once.
Fold(op(_, _), base, seq) ==
  LET f[i \in 0..Len(seq)] ==
        IF i = 0 THEN base ELSE Only({op(a, seq[i]) : a \in {f[i - 1]}})
  IN f[Len(seq)]

\* The common blocks <<i, j, n>> of two windows: n lines of a from i on equal
\* n lines of b from j on.
Blocks(a, b, alo, ahi, blo, bhi) ==
  LET equal == {x \in (alo..ahi) \X (blo..bhi) : a[x[1]] = b[x[2]]} IN
  UNION {{<<x[1], x[2], n>> :
            n \in {m \in 1..(ahi - x[1] + 1) :
                     \A d \in 0..(m - 1) : <<x[1] + d, x[2] + d>> \in equal}} :
           x \in equal}

\* The longest, then the earliest in a, then the earliest in b.
Preferred(x, y) ==
  \/ x[3] > y[3]
  \/ x[3] = y[3] /\ x[1] < y[1]
  \/ x[3] = y[3] /\ x[1] = y[1] /\ x[2] <= y[2]

\* Two pairs with no other between them: they bound a window.
Consecutive(pairs) ==
  {w \in pairs \X pairs : /\ w[1][1] < w[2][1]
                          /\ ~\E z \in pairs : w[1][1] < z[1] /\ z[1] < w[2][1]}

\* The preferred blocks of the windows that are left.
NextBlocks(a, b, pairs) ==
  UNION {LET blocks == Blocks(a, b, w[1][1] + 1, w[2][1] - 1, w[1][2] + 1, w[2][2] - 1)
         IN {x \in blocks : \A y \in blocks : Preferred(x, y)} :
           w \in Consecutive(pairs)}

\* Match one block more; no window bears on another, so any order will do.
MatchBlock(a, b, pairs) ==
  LET next == NextBlocks(a, b, pairs) IN
  IF next = {} THEN pairs
  ELSE LET x == CHOOSE x \in next : TRUE
       IN pairs \cup {<<x[1] + d, x[2] + d>> : d \in 0..(x[3] - 1)}

\* The pairs <<i, j>> of lines difflib.SequenceMatcher matches, between two that
\* stand for the start and the end of both texts.
Matches(a, b) ==
  Fold(LAMBDA pairs, line : MatchBlock(a, b, pairs),
       {<<0, 0>>, <<Len(a) + 1, Len(b) + 1>>}, a)

\* The maximal unmatched regions, in order: from line `start` on, the removed
\* lines of a give way to the added lines of b.
RegionsUpTo(a, b, pairs, regions, i) ==
  LET gaps == {w \in Consecutive(pairs) :
                 w[2][1] = i /\ w[2] # <<w[1][1] + 1, w[1][2] + 1>>}
  IN IF gaps = {} THEN regions
     ELSE LET w == CHOOSE w \in gaps : TRUE
          IN Append(regions, [start   |-> w[1][1] + 1,
                              removed |-> SubSeq(a, w[1][1] + 1, w[2][1] - 1),
                              added   |-> SubSeq(b, w[1][2] + 1, w[2][2] - 1)])

RegionsBetween(a, b, pairs) ==
  Fold(LAMBDA regions, i : RegionsUpTo(a, b, pairs, regions, i),
       <<>>, [i \in 1..(Len(a) + 1) |-> i])

Regions(a, b) == Only({RegionsBetween(a, b, pairs) : pairs \in {Matches(a, b)}})

\* Where every position of base lies in result.  A position before a matched
\* line (or before the end) stays before it, the start of an unmatched region
\* stays after the last matched line; a position inside such a region is never
\* assigned.
Rebasing(base, result) ==
  IF base = result THEN [pos \in 0..Len(base) |-> pos] ELSE
  Only({[pos \in 0..Len(base) |->
           LET before == {m \in pairs : m[1] = pos + 1}
               after  == {m \in pairs : m[1] = pos}
           IN IF before # {} THEN Only(before)[2] - 1
              ELSE IF after # {} THEN Only(after)[2]
              ELSE 0] :
          pairs \in {Matches(base, result)}})

\* s[from:to] = new, the bounds clipped to s as Python does.
ReplaceSlice(s, from, to, new) ==
  LET clipped == IF from > Len(s) THEN Len(s) ELSE from IN
  SubSeq(s, 1, clipped) \o new
    \o SubSeq(s, (IF to < clipped THEN clipped ELSE to) + 1, Len(s))

=============================================================================
