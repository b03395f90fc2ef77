------------------------- MODULE CheckpointsProofs -------------------------
(*****************************************************************************)
(* Proofs about the checkpoint log, from the bottom up: induction over numbers,  *)
(* folds and finite sets; what a diff of lines gives (DiffIsExact) and where a   *)
(* splice puts it; what the read model of a log computes (NewEditGivesAfter);    *)
(* what an event added at the end, or before the last mark, leaves alone; what a *)
(* good log is and which operations of the Checkpointer keep it one; and the     *)
(* inductive invariant IInv, which each action of Checkpoints keeps.             *)
(*****************************************************************************)
EXTENDS Checkpoints, TLAPS, WellFoundedInduction, FiniteSetTheorems, SequenceTheorems

-----------------------------------------------------------------------------
(* Numbers, sets and sequences.                                               *)

(* A set of numbers that is not empty has a least.                            *)
LEMMA Least ==
  ASSUME NEW S \in SUBSET Nat, S # {}
  PROVE  \E n \in S : \A m \in S : n <= m
<1> DEFINE R == {ss \in Nat \X Nat : ss[1] < ss[2]}
<1>1. IsWellFoundedOn(R, Nat)
  BY NatLessThanWellFounded DEF OpToRel
<1>2. PICK n \in S : \A y \in S : ~(<<y, n>> \in R)
  <2> HIDE DEF R
  <2> QED
    BY <1>1, WFMin
<1>3. \A y \in S : ~(y < n)
  BY <1>2 DEF R
<1> QED
  BY <1>3

(* Induction over the numbers, for a set.                                     *)
LEMMA Induction ==
  ASSUME NEW S, 0 \in S, \A n \in Nat : n \in S => n + 1 \in S
  PROVE  \A n \in Nat : n \in S
<1> SUFFICES ASSUME Nat \ S # {}
             PROVE  FALSE
  OBVIOUS
<1>1. PICK n \in Nat \ S : \A m \in Nat \ S : n <= m
  BY Least
<1>2. n # 0 /\ n - 1 \in Nat /\ n - 1 \in S
  BY <1>1
<1> QED
  BY <1>1, <1>2

(* Induction up to a bound.                                                   *)
LEMMA UpTo ==
  ASSUME NEW N \in Nat, NEW S, 0 \in S, \A i \in 1..N : i - 1 \in S => i \in S
  PROVE  \A i \in 0..N : i \in S
<1> DEFINE T == {n \in Nat : n <= N => n \in S}
<1>1. 0 \in T
  OBVIOUS
<1>2. ASSUME NEW n \in Nat, n \in T
      PROVE  n + 1 \in T
  BY <1>2
<1>3. \A n \in Nat : n \in T
  <2> HIDE DEF T
  <2> QED
    BY <1>1, <1>2, Induction
<1> QED
  BY <1>3

(* Two passes that agree on their first N steps.                              *)
SameUpTo(f, g, N) == \A i \in 0..N : f[i] = g[i]

(* Two passes that start alike and take the same steps agree.                 *)
LEMMA Agree ==
  ASSUME NEW N \in Nat, NEW f, NEW g, f[0] = g[0],
         \A i \in 1..N : f[i - 1] = g[i - 1] => f[i] = g[i]
  PROVE  SameUpTo(f, g, N)
<1> DEFINE S == {i \in 0..N : f[i] = g[i]}
<1>1. 0 \in S
  OBVIOUS
<1>2. \A i \in 1..N : i - 1 \in S => i \in S
  OBVIOUS
<1>3. \A i \in 0..N : i \in S
  <2> HIDE DEF S
  <2> QED
    BY <1>1, <1>2, UpTo
<1> QED
  BY <1>3 DEF SameUpTo

(* The greatest and the least number of a set within bounds.                  *)
LEMMA MaxOf ==
  ASSUME NEW N \in Nat, NEW S \in SUBSET (0..N), S # {}
  PROVE  Max(S) \in S /\ \A i \in S : i <= Max(S)
<1> DEFINE T == {N - i : i \in S}
<1>1. PICK n \in T : \A m \in T : n <= m
  <2>1. \A i \in S : N - i \in Nat
    OBVIOUS
  <2>2. T \in SUBSET Nat
    BY <2>1
  <2>3. T # {}
    OBVIOUS
  <2> HIDE DEF T
  <2> QED
    BY <2>2, <2>3, Least
<1>2. PICK i \in S : n = N - i
  OBVIOUS
<1>3. \A j \in S : N - j \in T
  OBVIOUS
<1>4. \A j \in S : i >= j
  <2> HIDE DEF T
  <2> QED
    BY <1>1, <1>2, <1>3
<1>5. \E x \in S : \A y \in S : x >= y
  BY <1>4
<1> HIDE DEF T
<1>6. Max(S) \in S /\ \A y \in S : Max(S) >= y
  BY <1>5 DEF Max
<1> QED
  BY <1>6

(* The least of a set of numbers. *)
LEMMA MinOf ==
  ASSUME NEW S \in SUBSET Nat, S # {}
  PROVE  Min(S) \in S /\ \A i \in S : Min(S) <= i
BY Least DEF Min

(* The rounds of a match, one for each line of a.                             *)
MatchesPass(f, a, b) ==
  /\ f[0] = {<<0, 0>>, <<Len(a) + 1, Len(b) + 1>>}
  /\ \A i \in 1..Len(a) : f[i] = MatchBlock(a, b, f[i - 1])
  /\ Matches(a, b) = f[Len(a)]

(* There is such a pass.                                                      *)
LEMMA MatchesUnrolls ==
  ASSUME NEW a, NEW b, Len(a) \in Nat
  PROVE  \E f : MatchesPass(f, a, b)
<1> DEFINE seq == a
           base == {<<0, 0>>, <<Len(a) + 1, Len(b) + 1>>}
           Op(acc, i) == Only({MatchBlock(a, b, x) : x \in {acc}})
           Def(g, n) == [i \in 0..n |-> IF i = 0 THEN base ELSE Op(g[i - 1], i)]
           S == {n \in Nat : \E g : g = Def(g, n)}
           f == CHOOSE g : g = Def(g, Len(seq))
<1>0. Len(seq) \in Nat
  OBVIOUS
<1>5. Matches(a, b) = f[Len(seq)]
  BY DEF Matches, Fold
<1>6. \A acc, i : Op(acc, i) = MatchBlock(a, b, acc)
  BY DEF Only
<1> HIDE DEF Op, base, seq
<1>1. 0 \in S
  <2>1. [i \in 0..0 |-> base] = Def([i \in 0..0 |-> base], 0)
    OBVIOUS
  <2> QED
    BY <2>1
<1>2. ASSUME NEW n \in Nat, n \in S
      PROVE  n + 1 \in S
  <2>1. PICK g : g = Def(g, n)
    BY <1>2
  <2> DEFINE h == [i \in 0..(n + 1) |-> IF i = n + 1 THEN Op(g[n], n + 1) ELSE g[i]]
  <2>2. h = Def(h, n + 1)
    BY <2>1
  <2> HIDE DEF h, Def
  <2>3. \E k : k = Def(k, n + 1)
    BY <2>2
  <2> QED
    BY <2>3
<1>3. Len(seq) \in S
  BY <1>0, <1>1, <1>2, Induction
<1>4. f = Def(f, Len(seq))
  <2> HIDE DEF Def
  <2> QED
    BY <1>3
<1> HIDE DEF f
<1>7. f[0] = base /\ \A i \in 1..Len(seq) : f[i] = Op(f[i - 1], i)
  BY <1>0, <1>4
<1>8. f[0] = base /\ \A i \in 1..Len(seq) : f[i] = MatchBlock(a, b, f[i - 1])
  BY <1>6, <1>7
<1> QED
  BY <1>5, <1>8 DEF base, seq, MatchesPass

(* The walk over the lines of a that collects the regions.                    *)
RegionsPass(f, a, b, pairs) ==
  /\ f[0] = <<>>
  /\ \A i \in 1..(Len(a) + 1) : f[i] = RegionsUpTo(a, b, pairs, f[i - 1], i)
  /\ RegionsBetween(a, b, pairs) = f[Len(a) + 1]

(* There is such a pass.                                                      *)
LEMMA RegionsUnrolls ==
  ASSUME NEW a, NEW b, NEW pairs, Len(a) + 1 \in Nat
  PROVE  \E f : RegionsPass(f, a, b, pairs)
<1> DEFINE seq == [k \in 1..(Len(a) + 1) |-> k]
           base == <<>>
           Op(acc, i) == Only({RegionsUpTo(a, b, pairs, x, seq[i]) : x \in {acc}})
           Def(g, n) == [i \in 0..n |-> IF i = 0 THEN base ELSE Op(g[i - 1], i)]
           S == {n \in Nat : \E g : g = Def(g, n)}
           f == CHOOSE g : g = Def(g, Len(seq))
<1>0. Len(seq) \in Nat
  OBVIOUS
<1>9. Len(seq) = Len(a) + 1 /\ \A i \in 1..(Len(a) + 1) : seq[i] = i
  OBVIOUS
<1>5. RegionsBetween(a, b, pairs) = f[Len(seq)]
  BY DEF RegionsBetween, Fold
<1>6. \A acc, i : Op(acc, i) = RegionsUpTo(a, b, pairs, acc, seq[i])
  BY DEF Only
<1> HIDE DEF Op, base, seq
<1>1. 0 \in S
  <2>1. [i \in 0..0 |-> base] = Def([i \in 0..0 |-> base], 0)
    OBVIOUS
  <2> QED
    BY <2>1
<1>2. ASSUME NEW n \in Nat, n \in S
      PROVE  n + 1 \in S
  <2>1. PICK g : g = Def(g, n)
    BY <1>2
  <2> DEFINE h == [i \in 0..(n + 1) |-> IF i = n + 1 THEN Op(g[n], n + 1) ELSE g[i]]
  <2>2. h = Def(h, n + 1)
    BY <2>1
  <2> HIDE DEF h, Def
  <2>3. \E k : k = Def(k, n + 1)
    BY <2>2
  <2> QED
    BY <2>3
<1>3. Len(seq) \in S
  BY <1>0, <1>1, <1>2, Induction
<1>4. f = Def(f, Len(seq))
  <2> HIDE DEF Def
  <2> QED
    BY <1>3
<1> HIDE DEF f
<1>7. f[0] = base /\ \A i \in 1..Len(seq) : f[i] = Op(f[i - 1], i)
  BY <1>0, <1>4
<1>8. f[0] = base /\ \A i \in 1..Len(seq) : f[i] = RegionsUpTo(a, b, pairs, f[i - 1], seq[i])
  BY <1>6, <1>7
<1> QED
  BY <1>5, <1>8, <1>9 DEF base, RegionsPass

(* A set is listed one element at a time.                                     *)
ListingPass(f, set) ==
  /\ f[0] = <<>>
  /\ \A i \in 1..Cardinality(set) : f[i] = ListOne(set, f[i - 1])
  /\ Listing(set) = f[Cardinality(set)]

(* There is such a pass.                                                      *)
LEMMA ListingUnrolls ==
  ASSUME NEW set, Cardinality(set) \in Nat
  PROVE  \E f : ListingPass(f, set)
<1> DEFINE seq == [k \in 1..Cardinality(set) |-> k]
           base == <<>>
           Op(acc, i) == Only({ListOne(set, x) : x \in {acc}})
           Def(g, n) == [i \in 0..n |-> IF i = 0 THEN base ELSE Op(g[i - 1], i)]
           S == {n \in Nat : \E g : g = Def(g, n)}
           f == CHOOSE g : g = Def(g, Len(seq))
<1>0. Len(seq) \in Nat
  OBVIOUS
<1>9. Len(seq) = Cardinality(set) /\ \A i \in 1..Cardinality(set) : seq[i] = i
  OBVIOUS
<1>5. Listing(set) = f[Len(seq)]
  BY DEF Listing, Fold
<1>6. \A acc, i : Op(acc, i) = ListOne(set, acc)
  BY DEF Only
<1> HIDE DEF Op, base, seq
<1>1. 0 \in S
  <2>1. [i \in 0..0 |-> base] = Def([i \in 0..0 |-> base], 0)
    OBVIOUS
  <2> QED
    BY <2>1
<1>2. ASSUME NEW n \in Nat, n \in S
      PROVE  n + 1 \in S
  <2>1. PICK g : g = Def(g, n)
    BY <1>2
  <2> DEFINE h == [i \in 0..(n + 1) |-> IF i = n + 1 THEN Op(g[n], n + 1) ELSE g[i]]
  <2>2. h = Def(h, n + 1)
    BY <2>1
  <2> HIDE DEF h, Def
  <2>3. \E k : k = Def(k, n + 1)
    BY <2>2
  <2> QED
    BY <2>3
<1>3. Len(seq) \in S
  BY <1>0, <1>1, <1>2, Induction
<1>4. f = Def(f, Len(seq))
  <2> HIDE DEF Def
  <2> QED
    BY <1>3
<1> HIDE DEF f
<1>7. f[0] = base /\ \A i \in 1..Len(seq) : f[i] = Op(f[i - 1], i)
  BY <1>0, <1>4
<1>8. f[0] = base /\ \A i \in 1..Len(seq) : f[i] = ListOne(set, f[i - 1])
  BY <1>6, <1>7
<1> QED
  BY <1>5, <1>8, <1>9 DEF base, ListingPass

(* The pass of History.effective over the log.                                *)
RevertedPass(f, L, p) ==
  /\ f[0] = Decided(L, p, FALSE)
  /\ \A i \in 1..Len(L) : f[i] = Drag(L[i], p, f[i - 1])
  /\ Reverted(L, p) = f[Len(L)]

(* There is such a pass.                                                      *)
LEMMA RevertedUnrolls ==
  ASSUME NEW L, NEW p, Len(L) \in Nat
  PROVE  \E f : RevertedPass(f, L, p)
<1> DEFINE seq == L
           base == Decided(L, p, FALSE)
           Op(acc, i) == Only({Drag(seq[i], p, x) : x \in {acc}})
           Def(g, n) == [i \in 0..n |-> IF i = 0 THEN base ELSE Op(g[i - 1], i)]
           S == {n \in Nat : \E g : g = Def(g, n)}
           f == CHOOSE g : g = Def(g, Len(seq))
<1>0. Len(seq) \in Nat
  OBVIOUS
<1>5. Reverted(L, p) = f[Len(seq)]
  BY DEF Reverted, Fold
<1>6. \A acc, i : Op(acc, i) = Drag(seq[i], p, acc)
  BY DEF Only
<1> HIDE DEF Op, base, seq
<1>1. 0 \in S
  <2>1. [i \in 0..0 |-> base] = Def([i \in 0..0 |-> base], 0)
    OBVIOUS
  <2> QED
    BY <2>1
<1>2. ASSUME NEW n \in Nat, n \in S
      PROVE  n + 1 \in S
  <2>1. PICK g : g = Def(g, n)
    BY <1>2
  <2> DEFINE h == [i \in 0..(n + 1) |-> IF i = n + 1 THEN Op(g[n], n + 1) ELSE g[i]]
  <2>2. h = Def(h, n + 1)
    BY <2>1
  <2> HIDE DEF h, Def
  <2>3. \E k : k = Def(k, n + 1)
    BY <2>2
  <2> QED
    BY <2>3
<1>3. Len(seq) \in S
  BY <1>0, <1>1, <1>2, Induction
<1>4. f = Def(f, Len(seq))
  <2> HIDE DEF Def
  <2> QED
    BY <1>3
<1> HIDE DEF f
<1>7. f[0] = base /\ \A i \in 1..Len(seq) : f[i] = Op(f[i - 1], i)
  BY <1>0, <1>4
<1>8. f[0] = base /\ \A i \in 1..Len(seq) : f[i] = Drag(seq[i], p, f[i - 1])
  BY <1>6, <1>7
<1> QED
  BY <1>5, <1>8 DEF base, seq, RevertedPass

(* The pass of History._applied over the log.                                 *)
ClosedPass(f, L, p, wanted) ==
  /\ f[0] = {}
  /\ \A i \in 1..Len(L) : f[i] = Admit(L[i], p, wanted, f[i - 1])
  /\ Closed(L, p, wanted) = f[Len(L)]

(* There is such a pass.                                                      *)
LEMMA ClosedUnrolls ==
  ASSUME NEW L, NEW p, NEW wanted, Len(L) \in Nat
  PROVE  \E f : ClosedPass(f, L, p, wanted)
<1> DEFINE seq == L
           base == {}
           Op(acc, i) == Only({Admit(seq[i], p, wanted, x) : x \in {acc}})
           Def(g, n) == [i \in 0..n |-> IF i = 0 THEN base ELSE Op(g[i - 1], i)]
           S == {n \in Nat : \E g : g = Def(g, n)}
           f == CHOOSE g : g = Def(g, Len(seq))
<1>0. Len(seq) \in Nat
  OBVIOUS
<1>5. Closed(L, p, wanted) = f[Len(seq)]
  BY DEF Closed, Fold
<1>6. \A acc, i : Op(acc, i) = Admit(seq[i], p, wanted, acc)
  BY DEF Only
<1> HIDE DEF Op, base, seq
<1>1. 0 \in S
  <2>1. [i \in 0..0 |-> base] = Def([i \in 0..0 |-> base], 0)
    OBVIOUS
  <2> QED
    BY <2>1
<1>2. ASSUME NEW n \in Nat, n \in S
      PROVE  n + 1 \in S
  <2>1. PICK g : g = Def(g, n)
    BY <1>2
  <2> DEFINE h == [i \in 0..(n + 1) |-> IF i = n + 1 THEN Op(g[n], n + 1) ELSE g[i]]
  <2>2. h = Def(h, n + 1)
    BY <2>1
  <2> HIDE DEF h, Def
  <2>3. \E k : k = Def(k, n + 1)
    BY <2>2
  <2> QED
    BY <2>3
<1>3. Len(seq) \in S
  BY <1>0, <1>1, <1>2, Induction
<1>4. f = Def(f, Len(seq))
  <2> HIDE DEF Def
  <2> QED
    BY <1>3
<1> HIDE DEF f
<1>7. f[0] = base /\ \A i \in 1..Len(seq) : f[i] = Op(f[i - 1], i)
  BY <1>0, <1>4
<1>8. f[0] = base /\ \A i \in 1..Len(seq) : f[i] = Admit(seq[i], p, wanted, f[i - 1])
  BY <1>6, <1>7
<1> QED
  BY <1>5, <1>8 DEF base, seq, ClosedPass

(* The pass of History._reconstruct over the log.                             *)
ReplayPass(f, L, p, applied) ==
  /\ f[0] = [kind |-> Oldest(L, p).kind, lines |-> Written(Oldest(L, p).lines, NoHunk)]
  /\ \A i \in 1..Len(L) :
          f[i] = ReplayEdit(L[i], {k \in HunksOf(L[i], p) : <<L[i].seq, k>> \in applied}, f[i - 1])
  /\ Replay(L, p, applied) = f[Len(L)]

(* There is such a pass.                                                      *)
LEMMA ReplayUnrolls ==
  ASSUME NEW L, NEW p, NEW applied, Len(L) \in Nat
  PROVE  \E f : ReplayPass(f, L, p, applied)
<1> DEFINE seq == L
           base == [kind |-> Oldest(L, p).kind, lines |-> Written(Oldest(L, p).lines, NoHunk)]
           Op(acc, i) ==
              Only({ReplayEdit(seq[i], {k \in HunksOf(seq[i], p) : <<seq[i].seq, k>> \in applied}, x) : x \in {acc}})
           Def(g, n) == [i \in 0..n |-> IF i = 0 THEN base ELSE Op(g[i - 1], i)]
           S == {n \in Nat : \E g : g = Def(g, n)}
           f == CHOOSE g : g = Def(g, Len(seq))
<1>0. Len(seq) \in Nat
  OBVIOUS
<1>5. Replay(L, p, applied) = f[Len(seq)]
  BY DEF Replay, Fold
<1>6. \A acc, i : Op(acc, i) =
        ReplayEdit(seq[i], {k \in HunksOf(seq[i], p) : <<seq[i].seq, k>> \in applied}, acc)
  BY DEF Only
<1> HIDE DEF Op, base, seq
<1>1. 0 \in S
  <2>1. [i \in 0..0 |-> base] = Def([i \in 0..0 |-> base], 0)
    OBVIOUS
  <2> QED
    BY <2>1
<1>2. ASSUME NEW n \in Nat, n \in S
      PROVE  n + 1 \in S
  <2>1. PICK g : g = Def(g, n)
    BY <1>2
  <2> DEFINE h == [i \in 0..(n + 1) |-> IF i = n + 1 THEN Op(g[n], n + 1) ELSE g[i]]
  <2>2. h = Def(h, n + 1)
    BY <2>1
  <2> HIDE DEF h, Def
  <2>3. \E k : k = Def(k, n + 1)
    BY <2>2
  <2> QED
    BY <2>3
<1>3. Len(seq) \in S
  BY <1>0, <1>1, <1>2, Induction
<1>4. f = Def(f, Len(seq))
  <2> HIDE DEF Def
  <2> QED
    BY <1>3
<1> HIDE DEF f
<1>7. f[0] = base /\ \A i \in 1..Len(seq) : f[i] = Op(f[i - 1], i)
  BY <1>0, <1>4
<1>8. f[0] = base /\ \A i \in 1..Len(seq) :
        f[i] = ReplayEdit(seq[i], {k \in HunksOf(seq[i], p) : <<seq[i].seq, k>> \in applied}, f[i - 1])
  BY <1>6, <1>7
<1> QED
  BY <1>5, <1>8 DEF base, seq, ReplayPass

(* The order of the hunks of an edit, built one hunk at a time.               *)
RightToLeftPass(f, e, here, to) ==
  /\ f[0] = <<>>
  /\ \A i \in 1..Len(e.hunks) : f[i] = PutInOrder(e, here, to, f[i - 1], i)
  /\ RightToLeft(e, here, to) = f[Len(e.hunks)]

(* There is such a pass.                                                      *)
LEMMA RightToLeftUnrolls ==
  ASSUME NEW e, NEW here, NEW to, Len(e.hunks) \in Nat
  PROVE  \E f : RightToLeftPass(f, e, here, to)
<1> DEFINE seq == [k \in 1..Len(e.hunks) |-> k]
           base == <<>>
           Op(acc, i) == Only({PutInOrder(e, here, to, x, seq[i]) : x \in {acc}})
           Def(g, n) == [i \in 0..n |-> IF i = 0 THEN base ELSE Op(g[i - 1], i)]
           S == {n \in Nat : \E g : g = Def(g, n)}
           f == CHOOSE g : g = Def(g, Len(seq))
<1>0. Len(seq) \in Nat
  OBVIOUS
<1>9. Len(seq) = Len(e.hunks) /\ \A i \in 1..Len(e.hunks) : seq[i] = i
  OBVIOUS
<1>5. RightToLeft(e, here, to) = f[Len(seq)]
  BY DEF RightToLeft, Fold
<1>6. \A acc, i : Op(acc, i) = PutInOrder(e, here, to, acc, seq[i])
  BY DEF Only
<1> HIDE DEF Op, base, seq
<1>1. 0 \in S
  <2>1. [i \in 0..0 |-> base] = Def([i \in 0..0 |-> base], 0)
    OBVIOUS
  <2> QED
    BY <2>1
<1>2. ASSUME NEW n \in Nat, n \in S
      PROVE  n + 1 \in S
  <2>1. PICK g : g = Def(g, n)
    BY <1>2
  <2> DEFINE h == [i \in 0..(n + 1) |-> IF i = n + 1 THEN Op(g[n], n + 1) ELSE g[i]]
  <2>2. h = Def(h, n + 1)
    BY <2>1
  <2> HIDE DEF h, Def
  <2>3. \E k : k = Def(k, n + 1)
    BY <2>2
  <2> QED
    BY <2>3
<1>3. Len(seq) \in S
  BY <1>0, <1>1, <1>2, Induction
<1>4. f = Def(f, Len(seq))
  <2> HIDE DEF Def
  <2> QED
    BY <1>3
<1> HIDE DEF f
<1>7. f[0] = base /\ \A i \in 1..Len(seq) : f[i] = Op(f[i - 1], i)
  BY <1>0, <1>4
<1>8. f[0] = base /\ \A i \in 1..Len(seq) : f[i] = PutInOrder(e, here, to, f[i - 1], seq[i])
  BY <1>6, <1>7
<1> QED
  BY <1>5, <1>8, <1>9 DEF base, RightToLeftPass

(* The splices of an edit, one after the other.                               *)
SplicePass(f, result, e, to, order) ==
  /\ f[0] = result
  /\ \A i \in 1..Len(order) : f[i] = Splice(e, to, f[i - 1], order[i])
  /\ SpliceAll(result, e, to, order) = f[Len(order)]

(* There is such a pass.                                                      *)
LEMMA SpliceUnrolls ==
  ASSUME NEW result, NEW e, NEW to, NEW order, Len(order) \in Nat
  PROVE  \E f : SplicePass(f, result, e, to, order)
<1> DEFINE seq == order
           base == result
           Op(acc, i) == Only({Splice(e, to, x, seq[i]) : x \in {acc}})
           Def(g, n) == [i \in 0..n |-> IF i = 0 THEN base ELSE Op(g[i - 1], i)]
           S == {n \in Nat : \E g : g = Def(g, n)}
           f == CHOOSE g : g = Def(g, Len(seq))
<1>0. Len(seq) \in Nat
  OBVIOUS
<1>5. SpliceAll(result, e, to, order) = f[Len(seq)]
  BY DEF SpliceAll, Fold
<1>6. \A acc, i : Op(acc, i) = Splice(e, to, acc, seq[i])
  BY DEF Only
<1> HIDE DEF Op, base, seq
<1>1. 0 \in S
  <2>1. [i \in 0..0 |-> base] = Def([i \in 0..0 |-> base], 0)
    OBVIOUS
  <2> QED
    BY <2>1
<1>2. ASSUME NEW n \in Nat, n \in S
      PROVE  n + 1 \in S
  <2>1. PICK g : g = Def(g, n)
    BY <1>2
  <2> DEFINE h == [i \in 0..(n + 1) |-> IF i = n + 1 THEN Op(g[n], n + 1) ELSE g[i]]
  <2>2. h = Def(h, n + 1)
    BY <2>1
  <2> HIDE DEF h, Def
  <2>3. \E k : k = Def(k, n + 1)
    BY <2>2
  <2> QED
    BY <2>3
<1>3. Len(seq) \in S
  BY <1>0, <1>1, <1>2, Induction
<1>4. f = Def(f, Len(seq))
  <2> HIDE DEF Def
  <2> QED
    BY <1>3
<1> HIDE DEF f
<1>7. f[0] = base /\ \A i \in 1..Len(seq) : f[i] = Op(f[i - 1], i)
  BY <1>0, <1>4
<1>8. f[0] = base /\ \A i \in 1..Len(seq) : f[i] = Splice(e, to, f[i - 1], seq[i])
  BY <1>6, <1>7
<1> QED
  BY <1>5, <1>8 DEF base, seq, SplicePass

(* The turns of the log, one after the other.                                 *)
TurnIdsPass(f, L) ==
  /\ f[0] = <<>>
  /\ \A i \in 1..Len(L) : f[i] = AddTurn(f[i - 1], L[i])
  /\ TurnIds(L) = f[Len(L)]

(* There is such a pass.                                                      *)
LEMMA TurnIdsUnrolls ==
  ASSUME NEW L, Len(L) \in Nat
  PROVE  \E f : TurnIdsPass(f, L)
<1> DEFINE seq == L
           base == <<>>
           Op(acc, i) == Only({AddTurn(x, seq[i]) : x \in {acc}})
           Def(g, n) == [i \in 0..n |-> IF i = 0 THEN base ELSE Op(g[i - 1], i)]
           S == {n \in Nat : \E g : g = Def(g, n)}
           f == CHOOSE g : g = Def(g, Len(seq))
<1>0. Len(seq) \in Nat
  OBVIOUS
<1>5. TurnIds(L) = f[Len(seq)]
  BY DEF TurnIds, Fold
<1>6. \A acc, i : Op(acc, i) = AddTurn(acc, seq[i])
  BY DEF Only
<1> HIDE DEF Op, base, seq
<1>1. 0 \in S
  <2>1. [i \in 0..0 |-> base] = Def([i \in 0..0 |-> base], 0)
    OBVIOUS
  <2> QED
    BY <2>1
<1>2. ASSUME NEW n \in Nat, n \in S
      PROVE  n + 1 \in S
  <2>1. PICK g : g = Def(g, n)
    BY <1>2
  <2> DEFINE h == [i \in 0..(n + 1) |-> IF i = n + 1 THEN Op(g[n], n + 1) ELSE g[i]]
  <2>2. h = Def(h, n + 1)
    BY <2>1
  <2> HIDE DEF h, Def
  <2>3. \E k : k = Def(k, n + 1)
    BY <2>2
  <2> QED
    BY <2>3
<1>3. Len(seq) \in S
  BY <1>0, <1>1, <1>2, Induction
<1>4. f = Def(f, Len(seq))
  <2> HIDE DEF Def
  <2> QED
    BY <1>3
<1> HIDE DEF f
<1>7. f[0] = base /\ \A i \in 1..Len(seq) : f[i] = Op(f[i - 1], i)
  BY <1>0, <1>4
<1>8. f[0] = base /\ \A i \in 1..Len(seq) : f[i] = AddTurn(f[i - 1], seq[i])
  BY <1>6, <1>7
<1> QED
  BY <1>5, <1>8 DEF base, seq, TurnIdsPass

(* The reads of create_checkpoint, one file after the other.                  *)
ReadsPass(f, c, read) ==
  /\ f[0] = c
  /\ \A i \in 1..Len(Listing(read)) :
          f[i] = RecordPreEdit(f[i - 1], Listing(read)[i], disk[Listing(read)[i]])
  /\ Each(LAMBDA d, p : RecordPreEdit(d, p, disk[p]), c, read) = f[Len(Listing(read))]

(* There is such a pass.                                                      *)
LEMMA ReadsUnroll ==
  ASSUME NEW c, NEW read, Len(Listing(read)) \in Nat
  PROVE  \E f : ReadsPass(f, c, read)
<1> DEFINE seq == Listing(read)
           base == c
           Op(acc, i) == Only({RecordPreEdit(x, seq[i], disk[seq[i]]) : x \in {acc}})
           Def(g, n) == [i \in 0..n |-> IF i = 0 THEN base ELSE Op(g[i - 1], i)]
           S == {n \in Nat : \E g : g = Def(g, n)}
           f == CHOOSE g : g = Def(g, Len(seq))
<1>0. Len(seq) \in Nat
  OBVIOUS
<1>5. Each(LAMBDA d, p : RecordPreEdit(d, p, disk[p]), c, read) = f[Len(seq)]
  BY DEF Each, Fold
<1>6. \A acc, i : Op(acc, i) = RecordPreEdit(acc, seq[i], disk[seq[i]])
  BY DEF Only
<1> HIDE DEF Op, base, seq
<1>1. 0 \in S
  <2>1. [i \in 0..0 |-> base] = Def([i \in 0..0 |-> base], 0)
    OBVIOUS
  <2> QED
    BY <2>1
<1>2. ASSUME NEW n \in Nat, n \in S
      PROVE  n + 1 \in S
  <2>1. PICK g : g = Def(g, n)
    BY <1>2
  <2> DEFINE h == [i \in 0..(n + 1) |-> IF i = n + 1 THEN Op(g[n], n + 1) ELSE g[i]]
  <2>2. h = Def(h, n + 1)
    BY <2>1
  <2> HIDE DEF h, Def
  <2>3. \E k : k = Def(k, n + 1)
    BY <2>2
  <2> QED
    BY <2>3
<1>3. Len(seq) \in S
  BY <1>0, <1>1, <1>2, Induction
<1>4. f = Def(f, Len(seq))
  <2> HIDE DEF Def
  <2> QED
    BY <1>3
<1> HIDE DEF f
<1>7. f[0] = base /\ \A i \in 1..Len(seq) : f[i] = Op(f[i - 1], i)
  BY <1>0, <1>4
<1>8. f[0] = base /\ \A i \in 1..Len(seq) : f[i] = RecordPreEdit(f[i - 1], seq[i], disk[seq[i]])
  BY <1>6, <1>7
<1> QED
  BY <1>5, <1>8 DEF base, seq, ReadsPass

(* The files seal_turn goes through.                                          *)
SealPass(f, c, mark, post, set) ==
  /\ f[0] = c
  /\ \A i \in 1..Len(Listing(set)) : f[i] = SealPath(f[i - 1], mark, post, Listing(set)[i])
  /\ Each(LAMBDA d, p : SealPath(d, mark, post, p), c, set) = f[Len(Listing(set))]

(* There is such a pass.                                                      *)
LEMMA SealUnrolls ==
  ASSUME NEW c, NEW mark, NEW post, NEW set, Len(Listing(set)) \in Nat
  PROVE  \E f : SealPass(f, c, mark, post, set)
<1> DEFINE seq == Listing(set)
           base == c
           Op(acc, i) == Only({SealPath(x, mark, post, seq[i]) : x \in {acc}})
           Def(g, n) == [i \in 0..n |-> IF i = 0 THEN base ELSE Op(g[i - 1], i)]
           S == {n \in Nat : \E g : g = Def(g, n)}
           f == CHOOSE g : g = Def(g, Len(seq))
<1>0. Len(seq) \in Nat
  OBVIOUS
<1>5. Each(LAMBDA d, p : SealPath(d, mark, post, p), c, set) = f[Len(seq)]
  BY DEF Each, Fold
<1>6. \A acc, i : Op(acc, i) = SealPath(acc, mark, post, seq[i])
  BY DEF Only
<1> HIDE DEF Op, base, seq
<1>1. 0 \in S
  <2>1. [i \in 0..0 |-> base] = Def([i \in 0..0 |-> base], 0)
    OBVIOUS
  <2> QED
    BY <2>1
<1>2. ASSUME NEW n \in Nat, n \in S
      PROVE  n + 1 \in S
  <2>1. PICK g : g = Def(g, n)
    BY <1>2
  <2> DEFINE h == [i \in 0..(n + 1) |-> IF i = n + 1 THEN Op(g[n], n + 1) ELSE g[i]]
  <2>2. h = Def(h, n + 1)
    BY <2>1
  <2> HIDE DEF h, Def
  <2>3. \E k : k = Def(k, n + 1)
    BY <2>2
  <2> QED
    BY <2>3
<1>3. Len(seq) \in S
  BY <1>0, <1>1, <1>2, Induction
<1>4. f = Def(f, Len(seq))
  <2> HIDE DEF Def
  <2> QED
    BY <1>3
<1> HIDE DEF f
<1>7. f[0] = base /\ \A i \in 1..Len(seq) : f[i] = Op(f[i - 1], i)
  BY <1>0, <1>4
<1>8. f[0] = base /\ \A i \in 1..Len(seq) : f[i] = SealPath(f[i - 1], mark, post, seq[i])
  BY <1>6, <1>7
<1> QED
  BY <1>5, <1>8 DEF base, seq, SealPass

(* The files that are reconciled, one after the other.                        *)
ReconcilePass(f, c, set) ==
  /\ f[0] = c
  /\ \A i \in 1..Len(Listing(set)) : f[i] = ReconcilePath(f[i - 1], Listing(set)[i])
  /\ Each(ReconcilePath, c, set) = f[Len(Listing(set))]

(* There is such a pass.                                                      *)
LEMMA ReconcileUnrolls ==
  ASSUME NEW c, NEW set, Len(Listing(set)) \in Nat
  PROVE  \E f : ReconcilePass(f, c, set)
<1> DEFINE seq == Listing(set)
           base == c
           Op(acc, i) == Only({ReconcilePath(x, seq[i]) : x \in {acc}})
           Def(g, n) == [i \in 0..n |-> IF i = 0 THEN base ELSE Op(g[i - 1], i)]
           S == {n \in Nat : \E g : g = Def(g, n)}
           f == CHOOSE g : g = Def(g, Len(seq))
<1>0. Len(seq) \in Nat
  OBVIOUS
<1>5. Each(ReconcilePath, c, set) = f[Len(seq)]
  BY DEF Each, Fold
<1>6. \A acc, i : Op(acc, i) = ReconcilePath(acc, seq[i])
  BY DEF Only
<1> HIDE DEF Op, base, seq
<1>1. 0 \in S
  <2>1. [i \in 0..0 |-> base] = Def([i \in 0..0 |-> base], 0)
    OBVIOUS
  <2> QED
    BY <2>1
<1>2. ASSUME NEW n \in Nat, n \in S
      PROVE  n + 1 \in S
  <2>1. PICK g : g = Def(g, n)
    BY <1>2
  <2> DEFINE h == [i \in 0..(n + 1) |-> IF i = n + 1 THEN Op(g[n], n + 1) ELSE g[i]]
  <2>2. h = Def(h, n + 1)
    BY <2>1
  <2> HIDE DEF h, Def
  <2>3. \E k : k = Def(k, n + 1)
    BY <2>2
  <2> QED
    BY <2>3
<1>3. Len(seq) \in S
  BY <1>0, <1>1, <1>2, Induction
<1>4. f = Def(f, Len(seq))
  <2> HIDE DEF Def
  <2> QED
    BY <1>3
<1> HIDE DEF f
<1>7. f[0] = base /\ \A i \in 1..Len(seq) : f[i] = Op(f[i - 1], i)
  BY <1>0, <1>4
<1>8. f[0] = base /\ \A i \in 1..Len(seq) : f[i] = ReconcilePath(f[i - 1], seq[i])
  BY <1>6, <1>7
<1> QED
  BY <1>5, <1>8 DEF base, seq, ReconcilePass

(* The hunks of a file that are decided.                                      *)
DecidePass(f, c, p, hunks, keep) ==
  /\ f[0] = c
  /\ \A i \in 1..Len(Listing(Targets(c, p, hunks, keep))) :
          f[i] = RecordDecision(f[i - 1], p, Listing(Targets(c, p, hunks, keep))[i], keep)
  /\ DecideHunks(c, p, hunks, keep) = f[Len(Listing(Targets(c, p, hunks, keep)))]

(* There is such a pass.                                                      *)
LEMMA DecideUnrolls ==
  ASSUME NEW c, NEW p, NEW hunks, NEW keep,
         Len(Listing(Targets(c, p, hunks, keep))) \in Nat
  PROVE  \E f : DecidePass(f, c, p, hunks, keep)
<1> DEFINE seq == Listing(Targets(c, p, hunks, keep))
           base == c
           Op(acc, i) == Only({RecordDecision(x, p, seq[i], keep) : x \in {acc}})
           Def(g, n) == [i \in 0..n |-> IF i = 0 THEN base ELSE Op(g[i - 1], i)]
           S == {n \in Nat : \E g : g = Def(g, n)}
           f == CHOOSE g : g = Def(g, Len(seq))
<1>0. Len(seq) \in Nat
  OBVIOUS
<1>5. DecideHunks(c, p, hunks, keep) = f[Len(seq)]
  BY DEF DecideHunks, Each, Fold
<1>6. \A acc, i : Op(acc, i) = RecordDecision(acc, p, seq[i], keep)
  BY DEF Only
<1> HIDE DEF Op, base, seq
<1>1. 0 \in S
  <2>1. [i \in 0..0 |-> base] = Def([i \in 0..0 |-> base], 0)
    OBVIOUS
  <2> QED
    BY <2>1
<1>2. ASSUME NEW n \in Nat, n \in S
      PROVE  n + 1 \in S
  <2>1. PICK g : g = Def(g, n)
    BY <1>2
  <2> DEFINE h == [i \in 0..(n + 1) |-> IF i = n + 1 THEN Op(g[n], n + 1) ELSE g[i]]
  <2>2. h = Def(h, n + 1)
    BY <2>1
  <2> HIDE DEF h, Def
  <2>3. \E k : k = Def(k, n + 1)
    BY <2>2
  <2> QED
    BY <2>3
<1>3. Len(seq) \in S
  BY <1>0, <1>1, <1>2, Induction
<1>4. f = Def(f, Len(seq))
  <2> HIDE DEF Def
  <2> QED
    BY <1>3
<1> HIDE DEF f
<1>7. f[0] = base /\ \A i \in 1..Len(seq) : f[i] = Op(f[i - 1], i)
  BY <1>0, <1>4
<1>8. f[0] = base /\ \A i \in 1..Len(seq) : f[i] = RecordDecision(f[i - 1], p, seq[i], keep)
  BY <1>6, <1>7
<1> QED
  BY <1>5, <1>8 DEF base, seq, DecidePass

(* The files a decision is about.                                             *)
TargetPass(f, c, one, keep) ==
  /\ f[0] = c
  /\ \A i \in 1..Len(Listing(DOMAIN one)) :
          f[i] = DecideHunks(f[i - 1], Listing(DOMAIN one)[i], one[Listing(DOMAIN one)[i]], keep)
  /\ DecideTarget(c, one, keep) = f[Len(Listing(DOMAIN one))]

(* There is such a pass.                                                      *)
LEMMA TargetUnrolls ==
  ASSUME NEW c, NEW one, NEW keep, Len(Listing(DOMAIN one)) \in Nat
  PROVE  \E f : TargetPass(f, c, one, keep)
<1> DEFINE seq == Listing(DOMAIN one)
           base == c
           Op(acc, i) == Only({DecideHunks(x, seq[i], one[seq[i]], keep) : x \in {acc}})
           Def(g, n) == [i \in 0..n |-> IF i = 0 THEN base ELSE Op(g[i - 1], i)]
           S == {n \in Nat : \E g : g = Def(g, n)}
           f == CHOOSE g : g = Def(g, Len(seq))
<1>0. Len(seq) \in Nat
  OBVIOUS
<1>5. DecideTarget(c, one, keep) = f[Len(seq)]
  BY DEF DecideTarget, Each, Fold
<1>6. \A acc, i : Op(acc, i) = DecideHunks(acc, seq[i], one[seq[i]], keep)
  BY DEF Only
<1> HIDE DEF Op, base, seq
<1>1. 0 \in S
  <2>1. [i \in 0..0 |-> base] = Def([i \in 0..0 |-> base], 0)
    OBVIOUS
  <2> QED
    BY <2>1
<1>2. ASSUME NEW n \in Nat, n \in S
      PROVE  n + 1 \in S
  <2>1. PICK g : g = Def(g, n)
    BY <1>2
  <2> DEFINE h == [i \in 0..(n + 1) |-> IF i = n + 1 THEN Op(g[n], n + 1) ELSE g[i]]
  <2>2. h = Def(h, n + 1)
    BY <2>1
  <2> HIDE DEF h, Def
  <2>3. \E k : k = Def(k, n + 1)
    BY <2>2
  <2> QED
    BY <2>3
<1>3. Len(seq) \in S
  BY <1>0, <1>1, <1>2, Induction
<1>4. f = Def(f, Len(seq))
  <2> HIDE DEF Def
  <2> QED
    BY <1>3
<1> HIDE DEF f
<1>7. f[0] = base /\ \A i \in 1..Len(seq) : f[i] = Op(f[i - 1], i)
  BY <1>0, <1>4
<1>8. f[0] = base /\ \A i \in 1..Len(seq) : f[i] = DecideHunks(f[i - 1], seq[i], one[seq[i]], keep)
  BY <1>6, <1>7
<1> QED
  BY <1>5, <1>8 DEF base, seq, TargetPass

(* The decisions of a review, one after the other.                            *)
OutcomePass(f, c, ask, keep) ==
  /\ f[0] = c
  /\ \A i \in 1..Len(ask) : f[i] = DecideTarget(f[i - 1], ask[i], keep)
  /\ Outcome(c, ask, keep) = f[Len(ask)]

(* There is such a pass.                                                      *)
LEMMA OutcomeUnrolls ==
  ASSUME NEW c, NEW ask, NEW keep, Len(ask) \in Nat
  PROVE  \E f : OutcomePass(f, c, ask, keep)
<1> DEFINE seq == ask
           base == c
           Op(acc, i) == Only({DecideTarget(x, seq[i], keep) : x \in {acc}})
           Def(g, n) == [i \in 0..n |-> IF i = 0 THEN base ELSE Op(g[i - 1], i)]
           S == {n \in Nat : \E g : g = Def(g, n)}
           f == CHOOSE g : g = Def(g, Len(seq))
<1>0. Len(seq) \in Nat
  OBVIOUS
<1>5. Outcome(c, ask, keep) = f[Len(seq)]
  BY DEF Outcome, Fold
<1>6. \A acc, i : Op(acc, i) = DecideTarget(acc, seq[i], keep)
  BY DEF Only
<1> HIDE DEF Op, base, seq
<1>1. 0 \in S
  <2>1. [i \in 0..0 |-> base] = Def([i \in 0..0 |-> base], 0)
    OBVIOUS
  <2> QED
    BY <2>1
<1>2. ASSUME NEW n \in Nat, n \in S
      PROVE  n + 1 \in S
  <2>1. PICK g : g = Def(g, n)
    BY <1>2
  <2> DEFINE h == [i \in 0..(n + 1) |-> IF i = n + 1 THEN Op(g[n], n + 1) ELSE g[i]]
  <2>2. h = Def(h, n + 1)
    BY <2>1
  <2> HIDE DEF h, Def
  <2>3. \E k : k = Def(k, n + 1)
    BY <2>2
  <2> QED
    BY <2>3
<1>3. Len(seq) \in S
  BY <1>0, <1>1, <1>2, Induction
<1>4. f = Def(f, Len(seq))
  <2> HIDE DEF Def
  <2> QED
    BY <1>3
<1> HIDE DEF f
<1>7. f[0] = base /\ \A i \in 1..Len(seq) : f[i] = Op(f[i - 1], i)
  BY <1>0, <1>4
<1>8. f[0] = base /\ \A i \in 1..Len(seq) : f[i] = DecideTarget(f[i - 1], seq[i], keep)
  BY <1>6, <1>7
<1> QED
  BY <1>5, <1>8 DEF base, seq, OutcomePass

-----------------------------------------------------------------------------
(* Line diffs.                                                                *)

(* Matched pairs: both ends, and pairs of equal lines, in the same order in   *)
(* both texts.                                                                *)
Chain(a, b, pairs) ==
  /\ pairs \subseteq (0..(Len(a) + 1)) \X (0..(Len(b) + 1))
  /\ <<0, 0>> \in pairs
  /\ <<Len(a) + 1, Len(b) + 1>> \in pairs
  /\ \A x \in pairs : x[1] \in 1..Len(a) => a[x[1]] = b[x[2]]
  /\ \A x, y \in pairs : x[1] < y[1] <=> x[2] < y[2]

(* A block lies in a window, on equal lines.                                  *)
LEMMA BlockLies ==
  ASSUME NEW a, NEW b, NEW pairs, NEW x \in NextBlocks(a, b, pairs),
         pairs \subseteq Nat \X Nat
  PROVE  \E w \in Consecutive(pairs) :
           /\ x[1] \in Int /\ x[2] \in Int /\ x[3] \in Nat
           /\ \A d \in 0..(x[3] - 1) :
                /\ x[1] + d \in (w[1][1] + 1)..(w[2][1] - 1)
                /\ x[2] + d \in (w[1][2] + 1)..(w[2][2] - 1)
                /\ a[x[1] + d] = b[x[2] + d]
<1>1. PICK w \in Consecutive(pairs) :
        x \in Blocks(a, b, w[1][1] + 1, w[2][1] - 1, w[1][2] + 1, w[2][2] - 1)
  BY DEF NextBlocks
<1> DEFINE alo == w[1][1] + 1
           ahi == w[2][1] - 1
           blo == w[1][2] + 1
           bhi == w[2][2] - 1
<1>2. alo \in Int /\ ahi \in Int /\ blo \in Int /\ bhi \in Int
  BY DEF Consecutive
<1> HIDE DEF alo, ahi, blo, bhi
<1> DEFINE equal == {y \in (alo..ahi) \X (blo..bhi) : a[y[1]] = b[y[2]]}
<1>3. PICK y \in equal : \E n \in 1..(ahi - y[1] + 1) :
        /\ x = <<y[1], y[2], n>>
        /\ \A d \in 0..(n - 1) : <<y[1] + d, y[2] + d>> \in equal
  <2>1. x \in Blocks(a, b, alo, ahi, blo, bhi)
    BY <1>1 DEF alo, ahi, blo, bhi
  <2> QED
    BY <2>1 DEF Blocks
<1>4. PICK n \in 1..(ahi - y[1] + 1) :
        /\ x = <<y[1], y[2], n>>
        /\ \A d \in 0..(n - 1) : <<y[1] + d, y[2] + d>> \in equal
  BY <1>3
<1>5. x[1] = y[1] /\ x[2] = y[2] /\ x[3] = n
  BY <1>4
<1>6. x[1] \in Int /\ x[2] \in Int /\ x[3] \in Nat
  BY <1>2, <1>5
<1>7. ASSUME NEW d \in 0..(x[3] - 1)
      PROVE  x[1] + d \in alo..ahi /\ x[2] + d \in blo..bhi /\ a[x[1] + d] = b[x[2] + d]
  <2>1. <<x[1] + d, x[2] + d>> \in equal
    BY <1>4, <1>5
  <2> QED
    BY <2>1
<1> QED
  BY <1>6, <1>7 DEF alo, ahi, blo, bhi

(* One block more keeps the order.                                            *)
LEMMA MatchBlockKeepsChain ==
  ASSUME NEW a, NEW b, NEW pairs, Len(a) \in Nat, Len(b) \in Nat, Chain(a, b, pairs)
  PROVE  Chain(a, b, MatchBlock(a, b, pairs))
<1> DEFINE next == NextBlocks(a, b, pairs)
           x == CHOOSE y \in next : TRUE
           block == {<<x[1] + d, x[2] + d>> : d \in 0..(x[3] - 1)}
<1>1. CASE next = {}
  BY <1>1 DEF MatchBlock
<1>2. CASE next # {}
  <2>1. MatchBlock(a, b, pairs) = pairs \cup block
    BY <1>2 DEF MatchBlock
  <2>2. x \in next
    BY <1>2
  <2> HIDE DEF x
  <2>3. pairs \subseteq Nat \X Nat
    BY DEF Chain
  <2>4. PICK w \in Consecutive(pairs) :
           /\ x[1] \in Int /\ x[2] \in Int /\ x[3] \in Nat
           /\ \A d \in 0..(x[3] - 1) :
                /\ x[1] + d \in (w[1][1] + 1)..(w[2][1] - 1)
                /\ x[2] + d \in (w[1][2] + 1)..(w[2][2] - 1)
                /\ a[x[1] + d] = b[x[2] + d]
    BY <2>2, <2>3, BlockLies
  <2>5. /\ w[1] \in pairs /\ w[2] \in pairs
        /\ ~\E z \in pairs : w[1][1] < z[1] /\ z[1] < w[2][1]
    BY DEF Consecutive
  <2>6. ASSUME NEW z \in block
        PROVE  \E d \in 0..(x[3] - 1) : z = <<x[1] + d, x[2] + d>>
    OBVIOUS
  <2> HIDE DEF block
  <2>7. ASSUME NEW z \in block
        PROVE  /\ z \in Int \X Int
               /\ w[1][1] < z[1] /\ z[1] < w[2][1]
               /\ w[1][2] < z[2] /\ z[2] < w[2][2]
               /\ a[z[1]] = b[z[2]]
    <3>1. PICK d \in 0..(x[3] - 1) : z = <<x[1] + d, x[2] + d>>
      BY <2>6
    <3>2. z[1] = x[1] + d /\ z[2] = x[2] + d
      BY <3>1
    <3>3. z[1] \in (w[1][1] + 1)..(w[2][1] - 1)
      BY <2>4, <3>2
    <3>10. z[2] \in (w[1][2] + 1)..(w[2][2] - 1)
      BY <2>4, <3>2
    <3>11. a[z[1]] = b[z[2]]
      BY <2>4, <3>2
    <3>4. /\ w[1][1] \in Nat /\ w[1][2] \in Nat
          /\ w[2][1] \in Nat /\ w[2][2] \in Nat
      BY <2>3, <2>5
    <3>5. z[1] \in Int /\ z[2] \in Int
      BY <3>3, <3>10
    <3>6. z = <<z[1], z[2]>>
      BY <3>1
    <3>7. z \in Int \X Int
      BY <3>5, <3>6
    <3>8. w[1][1] < z[1] /\ z[1] < w[2][1]
      BY <3>3, <3>4
    <3>9. w[1][2] < z[2] /\ z[2] < w[2][2]
      BY <3>10, <3>4
    <3> QED
      BY <3>11, <3>7, <3>8, <3>9
  <2>8. ASSUME NEW z \in block, NEW y \in pairs
        PROVE  (z[1] < y[1] <=> z[2] < y[2]) /\ (y[1] < z[1] <=> y[2] < z[2])
    <3>1. /\ w[1][1] < y[1] <=> w[1][2] < y[2]
          /\ y[1] < w[2][1] <=> y[2] < w[2][2]
      BY <2>5 DEF Chain
    <3>2. y[1] <= w[1][1] \/ w[2][1] <= y[1]
      BY <2>3, <2>5
    <3> QED
      BY <2>3, <2>5, <2>7, <3>1, <3>2
  <2>9. ASSUME NEW z \in block, NEW y \in block
        PROVE  z[1] < y[1] <=> z[2] < y[2]
    <3>1. PICK d \in 0..(x[3] - 1) : z = <<x[1] + d, x[2] + d>>
      BY <2>6
    <3>2. PICK g \in 0..(x[3] - 1) : y = <<x[1] + g, x[2] + g>>
      BY <2>6
    <3>3. /\ z[1] = x[1] + d /\ z[2] = x[2] + d
          /\ y[1] = x[1] + g /\ y[2] = x[2] + g
      BY <3>1, <3>2
    <3>4. d \in Int /\ g \in Int
      BY <2>4
    <3> QED
      BY <2>4, <3>3, <3>4
  <2>10. block \subseteq (0..(Len(a) + 1)) \X (0..(Len(b) + 1))
    <3> SUFFICES ASSUME NEW z \in block
                 PROVE  z \in (0..(Len(a) + 1)) \X (0..(Len(b) + 1))
      OBVIOUS
    <3>1. /\ w[1] \in (0..(Len(a) + 1)) \X (0..(Len(b) + 1))
          /\ w[2] \in (0..(Len(a) + 1)) \X (0..(Len(b) + 1))
      BY <2>5 DEF Chain
    <3>2. z[1] \in 0..(Len(a) + 1) /\ z[2] \in 0..(Len(b) + 1)
      BY <2>7, <3>1
    <3> QED
      BY <2>7, <3>2
  <2>11. \A y, z \in pairs \cup block : z[1] < y[1] <=> z[2] < y[2]
    BY <2>8, <2>9 DEF Chain
  <2> QED
    BY <2>1, <2>7, <2>10, <2>11 DEF Chain
<1> QED
  BY <1>1, <1>2

(* What difflib matches is in the same order in both texts.                   *)
LEMMA MatchesChain ==
  ASSUME NEW a, NEW b, Len(a) \in Nat, Len(b) \in Nat
  PROVE  Chain(a, b, Matches(a, b))
<1>1. PICK f : /\ f[0] = {<<0, 0>>, <<Len(a) + 1, Len(b) + 1>>}
               /\ \A i \in 1..Len(a) : f[i] = MatchBlock(a, b, f[i - 1])
               /\ Matches(a, b) = f[Len(a)]
  BY MatchesUnrolls DEF MatchesPass
<1> DEFINE S == {i \in 0..Len(a) : Chain(a, b, f[i])}
<1>2. 0 \in S
  BY <1>1 DEF Chain
<1>3. \A i \in 1..Len(a) : i - 1 \in S => i \in S
  BY <1>1, MatchBlockKeepsChain
<1>4. \A i \in 0..Len(a) : i \in S
  <2> HIDE DEF S
  <2> QED
    BY <1>2, <1>3, UpTo
<1> QED
  BY <1>1, <1>4

(* A region, replaced in a text.                                              *)
Patch(s, r) == ReplaceSlice(s, r.start - 1, r.start - 1 + Len(r.removed), r.added)

(* Replacing the regions from the last to the first turns s into t.           *)
Turns(regions, s, t) ==
  \A f : (/\ f[0] = s
          /\ \A k \in 1..Len(regions) : f[k] = Patch(f[k - 1], regions[Len(regions) + 1 - k]))
         => f[Len(regions)] = t

RegionOf(S) == [start : Nat \ {0}, removed : Seq(S), added : Seq(S)]

(* The last line a region removes; for an insertion, the line above it.       *)
EndLine(r) == r.start - 1 + Len(r.removed)

(* Regions in order that do not overlap, and end at line n at the latest.     *)
Placed(regions, n) ==
  /\ \A j, k \in DOMAIN regions : j < k => EndLine(regions[j]) <= regions[k].start - 1
  /\ \A k \in DOMAIN regions : EndLine(regions[k]) <= n

(* A region more, below the others.                                           *)
LEMMA PlacedAppend ==
  ASSUME NEW R, NEW regions \in Seq(R), NEW r \in R, NEW m \in Int, NEW n \in Int,
         \A x \in R : EndLine(x) \in Int,
         Placed(regions, m), m <= r.start - 1, EndLine(r) <= n, m <= n, r.start - 1 \in Int
  PROVE  Placed(Append(regions, r), n)
<1> DEFINE more == Append(regions, r)
           N == Len(regions)
<1>1. /\ N \in Nat /\ DOMAIN more = 1..(N + 1) /\ DOMAIN regions = 1..N
      /\ more[N + 1] = r /\ \A i \in 1..N : more[i] = regions[i] /\ regions[i] \in R
  BY AppendProperties
<1> HIDE DEF more, N
<1>2. ASSUME NEW j \in DOMAIN more, NEW k \in DOMAIN more, j < k
      PROVE  EndLine(more[j]) <= more[k].start - 1
  <2>1. j \in 1..N /\ more[j] = regions[j] /\ EndLine(regions[j]) \in Int
    BY <1>1, <1>2
  <2>2. CASE k \in 1..N
    BY <1>1, <1>2, <2>1, <2>2 DEF Placed
  <2>3. CASE k = N + 1
    <3>1. EndLine(regions[j]) <= m
      BY <1>1, <2>1 DEF Placed
    <3>2. EndLine(regions[j]) <= r.start - 1
      BY <2>1, <3>1
    <3> QED
      BY <1>1, <2>1, <2>3, <3>2
  <2> QED
    BY <1>1, <2>2, <2>3
<1>3. ASSUME NEW k \in DOMAIN more
      PROVE  EndLine(more[k]) <= n
  <2>1. CASE k \in 1..N
    <3>1. EndLine(regions[k]) <= m /\ EndLine(regions[k]) \in Int
      BY <1>1, <2>1 DEF Placed
    <3> QED
      BY <1>1, <2>1, <3>1
  <2>2. CASE k = N + 1
    BY <1>1, <2>2
  <2> QED
    BY <1>1, <2>1, <2>2
<1>4. Placed(more, n)
  BY <1>2, <1>3 DEF Placed
<1> QED
  BY <1>4 DEF more

(* The first of the replacements may be done apart.                           *)
LEMMA TurnsAppend ==
  ASSUME NEW R, NEW regions \in Seq(R), NEW r \in R, NEW s, NEW t,
         Turns(regions, Patch(s, r), t)
  PROVE  Turns(Append(regions, r), s, t)
<1> DEFINE n == Len(regions)
           more == Append(regions, r)
<1>1. /\ n \in Nat /\ Len(more) = n + 1 /\ more[n + 1] = r
      /\ \A i \in 1..n : more[i] = regions[i]
  BY AppendProperties
<1> SUFFICES ASSUME NEW f, f[0] = s,
                    \A k \in 1..Len(more) : f[k] = Patch(f[k - 1], more[Len(more) + 1 - k])
             PROVE  f[Len(more)] = t
  BY DEF Turns
<1> HIDE DEF n, more
<1> DEFINE g == [k \in 0..n |-> f[k + 1]]
<1>2. g[0] = Patch(s, r)
  <2>1. f[1] = Patch(f[1 - 1], more[Len(more) + 1 - 1])
    BY <1>1
  <2> QED
    BY <1>1, <2>1
<1>3. ASSUME NEW k \in 1..n
      PROVE  g[k] = Patch(g[k - 1], regions[n + 1 - k])
  <2>1. f[k + 1] = Patch(f[k + 1 - 1], more[Len(more) + 1 - (k + 1)])
    BY <1>1
  <2>2. more[Len(more) + 1 - (k + 1)] = regions[n + 1 - k]
    BY <1>1
  <2>3. g[k] = f[k + 1] /\ g[k - 1] = f[k]
    BY <1>1
  <2>4. k + 1 - 1 = k
    BY <1>1
  <2> QED
    BY <2>1, <2>2, <2>3, <2>4
<1>4. g[n] = f[Len(more)]
  BY <1>1
<1> HIDE DEF g
<1>5. g[n] = t
  BY <1>2, <1>3 DEF Turns, n
<1> QED
  BY <1>4, <1>5

(* The first n lines of s, then those of u.                                   *)
UpToThen(s, n, u) == SubSeq(s, 1, n) \o u

(* Texts of S may be put before u in any grouping.                            *)
Associates(S, u) == \A p, q \in Seq(S) : (p \o q) \o u = p \o (q \o u)

(* Grouping does not matter.                                                  *)
LEMMA Grouping ==
  ASSUME NEW S, NEW u \in Seq(S)
  PROVE  Associates(S, u)
BY ConcatAssociative DEF Associates

(* Two texts that agree up to a pair of matched lines share that line.        *)
LEMMA SharedLine ==
  ASSUME NEW S, NEW a \in Seq(S), NEW b \in Seq(S), NEW pairs, Chain(a, b, pairs),
         NEW x \in pairs, x[1] <= Len(a), NEW u \in Seq(S)
  PROVE  \E t \in Seq(S) :
           /\ UpToThen(a, x[1], u) = UpToThen(a, x[1] - 1, t)
           /\ UpToThen(b, x[2], u) = UpToThen(b, x[2] - 1, t)
<1>1. /\ x[1] \in 0..Len(a) /\ x[2] \in 0..Len(b)
      /\ x[1] = 0 <=> x[2] = 0
      /\ x[1] # 0 => a[x[1]] = b[x[2]]
  <2>1. x \in (0..(Len(a) + 1)) \X (0..(Len(b) + 1))
    BY DEF Chain
  <2>2. Len(a) \in Nat /\ Len(b) \in Nat
    OBVIOUS
  <2>3. x[1] \in 0..Len(a)
    BY <2>1, <2>2
  <2>4. (0 < x[1] <=> 0 < x[2]) /\ (x[1] < Len(a) + 1 <=> x[2] < Len(b) + 1)
    BY DEF Chain
  <2>5. x[2] \in 0..Len(b)
    BY <2>1, <2>2, <2>3, <2>4
  <2>6. x[1] # 0 => a[x[1]] = b[x[2]]
    BY <2>3 DEF Chain
  <2> QED
    BY <2>3, <2>4, <2>5, <2>6
<1>2. CASE x[1] = 0
  <2>1. SubSeq(a, 1, 0) = <<>> /\ SubSeq(a, 1, 0 - 1) = <<>>
    BY SubSeqEmpty
  <2>2. SubSeq(b, 1, 0) = <<>> /\ SubSeq(b, 1, 0 - 1) = <<>>
    BY SubSeqEmpty
  <2>3. x[2] = 0
    BY <1>1, <1>2
  <2> QED
    BY <1>2, <2>1, <2>2, <2>3 DEF UpToThen
<1>3. CASE x[1] # 0
  <2> DEFINE i == x[1]
             j == x[2]
  <2>1. i \in 1..Len(a) /\ j \in 1..Len(b) /\ a[i] = b[j]
    BY <1>1, <1>3
  <2> HIDE DEF i, j
  <2>2. a[i] \in S /\ <<a[i]>> \in Seq(S)
    BY <2>1
  <2>3. SubSeq(a, 1, i - 1) \in Seq(S) /\ SubSeq(b, 1, j - 1) \in Seq(S)
    BY <2>1
  <2>4. 1 \in 1..Len(a) /\ i \in 1..Len(a) /\ 1 \in 1..Len(b) /\ j \in 1..Len(b)
    BY <2>1
  <2>5. SubSeq(a, 1, i) = SubSeq(a, 1, i - 1) \o <<a[i]>>
    BY <2>4, SubSeqRecursiveSecond
  <2>6. SubSeq(b, 1, j) = SubSeq(b, 1, j - 1) \o <<a[i]>>
    BY <2>1, <2>4, SubSeqRecursiveSecond
  <2> DEFINE c == <<a[i]>>
             s == SubSeq(a, 1, i - 1)
             t == SubSeq(b, 1, j - 1)
  <2>10. c \in Seq(S) /\ s \in Seq(S) /\ t \in Seq(S)
    BY <2>2, <2>3
  <2>11. SubSeq(a, 1, i) = s \o c /\ SubSeq(b, 1, j) = t \o c
    BY <2>5, <2>6
  <2> HIDE DEF c, s, t
  <2>14. \A p, q \in Seq(S) : (p \o q) \o u = p \o (q \o u)
    BY Grouping DEF Associates
  <2>12. (s \o c) \o u = s \o (c \o u)
    BY <2>10, <2>14
  <2>13. (t \o c) \o u = t \o (c \o u)
    BY <2>10, <2>14
  <2>7. SubSeq(a, 1, i) \o u = SubSeq(a, 1, i - 1) \o (c \o u)
    BY <2>11, <2>12 DEF s
  <2>8. SubSeq(b, 1, j) \o u = SubSeq(b, 1, j - 1) \o (c \o u)
    BY <2>11, <2>13 DEF t
  <2>9. c \o u \in Seq(S)
    BY <2>10
  <2> QED
    BY <2>7, <2>8, <2>9 DEF i, j, UpToThen
<1> QED
  BY <1>2, <1>3

(* The beginning of a text, cut in two.                                       *)
LEMMA TakeMore ==
  ASSUME NEW S, NEW s \in Seq(S), NEW i \in 0..Len(s), NEW j \in i..Len(s),
         NEW u \in Seq(S)
  PROVE  UpToThen(s, j, u) = UpToThen(s, i, SubSeq(s, i + 1, j) \o u)
<1>1. \A p, q \in Seq(S) : (p \o q) \o u = p \o (q \o u)
  BY Grouping DEF Associates
<1>2. 1 \in 1..(Len(s)+1) /\ i \in 0..Len(s) /\ j \in i..Len(s) /\ i \in (1-1)..Len(s)
  OBVIOUS
<1>3. SubSeq(s,1,j) = SubSeq(s,1,i) \o SubSeq(s,i+1,j)
  BY <1>2, ConcatAdjacentSubSeq
<1>4. SubSeq(s,1,i) \in Seq(S) 
  OBVIOUS
<1>5. SubSeq(s,i+1,j) \in Seq(S)
  OBVIOUS
<1> QED
  BY <1>1, <1>3, <1>4, <1>5 DEF UpToThen

(* A slice of the beginning of a text, replaced.                              *)
LEMMA PatchPrefix ==
  ASSUME NEW S, NEW s \in Seq(S), NEW i \in 0..Len(s), NEW j \in i..Len(s),
         NEW u \in Seq(S), NEW v \in Seq(S)
  PROVE  ReplaceSlice(UpToThen(s, j, u), i, j, v) = UpToThen(s, i, v \o u)
<1> DEFINE x == SubSeq(s,1,j) \o u 
<1>a. x \in Seq(S) /\ Len(x) = j + Len(u) /\ \A k \in 1..(j+Len(u)) : x[k] = IF k <= j THEN s[k] ELSE u[k-j]
  OBVIOUS
<1> HIDE DEF x
<1>0. ~(i > Len(x)) /\ ~(j < i)
  BY <1>a
<1>1. ReplaceSlice(x, i, j, v) = SubSeq(x,1,i) \o v \o SubSeq(x, j+1, Len(x))
  BY <1>0, Zenon DEF ReplaceSlice
<1>2. SubSeq(x,1,i) = SubSeq(s,1,i)
  <2>1. SubSeq(x,1,i) \in Seq(S) /\ SubSeq(s,1,i) \in Seq(S) /\ Len(SubSeq(x,1,i)) = i /\ Len(SubSeq(s,1,i)) = i
    BY <1>a
  <2>2. \A k \in 1..i : SubSeq(x,1,i)[k] = SubSeq(s,1,i)[k]
    BY <1>a
  <2> QED
    BY <2>1, <2>2, SeqEqual
<1>3. SubSeq(x, j+1, Len(x)) = u
  <2> DEFINE y == SubSeq(x, j+1, Len(x))
  <2>1. y \in Seq(S) /\ Len(y) = Len(u)
    BY <1>a
  <2>2. \A k \in 1..Len(u) : y[k] = u[k]
    BY <1>a
  <2> HIDE DEF y
  <2>3. y = u
    BY <2>1, <2>2, SeqEqual
  <2> QED
    BY <2>3 DEF y
<1>4. SubSeq(s,1,i) \in Seq(S)
  OBVIOUS
<1>5. \A p \in Seq(S) : (p \o v) \o u = p \o (v \o u)
  BY ConcatAssociative
<1> QED
  BY <1>1, <1>2, <1>3, <1>4, <1>5 DEF UpToThen, x
(* The regions of a text of S within a text a.                                *)
RegionsIn(a, S) == {r \in RegionOf(S) : EndLine(r) <= Len(a)}

(* Where a region ends is a number.                                           *)
LEMMA RegionEnds ==
  ASSUME NEW S, NEW r \in RegionOf(S)
  PROVE  EndLine(r) \in Nat /\ r.start - 1 \in Nat /\ Len(r.removed) \in Nat
<1>1. r.start \in Nat \ {0} /\ Len(r.removed) \in Nat
  BY DEF RegionOf
<1> QED
  BY <1>1 DEF EndLine

(* The regions between matched lines, in order, replaced from the last to the first,    *)
(* turn one text into the other.                                              *)
LEMMA RegionsBetweenTurn ==
  ASSUME NEW S, NEW a \in Seq(S), NEW b \in Seq(S), NEW pairs, Chain(a, b, pairs)
  PROVE  /\ RegionsBetween(a, b, pairs) \in Seq(RegionsIn(a, S))
         /\ Placed(RegionsBetween(a, b, pairs), Len(a))
         /\ Turns(RegionsBetween(a, b, pairs), a, b)
<1> DEFINE N == Len(a) + 1
           R == RegionsIn(a, S)
<1>0. Len(a) \in Nat /\ Len(b) \in Nat /\ N \in Nat
  OBVIOUS
<1>2. PICK f : /\ f[0] = <<>>
               /\ \A i \in 1..N : f[i] = RegionsUpTo(a, b, pairs, f[i - 1], i)
               /\ RegionsBetween(a, b, pairs) = f[N]
  <2>1. \E f : RegionsPass(f, a, b, pairs)
    BY <1>0, RegionsUnrolls
  <2> QED
    BY <2>1 DEF RegionsPass
<1> DEFINE Done(i, x) ==
             /\ x[1] <= i
             /\ \A y \in pairs : y[1] <= i => y[1] <= x[1]
             /\ f[i] \in Seq(R)
             /\ Placed(f[i], x[1] - 1)
             /\ \A t \in Seq(S) : Turns(f[i], UpToThen(a, x[1] - 1, t),
                                             UpToThen(b, x[2] - 1, t))
           D == {i \in 0..N : \E x \in pairs : Done(i, x)}
<1>3. \A x \in pairs : /\ x[1] \in 0..N /\ x[2] \in 0..(Len(b) + 1)
                       /\ x = <<x[1], x[2]>>
  BY DEF Chain
<1>4. \A x, y \in pairs : (x[1] < y[1] <=> x[2] < y[2]) /\ (x[1] = y[1] => x = y)
  <2> TAKE x, y \in pairs
  <2>1. (x[1] < y[1] <=> x[2] < y[2]) /\ (y[1] < x[1] <=> y[2] < x[2])
    BY DEF Chain
  <2>2. /\ x[1] \in Int /\ x[2] \in Int /\ y[1] \in Int /\ y[2] \in Int
        /\ x = <<x[1], x[2]>> /\ y = <<y[1], y[2]>>
    BY <1>3, <1>0
  <2>3. ASSUME x[1] = y[1]
        PROVE  x = y
    <3>1. x[2] = y[2]
      BY <2>1, <2>2, <2>3
    <3> QED
      BY <2>2, <2>3, <3>1
  <2> QED
    BY <2>1, <2>3
<1>5. 0 \in D
  <2> DEFINE x == <<0, 0>>
  <2>1. x \in pairs /\ x[1] = 0 /\ x[2] = 0
    BY DEF Chain
  <2>2. \A y \in pairs : y[1] <= 0 => y[1] <= x[1]
    BY <2>1
  <2>3. f[0] \in Seq(R)
    BY <1>2
  <2>4. ASSUME NEW t \in Seq(S)
        PROVE  Turns(f[0], UpToThen(a, x[1] - 1, t), UpToThen(b, x[2] - 1, t))
    <3>1. SubSeq(a, 1, 0 - 1) = <<>> /\ SubSeq(b, 1, 0 - 1) = <<>>
      BY SubSeqEmpty
    <3>2. Len(f[0]) = 0
      BY <1>2
    <3> QED
      BY <2>1, <3>1, <3>2 DEF Turns, UpToThen
  <2>5. 0 \in 0..N
    BY <1>0
  <2>6. Placed(f[0], x[1] - 1)
    BY <1>2 DEF Placed
  <2> QED
    BY <2>1, <2>2, <2>3, <2>4, <2>5, <2>6
<1>6. ASSUME NEW i \in 1..N, i - 1 \in D
      PROVE  i \in D
  <2>1. PICK x \in pairs : Done(i - 1, x)
    BY <1>6
  <2> DEFINE gaps == {w \in Consecutive(pairs) :
                        w[2][1] = i /\ w[2] # <<w[1][1] + 1, w[1][2] + 1>>}
             w == CHOOSE z \in gaps : TRUE
             r == [start   |-> w[1][1] + 1,
                   removed |-> SubSeq(a, w[1][1] + 1, w[2][1] - 1),
                   added   |-> SubSeq(b, w[1][2] + 1, w[2][2] - 1)]
  <2>2. f[i] = IF gaps = {} THEN f[i - 1] ELSE Append(f[i - 1], r)
    BY <1>2 DEF RegionsUpTo
  <2>3. /\ x[1] \in Nat /\ x[2] \in Nat /\ i \in Nat /\ x[1] < i /\ i <= Len(a) + 1
        /\ i \in 0..N
    BY <1>0, <1>3, <2>1
  <2>4. CASE ~\E y \in pairs : y[1] = i
    <3>1. gaps = {}
      BY <2>4 DEF Consecutive
    <3>2. f[i] = f[i - 1]
      BY <2>2, <3>1
    <3>3. \A y \in pairs : y[1] <= i => y[1] <= x[1]
      <4> TAKE y \in pairs
      <4>1. y[1] \in Int /\ y[1] # i
        BY <1>3, <2>4
      <4> QED
        BY <2>1, <2>3, <4>1
    <3>4. x[1] <= i
      BY <2>3
    <3>5. Done(i, x)
      BY <2>1, <3>2, <3>3, <3>4
    <3> QED
      BY <2>3, <3>5
  <2>5. ASSUME NEW y \in pairs, y[1] = i
        PROVE  i \in D
    <3>1. y[2] \in Nat /\ x[2] < y[2] /\ y[2] <= Len(b) + 1 /\ x[1] <= Len(a)
      BY <1>0, <1>3, <1>4, <2>3, <2>5
    <3>2. \A z \in gaps : z = <<x, y>>
      <4> TAKE z \in gaps
      <4>1. /\ z \in pairs \X pairs /\ z[2][1] = i /\ z[1][1] < z[2][1]
            /\ ~\E v \in pairs : z[1][1] < v[1] /\ v[1] < z[2][1]
        BY DEF Consecutive
      <4>2. z[1] \in pairs /\ z[2] \in pairs /\ z = <<z[1], z[2]>>
        BY <4>1
      <4>3. z[2] = y
        BY <1>4, <2>5, <4>1, <4>2
      <4>4. z[1][1] \in Int
        BY <1>3, <4>2
      <4>5. z[1][1] <= x[1]
        BY <2>1, <2>3, <4>1, <4>2, <4>4
      <4>6. ~(z[1][1] < x[1])
        BY <2>3, <4>1
      <4>7. z[1] = x
        BY <1>4, <2>3, <4>2, <4>4, <4>5, <4>6
      <4> QED
        BY <4>2, <4>3, <4>7
    <3>3. <<x, y>> \in Consecutive(pairs)
      <4>1. ~\E z \in pairs : x[1] < z[1] /\ z[1] < y[1]
        <5> SUFFICES ASSUME NEW z \in pairs, x[1] < z[1], z[1] < y[1]
                     PROVE  FALSE
          OBVIOUS
        <5>1. z[1] \in Int
          BY <1>3
        <5> QED
          BY <2>1, <2>3, <2>5, <5>1
      <4> QED
        BY <2>3, <2>5, <4>1 DEF Consecutive
    <3>4. \A z \in pairs : z[1] <= i => z[1] <= y[1]
      BY <2>5
    <3>5. y[1] <= i
      BY <2>3, <2>5
    <3>6. CASE y = <<x[1] + 1, x[2] + 1>>
      <4>1. gaps = {}
        BY <3>2, <3>6
      <4>2. f[i] = f[i - 1]
        BY <2>2, <4>1
      <4>3. y[1] - 1 = x[1] /\ y[2] - 1 = x[2]
        <5>1. y[1] = x[1] + 1 /\ y[2] = x[2] + 1
          BY <3>6
        <5> QED
          BY <2>3, <5>1
      <4>4. ASSUME NEW t \in Seq(S)
            PROVE  Turns(f[i], UpToThen(a, y[1] - 1, t), UpToThen(b, y[2] - 1, t))
        <5>1. PICK v \in Seq(S) :
                 /\ UpToThen(a, x[1], t) = UpToThen(a, x[1] - 1, v)
                 /\ UpToThen(b, x[2], t) = UpToThen(b, x[2] - 1, v)
          BY <3>1, SharedLine
        <5>2. Turns(f[i - 1], UpToThen(a, x[1] - 1, v), UpToThen(b, x[2] - 1, v))
          BY <2>1
        <5> QED
          BY <4>2, <4>3, <5>1, <5>2
      <4>6. Placed(f[i], y[1] - 1)
        <5>1. f[i - 1] \in Seq(R) /\ Placed(f[i - 1], x[1] - 1)
          BY <2>1
        <5>2. \A k \in DOMAIN f[i - 1] : EndLine(f[i - 1][k]) \in Int
          BY <5>1, RegionEnds DEF RegionsIn
        <5>3. x[1] - 1 \in Int /\ y[1] - 1 = x[1] - 1 + 1
          BY <2>3, <4>3
        <5> QED
          BY <4>2, <5>1, <5>2, <5>3 DEF Placed
      <4>5. Done(i, y)
        BY <2>1, <3>4, <3>5, <4>2, <4>4, <4>6
      <4> QED
        BY <2>3, <4>5
    <3>7. CASE y # <<x[1] + 1, x[2] + 1>>
      <4>1. w = <<x, y>>
        <5>1. <<x, y>> \in gaps
          BY <2>5, <3>3, <3>7
        <5> HIDE DEF gaps
        <5> QED
          BY <3>2, <5>1
      <4>2. gaps # {}
        BY <2>5, <3>3, <3>7
      <4> DEFINE out == SubSeq(a, x[1] + 1, y[1] - 1)
                 in == SubSeq(b, x[2] + 1, y[2] - 1)
      <4>3. r = [start |-> x[1] + 1, removed |-> out, added |-> in]
        <5> HIDE DEF w
        <5>1. w[1] = x /\ w[2] = y
          BY <4>1
        <5> QED
          BY <5>1
      <4>4. out \in Seq(S) /\ in \in Seq(S) /\ Len(out) = y[1] - 1 - x[1]
        <5> DEFINE m == x[1] + 1
                   n == y[1] - 1
        <5>1. m \in 1..(Len(a) + 1) /\ n \in (m - 1)..Len(a) /\ n - m + 1 = y[1] - 1 - x[1]
          <6> DEFINE c == x[1]
                     d == y[1]
          <6>1. c \in Nat /\ d \in Nat /\ c < d /\ d <= Len(a) + 1
            BY <2>3, <2>5
          <6> HIDE DEF c, d
          <6>2. c + 1 \in 1..(Len(a) + 1) /\ d - 1 \in (c + 1 - 1)..Len(a)
            BY <1>0, <6>1
          <6>3. d - 1 - (c + 1) + 1 = d - 1 - c
            BY <6>1
          <6>4. m \in 1..(Len(a) + 1)
            BY <6>2 DEF c
          <6>5. n \in (m - 1)..Len(a)
            BY <1>0, <6>1, <6>2 DEF c, d
          <6>6. n - m + 1 = y[1] - 1 - x[1]
            BY <6>3 DEF c, d
          <6> QED
            BY <6>4, <6>5, <6>6
        <5>2. in \in Seq(S)
          <6>1. x[2] + 1 \in 1..(Len(b) + 1) /\ y[2] - 1 \in 0..Len(b)
            BY <1>0, <2>3, <3>1
          <6> QED
            BY <6>1
        <5> HIDE DEF m, n
        <5>3. SubSeq(a, m, n) \in Seq(S) /\ Len(SubSeq(a, m, n)) = n - m + 1
          BY <5>1, <1>0
        <5> QED
          BY <5>1, <5>2, <5>3 DEF m, n
      <4>5. f[i] = Append(f[i - 1], r)
        BY <2>2, <4>2
      <4> HIDE DEF r, out, in, w, gaps
      <4>6. r \in R
        <5>1. x[1] + 1 \in Nat \ {0} /\ x[1] + 1 - 1 = x[1]
          BY <2>3
        <5>2. x[1] + (y[1] - 1 - x[1]) <= Len(a)
          BY <2>3, <2>5, <1>0
        <5>3. r \in RegionOf(S)
          BY <4>3, <4>4, <5>1 DEF RegionOf
        <5>4. r.start = x[1] + 1 /\ r.removed = out
          BY <4>3
        <5>6. r.start - 1 = x[1] /\ Len(r.removed) = y[1] - 1 - x[1]
          BY <2>3, <4>4, <5>4
        <5>5. r.start - 1 + Len(r.removed) <= Len(a)
          BY <5>2, <5>6
        <5> QED
          BY <5>3, <5>5 DEF RegionsIn, EndLine
      <4>7. f[i] \in Seq(R)
        <5>1. f[i - 1] \in Seq(R)
          BY <2>1
        <5> HIDE DEF R
        <5> QED
          BY <4>5, <4>6, <5>1
      <4>8. ASSUME NEW t \in Seq(S)
            PROVE  Turns(f[i], UpToThen(a, y[1] - 1, t), UpToThen(b, y[2] - 1, t))
        <5> DEFINE xa == x[1]
                   xb == x[2]
                   ya == y[1] - 1
                   yb == y[2] - 1
                   u == in \o t
        <5>1. /\ xa \in 0..Len(a) /\ ya \in xa..Len(a)
              /\ xb \in 0..Len(b) /\ yb \in xb..Len(b)
          BY <1>0, <2>3, <2>5, <3>1
        <5>2. u \in Seq(S)
          BY <4>4
        <5>3. in = SubSeq(b, xb + 1, yb)
          BY DEF in
        <5>4. xa + Len(out) = ya
          BY <2>3, <2>5, <4>4
        <5>5. x[1] <= Len(a)
          BY <3>1
        <5> HIDE DEF xa, xb, ya, yb, u
        <5>6. PICK v \in Seq(S) :
                 /\ UpToThen(a, x[1], u) = UpToThen(a, x[1] - 1, v)
                 /\ UpToThen(b, x[2], u) = UpToThen(b, x[2] - 1, v)
          BY <5>2, <5>5, SharedLine
        <5>7. Turns(f[i - 1], UpToThen(a, x[1] - 1, v), UpToThen(b, x[2] - 1, v))
          BY <2>1
        <5>8. UpToThen(b, yb, t) = UpToThen(b, xb, u)
          BY <5>1, <5>3, TakeMore DEF u
        <5>9. ReplaceSlice(UpToThen(a, ya, t), xa, ya, in) = UpToThen(a, xa, u)
          BY <4>4, <5>1, PatchPrefix DEF u
        <5>10. /\ r.start - 1 = xa
               /\ Len(r.removed) = Len(out)
               /\ r.added = in
          BY <2>3, <4>3 DEF xa
        <5>11. Patch(UpToThen(a, ya, t), r) = UpToThen(a, xa, u)
          BY <5>4, <5>9, <5>10 DEF Patch
        <5>12. Turns(f[i - 1], Patch(UpToThen(a, ya, t), r), UpToThen(b, yb, t))
          BY <5>6, <5>7, <5>8, <5>11 DEF xa, xb
        <5>13. f[i - 1] \in Seq(R)
          BY <2>1
        <5> HIDE DEF R
        <5>14. Turns(Append(f[i - 1], r), UpToThen(a, ya, t), UpToThen(b, yb, t))
          BY <4>6, <5>12, <5>13, TurnsAppend
        <5> QED
          BY <4>5, <5>14 DEF ya, yb
      <4>10. Placed(f[i], y[1] - 1)
        <5>1. f[i - 1] \in Seq(R) /\ Placed(f[i - 1], x[1] - 1)
          BY <2>1
        <5>2. r.start - 1 = x[1] /\ Len(r.removed) = y[1] - 1 - x[1]
          BY <2>3, <4>3, <4>4
        <5>3. EndLine(r) = y[1] - 1
          BY <2>3, <2>5, <5>2 DEF EndLine
        <5>4. \A z \in R : EndLine(z) \in Int
          BY RegionEnds DEF RegionsIn
        <5> DEFINE m == x[1] - 1
                   n == y[1] - 1
        <5>5. m \in Int /\ n \in Int /\ m <= x[1] /\ m <= n
          BY <2>3, <2>5
        <5>6. r.start - 1 \in Int /\ m <= r.start - 1
          BY <2>3, <5>2, <5>5
        <5> HIDE DEF R, m, n
        <5>7. Placed(f[i - 1], m) /\ EndLine(r) <= n
          BY <5>1, <5>3, <5>5 DEF m, n
        <5>8. Placed(Append(f[i - 1], r), n)
          BY <4>6, <5>1, <5>4, <5>5, <5>6, <5>7, PlacedAppend
        <5> QED
          BY <4>5, <5>8 DEF n
      <4>9. Done(i, y)
        BY <3>4, <3>5, <4>7, <4>8, <4>10
      <4> QED
        BY <2>3, <4>9
    <3> QED
      BY <3>6, <3>7
  <2> QED
    BY <2>4, <2>5
<1>7. N \in D
  <2> HIDE DEF D
  <2>1. \A i \in 0..N : i \in D
    BY <1>0, <1>5, <1>6, UpTo
  <2> QED
    BY <1>0, <2>1
<1>8. PICK x \in pairs : Done(N, x)
  BY <1>7
<1>9. x[1] = Len(a) + 1 /\ x[2] = Len(b) + 1
  <2> DEFINE y == <<Len(a) + 1, Len(b) + 1>>
  <2>1. y \in pairs /\ y[1] = N /\ y[2] = Len(b) + 1
    BY DEF Chain
  <2>2. y[1] <= x[1]
    BY <1>0, <1>8, <2>1
  <2>3. x[1] = y[1]
    BY <1>0, <1>3, <2>1, <2>2
  <2>4. x = y
    BY <1>4, <2>1, <2>3
  <2> QED
    BY <2>1, <2>4
<1>10. UpToThen(a, x[1] - 1, <<>>) = a /\ UpToThen(b, x[2] - 1, <<>>) = b
  <2>1. x[1] - 1 = Len(a) /\ x[2] - 1 = Len(b)
    BY <1>0, <1>9
  <2>2. SubSeq(a, 1, Len(a)) = a /\ SubSeq(b, 1, Len(b)) = b
    BY SubSeqFull
  <2> QED
    BY <2>1, <2>2, ConcatEmptySeq DEF UpToThen
<1>11. <<>> \in Seq(S)
  OBVIOUS
<1>12. Placed(f[N], Len(a))
  BY <1>0, <1>8, <1>9
<1> QED
  BY <1>2, <1>8, <1>10, <1>11, <1>12

(* A line diff is exact (_regions in history.py): its regions lie in the old  *)
(* text in order, and replacing them from the last to the first gives the new *)
(* one.                                                                       *)
THEOREM DiffIsExact ==
  ASSUME NEW S, NEW a \in Seq(S), NEW b \in Seq(S)
  PROVE  /\ Regions(a, b) \in Seq(RegionsIn(a, S))
         /\ Placed(Regions(a, b), Len(a))
         /\ Turns(Regions(a, b), a, b)
<1>1. Chain(a, b, Matches(a, b))
  <2>1. Len(a) \in Nat /\ Len(b) \in Nat
    OBVIOUS
  <2> QED
    BY <2>1, MatchesChain
<1>2. Regions(a, b) = RegionsBetween(a, b, Matches(a, b))
  BY DEF Regions, Only
<1> QED
  BY <1>1, <1>2, RegionsBetweenTurn

-----------------------------------------------------------------------------
(* Logs.                                                                      *)

Line  == UNION {ToSet(s.lines) : s \in Contents}
State == {Absent, Binary} \cup [kind : {"text"}, lines : Seq(Line)]
Known == UNION {[D -> State] : D \in SUBSET Paths}
Hunk  == [region : RegionOf(Line), deps : SUBSET (Nat \X Nat)]

Marks  == [kind : {"turn"}, seq : Nat, turnId : Nat, pre : Known, begun : Known]
Edits  == [kind : {"edit"}, seq : Nat, owner : {"turn", "manual"} \X Nat, path : Paths,
           before : State, after : State, hunks : Seq(Hunk)]
Decisions == [kind : {"decide"}, seq : Nat, path : Paths, hunk : Nat \X Nat, keep : BOOLEAN]
Event == Marks \cup Edits \cup Decisions

(* The log before its event k.                                                *)
Before(L, k) == SubSeq(L, 1, k - 1)

(* What tools, commands and the user write are states of files.               *)
LEMMA ContentsAreStates ==
  ASSUME NEW s \in Contents
  PROVE  s \in State
<1>1. CASE s \in {Absent, Binary}
  BY <1>1 DEF State
<1>2. CASE s = Text(s.lines) /\ s.lines \in Seq(ToSet(s.lines))
  <2> DEFINE l == s.lines
  <2>1. ToSet(l) \subseteq Line
    BY DEF Line
  <2>2. l \in Seq(ToSet(l))
    BY <1>2
  <2> HIDE DEF l, Line
  <2>3. l \in Seq(Line)
    BY <2>1, <2>2
  <2>4. Text(l) \in [kind : {"text"}, lines : Seq(Line)]
    BY <2>3 DEF Text
  <2> QED
    BY <1>2, <2>4 DEF State, l
<1> QED
  BY <1>1, <1>2, CheckpointsAssumption

(* The fields of a state.                                                     *)
LEMMA StateFields ==
  ASSUME NEW s \in State
  PROVE  /\ s.kind \in {"absent", "binary", "text"}
         /\ s.lines \in Seq(Line)
         /\ s = [kind |-> s.kind, lines |-> s.lines]
         /\ s.kind # "text" => s.lines = <<>>
<1>1. CASE s = Absent
  BY <1>1 DEF Absent
<1>2. CASE s = Binary
  BY <1>2 DEF Binary
<1>3. CASE s \in [kind : {"text"}, lines : Seq(Line)]
  BY <1>3
<1> QED
  BY <1>1, <1>2, <1>3 DEF State

(* The fields of a mark.                                                      *)
LEMMA MarkFields ==
  ASSUME NEW e \in Event, e.kind = "turn"
  PROVE  /\ e = [kind |-> "turn", seq |-> e.seq, turnId |-> e.turnId, pre |-> e.pre,
                 begun |-> e.begun]
         /\ e.seq \in Nat /\ e.turnId \in Nat /\ e.pre \in Known /\ e.begun \in Known
<1>1. e \in Marks
  BY DEF Event, Edits, Decisions
<1> QED
  BY <1>1 DEF Marks

(* The fields of an edit.                                                     *)
LEMMA EditFields ==
  ASSUME NEW e \in Event, e.kind = "edit"
  PROVE  /\ e.seq \in Nat /\ e.path \in Paths /\ e.before \in State /\ e.after \in State
         /\ e.hunks \in Seq(Hunk)
<1>1. e \in Edits
  BY DEF Event, Marks, Decisions
<1> QED
  BY <1>1 DEF Edits

(* The fields of a decision.                                                  *)
LEMMA DecisionFields ==
  ASSUME NEW e \in Event, e.kind = "decide"
  PROVE  e.seq \in Nat /\ e.path \in Paths /\ e.hunk \in Nat \X Nat /\ e.keep \in BOOLEAN
<1>1. e \in Decisions
  BY DEF Event, Edits, Marks
<1> QED
  BY <1>1 DEF Decisions

(* An event is a mark, an edit or a decision, and has a number.               *)
LEMMA EventKinds ==
  ASSUME NEW e \in Event
  PROVE  e.kind \in {"turn", "edit", "decide"} /\ e.seq \in Nat
<1>1. e.kind \in {"turn", "edit", "decide"}
  BY DEF Event, Marks, Edits, Decisions
<1> QED
  BY <1>1, MarkFields, EditFields, DecisionFields

(* What is known of files.                                                    *)
LEMMA KnownFields ==
  ASSUME NEW f \in Known
  PROVE  /\ DOMAIN f \subseteq Paths
         /\ \A p \in DOMAIN f : f[p] \in State
         /\ f = [p \in DOMAIN f |-> f[p]]
<1>1. PICK D \in SUBSET Paths : f \in [D -> State]
  BY DEF Known
<1> QED
  BY <1>1

(* A log is known by its events.                                              *)
LEMMA Members ==
  ASSUME NEW L
  PROVE  ToSet(L) = {L[k] : k \in DOMAIN L}
BY DEF ToSet

(* The files a log knows.                                                     *)
LEMMA TrackedIs ==
  ASSUME NEW L, NEW p
  PROVE  p \in Tracked(L) <=> \E k \in DOMAIN L : Knows(L[k], p)
<1>1. ASSUME p \in Tracked(L)
      PROVE  \E k \in DOMAIN L : Knows(L[k], p)
  <2>1. PICK e \in ToSet(L) : (e.kind = "edit" /\ p = e.path) \/ (e.kind = "turn" /\ p \in DOMAIN e.pre)
    BY <1>1 DEF Tracked
  <2> QED
    BY <2>1, Members DEF Knows, IsEditOf
<1>2. ASSUME NEW k \in DOMAIN L, Knows(L[k], p)
      PROVE  p \in Tracked(L)
  <2>1. L[k] \in ToSet(L)
    BY Members
  <2>2. CASE IsEditOf(L[k], p)
    BY <2>1, <2>2 DEF Tracked, IsEditOf
  <2>3. CASE L[k].kind = "turn" /\ p \in DOMAIN L[k].pre
    BY <2>1, <2>3 DEF Tracked
  <2> QED
    BY <1>2, <2>2, <2>3 DEF Knows
<1> QED
  BY <1>1, <1>2

(* The hunks of a file in a log.                                              *)
LEMMA HunkIdsIs ==
  ASSUME NEW L, NEW p, NEW h
  PROVE  h \in HunkIds(L, p) <=>
           \E k \in DOMAIN L : \E i \in HunksOf(L[k], p) : h = <<L[k].seq, i>>
<1>1. HunkIds(L, p) = UNION {{<<e.seq, i>> : i \in HunksOf(e, p)} : e \in {L[k] : k \in DOMAIN L}}
  BY Members DEF HunkIds
<1> QED
  BY <1>1

(* The hunks of a file that were decided.                                     *)
LEMMA DecidedIs ==
  ASSUME NEW L, NEW p, NEW h, NEW keep
  PROVE  h \in Decided(L, p, keep) <=>
           \E k \in DOMAIN L : /\ L[k].kind = "decide" /\ L[k].path = p
                               /\ L[k].keep = keep /\ L[k].hunk = h
<1>1. ToSet(L) = {L[k] : k \in DOMAIN L}
  BY Members
<1> QED
  BY <1>1 DEF Decided

-----------------------------------------------------------------------------
(* One event more.                                                            *)

(* A log with an event more.                                                  *)
LEMMA Longer ==
  ASSUME NEW L \in Seq(Event), NEW e \in Event
  PROVE  LET M == Append(L, e) IN
         /\ M \in Seq(Event) /\ Len(L) \in Nat /\ Len(M) = Len(L) + 1
         /\ DOMAIN L = 1..Len(L) /\ DOMAIN M = 1..(Len(L) + 1)
         /\ M[Len(L) + 1] = e
         /\ \A k \in DOMAIN L : k \in DOMAIN M /\ M[k] = L[k] /\ L[k] \in Event
<1> QED
  BY AppendProperties

(* The log before any of its events.                                          *)
LEMMA Prefix ==
  ASSUME NEW L \in Seq(Event), NEW k \in 1..(Len(L) + 1)
  PROVE  /\ Before(L, k) \in Seq(Event) /\ Len(Before(L, k)) = k - 1
         /\ DOMAIN Before(L, k) = 1..(k - 1)
         /\ \A i \in 1..(k - 1) : Before(L, k)[i] = L[i] /\ i \in DOMAIN L
<1>1. Len(L) \in Nat /\ k - 1 \in 0..Len(L)
  OBVIOUS
<1> QED
  BY <1>1 DEF Before

(* The log before an event does not change with what comes after.             *)
LEMMA PrefixOfLonger ==
  ASSUME NEW L \in Seq(Event), NEW e \in Event
  PROVE  /\ \A k \in 1..(Len(L) + 1) : Before(Append(L, e), k) = Before(L, k)
         /\ Before(L, Len(L) + 1) = L
<1> DEFINE M == Append(L, e)
<1>1. /\ M \in Seq(Event) /\ Len(L) \in Nat /\ Len(M) = Len(L) + 1
      /\ \A k \in 1..Len(L) : M[k] = L[k]
  BY Longer
<1> HIDE DEF M
<1>2. ASSUME NEW k \in 1..(Len(L) + 1)
      PROVE  Before(M, k) = Before(L, k)
  <2> DEFINE s == Before(M, k)
             t == Before(L, k)
  <2>1. s \in Seq(Event) /\ Len(s) = k - 1 /\ \A i \in 1..(k - 1) : s[i] = M[i]
    <3>1. k \in 1..(Len(M) + 1)
      BY <1>1
    <3> QED
      BY <1>1, <3>1, Prefix
  <2>2. t \in Seq(Event) /\ Len(t) = k - 1 /\ \A i \in 1..(k - 1) : t[i] = L[i]
    BY Prefix
  <2>3. \A i \in 1..(k - 1) : s[i] = t[i]
    BY <1>1, <2>1, <2>2
  <2> HIDE DEF s, t
  <2>4. s = t
    BY <2>1, <2>2, <2>3, SeqEqual
  <2> QED
    BY <2>4 DEF s, t
<1>3. Before(L, Len(L) + 1) = L
  <2>1. Len(L) + 1 - 1 = Len(L)
    BY <1>1
  <2> QED
    BY <2>1, SubSeqFull DEF Before
<1> QED
  BY <1>2, <1>3 DEF M

(* The files known.                                                           *)
LEMMA TrackedLonger ==
  ASSUME NEW L \in Seq(Event), NEW e \in Event, NEW p
  PROVE  p \in Tracked(Append(L, e)) <=> p \in Tracked(L) \/ Knows(e, p)
<1> DEFINE M == Append(L, e)
<1>1. /\ DOMAIN M = DOMAIN L \cup {Len(L) + 1} /\ M[Len(L) + 1] = e
      /\ \A k \in DOMAIN L : M[k] = L[k]
  BY Longer
<1> HIDE DEF M
<1>2. p \in Tracked(M) <=> \E k \in DOMAIN M : Knows(M[k], p)
  BY TrackedIs
<1>3. p \in Tracked(L) <=> \E k \in DOMAIN L : Knows(L[k], p)
  BY TrackedIs
<1> QED
  BY <1>1, <1>2, <1>3 DEF M

(* The hunks of a file.                                                       *)
LEMMA HunkIdsLonger ==
  ASSUME NEW L \in Seq(Event), NEW e \in Event, NEW p
  PROVE  HunkIds(Append(L, e), p) = HunkIds(L, p) \cup {<<e.seq, i>> : i \in HunksOf(e, p)}
<1> DEFINE M == Append(L, e)
<1>1. /\ DOMAIN M = DOMAIN L \cup {Len(L) + 1} /\ M[Len(L) + 1] = e
      /\ \A k \in DOMAIN L : M[k] = L[k]
  BY Longer
<1> HIDE DEF M
<1>2. \A h : h \in HunkIds(M, p) <=>
               \E k \in DOMAIN M : \E i \in HunksOf(M[k], p) : h = <<M[k].seq, i>>
  BY HunkIdsIs
<1>3. \A h : h \in HunkIds(L, p) <=>
               \E k \in DOMAIN L : \E i \in HunksOf(L[k], p) : h = <<L[k].seq, i>>
  BY HunkIdsIs
<1>4. \A h : h \in HunkIds(M, p) <=>
               h \in HunkIds(L, p) \/ \E i \in HunksOf(e, p) : h = <<e.seq, i>>
  BY <1>1, <1>2, <1>3
<1>5. HunkIds(M, p) = HunkIds(L, p) \cup {<<e.seq, i>> : i \in HunksOf(e, p)}
  BY <1>4
<1> QED
  BY <1>5 DEF M

(* The hunks decided.                                                         *)
LEMMA DecidedLonger ==
  ASSUME NEW L \in Seq(Event), NEW e \in Event, NEW p, NEW keep
  PROVE  /\ e.kind = "decide" /\ e.path = p /\ e.keep = keep
              => Decided(Append(L, e), p, keep) = Decided(L, p, keep) \cup {e.hunk}
         /\ ~(e.kind = "decide" /\ e.path = p /\ e.keep = keep)
              => Decided(Append(L, e), p, keep) = Decided(L, p, keep)
<1> DEFINE M == Append(L, e)
<1>1. /\ DOMAIN M = DOMAIN L \cup {Len(L) + 1} /\ M[Len(L) + 1] = e
      /\ \A k \in DOMAIN L : M[k] = L[k]
  BY Longer
<1> HIDE DEF M
<1>2. \A h : h \in Decided(M, p, keep) <=>
           \E k \in DOMAIN M : /\ M[k].kind = "decide" /\ M[k].path = p
                               /\ M[k].keep = keep /\ M[k].hunk = h
  BY DecidedIs
<1>3. \A h : h \in Decided(L, p, keep) <=>
           \E k \in DOMAIN L : /\ L[k].kind = "decide" /\ L[k].path = p
                               /\ L[k].keep = keep /\ L[k].hunk = h
  BY DecidedIs
<1>4. \A h : h \in Decided(M, p, keep) <=>
               \/ h \in Decided(L, p, keep)
               \/ e.kind = "decide" /\ e.path = p /\ e.keep = keep /\ e.hunk = h
  BY <1>1, <1>2, <1>3
<1>5. ASSUME e.kind = "decide" /\ e.path = p /\ e.keep = keep
      PROVE  Decided(M, p, keep) = Decided(L, p, keep) \cup {e.hunk}
  BY <1>4, <1>5
<1>6. ASSUME ~(e.kind = "decide" /\ e.path = p /\ e.keep = keep)
      PROVE  Decided(M, p, keep) = Decided(L, p, keep)
  BY <1>4, <1>6
<1> QED
  BY <1>5, <1>6 DEF M

(* The decisions a log holds with a decision more.                            *)
LEMMA DecidedWith ==
  ASSUME NEW L \in Seq(Event), NEW e \in Event, NEW p, NEW keep, e.kind # "decide" \/ e.path # p
  PROVE  Decided(Append(L, e), p, keep) = Decided(L, p, keep)
BY DecidedLonger

(* A pass over a longer log goes one event further.                           *)
LEMMA ClosedLonger ==
  ASSUME NEW L \in Seq(Event), NEW e \in Event, NEW p, NEW wanted
  PROVE  Closed(Append(L, e), p, wanted) = Admit(e, p, wanted, Closed(L, p, wanted))
<1> DEFINE M == Append(L, e)
           N == Len(L)
<1>1. /\ N \in Nat /\ Len(M) = N + 1 /\ M[N + 1] = e
      /\ \A k \in 1..N : M[k] = L[k]
  BY Longer
<1>2. Len(M) \in Nat
  BY <1>1
<1> HIDE DEF M
<1>3. PICK f : ClosedPass(f, L, p, wanted)
  BY <1>1, ClosedUnrolls
<1>4. PICK g : ClosedPass(g, M, p, wanted)
  BY <1>2, ClosedUnrolls
<1>5. /\ f[0] = {} /\ \A i \in 1..N : f[i] = Admit(L[i], p, wanted, f[i - 1])
      /\ Closed(L, p, wanted) = f[N]
  BY <1>3 DEF ClosedPass
<1>6. /\ g[0] = {} /\ \A i \in 1..(N + 1) : g[i] = Admit(M[i], p, wanted, g[i - 1])
      /\ Closed(M, p, wanted) = g[N + 1]
  BY <1>1, <1>4 DEF ClosedPass
<1> HIDE DEF N
<1>7. \A i \in 1..N : f[i - 1] = g[i - 1] => f[i] = g[i]
  BY <1>1, <1>5, <1>6
<1>8. SameUpTo(f, g, N)
  BY <1>1, <1>5, <1>6, <1>7, Agree
<1>9. f[N] = g[N] /\ g[N + 1] = Admit(M[N + 1], p, wanted, g[N + 1 - 1]) /\ N + 1 - 1 = N
  BY <1>1, <1>6, <1>8 DEF SameUpTo
<1> QED
  BY <1>1, <1>5, <1>6, <1>9 DEF M

(* What is reverted, when no hunk of the file is reverted by name.            *)
LEMMA RevertedLonger ==
  ASSUME NEW L \in Seq(Event), NEW e \in Event, NEW p,
         Decided(Append(L, e), p, FALSE) = Decided(L, p, FALSE)
  PROVE  Reverted(Append(L, e), p) = Drag(e, p, Reverted(L, p))
<1> DEFINE M == Append(L, e)
           N == Len(L)
<1>1. /\ N \in Nat /\ Len(M) = N + 1 /\ M[N + 1] = e
      /\ \A k \in 1..N : M[k] = L[k]
  BY Longer
<1>2. Len(M) \in Nat
  BY <1>1
<1>0. Decided(M, p, FALSE) = Decided(L, p, FALSE)
  OBVIOUS
<1> HIDE DEF M
<1>3. PICK f : RevertedPass(f, L, p)
  BY <1>1, RevertedUnrolls
<1>4. PICK g : RevertedPass(g, M, p)
  BY <1>2, RevertedUnrolls
<1>5. /\ f[0] = Decided(L, p, FALSE) /\ \A i \in 1..N : f[i] = Drag(L[i], p, f[i - 1])
      /\ Reverted(L, p) = f[N]
  BY <1>3 DEF RevertedPass
<1>6. /\ g[0] = Decided(M, p, FALSE) /\ \A i \in 1..(N + 1) : g[i] = Drag(M[i], p, g[i - 1])
      /\ Reverted(M, p) = g[N + 1]
  BY <1>1, <1>4 DEF RevertedPass
<1> HIDE DEF N
<1>7. \A i \in 1..N : f[i - 1] = g[i - 1] => f[i] = g[i]
  BY <1>1, <1>5, <1>6
<1>8. SameUpTo(f, g, N)
  BY <1>0, <1>1, <1>5, <1>6, <1>7, Agree
<1>9. f[N] = g[N] /\ g[N + 1] = Drag(M[N + 1], p, g[N + 1 - 1]) /\ N + 1 - 1 = N
  BY <1>1, <1>6, <1>8 DEF SameUpTo
<1> QED
  BY <1>1, <1>5, <1>6, <1>9 DEF M

(* The hunks of an event among those applied.                                 *)
Here(e, p, applied) == {k \in HunksOf(e, p) : <<e.seq, k>> \in applied}

(* What a replay starts from.                                                 *)
FirstOf(L, p) == [kind |-> Oldest(L, p).kind, lines |-> Written(Oldest(L, p).lines, NoHunk)]

(* A replay from the same state goes one event further.                       *)
LEMMA ReplayLonger ==
  ASSUME NEW L \in Seq(Event), NEW e \in Event, NEW p, NEW applied,
         Oldest(Append(L, e), p) = Oldest(L, p)
  PROVE  Replay(Append(L, e), p, applied)
           = ReplayEdit(e, Here(e, p, applied), Replay(L, p, applied))
<1> DEFINE M == Append(L, e)
           N == Len(L)
<1>1. /\ N \in Nat /\ Len(M) = N + 1 /\ M[N + 1] = e
      /\ \A k \in 1..N : M[k] = L[k]
  BY Longer
<1>2. Len(M) \in Nat
  BY <1>1
<1>0. FirstOf(M, p) = FirstOf(L, p)
  BY DEF FirstOf
<1> HIDE DEF M
<1>3. PICK f : ReplayPass(f, L, p, applied)
  BY <1>1, ReplayUnrolls
<1>4. PICK g : ReplayPass(g, M, p, applied)
  BY <1>2, ReplayUnrolls
<1>5. /\ f[0] = FirstOf(L, p)
      /\ \A i \in 1..N : f[i] = ReplayEdit(L[i], Here(L[i], p, applied), f[i - 1])
      /\ Replay(L, p, applied) = f[N]
  BY <1>3 DEF ReplayPass, FirstOf, Here
<1>6. /\ g[0] = FirstOf(M, p)
      /\ \A i \in 1..(N + 1) : g[i] = ReplayEdit(M[i], Here(M[i], p, applied), g[i - 1])
      /\ Replay(M, p, applied) = g[N + 1]
  BY <1>1, <1>4 DEF ReplayPass, FirstOf, Here
<1> HIDE DEF N
<1>7. \A i \in 1..N : f[i - 1] = g[i - 1] => f[i] = g[i]
  BY <1>1, <1>5, <1>6
<1>8. SameUpTo(f, g, N)
  BY <1>0, <1>1, <1>5, <1>6, <1>7, Agree
<1>9. /\ f[N] = g[N] /\ N + 1 - 1 = N
      /\ g[N + 1] = ReplayEdit(M[N + 1], Here(M[N + 1], p, applied), g[N + 1 - 1])
  BY <1>1, <1>6, <1>8 DEF SameUpTo
<1> QED
  BY <1>1, <1>5, <1>6, <1>9 DEF M

(* The first of a set of events stays the first.                              *)
LEMMA FirstStays ==
  ASSUME NEW N \in Nat, NEW S \in SUBSET (1..N), S # {}, NEW T, T = S \/ T = S \cup {N + 1}
  PROVE  Min(S) \in S /\ Min(T) = Min(S)
<1>0. N + 1 \in Nat /\ S \subseteq Nat
  OBVIOUS
<1>1. S \in SUBSET Nat /\ T \in SUBSET Nat /\ T # {}
  <2>1. CASE T = S
    BY <1>0, <2>1
  <2>2. CASE T = S \cup {N + 1}
    <3>1. T \subseteq Nat
      BY <1>0, <2>2
    <3> QED
      BY <1>0, <2>2, <3>1
  <2> QED
    BY <2>1, <2>2
<1>2. Min(S) \in S /\ \A i \in S : Min(S) <= i
  BY <1>1, MinOf
<1>3. Min(T) \in T /\ \A i \in T : Min(T) <= i
  BY <1>1, MinOf
<1>4. Min(S) \in T /\ Min(S) \in Nat /\ Min(T) \in Nat /\ Min(S) <= N
  <2>1. Min(S) \in 1..N /\ Min(S) \in T
    BY <1>2
  <2>2. Min(T) \in Nat
    BY <1>1, <1>3
  <2> QED
    BY <2>1, <2>2
<1>5. Min(T) <= Min(S)
  BY <1>3, <1>4
<1>6. Min(T) \in S
  BY <1>1, <1>3, <1>4, <1>5
<1>7. Min(S) <= Min(T)
  BY <1>2, <1>6
<1> QED
  BY <1>2, <1>4, <1>5, <1>7

(* The edits of a file.                                                       *)
LEMMA EditsOfLonger ==
  ASSUME NEW L \in Seq(Event), NEW e \in Event, NEW p
  PROVE  /\ IsEditOf(e, p) => EditsOf(Append(L, e), p) = EditsOf(L, p) \cup {Len(L) + 1}
         /\ ~IsEditOf(e, p) => EditsOf(Append(L, e), p) = EditsOf(L, p)
<1> DEFINE M == Append(L, e)
           N == Len(L)
<1>1. /\ N \in Nat /\ DOMAIN M = 1..(N + 1) /\ DOMAIN L = 1..N /\ M[N + 1] = e
      /\ \A k \in 1..N : M[k] = L[k]
  BY Longer
<1> HIDE DEF M, N
<1>2. \A i : i \in EditsOf(M, p) <=> i \in 1..(N + 1) /\ IsEditOf(M[i], p)
  BY <1>1 DEF EditsOf
<1>3. \A i : i \in EditsOf(L, p) <=> i \in 1..N /\ IsEditOf(L[i], p)
  BY <1>1 DEF EditsOf
<1>4. \A i : i \in EditsOf(M, p) <=> i \in EditsOf(L, p) \/ (i = N + 1 /\ IsEditOf(e, p))
  <2> TAKE i
  <2>1. CASE i = N + 1
    <3>1. i \notin 1..N /\ i \in 1..(N + 1)
      BY <1>1, <2>1
    <3> QED
      BY <1>1, <1>2, <1>3, <2>1, <3>1
  <2>2. CASE i # N + 1
    <3>1. i \in 1..N <=> i \in 1..(N + 1)
      BY <1>1, <2>2
    <3> QED
      BY <1>1, <1>2, <1>3, <2>2, <3>1
  <2> QED
    BY <2>1, <2>2
<1>5. ASSUME IsEditOf(e, p)
      PROVE  EditsOf(M, p) = EditsOf(L, p) \cup {N + 1}
  BY <1>4, <1>5
<1>6. ASSUME ~IsEditOf(e, p)
      PROVE  EditsOf(M, p) = EditsOf(L, p)
  BY <1>4, <1>6
<1> QED
  BY <1>5, <1>6 DEF M, N

(* The state a file had before anything was recorded of it stays.             *)
LEMMA OriginalLonger ==
  ASSUME NEW L \in Seq(Event), NEW e \in Event, NEW p, p \in Tracked(L)
  PROVE  Original(Append(L, e), p) = Original(L, p)
<1> DEFINE M == Append(L, e)
           N == Len(L)
           S == {i \in DOMAIN L : Knows(L[i], p)}
           T == {i \in DOMAIN M : Knows(M[i], p)}
<1>1. /\ N \in Nat /\ DOMAIN M = 1..(N + 1) /\ DOMAIN L = 1..N /\ M[N + 1] = e
      /\ \A k \in 1..N : M[k] = L[k]
  BY Longer
<1>2. S \in SUBSET (1..N) /\ S # {}
  BY <1>1, TrackedIs
<1> HIDE DEF M, N
<1>3. T = S \/ T = S \cup {N + 1}
  <2>1. \A i \in 1..N : i \in T <=> i \in S
    BY <1>1
  <2>2. \A i \in T : i \in 1..N \/ i = N + 1
    BY <1>1
  <2>3. \A i \in S : i \in 1..N
    BY <1>1
  <2> HIDE DEF S, T
  <2>4. CASE N + 1 \in T
    <3>1. T = S \cup {N + 1}
      BY <2>1, <2>2, <2>3, <2>4
    <3> QED
      BY <3>1
  <2>5. CASE N + 1 \notin T
    <3>1. T = S
      BY <2>1, <2>2, <2>3, <2>5
    <3> QED
      BY <3>1
  <2> QED
    BY <2>4, <2>5
<1>4. Original(M, p) = IF T = {} THEN Absent
                       ELSE IF M[Min(T)].kind = "edit" THEN M[Min(T)].before ELSE M[Min(T)].pre[p]
  BY DEF Original
<1>5. Original(L, p) = IF S = {} THEN Absent
                       ELSE IF L[Min(S)].kind = "edit" THEN L[Min(S)].before ELSE L[Min(S)].pre[p]
  BY DEF Original
<1> HIDE DEF S, T
<1>6. Min(S) \in S /\ Min(T) = Min(S)
  BY <1>1, <1>2, <1>3, FirstStays
<1>7. T # {} /\ M[Min(T)] = L[Min(S)]
  BY <1>1, <1>2, <1>3, <1>6
<1>8. S # {}
  BY <1>2
<1>9. Original(M, p) = Original(L, p)
  <2> DEFINE x == M[Min(T)]
             y == L[Min(S)]
             From(z) == IF z.kind = "edit" THEN z.before ELSE z.pre[p]
  <2>1. Original(M, p) = From(x)
    BY <1>4, <1>7
  <2>2. Original(L, p) = From(y)
    BY <1>5, <1>8
  <2>3. x = y
    BY <1>7
  <2> HIDE DEF x, y, From
  <2> QED
    BY <2>1, <2>2, <2>3
<1> QED
  BY <1>9 DEF M

(* So does the state a replay starts from, which the first edit of a file     *)
(* takes over.                                                                *)
LEMMA OldestLonger ==
  ASSUME NEW L \in Seq(Event), NEW e \in Event, NEW p, p \in Tracked(L),
         IsEditOf(e, p) /\ EditsOf(L, p) = {} => e.before = Original(L, p)
  PROVE  Oldest(Append(L, e), p) = Oldest(L, p)
<1> DEFINE M == Append(L, e)
           N == Len(L)
           S == EditsOf(L, p)
           T == EditsOf(M, p)
<1>1. /\ N \in Nat /\ DOMAIN M = 1..(N + 1) /\ DOMAIN L = 1..N /\ M[N + 1] = e
      /\ \A k \in 1..N : M[k] = L[k]
  BY Longer
<1>2. S \in SUBSET (1..N)
  BY <1>1 DEF EditsOf
<1>3. (IsEditOf(e, p) /\ T = S \cup {N + 1}) \/ (~IsEditOf(e, p) /\ T = S)
  BY EditsOfLonger
<1>4. Original(M, p) = Original(L, p)
  BY OriginalLonger
<1>5. Oldest(M, p) = IF T = {} THEN Original(M, p) ELSE M[Min(T)].before
  BY DEF Oldest
<1>6. Oldest(L, p) = IF S = {} THEN Original(L, p) ELSE L[Min(S)].before
  BY DEF Oldest
<1>7. IsEditOf(e, p) /\ S = {} => e.before = Original(L, p)
  OBVIOUS
<1> HIDE DEF M, N, S, T
<1>8. CASE S # {}
  <2>1. Min(S) \in S /\ Min(T) = Min(S)
    BY <1>1, <1>2, <1>3, <1>8, FirstStays
  <2>2. T # {} /\ M[Min(T)] = L[Min(S)]
    BY <1>1, <1>2, <1>3, <1>8, <2>1
  <2> QED
    BY <1>5, <1>6, <1>8, <2>2 DEF M
<1>9. CASE S = {} /\ T = {}
  BY <1>4, <1>5, <1>6, <1>9 DEF M
<1>10. CASE S = {} /\ T # {}
  <2>1. IsEditOf(e, p) /\ T = {N + 1}
    BY <1>3, <1>10
  <2>2. Min(T) = N + 1
    <3>1. T \in SUBSET Nat /\ T # {}
      BY <1>1, <2>1
    <3>2. Min(T) \in T
      BY <3>1, MinOf
    <3> QED
      BY <2>1, <3>2
  <2> QED
    BY <1>1, <1>5, <1>6, <1>7, <1>10, <2>1, <2>2 DEF M
<1> QED
  BY <1>8, <1>9, <1>10

(* What a closed set of hunks holds.                                          *)
LEMMA ClosedWithin ==
  ASSUME NEW L \in Seq(Event), NEW p, NEW wanted
  PROVE  Closed(L, p, wanted) \subseteq wanted \cap HunkIds(L, p)
<1> DEFINE N == Len(L)
           X == wanted \cap HunkIds(L, p)
<1>1. N \in Nat /\ DOMAIN L = 1..N
  OBVIOUS
<1>2. PICK f : ClosedPass(f, L, p, wanted)
  BY <1>1, ClosedUnrolls
<1>3. /\ f[0] = {} /\ \A i \in 1..N : f[i] = Admit(L[i], p, wanted, f[i - 1])
      /\ Closed(L, p, wanted) = f[N]
  BY <1>2 DEF ClosedPass
<1> DEFINE S == {i \in 0..N : f[i] \subseteq X}
<1>4. 0 \in S
  BY <1>1, <1>3
<1>5. ASSUME NEW i \in 1..N, i - 1 \in S
      PROVE  i \in S
  <2>1. \A j \in HunksOf(L[i], p) : <<L[i].seq, j>> \in HunkIds(L, p)
    BY <1>1, HunkIdsIs
  <2>2. f[i] = f[i - 1] \cup {<<L[i].seq, k>> : k \in {j \in HunksOf(L[i], p) :
                 <<L[i].seq, j>> \in wanted /\ L[i].hunks[j].deps \subseteq f[i - 1]}}
    BY <1>3 DEF Admit
  <2>3. f[i] \subseteq X
    BY <1>5, <2>1, <2>2
  <2> QED
    BY <1>1, <2>3
<1>6. \A i \in 0..N : i \in S
  <2> HIDE DEF S
  <2> QED
    BY <1>1, <1>4, <1>5, UpTo
<1> QED
  BY <1>1, <1>3, <1>6

(* Only the hunks of the log matter.                                          *)
LEMMA ClosedSame ==
  ASSUME NEW L \in Seq(Event), NEW p, NEW v, NEW w, v \cap HunkIds(L, p) = w \cap HunkIds(L, p)
  PROVE  Closed(L, p, v) = Closed(L, p, w)
<1> DEFINE N == Len(L)
<1>1. N \in Nat /\ DOMAIN L = 1..N
  OBVIOUS
<1>2. PICK f : ClosedPass(f, L, p, v)
  BY <1>1, ClosedUnrolls
<1>3. PICK g : ClosedPass(g, L, p, w)
  BY <1>1, ClosedUnrolls
<1>4. /\ f[0] = {} /\ \A i \in 1..N : f[i] = Admit(L[i], p, v, f[i - 1])
      /\ Closed(L, p, v) = f[N]
  BY <1>2 DEF ClosedPass
<1>5. /\ g[0] = {} /\ \A i \in 1..N : g[i] = Admit(L[i], p, w, g[i - 1])
      /\ Closed(L, p, w) = g[N]
  BY <1>3 DEF ClosedPass
<1>6. ASSUME NEW i \in 1..N, NEW acc
      PROVE  Admit(L[i], p, v, acc) = Admit(L[i], p, w, acc)
  <2>1. \A j \in HunksOf(L[i], p) : <<L[i].seq, j>> \in HunkIds(L, p)
    BY <1>1, HunkIdsIs
  <2>2. \A j \in HunksOf(L[i], p) : <<L[i].seq, j>> \in v <=> <<L[i].seq, j>> \in w
    BY <2>1
  <2>3. {j \in HunksOf(L[i], p) : <<L[i].seq, j>> \in v /\ L[i].hunks[j].deps \subseteq acc}
          = {j \in HunksOf(L[i], p) : <<L[i].seq, j>> \in w /\ L[i].hunks[j].deps \subseteq acc}
    BY <2>2
  <2> QED
    BY <2>3 DEF Admit
<1> HIDE DEF N
<1>7. \A i \in 1..N : f[i - 1] = g[i - 1] => f[i] = g[i]
  BY <1>4, <1>5, <1>6
<1>8. SameUpTo(f, g, N)
  BY <1>1, <1>4, <1>5, <1>7, Agree
<1> QED
  BY <1>1, <1>4, <1>5, <1>8 DEF SameUpTo

(* The same holds of a replay.                                                *)
LEMMA ReplaySame ==
  ASSUME NEW L \in Seq(Event), NEW p, NEW v, NEW w, v \cap HunkIds(L, p) = w \cap HunkIds(L, p)
  PROVE  Replay(L, p, v) = Replay(L, p, w)
<1> DEFINE N == Len(L)
<1>1. N \in Nat /\ DOMAIN L = 1..N
  OBVIOUS
<1>2. PICK f : ReplayPass(f, L, p, v)
  BY <1>1, ReplayUnrolls
<1>3. PICK g : ReplayPass(g, L, p, w)
  BY <1>1, ReplayUnrolls
<1>4. /\ f[0] = FirstOf(L, p)
      /\ \A i \in 1..N : f[i] = ReplayEdit(L[i], Here(L[i], p, v), f[i - 1])
      /\ Replay(L, p, v) = f[N]
  BY <1>2 DEF ReplayPass, FirstOf, Here
<1>5. /\ g[0] = FirstOf(L, p)
      /\ \A i \in 1..N : g[i] = ReplayEdit(L[i], Here(L[i], p, w), g[i - 1])
      /\ Replay(L, p, w) = g[N]
  BY <1>3 DEF ReplayPass, FirstOf, Here
<1>6. ASSUME NEW i \in 1..N
      PROVE  Here(L[i], p, v) = Here(L[i], p, w)
  <2>1. \A j \in HunksOf(L[i], p) : <<L[i].seq, j>> \in HunkIds(L, p)
    BY <1>1, HunkIdsIs
  <2>2. \A j \in HunksOf(L[i], p) : <<L[i].seq, j>> \in v <=> <<L[i].seq, j>> \in w
    BY <2>1
  <2> QED
    BY <2>2 DEF Here
<1> HIDE DEF N
<1>7. \A i \in 1..N : f[i - 1] = g[i - 1] => f[i] = g[i]
  BY <1>4, <1>5, <1>6
<1>8. SameUpTo(f, g, N)
  BY <1>1, <1>4, <1>5, <1>7, Agree
<1> QED
  BY <1>1, <1>4, <1>5, <1>8 DEF SameUpTo

(* What is reverted holds what is reverted by name, and only hunks of the log *)
(* when that does.                                                            *)
LEMMA RevertedWithin ==
  ASSUME NEW L \in Seq(Event), NEW p, Decided(L, p, FALSE) \subseteq HunkIds(L, p)
  PROVE  Reverted(L, p) \subseteq HunkIds(L, p)
<1> DEFINE N == Len(L)
           X == HunkIds(L, p)
<1>0. Decided(L, p, FALSE) \subseteq X
  OBVIOUS
<1>1. N \in Nat /\ DOMAIN L = 1..N
  OBVIOUS
<1>2. PICK f : RevertedPass(f, L, p)
  BY <1>1, RevertedUnrolls
<1>3. /\ f[0] = Decided(L, p, FALSE) /\ \A i \in 1..N : f[i] = Drag(L[i], p, f[i - 1])
      /\ Reverted(L, p) = f[N]
  BY <1>2 DEF RevertedPass
<1> DEFINE S == {i \in 0..N : f[i] \subseteq X}
<1>4. 0 \in S
  <2>1. f[0] \subseteq X
    BY <1>0, <1>3
  <2>2. 0 \in 0..N
    BY <1>1
  <2> QED
    BY <2>1, <2>2
<1>5. ASSUME NEW i \in 1..N, i - 1 \in S
      PROVE  i \in S
  <2>1. \A j \in HunksOf(L[i], p) : <<L[i].seq, j>> \in HunkIds(L, p)
    BY <1>1, HunkIdsIs
  <2>2. f[i] = f[i - 1] \cup {<<L[i].seq, k>> : k \in {j \in HunksOf(L[i], p) :
                 L[i].hunks[j].deps \cap f[i - 1] # {}}}
    BY <1>3 DEF Drag
  <2>3. f[i] \subseteq X
    BY <1>5, <2>1, <2>2
  <2> QED
    BY <1>1, <2>3
<1>6. \A i \in 0..N : i \in S
  <2> HIDE DEF S
  <2> QED
    BY <1>1, <1>4, <1>5, UpTo
<1> QED
  BY <1>1, <1>3, <1>6

-----------------------------------------------------------------------------
(* Lines with their writers.                                                  *)

RichLine(B) == [text : Line, by : B]
Shown(r)    == [kind |-> r.kind, lines |-> Texts(r.lines)]
Holds(r, B) == r.lines \in Seq(RichLine(B)) /\ Shown(r) \in State

(* A slice replaced in a sequence gives a sequence.                           *)
LEMMA ReplaceSliceTyped ==
  ASSUME NEW R, NEW s \in Seq(R), NEW i \in Nat, NEW j \in Nat, NEW v \in Seq(R)
  PROVE  ReplaceSlice(s, i, j, v) \in Seq(R)
<1> DEFINE c == IF i > Len(s) THEN Len(s) ELSE i
           d == (IF j < c THEN c ELSE j) + 1
<1>1. Len(s) \in Nat /\ c \in 0..Len(s)
  OBVIOUS
<1> HIDE DEF c
<1>2. d \in Nat \ {0}
  BY <1>1
<1> HIDE DEF d
<1>3. SubSeq(s, 1, c) \in Seq(R)
  BY <1>1
<1>4. SubSeq(s, d, Len(s)) \in Seq(R)
  BY <1>1, <1>2
<1>5. ReplaceSlice(s, i, j, v) = SubSeq(s, 1, c) \o v \o SubSeq(s, d, Len(s))
  BY Zenon DEF ReplaceSlice, c, d
<1>6. SubSeq(s, 1, c) \o v \in Seq(R)
  BY <1>3
<1> QED
  BY <1>4, <1>5, <1>6

(* Lines are written as they are.                                             *)
LEMMA WrittenTyped ==
  ASSUME NEW B, NEW h \in B, NEW l \in Seq(Line)
  PROVE  /\ Written(l, h) \in Seq(RichLine(B))
         /\ Texts(Written(l, h)) = l
<1> DEFINE N == Len(l)
           w == Written(l, h)
<1>1. N \in Nat /\ \A i \in 1..N : l[i] \in Line
  OBVIOUS
<1>2. w = [i \in 1..N |-> [text |-> l[i], by |-> h]]
  BY DEF Written
<1> HIDE DEF N, w
<1>3. \A i \in 1..N : [text |-> l[i], by |-> h] \in RichLine(B)
  BY <1>1 DEF RichLine
<1>4. w \in Seq(RichLine(B)) /\ Len(w) = N
  BY <1>1, <1>2, <1>3
<1>5. Texts(w) = [i \in 1..N |-> w[i].text]
  BY <1>4 DEF Texts
<1>6. \A i \in 1..N : w[i].text = l[i]
  BY <1>2
<1>7. Texts(w) = [i \in 1..N |-> l[i]]
  BY <1>5, <1>6
<1>8. [i \in 1..N |-> l[i]] = l
  BY <1>1 DEF N
<1> QED
  BY <1>4, <1>7, <1>8 DEF w

(* The lines without their writers.                                           *)
LEMMA TextsTyped ==
  ASSUME NEW B, NEW s \in Seq(RichLine(B))
  PROVE  /\ Texts(s) \in Seq(Line) /\ Len(Texts(s)) = Len(s)
         /\ \A i \in 1..Len(s) : Texts(s)[i] = s[i].text
<1>1. Len(s) \in Nat /\ \A i \in 1..Len(s) : s[i].text \in Line
  <2>1. \A i \in 1..Len(s) : s[i] \in RichLine(B)
    OBVIOUS
  <2> QED
    BY <2>1 DEF RichLine
<1>2. Texts(s) = [i \in 1..Len(s) |-> s[i].text]
  BY DEF Texts
<1> QED
  BY <1>1, <1>2

(* Texts put together.                                                        *)
LEMMA TextsConcat ==
  ASSUME NEW B, NEW x \in Seq(RichLine(B)), NEW y \in Seq(RichLine(B))
  PROVE  Texts(x \o y) = Texts(x) \o Texts(y)
<1> DEFINE z == x \o y
           a == Texts(x)
           b == Texts(y)
           c == Texts(z)
           d == a \o b
           m == Len(x)
           n == Len(y)
<1>1. z \in Seq(RichLine(B)) /\ Len(z) = m + n /\ m \in Nat /\ n \in Nat
  OBVIOUS
<1>2. \A k \in 1..(m + n) : z[k] = IF k <= m THEN x[k] ELSE y[k - m]
  OBVIOUS
<1>3. a \in Seq(Line) /\ Len(a) = m /\ \A k \in 1..m : a[k] = x[k].text
  BY TextsTyped
<1>4. b \in Seq(Line) /\ Len(b) = n /\ \A k \in 1..n : b[k] = y[k].text
  BY TextsTyped
<1> HIDE DEF z
<1>5. c \in Seq(Line) /\ Len(c) = m + n /\ \A k \in 1..(m + n) : c[k] = z[k].text
  BY <1>1, TextsTyped
<1> HIDE DEF a, b, c, m, n
<1>10. a \in Seq(Line) /\ b \in Seq(Line)
  BY <1>3, <1>4
<1>11. /\ d \in Seq(Line) /\ Len(d) = Len(a) + Len(b)
       /\ \A k \in 1..(Len(a) + Len(b)) : d[k] = IF k <= Len(a) THEN a[k] ELSE b[k - Len(a)]
  BY <1>10
<1>12. Len(a) = m /\ Len(b) = n
  BY <1>3, <1>4
<1>6. d \in Seq(Line) /\ Len(d) = m + n
  BY <1>11, <1>12
<1>7. \A k \in 1..(m + n) : d[k] = IF k <= m THEN a[k] ELSE b[k - m]
  BY <1>11, <1>12
<1> HIDE DEF d
<1>8. ASSUME NEW k \in 1..(m + n)
      PROVE  c[k] = d[k]
  <2>1. CASE k <= m
    <3>1. k \in 1..m
      BY <1>1, <2>1
    <3> QED
      BY <1>2, <1>3, <1>5, <1>7, <2>1, <3>1
  <2>2. CASE ~(k <= m)
    <3>1. k - m \in 1..n
      BY <1>1, <2>2
    <3>2. z[k] = y[k - m] /\ d[k] = b[k - m]
      BY <1>2, <1>7, <2>2
    <3> QED
      BY <1>4, <1>5, <3>1, <3>2
  <2> QED
    BY <2>1, <2>2
<1>9. c = d
  BY <1>5, <1>6, <1>8, SeqEqual
<1> QED
  BY <1>9 DEF c, d, a, b, z

(* Part of the texts.                                                         *)
LEMMA TextsOfPart ==
  ASSUME NEW B, NEW s \in Seq(RichLine(B)), NEW i \in Nat \ {0}, NEW j \in Nat, j <= Len(s)
  PROVE  Texts(SubSeq(s, i, j)) = SubSeq(Texts(s), i, j)
<1> DEFINE x == SubSeq(s, i, j)
           a == Texts(s)
           c == Texts(x)
           d == SubSeq(a, i, j)
           m == IF i > j THEN 0 ELSE j - i + 1
<1>1. m \in Nat /\ Len(s) \in Nat /\ (m > 0 => m = j - i + 1)
  OBVIOUS
<1>2. a \in Seq(Line) /\ Len(a) = Len(s) /\ \A k \in 1..Len(s) : a[k] = s[k].text
  BY TextsTyped
<1> HIDE DEF a
<1>3. x \in Seq(RichLine(B)) /\ Len(x) = m /\ \A k \in 1..m : x[k] = s[i + k - 1]
  OBVIOUS
<1>4. d \in Seq(Line) /\ Len(d) = m /\ \A k \in 1..m : d[k] = a[i + k - 1]
  BY <1>2
<1> HIDE DEF x, d, m
<1>5. c \in Seq(Line) /\ Len(c) = m /\ \A k \in 1..m : c[k] = x[k].text
  BY <1>3, TextsTyped
<1> HIDE DEF c
<1>6. ASSUME NEW k \in 1..m
      PROVE  c[k] = d[k]
  <2>1. i + k - 1 \in 1..Len(s)
    BY <1>1
  <2> QED
    BY <1>2, <1>3, <1>4, <1>5, <2>1
<1>7. c = d
  BY <1>4, <1>5, <1>6, SeqEqual
<1> QED
  BY <1>7 DEF c, d, x, a

(* Replacing a slice and leaving out the writers commute.                     *)
LEMMA TextsOfSlice ==
  ASSUME NEW B, NEW s \in Seq(RichLine(B)), NEW i \in Nat, NEW j \in Nat,
         NEW v \in Seq(RichLine(B))
  PROVE  Texts(ReplaceSlice(s, i, j, v)) = ReplaceSlice(Texts(s), i, j, Texts(v))
<1> DEFINE N == Len(s)
           c == IF i > N THEN N ELSE i
           d == (IF j < c THEN c ELSE j) + 1
           a == Texts(s)
           x == SubSeq(s, 1, c)
           y == SubSeq(s, d, N)
<1>1. N \in Nat /\ c \in 0..N
  OBVIOUS
<1>2. a \in Seq(Line) /\ Len(a) = N
  BY TextsTyped
<1>3. ReplaceSlice(s, i, j, v) = (x \o v) \o y
  BY Zenon DEF ReplaceSlice
<1>4. ReplaceSlice(a, i, j, Texts(v)) = (SubSeq(a, 1, c) \o Texts(v)) \o SubSeq(a, d, N)
  <2> HIDE DEF a
  <2> QED
    BY <1>2, Zenon DEF ReplaceSlice
<1> HIDE DEF c
<1>5. d \in Nat \ {0}
  BY <1>1
<1> HIDE DEF d, a
<1>6. x \in Seq(RichLine(B))
  BY <1>1
<1>7. y \in Seq(RichLine(B))
  BY <1>1, <1>5
<1>8. 1 \in Nat \ {0} /\ c \in Nat /\ c <= Len(s) /\ N \in Nat /\ N <= Len(s)
  BY <1>1
<1>9. Texts(x) = SubSeq(Texts(s), 1, c)
  <2> HIDE DEF N
  <2> QED
    BY <1>8, TextsOfPart
<1>10. Texts(y) = SubSeq(Texts(s), d, N)
  <2> HIDE DEF N
  <2> QED
    BY <1>5, <1>8, TextsOfPart
<1> HIDE DEF x, y
<1>11. x \o v \in Seq(RichLine(B)) /\ Texts(x \o v) = Texts(x) \o Texts(v)
  BY <1>6, TextsConcat
<1>12. Texts((x \o v) \o y) = Texts(x \o v) \o Texts(y)
  BY <1>7, <1>11, TextsConcat
<1> QED
  BY <1>3, <1>4, <1>9, <1>10, <1>11, <1>12 DEF a

-----------------------------------------------------------------------------
(* The replay of an edit.                                                     *)

(* A position is rebased to a position.                                       *)
LEMMA RebasingTyped ==
  ASSUME NEW a \in Seq(Line), NEW b \in Seq(Line), NEW pos \in 0..Len(a)
  PROVE  Rebasing(a, b)[pos] \in Nat
<1> DEFINE pairs == Matches(a, b)
           before == {m \in pairs : m[1] = pos + 1}
           after == {m \in pairs : m[1] = pos}
<1>0. Len(a) \in Nat /\ Len(b) \in Nat /\ pos \in Nat
  OBVIOUS
<1>1. Chain(a, b, pairs)
  BY <1>0, MatchesChain
<1>2. CASE a = b
  BY <1>2 DEF Rebasing
<1>3. CASE a # b
  <2> DEFINE At(x) == LET b1 == {m \in pairs : m[1] = x + 1}
                          a1 == {m \in pairs : m[1] = x}
                      IN IF b1 # {} THEN Only(b1)[2] - 1
                         ELSE IF a1 # {} THEN Only(a1)[2] ELSE 0
             all == [x \in 0..Len(a) |-> At(x)]
  <2> HIDE DEF pairs
  <2>0. \A v : Only({v}) = v
    BY DEF Only
  <2>01. Rebasing(a, b) = Only({all})
    BY <1>3 DEF Rebasing, pairs
  <2>02. Rebasing(a, b) = all
    BY <2>0, <2>01
  <2>1. Rebasing(a, b)[pos] = IF before # {} THEN Only(before)[2] - 1
                              ELSE IF after # {} THEN Only(after)[2] ELSE 0
    BY <2>02
  <2>2. \A m \in pairs : m[2] \in Nat /\ (m[1] > 0 => m[2] > 0)
    <3>1. <<0, 0>> \in pairs /\ \A x, y \in pairs : x[1] < y[1] <=> x[2] < y[2]
      BY <1>1 DEF Chain
    <3>2. \A m \in pairs : m[2] \in 0..(Len(b) + 1) /\ m[1] \in 0..(Len(a) + 1)
      BY <1>1 DEF Chain
    <3> TAKE m \in pairs
    <3>3. 0 < m[1] <=> 0 < m[2]
      BY <3>1
    <3>4. m[1] \in Nat /\ m[2] \in Nat
      BY <1>0, <3>2
    <3> QED
      BY <3>3, <3>4
  <2>3. CASE before # {}
    <3>1. Only(before) \in before
      BY <2>3 DEF Only
    <3> DEFINE m == Only(before)
    <3>2. m \in pairs /\ m[1] = pos + 1
      BY <3>1
    <3>3. Rebasing(a, b)[pos] = m[2] - 1
      BY <2>1, <2>3
    <3> HIDE DEF m
    <3>4. m[2] \in Nat /\ m[2] > 0
      BY <1>0, <2>2, <3>2
    <3> QED
      BY <3>3, <3>4
  <2>4. CASE before = {} /\ after # {}
    <3>1. Only(after) \in after
      BY <2>4 DEF Only
    <3> DEFINE m == Only(after)
    <3>2. m \in pairs
      BY <3>1
    <3>3. Rebasing(a, b)[pos] = m[2]
      BY <2>1, <2>4
    <3> HIDE DEF m
    <3> QED
      BY <2>2, <3>2, <3>3
  <2>5. CASE before = {} /\ after = {}
    BY <2>1, <2>5
  <2> QED
    BY <2>3, <2>4, <2>5
<1> QED
  BY <1>2, <1>3

(* An edit has the hunks of its change.                                       *)
GoodEdit(e) ==
  /\ e.before # e.after
  /\ Len(e.hunks) = Len(Changes(e.before, e.after))
  /\ \A i \in DOMAIN e.hunks : e.hunks[i].region = Changes(e.before, e.after)[i]

(* The hunks of an edit.                                                      *)
LEMMA HunksTyped ==
  ASSUME NEW e \in Event, e.kind = "edit"
  PROVE  /\ Len(e.hunks) \in Nat /\ DOMAIN e.hunks = 1..Len(e.hunks)
         /\ \A i \in DOMAIN e.hunks : /\ e.hunks[i].region \in RegionOf(Line)
                                      /\ e.hunks[i].deps \subseteq Nat \X Nat
<1>1. e.hunks \in Seq(Hunk)
  BY EditFields
<1>2. \A h \in Hunk : h.region \in RegionOf(Line) /\ h.deps \subseteq Nat \X Nat
  BY DEF Hunk
<1> HIDE DEF Hunk
<1> QED
  BY <1>1, <1>2

(* A change of the whole file is one hunk.                                    *)
LEMMA OpaqueHunk ==
  ASSUME NEW e \in Event, e.kind = "edit", GoodEdit(e), Opaque(e.before, e.after)
  PROVE  DOMAIN e.hunks = {1}
<1>1. Changes(e.before, e.after) = <<WholeFile>>
  BY DEF Changes
<1>2. Len(e.hunks) = 1
  BY <1>1 DEF GoodEdit
<1>3. DOMAIN e.hunks = 1..1
  BY <1>2, HunksTyped
<1> QED
  BY <1>3

(* The hunks of a change of lines are in order, within the text.              *)
LEMMA LineHunks ==
  ASSUME NEW e \in Event, e.kind = "edit", GoodEdit(e), ~Opaque(e.before, e.after)
  PROVE  /\ \A i \in DOMAIN e.hunks : /\ StartOf(e, i) \in 0..Len(e.before.lines)
                                      /\ EndOf(e, i) \in 0..Len(e.before.lines)
                                      /\ StartOf(e, i) <= EndOf(e, i)
                                      /\ e.hunks[i].region.added \in Seq(Line)
         /\ \A i, j \in DOMAIN e.hunks : i < j => EndOf(e, i) <= StartOf(e, j)
<1> DEFINE a == e.before.lines
           b == e.after.lines
           R == Regions(a, b)
<1>1. a \in Seq(Line) /\ b \in Seq(Line)
  BY EditFields, StateFields
<1>2. R \in Seq(RegionsIn(a, Line)) /\ Placed(R, Len(a))
  BY <1>1, DiffIsExact
<1>3. Changes(e.before, e.after) = R
  BY DEF Changes
<1> HIDE DEF R, a, b
<1>4. Len(e.hunks) = Len(R) /\ DOMAIN e.hunks = 1..Len(R) /\ DOMAIN R = 1..Len(R)
  BY <1>2, <1>3, HunksTyped DEF GoodEdit
<1>5. \A i \in DOMAIN e.hunks : e.hunks[i].region = R[i] /\ R[i] \in RegionsIn(a, Line)
  BY <1>2, <1>3, <1>4 DEF GoodEdit
<1>6. Len(a) \in Nat
  BY <1>1
<1>7. ASSUME NEW i \in DOMAIN e.hunks
      PROVE  /\ StartOf(e, i) = R[i].start - 1 /\ EndOf(e, i) = EndLine(R[i])
             /\ StartOf(e, i) \in 0..Len(a) /\ EndOf(e, i) \in 0..Len(a)
             /\ StartOf(e, i) <= EndOf(e, i) /\ R[i].added \in Seq(Line)
  <2> DEFINE r == R[i]
  <2>1. r \in RegionOf(Line) /\ EndLine(r) <= Len(a)
    BY <1>5 DEF RegionsIn
  <2>2. StartOf(e, i) = r.start - 1 /\ EndOf(e, i) = EndLine(r)
    BY <1>5 DEF StartOf, EndOf, EndLine
  <2> HIDE DEF r
  <2>3. EndLine(r) \in Nat /\ r.start - 1 \in Nat /\ Len(r.removed) \in Nat
    BY <2>1, RegionEnds
  <2>4. r.start - 1 <= EndLine(r)
    BY <2>3 DEF EndLine
  <2>5. r.added \in Seq(Line)
    BY <2>1 DEF RegionOf
  <2>6. StartOf(e, i) \in 0..Len(a) /\ EndOf(e, i) \in 0..Len(a) /\ StartOf(e, i) <= EndOf(e, i)
    BY <1>6, <2>1, <2>2, <2>3, <2>4
  <2> QED
    BY <2>2, <2>5, <2>6 DEF r
<1>8. ASSUME NEW i \in DOMAIN e.hunks, NEW j \in DOMAIN e.hunks, i < j
      PROVE  EndOf(e, i) <= StartOf(e, j)
  <2>1. EndLine(R[i]) <= R[j].start - 1
    BY <1>2, <1>4, <1>8 DEF Placed
  <2> QED
    BY <1>7, <2>1
<1>9. \A i \in DOMAIN e.hunks : e.hunks[i].region.added = R[i].added
  BY <1>5
<1> QED
  BY <1>7, <1>8, <1>9 DEF a

(* The order of the hunks to apply is an order of these hunks.                *)
LEMMA OrderTyped ==
  ASSUME NEW e, NEW H, NEW to, Len(e.hunks) \in Nat
  PROVE  RightToLeft(e, H, to) \in Seq(H \cap (1..Len(e.hunks)))
<1> DEFINE n == Len(e.hunks)
           T == H \cap (1..n)
<1>1. PICK f : RightToLeftPass(f, e, H, to)
  BY RightToLeftUnrolls
<1>2. /\ f[0] = <<>> /\ \A i \in 1..n : f[i] = PutInOrder(e, H, to, f[i - 1], i)
      /\ RightToLeft(e, H, to) = f[n]
  BY <1>1 DEF RightToLeftPass
<1> DEFINE S == {i \in 0..n : f[i] \in Seq(T)}
<1>3. 0 \in S
  <2>1. f[0] = <<>> /\ 0 \in 0..n
    BY <1>2
  <2> HIDE DEF T
  <2>2. <<>> \in Seq(T)
    OBVIOUS
  <2>3. f[0] \in Seq(T)
    BY <2>1, <2>2
  <2> QED
    BY <2>1, <2>3
<1>4. ASSUME NEW i \in 1..n, i - 1 \in S
      PROVE  i \in S
  <2> DEFINE order == f[i - 1]
             right == {k \in DOMAIN order : RightOf(e, to, order[k], i)}
             at == 1 + Cardinality(right)
  <2>1. order \in Seq(T)
    BY <1>4
  <2>2. f[i] = IF i \notin H THEN order ELSE InsertAt(order, at, i)
    BY <1>2 DEF PutInOrder
  <2> HIDE DEF order
  <2>3. IsFiniteSet(DOMAIN order) /\ Cardinality(DOMAIN order) = Len(order)
    <3>1. Len(order) \in Nat /\ DOMAIN order = 1..Len(order)
      BY <2>1
    <3> DEFINE m == Len(order)
    <3> HIDE DEF m
    <3>2. m \in Nat /\ DOMAIN order = 1..m
      BY <3>1 DEF m
    <3>3. 1 \in Int /\ m \in Int /\ ~(1 > m + 1) /\ m - 1 + 1 = m
      BY <3>2
    <3>4. IsFiniteSet(1..m) /\ Cardinality(1..m) = IF 1 > m THEN 0 ELSE m - 1 + 1
      BY <3>3, FS_Interval
    <3>5. Cardinality(1..m) = m
      BY <3>2, <3>3, <3>4
    <3> QED
      BY <3>2, <3>4, <3>5 DEF m
  <2>4. Cardinality(right) \in Nat /\ Cardinality(right) <= Len(order)
    <3>1. right \in SUBSET (DOMAIN order)
      OBVIOUS
    <3> HIDE DEF right
    <3>2. IsFiniteSet(right) /\ Cardinality(right) <= Len(order)
      BY <2>3, <3>1, FS_Subset
    <3> QED
      BY <3>2, FS_CardinalityType
  <2> HIDE DEF right
  <2>5. at \in Nat \ {0} /\ at - 1 \in 0..Len(order) /\ Len(order) \in Nat
    BY <2>1, <2>4
  <2> HIDE DEF at
  <2>6. CASE i \in H
    <3>1. i \in T
      BY <2>6
    <3> HIDE DEF T
    <3>2. SubSeq(order, 1, at - 1) \in Seq(T)
      BY <2>1, <2>5
    <3>3. SubSeq(order, at, Len(order)) \in Seq(T)
      BY <2>1, <2>5
    <3>4. <<i>> \in Seq(T)
      BY <3>1
    <3>5. InsertAt(order, at, i) = SubSeq(order, 1, at - 1) \o <<i>> \o SubSeq(order, at, Len(order))
      BY DEF InsertAt
    <3>6. SubSeq(order, 1, at - 1) \o <<i>> \in Seq(T)
      BY <3>2, <3>4
    <3>7. f[i] \in Seq(T)
      BY <2>2, <2>6, <3>3, <3>5, <3>6
    <3> QED
      BY <3>7
  <2>7. CASE i \notin H
    BY <2>1, <2>2, <2>7
  <2> QED
    BY <2>6, <2>7
<1>5. \A i \in 0..n : i \in S
  <2> HIDE DEF S
  <2> QED
    BY <1>3, <1>4, UpTo
<1> QED
  BY <1>2, <1>5

(* The splices of an edit keep the lines, and each line has a writer.         *)
LEMMA SplicesTyped ==
  ASSUME NEW e \in Event, e.kind = "edit", GoodEdit(e), ~Opaque(e.before, e.after), NEW B,
         NEW H \in SUBSET (DOMAIN e.hunks), \A i \in H : <<e.seq, i>> \in B,
         NEW s \in Seq(RichLine(B))
  PROVE  SpliceHunks(s, e, H) \in Seq(RichLine(B))
<1> DEFINE to == Rebasing(e.before.lines, Texts(s))
           order == RightToLeft(e, H, to)
           T == H
           N == Len(order)
<1>1. SpliceHunks(s, e, H) = SpliceAll(s, e, to, order)
  BY DEF SpliceHunks, Only
<1>2. e.before.lines \in Seq(Line) /\ Texts(s) \in Seq(Line)
  BY EditFields, StateFields, TextsTyped
<1>3. \A pos \in 0..Len(e.before.lines) : to[pos] \in Nat
  BY <1>2, RebasingTyped
<1> HIDE DEF to
<1>4. order \in Seq(T)
  <2>1. Len(e.hunks) \in Nat
    BY HunksTyped
  <2>2. order \in Seq(H \cap (1..Len(e.hunks)))
    BY <2>1, OrderTyped
  <2>3. H \cap (1..Len(e.hunks)) \subseteq T
    OBVIOUS
  <2> HIDE DEF order, T
  <2> QED
    BY <2>2, <2>3
<1> HIDE DEF order
<1>5. N \in Nat /\ \A k \in 1..N : order[k] \in T
  BY <1>4
<1>6. PICK f : SplicePass(f, s, e, to, order)
  BY <1>5, SpliceUnrolls
<1>7. /\ f[0] = s /\ \A k \in 1..N : f[k] = Splice(e, to, f[k - 1], order[k])
      /\ SpliceAll(s, e, to, order) = f[N]
  BY <1>6 DEF SplicePass
<1> DEFINE S == {k \in 0..N : f[k] \in Seq(RichLine(B))}
<1>8. 0 \in S
  BY <1>5, <1>7
<1>9. ASSUME NEW k \in 1..N, k - 1 \in S
      PROVE  k \in S
  <2> DEFINE i == order[k]
             v == Written(e.hunks[i].region.added, <<e.seq, i>>)
  <2>1. i \in T
    BY <1>5
  <2>2. f[k] = ReplaceSlice(f[k - 1], to[StartOf(e, i)], to[EndOf(e, i)], v)
    BY <1>7 DEF Splice
  <2> HIDE DEF i
  <2>3. to[StartOf(e, i)] \in Nat /\ to[EndOf(e, i)] \in Nat /\ e.hunks[i].region.added \in Seq(Line)
    BY <1>3, <2>1, LineHunks
  <2>4. v \in Seq(RichLine(B))
    BY <2>1, <2>3, WrittenTyped
  <2>5. f[k - 1] \in Seq(RichLine(B))
    BY <1>9
  <2> HIDE DEF v
  <2>6. f[k] \in Seq(RichLine(B))
    BY <2>2, <2>3, <2>4, <2>5, ReplaceSliceTyped
  <2> QED
    BY <2>6
<1>10. \A k \in 0..N : k \in S
  <2> HIDE DEF S
  <2> QED
    BY <1>5, <1>8, <1>9, UpTo
<1> QED
  BY <1>1, <1>5, <1>7, <1>10

(* A file as a replay has it, after an edit.                                  *)
LEMMA ReplayEditHolds ==
  ASSUME NEW e \in Event, e.kind = "edit", GoodEdit(e), NEW B,
         NEW H \in SUBSET (DOMAIN e.hunks), \A i \in H : <<e.seq, i>> \in B,
         NEW r, Holds(r, B)
  PROVE  Holds(ReplayEdit(e, H, r), B)
<1>1. CASE H = {}
  BY <1>1 DEF ReplayEdit
<1>2. CASE H # {} /\ Opaque(e.before, e.after)
  <2> DEFINE w == Written(e.after.lines, <<e.seq, 1>>)
  <2>1. ReplayEdit(e, H, r) = [kind |-> e.after.kind, lines |-> w]
    BY <1>2 DEF ReplayEdit
  <2>2. <<e.seq, 1>> \in B
    BY <1>2, OpaqueHunk
  <2>3. e.after \in State /\ e.after.lines \in Seq(Line)
        /\ e.after = [kind |-> e.after.kind, lines |-> e.after.lines]
    BY EditFields, StateFields
  <2>4. w \in Seq(RichLine(B)) /\ Texts(w) = e.after.lines
    BY <2>2, <2>3, WrittenTyped
  <2> HIDE DEF w
  <2>5. Shown(ReplayEdit(e, H, r)) = [kind |-> e.after.kind, lines |-> e.after.lines]
    BY <2>1, <2>4 DEF Shown
  <2>6. Shown(ReplayEdit(e, H, r)) \in State
    BY <2>3, <2>5
  <2>7. ReplayEdit(e, H, r).lines \in Seq(RichLine(B))
    BY <2>1, <2>4
  <2> QED
    BY <2>6, <2>7 DEF Holds
<1>3. CASE H # {} /\ ~Opaque(e.before, e.after)
  <2> DEFINE w == SpliceHunks(r.lines, e, H)
  <2>1. ReplayEdit(e, H, r) = [kind |-> "text", lines |-> w]
    BY <1>3 DEF ReplayEdit
  <2>2. r.lines \in Seq(RichLine(B))
    BY DEF Holds
  <2>3. w \in Seq(RichLine(B))
    BY <1>3, <2>2, SplicesTyped
  <2>4. Texts(w) \in Seq(Line)
    BY <2>3, TextsTyped
  <2> HIDE DEF w
  <2>5. Shown(ReplayEdit(e, H, r)) = [kind |-> "text", lines |-> Texts(w)]
    BY <2>1 DEF Shown
  <2>6. Shown(ReplayEdit(e, H, r)) \in State
    BY <2>4, <2>5 DEF State
  <2>7. ReplayEdit(e, H, r).lines \in Seq(RichLine(B))
    BY <2>1, <2>3
  <2> QED
    BY <2>6, <2>7 DEF Holds
<1> QED
  BY <1>1, <1>2, <1>3


-----------------------------------------------------------------------------
(* Well-formed logs.                                                          *)

(* What an event owes to the log before it: a number of its own; a mark records what
   was on disk when its turn began; an edit is a change of a file the log knows, with
   the hunks of that change, built on earlier hunks; a decision is about a hunk.  *)
FitsMark(L, e) ==
  \A p \in DOMAIN e.pre \cap Tracked(L) : p \in DOMAIN e.begun /\ e.pre[p] = e.begun[p]
FitsEdit(L, e) ==
  /\ e.path \in Tracked(L)
  /\ GoodEdit(e)
  /\ \A i \in DOMAIN e.hunks : e.hunks[i].deps \subseteq HunkIds(L, e.path)
Fits(L, e) ==
  /\ \A k \in DOMAIN L : L[k].seq # e.seq
  /\ e.kind = "turn" => FitsMark(L, e)
  /\ e.kind = "edit" => FitsEdit(L, e)
  /\ e.kind = "decide" => e.hunk \in HunkIds(L, e.path)

WellFormed(L) == L \in Seq(Event) /\ \A k \in DOMAIN L : Fits(Before(L, k), L[k])

(* An event that fits keeps a log well-formed.                                *)
LEMMA WellFormedLonger ==
  ASSUME NEW L, WellFormed(L), NEW e \in Event, Fits(L, e)
  PROVE  WellFormed(Append(L, e))
<1> DEFINE M == Append(L, e)
<1>1. L \in Seq(Event)
  BY DEF WellFormed
<1>2. /\ M \in Seq(Event) /\ DOMAIN M = 1..(Len(L) + 1) /\ Len(L) \in Nat
      /\ DOMAIN L = 1..Len(L) /\ M[Len(L) + 1] = e
      /\ \A k \in DOMAIN L : M[k] = L[k]
  BY <1>1, Longer
<1>3. /\ \A k \in 1..(Len(L) + 1) : Before(M, k) = Before(L, k)
      /\ Before(L, Len(L) + 1) = L
  BY <1>1, PrefixOfLonger
<1> HIDE DEF M
<1>4. ASSUME NEW k \in DOMAIN M
      PROVE  Fits(Before(M, k), M[k])
  <2>1. CASE k \in DOMAIN L
    BY <1>2, <1>3, <2>1 DEF WellFormed
  <2>2. CASE k = Len(L) + 1
    BY <1>2, <1>3, <2>2
  <2> QED
    BY <1>2, <2>1, <2>2
<1> QED
  BY <1>2, <1>4 DEF WellFormed, M

(* The log before an event before an event.                                   *)
LEMMA PrefixOfPrefix ==
  ASSUME NEW L \in Seq(Event), NEW k \in 1..(Len(L) + 1), NEW i \in 1..k
  PROVE  Before(Before(L, k), i) = Before(L, i)
<1> DEFINE M == Before(L, k)
           s == Before(M, i)
           t == Before(L, i)
<1>1. /\ M \in Seq(Event) /\ Len(M) = k - 1 /\ Len(L) \in Nat
      /\ \A j \in 1..(k - 1) : M[j] = L[j]
  BY Prefix
<1> HIDE DEF M
<1>2. i \in 1..(Len(M) + 1) /\ i \in 1..(Len(L) + 1) /\ i - 1 <= k - 1
  BY <1>1
<1>3. s \in Seq(Event) /\ Len(s) = i - 1 /\ \A j \in 1..(i - 1) : s[j] = M[j]
  BY <1>1, <1>2, Prefix
<1>4. t \in Seq(Event) /\ Len(t) = i - 1 /\ \A j \in 1..(i - 1) : t[j] = L[j]
  BY <1>2, Prefix
<1> HIDE DEF s, t
<1>5. \A j \in 1..(i - 1) : s[j] = t[j]
  BY <1>1, <1>2, <1>3, <1>4
<1>6. s = t
  BY <1>3, <1>4, <1>5, SeqEqual
<1> QED
  BY <1>6 DEF s, t, M

(* A truncated log is well-formed.                                            *)
LEMMA WellFormedPrefix ==
  ASSUME NEW L, WellFormed(L), NEW k \in 1..(Len(L) + 1)
  PROVE  WellFormed(Before(L, k))
<1>1. L \in Seq(Event)
  BY DEF WellFormed
<1>2. /\ Before(L, k) \in Seq(Event) /\ DOMAIN Before(L, k) = 1..(k - 1)
      /\ \A i \in 1..(k - 1) : Before(L, k)[i] = L[i] /\ i \in DOMAIN L /\ i \in 1..k
  BY <1>1, Prefix
<1>3. ASSUME NEW i \in DOMAIN Before(L, k)
      PROVE  Fits(Before(Before(L, k), i), Before(L, k)[i])
  BY <1>1, <1>2, PrefixOfPrefix DEF WellFormed
<1> QED
  BY <1>2, <1>3 DEF WellFormed

(* What the log knows before an event it knows after it.                      *)
LEMMA PrefixWithin ==
  ASSUME NEW L \in Seq(Event), NEW k \in 1..(Len(L) + 1), NEW p
  PROVE  /\ p \in Tracked(Before(L, k)) => p \in Tracked(L)
         /\ HunkIds(Before(L, k), p) \subseteq HunkIds(L, p)
<1>1. \A i \in DOMAIN Before(L, k) : Before(L, k)[i] = L[i] /\ i \in DOMAIN L
  BY Prefix
<1>2. \A h : h \in HunkIds(Before(L, k), p) <=>
        \E i \in DOMAIN Before(L, k) : \E j \in HunksOf(Before(L, k)[i], p) : h = <<Before(L, k)[i].seq, j>>
  BY HunkIdsIs
<1>3. \A h : h \in HunkIds(L, p) <=>
        \E i \in DOMAIN L : \E j \in HunksOf(L[i], p) : h = <<L[i].seq, j>>
  BY HunkIdsIs
<1>4. HunkIds(Before(L, k), p) \subseteq HunkIds(L, p)
  BY <1>1, <1>2, <1>3
<1> QED
  BY <1>1, <1>4, TrackedIs

(* The events of a well-formed log have their own numbers, its edits are good, and its
   decisions are about hunks of files it knows.                               *)
LEMMA WellFormedIs ==
  ASSUME NEW L, WellFormed(L)
  PROVE  /\ L \in Seq(Event)
         /\ \A i, j \in DOMAIN L : L[i].seq = L[j].seq => i = j
         /\ \A k \in DOMAIN L : L[k].kind = "edit" => GoodEdit(L[k])
         /\ \A p, keep : Decided(L, p, keep) \subseteq HunkIds(L, p)
<1>1. L \in Seq(Event) /\ DOMAIN L = 1..Len(L) /\ Len(L) \in Nat
  BY DEF WellFormed
<1>2. \A k \in DOMAIN L : Fits(Before(L, k), L[k])
  BY DEF WellFormed
<1>3. ASSUME NEW i \in DOMAIN L, NEW j \in DOMAIN L, i < j
      PROVE  L[i].seq # L[j].seq
  <2>1. i \in 1..(j - 1) /\ j \in 1..(Len(L) + 1)
    BY <1>1, <1>3
  <2>2. i \in DOMAIN Before(L, j) /\ Before(L, j)[i] = L[i]
    BY <1>1, <2>1, Prefix
  <2> QED
    BY <1>2, <2>2 DEF Fits
<1>4. \A i, j \in DOMAIN L : L[i].seq = L[j].seq => i = j
  <2> TAKE i, j \in DOMAIN L
  <2>1. i \in Nat /\ j \in Nat
    BY <1>1
  <2>2. i < j \/ j < i \/ i = j
    BY <2>1
  <2> QED
    BY <1>3, <2>2
<1>5. \A k \in DOMAIN L : L[k].kind = "edit" => GoodEdit(L[k])
  BY <1>2 DEF Fits, FitsEdit
<1>6. ASSUME NEW p, NEW keep, NEW h \in Decided(L, p, keep)
      PROVE  h \in HunkIds(L, p)
  <2>1. PICK k \in DOMAIN L : L[k].kind = "decide" /\ L[k].path = p /\ L[k].hunk = h
    BY DecidedIs
  <2>2. h \in HunkIds(Before(L, k), p)
    BY <1>2, <2>1 DEF Fits
  <2>3. k \in 1..(Len(L) + 1)
    BY <1>1
  <2> QED
    BY <1>1, <2>2, <2>3, PrefixWithin
<1> QED
  BY <1>1, <1>4, <1>5, <1>6

(* A number the log does not have is in no hunk.                              *)
LEMMA FreshHunks ==
  ASSUME NEW L, NEW s, \A k \in DOMAIN L : L[k].seq # s, NEW p, NEW i
  PROVE  <<s, i>> \notin HunkIds(L, p)
<1>1. SUFFICES ASSUME <<s, i>> \in HunkIds(L, p)
               PROVE  FALSE
  OBVIOUS
<1>2. PICK k \in DOMAIN L : \E j \in HunksOf(L[k], p) : <<s, i>> = <<L[k].seq, j>>
  BY <1>1, HunkIdsIs
<1> QED
  BY <1>2

-----------------------------------------------------------------------------
(* Contents.                                                                  *)

(* The file at the first that is known of it, and at its first edit.          *)
LEMMA OldestState ==
  ASSUME NEW L \in Seq(Event), NEW p
  PROVE  Original(L, p) \in State /\ Oldest(L, p) \in State
<1> DEFINE about == {i \in DOMAIN L : Knows(L[i], p)}
           edits == EditsOf(L, p)
<1>1. DOMAIN L \subseteq Nat /\ \A i \in DOMAIN L : L[i] \in Event
  OBVIOUS
<1>2. Original(L, p) \in State
  <2>1. CASE about = {}
    <3>1. Original(L, p) = Absent
      BY <2>1 DEF Original
    <3> QED
      BY <3>1 DEF State
  <2>2. CASE about # {}
    <3> DEFINE m == Min(about)
               e == L[m]
    <3>1. m \in about
      BY <1>1, <2>2, MinOf
    <3>2. Original(L, p) = IF e.kind = "edit" THEN e.before ELSE e.pre[p]
      BY <2>2 DEF Original
    <3>3. e \in Event /\ Knows(e, p)
      BY <1>1, <3>1
    <3> HIDE DEF e
    <3>4. CASE IsEditOf(e, p)
      BY <3>2, <3>3, <3>4, EditFields DEF IsEditOf
    <3>5. CASE e.kind = "turn" /\ p \in DOMAIN e.pre
      BY <3>2, <3>3, <3>5, MarkFields, KnownFields
    <3> QED
      BY <3>3, <3>4, <3>5 DEF Knows
  <2> QED
    BY <2>1, <2>2
<1>3. Oldest(L, p) \in State
  <2>1. CASE edits = {}
    BY <1>2, <2>1 DEF Oldest
  <2>2. CASE edits # {}
    <3>1. edits \subseteq Nat
      BY <1>1 DEF EditsOf
    <3>2. Min(edits) \in edits
      <4> HIDE DEF edits
      <4> QED
        BY <2>2, <3>1, MinOf
    <3>3. Min(edits) \in DOMAIN L /\ L[Min(edits)].kind = "edit"
      BY <3>2 DEF EditsOf, IsEditOf
    <3>4. Oldest(L, p) = L[Min(edits)].before
      BY <2>2 DEF Oldest
    <3> HIDE DEF edits
    <3> QED
      BY <1>1, <3>3, <3>4, EditFields
  <2> QED
    BY <2>1, <2>2
<1> QED
  BY <1>2, <1>3

(* What a replay starts from.                                                 *)
LEMMA FirstHolds ==
  ASSUME NEW L \in Seq(Event), NEW p, NEW B, NoHunk \in B
  PROVE  Holds(FirstOf(L, p), B) /\ Shown(FirstOf(L, p)) = Oldest(L, p)
<1> DEFINE s == Oldest(L, p)
           w == Written(s.lines, NoHunk)
<1>1. s \in State
  BY OldestState
<1>2. s.lines \in Seq(Line) /\ s = [kind |-> s.kind, lines |-> s.lines]
  BY <1>1, StateFields
<1>3. FirstOf(L, p) = [kind |-> s.kind, lines |-> w]
  BY DEF FirstOf
<1> HIDE DEF s
<1>4. w \in Seq(RichLine(B)) /\ Texts(w) = s.lines
  BY <1>2, WrittenTyped
<1> HIDE DEF w
<1>5. Shown(FirstOf(L, p)) = [kind |-> s.kind, lines |-> s.lines]
  BY <1>3, <1>4 DEF Shown
<1>6. FirstOf(L, p).lines \in Seq(RichLine(B))
  BY <1>3, <1>4
<1> QED
  BY <1>1, <1>2, <1>5, <1>6 DEF Holds, s

(* A replay has a state of the file, and each line was written by a hunk applied or
   was there at first.                                                        *)
LEMMA ReplayHolds ==
  ASSUME NEW L, WellFormed(L), NEW p, NEW applied
  PROVE  Holds(Replay(L, p, applied), applied \cup {NoHunk})
<1> DEFINE N == Len(L)
           B == applied \cup {NoHunk}
<1>1. L \in Seq(Event) /\ N \in Nat /\ DOMAIN L = 1..N
  BY DEF WellFormed
<1>2. PICK f : ReplayPass(f, L, p, applied)
  BY <1>1, ReplayUnrolls
<1>3. /\ f[0] = FirstOf(L, p)
      /\ \A i \in 1..N : f[i] = ReplayEdit(L[i], Here(L[i], p, applied), f[i - 1])
      /\ Replay(L, p, applied) = f[N]
  BY <1>2 DEF ReplayPass, FirstOf, Here
<1> DEFINE S == {i \in 0..N : Holds(f[i], B)}
<1>4. 0 \in S
  <2>1. Holds(FirstOf(L, p), B)
    BY <1>1, FirstHolds
  <2> QED
    BY <1>1, <1>3, <2>1
<1>5. ASSUME NEW i \in 1..N, i - 1 \in S
      PROVE  i \in S
  <2> DEFINE e == L[i]
             H == Here(e, p, applied)
             r == f[i - 1]
  <2>1. e \in Event
    BY <1>1
  <2>2. f[i] = ReplayEdit(e, H, r)
    BY <1>3
  <2>3. Holds(r, B)
    BY <1>5
  <2>4. e.kind = "edit" => GoodEdit(e)
    BY <1>1, WellFormedIs
  <2> HIDE DEF e, r
  <2>5. CASE IsEditOf(e, p)
    <3>1. H \in SUBSET (DOMAIN e.hunks) /\ \A k \in H : <<e.seq, k>> \in B
      BY <2>5 DEF Here, HunksOf
    <3> HIDE DEF H, B
    <3>2. Holds(f[i], B)
      BY <2>1, <2>2, <2>3, <2>4, <2>5, <3>1, ReplayEditHolds DEF IsEditOf
    <3> QED
      BY <3>2
  <2>6. CASE ~IsEditOf(e, p)
    <3>1. H = {}
      BY <2>6 DEF Here, HunksOf
    <3>2. f[i] = r
      BY <2>2, <3>1 DEF ReplayEdit
    <3> QED
      BY <2>3, <3>2
  <2> QED
    BY <2>5, <2>6
<1>6. \A i \in 0..N : i \in S
  <2> HIDE DEF S
  <2> QED
    BY <1>1, <1>4, <1>5, UpTo
<1>7. Holds(f[N], B)
  <2>1. N \in 0..N
    BY <1>1
  <2> HIDE DEF N, B
  <2>2. N \in S
    BY <1>6, <2>1
  <2> QED
    BY <2>2
<1> HIDE DEF B
<1>8. Holds(Replay(L, p, applied), B)
  BY <1>3, <1>7
<1> QED
  BY <1>8 DEF B

(* The content of a file is what the replay of the hunks applied shows.       *)
Now(L, p) == Replay(L, p, Applied(L, p))

LEMMA ContentIs ==
  ASSUME NEW L, WellFormed(L), NEW p
  PROVE  /\ Content(L, p) = Shown(Now(L, p))
         /\ Content(L, p) \in State
         /\ Now(L, p).lines \in Seq(RichLine(Applied(L, p) \cup {NoHunk}))
<1>1. \A v : Only({v}) = v
  BY DEF Only
<1>2. \A h : Reconstruct(L, p, h) = Shown(Replay(L, p, h))
  <2> TAKE h
  <2> DEFINE r == Replay(L, p, h)
  <2>1. Reconstruct(L, p, h) = Only({[kind |-> r.kind, lines |-> Texts(r.lines)]})
    BY DEF Reconstruct
  <2> HIDE DEF r
  <2>2. Reconstruct(L, p, h) = [kind |-> r.kind, lines |-> Texts(r.lines)]
    BY <1>1, <2>1
  <2> QED
    BY <2>2 DEF r, Shown
<1>3. Content(L, p) = Only({Reconstruct(L, p, Applied(L, p))})
  BY DEF Content
<1>4. Content(L, p) = Shown(Now(L, p))
  BY <1>1, <1>2, <1>3 DEF Now
<1>5. Holds(Now(L, p), Applied(L, p) \cup {NoHunk})
  BY ReplayHolds DEF Now
<1> QED
  BY <1>4, <1>5 DEF Holds

(* A file without edits is as it was first seen.                              *)
LEMMA NoEdits ==
  ASSUME NEW L, WellFormed(L), NEW p, EditsOf(L, p) = {}
  PROVE  /\ Content(L, p) = Original(L, p)
         /\ Applied(L, p) = {} /\ HunkIds(L, p) = {}
         /\ Now(L, p).lines = Written(Content(L, p).lines, NoHunk)
<1> DEFINE N == Len(L)
           applied == Applied(L, p)
<1>1. L \in Seq(Event) /\ N \in Nat /\ DOMAIN L = 1..N
  BY DEF WellFormed
<1>2. PICK f : ReplayPass(f, L, p, applied)
  BY <1>1, ReplayUnrolls
<1>3. /\ f[0] = FirstOf(L, p)
      /\ \A i \in 1..N : f[i] = ReplayEdit(L[i], Here(L[i], p, applied), f[i - 1])
      /\ Replay(L, p, applied) = f[N]
  BY <1>2 DEF ReplayPass, FirstOf, Here
<1>4. \A i \in 1..N : ~IsEditOf(L[i], p)
  BY <1>1 DEF EditsOf
<1>5. HunkIds(L, p) = {}
  <2>1. \A k \in DOMAIN L : HunksOf(L[k], p) = {}
    BY <1>1, <1>4 DEF HunksOf
  <2>2. \A h : h \notin HunkIds(L, p)
    BY <2>1, HunkIdsIs
  <2> QED
    BY <2>2
<1>6. applied = {}
  BY <1>1, <1>5, ClosedWithin DEF Applied
<1> HIDE DEF applied
<1> DEFINE S == {i \in 0..N : f[i] = f[0]}
<1>7. 0 \in S
  BY <1>1
<1>8. ASSUME NEW i \in 1..N, i - 1 \in S
      PROVE  i \in S
  <2>1. Here(L[i], p, applied) = {}
    BY <1>6 DEF Here
  <2>2. f[i] = f[i - 1]
    BY <1>3, <2>1 DEF ReplayEdit
  <2> QED
    BY <1>8, <2>2
<1>9. \A i \in 0..N : i \in S
  <2> HIDE DEF S
  <2> QED
    BY <1>1, <1>7, <1>8, UpTo
<1>10. Replay(L, p, applied) = FirstOf(L, p)
  BY <1>1, <1>3, <1>9
<1>11. Content(L, p) = Shown(FirstOf(L, p))
  BY <1>10, ContentIs DEF Now, applied
<1>12. Shown(FirstOf(L, p)) = Oldest(L, p)
  BY <1>1, FirstHolds
<1>13. Oldest(L, p) = Original(L, p)
  BY DEF Oldest
<1>14. FirstOf(L, p).lines = Written(Oldest(L, p).lines, NoHunk)
  BY DEF FirstOf
<1> QED
  BY <1>5, <1>6, <1>10, <1>11, <1>12, <1>13, <1>14 DEF Now, applied

(* An event that does not touch a known file.                                 *)
LEMMA QuietEvent ==
  ASSUME NEW L, WellFormed(L), NEW e \in Event, Fits(L, e), NEW p \in Tracked(L),
         ~IsEditOf(e, p), Decided(Append(L, e), p, FALSE) = Decided(L, p, FALSE)
  PROVE  /\ HunkIds(Append(L, e), p) = HunkIds(L, p)
         /\ EditsOf(Append(L, e), p) = EditsOf(L, p)
         /\ Reverted(Append(L, e), p) = Reverted(L, p)
         /\ Applied(Append(L, e), p) = Applied(L, p)
         /\ Now(Append(L, e), p) = Now(L, p)
         /\ Content(Append(L, e), p) = Content(L, p)
<1> DEFINE M == Append(L, e)
<1>1. L \in Seq(Event) /\ WellFormed(M)
  BY WellFormedLonger DEF WellFormed
<1>2. HunksOf(e, p) = {}
  BY DEF HunksOf
<1>3. HunkIds(M, p) = HunkIds(L, p)
  <2>1. HunkIds(M, p) = HunkIds(L, p) \cup {<<e.seq, i>> : i \in HunksOf(e, p)}
    BY <1>1, HunkIdsLonger
  <2> HIDE DEF M
  <2> QED
    BY <1>2, <2>1
<1>4. Reverted(M, p) = Reverted(L, p)
  <2>1. Reverted(M, p) = Drag(e, p, Reverted(L, p))
    BY <1>1, RevertedLonger
  <2> HIDE DEF M
  <2> QED
    BY <1>2, <2>1 DEF Drag
<1>5. \A w : Closed(M, p, w) = Closed(L, p, w)
  <2> TAKE w
  <2>1. Closed(M, p, w) = Admit(e, p, w, Closed(L, p, w))
    BY <1>1, ClosedLonger
  <2> HIDE DEF M
  <2> QED
    BY <1>2, <2>1 DEF Admit
<1>6. Applied(M, p) = Applied(L, p)
  BY <1>3, <1>4, <1>5 DEF Applied
<1>7. Oldest(M, p) = Oldest(L, p)
  BY <1>1, OldestLonger
<1>8. \A w : Replay(M, p, w) = Replay(L, p, w)
  <2> TAKE w
  <2>1. Replay(M, p, w) = ReplayEdit(e, Here(e, p, w), Replay(L, p, w))
    BY <1>1, <1>7, ReplayLonger
  <2>2. Here(e, p, w) = {}
    BY <1>2 DEF Here
  <2> HIDE DEF M
  <2> QED
    BY <2>1, <2>2 DEF ReplayEdit
<1>9. Now(M, p) = Now(L, p)
  BY <1>6, <1>8 DEF Now
<1>10. EditsOf(M, p) = EditsOf(L, p)
  BY <1>1, EditsOfLonger
<1>11. Content(M, p) = Shown(Now(M, p)) /\ Content(L, p) = Shown(Now(L, p))
  BY <1>1, ContentIs
<1> QED
  BY <1>3, <1>4, <1>6, <1>9, <1>10, <1>11

(* A file the log does not know yet is as the mark records it.                *)
LEMMA FirstMark ==
  ASSUME NEW L, WellFormed(L), NEW e \in Event, Fits(L, e), e.kind = "turn",
         NEW p, p \notin Tracked(L), p \in DOMAIN e.pre
  PROVE  Content(Append(L, e), p) = e.pre[p]
<1> DEFINE M == Append(L, e)
           about == {i \in DOMAIN M : Knows(M[i], p)}
<1>1. L \in Seq(Event) /\ WellFormed(M)
  BY WellFormedLonger DEF WellFormed
<1>2. /\ DOMAIN M = DOMAIN L \cup {Len(L) + 1} /\ M[Len(L) + 1] = e
      /\ \A k \in DOMAIN L : M[k] = L[k]
      /\ Len(L) + 1 \in Nat /\ DOMAIN L \subseteq Nat
  BY <1>1, Longer
<1> HIDE DEF M
<1>3. \A k \in DOMAIN L : ~Knows(L[k], p)
  BY TrackedIs
<1>4. Knows(e, p) /\ ~IsEditOf(e, p)
  BY DEF Knows, IsEditOf
<1>5. about = {Len(L) + 1}
  BY <1>2, <1>3, <1>4
<1>6. EditsOf(M, p) = {}
  BY <1>2, <1>3, <1>4 DEF EditsOf, Knows
<1>7. about \subseteq Nat /\ about # {}
  BY <1>2, <1>5
<1>8. Min(about) = Len(L) + 1
  <2>1. Min(about) \in about
    <3> HIDE DEF about
    <3> QED
      BY <1>7, MinOf
  <2> QED
    BY <1>5, <2>1
<1>9. Original(M, p) = IF M[Min(about)].kind = "edit" THEN M[Min(about)].before ELSE M[Min(about)].pre[p]
  BY <1>7 DEF Original
<1>10. Original(M, p) = e.pre[p]
  <2> HIDE DEF about
  <2> QED
    BY <1>2, <1>8, <1>9
<1> QED
  BY <1>1, <1>6, <1>10, NoEdits DEF M

-----------------------------------------------------------------------------
(* A new edit.                                                                *)

(* The hunks of a rebased edit whose places do not change are applied from the last
   to the first.                                                              *)
LEMMA LastFirst ==
  ASSUME NEW e, NEW to, Len(e.hunks) \in Nat,
         \A i, j \in 1..Len(e.hunks) : i < j => ~RightOf(e, to, i, j)
  PROVE  LET n == Len(e.hunks)
         IN RightToLeft(e, 1..n, to) = [k \in 1..n |-> n + 1 - k]
<1> DEFINE n == Len(e.hunks)
           Down(i) == [k \in 1..i |-> i + 1 - k]
<1>0. n \in Nat
  OBVIOUS
<1>1. PICK f : RightToLeftPass(f, e, 1..n, to)
  BY RightToLeftUnrolls
<1>2. /\ f[0] = <<>> /\ \A i \in 1..n : f[i] = PutInOrder(e, 1..n, to, f[i - 1], i)
      /\ RightToLeft(e, 1..n, to) = f[n]
  BY <1>1 DEF RightToLeftPass
<1>3. \A i, j \in 1..n : i < j => ~RightOf(e, to, i, j)
  OBVIOUS
<1> HIDE DEF n
<1> DEFINE S == {i \in 0..n : f[i] = Down(i)}
<1>4. 0 \in S
  <2>1. Down(0) = <<>>
    OBVIOUS
  <2> QED
    BY <1>0, <1>2, <2>1
<1>5. ASSUME NEW i \in 1..n, i - 1 \in S
      PROVE  i \in S
  <2> DEFINE order == f[i - 1]
             right == {k \in DOMAIN order : RightOf(e, to, order[k], i)}
  <2>1. i \in Nat \ {0}
    BY <1>0
  <2>2. order = Down(i - 1)
    BY <1>5
  <2>3. f[i] = InsertAt(order, 1 + Cardinality(right), i)
    BY <1>2 DEF PutInOrder
  <2> HIDE DEF order
  <2>4. /\ DOMAIN order = 1..(i - 1) /\ order \in Seq(Nat) /\ Len(order) = i - 1
        /\ \A k \in 1..(i - 1) : order[k] = i - k
    BY <2>1, <2>2
  <2>5. right = {}
    <3>1. \A k \in 1..(i - 1) : order[k] \in 1..n /\ order[k] < i
      BY <1>0, <2>1, <2>4
    <3>2. \A k \in DOMAIN order : ~RightOf(e, to, order[k], i)
      BY <1>3, <2>4, <3>1
    <3> QED
      BY <3>2
  <2> HIDE DEF right
  <2>6. Cardinality(right) = 0
    BY <2>5, FS_EmptySet
  <2>7. f[i] = InsertAt(order, 1, i)
    BY <2>3, <2>6
  <2>8. f[i] = SubSeq(order, 1, 0) \o <<i>> \o SubSeq(order, 1, i - 1)
    BY <2>4, <2>7 DEF InsertAt
  <2>9. SubSeq(order, 1, 0) = <<>>
    BY <2>4
  <2>10. SubSeq(order, 1, i - 1) = order
    BY <2>4, SubSeqFull
  <2>11. f[i] = <<i>> \o order
    BY <2>1, <2>8, <2>9, <2>10
  <2>12. /\ f[i] \in Seq(Nat) /\ Len(f[i]) = i /\ f[i][1] = i
         /\ \A k \in 2..i : f[i][k] = order[k - 1]
    BY <2>1, <2>4, <2>11
  <2>13. Down(i) \in Seq(Nat) /\ Len(Down(i)) = i
    <3>1. \A k \in 1..i : i + 1 - k \in Nat
      BY <2>1
    <3> QED
      BY <2>1, <3>1
  <2>14. \A k \in 1..i : f[i][k] = Down(i)[k]
    <3> TAKE k \in 1..i
    <3>1. Down(i)[k] = i + 1 - k
      BY <2>1
    <3>2. CASE k = 1
      BY <2>1, <2>12, <3>1, <3>2
    <3>3. CASE k # 1
      <4>1. k \in 2..i /\ k - 1 \in 1..(i - 1) /\ i - (k - 1) = i + 1 - k
        BY <2>1, <3>3
      <4> QED
        BY <2>4, <2>12, <3>1, <4>1
    <3> QED
      BY <3>2, <3>3
  <2> HIDE DEF Down
  <2>15. f[i] = Down(i)
    BY <2>12, <2>13, <2>14, SeqEqual
  <2> QED
    BY <2>15
<1>6. \A i \in 0..n : i \in S
  <2> HIDE DEF S
  <2> QED
    BY <1>0, <1>4, <1>5, UpTo
<1>7. f[n] = Down(n)
  BY <1>0, <1>6
<1> QED
  BY <1>2, <1>7 DEF n

(* An edit of the file as it is, applied whole, gives the file after it.      *)
LEMMA WholeEditGivesAfter ==
  ASSUME NEW e \in Event, e.kind = "edit", GoodEdit(e), NEW B,
         \A i \in DOMAIN e.hunks : <<e.seq, i>> \in B,
         NEW r, Holds(r, B), Shown(r) = e.before
  PROVE  Shown(ReplayEdit(e, DOMAIN e.hunks, r)) = e.after
<1> DEFINE H == DOMAIN e.hunks
           n == Len(e.hunks)
           a == e.before.lines
           b == e.after.lines
<1>1. n \in Nat /\ H = 1..n
  BY HunksTyped
<1>2. /\ a \in Seq(Line) /\ b \in Seq(Line)
      /\ e.before = [kind |-> e.before.kind, lines |-> a]
      /\ e.after = [kind |-> e.after.kind, lines |-> b]
      /\ e.before.kind \in {"absent", "binary", "text"}
      /\ e.after.kind \in {"absent", "binary", "text"}
      /\ e.before.kind # "text" => a = <<>>
  BY EditFields, StateFields
<1>3. CASE Opaque(e.before, e.after)
  <2> DEFINE w == Written(b, <<e.seq, 1>>)
  <2>1. H = {1}
    BY <1>3, OpaqueHunk
  <2>2. ReplayEdit(e, H, r) = [kind |-> e.after.kind, lines |-> w]
    BY <1>3, <2>1 DEF ReplayEdit
  <2>3. <<e.seq, 1>> \in B
    BY <2>1
  <2>4. Texts(w) = b
    BY <1>2, <2>3, WrittenTyped
  <2> HIDE DEF w, H
  <2>5. Shown(ReplayEdit(e, H, r)) = [kind |-> e.after.kind, lines |-> b]
    BY <2>2, <2>4 DEF Shown
  <2> QED
    BY <1>2, <2>5 DEF H
<1>4. CASE ~Opaque(e.before, e.after)
  <2> DEFINE R == Regions(a, b)
  <2>1. e.after.kind = "text" /\ e.before.kind # "binary" /\ (e.before.kind = "absent" => b # <<>>)
    BY <1>2, <1>4 DEF Opaque
  <2>2. Changes(e.before, e.after) = R
    BY <1>4 DEF Changes
  <2>3. Turns(R, a, b)
    BY <1>2, DiffIsExact
  <2> HIDE DEF R
  <2>4. Len(R) = n /\ \A i \in 1..n : e.hunks[i].region = R[i]
    BY <1>1, <2>2 DEF GoodEdit
  <2>5. H # {}
    <3>1. SUFFICES ASSUME n = 0
                   PROVE  FALSE
      BY <1>1
    <3> DEFINE f == [i \in {0} |-> a]
    <3>2. f[0] = a /\ \A k \in 1..Len(R) : f[k] = Patch(f[k - 1], R[Len(R) + 1 - k])
      BY <2>4, <3>1
    <3> HIDE DEF f
    <3>3. f[Len(R)] = b
      BY <2>3, <3>2 DEF Turns
    <3>4. a = b
      BY <2>4, <3>1, <3>2, <3>3
    <3>5. e.before.kind = "text"
      BY <1>2, <2>1, <3>4
    <3>6. e.before = e.after
      BY <1>2, <2>1, <3>4, <3>5
    <3> QED
      BY <3>6 DEF GoodEdit
  <2> DEFINE s == r.lines
             to == Rebasing(a, Texts(s))
             order == RightToLeft(e, H, to)
             w == SpliceHunks(s, e, H)
  <2>6. ReplayEdit(e, H, r) = [kind |-> "text", lines |-> w]
    BY <1>4, <2>5 DEF ReplayEdit
  <2>7. s \in Seq(RichLine(B)) /\ Texts(s) = a
    <3>1. r.lines \in Seq(RichLine(B))
      BY DEF Holds
    <3>2. Shown(r).lines = Texts(r.lines)
      BY DEF Shown
    <3> QED
      BY <3>1, <3>2
  <2>8. w = SpliceAll(s, e, to, order)
    BY DEF SpliceHunks, Only
  <2>9. \A pos \in 0..Len(a) : to[pos] = pos
    <3>1. to = [pos \in 0..Len(a) |-> pos]
      BY <2>7 DEF Rebasing
    <3> HIDE DEF to
    <3> QED
      BY <3>1
  <2> HIDE DEF to
  <2>10. /\ \A i \in 1..n : /\ StartOf(e, i) \in 0..Len(a)
                            /\ EndOf(e, i) \in 0..Len(a)
                            /\ StartOf(e, i) <= EndOf(e, i)
                            /\ e.hunks[i].region.added \in Seq(Line)
         /\ \A i, j \in 1..n : i < j => EndOf(e, i) <= StartOf(e, j)
    BY <1>1, <1>4, LineHunks
  <2>11. order = [k \in 1..n |-> n + 1 - k]
    <3>1. Len(a) \in Nat
      BY <1>2
    <3>2. ASSUME NEW i \in 1..n, NEW j \in 1..n, i < j
          PROVE  ~RightOf(e, to, i, j)
      <4> DEFINE si == StartOf(e, i)
                 ei == EndOf(e, i)
                 sj == StartOf(e, j)
                 ej == EndOf(e, j)
      <4>1. /\ si \in 0..Len(a) /\ ei \in 0..Len(a) /\ sj \in 0..Len(a) /\ ej \in 0..Len(a)
            /\ si <= ei /\ ei <= sj /\ sj <= ej
        BY <2>10, <3>2
      <4>2. to[si] = si /\ to[ei] = ei /\ to[sj] = sj /\ to[ej] = ej
        BY <2>9, <4>1
      <4>3. RightOf(e, to, i, j) <=> to[si] > to[sj] \/ (to[si] = to[sj] /\ to[ei] > to[ej])
        BY DEF RightOf
      <4> HIDE DEF si, ei, sj, ej
      <4> QED
        BY <3>1, <4>1, <4>2, <4>3
    <3>3. RightToLeft(e, 1..n, to) = [k \in 1..n |-> n + 1 - k]
      BY <1>1, <3>2, LastFirst
    <3> QED
      BY <1>1, <3>3
  <2>12. Len(order) = n /\ \A k \in 1..n : order[k] = n + 1 - k
    BY <1>1, <2>11
  <2> HIDE DEF order
  <2>13. PICK f : SplicePass(f, s, e, to, order)
    BY <1>1, <2>12, SpliceUnrolls
  <2>14. /\ f[0] = s /\ \A k \in 1..n : f[k] = Splice(e, to, f[k - 1], order[k])
         /\ w = f[n]
    BY <2>8, <2>12, <2>13 DEF SplicePass
  <2> HIDE DEF w, s
  <2> DEFINE S == {k \in 0..n : f[k] \in Seq(RichLine(B))}
             g == [k \in 0..n |-> Texts(f[k])]
  <2>15. ASSUME NEW k \in 1..n, f[k - 1] \in Seq(RichLine(B))
         PROVE  /\ f[k] \in Seq(RichLine(B))
                /\ Texts(f[k]) = Patch(Texts(f[k - 1]), R[n + 1 - k])
    <3> DEFINE i == n + 1 - k
               v == Written(e.hunks[i].region.added, <<e.seq, i>>)
    <3>1. i \in 1..n
      BY <1>1
    <3>2. f[k] = Splice(e, to, f[k - 1], i)
      BY <2>12, <2>14
    <3> HIDE DEF i
    <3>3. f[k] = ReplaceSlice(f[k - 1], to[StartOf(e, i)], to[EndOf(e, i)], v)
      BY <3>2 DEF Splice
    <3>4. StartOf(e, i) \in 0..Len(a) /\ EndOf(e, i) \in 0..Len(a) /\ e.hunks[i].region.added \in Seq(Line)
      BY <2>10, <3>1
    <3>5. to[StartOf(e, i)] = StartOf(e, i) /\ to[EndOf(e, i)] = EndOf(e, i)
      BY <2>9, <3>4
    <3>6. <<e.seq, i>> \in B
      BY <1>1, <3>1
    <3>7. v \in Seq(RichLine(B)) /\ Texts(v) = e.hunks[i].region.added
      BY <3>4, <3>6, WrittenTyped
    <3> HIDE DEF v
    <3>8. StartOf(e, i) \in Nat /\ EndOf(e, i) \in Nat
      <4>1. Len(a) \in Nat
        BY <1>2
      <4> QED
        BY <3>4, <4>1
    <3>9. f[k] = ReplaceSlice(f[k - 1], StartOf(e, i), EndOf(e, i), v)
      BY <3>3, <3>5
    <3>10. f[k] \in Seq(RichLine(B))
      BY <2>15, <3>7, <3>8, <3>9, ReplaceSliceTyped
    <3>11. Texts(f[k]) = ReplaceSlice(Texts(f[k - 1]), StartOf(e, i), EndOf(e, i), Texts(v))
      BY <2>15, <3>7, <3>8, <3>9, TextsOfSlice
    <3>12. Patch(Texts(f[k - 1]), R[i]) = ReplaceSlice(Texts(f[k - 1]), StartOf(e, i), EndOf(e, i), Texts(v))
      BY <2>4, <3>1, <3>7 DEF Patch, StartOf, EndOf
    <3> QED
      BY <3>10, <3>11, <3>12 DEF i
  <2>16. \A k \in 0..n : f[k] \in Seq(RichLine(B))
    <3>1. 0 \in S
      BY <1>1, <2>7, <2>14 DEF s
    <3>2. \A k \in 1..n : k - 1 \in S => k \in S
      <4> TAKE k \in 1..n
      <4> HAVE k - 1 \in S
      <4>1. f[k] \in Seq(RichLine(B))
        BY <2>15
      <4> QED
        BY <4>1
    <3>3. \A k \in 0..n : k \in S
      <4> HIDE DEF S
      <4> QED
        BY <1>1, <3>1, <3>2, UpTo
    <3> QED
      BY <3>3
  <2>17. g[0] = a /\ g[n] = Texts(w)
    BY <1>1, <2>7, <2>14 DEF s
  <2>18. \A k \in 1..n : g[k] = Patch(g[k - 1], R[n + 1 - k])
    <3> TAKE k \in 1..n
    <3>1. k \in 0..n /\ k - 1 \in 0..n
      BY <1>1
    <3>2. g[k] = Texts(f[k]) /\ g[k - 1] = Texts(f[k - 1]) /\ f[k - 1] \in Seq(RichLine(B))
      BY <2>16, <3>1
    <3> HIDE DEF g
    <3> QED
      BY <2>15, <3>2
  <2> HIDE DEF g
  <2>19. Texts(w) = b
    <3>1. g[0] = a /\ \A k \in 1..Len(R) : g[k] = Patch(g[k - 1], R[Len(R) + 1 - k])
      BY <2>4, <2>17, <2>18
    <3>2. g[Len(R)] = b
      BY <2>3, <3>1 DEF Turns
    <3> QED
      BY <2>4, <2>17, <3>2
  <2> HIDE DEF H
  <2>20. Shown(ReplayEdit(e, H, r)) = [kind |-> "text", lines |-> b]
    BY <2>6, <2>19 DEF Shown
  <2> QED
    BY <1>2, <2>1, <2>20 DEF H
<1> QED
  BY <1>3, <1>4

(* A log knows files, and names hunks by numbers.                             *)
LEMMA LogNames ==
  ASSUME NEW L \in Seq(Event), NEW p
  PROVE  /\ p \in Tracked(L) => p \in Paths
         /\ HunkIds(L, p) \subseteq Nat \X Nat
<1>1. \A k \in DOMAIN L : L[k] \in Event
  OBVIOUS
<1>2. ASSUME p \in Tracked(L)
      PROVE  p \in Paths
  <2>1. PICK k \in DOMAIN L : Knows(L[k], p)
    BY <1>2, TrackedIs
  <2> DEFINE e == L[k]
  <2>2. e \in Event /\ Knows(e, p)
    BY <1>1, <2>1
  <2> HIDE DEF e
  <2>3. CASE IsEditOf(e, p)
    BY <2>2, <2>3, EditFields DEF IsEditOf
  <2>4. CASE e.kind = "turn" /\ p \in DOMAIN e.pre
    BY <2>2, <2>4, MarkFields, KnownFields
  <2> QED
    BY <2>2, <2>3, <2>4 DEF Knows
<1>3. ASSUME NEW h \in HunkIds(L, p)
      PROVE  h \in Nat \X Nat
  <2>1. PICK k \in DOMAIN L : \E i \in HunksOf(L[k], p) : h = <<L[k].seq, i>>
    BY HunkIdsIs
  <2> DEFINE e == L[k]
  <2>2. PICK i \in HunksOf(e, p) : h = <<e.seq, i>>
    BY <2>1
  <2>3. e \in Event
    BY <1>1, <2>1
  <2> HIDE DEF e
  <2>4. e.kind = "edit" /\ i \in DOMAIN e.hunks
    BY <2>2 DEF HunksOf, IsEditOf
  <2>5. i \in Nat
    BY <2>3, <2>4, HunksTyped
  <2>6. e.seq \in Nat
    BY <2>3, EventKinds
  <2> QED
    BY <2>2, <2>5, <2>6
<1> QED
  BY <1>2, <1>3

(* The regions of a change.                                                   *)
LEMMA ChangesTyped ==
  ASSUME NEW before \in State, NEW after \in State
  PROVE  Changes(before, after) \in Seq(RegionOf(Line))
<1> DEFINE a == before.lines
           b == after.lines
<1>1. a \in Seq(Line) /\ b \in Seq(Line)
  BY StateFields
<1>2. CASE Opaque(before, after)
  <2>1. WholeFile \in RegionOf(Line)
    BY DEF WholeFile, RegionOf
  <2>2. Changes(before, after) = <<WholeFile>>
    BY <1>2 DEF Changes
  <2> QED
    BY <2>1, <2>2
<1>3. CASE ~Opaque(before, after)
  <2>1. Changes(before, after) = Regions(a, b)
    BY <1>3 DEF Changes
  <2>2. Regions(a, b) \in Seq(RegionsIn(a, Line))
    BY <1>1, DiffIsExact
  <2>3. RegionsIn(a, Line) \subseteq RegionOf(Line)
    BY DEF RegionsIn
  <2> QED
    BY <2>1, <2>2, <2>3
<1> QED
  BY <1>2, <1>3

(* The hunks of a new edit, evaluated.                                        *)
Deps(L, p, before, after, r) ==
  IF Opaque(before, after) THEN Applied(L, p)
  ELSE Writers(Provenance(L, p, before, Applied(L, p)), r) \cup Barriers(L, p, Applied(L, p))

LEMMA ComputeDepsIs ==
  ASSUME NEW L, NEW p, NEW before, NEW after
  PROVE  ComputeDeps(L, p, before, after)
           = [i \in DOMAIN Changes(before, after) |->
                [region |-> Changes(before, after)[i],
                 deps   |-> Deps(L, p, before, after, Changes(before, after)[i])]]
<1> DEFINE F(changes, prov, applied) ==
             [i \in DOMAIN changes |->
               [region |-> changes[i],
                deps |-> IF Opaque(before, after) THEN applied
                         ELSE Writers(prov, changes[i]) \cup Barriers(L, p, applied)]]
           A == Applied(L, p)
           P == Provenance(L, p, before, A)
           C == Changes(before, after)
<1>1. \A v : Only({v}) = v
  BY DEF Only
<1>2. ComputeDeps(L, p, before, after) = Only({F(C, P, A)})
  BY DEF ComputeDeps
<1>3. ComputeDeps(L, p, before, after) = F(C, P, A)
  <2> HIDE DEF F, C, P, A
  <2> QED
    BY <1>1, <1>2
<1> QED
  BY <1>3 DEF Deps

(* What a new hunk is built on is applied.                                    *)
LEMMA DepsApplied ==
  ASSUME NEW L, WellFormed(L), NEW p, NEW before \in State, NEW after, NEW r
  PROVE  Deps(L, p, before, after, r) \subseteq Applied(L, p)
<1> DEFINE A == Applied(L, p)
           B == A \cup {NoHunk}
           P == Provenance(L, p, before, A)
<1>1. Barriers(L, p, A) \subseteq A
  BY DEF Barriers
<1>2. P \in Seq(RichLine(B))
  <2>1. CASE EditsOf(L, p) = {}
    <3>1. before.lines \in Seq(Line)
      BY StateFields
    <3>2. P = Written(before.lines, NoHunk)
      BY <2>1 DEF Provenance
    <3>3. NoHunk \in B
      OBVIOUS
    <3> HIDE DEF B, P
    <3> QED
      BY <3>1, <3>2, <3>3, WrittenTyped
  <2>2. CASE EditsOf(L, p) # {}
    <3>1. P = Now(L, p).lines
      BY <2>2 DEF Provenance, Now
    <3> HIDE DEF P
    <3> QED
      BY <3>1, ContentIs
  <2> QED
    BY <2>1, <2>2
<1> HIDE DEF P
<1>3. \A k \in DOMAIN P : P[k].by \in B
  <2> HIDE DEF B
  <2>1. \A k \in DOMAIN P : P[k] \in RichLine(B)
    BY <1>2
  <2> QED
    BY <2>1 DEF RichLine
<1>4. Writers(P, r) \subseteq A
  <2>1. ASSUME NEW h \in Writers(P, r)
        PROVE  h \in A
    <3>1. \E k \in DOMAIN P : h = P[k].by
      BY DEF Writers
    <3>2. h # NoHunk
      BY DEF Writers
    <3> QED
      BY <1>3, <3>1, <3>2
  <2> QED
    BY <2>1
<1> QED
  BY <1>1, <1>4 DEF Deps, P

(* A new edit, of a file as the log has it.                                   *)
Fresh(L, s) == s \in Nat /\ \A k \in DOMAIN L : L[k].seq # s
Owners == {"turn", "manual"} \X Nat

LEMMA NewEdit ==
  ASSUME NEW L, WellFormed(L), NEW p \in Tracked(L), NEW s, Fresh(L, s),
         NEW owner \in Owners, NEW after \in State, Content(L, p) # after,
         NEW e, e = Edit(L, s, owner, p, Content(L, p), after)
  PROVE  /\ e \in Event /\ Fits(L, e) /\ e.kind = "edit" /\ e.path = p /\ e.seq = s
         /\ e.before = Content(L, p) /\ e.after = after /\ GoodEdit(e)
         /\ \A i \in DOMAIN e.hunks : e.hunks[i].deps \subseteq Applied(L, p)
<1> DEFINE before == Content(L, p)
           C == Changes(before, after)
           D(i) == Deps(L, p, before, after, C[i])
           H == [i \in DOMAIN C |-> [region |-> C[i], deps |-> D(i)]]
           A == Applied(L, p)
<1>1. L \in Seq(Event) /\ before \in State /\ p \in Paths
  BY WellFormedIs, ContentIs, LogNames
<1>2. C \in Seq(RegionOf(Line))
  BY <1>1, ChangesTyped
<1>3. A \subseteq HunkIds(L, p) /\ HunkIds(L, p) \subseteq Nat \X Nat
  BY <1>1, ClosedWithin, LogNames DEF Applied
<1>4. \A i : D(i) \subseteq A
  BY <1>1, DepsApplied
<1>5. ComputeDeps(L, p, before, after) = H
  BY ComputeDepsIs
<1> HIDE DEF before, A, D, C
<1>6. e = [kind |-> "edit", seq |-> s, owner |-> owner, path |-> p,
           before |-> before, after |-> after, hunks |-> H]
  BY <1>5 DEF Edit, before
<1>7. Len(C) \in Nat /\ DOMAIN C = 1..Len(C)
  BY <1>2
<1>8. H \in Seq(Hunk)
  <2>1. ASSUME NEW i \in 1..Len(C)
        PROVE  H[i] \in Hunk
    <3>1. H[i] = [region |-> C[i], deps |-> D(i)]
      BY <1>7
    <3>2. C[i] \in RegionOf(Line)
      BY <1>2, <1>7
    <3>3. D(i) \in SUBSET (Nat \X Nat)
      BY <1>3, <1>4
    <3> HIDE DEF H
    <3> QED
      BY <3>1, <3>2, <3>3 DEF Hunk
  <2>2. H = [i \in 1..Len(C) |-> H[i]]
    BY <1>7
  <2> HIDE DEF H
  <2> QED
    BY <1>7, <2>1, <2>2
<1>9. DOMAIN H = DOMAIN C /\ Len(H) = Len(C)
  <2>1. DOMAIN H = DOMAIN C
    OBVIOUS
  <2> HIDE DEF H
  <2> QED
    BY <1>2, <1>8, <2>1
<1>10. \A i \in DOMAIN H : H[i].region = C[i] /\ H[i].deps = D(i)
  OBVIOUS
<1> HIDE DEF H
<1>11. e \in Edits
  BY <1>1, <1>6, <1>8 DEF Edits, Fresh, Owners
<1>12. e \in Event
  BY <1>11 DEF Event
<1>13. /\ e.kind = "edit" /\ e.path = p /\ e.seq = s /\ e.before = before
       /\ e.after = after /\ e.hunks = H
  BY <1>6
<1>14. GoodEdit(e)
  BY <1>9, <1>10, <1>13 DEF GoodEdit, C, before
<1>15. \A i \in DOMAIN e.hunks : e.hunks[i].deps \subseteq A
  BY <1>4, <1>10, <1>13
<1>16. FitsEdit(L, e)
  BY <1>3, <1>13, <1>14, <1>15 DEF FitsEdit
<1>17. Fits(L, e)
  BY <1>13, <1>16 DEF Fits, Fresh
<1> QED
  BY <1>12, <1>13, <1>14, <1>15, <1>17 DEF before, A

(* What Checkpointer._append_edit records is what History.content then derives: a new
   edit's splices give the state it was made with, its own hunks are applied, and the
   reverted ones stay reverted.                                               *)
THEOREM NewEditGivesAfter ==
  ASSUME NEW L, WellFormed(L), NEW p \in Tracked(L), NEW s, Fresh(L, s),
         NEW owner \in Owners, NEW after \in State, Content(L, p) # after
  PROVE  LET e == Edit(L, s, owner, p, Content(L, p), after) IN
         /\ Content(Append(L, e), p) = after
         /\ Reverted(Append(L, e), p) = Reverted(L, p)
         /\ Applied(Append(L, e), p) = Applied(L, p) \cup {<<s, i>> : i \in DOMAIN e.hunks}
<1> DEFINE edit == Edit(L, s, owner, p, Content(L, p), after)
<1> HIDE DEF edit
<1> SUFFICES /\ Content(Append(L, edit), p) = after
             /\ Reverted(Append(L, edit), p) = Reverted(L, p)
             /\ Applied(Append(L, edit), p) = Applied(L, p) \cup {<<s, i>> : i \in DOMAIN edit.hunks}
  BY DEF edit
<1>1. PICK e : e = edit
  OBVIOUS
<1> DEFINE M == Append(L, e)
           New == {<<s, i>> : i \in DOMAIN e.hunks}
           A == Applied(L, p)
<1>2. /\ e \in Event /\ Fits(L, e) /\ e.kind = "edit" /\ e.path = p /\ e.seq = s
      /\ e.before = Content(L, p) /\ e.after = after /\ GoodEdit(e)
      /\ \A i \in DOMAIN e.hunks : e.hunks[i].deps \subseteq A
  BY <1>1, NewEdit DEF edit
<1>3. L \in Seq(Event) /\ WellFormed(M)
  BY <1>2, WellFormedIs, WellFormedLonger
<1>4. HunksOf(e, p) = DOMAIN e.hunks /\ IsEditOf(e, p)
  BY <1>2 DEF HunksOf, IsEditOf
<1>5. HunkIds(M, p) = HunkIds(L, p) \cup New
  BY <1>2, <1>3, <1>4, HunkIdsLonger
<1>6. \A i : <<s, i>> \notin HunkIds(L, p)
  BY FreshHunks DEF Fresh
<1>7. /\ Reverted(L, p) \subseteq HunkIds(L, p)
      /\ A \subseteq HunkIds(L, p) \ Reverted(L, p)
  <2>1. Decided(L, p, FALSE) \subseteq HunkIds(L, p)
    BY WellFormedIs
  <2> QED
    BY <1>3, <2>1, RevertedWithin, ClosedWithin DEF Applied
<1>8. Reverted(M, p) = Reverted(L, p)
  <2>1. Decided(M, p, FALSE) = Decided(L, p, FALSE)
    BY <1>2, <1>3, DecidedWith
  <2>2. Reverted(M, p) = Drag(e, p, Reverted(L, p))
    BY <1>2, <1>3, <2>1, RevertedLonger
  <2>3. \A i \in HunksOf(e, p) : e.hunks[i].deps \cap Reverted(L, p) = {}
    BY <1>2, <1>4, <1>7
  <2> HIDE DEF M
  <2> QED
    BY <2>2, <2>3 DEF Drag
<1>9. Applied(M, p) = A \cup New
  <2> DEFINE w == HunkIds(M, p) \ Reverted(M, p)
  <2>1. Applied(M, p) = Admit(e, p, w, Closed(L, p, w))
    BY <1>2, <1>3, ClosedLonger DEF Applied
  <2>2. w \cap HunkIds(L, p) = (HunkIds(L, p) \ Reverted(L, p)) \cap HunkIds(L, p)
    BY <1>5, <1>8
  <2>3. Closed(L, p, w) = A
    <3> HIDE DEF w
    <3> QED
      BY <1>3, <2>2, ClosedSame DEF Applied
  <2>4. \A i \in DOMAIN e.hunks : <<s, i>> \in w
    BY <1>5, <1>6, <1>7, <1>8
  <2> HIDE DEF w, M
  <2>5. \A i \in HunksOf(e, p) : <<e.seq, i>> \in w /\ e.hunks[i].deps \subseteq A
    BY <1>2, <1>4, <2>4
  <2> HIDE DEF A
  <2>6. Admit(e, p, w, A) = A \cup {<<e.seq, i>> : i \in HunksOf(e, p)}
    BY <2>5 DEF Admit
  <2> QED
    BY <1>2, <1>4, <2>1, <2>3, <2>6
<1>10. Oldest(M, p) = Oldest(L, p)
  <2>1. EditsOf(L, p) = {} => e.before = Original(L, p)
    BY <1>2, NoEdits
  <2> QED
    BY <1>2, <1>3, <2>1, OldestLonger
<1>11. Content(M, p) = after
  <2> DEFINE w == A \cup New
             r == Now(L, p)
  <2>1. Now(M, p) = ReplayEdit(e, Here(e, p, w), Replay(L, p, w))
    <3>1. Now(M, p) = Replay(M, p, w)
      BY <1>9 DEF Now
    <3> HIDE DEF w
    <3> QED
      BY <1>2, <1>3, <1>10, <3>1, ReplayLonger
  <2>2. Here(e, p, w) = DOMAIN e.hunks
    <3>1. \A i \in DOMAIN e.hunks : <<e.seq, i>> \in w
      BY <1>2
    <3> HIDE DEF w
    <3> QED
      BY <1>4, <3>1 DEF Here
  <2>3. Replay(L, p, w) = r
    <3>1. w \cap HunkIds(L, p) = A \cap HunkIds(L, p)
      BY <1>6
    <3> HIDE DEF w
    <3> QED
      BY <1>3, <3>1, ReplaySame DEF Now
  <2>4. Holds(r, w \cup {NoHunk})
    <3>1. Holds(Replay(L, p, w), w \cup {NoHunk})
      BY ReplayHolds
    <3> QED
      BY <2>3, <3>1
  <2>5. Shown(r) = e.before
    BY <1>2, ContentIs
  <2>6. \A i \in DOMAIN e.hunks : <<e.seq, i>> \in w \cup {NoHunk}
    BY <1>2
  <2>7. Content(M, p) = Shown(Now(M, p))
    BY <1>3, ContentIs
  <2> HIDE DEF w, r, M
  <2>8. Shown(ReplayEdit(e, DOMAIN e.hunks, r)) = e.after
    BY <1>2, <2>4, <2>5, <2>6, WholeEditGivesAfter
  <2> QED
    BY <1>2, <2>1, <2>2, <2>3, <2>7, <2>8
<1> QED
  BY <1>1, <1>8, <1>9, <1>11

-----------------------------------------------------------------------------
(* Finite sets: the lists of their elements, and the numbers of a log.        *)

(* A list of a set names each element once.                                   *)
Lists(seq, set) ==
  /\ Len(seq) \in Nat
  /\ \A i \in 1..Len(seq) : seq[i] \in set
  /\ \A x \in set : \E i \in 1..Len(seq) : seq[i] = x
  /\ \A i, j \in 1..Len(seq) : seq[i] = seq[j] => i = j

(* A list with an element more.                                               *)
LEMMA ListMore ==
  ASSUME NEW set, NEW list \in Seq(set), NEW x \in set, x \notin ToSet(list),
         IsFiniteSet(ToSet(list)), Cardinality(ToSet(list)) = Len(list),
         \A i, j \in 1..Len(list) : list[i] = list[j] => i = j
  PROVE  LET more == Append(list, x) IN
         /\ more \in Seq(set) /\ Len(more) = Len(list) + 1
         /\ IsFiniteSet(ToSet(more)) /\ Cardinality(ToSet(more)) = Len(more)
         /\ \A i, j \in 1..Len(more) : more[i] = more[j] => i = j
<1> DEFINE more == Append(list, x)
           n == Len(list)
<1>1. /\ n \in Nat /\ more \in Seq(set) /\ Len(more) = n + 1 /\ more[n + 1] = x
      /\ \A i \in 1..n : more[i] = list[i]
      /\ DOMAIN list = 1..n /\ DOMAIN more = 1..(n + 1)
  BY AppendProperties
<1> HIDE DEF more
<1>2. ToSet(more) = ToSet(list) \cup {x}
  <2>1. ToSet(more) = {more[i] : i \in 1..(n + 1)} /\ ToSet(list) = {list[i] : i \in 1..n}
    BY <1>1, Members
  <2>2. \A y \in ToSet(more) : y \in ToSet(list) \cup {x}
    <3> TAKE y \in ToSet(more)
    <3>1. PICK i \in 1..(n + 1) : y = more[i]
      BY <2>1
    <3>2. i \in 1..n \/ i = n + 1
      BY <1>1
    <3> QED
      BY <1>1, <2>1, <3>1, <3>2
  <2>3. \A y \in ToSet(list) : y \in ToSet(more)
    <3> TAKE y \in ToSet(list)
    <3>1. PICK i \in 1..n : y = list[i]
      BY <2>1
    <3>2. i \in 1..(n + 1) /\ more[i] = y
      BY <1>1, <3>1
    <3> QED
      BY <2>1, <3>2
  <2>4. x \in ToSet(more)
    <3>1. n + 1 \in 1..(n + 1)
      BY <1>1
    <3> QED
      BY <1>1, <2>1, <3>1
  <2> QED
    BY <2>2, <2>3, <2>4
<1>3. \A i \in 1..n : list[i] # x
  BY <1>1, Members
<1>4. IsFiniteSet(ToSet(more)) /\ Cardinality(ToSet(more)) = n + 1
  BY <1>2, FS_AddElement
<1>5. \A i, j \in 1..(n + 1) : more[i] = more[j] => i = j
  <2> TAKE i, j \in 1..(n + 1)
  <2> HAVE more[i] = more[j]
  <2>1. i \in 1..n \/ i = n + 1
    BY <1>1
  <2>2. j \in 1..n \/ j = n + 1
    BY <1>1
  <2>3. CASE i \in 1..n /\ j \in 1..n
    BY <1>1, <2>3
  <2>4. CASE i = n + 1 /\ j \in 1..n
    BY <1>1, <1>3, <2>4
  <2>5. CASE i \in 1..n /\ j = n + 1
    BY <1>1, <1>3, <2>5
  <2> QED
    BY <2>1, <2>2, <2>3, <2>4, <2>5
<1> QED
  BY <1>1, <1>4, <1>5 DEF more

(* The listing of a finite set lists it.                                      *)
LEMMA ListingLists ==
  ASSUME NEW set, IsFiniteSet(set)
  PROVE  Lists(Listing(set), set)
<1> DEFINE n == Cardinality(set)
           Good(list) == /\ list \in Seq(set)
                         /\ IsFiniteSet(ToSet(list)) /\ Cardinality(ToSet(list)) = Len(list)
                         /\ \A i, j \in 1..Len(list) : list[i] = list[j] => i = j
<1>1. n \in Nat
  BY FS_CardinalityType
<1>2. PICK f : ListingPass(f, set)
  BY <1>1, ListingUnrolls
<1>3. /\ f[0] = <<>> /\ \A i \in 1..n : f[i] = ListOne(set, f[i - 1])
      /\ Listing(set) = f[n]
  BY <1>2 DEF ListingPass
<1> DEFINE S == {i \in 0..n : Good(f[i]) /\ Len(f[i]) = i}
<1>4. 0 \in S
  <2>1. ToSet(<<>>) = {}
    BY Members
  <2>2. IsFiniteSet(ToSet(<<>>)) /\ Cardinality(ToSet(<<>>)) = 0
    BY <2>1, FS_EmptySet
  <2>3. <<>> \in Seq(set) /\ Len(<<>>) = 0
    OBVIOUS
  <2>4. \A i, j \in 1..Len(<<>>) : <<>>[i] = <<>>[j] => i = j
    OBVIOUS
  <2>5. Good(<<>>)
    BY <2>2, <2>3, <2>4
  <2> HIDE DEF Good
  <2>6. Good(f[0]) /\ Len(f[0]) = 0 /\ 0 \in 0..n
    BY <1>1, <1>3, <2>3, <2>5
  <2> QED
    BY <2>6
<1>5. ASSUME NEW i \in 1..n, i - 1 \in S
      PROVE  i \in S
  <2> DEFINE list == f[i - 1]
             x == CHOOSE y \in set : y \notin ToSet(list)
  <2>1. Good(list) /\ Len(list) = i - 1
    BY <1>5
  <2>2. f[i] = Append(list, x)
    BY <1>3 DEF ListOne
  <2> HIDE DEF list
  <2>3. x \in set /\ x \notin ToSet(list)
    <3>1. ToSet(list) \subseteq set
      BY <2>1 DEF ToSet
    <3>2. ToSet(list) # set
      BY <1>1, <2>1
    <3> QED
      BY <3>1, <3>2
  <2> HIDE DEF x
  <2> DEFINE more == Append(list, x)
  <2>4. /\ more \in Seq(set) /\ Len(more) = Len(list) + 1
        /\ IsFiniteSet(ToSet(more)) /\ Cardinality(ToSet(more)) = Len(more)
        /\ \A j, k \in 1..Len(more) : more[j] = more[k] => j = k
    BY <2>1, <2>3, ListMore
  <2>5. Good(more) /\ Len(more) = i
    <3> HIDE DEF more
    <3> QED
      BY <1>1, <2>1, <2>4
  <2> HIDE DEF Good
  <2>6. Good(f[i]) /\ Len(f[i]) = i /\ i \in 0..n
    BY <1>1, <2>2, <2>5
  <2> QED
    BY <2>6
<1>6. \A i \in 0..n : i \in S
  <2> HIDE DEF S
  <2> QED
    BY <1>1, <1>4, <1>5, UpTo
<1>7. Good(f[n]) /\ Len(f[n]) = n
  <2> HIDE DEF Good
  <2> QED
    BY <1>1, <1>6
<1> DEFINE list == f[n]
<1>8. Listing(set) = list
  BY <1>3
<1>9. /\ Good(list) /\ Len(list) = n
  BY <1>7
<1> HIDE DEF list
<1>10. ToSet(list) = set
  <2>1. ToSet(list) \subseteq set
    BY <1>9 DEF ToSet
  <2> QED
    BY <1>9, <2>1, FS_Subset
<1>11. DOMAIN list = 1..Len(list) /\ Len(list) \in Nat /\ \A i \in 1..Len(list) : list[i] \in set
  BY <1>9
<1>12. \A x \in set : \E i \in 1..Len(list) : list[i] = x
  BY <1>10, <1>11, Members
<1> QED
  BY <1>8, <1>9, <1>11, <1>12 DEF Lists

(* The numbers of a log have a bound.                                         *)
LEMMA NumbersBounded ==
  ASSUME NEW L \in Seq(Event)
  PROVE  \E m \in Nat : \A k \in DOMAIN L :
           L[k].seq \in 0..m /\ (L[k].kind = "edit" => Len(L[k].hunks) \in 0..m)
<1> DEFINE N == Len(L)
           Bound(m, n) == \A k \in 1..n : L[k].seq \in 0..m
                                          /\ (L[k].kind = "edit" => Len(L[k].hunks) \in 0..m)
           S == {n \in 0..N : \E m \in Nat : Bound(m, n)}
<1>1. N \in Nat /\ DOMAIN L = 1..N /\ \A k \in 1..N : L[k] \in Event
  OBVIOUS
<1>2. 0 \in S
  <2>1. Bound(0, 0)
    OBVIOUS
  <2> HIDE DEF Bound
  <2> QED
    BY <1>1, <2>1
<1>3. ASSUME NEW n \in 1..N, n - 1 \in S
      PROVE  n \in S
  <2>1. PICK m \in Nat : Bound(m, n - 1)
    <3> HIDE DEF Bound
    <3> QED
      BY <1>3
  <2> DEFINE s == L[n].seq
             h == IF L[n].kind = "edit" THEN Len(L[n].hunks) ELSE 0
  <2>2. s \in Nat /\ h \in Nat
    <3>1. L[n] \in Event
      BY <1>1
    <3> DEFINE e == L[n]
    <3>2. e \in Event
      BY <3>1
    <3> HIDE DEF e
    <3>3. e.seq \in Nat
      BY <3>2, EventKinds
    <3>4. e.kind = "edit" => Len(e.hunks) \in Nat
      BY <3>2, HunksTyped
    <3> QED
      BY <3>3, <3>4 DEF e
  <2> DEFINE b == m + s + h
  <2>3. b \in Nat /\ s <= b /\ h <= b /\ m <= b
    <3> HIDE DEF s, h
    <3> QED
      BY <2>2
  <2>4. L[n].kind = "edit" => h = Len(L[n].hunks)
    OBVIOUS
  <2>5. ASSUME NEW k \in 1..n
        PROVE  L[k].seq \in 0..b /\ (L[k].kind = "edit" => Len(L[k].hunks) \in 0..b)
    <3> HIDE DEF b, h
    <3>1. CASE k = n
      BY <2>2, <2>3, <2>4, <3>1
    <3>2. CASE k # n
      <4>1. k \in 1..(n - 1)
        BY <1>1, <3>2
      <4>2. L[k].seq \in 0..m /\ (L[k].kind = "edit" => Len(L[k].hunks) \in 0..m)
        BY <2>1, <4>1
      <4>3. \A x \in 0..m : x \in 0..b
        BY <2>3
      <4> QED
        BY <4>2, <4>3
    <3> QED
      BY <3>1, <3>2
  <2>6. Bound(b, n)
    BY <2>5
  <2> HIDE DEF Bound, b
  <2> QED
    BY <1>1, <2>3, <2>6
<1>4. \A n \in 0..N : n \in S
  <2> HIDE DEF S
  <2> QED
    BY <1>1, <1>2, <1>3, UpTo
<1>5. PICK m \in Nat : Bound(m, N)
  <2> HIDE DEF Bound
  <2> QED
    BY <1>1, <1>4
<1> QED
  BY <1>1, <1>5

(* A file has finitely many hunks.                                            *)
LEMMA HunksFinite ==
  ASSUME NEW L \in Seq(Event), NEW p
  PROVE  IsFiniteSet(HunkIds(L, p))
<1>1. PICK m \in Nat : \A k \in DOMAIN L :
        L[k].seq \in 0..m /\ (L[k].kind = "edit" => Len(L[k].hunks) \in 0..m)
  BY NumbersBounded
<1>2. ASSUME NEW h \in HunkIds(L, p)
      PROVE  h \in (0..m) \X (0..m)
  <2>1. PICK k \in DOMAIN L : \E i \in HunksOf(L[k], p) : h = <<L[k].seq, i>>
    BY HunkIdsIs
  <2> DEFINE e == L[k]
  <2>2. PICK i \in HunksOf(e, p) : h = <<e.seq, i>>
    BY <2>1
  <2>3. e \in Event /\ e.seq \in 0..m /\ (e.kind = "edit" => Len(e.hunks) \in 0..m)
    BY <1>1, <2>1
  <2> HIDE DEF e
  <2>4. e.kind = "edit" /\ i \in DOMAIN e.hunks
    BY <2>2 DEF HunksOf, IsEditOf
  <2>5. i \in 0..m
    <3>1. i \in 1..Len(e.hunks) /\ Len(e.hunks) \in 0..m
      BY <2>3, <2>4, HunksTyped
    <3> QED
      BY <3>1
  <2> QED
    BY <2>2, <2>3, <2>5
<1>3. IsFiniteSet(0..m)
  BY FS_Interval
<1>4. IsFiniteSet((0..m) \X (0..m))
  BY <1>3, FS_Product
<1> QED
  BY <1>2, <1>4, FS_Subset

(* The next number is new.                                                    *)
LEMMA NextSeqFresh ==
  ASSUME NEW c, c.events \in Seq(Event)
  PROVE  Fresh(c.events, NextSeq(c)) /\ NextSeq(c) # 0
<1> DEFINE L == c.events
           S == {0} \cup {e.seq : e \in ToSet(L)}
<1>1. PICK m \in Nat : \A k \in DOMAIN L :
        L[k].seq \in 0..m /\ (L[k].kind = "edit" => Len(L[k].hunks) \in 0..m)
  BY NumbersBounded
<1>2. ToSet(L) = {L[k] : k \in DOMAIN L}
  BY Members
<1>3. S \subseteq 0..m /\ 0 \in S /\ \A k \in DOMAIN L : L[k].seq \in S
  BY <1>1, <1>2
<1>4. NextSeq(c) = 1 + Max(S)
  BY DEF NextSeq
<1> HIDE DEF S
<1>5. Max(S) \in S /\ \A i \in S : i <= Max(S)
  BY <1>3, MaxOf
<1>6. Max(S) \in Nat
  <2>1. \A i \in S : i \in Nat
    BY <1>3
  <2> DEFINE x == Max(S)
  <2>2. x \in S
    BY <1>5
  <2> HIDE DEF x
  <2>3. x \in Nat
    BY <2>1, <2>2
  <2> QED
    BY <2>3 DEF x
<1>7. NextSeq(c) \in Nat /\ NextSeq(c) # 0
  BY <1>4, <1>6
<1>8. ASSUME NEW k \in DOMAIN L
      PROVE  L[k].seq # NextSeq(c)
  BY <1>3, <1>4, <1>5, <1>6
<1> QED
  BY <1>7, <1>8 DEF Fresh

-----------------------------------------------------------------------------
(* What the log keeps, from one event to the next.                            *)

(* The hunks a kept hunk was built on were kept.                              *)
KeptHold(L) ==
  \A p \in Paths : \A k \in DOMAIN L : \A i \in HunksOf(L[k], p) :
    <<L[k].seq, i>> \in Decided(L, p, TRUE) => L[k].hunks[i].deps \subseteq Decided(L, p, TRUE)

(* A mark records the files as the log had them.                              *)
Sees(L, e) == \A p \in DOMAIN e.pre \cap Tracked(L) : e.pre[p] = Content(L, p)
MarksSee(L) == \A k \in MarksOf(L) : Sees(Before(L, k), L[k])

(* What holds of a log while decisions are added to it, and between operations.  *)
SoundLog(L) ==
  /\ WellFormed(L)
  /\ MarksSee(L)
  /\ \A k \in MarksOf(L) : KeptHold(Before(L, k))
GoodLog(L) == SoundLog(L) /\ KeptHold(L)

(* An event that fits keeps a log sound.                                      *)
LEMMA SoundLonger ==
  ASSUME NEW L, SoundLog(L), NEW e \in Event, Fits(L, e),
         e.kind = "turn" => KeptHold(L) /\ Sees(L, e)
  PROVE  SoundLog(Append(L, e))
<1> DEFINE M == Append(L, e)
<1>1. L \in Seq(Event) /\ WellFormed(L)
  BY DEF SoundLog, WellFormed
<1>2. WellFormed(M)
  BY <1>1, WellFormedLonger
<1>3. /\ DOMAIN M = DOMAIN L \cup {Len(L) + 1} /\ M[Len(L) + 1] = e
      /\ \A k \in DOMAIN L : M[k] = L[k] /\ k \in 1..(Len(L) + 1)
      /\ Len(L) + 1 \in 1..(Len(L) + 1)
  BY <1>1, Longer
<1>4. /\ \A k \in 1..(Len(L) + 1) : Before(M, k) = Before(L, k)
      /\ Before(L, Len(L) + 1) = L
  BY <1>1, PrefixOfLonger
<1> HIDE DEF M
<1>5. \A k \in MarksOf(L) : Sees(Before(L, k), L[k]) /\ KeptHold(Before(L, k))
  BY DEF SoundLog, MarksSee
<1>6. ASSUME NEW k \in MarksOf(M)
      PROVE  Sees(Before(M, k), M[k]) /\ KeptHold(Before(M, k))
  <2>1. k \in DOMAIN M /\ M[k].kind = "turn"
    BY DEF MarksOf
  <2>2. CASE k \in DOMAIN L
    <3>1. k \in MarksOf(L)
      BY <1>3, <2>1, <2>2 DEF MarksOf
    <3> QED
      BY <1>3, <1>4, <1>5, <2>2, <3>1
  <2>3. CASE k = Len(L) + 1
    BY <1>3, <1>4, <2>1, <2>3
  <2> QED
    BY <1>3, <2>1, <2>2, <2>3
<1> QED
  BY <1>2, <1>6 DEF SoundLog, MarksSee, M

(* A truncated log is sound.                                                  *)
LEMMA SoundPrefix ==
  ASSUME NEW L, SoundLog(L), NEW k \in 1..(Len(L) + 1)
  PROVE  /\ SoundLog(Before(L, k))
         /\ MarksOf(Before(L, k)) = {i \in MarksOf(L) : i < k}
<1> DEFINE M == Before(L, k)
<1>1. L \in Seq(Event) /\ WellFormed(L)
  BY DEF SoundLog, WellFormed
<1>2. WellFormed(M)
  BY <1>1, WellFormedPrefix
<1>3. DOMAIN M = 1..(k - 1) /\ \A i \in 1..(k - 1) : M[i] = L[i] /\ i \in DOMAIN L
  BY <1>1, Prefix
<1>4. DOMAIN L = 1..Len(L) /\ Len(L) \in Nat /\ k \in Nat
  BY <1>1
<1>5. \A i \in 1..(k - 1) : Before(M, i) = Before(L, i)
  <2> TAKE i \in 1..(k - 1)
  <2>1. i \in 1..k
    BY <1>4
  <2> QED
    BY <1>1, <2>1, PrefixOfPrefix
<1> HIDE DEF M
<1>6. MarksOf(M) = {i \in MarksOf(L) : i < k}
  <2>1. \A i : i \in 1..(k - 1) <=> i \in DOMAIN L /\ i < k
    BY <1>3, <1>4
  <2> QED
    BY <1>3, <2>1 DEF MarksOf
<1>7. \A i \in MarksOf(L) : Sees(Before(L, i), L[i]) /\ KeptHold(Before(L, i))
  BY DEF SoundLog, MarksSee
<1>8. ASSUME NEW i \in MarksOf(M)
      PROVE  Sees(Before(M, i), M[i]) /\ KeptHold(Before(M, i))
  <2>1. i \in MarksOf(L) /\ i \in 1..(k - 1)
    BY <1>3, <1>6 DEF MarksOf
  <2> QED
    BY <1>3, <1>5, <1>7, <2>1
<1> QED
  BY <1>2, <1>6, <1>8 DEF SoundLog, MarksSee, M

(* The hunks a kept hunk was built on stay kept when nothing more is kept.    *)
LEMMA KeptHoldLonger ==
  ASSUME NEW L, WellFormed(L), KeptHold(L), NEW e \in Event, Fits(L, e),
         e.kind = "decide" => e.keep = FALSE
  PROVE  KeptHold(Append(L, e))
<1> DEFINE M == Append(L, e)
<1>1. L \in Seq(Event)
  BY DEF WellFormed
<1>2. /\ DOMAIN M = DOMAIN L \cup {Len(L) + 1} /\ M[Len(L) + 1] = e
      /\ \A k \in DOMAIN L : M[k] = L[k]
  BY <1>1, Longer
<1>3. \A p : Decided(M, p, TRUE) = Decided(L, p, TRUE)
  <2> TAKE p
  <2>1. PICK keep : keep = TRUE
    OBVIOUS
  <2>2. ~(e.kind = "decide" /\ e.path = p /\ e.keep = keep)
    BY <2>1
  <2>3. Decided(M, p, keep) = Decided(L, p, keep)
    BY <1>1, <2>2, DecidedLonger
  <2> HIDE DEF M
  <2> QED
    BY <2>1, <2>3, Zenon
<1> HIDE DEF M
<1>4. ASSUME NEW p \in Paths, NEW k \in DOMAIN M, NEW i \in HunksOf(M[k], p),
             <<M[k].seq, i>> \in Decided(M, p, TRUE)
      PROVE  M[k].hunks[i].deps \subseteq Decided(M, p, TRUE)
  <2>1. CASE k \in DOMAIN L
    BY <1>2, <1>3, <1>4, <2>1 DEF KeptHold
  <2>2. CASE k = Len(L) + 1
    <3>1. <<e.seq, i>> \in HunkIds(L, p)
      BY <1>2, <1>3, <1>4, <2>2, WellFormedIs
    <3>2. \A j \in DOMAIN L : L[j].seq # e.seq
      BY DEF Fits
    <3> QED
      BY <3>1, <3>2, FreshHunks
  <2> QED
    BY <1>2, <2>1, <2>2
<1> QED
  BY <1>4 DEF KeptHold, M

(* A file the log knows is in one of its marks.                               *)
LEMMA MarkOfTracked ==
  ASSUME NEW L, WellFormed(L), NEW p \in Tracked(L)
  PROVE  \E k \in MarksOf(L) : p \in DOMAIN L[k].pre
<1> DEFINE S == {k \in DOMAIN L : Knows(L[k], p)}
<1>1. L \in Seq(Event) /\ DOMAIN L = 1..Len(L) /\ Len(L) \in Nat
  BY DEF WellFormed
<1>2. S # {} /\ S \subseteq Nat
  BY <1>1, TrackedIs
<1>3. PICK k \in S : \A j \in S : k <= j
  <2> HIDE DEF S
  <2> QED
    BY <1>2, Least
<1>4. CASE IsEditOf(L[k], p)
  <2>1. p \in Tracked(Before(L, k))
    BY <1>4 DEF WellFormed, Fits, FitsEdit, IsEditOf
  <2>2. k \in 1..(Len(L) + 1)
    BY <1>1
  <2>3. DOMAIN Before(L, k) = 1..(k - 1) /\ \A i \in 1..(k - 1) : Before(L, k)[i] = L[i] /\ i \in DOMAIN L
    BY <1>1, <2>2, Prefix
  <2>4. PICK i \in 1..(k - 1) : Knows(L[i], p) /\ i \in DOMAIN L
    BY <2>1, <2>3, TrackedIs
  <2>5. k <= i
    BY <1>3, <2>4
  <2> QED
    BY <1>1, <2>4, <2>5
<1>5. CASE L[k].kind = "turn" /\ p \in DOMAIN L[k].pre
  BY <1>5 DEF MarksOf
<1> QED
  BY <1>4, <1>5 DEF Knows

(* A log that grows between turns: events other than marks are added.         *)
Grows(L, M) ==
  /\ L \in Seq(Event) /\ M \in Seq(Event) /\ Len(L) <= Len(M)
  /\ \A k \in 1..Len(L) : M[k] = L[k]
  /\ \A k \in (Len(L) + 1)..Len(M) : M[k].kind # "turn"

LEMMA GrowsBy ==
  ASSUME NEW L \in Seq(Event), NEW e \in Event, e.kind # "turn"
  PROVE  Grows(L, L) /\ Grows(L, Append(L, e))
<1> DEFINE M == Append(L, e)
<1>1. /\ M \in Seq(Event) /\ Len(M) = Len(L) + 1 /\ Len(L) \in Nat /\ M[Len(L) + 1] = e
      /\ \A k \in 1..Len(L) : M[k] = L[k]
  BY Longer
<1> HIDE DEF M
<1>2. \A k \in (Len(L) + 1)..Len(M) : k = Len(L) + 1
  BY <1>1
<1>3. Grows(L, L)
  BY DEF Grows
<1> QED
  BY <1>1, <1>2, <1>3 DEF Grows, M

LEMMA GrowsOn ==
  ASSUME NEW L, NEW M, NEW N, Grows(L, M), Grows(M, N)
  PROVE  Grows(L, N)
<1>1. Len(L) \in Nat /\ Len(M) \in Nat /\ Len(N) \in Nat /\ Len(L) <= Len(M) /\ Len(M) <= Len(N)
  BY DEF Grows
<1>2. ASSUME NEW k \in 1..Len(L)
      PROVE  N[k] = L[k]
  <2>1. k \in 1..Len(M)
    BY <1>1
  <2> QED
    BY <2>1 DEF Grows
<1>3. ASSUME NEW k \in (Len(L) + 1)..Len(N)
      PROVE  N[k].kind # "turn"
  <2>1. k \in 1..Len(M) \/ k \in (Len(M) + 1)..Len(N)
    BY <1>1
  <2>2. CASE k \in 1..Len(M)
    <3>1. k \in (Len(L) + 1)..Len(M)
      BY <1>1, <2>2
    <3> QED
      BY <2>2, <3>1 DEF Grows
  <2> QED
    BY <2>1, <2>2 DEF Grows
<1> QED
  BY <1>1, <1>2, <1>3 DEF Grows

(* It keeps its marks, what was before them, and the files it knows.          *)
LEMMA GrowsIs ==
  ASSUME NEW L, NEW M, Grows(L, M), WellFormed(M)
  PROVE  /\ MarksOf(M) = MarksOf(L)
         /\ \A k \in MarksOf(L) : M[k] = L[k] /\ Before(M, k) = Before(L, k)
         /\ Tracked(M) = Tracked(L)
         /\ \A id : EventIndexOfTurn(M, id) = EventIndexOfTurn(L, id)
<1>1. /\ L \in Seq(Event) /\ M \in Seq(Event) /\ Len(L) \in Nat /\ Len(M) \in Nat /\ Len(L) <= Len(M)
      /\ DOMAIN L = 1..Len(L) /\ DOMAIN M = 1..Len(M)
  BY DEF Grows
<1>2. /\ \A k \in 1..Len(L) : M[k] = L[k]
      /\ \A k \in (Len(L) + 1)..Len(M) : M[k].kind # "turn"
  BY DEF Grows
<1>3. MarksOf(M) = MarksOf(L)
  <2>1. \A k \in MarksOf(L) : k \in MarksOf(M)
    BY <1>1, <1>2 DEF MarksOf
  <2>2. ASSUME NEW k \in MarksOf(M)
        PROVE  k \in MarksOf(L)
    <3>1. k \in 1..Len(M) /\ M[k].kind = "turn"
      BY <1>1 DEF MarksOf
    <3>2. k \in 1..Len(L) \/ k \in (Len(L) + 1)..Len(M)
      BY <1>1, <3>1
    <3>3. k \in 1..Len(L)
      BY <1>2, <3>1, <3>2
    <3> QED
      BY <1>1, <1>2, <3>1, <3>3 DEF MarksOf
  <2> QED
    BY <2>1, <2>2
<1>4. \A k \in MarksOf(L) : M[k] = L[k] /\ k \in 1..Len(L)
  BY <1>1, <1>2 DEF MarksOf
<1>5. ASSUME NEW k \in MarksOf(L)
      PROVE  Before(M, k) = Before(L, k)
  <2> DEFINE s == Before(M, k)
             t == Before(L, k)
  <2>1. k \in 1..(Len(L) + 1) /\ k \in 1..(Len(M) + 1)
    BY <1>1, <1>4
  <2>2. s \in Seq(Event) /\ Len(s) = k - 1 /\ \A i \in 1..(k - 1) : s[i] = M[i]
    BY <1>1, <2>1, Prefix
  <2>3. t \in Seq(Event) /\ Len(t) = k - 1 /\ \A i \in 1..(k - 1) : t[i] = L[i]
    BY <1>1, <2>1, Prefix
  <2> HIDE DEF s, t
  <2>4. \A i \in 1..(k - 1) : i \in 1..Len(L)
    BY <1>1, <2>1
  <2>5. \A i \in 1..(k - 1) : s[i] = t[i]
    BY <1>2, <2>2, <2>3, <2>4
  <2>6. s = t
    BY <2>2, <2>3, <2>5, SeqEqual
  <2> QED
    BY <2>6 DEF s, t
<1>6. Tracked(M) = Tracked(L)
  <2>1. ASSUME NEW p \in Tracked(M)
        PROVE  p \in Tracked(L)
    <3>1. PICK k \in MarksOf(M) : p \in DOMAIN M[k].pre
      BY MarkOfTracked
    <3>2. k \in DOMAIN L /\ Knows(L[k], p)
      BY <1>3, <1>4, <3>1 DEF MarksOf, Knows
    <3> QED
      BY <3>2, TrackedIs
  <2>2. ASSUME NEW p \in Tracked(L)
        PROVE  p \in Tracked(M)
    <3>1. PICK k \in DOMAIN L : Knows(L[k], p)
      BY TrackedIs
    <3>2. k \in DOMAIN M /\ M[k] = L[k]
      BY <1>1, <1>2
    <3> QED
      BY <3>1, <3>2, TrackedIs
  <2> QED
    BY <2>1, <2>2
<1>7. \A id : EventIndexOfTurn(M, id) = EventIndexOfTurn(L, id)
  <2> TAKE id
  <2>1. /\ {i \in MarksOf(M) : M[i].turnId = id} = {i \in MarksOf(L) : L[i].turnId = id}
        /\ {i \in MarksOf(M) : M[i].turnId > id} = {i \in MarksOf(L) : L[i].turnId > id}
    BY <1>3, <1>4
  <2> QED
    BY <2>1, Zenon DEF EventIndexOfTurn
<1> QED
  BY <1>3, <1>4, <1>5, <1>6, <1>7

-----------------------------------------------------------------------------
(* Dependencies.                                                              *)

(* The hunks of the events up to one, in a longer log.                        *)
LEMMA HunkIdsUpTo ==
  ASSUME NEW L \in Seq(Event), NEW k \in 1..Len(L), NEW p, NEW h
  PROVE  h \in HunkIds(Before(L, k + 1), p) <=>
           h \in HunkIds(Before(L, k), p) \/ \E i \in HunksOf(L[k], p) : h = <<L[k].seq, i>>
<1>1. Len(L) \in Nat /\ k \in 1..(Len(L) + 1) /\ k + 1 \in 1..(Len(L) + 1)
  OBVIOUS
<1>2. DOMAIN Before(L, k) = 1..(k - 1) /\ \A i \in 1..(k - 1) : Before(L, k)[i] = L[i]
  BY <1>1, Prefix
<1>3. DOMAIN Before(L, k + 1) = 1..k /\ \A i \in 1..k : Before(L, k + 1)[i] = L[i]
  <2>1. k + 1 - 1 = k
    BY <1>1
  <2> DEFINE m == k + 1
  <2>2. DOMAIN Before(L, m) = 1..(m - 1) /\ \A i \in 1..(m - 1) : Before(L, m)[i] = L[i]
    BY <1>1, Prefix
  <2> QED
    BY <2>1, <2>2
<1>4. h \in HunkIds(Before(L, k), p) <=> \E i \in 1..(k - 1) : \E j \in HunksOf(L[i], p) : h = <<L[i].seq, j>>
  BY <1>2, HunkIdsIs
<1>5. h \in HunkIds(Before(L, k + 1), p) <=> \E i \in 1..k : \E j \in HunksOf(L[i], p) : h = <<L[i].seq, j>>
  BY <1>3, HunkIdsIs
<1>6. \A i : i \in 1..k <=> i \in 1..(k - 1) \/ i = k
  BY <1>1
<1> QED
  BY <1>4, <1>5, <1>6

(* A hunk built on a reverted one is reverted.                                *)
LEMMA RevertedDrags ==
  ASSUME NEW L, WellFormed(L), NEW p, NEW k \in DOMAIN L, NEW i \in HunksOf(L[k], p),
         L[k].hunks[i].deps \cap Reverted(L, p) # {}
  PROVE  <<L[k].seq, i>> \in Reverted(L, p)
<1> DEFINE N == Len(L)
           e == L[k]
           Old == HunkIds(Before(L, k), p)
<1>1. L \in Seq(Event) /\ N \in Nat /\ DOMAIN L = 1..N
  BY DEF WellFormed
<1>2. PICK f : RevertedPass(f, L, p)
  BY <1>1, RevertedUnrolls
<1>3. /\ f[0] = Decided(L, p, FALSE) /\ \A j \in 1..N : f[j] = Drag(L[j], p, f[j - 1])
      /\ Reverted(L, p) = f[N]
  BY <1>2 DEF RevertedPass
<1>4. \A j \in 1..N : f[j - 1] \subseteq f[j]
  BY <1>3 DEF Drag
<1>5. e.kind = "edit" /\ e.path = p /\ i \in DOMAIN e.hunks
  BY DEF HunksOf, IsEditOf
<1>6. e.hunks[i].deps \subseteq Old
  BY <1>5 DEF WellFormed, Fits, FitsEdit
<1>7. \A j \in DOMAIN L : L[j].seq = e.seq => j = k
  BY WellFormedIs
<1> DEFINE S == {j \in 0..N : j < k \/ f[j] \cap Old \subseteq f[k - 1]}
           T == {j \in 0..N : j < k \/ f[k] \subseteq f[j]}
<1>8. ASSUME NEW j \in 1..N, j - 1 \in S
      PROVE  j \in S
  <2>1. k \in 1..N /\ k \in Nat /\ j \in Nat
    BY <1>1
  <2>2. CASE j < k
    BY <1>1, <2>2
  <2>3. CASE ~(j < k)
    <3>1. \A h \in Old : ~\E n \in HunksOf(L[j], p) : h = <<L[j].seq, n>>
      <4> TAKE h \in Old
      <4>1. PICK m \in DOMAIN Before(L, k) : \E n \in HunksOf(Before(L, k)[m], p) : h = <<Before(L, k)[m].seq, n>>
        BY HunkIdsIs
      <4>2. k \in 1..(N + 1)
        BY <2>1
      <4>3. m \in 1..(k - 1) /\ Before(L, k)[m] = L[m] /\ m \in DOMAIN L
        BY <1>1, <4>1, <4>2, Prefix
      <4>4. m # j
        BY <2>1, <2>3, <4>3
      <4>5. L[m].seq # L[j].seq
        BY <1>1, <4>3, <4>4, WellFormedIs
      <4> QED
        BY <4>1, <4>3, <4>5
    <3>2. f[j] = f[j - 1] \cup {<<L[j].seq, n>> : n \in {x \in HunksOf(L[j], p) : L[j].hunks[x].deps \cap f[j - 1] # {}}}
      BY <1>3 DEF Drag
    <3>3. f[j] \cap Old \subseteq f[j - 1]
      BY <3>1, <3>2
    <3>4. f[j - 1] \cap Old \subseteq f[k - 1]
      <4>1. CASE j = k
        BY <4>1
      <4>2. CASE j # k
        <5>1. ~(j - 1 < k)
          BY <2>1, <2>3, <4>2
        <5> QED
          BY <1>8, <5>1
      <4> QED
        BY <4>1, <4>2
    <3>5. j \in 0..N
      BY <1>1
    <3> QED
      BY <3>3, <3>4, <3>5
  <2> QED
    BY <2>2, <2>3
<1>9. ASSUME NEW j \in 1..N, j - 1 \in T
      PROVE  j \in T
  <2>1. k \in 1..N /\ k \in Nat /\ j \in Nat /\ j \in 0..N
    BY <1>1
  <2>2. CASE j < k
    BY <2>1, <2>2
  <2>3. CASE j = k
    BY <2>1, <2>3
  <2>4. CASE j > k
    <3>1. ~(j - 1 < k)
      BY <2>1, <2>4
    <3>2. f[k] \subseteq f[j - 1]
      BY <1>9, <3>1
    <3> QED
      BY <1>4, <2>1, <3>2
  <2> QED
    BY <2>1, <2>2, <2>3, <2>4
<1>10. 0 \in S /\ 0 \in T
  BY <1>1
<1>11. N \in S /\ N \in T
  <2> HIDE DEF S, T
  <2>1. \A j \in 0..N : j \in S
    BY <1>1, <1>8, <1>10, UpTo
  <2>2. \A j \in 0..N : j \in T
    BY <1>1, <1>9, <1>10, UpTo
  <2> QED
    BY <1>1, <2>1, <2>2
<1>12. ~(N < k)
  BY <1>1
<1>13. f[N] \cap Old \subseteq f[k - 1] /\ f[k] \subseteq f[N]
  BY <1>11, <1>12
<1>14. e.hunks[i].deps \cap f[k - 1] # {}
  BY <1>3, <1>6, <1>13
<1>15. f[k] = Drag(e, p, f[k - 1])
  BY <1>1, <1>3
<1>16. <<e.seq, i>> \in f[k]
  <2> HIDE DEF e, Old
  <2>1. i \in HunksOf(e, p)
    BY <1>5 DEF HunksOf, IsEditOf
  <2> QED
    BY <1>14, <1>15, <2>1 DEF Drag
<1> QED
  BY <1>3, <1>13, <1>16

(* What is wanted with all it is built on is applied.                         *)
LEMMA ClosedAll ==
  ASSUME NEW L, WellFormed(L), NEW p, NEW wanted,
         \A k \in DOMAIN L : \A i \in HunksOf(L[k], p) :
           <<L[k].seq, i>> \in wanted => L[k].hunks[i].deps \subseteq wanted
  PROVE  wanted \cap HunkIds(L, p) \subseteq Closed(L, p, wanted)
<1> DEFINE N == Len(L)
           Old(j) == HunkIds(Before(L, j), p)
<1>1. L \in Seq(Event) /\ N \in Nat /\ DOMAIN L = 1..N
  BY DEF WellFormed
<1>2. PICK f : ClosedPass(f, L, p, wanted)
  BY <1>1, ClosedUnrolls
<1>3. /\ f[0] = {} /\ \A j \in 1..N : f[j] = Admit(L[j], p, wanted, f[j - 1])
      /\ Closed(L, p, wanted) = f[N]
  BY <1>2 DEF ClosedPass
<1> DEFINE S == {j \in 0..N : wanted \cap Old(j + 1) \subseteq f[j]}
<1>4. 0 \in S
  <2>1. 1 \in 1..(N + 1) /\ 0 + 1 = 1 /\ 0 \in 0..N
    BY <1>1
  <2>2. DOMAIN Before(L, 1) = 1..(1 - 1)
    BY <1>1, <2>1, Prefix
  <2>3. \A h : h \notin Old(1)
    BY <2>2, HunkIdsIs
  <2> QED
    BY <2>1, <2>3
<1>5. ASSUME NEW j \in 1..N, j - 1 \in S
      PROVE  j \in S
  <2> DEFINE e == L[j]
             acc == f[j - 1]
  <2>1. wanted \cap Old(j) \subseteq acc
    <3>1. j - 1 + 1 = j
      BY <1>1
    <3> QED
      BY <1>5, <3>1
  <2>2. \A h : h \in Old(j + 1) <=> h \in Old(j) \/ \E i \in HunksOf(e, p) : h = <<e.seq, i>>
    BY <1>1, HunkIdsUpTo
  <2>3. f[j] = Admit(e, p, wanted, acc)
    BY <1>3
  <2>4. \A i \in HunksOf(e, p) : <<e.seq, i>> \in wanted => e.hunks[i].deps \subseteq wanted
    BY <1>1
  <2>5. \A i \in HunksOf(e, p) : e.hunks[i].deps \subseteq Old(j)
    <3> TAKE i \in HunksOf(e, p)
    <3>1. e.kind = "edit" /\ e.path = p /\ i \in DOMAIN e.hunks
      BY DEF HunksOf, IsEditOf
    <3>2. FitsEdit(Before(L, j), e)
      BY <1>1, <3>1 DEF WellFormed, Fits
    <3> QED
      BY <3>1, <3>2 DEF FitsEdit
  <2> HIDE DEF e, acc, Old
  <2>6. acc \subseteq f[j]
    BY <2>3 DEF Admit
  <2>7. \A i \in HunksOf(e, p) : <<e.seq, i>> \in wanted => <<e.seq, i>> \in f[j]
    <3> TAKE i \in HunksOf(e, p)
    <3> HAVE <<e.seq, i>> \in wanted
    <3>1. e.hunks[i].deps \subseteq acc
      BY <2>1, <2>4, <2>5
    <3> QED
      BY <2>3, <3>1 DEF Admit
  <2>8. wanted \cap Old(j + 1) \subseteq f[j]
    BY <2>1, <2>2, <2>6, <2>7
  <2>9. j \in 0..N
    BY <1>1
  <2> QED
    BY <2>8, <2>9
<1>6. N \in S
  <2>1. \A j \in 0..N : j \in S
    <3> HIDE DEF S
    <3> QED
      BY <1>1, <1>4, <1>5, UpTo
  <2> QED
    BY <1>1, <2>1
<1>7. Old(N + 1) = HunkIds(L, p)
  <2>1. Before(L, N + 1) = L
    <3>1. N + 1 - 1 = N
      BY <1>1
    <3> QED
      BY <1>1, <3>1, SubSeqFull DEF Before
  <2> QED
    BY <2>1
<1> QED
  BY <1>3, <1>6, <1>7

(* A hunk the user kept has all it was built on in the baseline.              *)
LEMMA KeptAccepted ==
  ASSUME NEW L, WellFormed(L), KeptHold(L), NEW p \in Paths
  PROVE  Kept(L, p) \subseteq Accepted(L, p)
<1> DEFINE K == Kept(L, p)
           D == Decided(L, p, TRUE)
           R == Reverted(L, p)
<1>1. K = D \ R /\ D \subseteq HunkIds(L, p)
  BY WellFormedIs DEF Kept
<1> HIDE DEF K, D, R
<1>2. ASSUME NEW k \in DOMAIN L, NEW i \in HunksOf(L[k], p), <<L[k].seq, i>> \in K
      PROVE  L[k].hunks[i].deps \subseteq K
  <2>1. L[k].hunks[i].deps \subseteq D
    BY <1>1, <1>2 DEF KeptHold, D
  <2>2. L[k].hunks[i].deps \cap R = {}
    BY <1>1, <1>2, RevertedDrags DEF R
  <2> QED
    BY <1>1, <2>1, <2>2
<1>3. K \cap HunkIds(L, p) \subseteq Closed(L, p, K)
  BY <1>2, ClosedAll
<1> QED
  BY <1>1, <1>3 DEF Accepted, K

-----------------------------------------------------------------------------
(* Decisions.                                                                 *)

(* A checkpointer is its log and the number of the open mark.                 *)
IsCp(c) == c = [events |-> c.events, open |-> c.open] /\ c.open \in Nat

LEMMA NewLog ==
  ASSUME NEW c, IsCp(c), NEW L
  PROVE  /\ [c EXCEPT !.events = L] = [events |-> L, open |-> c.open]
         /\ IsCp([c EXCEPT !.events = L])
<1>1. [c EXCEPT !.events = L] = [events |-> L, open |-> c.open]
  BY DEF IsCp
<1>2. IsCp([events |-> L, open |-> c.open])
  BY DEF IsCp
<1> QED
  BY <1>1, <1>2

(* A decision about a hunk of the log fits it.                                *)
LEMMA DecisionFits ==
  ASSUME NEW L, NEW s, Fresh(L, s), NEW p \in Paths, NEW h \in HunkIds(L, p),
         h \in Nat \X Nat, NEW keep \in BOOLEAN, NEW e, e = Decide(s, p, h, keep)
  PROVE  /\ e \in Event /\ Fits(L, e)
         /\ e.kind = "decide" /\ e.path = p /\ e.hunk = h /\ e.keep = keep
<1>1. /\ e = [kind |-> "decide", seq |-> s, path |-> p, hunk |-> h, keep |-> keep]
      /\ s \in Nat
  BY DEF Decide, Fresh
<1>2. e \in Decisions
  BY <1>1 DEF Decisions
<1>3. /\ e.kind = "decide" /\ e.path = p /\ e.hunk = h /\ e.seq = s
  BY <1>1
<1>4. e.keep = keep
  BY <1>1
<1>5. Fits(L, e)
  BY <1>3 DEF Fits, Fresh
<1> QED
  BY <1>2, <1>3, <1>4, <1>5 DEF Event

(* The later events of a log that grows are decisions one way, or edits.      *)
LaterDecisions(L, M, keep) ==
  \A k \in (Len(L) + 1)..Len(M) : M[k].kind = "decide" /\ M[k].keep = keep
LaterEdits(L, M) == \A k \in (Len(L) + 1)..Len(M) : M[k].kind = "edit"

LEMMA LaterOn ==
  ASSUME NEW L, NEW M, NEW N, Grows(L, M), Grows(M, N), NEW keep
  PROVE  /\ LaterDecisions(L, M, keep) /\ LaterDecisions(M, N, keep) => LaterDecisions(L, N, keep)
         /\ LaterEdits(L, M) /\ LaterEdits(M, N) => LaterEdits(L, N)
<1>1. /\ Len(L) \in Nat /\ Len(M) \in Nat /\ Len(N) \in Nat /\ Len(M) <= Len(N)
      /\ \A k \in 1..Len(M) : N[k] = M[k]
  BY DEF Grows
<1>2. \A k \in (Len(L) + 1)..Len(N) :
        k \in (Len(M) + 1)..Len(N) \/ (k \in (Len(L) + 1)..Len(M) /\ N[k] = M[k])
  BY <1>1
<1> QED
  BY <1>2 DEF LaterDecisions, LaterEdits

LEMMA LaterOne ==
  ASSUME NEW L \in Seq(Event), NEW e \in Event
  PROVE  /\ \A keep : LaterDecisions(L, L, keep) /\ LaterEdits(L, L)
         /\ \A keep : e.kind = "decide" /\ e.keep = keep => LaterDecisions(L, Append(L, e), keep)
         /\ e.kind = "edit" => LaterEdits(L, Append(L, e))
<1> DEFINE M == Append(L, e)
<1>1. Len(M) = Len(L) + 1 /\ Len(L) \in Nat /\ M[Len(L) + 1] = e
  BY Longer
<1> HIDE DEF M
<1>2. \A k \in (Len(L) + 1)..Len(M) : M[k] = e
  BY <1>1
<1>3. (Len(L) + 1)..Len(L) = {}
  BY <1>1
<1>4. \A keep : LaterDecisions(L, L, keep) /\ LaterEdits(L, L)
  BY <1>3 DEF LaterDecisions, LaterEdits
<1>5. \A keep : e.kind = "decide" /\ e.keep = keep => LaterDecisions(L, M, keep)
  BY <1>2 DEF LaterDecisions
<1>6. e.kind = "edit" => LaterEdits(L, M)
  BY <1>2 DEF LaterEdits
<1> QED
  BY <1>4, <1>5, <1>6 DEF M

(* The log M is the log L with decisions about the hunks H of p.              *)
Decides(L, M, p, H, keep) ==
  /\ SoundLog(M) /\ Grows(L, M)
  /\ LaterDecisions(L, M, keep)
  /\ \A q : HunkIds(M, q) = HunkIds(L, q)
  /\ ~keep => KeptHold(M)
  /\ keep => /\ Decided(M, p, TRUE) = Decided(L, p, TRUE) \cup H
             /\ \A q : q # p => Decided(M, q, TRUE) = Decided(L, q, TRUE)
             /\ \A q \in Tracked(L) : Content(M, q) = Content(L, q)

(* No decision yet.                                                           *)
LEMMA DecidesNone ==
  ASSUME NEW L, GoodLog(L), NEW p, NEW keep
  PROVE  Decides(L, L, p, {}, keep)
<1>1. L \in Seq(Event)
  BY DEF GoodLog, SoundLog, WellFormed
<1>2. Grows(L, L)
  BY <1>1 DEF Grows
<1>3. \A k \in (Len(L) + 1)..Len(L) : FALSE
  BY <1>1
<1> QED
  BY <1>2, <1>3 DEF Decides, GoodLog, LaterDecisions

(* One decision more.                                                         *)
LEMMA DecidesMore ==
  ASSUME NEW L, NEW M, NEW p \in Paths, NEW H, NEW keep \in BOOLEAN, Decides(L, M, p, H, keep),
         NEW h \in HunkIds(L, p), NEW s, Fresh(M, s)
  PROVE  Decides(L, Append(M, Decide(s, p, h, keep)), p, H \cup {h}, keep)
<1> DEFINE dec == Decide(s, p, h, keep)
<1>0. PICK e : e = dec
  OBVIOUS
<1> DEFINE N == Append(M, e)
<1>1. /\ M \in Seq(Event) /\ WellFormed(M) /\ SoundLog(M) /\ Grows(L, M) /\ Len(L) \in Nat
      /\ L \in Seq(Event)
  BY DEF Decides, SoundLog, WellFormed, Grows
<1>2. h \in HunkIds(M, p) /\ h \in Nat \X Nat
  <2>1. h \in HunkIds(M, p)
    BY DEF Decides
  <2> QED
    BY <1>1, <2>1, LogNames
<1>3. /\ e \in Event /\ Fits(M, e)
      /\ e.kind = "decide" /\ e.path = p /\ e.hunk = h /\ e.keep = keep
  BY <1>0, <1>2, DecisionFits
<1>4. /\ N \in Seq(Event) /\ Len(N) = Len(M) + 1 /\ Len(M) \in Nat /\ N[Len(M) + 1] = e
      /\ \A k \in 1..Len(M) : N[k] = M[k]
  BY <1>1, <1>3, Longer
<1>5. SoundLog(N) /\ WellFormed(N)
  <2>1. SoundLog(N)
    BY <1>1, <1>3, SoundLonger
  <2> QED
    BY <2>1 DEF SoundLog
<1>6. Grows(L, N)
  BY <1>1, <1>3, GrowsBy, GrowsOn
<1>7. \A q : HunkIds(N, q) = HunkIds(L, q)
  <2> TAKE q
  <2>1. HunkIds(N, q) = HunkIds(M, q) \cup {<<e.seq, i>> : i \in HunksOf(e, q)}
    BY <1>1, <1>3, HunkIdsLonger
  <2>2. HunksOf(e, q) = {}
    BY <1>3 DEF HunksOf, IsEditOf
  <2>3. HunkIds(M, q) = HunkIds(L, q)
    BY DEF Decides
  <2> HIDE DEF N
  <2> QED
    BY <2>1, <2>2, <2>3
<1>8. ASSUME ~keep
      PROVE  KeptHold(N)
  <2>1. KeptHold(M)
    BY <1>8 DEF Decides
  <2>2. e.kind = "decide" => e.keep = FALSE
    BY <1>3, <1>8
  <2> QED
    BY <1>1, <1>3, <2>1, <2>2, KeptHoldLonger
<1>9. ASSUME keep
      PROVE  /\ Decided(N, p, TRUE) = Decided(L, p, TRUE) \cup (H \cup {h})
             /\ \A q : q # p => Decided(N, q, TRUE) = Decided(L, q, TRUE)
             /\ \A q \in Tracked(L) : Content(N, q) = Content(L, q)
  <2>1. e.keep = TRUE
    BY <1>3, <1>9
  <2>2. PICK yes : yes = TRUE
    OBVIOUS
  <2>3. PICK no : no = FALSE
    OBVIOUS
  <2>4. Decided(N, p, yes) = Decided(M, p, yes) \cup {h}
    <3>1. e.kind = "decide" /\ e.path = p /\ e.keep = yes
      BY <1>3, <2>1, <2>2
    <3> QED
      BY <1>1, <1>3, <3>1, DecidedLonger
  <2>5. ASSUME NEW q, q # p
        PROVE  Decided(N, q, yes) = Decided(M, q, yes)
    <3>1. ~(e.kind = "decide" /\ e.path = q /\ e.keep = yes)
      BY <1>3, <2>5
    <3> QED
      BY <1>1, <1>3, <3>1, DecidedLonger
  <2>6. ASSUME NEW q
        PROVE  Decided(N, q, no) = Decided(M, q, no)
    <3>1. ~(e.kind = "decide" /\ e.path = q /\ e.keep = no)
      BY <2>1, <2>3
    <3> QED
      BY <1>1, <1>3, <3>1, DecidedLonger
  <2>7. Tracked(M) = Tracked(L)
    BY <1>1, GrowsIs
  <2>8. ASSUME NEW q \in Tracked(M)
        PROVE  Content(N, q) = Content(M, q)
    <3>1. ~IsEditOf(e, q)
      BY <1>3 DEF IsEditOf
    <3>2. Decided(N, q, FALSE) = Decided(M, q, FALSE)
      <4> HIDE DEF N
      <4> QED
        BY <2>3, <2>6, Zenon
    <3> QED
      BY <1>1, <1>3, <3>1, <3>2, QuietEvent
  <2>9. /\ Decided(M, p, TRUE) = Decided(L, p, TRUE) \cup H
        /\ \A q : q # p => Decided(M, q, TRUE) = Decided(L, q, TRUE)
        /\ \A q \in Tracked(L) : Content(M, q) = Content(L, q)
    BY <1>9 DEF Decides
  <2> HIDE DEF N
  <2>10. Decided(N, p, TRUE) = Decided(M, p, TRUE) \cup {h}
    BY <2>2, <2>4, Zenon
  <2>11. \A q : q # p => Decided(N, q, TRUE) = Decided(L, q, TRUE)
    BY <2>2, <2>5, <2>9, Zenon
  <2>12. Decided(N, p, TRUE) = Decided(L, p, TRUE) \cup (H \cup {h})
    <3> DEFINE x == Decided(N, p, TRUE)
               y == Decided(M, p, TRUE)
               z == Decided(L, p, TRUE)
    <3>1. x = y \cup {h} /\ y = z \cup H
      BY <2>9, <2>10
    <3> HIDE DEF x, y, z
    <3>2. x = z \cup (H \cup {h})
      BY <3>1
    <3> QED
      BY <3>2 DEF x, z
  <2>13. \A q \in Tracked(L) : Content(N, q) = Content(L, q)
    BY <2>7, <2>8, <2>9
  <2> QED
    BY <2>11, <2>12, <2>13
<1>10. LaterDecisions(L, N, keep)
  <2>1. LaterDecisions(M, N, keep)
    BY <1>1, <1>3, LaterOne
  <2>2. Grows(M, N)
    BY <1>1, <1>3, GrowsBy
  <2>3. LaterDecisions(L, M, keep)
    BY DEF Decides
  <2> HIDE DEF N
  <2> QED
    BY <1>1, <2>1, <2>2, <2>3, LaterOn
<1>11. Decides(L, N, p, H \cup {h}, keep)
  <2> HIDE DEF N
  <2> QED
    BY <1>5, <1>6, <1>7, <1>8, <1>9, <1>10 DEF Decides
<1> QED
  BY <1>0, <1>11

(* The hunks a KEEP accepts are pending, and built on kept hunks and on one another.  *)
LEMMA KeptWithCloses ==
  ASSUME NEW L, WellFormed(L), NEW p, NEW hunks
  PROVE  LET T == KeptWith(L, p, hunks) IN
         /\ T \subseteq HunkIds(L, p)
         /\ \A k \in DOMAIN L : \A i \in HunksOf(L[k], p) :
              <<L[k].seq, i>> \in T => L[k].hunks[i].deps \subseteq Decided(L, p, TRUE) \cup T
<1> DEFINE T == KeptWith(L, p, hunks)
           pending == Pending(L, p)
           Own(S) == /\ hunks \cap pending \subseteq S
                     /\ \A e \in ToSet(L) : \A i \in HunksOf(e, p) :
                          <<e.seq, i>> \in S => e.hunks[i].deps \cap pending \subseteq S
<1>1. T = {h \in pending : \A S \in SUBSET pending : Own(S) => h \in S}
  BY DEF KeptWith
<1>2. \A k \in DOMAIN L : L[k] \in ToSet(L)
  BY Members
<1> HIDE DEF T
<1>3. ASSUME NEW k \in DOMAIN L, NEW i \in HunksOf(L[k], p), <<L[k].seq, i>> \in T
      PROVE  L[k].hunks[i].deps \cap pending \subseteq T
  <2>1. SUFFICES ASSUME NEW d \in L[k].hunks[i].deps \cap pending, NEW S \in SUBSET pending, Own(S)
                 PROVE  d \in S
    BY <1>1
  <2>2. <<L[k].seq, i>> \in S
    <3> HIDE DEF Own
    <3> QED
      BY <1>1, <1>3, <2>1
  <2> QED
    BY <1>2, <2>1, <2>2
<1>4. T \subseteq pending
  BY <1>1
<1> DEFINE D == Decided(L, p, TRUE)
           R == Reverted(L, p)
           A == HunkIds(L, p)
<1>5. pending = A \ (R \cup (D \ R))
  BY DEF Pending, Kept
<1> HIDE DEF pending
<1>6. ASSUME NEW k \in DOMAIN L, NEW i \in HunksOf(L[k], p), <<L[k].seq, i>> \in T
      PROVE  L[k].hunks[i].deps \subseteq D \cup T
  <2> DEFINE e == L[k]
             deps == e.hunks[i].deps
  <2>1. e.kind = "edit" /\ e.path = p /\ i \in DOMAIN e.hunks
    BY DEF HunksOf, IsEditOf
  <2>2. FitsEdit(Before(L, k), e)
    BY <2>1 DEF WellFormed, Fits
  <2>3. deps \subseteq HunkIds(Before(L, k), p)
    BY <2>1, <2>2 DEF FitsEdit
  <2>4. deps \subseteq A
    <3>1. L \in Seq(Event) /\ k \in 1..(Len(L) + 1)
      BY DEF WellFormed
    <3> QED
      BY <2>3, <3>1, PrefixWithin
  <2>5. <<e.seq, i>> \notin R
    BY <1>4, <1>5, <1>6
  <2>6. deps \cap R = {}
    BY <2>5, RevertedDrags
  <2>7. deps \cap pending \subseteq T
    BY <1>3, <1>6
  <2> HIDE DEF deps, A, R, D
  <2> QED
    BY <1>5, <2>4, <2>6, <2>7 DEF deps
<1>7. T \subseteq A
  BY <1>4, <1>5
<1> QED
  BY <1>6, <1>7 DEF T

(* After all the decisions of a KEEP the kept hunks hold again.               *)
LEMMA DecidesHold ==
  ASSUME NEW L, NEW M, GoodLog(L), NEW p, NEW T, Decides(L, M, p, T, TRUE),
         \A k \in DOMAIN L : \A i \in HunksOf(L[k], p) :
           <<L[k].seq, i>> \in T => L[k].hunks[i].deps \subseteq Decided(L, p, TRUE) \cup T
  PROVE  KeptHold(M)
<1> DEFINE D(q) == Decided(L, q, TRUE)
           E(q) == Decided(M, q, TRUE)
<1>1. /\ E(p) = D(p) \cup T /\ \A q : q # p => E(q) = D(q)
  BY DEF Decides
<1>2. ASSUME NEW k \in DOMAIN M, NEW q, HunksOf(M[k], q) # {}
      PROVE  k \in DOMAIN L /\ M[k] = L[k]
  <2>1. M[k].kind = "edit"
    BY <1>2 DEF HunksOf, IsEditOf
  <2>2. /\ Len(L) \in Nat /\ Len(M) \in Nat /\ k \in 1..Len(M) /\ DOMAIN L = 1..Len(L)
        /\ \A j \in 1..Len(L) : M[j] = L[j]
    BY DEF Decides, Grows
  <2>3. k \notin (Len(L) + 1)..Len(M)
    BY <2>1 DEF Decides, LaterDecisions
  <2>4. k \in 1..Len(L)
    BY <2>2, <2>3
  <2> QED
    BY <2>2, <2>4
<1>3. ASSUME NEW q \in Paths, NEW k \in DOMAIN M, NEW i \in HunksOf(M[k], q), <<M[k].seq, i>> \in E(q)
      PROVE  M[k].hunks[i].deps \subseteq E(q)
  <2>1. k \in DOMAIN L /\ M[k] = L[k]
    BY <1>2
  <2>2. <<L[k].seq, i>> \in D(q) => L[k].hunks[i].deps \subseteq D(q)
    BY <2>1 DEF GoodLog, KeptHold
  <2>3. CASE q # p
    BY <1>1, <1>3, <2>1, <2>2, <2>3
  <2>4. CASE q = p
    <3>1. <<L[k].seq, i>> \in T => L[k].hunks[i].deps \subseteq D(p) \cup T
      BY <2>1, <2>4
    <3> HIDE DEF D, E
    <3> QED
      BY <1>1, <1>3, <2>1, <2>2, <2>4, <3>1
  <2> QED
    BY <2>3, <2>4
<1> QED
  BY <1>3 DEF KeptHold

(* What a review leaves of a checkpointer: decisions are added; those of an approval
   change no file.                                                            *)
Reviewed(c, d, keep) ==
  /\ IsCp(d) /\ d.open = c.open
  /\ GoodLog(d.events) /\ Grows(c.events, d.events)
  /\ LaterDecisions(c.events, d.events, keep)
  /\ \A q : HunkIds(d.events, q) = HunkIds(c.events, q)
  /\ keep => \A q \in Tracked(c.events) : Content(d.events, q) = Content(c.events, q)

(* Some hunks of a file are decided.                                          *)
LEMMA HunksDecided ==
  ASSUME NEW c, IsCp(c), GoodLog(c.events), NEW p \in Paths, NEW keep \in BOOLEAN,
         NEW hunks \in SUBSET HunkIds(c.events, p)
  PROVE  Reviewed(c, DecideHunks(c, p, hunks, keep), keep)
<1> DEFINE L == c.events
           T == Targets(c, p, hunks, keep)
           seq == Listing(T)
           n == Len(seq)
<1>0. L \in Seq(Event) /\ WellFormed(L)
  BY DEF GoodLog, SoundLog, WellFormed
<1>1. T \subseteq HunkIds(L, p)
  <2>1. KeptWith(L, p, hunks) \subseteq HunkIds(L, p)
    BY <1>0, KeptWithCloses
  <2> QED
    BY <2>1 DEF Targets
<1>2. IsFiniteSet(T)
  BY <1>0, <1>1, HunksFinite, FS_Subset
<1> HIDE DEF T
<1>3. Lists(seq, T)
  BY <1>2, ListingLists
<1>4. /\ n \in Nat /\ \A i \in 1..n : seq[i] \in T
      /\ \A x \in T : \E i \in 1..n : seq[i] = x
  BY <1>3 DEF Lists
<1>5. PICK f : DecidePass(f, c, p, hunks, keep)
  BY <1>4, DecideUnrolls DEF T
<1>6. /\ f[0] = c /\ \A i \in 1..n : f[i] = RecordDecision(f[i - 1], p, seq[i], keep)
      /\ DecideHunks(c, p, hunks, keep) = f[n]
  BY <1>5 DEF DecidePass, DecideHunks, T
<1> HIDE DEF seq, n
<1> DEFINE So(i) == {seq[j] : j \in 1..i}
           Good(d, H) == IsCp(d) /\ d.open = c.open /\ Decides(L, d.events, p, H, keep)
           S == {i \in 0..n : Good(f[i], So(i))}
<1>7. 0 \in S
  <2>1. So(0) = {}
    OBVIOUS
  <2>2. Good(c, {})
    BY DecidesNone
  <2> HIDE DEF Good, So
  <2> QED
    BY <1>4, <1>6, <2>1, <2>2
<1>8. ASSUME NEW i \in 1..n, i - 1 \in S
      PROVE  i \in S
  <2> DEFINE d == f[i - 1]
             h == seq[i]
             e == Decide(NextSeq(d), p, h, keep)
  <2>1. Good(d, So(i - 1)) /\ i \in Nat /\ i \in 0..n
    <3> HIDE DEF Good
    <3> QED
      BY <1>4, <1>8
  <2>2. f[i] = [d EXCEPT !.events = Append(@, e)]
    BY <1>6 DEF RecordDecision
  <2>3. h \in HunkIds(L, p)
    BY <1>1, <1>4
  <2> HIDE DEF d, h, e
  <2>4. f[i] = [d EXCEPT !.events = Append(d.events, e)]
    BY <2>2
  <2>5. f[i] = [events |-> Append(d.events, e), open |-> d.open] /\ IsCp(f[i])
    BY <2>1, <2>4, NewLog
  <2>6. Fresh(d.events, NextSeq(d))
    <3>1. d.events \in Seq(Event)
      BY <2>1 DEF Decides, Grows
    <3> QED
      BY <3>1, NextSeqFresh
  <2>7. Decides(L, d.events, p, So(i - 1), keep)
    BY <2>1
  <2>8. So(i) = So(i - 1) \cup {h}
    <3>1. \A j : j \in 1..i <=> j \in 1..(i - 1) \/ j = i
      BY <2>1
    <3> QED
      BY <3>1 DEF h
  <2> HIDE DEF So
  <2>9. Decides(L, Append(d.events, e), p, So(i - 1) \cup {h}, keep)
    BY <2>3, <2>6, <2>7, DecidesMore DEF e
  <2>10. f[i].events = Append(d.events, e) /\ f[i].open = d.open
    BY <2>5
  <2>11. Good(f[i], So(i))
    BY <2>1, <2>5, <2>8, <2>9, <2>10
  <2> HIDE DEF Good
  <2> QED
    BY <2>1, <2>11
<1>9. n \in S
  <2>1. \A i \in 0..n : i \in S
    <3> HIDE DEF S
    <3> QED
      BY <1>4, <1>7, <1>8, UpTo
  <2>2. n \in 0..n
    BY <1>4
  <2> HIDE DEF S
  <2> QED
    BY <2>1, <2>2
<1> DEFINE d == f[n]
<1>10. So(n) = T
  BY <1>4
<1>11. IsCp(d) /\ d.open = c.open /\ Decides(L, d.events, p, T, keep)
  <2>1. Good(d, So(n))
    <3> HIDE DEF Good, So
    <3> QED
      BY <1>9
  <2> HIDE DEF So, d
  <2> QED
    BY <1>10, <2>1
<1> HIDE DEF d
<1>12. KeptHold(d.events)
  <2>1. CASE keep = FALSE
    BY <1>11, <2>1 DEF Decides
  <2>2. CASE keep = TRUE
    <3>1. T = KeptWith(L, p, hunks)
      BY <2>2 DEF Targets, T
    <3>2. \A k \in DOMAIN L : \A i \in HunksOf(L[k], p) :
            <<L[k].seq, i>> \in T => L[k].hunks[i].deps \subseteq Decided(L, p, TRUE) \cup T
      BY <1>0, <3>1, KeptWithCloses
    <3>3. Decides(L, d.events, p, T, TRUE)
      BY <1>11, <2>2
    <3> QED
      BY <3>2, <3>3, DecidesHold
  <2> QED
    BY <2>1, <2>2
<1>13. Reviewed(c, d, keep)
  BY <1>11, <1>12 DEF Reviewed, Decides, GoodLog
<1> QED
  BY <1>6, <1>13 DEF d

(* Reviews follow one another.                                                *)
LEMMA ReviewedNot ==
  ASSUME NEW c, IsCp(c), GoodLog(c.events), NEW keep
  PROVE  Reviewed(c, c, keep)
<1>1. c.events \in Seq(Event)
  BY DEF GoodLog, SoundLog, WellFormed
<1>2. Grows(c.events, c.events)
  BY <1>1 DEF Grows
<1>3. LaterDecisions(c.events, c.events, keep)
  <2>1. Len(c.events) \in Nat
    BY <1>1
  <2> QED
    BY <2>1 DEF LaterDecisions
<1> QED
  BY <1>2, <1>3 DEF Reviewed

LEMMA ReviewedOn ==
  ASSUME NEW c, NEW d, NEW e, NEW keep, Reviewed(c, d, keep), Reviewed(d, e, keep)
  PROVE  Reviewed(c, e, keep)
<1>1. Tracked(d.events) = Tracked(c.events)
  BY GrowsIs DEF Reviewed, GoodLog, SoundLog
<1>2. Grows(c.events, e.events)
  BY GrowsOn DEF Reviewed
<1>3. keep => \A q \in Tracked(c.events) : Content(e.events, q) = Content(c.events, q)
  BY <1>1 DEF Reviewed
<1>4. /\ IsCp(e) /\ e.open = c.open /\ GoodLog(e.events)
      /\ \A q : HunkIds(e.events, q) = HunkIds(c.events, q)
  BY DEF Reviewed
<1>5. LaterDecisions(c.events, e.events, keep)
  BY LaterOn DEF Reviewed
<1> QED
  BY <1>2, <1>3, <1>4, <1>5 DEF Reviewed

(* What a decision can name: hunks of files of the log.                       *)
Decidable(L, one) ==
  /\ DOMAIN one \subseteq Tracked(L)
  /\ \A p \in DOMAIN one : one[p] \subseteq HunkIds(L, p)

(* The log knows finitely many files.                                         *)
LEMMA TrackedFinite ==
  ASSUME NEW L \in Seq(Event), NEW S \in SUBSET Tracked(L)
  PROVE  IsFiniteSet(S) /\ S \subseteq Paths
<1>1. S \subseteq Paths
  BY LogNames
<1>2. IsFiniteSet(Paths)
  BY CheckpointsAssumption
<1> QED
  BY <1>1, <1>2, FS_Subset

(* The hunks of several files are decided.                                    *)
LEMMA TargetDecided ==
  ASSUME NEW c, IsCp(c), GoodLog(c.events), NEW keep \in BOOLEAN,
         NEW one, Decidable(c.events, one)
  PROVE  Reviewed(c, DecideTarget(c, one, keep), keep)
<1> DEFINE set == DOMAIN one
           seq == Listing(set)
           n == Len(seq)
<1>0. c.events \in Seq(Event) /\ WellFormed(c.events)
  BY DEF GoodLog, SoundLog, WellFormed
<1>1. IsFiniteSet(set) /\ set \subseteq Paths
  BY <1>0, TrackedFinite DEF Decidable
<1>2. n \in Nat /\ \A i \in 1..n : seq[i] \in set
  <2> HIDE DEF set
  <2> QED
    BY <1>1, ListingLists DEF Lists
<1>3. PICK f : TargetPass(f, c, one, keep)
  BY <1>2, TargetUnrolls
<1>4. /\ f[0] = c /\ \A i \in 1..n : f[i] = DecideHunks(f[i - 1], seq[i], one[seq[i]], keep)
      /\ DecideTarget(c, one, keep) = f[n]
  BY <1>3 DEF TargetPass
<1> HIDE DEF seq, n
<1> DEFINE S == {i \in 0..n : Reviewed(c, f[i], keep)}
<1>5. 0 \in S
  <2>1. Reviewed(c, f[0], keep)
    BY <1>4, ReviewedNot
  <2>2. 0 \in 0..n
    BY <1>2
  <2> QED
    BY <2>1, <2>2
<1>6. ASSUME NEW i \in 1..n, i - 1 \in S
      PROVE  i \in S
  <2> DEFINE d == f[i - 1]
             p == seq[i]
  <2>1. Reviewed(c, d, keep) /\ i \in 0..n
    BY <1>2, <1>6
  <2>2. p \in set /\ p \in Paths
    BY <1>1, <1>2
  <2>3. f[i] = DecideHunks(d, p, one[p], keep)
    BY <1>4
  <2> HIDE DEF d, p
  <2>4. IsCp(d) /\ GoodLog(d.events) /\ HunkIds(d.events, p) = HunkIds(c.events, p)
    BY <2>1 DEF Reviewed
  <2>5. one[p] \subseteq HunkIds(d.events, p)
    BY <2>2, <2>4 DEF Decidable
  <2>6. Reviewed(d, f[i], keep)
    BY <2>2, <2>3, <2>4, <2>5, HunksDecided
  <2>7. Reviewed(c, f[i], keep)
    BY <2>1, <2>6, ReviewedOn
  <2> QED
    BY <2>1, <2>7
<1>7. n \in S
  <2>1. \A i \in 0..n : i \in S
    <3> HIDE DEF S
    <3> QED
      BY <1>2, <1>5, <1>6, UpTo
  <2>2. n \in 0..n
    BY <1>2
  <2> HIDE DEF S
  <2> QED
    BY <2>1, <2>2
<1>8. Reviewed(c, f[n], keep)
  BY <1>7
<1> QED
  BY <1>4, <1>8

(* A whole ask is decided.                                                    *)
Askable(L, ask) == Len(ask) \in Nat /\ \A k \in 1..Len(ask) : Decidable(L, ask[k])

LEMMA AskDecided ==
  ASSUME NEW c, IsCp(c), GoodLog(c.events), NEW keep \in BOOLEAN,
         NEW ask, Askable(c.events, ask)
  PROVE  Reviewed(c, Outcome(c, ask, keep), keep)
<1> DEFINE n == Len(ask)
<1>2. n \in Nat /\ \A i \in 1..n : Decidable(c.events, ask[i])
  BY DEF Askable
<1>3. PICK f : OutcomePass(f, c, ask, keep)
  BY <1>2, OutcomeUnrolls
<1>4. /\ f[0] = c /\ \A i \in 1..n : f[i] = DecideTarget(f[i - 1], ask[i], keep)
      /\ Outcome(c, ask, keep) = f[n]
  BY <1>3 DEF OutcomePass
<1> HIDE DEF n
<1> DEFINE S == {i \in 0..n : Reviewed(c, f[i], keep)}
<1>5. 0 \in S
  <2>1. Reviewed(c, f[0], keep)
    BY <1>4, ReviewedNot
  <2>2. 0 \in 0..n
    BY <1>2
  <2> QED
    BY <2>1, <2>2
<1>6. ASSUME NEW i \in 1..n, i - 1 \in S
      PROVE  i \in S
  <2> DEFINE d == f[i - 1]
             one == ask[i]
  <2>1. Reviewed(c, d, keep) /\ i \in 0..n
    BY <1>2, <1>6
  <2>2. Decidable(c.events, one)
    BY <1>2
  <2>3. f[i] = DecideTarget(d, one, keep)
    BY <1>4
  <2> HIDE DEF d, one
  <2>4. IsCp(d) /\ GoodLog(d.events) /\ \A q : HunkIds(d.events, q) = HunkIds(c.events, q)
    BY <2>1 DEF Reviewed
  <2>5. Tracked(d.events) = Tracked(c.events)
    BY <2>1, GrowsIs DEF Reviewed, GoodLog, SoundLog
  <2>6. Decidable(d.events, one)
    BY <2>2, <2>4, <2>5 DEF Decidable
  <2>7. Reviewed(d, f[i], keep)
    BY <2>3, <2>4, <2>6, TargetDecided
  <2>8. Reviewed(c, f[i], keep)
    BY <2>1, <2>7, ReviewedOn
  <2> QED
    BY <2>1, <2>8
<1>7. n \in S
  <2>1. \A i \in 0..n : i \in S
    <3> HIDE DEF S
    <3> QED
      BY <1>2, <1>5, <1>6, UpTo
  <2>2. n \in 0..n
    BY <1>2
  <2> HIDE DEF S
  <2> QED
    BY <2>1, <2>2
<1>8. Reviewed(c, f[n], keep)
  BY <1>7
<1> QED
  BY <1>4, <1>8

(* The turns of a log.                                                        *)
LEMMA TurnIdsTyped ==
  ASSUME NEW L \in Seq(Event)
  PROVE  TurnIds(L) \in Seq(Nat)
<1> DEFINE N == Len(L)
<1>1. N \in Nat /\ \A i \in 1..N : L[i] \in Event
  OBVIOUS
<1>2. PICK f : TurnIdsPass(f, L)
  BY <1>1, TurnIdsUnrolls
<1>3. f[0] = <<>> /\ (\A i \in 1..N : f[i] = AddTurn(f[i - 1], L[i])) /\ TurnIds(L) = f[N]
  BY <1>2 DEF TurnIdsPass
<1> HIDE DEF N
<1> DEFINE S == {i \in 0..N : f[i] \in Seq(Nat)}
<1>4. 0 \in S
  <2>1. f[0] \in Seq(Nat) /\ 0 \in 0..N
    BY <1>1, <1>3
  <2> QED
    BY <2>1
<1>5. ASSUME NEW i \in 1..N, i - 1 \in S
      PROVE  i \in S
  <2> DEFINE e == L[i]
             turns == f[i - 1]
  <2>1. e \in Event /\ turns \in Seq(Nat) /\ f[i] = AddTurn(turns, e) /\ i \in 0..N
    BY <1>1, <1>3, <1>5
  <2> HIDE DEF e, turns
  <2>2. e.kind = "turn" => e.turnId \in Nat
    BY <2>1, MarkFields
  <2>3. f[i] \in Seq(Nat)
    BY <2>1, <2>2 DEF AddTurn
  <2> QED
    BY <2>1, <2>3
<1>6. \A i \in 0..N : i \in S
  <2> HIDE DEF S
  <2> QED
    BY <1>1, <1>4, <1>5, UpTo
<1>7. f[N] \in Seq(Nat)
  BY <1>1, <1>6
<1> QED
  BY <1>3, <1>7

(* Every ask is about hunks of the log.                                       *)
LEMMA AsksTyped ==
  ASSUME NEW L \in Seq(Event), NEW ask \in Asks(L)
  PROVE  Askable(L, ask)
<1> DEFINE pending == [p \in Tracked(L) |-> Pending(L, p)]
           Of(owner) == [p \in Tracked(L) |-> pending[p] \cap Owned(L, p, owner)]
           owners == {e.owner : e \in {x \in ToSet(L) : x.kind = "edit"}}
           turns == TurnIds(L)
           front == AcceptedTurnFrontier(L)
           fresh == SubSeq(turns, front + 1, Len(turns))
<1>1. \A p : Pending(L, p) \subseteq HunkIds(L, p)
  BY DEF Pending
<1>2. Decidable(L, pending)
  BY <1>1 DEF Decidable
<1>3. \A o : Decidable(L, Of(o))
  BY <1>1 DEF Decidable
<1>4. \A one : Decidable(L, one) => Askable(L, <<one>>)
  <2> TAKE one
  <2>1. Len(<<one>>) = 1 /\ <<one>>[1] = one
    OBVIOUS
  <2>2. \A k \in 1..1 : k = 1
    OBVIOUS
  <2> QED
    BY <2>1, <2>2 DEF Askable
<1>5. ASSUME NEW p \in Tracked(L), NEW h \in HunkIds(L, p)
      PROVE  Askable(L, <<[q \in {p} |-> {h}]>>)
  <2>1. Decidable(L, [q \in {p} |-> {h}])
    BY DEF Decidable
  <2> QED
    BY <1>4, <2>1
<1>6. ASSUME NEW p \in Tracked(L)
      PROVE  Askable(L, <<[q \in {p} |-> pending[p]]>>)
  <2>1. Decidable(L, [q \in {p} |-> pending[p]])
    BY <1>1 DEF Decidable
  <2> QED
    BY <1>4, <2>1
<1>7. ASSUME NEW p \in Tracked(L), NEW o
      PROVE  Askable(L, <<[q \in {p} |-> Of(o)[p]]>>)
  <2>1. Decidable(L, [q \in {p} |-> Of(o)[p]])
    BY <1>1 DEF Decidable
  <2> QED
    BY <1>4, <2>1
<1>8. Len(fresh) \in Nat
  <2>1. turns \in Seq(Nat)
    BY TurnIdsTyped
  <2> HIDE DEF turns
  <2>2. front \in Nat
    <3> DEFINE open == {i \in DOMAIN turns : ~OwnerIsKept(L, ByTurn(turns[i]))}
    <3>1. open \subseteq Nat \ {0} /\ Len(turns) \in Nat
      BY <2>1
    <3>2. front = IF open = {} THEN Len(turns) ELSE Min(open) - 1
      BY DEF AcceptedTurnFrontier, turns
    <3> HIDE DEF open, front
    <3>3. CASE open = {}
      BY <3>1, <3>2, <3>3
    <3>4. CASE open # {}
      <4>1. open \subseteq Nat
        BY <3>1
      <4>2. Min(open) \in open
        BY <3>4, <4>1, MinOf
      <4>3. Min(open) \in Nat \ {0}
        BY <3>1, <4>2
      <4> QED
        BY <3>2, <3>4, <4>3
    <3> QED
      BY <3>3, <3>4
  <2> HIDE DEF front
  <2>3. Len(turns) \in Nat /\ front + 1 \in Nat
    BY <2>1, <2>2
  <2>4. fresh \in Seq(Nat)
    BY <2>1, <2>2, <2>3
  <2> HIDE DEF fresh
  <2> QED
    BY <2>4
<1>9. ASSUME NEW n \in 1..Len(fresh)
      PROVE  Askable(L, [k \in 1..n |-> Of(ByTurn(fresh[Len(fresh) - n + k]))])
  <2> DEFINE a == [k \in 1..n |-> Of(ByTurn(fresh[Len(fresh) - n + k]))]
  <2>1. n \in Nat
    <3> HIDE DEF fresh
    <3> QED
      BY <1>8
  <2>2. Len(a) = n
    <3> DEFINE G(k) == Of(ByTurn(fresh[Len(fresh) - n + k]))
    <3> HIDE DEF G
    <3>1. Len([k \in 1..n |-> G(k)]) = n
      BY <2>1
    <3> QED
      BY <3>1 DEF G
  <2>3. \A k \in 1..n : Decidable(L, a[k])
    <3> TAKE k \in 1..n
    <3>1. a[k] = Of(ByTurn(fresh[Len(fresh) - n + k]))
      OBVIOUS
    <3> HIDE DEF a, Of
    <3> QED
      BY <1>3, <3>1
  <2> HIDE DEF a
  <2>4. Askable(L, a)
    BY <2>1, <2>2, <2>3 DEF Askable
  <2> QED
    BY <2>4 DEF a
<1> DEFINE One(p, h) == <<[q \in {p} |-> {h}]>>
           OfFile(p) == <<[q \in {p} |-> pending[p]]>>
           OfBoth(p, o) == <<[q \in {p} |-> Of(o)[p]]>>
           Last_(n) == [k \in 1..n |-> Of(ByTurn(fresh[Len(fresh) - n + k]))]
<1>10. ask \in (UNION {{One(p, h) : h \in HunkIds(L, p)} : p \in Tracked(L)})
               \cup {OfFile(p) : p \in Tracked(L)}
               \cup {<<pending>>}
               \cup {<<Of(o)>> : o \in owners}
               \cup (UNION {{OfBoth(p, o) : o \in owners} : p \in Tracked(L)})
               \cup {Last_(n) : n \in 1..Len(fresh)}
  BY DEF Asks
<1>11. /\ \A p \in Tracked(L) : \A h \in HunkIds(L, p) : Askable(L, One(p, h))
       /\ \A p \in Tracked(L) : Askable(L, OfFile(p))
       /\ \A p \in Tracked(L) : \A o : Askable(L, OfBoth(p, o))
       /\ \A n \in 1..Len(fresh) : Askable(L, Last_(n))
  BY <1>5, <1>6, <1>7, <1>9
<1> HIDE DEF pending, Of, owners, fresh, One, OfFile, OfBoth, Last_
<1>12. CASE ask \in UNION {{One(p, h) : h \in HunkIds(L, p)} : p \in Tracked(L)}
  BY <1>11, <1>12
<1>13. CASE ask \in {OfFile(p) : p \in Tracked(L)}
  BY <1>11, <1>13
<1>14. CASE ask = <<pending>>
  BY <1>2, <1>4, <1>14
<1>15. CASE ask \in {<<Of(o)>> : o \in owners}
  BY <1>3, <1>4, <1>15
<1>16. CASE ask \in UNION {{OfBoth(p, o) : o \in owners} : p \in Tracked(L)}
  BY <1>11, <1>16
<1>17. CASE ask \in {Last_(n) : n \in 1..Len(fresh)}
  BY <1>11, <1>17
<1> QED
  BY <1>10, <1>12, <1>13, <1>14, <1>15, <1>16, <1>17

-----------------------------------------------------------------------------
(* Edits.                                                                     *)

(* The log M is the log L after an edit that leaves p as `after` says.        *)
EditedLog(L, M, p, after) ==
  /\ GoodLog(M) /\ Grows(L, M) /\ LaterEdits(L, M)
  /\ Content(M, p) = after
  /\ \A q \in Tracked(L) : q # p => Content(M, q) = Content(L, q)

LEMMA LogEdited ==
  ASSUME NEW L, GoodLog(L), NEW p \in Tracked(L), NEW s, Fresh(L, s),
         NEW owner \in Owners, NEW after \in State, Content(L, p) # after
  PROVE  EditedLog(L, Append(L, Edit(L, s, owner, p, Content(L, p), after)), p, after)
<1> DEFINE edit == Edit(L, s, owner, p, Content(L, p), after)
<1>0. PICK e : e = edit
  OBVIOUS
<1> DEFINE M == Append(L, e)
<1>1. SoundLog(L) /\ WellFormed(L) /\ KeptHold(L) /\ L \in Seq(Event)
  BY DEF GoodLog, SoundLog, WellFormed
<1>2. e \in Event /\ Fits(L, e) /\ e.kind = "edit" /\ e.path = p
  BY <1>0, <1>1, NewEdit
<1>3. GoodLog(M)
  <2>1. SoundLog(M)
    BY <1>1, <1>2, SoundLonger
  <2>2. KeptHold(M)
    BY <1>1, <1>2, KeptHoldLonger
  <2> QED
    BY <2>1, <2>2 DEF GoodLog
<1>4. Grows(L, M)
  BY <1>1, <1>2, GrowsBy
<1>5. Content(M, p) = after
  BY <1>0, <1>1, NewEditGivesAfter
<1>6. ASSUME NEW q \in Tracked(L), q # p
      PROVE  Content(M, q) = Content(L, q)
  <2>1. ~IsEditOf(e, q)
    BY <1>2, <1>6 DEF IsEditOf
  <2>2. Decided(M, q, FALSE) = Decided(L, q, FALSE)
    BY <1>1, <1>2, DecidedWith
  <2> QED
    BY <1>1, <1>2, <2>1, <2>2, QuietEvent
<1>7. LaterEdits(L, M)
  BY <1>1, <1>2, LaterOne
<1>8. EditedLog(L, M, p, after)
  <2> HIDE DEF M
  <2> QED
    BY <1>3, <1>4, <1>5, <1>6, <1>7 DEF EditedLog
<1> QED
  BY <1>0, <1>8

(* A checkpointer d that edits some of the files of c.                        *)
Edited(c, d) ==
  /\ IsCp(d) /\ d.open = c.open
  /\ GoodLog(d.events) /\ Grows(c.events, d.events) /\ LaterEdits(c.events, d.events)

(* d is c with an edit that leaves p as `after` says.                         *)
OneEdit(c, d, p, after) ==
  /\ Edited(c, d)
  /\ Content(d.events, p) = after
  /\ \A q \in Tracked(c.events) : q # p => Content(d.events, q) = Content(c.events, q)

LEMMA EditAppended ==
  ASSUME NEW c, IsCp(c), GoodLog(c.events), NEW p \in Tracked(c.events),
         NEW owner \in Owners, NEW after \in State, NEW before, before = Content(c.events, p),
         NEW d, d = AppendEdit(c, owner, p, before, after)
  PROVE  OneEdit(c, d, p, after)
<1> DEFINE L == c.events
<1>1. L \in Seq(Event)
  BY DEF GoodLog, SoundLog, WellFormed
<1>2. CASE before = after
  <2>1. d = c
    BY <1>2 DEF AppendEdit
  <2>2. Grows(L, L) /\ LaterEdits(L, L)
    <3>1. Len(L) \in Nat
      BY <1>1
    <3> QED
      BY <1>1, <3>1 DEF Grows, LaterEdits
  <2> QED
    BY <1>2, <2>1, <2>2 DEF Edited, OneEdit
<1>3. CASE before # after
  <2> DEFINE M == Append(L, Edit(L, NextSeq(c), owner, p, before, after))
  <2>1. d = [c EXCEPT !.events = M]
    BY <1>3 DEF AppendEdit
  <2>2. EditedLog(L, M, p, after)
    <3>1. Fresh(L, NextSeq(c))
      BY <1>1, NextSeqFresh
    <3> QED
      BY <1>3, <3>1, LogEdited
  <2> HIDE DEF M
  <2>3. d = [events |-> M, open |-> c.open] /\ IsCp(d)
    BY <2>1, NewLog
  <2>4. d.events = M /\ d.open = c.open
    BY <2>3
  <2> QED
    BY <2>2, <2>3, <2>4 DEF Edited, EditedLog, OneEdit
<1> QED
  BY <1>2, <1>3

LEMMA EditedNot ==
  ASSUME NEW c, IsCp(c), GoodLog(c.events)
  PROVE  Edited(c, c)
<1>1. c.events \in Seq(Event)
  BY DEF GoodLog, SoundLog, WellFormed
<1>2. LaterEdits(c.events, c.events)
  <2>1. Len(c.events) \in Nat
    BY <1>1
  <2> QED
    BY <2>1 DEF LaterEdits
<1> QED
  BY <1>1, <1>2 DEF Edited, Grows

(* Edits follow one another; the log knows the same files.                    *)
LEMMA EditedOn ==
  ASSUME NEW c, NEW d, NEW e, Edited(c, d), Edited(d, e)
  PROVE  Edited(c, e) /\ Tracked(d.events) = Tracked(c.events)
<1>1. Tracked(d.events) = Tracked(c.events)
  BY GrowsIs DEF Edited, GoodLog, SoundLog
<1>2. Grows(c.events, e.events)
  BY GrowsOn DEF Edited
<1>3. LaterEdits(c.events, e.events)
  BY LaterOn DEF Edited
<1> QED
  BY <1>1, <1>2, <1>3 DEF Edited

(* The files done have the content v gives them, the others that they had.    *)
Follows(c, d, v, done) ==
  /\ Edited(c, d)
  /\ \A q \in Tracked(c.events) :
       Content(d.events, q) = IF q \in done THEN v[q] ELSE Content(c.events, q)

LEMMA FollowsMore ==
  ASSUME NEW c, NEW d, NEW v, NEW done, Follows(c, d, v, done),
         NEW p \in Tracked(c.events), NEW owner \in Owners, NEW after \in State, after = v[p],
         NEW before, before = Content(d.events, p),
         NEW e, e = AppendEdit(d, owner, p, before, after)
  PROVE  Follows(c, e, v, done \cup {p})
<1>2. Edited(c, d) /\ IsCp(d) /\ GoodLog(d.events)
  BY DEF Follows, Edited
<1>3. Tracked(d.events) = Tracked(c.events)
  BY <1>2, GrowsIs DEF Edited, GoodLog, SoundLog
<1>4. /\ Edited(d, e) /\ Content(e.events, p) = after
      /\ \A q \in Tracked(d.events) : q # p => Content(e.events, q) = Content(d.events, q)
  <2>1. p \in Tracked(d.events)
    BY <1>3
  <2>2. OneEdit(d, e, p, after)
    BY <1>2, <2>1, EditAppended
  <2> QED
    BY <2>2 DEF OneEdit
<1>5. Edited(c, e)
  BY <1>2, <1>4, EditedOn
<1>6. \A q \in Tracked(c.events) :
        Content(e.events, q) = IF q \in done \cup {p} THEN v[q] ELSE Content(c.events, q)
  BY <1>3, <1>4 DEF Follows
<1> QED
  BY <1>5, <1>6 DEF Follows

(* Files reconciled with the disk.                                            *)
LEMMA FilesReconciled ==
  ASSUME NEW c, IsCp(c), GoodLog(c.events), c.open = 0, disk \in [Paths -> State],
         NEW set \in SUBSET Tracked(c.events)
  PROVE  Follows(c, Each(ReconcilePath, c, set), disk, set)
<1> DEFINE seq == Listing(set)
           n == Len(seq)
<1>0. c.events \in Seq(Event) /\ WellFormed(c.events)
  BY DEF GoodLog, SoundLog, WellFormed
<1>1. IsFiniteSet(set) /\ set \subseteq Paths
  BY <1>0, TrackedFinite
<1>2. /\ n \in Nat /\ \A i \in 1..n : seq[i] \in set
      /\ \A x \in set : \E i \in 1..n : seq[i] = x
  BY <1>1, ListingLists DEF Lists
<1>3. PICK f : ReconcilePass(f, c, set)
  BY <1>2, ReconcileUnrolls
<1>4. /\ f[0] = c /\ \A i \in 1..n : f[i] = ReconcilePath(f[i - 1], seq[i])
      /\ Each(ReconcilePath, c, set) = f[n]
  BY <1>3 DEF ReconcilePass
<1> HIDE DEF seq, n
<1> DEFINE So(i) == {seq[j] : j \in 1..i}
           S == {i \in 0..n : Follows(c, f[i], disk, So(i))}
<1>5. 0 \in S
  <2>1. So(0) = {}
    OBVIOUS
  <2>2. Follows(c, c, disk, {})
    BY EditedNot DEF Follows
  <2> HIDE DEF So
  <2>3. Follows(c, f[0], disk, So(0)) /\ 0 \in 0..n
    BY <1>2, <1>4, <2>1, <2>2
  <2> QED
    BY <2>3
<1>6. ASSUME NEW i \in 1..n, i - 1 \in S
      PROVE  i \in S
  <2> DEFINE d == f[i - 1]
             p == seq[i]
  <2>1. Follows(c, d, disk, So(i - 1)) /\ i \in Nat /\ i \in 0..n
    <3> HIDE DEF So
    <3> QED
      BY <1>2, <1>6
  <2>2. So(i) = So(i - 1) \cup {p}
    <3>1. \A j : j \in 1..i <=> j \in 1..(i - 1) \/ j = i
      BY <2>1
    <3> QED
      BY <3>1
  <2>3. f[i] = ReconcilePath(d, p) /\ p \in Tracked(c.events) /\ p \in Paths
    BY <1>1, <1>2, <1>4
  <2> HIDE DEF So, d, p
  <2>4. d.open = 0 /\ d.events \in Seq(Event)
    BY <2>1 DEF Follows, Edited, GoodLog, SoundLog, WellFormed
  <2> DEFINE seen == Content(d.events, p)
             owner == ByHand(NextSeq(d))
  <2> DEFINE after == disk[p]
             e == f[i]
  <2>5. e = AppendEdit(d, owner, p, seen, after)
    <3>1. \A v : Only({v}) = v
      BY DEF Only
    <3>2. e = Only({AppendEdit(d, owner, p, seen, after)})
      BY <2>3, <2>4 DEF ReconcilePath
    <3> HIDE DEF seen, owner, e, after
    <3> QED
      BY <3>1, <3>2
  <2>6. owner \in Owners
    <3>1. NextSeq(d) \in Nat
      BY <2>4, NextSeqFresh DEF Fresh
    <3> QED
      BY <3>1 DEF Owners, ByHand
  <2> HIDE DEF owner
  <2>7. after \in State
    BY <2>3
  <2>8. Follows(c, e, disk, So(i - 1) \cup {p})
    <3>1. Follows(c, d, disk, So(i - 1)) /\ p \in Tracked(c.events)
      BY <2>1, <2>3
    <3>2. PICK v : v = disk
      OBVIOUS
    <3>3. after = v[p] /\ seen = Content(d.events, p)
      BY <3>2
    <3>4. Follows(c, d, v, So(i - 1))
      BY <3>1, <3>2
    <3> HIDE DEF seen, after, e
    <3>5. Follows(c, e, v, So(i - 1) \cup {p})
      BY <3>1, <3>3, <3>4, <2>5, <2>6, <2>7, FollowsMore
    <3> QED
      BY <3>2, <3>5
  <2>9. Follows(c, f[i], disk, So(i))
    BY <2>2, <2>8
  <2> QED
    BY <2>1, <2>9
<1>7. n \in S
  <2>1. \A i \in 0..n : i \in S
    <3> HIDE DEF S
    <3> QED
      BY <1>2, <1>5, <1>6, UpTo
  <2>2. n \in 0..n
    BY <1>2
  <2> HIDE DEF S
  <2> QED
    BY <2>1, <2>2
<1>8. So(n) = set
  BY <1>2
<1>9. Follows(c, f[n], disk, So(n))
  <2> HIDE DEF So
  <2> QED
    BY <1>7
<1> HIDE DEF So
<1> QED
  BY <1>4, <1>8, <1>9

(* What a turn leaves of a file: what was read of it after the turn, or what it was
   before.                                                                    *)
Ends(mark, post) == [p \in DOMAIN mark.pre |-> IF p \in DOMAIN post THEN post[p] ELSE mark.pre[p]]

Sealing(c, mark, post) ==
  Each(LAMBDA d, p : SealPath(d, mark, post, p), c, DOMAIN mark.pre)

LEMMA TurnSealed ==
  ASSUME NEW c, IsCp(c), GoodLog(c.events), NEW mark, mark.turnId \in Nat,
         DOMAIN mark.pre \subseteq Tracked(c.events),
         \A p \in DOMAIN mark.pre : mark.pre[p] = Content(c.events, p),
         NEW post, \A p \in DOMAIN mark.pre : Ends(mark, post)[p] \in State
  PROVE  Follows(c, Sealing(c, mark, post), Ends(mark, post), DOMAIN mark.pre)
<1> DEFINE set == DOMAIN mark.pre
           seq == Listing(set)
           n == Len(seq)
           v == Ends(mark, post)
<1>0. c.events \in Seq(Event) /\ WellFormed(c.events)
  BY DEF GoodLog, SoundLog, WellFormed
<1>1. IsFiniteSet(set)
  BY <1>0, TrackedFinite
<1>2. Lists(seq, set)
  <2> HIDE DEF set
  <2> QED
    BY <1>1, ListingLists
<1>3. /\ n \in Nat /\ \A i \in 1..n : seq[i] \in set
      /\ \A x \in set : \E i \in 1..n : seq[i] = x
      /\ \A i, j \in 1..n : seq[i] = seq[j] => i = j
  <2> HIDE DEF set
  <2> QED
    BY <1>2 DEF Lists
<1>4. PICK f : SealPass(f, c, mark, post, set)
  BY <1>3, SealUnrolls
<1>5. /\ f[0] = c /\ \A i \in 1..n : f[i] = SealPath(f[i - 1], mark, post, seq[i])
      /\ Each(LAMBDA d, p : SealPath(d, mark, post, p), c, set) = f[n]
  BY <1>4 DEF SealPass
<1>6. \A p \in set : /\ p \in Tracked(c.events) /\ mark.pre[p] = Content(c.events, p)
                     /\ v[p] \in State
                     /\ v[p] = IF p \in DOMAIN post THEN post[p] ELSE mark.pre[p]
  BY DEF Ends
<1> HIDE DEF seq, n, v, set
<1> DEFINE So(i) == {seq[j] : j \in 1..i}
           S == {i \in 0..n : Follows(c, f[i], v, So(i))}
<1>7. 0 \in S
  <2>1. So(0) = {}
    OBVIOUS
  <2>2. Follows(c, c, v, {})
    BY EditedNot DEF Follows
  <2> HIDE DEF So
  <2>3. Follows(c, f[0], v, So(0))
    BY <1>5, <2>1, <2>2
  <2>4. 0 \in 0..n
    BY <1>3
  <2> QED
    BY <2>3, <2>4
<1>8. ASSUME NEW i \in 1..n, i - 1 \in S
      PROVE  i \in S
  <2> DEFINE d == f[i - 1]
             p == seq[i]
             owner == ByTurn(mark.turnId)
  <2>1. Follows(c, d, v, So(i - 1)) /\ i \in Nat /\ i \in 0..n
    <3> HIDE DEF So
    <3> QED
      BY <1>3, <1>8
  <2>2. So(i) = So(i - 1) \cup {p}
    <3>1. \A j : j \in 1..i <=> j \in 1..(i - 1) \/ j = i
      BY <2>1
    <3> QED
      BY <3>1
  <2>3. p \notin So(i - 1)
    <3>1. \A j \in 1..(i - 1) : j \in 1..n /\ j # i
      BY <1>3, <2>1
    <3> QED
      BY <1>3, <3>1
  <2>4. f[i] = SealPath(d, mark, post, p) /\ p \in set
    BY <1>3, <1>5
  <2> HIDE DEF So, d, p
  <2>5. /\ p \in Tracked(c.events) /\ mark.pre[p] = Content(c.events, p) /\ v[p] \in State
        /\ v[p] = IF p \in DOMAIN post THEN post[p] ELSE mark.pre[p]
    BY <1>6, <2>4
  <2>6. mark.pre[p] = Content(d.events, p)
    BY <2>1, <2>3, <2>5 DEF Follows
  <2> DEFINE before == mark.pre[p]
             after == v[p]
             e == f[i]
  <2>7. e = AppendEdit(d, owner, p, before, after)
    BY <2>4, <2>5 DEF SealPath
  <2>8. owner \in Owners
    BY DEF Owners, ByTurn
  <2> HIDE DEF owner
  <2>9. Follows(c, e, v, So(i - 1) \cup {p})
    <3>1. Follows(c, d, v, So(i - 1)) /\ p \in Tracked(c.events) /\ after \in State
      BY <2>1, <2>5
    <3>2. after = v[p] /\ before = Content(d.events, p)
      BY <2>6
    <3> HIDE DEF before, after, e
    <3> QED
      BY <3>1, <3>2, <2>7, <2>8, FollowsMore
  <2>10. Follows(c, f[i], v, So(i))
    BY <2>2, <2>9
  <2> QED
    BY <2>1, <2>10
<1>9. n \in S
  <2>1. \A i \in 0..n : i \in S
    <3> HIDE DEF S
    <3> QED
      BY <1>3, <1>7, <1>8, UpTo
  <2>2. n \in 0..n
    BY <1>3
  <2> HIDE DEF S
  <2> QED
    BY <2>1, <2>2
<1>10. So(n) = set
  BY <1>3
<1>11. Follows(c, f[n], v, So(n))
  <2> HIDE DEF So
  <2> QED
    BY <1>9
<1> HIDE DEF So
<1>12. Follows(c, f[n], v, set)
  BY <1>10, <1>11
<1> QED
  <2>1. Sealing(c, mark, post) = f[n]
    BY <1>5 DEF Sealing, set
  <2> QED
    BY <1>12, <2>1 DEF v, set

-----------------------------------------------------------------------------
(* The mark of the open turn.                                                 *)

(* c is in an open turn, whose mark m follows the log X.                      *)
AtMark(c, X, m) ==
  /\ IsCp(c) /\ c.events = Append(X, m) /\ c.open = m.seq /\ m.seq # 0
  /\ GoodLog(X) /\ m \in Event /\ m.kind = "turn" /\ Fits(X, m) /\ Sees(X, m)

(* The log is a good one, and the open turn's mark is its last event.         *)
LEMMA AtMarkIs ==
  ASSUME NEW c, NEW X, NEW m, AtMark(c, X, m)
  PROVE  /\ GoodLog(c.events) /\ X \in Seq(Event) /\ WellFormed(X)
         /\ Len(c.events) = Len(X) + 1 /\ c.events[Len(X) + 1] = m
         /\ OpenIndex(c) = Len(X) + 1 /\ OpenPre(c) = DOMAIN m.pre
<1>1. X \in Seq(Event) /\ WellFormed(X) /\ SoundLog(X) /\ KeptHold(X)
  BY DEF AtMark, GoodLog, SoundLog, WellFormed
<1>2. m \in Event /\ m.kind = "turn" /\ Fits(X, m) /\ Sees(X, m)
  BY DEF AtMark
<1> DEFINE M == Append(X, m)
           k == Len(X) + 1
<1>3. c.events = M /\ c.open = m.seq /\ m.seq # 0
  BY DEF AtMark
<1>4. Len(M) = k /\ M[k] = m /\ k \in DOMAIN M
  BY <1>1, <1>2, Longer
<1>5. SoundLog(M)
  BY <1>1, <1>2, SoundLonger
<1>6. KeptHold(M)
  BY <1>1, <1>2, KeptHoldLonger
<1>7. \A i, j \in DOMAIN M : M[i].seq = M[j].seq => i = j
  <2>1. WellFormed(M)
    BY <1>5 DEF SoundLog
  <2> HIDE DEF M
  <2> QED
    BY <2>1, WellFormedIs
<1> HIDE DEF M, k
<1>8. OpenIndex(c) = k
  BY <1>3, <1>4, <1>7 DEF OpenIndex
<1>9. OpenPre(c) = DOMAIN m.pre
  BY <1>3, <1>4, <1>8 DEF OpenPre
<1> QED
  BY <1>1, <1>3, <1>4, <1>5, <1>6, <1>8, <1>9 DEF GoodLog, k

(* A mark changes nothing of the files the log knows; a file it records is as it
   records it.                                                                *)
LEMMA MarkContents ==
  ASSUME NEW c, NEW X, NEW m, AtMark(c, X, m)
  PROVE  /\ \A p \in Tracked(X) : Content(c.events, p) = Content(X, p)
         /\ \A p \in DOMAIN m.pre : Content(c.events, p) = m.pre[p]
         /\ \A p : p \in Tracked(c.events) <=> p \in Tracked(X) \/ p \in DOMAIN m.pre
<1>1. X \in Seq(Event) /\ WellFormed(X)
  BY AtMarkIs
<1>2. m \in Event /\ m.kind = "turn" /\ Fits(X, m) /\ Sees(X, m)
  BY DEF AtMark
<1> DEFINE M == Append(X, m)
<1>0. c.events = M
  BY DEF AtMark
<1>3. ASSUME NEW p \in Tracked(X)
      PROVE  Content(c.events, p) = Content(X, p)
  <2>1. ~IsEditOf(m, p) /\ m.kind # "decide"
    BY <1>2 DEF IsEditOf
  <2>2. Decided(M, p, FALSE) = Decided(X, p, FALSE)
    BY <1>1, <1>2, <2>1, DecidedWith
  <2>3. Content(M, p) = Content(X, p)
    BY <1>1, <1>2, <2>1, <2>2, QuietEvent
  <2> QED
    BY <1>0, <2>3
<1>4. ASSUME NEW p \in DOMAIN m.pre
      PROVE  Content(c.events, p) = m.pre[p]
  <2>1. CASE p \in Tracked(X)
    BY <1>2, <1>3, <2>1 DEF Sees
  <2>2. CASE p \notin Tracked(X)
    <3>1. Content(M, p) = m.pre[p]
      BY <1>1, <1>2, <2>2, FirstMark
    <3> QED
      BY <1>0, <3>1
  <2> QED
    BY <2>1, <2>2
<1>5. \A p : p \in Tracked(c.events) <=> p \in Tracked(X) \/ p \in DOMAIN m.pre
  <2>1. \A p : Knows(m, p) <=> p \in DOMAIN m.pre
    BY <1>2 DEF Knows, IsEditOf
  <2>2. \A p : p \in Tracked(M) <=> p \in Tracked(X) \/ Knows(m, p)
    BY <1>1, <1>2, TrackedLonger
  <2> QED
    BY <1>0, <2>1, <2>2
<1> QED
  BY <1>3, <1>4, <1>5

(* An edit is the same before a mark and after it.                            *)
LEMMA EditAtMark ==
  ASSUME NEW X, WellFormed(X), NEW m \in Event, Fits(X, m), m.kind = "turn",
         NEW p \in Tracked(X), NEW s, NEW owner, NEW before, NEW after
  PROVE  Edit(Append(X, m), s, owner, p, before, after) = Edit(X, s, owner, p, before, after)
<1> DEFINE M == Append(X, m)
<1>0. X \in Seq(Event)
  BY DEF WellFormed
<1>1. ~IsEditOf(m, p) /\ m.kind # "decide"
  BY DEF IsEditOf
<1>2. Decided(M, p, FALSE) = Decided(X, p, FALSE)
  BY <1>0, <1>1, DecidedWith
<1>3. Applied(M, p) = Applied(X, p) /\ EditsOf(M, p) = EditsOf(X, p) /\ Now(M, p) = Now(X, p)
  BY <1>1, <1>2, QuietEvent
<1>4. \A e : e \in ToSet(M) /\ IsEditOf(e, p) <=> e \in ToSet(X) /\ IsEditOf(e, p)
  <2>1. /\ DOMAIN X = 1..Len(X) /\ DOMAIN M = 1..(Len(X) + 1) /\ Len(X) \in Nat
        /\ M[Len(X) + 1] = m /\ \A k \in DOMAIN X : M[k] = X[k]
    BY <1>0, Longer
  <2>2. ToSet(M) = {M[k] : k \in DOMAIN M} /\ ToSet(X) = {X[k] : k \in DOMAIN X}
    BY Members
  <2> HIDE DEF M
  <2>3. \A k : k \in DOMAIN M <=> k \in DOMAIN X \/ k = Len(X) + 1
    BY <2>1
  <2>4. \A e : e \in ToSet(M) <=> e \in ToSet(X) \/ e = m
    BY <2>1, <2>2, <2>3
  <2> QED
    BY <1>1, <2>4
<1> HIDE DEF M
<1>5. Barriers(M, p, Applied(M, p)) = Barriers(X, p, Applied(X, p))
  BY <1>3, <1>4 DEF Barriers
<1>6. Provenance(M, p, before, Applied(M, p)) = Provenance(X, p, before, Applied(X, p))
  BY <1>3 DEF Provenance, Now
<1>7. \A r : Deps(M, p, before, after, r) = Deps(X, p, before, after, r)
  BY <1>3, <1>5, <1>6 DEF Deps
<1>8. ComputeDeps(M, p, before, after) = ComputeDeps(X, p, before, after)
  BY <1>7, ComputeDepsIs
<1>9. Edit(M, s, owner, p, before, after) = Edit(X, s, owner, p, before, after)
  BY <1>8 DEF Edit
<1> QED
  BY <1>9 DEF M

(* An insertion, in parts.                                                    *)
LEMMA InsertionIs ==
  ASSUME NEW L, NEW at, NEW x
  PROVE  InsertAt(L, at, x) = SubSeq(L, 1, at - 1) \o <<x>> \o SubSeq(L, at, Len(L))
BY DEF InsertAt

(* An event put before the last.                                              *)
LEMMA InsertedBefore ==
  ASSUME NEW X \in Seq(Event), NEW m \in Event, NEW e \in Event
  PROVE  InsertAt(Append(X, m), Len(X) + 1, e) = Append(Append(X, e), m)
<1> DEFINE M == Append(X, m)
           n == Len(X)
           I == SubSeq(M, 1, n) \o <<e>> \o SubSeq(M, n + 1, n + 1)
           J == Append(Append(X, e), m)
<1>1. M \in Seq(Event) /\ n \in Nat /\ Len(M) = n + 1 /\ M[n + 1] = m
      /\ \A k \in 1..n : M[k] = X[k]
  BY Longer
<1>3. /\ J \in Seq(Event) /\ Len(J) = n + 2 /\ J[n + 2] = m /\ J[n + 1] = e
      /\ \A k \in 1..n : J[k] = X[k]
  BY <1>1
<1> HIDE DEF M, n, J
<1>2. InsertAt(M, n + 1, e) = I
  <2>1. PICK at : at = n + 1
    OBVIOUS
  <2>2. at - 1 = n
    BY <1>1, <2>1
  <2>3. Len(M) = at
    BY <1>1, <2>1
  <2>4. InsertAt(M, at, e) = SubSeq(M, 1, at - 1) \o <<e>> \o SubSeq(M, at, Len(M))
    BY InsertionIs, Zenon
  <2>5. InsertAt(M, at, e) = SubSeq(M, 1, n) \o <<e>> \o SubSeq(M, at, at)
    BY <2>2, <2>3, <2>4, Zenon
  <2> QED
    BY <2>1, <2>5, Zenon DEF I
<1>4. SubSeq(M, 1, n) \in Seq(Event) /\ SubSeq(M, n + 1, n + 1) \in Seq(Event)
  BY <1>1
<1>5. /\ Len(SubSeq(M, 1, n)) = n /\ Len(SubSeq(M, n + 1, n + 1)) = 1
      /\ \A k \in 1..n : SubSeq(M, 1, n)[k] = X[k]
      /\ SubSeq(M, n + 1, n + 1)[1] = m
  BY <1>1
<1>6. I \in Seq(Event) /\ Len(I) = n + 2 /\ I[n + 2] = m /\ I[n + 1] = e
      /\ \A k \in 1..n : I[k] = X[k]
  BY <1>1, <1>4, <1>5
<1> HIDE DEF I
<1>7. \A k \in 1..(n + 2) : I[k] = J[k]
  <2>1. \A k \in 1..(n + 2) : k \in 1..n \/ k = n + 1 \/ k = n + 2
    BY <1>1
  <2> QED
    BY <1>3, <1>6, <2>1
<1>8. I = J
  BY <1>1, <1>3, <1>6, <1>7, SeqEqual
<1> QED
  BY <1>2, <1>8 DEF M, n, J

(* What was changed by hand since the log saw the file goes before the mark.  *)
LEMMA DriftInserted ==
  ASSUME NEW c, NEW X, NEW m, AtMark(c, X, m), NEW p \in Tracked(X), p \notin DOMAIN m.pre,
         NEW v \in State, NEW seen, seen = Content(X, p), seen # v
  PROVE  \E Y : AtMark(InsertBeforeMark(c, p, seen, v), Y, m) /\ EditedLog(X, Y, p, v)
<1> DEFINE s == NextSeq(c)
           owner == ByHand(s)
<1>1. /\ GoodLog(c.events) /\ X \in Seq(Event) /\ WellFormed(X)
      /\ OpenIndex(c) = Len(X) + 1
  BY AtMarkIs
<1>2. /\ m \in Event /\ m.kind = "turn" /\ Fits(X, m) /\ Sees(X, m) /\ c.events = Append(X, m)
      /\ GoodLog(X) /\ IsCp(c) /\ c.open = m.seq /\ m.seq # 0
  BY DEF AtMark
<1>3. s \in Nat /\ Fresh(X, s) /\ m.seq # s
  <2>1. c.events \in Seq(Event)
    BY <1>1 DEF GoodLog, SoundLog, WellFormed
  <2>2. Fresh(c.events, s)
    BY <2>1, NextSeqFresh
  <2>3. /\ \A k \in DOMAIN X : k \in DOMAIN c.events /\ c.events[k] = X[k]
        /\ Len(X) + 1 \in DOMAIN c.events /\ c.events[Len(X) + 1] = m
    BY <1>1, <1>2, Longer
  <2> HIDE DEF s
  <2> QED
    BY <2>2, <2>3 DEF Fresh
<1>4. owner \in Owners
  BY <1>3 DEF Owners, ByHand
<1> HIDE DEF s, owner
<1> DEFINE e == Edit(X, s, owner, p, seen, v)
           Y == Append(X, e)
<1>5. EditedLog(X, Y, p, v)
  BY <1>2, <1>3, <1>4, LogEdited
<1>6. e \in Event /\ e.kind = "edit" /\ e.seq = s
  BY <1>1, <1>3, <1>4, NewEdit
<1>7. Edit(c.events, s, owner, p, seen, v) = e
  BY <1>1, <1>2, EditAtMark
<1> DEFINE d == InsertBeforeMark(c, p, seen, v)
<1>8. d = [c EXCEPT !.events = InsertAt(c.events, Len(X) + 1, e)]
  BY <1>1, <1>7 DEF InsertBeforeMark, s, owner
<1> HIDE DEF d
<1>9. d = [c EXCEPT !.events = Append(Y, m)]
  <2> HIDE DEF e
  <2> QED
    BY <1>1, <1>2, <1>6, <1>8, InsertedBefore
<1>10. d = [events |-> Append(Y, m), open |-> c.open] /\ IsCp(d)
  <2> HIDE DEF Y
  <2> QED
    BY <1>2, <1>9, NewLog
<1>11. Tracked(Y) = Tracked(X) /\ WellFormed(Y) /\ GoodLog(Y)
  <2> HIDE DEF Y
  <2>1. GoodLog(Y) /\ WellFormed(Y) /\ Grows(X, Y)
    BY <1>5 DEF EditedLog, GoodLog, SoundLog
  <2> QED
    BY <2>1, GrowsIs
<1>12. Fits(Y, m)
  <2>1. \A k \in DOMAIN Y : Y[k].seq # m.seq
    <3>1. \A k \in DOMAIN Y : (k \in DOMAIN X /\ Y[k] = X[k]) \/ Y[k] = e
      <4> HIDE DEF e
      <4>1. /\ DOMAIN X = 1..Len(X) /\ DOMAIN Y = 1..(Len(X) + 1) /\ Len(X) \in Nat
            /\ Y[Len(X) + 1] = e /\ \A k \in DOMAIN X : Y[k] = X[k]
        BY <1>1, <1>6, Longer
      <4> QED
        BY <4>1
    <3>2. \A k \in DOMAIN X : X[k].seq # m.seq
      BY <1>2 DEF Fits
    <3> HIDE DEF Y, e
    <3> QED
      BY <1>3, <1>6, <3>1, <3>2
  <2>2. FitsMark(Y, m)
    <3>1. FitsMark(X, m)
      BY <1>2 DEF Fits
    <3> HIDE DEF Y
    <3> QED
      BY <1>11, <3>1 DEF FitsMark
  <2> HIDE DEF Y
  <2> QED
    BY <1>2, <2>1, <2>2 DEF Fits
<1> HIDE DEF Y
<1>13. Sees(Y, m)
  BY <1>2, <1>5, <1>11 DEF Sees, EditedLog
<1>14. AtMark(d, Y, m)
  <2>1. d.events = Append(Y, m) /\ d.open = m.seq
    BY <1>2, <1>10
  <2> QED
    BY <1>2, <1>10, <1>11, <1>12, <1>13, <2>1 DEF AtMark
<1> QED
  BY <1>5, <1>14 DEF d

(* The mark records a file.                                                   *)
LEMMA MarkRecords ==
  ASSUME NEW c, NEW X, NEW m, AtMark(c, X, m), NEW p \in Paths, NEW v \in State,
         p \in Tracked(X) => Content(X, p) = v /\ p \in DOMAIN m.begun /\ m.begun[p] = v,
         NEW f, f = [q \in DOMAIN m.pre \cup {p} |-> IF q = p THEN v ELSE m.pre[q]]
  PROVE  AtMark([c EXCEPT !.events[OpenIndex(c)].pre = f], X,
                [kind |-> "turn", seq |-> m.seq, turnId |-> m.turnId, pre |-> f,
                 begun |-> m.begun])
<1> DEFINE k == Len(X) + 1
           m2 == [kind |-> "turn", seq |-> m.seq, turnId |-> m.turnId, pre |-> f,
                  begun |-> m.begun]
           L2 == [c.events EXCEPT ![k] = m2]
           d == [c EXCEPT !.events[OpenIndex(c)].pre = f]
<1>1. /\ X \in Seq(Event) /\ WellFormed(X) /\ Len(c.events) = k /\ c.events[k] = m
      /\ OpenIndex(c) = k
  BY AtMarkIs
<1>2. /\ m \in Event /\ m.kind = "turn" /\ Fits(X, m) /\ Sees(X, m) /\ c.events = Append(X, m)
      /\ GoodLog(X) /\ IsCp(c) /\ c.open = m.seq /\ m.seq # 0
  BY DEF AtMark
<1>3. /\ m = [kind |-> "turn", seq |-> m.seq, turnId |-> m.turnId, pre |-> m.pre,
              begun |-> m.begun]
      /\ m.seq \in Nat /\ m.turnId \in Nat /\ m.pre \in Known /\ m.begun \in Known
  BY <1>2, MarkFields
<1>4. [m EXCEPT !.pre = f] = m2
  BY <1>3
<1>5. k \in DOMAIN c.events
  BY <1>1, <1>2, Longer
<1>6. [c.events EXCEPT ![k].pre = f] = L2
  <2> HIDE DEF k, m2
  <2> QED
    BY <1>1, <1>4
<1>7. d = [c EXCEPT !.events = L2]
  <2> HIDE DEF k, m2
  <2> QED
    BY <1>1, <1>6
<1>8. f \in Known
  <2>1. DOMAIN m.pre \subseteq Paths /\ \A q \in DOMAIN m.pre : m.pre[q] \in State
    BY <1>3, KnownFields
  <2>2. f \in [DOMAIN m.pre \cup {p} -> State]
    BY <2>1
  <2>3. DOMAIN m.pre \cup {p} \in SUBSET Paths
    BY <2>1
  <2> QED
    BY <2>2, <2>3 DEF Known
<1>9. m2 \in Event
  BY <1>3, <1>8 DEF Event, Marks
<1>10. m2.kind = "turn" /\ m2.seq = m.seq /\ m2.pre = f /\ m2.begun = m.begun
  OBVIOUS
<1> HIDE DEF m2, d
<1>11. L2 = Append(X, m2)
  <2>1. /\ Append(X, m) \in Seq(Event) /\ DOMAIN X = 1..Len(X) /\ Len(X) \in Nat
        /\ \A i \in DOMAIN X : Append(X, m)[i] = X[i]
    BY <1>1, <1>2, Longer
  <2>2. /\ Append(X, m2) \in Seq(Event) /\ Len(Append(X, m2)) = k /\ Append(X, m2)[k] = m2
        /\ \A i \in DOMAIN X : Append(X, m2)[i] = X[i]
    BY <1>1, <1>9, Longer
  <2>3. L2 \in Seq(Event) /\ Len(L2) = k
    BY <1>1, <1>2, <1>9, <2>1
  <2>4. \A i \in 1..k : L2[i] = Append(X, m2)[i]
    <3>1. \A i \in 1..k : i \in DOMAIN X \/ i = k
      BY <2>1
    <3>2. \A i \in DOMAIN X : i # k /\ i \in DOMAIN c.events
      BY <1>1, <1>2, <2>1, Longer
    <3>3. \A i \in DOMAIN X : L2[i] = X[i]
      BY <1>2, <2>1, <3>2
    <3>4. L2[k] = m2
      BY <1>5
    <3> HIDE DEF L2, k
    <3> QED
      BY <2>2, <3>1, <3>3, <3>4
  <2> HIDE DEF L2
  <2> QED
    BY <2>2, <2>3, <2>4, SeqEqual
<1>12. d = [events |-> Append(X, m2), open |-> c.open] /\ IsCp(d)
  <2> HIDE DEF L2
  <2> QED
    BY <1>2, <1>7, <1>11, NewLog
<1>13. Fits(X, m2)
  <2>1. FitsMark(X, m) /\ \A i \in DOMAIN X : X[i].seq # m.seq
    BY <1>2 DEF Fits
  <2>2. FitsMark(X, m2)
    BY <1>10, <2>1 DEF FitsMark
  <2> QED
    BY <1>10, <2>1, <2>2 DEF Fits
<1>14. Sees(X, m2)
  BY <1>2, <1>10 DEF Sees
<1>15. AtMark(d, X, m2)
  <2>1. d.events = Append(X, m2) /\ d.open = m2.seq /\ m2.seq # 0
    BY <1>2, <1>10, <1>12
  <2> QED
    BY <1>2, <1>9, <1>10, <1>12, <1>13, <1>14, <2>1 DEF AtMark
<1> QED
  BY <1>15 DEF d, m2

-----------------------------------------------------------------------------
(* The files a turn records.                                                  *)

(* The mark n is the mark m that records the files done as v has them.        *)
MarkIs(n, m, v, done) ==
  /\ n.seq = m.seq /\ n.turnId = m.turnId /\ n.begun = m.begun
  /\ DOMAIN n.pre = DOMAIN m.pre \cup done
  /\ \A q \in DOMAIN n.pre : n.pre[q] = IF q \in done THEN v[q] ELSE m.pre[q]

(* The log Y, grown from X, has the files done as v has them.                 *)
SeenAs(X, Y, v, done) ==
  /\ Grows(X, Y)
  /\ \A q \in Tracked(X) : Content(Y, q) = IF q \in done THEN v[q] ELSE Content(X, q)

Records(d, X, m, v, done) ==
  \E Y, n : AtMark(d, Y, n) /\ MarkIs(n, m, v, done) /\ SeenAs(X, Y, v, done)

LEMMA RecordsNone ==
  ASSUME NEW c, NEW X, NEW m, AtMark(c, X, m), NEW v
  PROVE  Records(c, X, m, v, {})
<1>1. Grows(X, X)
  BY AtMarkIs DEF Grows
<1>2. SeenAs(X, X, v, {})
  BY <1>1 DEF SeenAs
<1>3. MarkIs(m, m, v, {})
  BY DEF MarkIs
<1> QED
  BY <1>2, <1>3 DEF Records

(* What record_pre_edit does with a file of its first touch.                  *)
Recording(b, p, s) ==
  [b EXCEPT !.events[OpenIndex(b)].pre =
     [q \in DOMAIN (b.events[OpenIndex(b)].pre) \cup {p} |->
        IF q = p THEN s ELSE b.events[OpenIndex(b)].pre[q]]]
Drifted(c, p, seen, s) ==
  IF p \in Tracked(c.events) /\ s # seen THEN InsertBeforeMark(c, p, seen, s) ELSE c

LEMMA RecordIs ==
  ASSUME NEW c, NEW p, p \notin OpenPre(c), NEW s, NEW seen, seen = Content(c.events, p),
         NEW b, b = Drifted(c, p, seen, s)
  PROVE  RecordPreEdit(c, p, s) = Recording(b, p, s)
<1> DEFINE Drift(x) == IF p \in Tracked(c.events) /\ s # x
                       THEN InsertBeforeMark(c, p, x, s) ELSE c
           Recorded(d) == [d EXCEPT !.events[OpenIndex(d)].pre =
                             [q \in DOMAIN @ \cup {p} |-> IF q = p THEN s ELSE @[q]]]
           a == Content(c.events, p)
<1>1. RecordPreEdit(c, p, s) = Only({Recorded(d) : d \in {Drift(x) : x \in {a}}})
  BY DEF RecordPreEdit
<1>2. b = Drift(a)
  BY DEF Drifted
<1>3. Recorded(b) = Recording(b, p, s)
  BY DEF Recording
<1> HIDE DEF Drift, Recorded, a
<1>4. {Drift(x) : x \in {a}} = {b}
  BY <1>2
<1>5. {Recorded(d) : d \in {b}} = {Recorded(b)}
  OBVIOUS
<1>6. Only({Recorded(b)}) = Recorded(b)
  BY DEF Only
<1> QED
  BY <1>1, <1>3, <1>4, <1>5, <1>6

LEMMA RecordOne ==
  ASSUME NEW c, NEW X, NEW m, AtMark(c, X, m), NEW p \in Paths, p \notin DOMAIN m.pre,
         NEW s \in State, p \in Tracked(X) => p \in DOMAIN m.begun /\ m.begun[p] = s,
         NEW d, d = RecordPreEdit(c, p, s)
  PROVE  \E Y, n : /\ AtMark(d, Y, n)
                   /\ n.seq = m.seq /\ n.turnId = m.turnId /\ n.begun = m.begun
                   /\ n.pre = [q \in DOMAIN m.pre \cup {p} |-> IF q = p THEN s ELSE m.pre[q]]
                   /\ Grows(X, Y)
                   /\ p \in Tracked(X) => Content(Y, p) = s
                   /\ \A q \in Tracked(X) : q # p => Content(Y, q) = Content(X, q)
<1> DEFINE f == [q \in DOMAIN m.pre \cup {p} |-> IF q = p THEN s ELSE m.pre[q]]
           n == [kind |-> "turn", seq |-> m.seq, turnId |-> m.turnId, pre |-> f,
                 begun |-> m.begun]
<1>0. PICK seen : seen = Content(c.events, p)
  OBVIOUS
<1>1. PICK b : b = Drifted(c, p, seen, s)
  OBVIOUS
<1>2. \E Y : /\ AtMark(b, Y, m) /\ Grows(X, Y)
             /\ p \in Tracked(X) => Content(Y, p) = s
             /\ \A q \in Tracked(X) : q # p => Content(Y, q) = Content(X, q)
  <2>1. p \in Tracked(c.events) <=> p \in Tracked(X)
    BY MarkContents
  <2>2. CASE p \in Tracked(X) /\ s # seen
    <3>1. seen = Content(X, p)
      BY <1>0, <2>2, MarkContents
    <3>2. b = InsertBeforeMark(c, p, seen, s)
      BY <1>1, <2>1, <2>2 DEF Drifted
    <3>3. PICK Y : AtMark(InsertBeforeMark(c, p, seen, s), Y, m) /\ EditedLog(X, Y, p, s)
      BY <2>2, <3>1, DriftInserted
    <3> QED
      BY <3>2, <3>3 DEF EditedLog
  <2>3. CASE ~(p \in Tracked(X) /\ s # seen)
    <3>1. b = c
      BY <1>1, <2>1, <2>3 DEF Drifted
    <3>2. p \in Tracked(X) => Content(X, p) = s
      BY <1>0, <2>3, MarkContents
    <3>3. Grows(X, X)
      BY AtMarkIs DEF Grows
    <3> QED
      BY <3>1, <3>2, <3>3
  <2> QED
    BY <2>2, <2>3
<1>3. PICK Y : /\ AtMark(b, Y, m) /\ Grows(X, Y)
               /\ p \in Tracked(X) => Content(Y, p) = s
               /\ \A q \in Tracked(X) : q # p => Content(Y, q) = Content(X, q)
  BY <1>2
<1>4. p \notin OpenPre(c)
  BY AtMarkIs
<1>5. b.events[OpenIndex(b)] = m
  BY <1>3, AtMarkIs
<1>6. d = Recording(b, p, s)
  BY <1>0, <1>1, <1>4, RecordIs
<1>7. d = [b EXCEPT !.events[OpenIndex(b)].pre = f]
  BY <1>5, <1>6 DEF Recording
<1>8. p \in Tracked(Y) => Content(Y, p) = s /\ p \in DOMAIN m.begun /\ m.begun[p] = s
  <2>1. WellFormed(Y)
    BY <1>3, AtMarkIs
  <2>2. Tracked(Y) = Tracked(X)
    BY <1>3, <2>1, GrowsIs
  <2> QED
    BY <1>3, <2>2
<1>9. AtMark(d, Y, n)
  <2>1. PICK g : g = f
    OBVIOUS
  <2> HIDE DEF f
  <2> QED
    BY <1>3, <1>7, <1>8, <2>1, MarkRecords DEF f
<1>10. n.seq = m.seq /\ n.turnId = m.turnId /\ n.begun = m.begun /\ n.pre = f
  OBVIOUS
<1> HIDE DEF n
<1> QED
  BY <1>3, <1>9, <1>10

(* One file more.                                                             *)
LEMMA RecordsMore ==
  ASSUME NEW c, NEW X, NEW m, NEW v, NEW done, Records(c, X, m, v, done),
         NEW p \in Paths, p \notin DOMAIN m.pre, p \notin done, NEW s \in State, s = v[p],
         p \in Tracked(X) => p \in DOMAIN m.begun /\ m.begun[p] = s,
         NEW d, d = RecordPreEdit(c, p, s)
  PROVE  Records(d, X, m, v, done \cup {p})
<1>1. PICK Y, n : AtMark(c, Y, n) /\ MarkIs(n, m, v, done) /\ SeenAs(X, Y, v, done)
  BY DEF Records
<1>2. Tracked(Y) = Tracked(X)
  <2>1. WellFormed(Y) /\ Grows(X, Y)
    BY <1>1, AtMarkIs DEF SeenAs
  <2> QED
    BY <2>1, GrowsIs
<1>3. p \notin DOMAIN n.pre /\ (p \in Tracked(Y) => p \in DOMAIN n.begun /\ n.begun[p] = s)
  BY <1>1, <1>2 DEF MarkIs
<1>4. PICK Z, r :
        /\ AtMark(d, Z, r)
        /\ r.seq = n.seq /\ r.turnId = n.turnId /\ r.begun = n.begun
        /\ r.pre = [q \in DOMAIN n.pre \cup {p} |-> IF q = p THEN s ELSE n.pre[q]]
        /\ Grows(Y, Z)
        /\ p \in Tracked(Y) => Content(Z, p) = s
        /\ \A q \in Tracked(Y) : q # p => Content(Z, q) = Content(Y, q)
  BY <1>1, <1>3, RecordOne
<1>5. MarkIs(r, m, v, done \cup {p})
  <2>1. r.seq = m.seq /\ r.turnId = m.turnId /\ r.begun = m.begun
    BY <1>1, <1>4 DEF MarkIs
  <2>2. DOMAIN r.pre = DOMAIN n.pre \cup {p} /\ DOMAIN n.pre = DOMAIN m.pre \cup done
    BY <1>1, <1>4 DEF MarkIs
  <2>3. \A q \in DOMAIN r.pre : r.pre[q] = IF q = p THEN s ELSE n.pre[q]
    BY <1>4
  <2>4. \A q \in DOMAIN r.pre : r.pre[q] = IF q \in done \cup {p} THEN v[q] ELSE m.pre[q]
    BY <1>1, <2>2, <2>3 DEF MarkIs
  <2> QED
    BY <2>1, <2>2, <2>4 DEF MarkIs
<1>6. SeenAs(X, Z, v, done \cup {p})
  <2>1. Grows(X, Z)
    BY <1>1, <1>4, GrowsOn DEF SeenAs
  <2>2. \A q \in Tracked(X) :
          Content(Z, q) = IF q \in done \cup {p} THEN v[q] ELSE Content(X, q)
    BY <1>1, <1>2, <1>4 DEF SeenAs
  <2> QED
    BY <2>1, <2>2 DEF SeenAs
<1> QED
  BY <1>4, <1>5, <1>6 DEF Records

(* The files a turn reads when it begins.                                     *)
LEMMA FilesRecorded ==
  ASSUME NEW c, NEW X, NEW m, AtMark(c, X, m), NEW read \in SUBSET Paths, IsFiniteSet(read),
         \A p \in read : p \notin DOMAIN m.pre, disk \in [Paths -> State],
         \A p \in read \cap Tracked(X) : p \in DOMAIN m.begun /\ m.begun[p] = disk[p]
  PROVE  Records(Each(LAMBDA d, p : RecordPreEdit(d, p, disk[p]), c, read), X, m, disk, read)
<1> DEFINE seq == Listing(read)
           n == Len(seq)
<1>2. Lists(seq, read)
  BY ListingLists
<1>3. /\ n \in Nat /\ \A i \in 1..n : seq[i] \in read
      /\ \A x \in read : \E i \in 1..n : seq[i] = x
      /\ \A i, j \in 1..n : seq[i] = seq[j] => i = j
  BY <1>2 DEF Lists
<1>4. PICK f : ReadsPass(f, c, read)
  BY <1>3, ReadsUnroll
<1>5. /\ f[0] = c /\ \A i \in 1..n : f[i] = RecordPreEdit(f[i - 1], seq[i], disk[seq[i]])
      /\ Each(LAMBDA d, p : RecordPreEdit(d, p, disk[p]), c, read) = f[n]
  BY <1>4 DEF ReadsPass
<1> HIDE DEF seq, n
<1>6. PICK v : v = disk
  OBVIOUS
<1> DEFINE So(i) == {seq[j] : j \in 1..i}
           S == {i \in 0..n : Records(f[i], X, m, v, So(i))}
<1>7. 0 \in S
  <2>1. So(0) = {}
    OBVIOUS
  <2>2. Records(c, X, m, v, {})
    BY RecordsNone
  <2> HIDE DEF So
  <2>3. Records(f[0], X, m, v, So(0))
    BY <1>5, <2>1, <2>2
  <2>4. 0 \in 0..n
    BY <1>3
  <2> QED
    BY <2>3, <2>4
<1>8. ASSUME NEW i \in 1..n, i - 1 \in S
      PROVE  i \in S
  <2> DEFINE b == f[i - 1]
             p == seq[i]
             d == f[i]
             s == v[p]
  <2>1. Records(b, X, m, v, So(i - 1)) /\ i \in Nat /\ i \in 0..n
    <3> HIDE DEF So
    <3> QED
      BY <1>3, <1>8
  <2>2. So(i) = So(i - 1) \cup {p}
    <3>1. \A j : j \in 1..i <=> j \in 1..(i - 1) \/ j = i
      BY <2>1
    <3> QED
      BY <3>1
  <2>3. p \notin So(i - 1)
    <3>1. \A j \in 1..(i - 1) : j \in 1..n /\ j # i
      BY <1>3, <2>1
    <3> QED
      BY <1>3, <3>1
  <2>4. d = RecordPreEdit(b, p, s) /\ p \in read
    BY <1>3, <1>5, <1>6
  <2> HIDE DEF So, b, d, p
  <2>5. p \in Paths /\ p \notin DOMAIN m.pre /\ s \in State
    BY <1>6, <2>4
  <2>6. p \in Tracked(X) => p \in DOMAIN m.begun /\ m.begun[p] = s
    BY <1>6, <2>4
  <2>7. s = v[p]
    OBVIOUS
  <2> HIDE DEF s
  <2>8. Records(d, X, m, v, So(i - 1) \cup {p})
    BY <2>1, <2>3, <2>4, <2>5, <2>6, <2>7, RecordsMore
  <2>9. Records(d, X, m, v, So(i))
    BY <2>2, <2>8
  <2> QED
    BY <2>1, <2>9 DEF d
<1>9. n \in S
  <2>1. \A i \in 0..n : i \in S
    <3> HIDE DEF S
    <3> QED
      BY <1>3, <1>7, <1>8, UpTo
  <2>2. n \in 0..n
    BY <1>3
  <2> HIDE DEF S
  <2> QED
    BY <2>1, <2>2
<1>10. So(n) = read
  BY <1>3
<1>11. Records(f[n], X, m, v, So(n))
  <2> HIDE DEF So
  <2> QED
    BY <1>9
<1> HIDE DEF So
<1>12. Records(f[n], X, m, disk, read)
  BY <1>6, <1>10, <1>11
<1> QED
  BY <1>5, <1>12

(* A turn begins.                                                             *)
LEMMA TurnBegun ==
  ASSUME NEW c, GoodLog(c.events), NEW id \in Nat, disk \in [Paths -> State]
  PROVE  AtMark(BeginTurn(c, id), c.events,
                Mark(NextSeq(c), id, [p \in Tracked(c.events) |-> disk[p]]))
<1> DEFINE X == c.events
           s == NextSeq(c)
           begun == [p \in Tracked(X) |-> disk[p]]
           m == Mark(s, id, begun)
           d == BeginTurn(c, id)
<1>1. X \in Seq(Event)
  BY DEF GoodLog, SoundLog, WellFormed
<1>2. s \in Nat /\ Fresh(X, s) /\ s # 0
  BY <1>1, NextSeqFresh DEF Fresh
<1>3. begun \in Known
  <2>1. Tracked(X) \subseteq Paths
    BY <1>1, LogNames
  <2>2. begun \in [Tracked(X) -> State]
    BY <2>1
  <2> QED
    BY <2>1, <2>2 DEF Known
<1>4. <<>> \in Known
  <2>1. <<>> \in [{} -> State] /\ {} \in SUBSET Paths
    OBVIOUS
  <2> QED
    BY <2>1 DEF Known
<1>5. m = [kind |-> "turn", seq |-> s, turnId |-> id, pre |-> <<>>, begun |-> begun]
  BY DEF Mark
<1>6. d = [open |-> s, events |-> Append(X, m)]
  BY DEF BeginTurn
<1> HIDE DEF s, begun
<1>7. m \in Event
  BY <1>2, <1>3, <1>4, <1>5 DEF Event, Marks
<1>8. m.kind = "turn" /\ m.seq = s /\ m.pre = <<>>
  BY <1>5
<1>9. DOMAIN m.pre = {}
  BY <1>8
<1> HIDE DEF m, d
<1>10. d.events = Append(X, m) /\ d.open = s /\ IsCp(d)
  BY <1>2, <1>6 DEF IsCp
<1>11. Fits(X, m) /\ Sees(X, m)
  BY <1>2, <1>8, <1>9 DEF Fits, FitsMark, Sees, Fresh
<1>12. AtMark(d, X, m)
  BY <1>2, <1>7, <1>8, <1>10, <1>11 DEF AtMark
<1> QED
  BY <1>12 DEF d, m, s, begun

-----------------------------------------------------------------------------
(* The inductive invariant.                                                   *)

(* A mark is complete when it records every file the log knew before it; only that of
   a turn that could not begin is not.                                        *)
Complete(L, k) == Tracked(Before(L, k)) \subseteq DOMAIN L[k].pre

MarksComplete ==
  \A k \in MarksOf(Log) :
    \/ Complete(Log, k)
    \/ k = Len(Log) /\ cp.open # 0 /\ ~acting /\ Log[k].turnId = msgs

(* The mark of the open turn is the last event.                               *)
OpenIsLast ==
  cp.open # 0 => Len(Log) > 0 /\ Log[Len(Log)].kind = "turn" /\ Log[Len(Log)].seq = cp.open

(* A rewind that waits for its save has restored files to what the log, cut where it
   will be, has of them.                                                      *)
Cut(i) == EventIndexOfTurn(Log, i)
ForkHolds ==
  fork.at # 0 =>
    /\ ~acting
    /\ Cut(fork.at) = 0 => fork.clean = {}
    /\ Cut(fork.at) # 0 => \A p \in fork.clean \cap Tracked(Before(Log, Cut(fork.at))) :
                             Content(Before(Log, Cut(fork.at)), p) = disk[p]

Typed ==
  /\ IsCp(cp)
  /\ acting \in BOOLEAN
  /\ msgs \in 1..MaxMsgs
  /\ fork = [at |-> fork.at, clean |-> fork.clean]
  /\ fork.at \in 0..(msgs - 1) /\ fork.clean \in SUBSET Paths
  /\ fork.at = 0 => fork.clean = {}
  /\ disk \in [Paths -> State]
  /\ dirty \in SUBSET Paths
  /\ Len(Log) <= MaxLog
  /\ acting => cp.open # 0

IInv == Typed /\ GoodLog(Log) /\ MarksComplete /\ OpenIsLast /\ ForkHolds /\ ContentIsDisk

(* The log of a good log is well-formed.                                      *)
LEMMA GoodIs ==
  ASSUME NEW L, GoodLog(L)
  PROVE  L \in Seq(Event) /\ WellFormed(L) /\ SoundLog(L) /\ KeptHold(L) /\ Len(L) \in Nat
BY DEF GoodLog, SoundLog, WellFormed

(* An empty log.                                                              *)
LEMMA EmptyLog ==
  GoodLog(<<>>) /\ Tracked(<<>>) = {} /\ MarksOf(<<>>) = {} /\ Len(<<>>) = 0
<1>1. <<>> \in Seq(Event) /\ DOMAIN <<>> = {} /\ Len(<<>>) = 0
  OBVIOUS
<1>2. PICK L : L = <<>>
  OBVIOUS
<1>3. DOMAIN L = {} /\ L \in Seq(Event)
  BY <1>1, <1>2
<1>4. MarksOf(L) = {}
  BY <1>3 DEF MarksOf
<1>5. \A p : p \notin Tracked(L)
  BY <1>3, TrackedIs
<1>6. WellFormed(L) /\ MarksSee(L) /\ KeptHold(L)
  BY <1>3, <1>4 DEF WellFormed, MarksSee, KeptHold
<1>7. GoodLog(L)
  BY <1>4, <1>6 DEF GoodLog, SoundLog
<1>8. Tracked(L) = {}
  BY <1>5
<1> QED
  BY <1>1, <1>2, <1>4, <1>7, <1>8

(* The marks of a log.                                                        *)
LEMMA MarkIndex ==
  ASSUME NEW L \in Seq(Event), NEW k \in MarksOf(L)
  PROVE  k \in 1..Len(L) /\ k \in Nat /\ k \in DOMAIN L /\ L[k] \in Event /\ L[k].kind = "turn"
BY DEF MarksOf

(* Where a truncation cuts is a mark: the turn's, or a later one's.           *)
LEMMA CutIsMark ==
  ASSUME NEW L \in Seq(Event), NEW i \in Nat, NEW k, k = EventIndexOfTurn(L, i)
  PROVE  /\ k # 0 => k \in MarksOf(L)
         /\ k = 0 => \A j \in MarksOf(L) : L[j].turnId < i
         /\ HasTurn(L, i) => k \in MarksOf(L) /\ L[k].turnId = i
<1> DEFINE marks == MarksOf(L)
           exact == {j \in marks : L[j].turnId = i}
           later == {j \in marks : L[j].turnId > i}
<1>1. Len(L) \in Nat /\ marks \subseteq 1..Len(L)
  BY DEF MarksOf
<1>2. exact \in SUBSET (0..Len(L)) /\ later \in SUBSET Nat
  BY <1>1
<1>3. \A j \in marks : L[j].turnId \in Nat
  BY MarkIndex, MarkFields
<1>4. k = IF exact # {} THEN Max(exact) ELSE IF later # {} THEN Min(later) ELSE 0
  BY DEF EventIndexOfTurn
<1>5. HasTurn(L, i) => exact # {}
  <2>1. ToSet(L) = {L[j] : j \in DOMAIN L}
    BY Members
  <2> QED
    BY <2>1 DEF HasTurn, MarksOf
<1>6. exact # {} => k \in exact
  <2> HIDE DEF exact, later
  <2> QED
    BY <1>1, <1>2, <1>4, MaxOf
<1>7. exact = {} /\ later # {} => k \in later
  <2> HIDE DEF exact, later
  <2> QED
    BY <1>2, <1>4, MinOf
<1>8. exact = {} /\ later = {} => k = 0 /\ \A j \in marks : L[j].turnId < i
  <2>1. exact = {} /\ later = {} => \A j \in marks : L[j].turnId < i
    BY <1>3
  <2> HIDE DEF exact, later
  <2> QED
    BY <1>4, <2>1
<1>9. 0 \notin marks
  BY <1>1
<1>10. exact \subseteq marks /\ later \subseteq marks /\ \A j \in exact : L[j].turnId = i
  OBVIOUS
<1> HIDE DEF exact, later, marks
<1>11. k # 0 => k \in marks
  BY <1>6, <1>7, <1>8, <1>10
<1>12. k = 0 => \A j \in marks : L[j].turnId < i
  BY <1>6, <1>7, <1>8, <1>9, <1>10
<1>13. HasTurn(L, i) => k \in marks /\ L[k].turnId = i
  BY <1>5, <1>6, <1>10
<1> QED
  BY <1>11, <1>12, <1>13 DEF marks

(* The last mark knows every file, when the marks are complete.               *)
LEMMA CarriedIs ==
  ASSUME NEW L, GoodLog(L), \A k \in MarksOf(L) : Complete(L, k)
  PROVE  LastTurnPaths(L) = Tracked(L)
<1> DEFINE marks == MarksOf(L)
           j == Max(marks)
<1>1. L \in Seq(Event) /\ WellFormed(L) /\ Len(L) \in Nat
  BY GoodIs
<1>2. ASSUME marks = {}
      PROVE  LastTurnPaths(L) = Tracked(L)
  <2>1. LastTurnPaths(L) = {}
    BY <1>2 DEF LastTurnPaths
  <2>2. \A p : p \notin Tracked(L)
    BY <1>1, <1>2, MarkOfTracked
  <2> QED
    BY <2>1, <2>2
<1>3. ASSUME marks # {}
      PROVE  LastTurnPaths(L) = Tracked(L)
  <2>1. marks \in SUBSET (0..Len(L))
    BY <1>1 DEF MarksOf
  <2>2. j \in marks /\ \A i \in marks : i <= j
    <3> HIDE DEF marks
    <3> QED
      BY <1>1, <1>3, <2>1, MaxOf
  <2>3. LastTurnPaths(L) = DOMAIN L[j].pre
    BY <1>3 DEF LastTurnPaths
  <2> HIDE DEF j
  <2>4. j \in 1..Len(L) /\ j \in Nat /\ j \in DOMAIN L /\ L[j].kind = "turn"
    BY <1>1, <2>2, MarkIndex
  <2>5. ASSUME NEW p \in DOMAIN L[j].pre
        PROVE  p \in Tracked(L)
    BY <2>4, TrackedIs DEF Knows
  <2>6. ASSUME NEW p \in Tracked(L)
        PROVE  p \in DOMAIN L[j].pre
    <3>1. PICK k \in marks : p \in DOMAIN L[k].pre
      BY <1>1, MarkOfTracked
    <3>2. CASE k = j
      BY <3>1, <3>2
    <3>3. CASE k # j
      <4>1. k \in 1..Len(L) /\ L[k].kind = "turn"
        BY <1>1, MarkIndex
      <4>2. k \in 1..(j - 1) /\ j \in 1..(Len(L) + 1)
        BY <1>1, <2>2, <2>4, <3>3, <4>1
      <4>3. k \in DOMAIN Before(L, j) /\ Before(L, j)[k] = L[k]
        BY <1>1, <4>2, Prefix
      <4>4. p \in Tracked(Before(L, j))
        BY <3>1, <4>1, <4>3, TrackedIs DEF Knows
      <4> QED
        BY <2>2, <4>4 DEF Complete
    <3> QED
      BY <3>2, <3>3
  <2> QED
    BY <2>3, <2>5, <2>6
<1> QED
  BY <1>2, <1>3

(* A mark stays complete in a log that grows between turns.                   *)
LEMMA CompleteGrows ==
  ASSUME NEW L, NEW M, Grows(L, M), WellFormed(M)
  PROVE  MarksOf(M) = MarksOf(L) /\ \A k \in MarksOf(L) : Complete(M, k) <=> Complete(L, k)
<1>1. /\ MarksOf(M) = MarksOf(L)
      /\ \A k \in MarksOf(L) : M[k] = L[k] /\ Before(M, k) = Before(L, k)
  BY GrowsIs
<1> QED
  BY <1>1 DEF Complete

(* A mark is complete in a truncated log as in the log.                       *)
LEMMA CompletePrefix ==
  ASSUME NEW L, SoundLog(L), NEW k \in MarksOf(L), NEW j \in MarksOf(Before(L, k))
  PROVE  j \in MarksOf(L) /\ j < k /\ (Complete(Before(L, k), j) <=> Complete(L, j))
<1>1. L \in Seq(Event)
  BY DEF SoundLog, WellFormed
<1>2. k \in 1..Len(L) /\ k \in 1..(Len(L) + 1)
  BY <1>1, MarkIndex
<1>3. j \in MarksOf(L) /\ j < k
  BY <1>2, SoundPrefix
<1>4. j \in 1..(k - 1) /\ j \in 1..k
  BY <1>1, <1>2, <1>3, MarkIndex
<1>5. Before(L, k)[j] = L[j]
  BY <1>1, <1>2, <1>4, Prefix
<1>6. Before(Before(L, k), j) = Before(L, j)
  BY <1>1, <1>2, <1>4, PrefixOfPrefix
<1> QED
  BY <1>3, <1>5, <1>6 DEF Complete

(* The marks in an open turn.                                                 *)
LEMMA CompleteAtMark ==
  ASSUME NEW c, NEW X, NEW m, AtMark(c, X, m)
  PROVE  LET M == c.events IN
         /\ \A k \in MarksOf(M) : k = Len(M) \/ k \in MarksOf(X)
         /\ \A k \in MarksOf(X) : k # Len(M) /\ k \in MarksOf(M) /\ M[k] = X[k]
                                  /\ (Complete(M, k) <=> Complete(X, k))
         /\ Len(M) \in MarksOf(M) /\ M[Len(M)] = m
         /\ Complete(M, Len(M)) <=> Tracked(X) \subseteq DOMAIN m.pre
<1> DEFINE n == Len(X)
           M == Append(X, m)
<1>1. X \in Seq(Event) /\ m \in Event /\ m.kind = "turn"
  BY AtMarkIs DEF AtMark
<1>2. /\ Len(M) = n + 1 /\ n \in Nat /\ DOMAIN X = 1..n /\ DOMAIN M = 1..(n + 1)
      /\ M[n + 1] = m /\ \A k \in DOMAIN X : M[k] = X[k]
  BY <1>1, Longer
<1>3. /\ \A k \in 1..(n + 1) : Before(M, k) = Before(X, k)
      /\ Before(X, n + 1) = X
  BY <1>1, PrefixOfLonger
<1>4. c.events = M
  BY DEF AtMark
<1> HIDE DEF M
<1>5. \A k \in MarksOf(M) : k = n + 1 \/ k \in MarksOf(X)
  <2>1. \A k \in 1..(n + 1) : k = n + 1 \/ k \in 1..n
    BY <1>2
  <2> QED
    BY <1>2, <2>1 DEF MarksOf
<1>6. ASSUME NEW k \in MarksOf(X)
      PROVE  /\ k # n + 1 /\ k \in MarksOf(M) /\ M[k] = X[k]
             /\ Complete(M, k) <=> Complete(X, k)
  <2>1. k \in DOMAIN X /\ X[k].kind = "turn"
    BY DEF MarksOf
  <2>2. k # n + 1 /\ k \in 1..(n + 1)
    BY <1>2, <2>1
  <2>3. k \in MarksOf(M) /\ M[k] = X[k]
    BY <1>2, <2>1, <2>2 DEF MarksOf
  <2> QED
    BY <1>3, <2>2, <2>3 DEF Complete
<1>7. n + 1 \in MarksOf(M)
  <2>1. n + 1 \in 1..(n + 1)
    BY <1>2
  <2> QED
    BY <1>1, <1>2, <2>1 DEF MarksOf
<1>8. Complete(M, n + 1) <=> Tracked(X) \subseteq DOMAIN m.pre
  <2>1. Before(M, n + 1) = X
    <3>1. n + 1 \in 1..(n + 1)
      BY <1>2
    <3> QED
      BY <1>3, <3>1
  <2> QED
    BY <1>2, <2>1 DEF Complete
<1> HIDE DEF n
<1> QED
  BY <1>2, <1>4, <1>5, <1>6, <1>7, <1>8

(* In an open turn, the log ends with the turn's mark.                        *)
LEMMA OpenTurn ==
  ASSUME NEW c, IsCp(c), GoodLog(c.events), c.open # 0, Len(c.events) > 0,
         c.events[Len(c.events)].kind = "turn", c.events[Len(c.events)].seq = c.open
  PROVE  \E X, m : AtMark(c, X, m) /\ m = c.events[Len(c.events)]
<1> DEFINE L == c.events
           n == Len(L)
           X == Before(L, n)
           m == L[n]
<1>1. L \in Seq(Event) /\ WellFormed(L) /\ SoundLog(L) /\ n \in Nat
  BY GoodIs
<1>2. n \in 1..(n + 1) /\ n \in DOMAIN L /\ n \in MarksOf(L)
  BY <1>1 DEF MarksOf
<1>3. m \in Event /\ m.kind = "turn" /\ m.seq = c.open /\ Fits(X, m) /\ Sees(X, m)
  <2>1. m \in Event /\ m.kind = "turn" /\ m.seq = c.open
    BY <1>1, <1>2
  <2>2. Fits(X, m)
    BY <1>2, <1>1 DEF WellFormed
  <2>3. Sees(X, m)
    BY <1>1, <1>2 DEF SoundLog, MarksSee
  <2> QED
    BY <2>1, <2>2, <2>3
<1>4. GoodLog(X)
  <2>1. SoundLog(X)
    BY <1>1, <1>2, SoundPrefix
  <2>2. KeptHold(X)
    BY <1>1, <1>2 DEF SoundLog
  <2> QED
    BY <2>1, <2>2 DEF GoodLog
<1>5. L = Append(X, m)
  <2>1. X \in Seq(Event) /\ Len(X) = n - 1 /\ \A k \in 1..(n - 1) : X[k] = L[k]
    BY <1>1, <1>2, Prefix
  <2>2. m \in Event
    BY <1>3
  <2> HIDE DEF X, m
  <2> DEFINE M == Append(X, m)
  <2>3. /\ M \in Seq(Event) /\ Len(M) = n /\ M[n] = m
        /\ \A k \in 1..(n - 1) : M[k] = X[k]
    BY <1>1, <2>1, <2>2
  <2> HIDE DEF M
  <2>4. \A k \in 1..n : M[k] = L[k]
    <3>1. \A k \in 1..n : k = n \/ k \in 1..(n - 1)
      BY <1>1
    <3> QED
      BY <2>1, <2>3, <3>1 DEF m
  <2> QED
    BY <1>1, <2>3, <2>4, SeqEqual DEF M
<1> HIDE DEF X, L
<1>6. AtMark(c, X, m)
  BY <1>3, <1>4, <1>5 DEF AtMark, L
<1> QED
  BY <1>6 DEF L

(* What holds in an open turn whose files were recorded.                      *)
RecordedTurn(c, d, X, m, v, done) ==
  LET M == d.events IN
  /\ IsCp(d) /\ d.open # 0 /\ GoodLog(M)
  /\ Len(M) > 0 /\ M[Len(M)].kind = "turn" /\ M[Len(M)].seq = d.open
  /\ M[Len(M)].turnId = m.turnId
  /\ \A p \in Tracked(M) :
       IF p \in done THEN Content(M, p) = v[p]
       ELSE p \in Tracked(c.events) /\ Content(M, p) = Content(c.events, p)
  /\ \A k \in MarksOf(M) :
       k = Len(M) \/ (k \in MarksOf(X) /\ (Complete(X, k) => Complete(M, k)))
  /\ Tracked(X) \subseteq DOMAIN m.pre \cup done => Complete(M, Len(M))

LEMMA TurnRecorded ==
  ASSUME NEW c, NEW X, NEW m, AtMark(c, X, m), NEW v, NEW done,
         \A p \in done : p \notin DOMAIN m.pre, NEW d, Records(d, X, m, v, done)
  PROVE  RecordedTurn(c, d, X, m, v, done)
<1> DEFINE M == d.events
<1>1. PICK Y, n : AtMark(d, Y, n) /\ MarkIs(n, m, v, done) /\ SeenAs(X, Y, v, done)
  BY DEF Records
<1>2. /\ GoodLog(M) /\ Len(M) = Len(Y) + 1 /\ Y \in Seq(Event) /\ WellFormed(Y)
      /\ M[Len(Y) + 1] = n
  BY <1>1, AtMarkIs
<1>3. IsCp(d) /\ d.open = n.seq /\ n.seq # 0 /\ n.kind = "turn" /\ c.open = m.seq
  BY <1>1 DEF AtMark
<1>4. n.seq = m.seq /\ n.turnId = m.turnId /\ DOMAIN n.pre = DOMAIN m.pre \cup done
  BY <1>1 DEF MarkIs
<1>5. Tracked(Y) = Tracked(X)
  BY <1>1, <1>2, GrowsIs DEF SeenAs
<1>6. /\ \A p \in Tracked(Y) : Content(M, p) = Content(Y, p)
      /\ \A p \in DOMAIN n.pre : Content(M, p) = n.pre[p]
      /\ \A p : p \in Tracked(M) <=> p \in Tracked(Y) \/ p \in DOMAIN n.pre
  BY <1>1, MarkContents
<1>7. /\ \A p \in Tracked(X) : Content(c.events, p) = Content(X, p)
      /\ \A p \in DOMAIN m.pre : Content(c.events, p) = m.pre[p]
      /\ \A p : p \in Tracked(c.events) <=> p \in Tracked(X) \/ p \in DOMAIN m.pre
  BY MarkContents
<1> HIDE DEF M
<1>8. \A p \in Tracked(M) :
        IF p \in done THEN Content(M, p) = v[p]
        ELSE p \in Tracked(c.events) /\ Content(M, p) = Content(c.events, p)
  <2>1. ASSUME NEW p \in done
        PROVE  Content(M, p) = v[p]
    <3>1. p \in DOMAIN n.pre /\ n.pre[p] = v[p]
      BY <1>1, <1>4, <2>1 DEF MarkIs
    <3> QED
      BY <1>6, <3>1
  <2>2. ASSUME NEW p \in Tracked(M), p \notin done, p \in DOMAIN m.pre
        PROVE  p \in Tracked(c.events) /\ Content(M, p) = Content(c.events, p)
    <3>1. p \in DOMAIN n.pre /\ n.pre[p] = m.pre[p]
      BY <1>1, <1>4, <2>2 DEF MarkIs
    <3> QED
      BY <1>6, <1>7, <2>2, <3>1
  <2>3. ASSUME NEW p \in Tracked(M), p \notin done, p \notin DOMAIN m.pre
        PROVE  p \in Tracked(c.events) /\ Content(M, p) = Content(c.events, p)
    <3>1. p \in Tracked(Y) /\ p \in Tracked(X)
      BY <1>4, <1>5, <1>6, <2>3
    <3>2. Content(Y, p) = Content(X, p)
      BY <1>1, <2>3, <3>1 DEF SeenAs
    <3> QED
      BY <1>6, <1>7, <3>1, <3>2
  <2> QED
    BY <2>1, <2>2, <2>3
<1>9. /\ MarksOf(Y) = MarksOf(X)
      /\ \A k \in MarksOf(X) : Complete(Y, k) <=> Complete(X, k)
  BY <1>1, <1>2, CompleteGrows DEF SeenAs
<1>10. /\ \A k \in MarksOf(M) : k = Len(M) \/ k \in MarksOf(Y)
       /\ \A k \in MarksOf(Y) : Complete(M, k) <=> Complete(Y, k)
       /\ Complete(M, Len(M)) <=> Tracked(Y) \subseteq DOMAIN n.pre
  BY <1>1, CompleteAtMark DEF M
<1>11. \A k \in MarksOf(M) :
         k = Len(M) \/ (k \in MarksOf(X) /\ (Complete(X, k) => Complete(M, k)))
  BY <1>9, <1>10
<1>12. Tracked(X) \subseteq DOMAIN m.pre \cup done => Complete(M, Len(M))
  BY <1>4, <1>5, <1>10
<1>13. Len(M) > 0 /\ M[Len(M)].kind = "turn" /\ M[Len(M)].seq = d.open
       /\ M[Len(M)].turnId = m.turnId
  BY <1>2, <1>3, <1>4, GoodIs
<1>14. IsCp(d) /\ d.open = c.open /\ d.open # 0 /\ GoodLog(M)
  BY <1>2, <1>3, <1>4
<1> QED
  BY <1>8, <1>11, <1>12, <1>13, <1>14 DEF M, RecordedTurn

-----------------------------------------------------------------------------
(* The invariant holds at first, and every action keeps it.                   *)

LEMMA InitHolds ==
  ASSUME Init
  PROVE  IInv
<1> USE DEF Init
<1>1. Log = <<>> /\ cp.open = 0
  BY DEF Log
<1>2. GoodLog(Log) /\ Tracked(Log) = {} /\ MarksOf(Log) = {} /\ Len(Log) = 0
  BY <1>1, EmptyLog
<1>3. disk \in [Paths -> State]
  BY ContentsAreStates
<1>4. IsCp(cp)
  BY DEF IsCp
<1>5. fork.at = 0 /\ fork.clean = {} /\ fork = [at |-> fork.at, clean |-> fork.clean]
  BY DEF NoFork
<1>6. msgs \in 1..MaxMsgs /\ 0 <= MaxLog
  BY CheckpointsAssumption
<1>7. Typed
  <2>1. fork.at \in 0..(msgs - 1) /\ fork.clean \in SUBSET Paths
    BY <1>5
  <2>2. dirty \in SUBSET Paths /\ acting \in BOOLEAN /\ ~acting
    OBVIOUS
  <2>3. Len(Log) <= MaxLog
    BY <1>2, <1>6
  <2> QED
    BY <1>3, <1>4, <1>5, <1>6, <2>1, <2>2, <2>3 DEF Typed
<1>8. MarksComplete
  BY <1>2 DEF MarksComplete
<1>9. OpenIsLast
  BY <1>1 DEF OpenIsLast
<1>10. ForkHolds
  BY <1>5 DEF ForkHolds
<1>11. ContentIsDisk
  BY <1>2 DEF ContentIsDisk
<1> QED
  BY <1>2, <1>7, <1>8, <1>9, <1>10, <1>11 DEF IInv

(* The parts of the invariant.                                                *)
LEMMA IInvIs ==
  ASSUME IInv
  PROVE  /\ IsCp(cp) /\ cp.open \in Nat /\ acting \in BOOLEAN /\ msgs \in 1..MaxMsgs
         /\ msgs \in Nat
         /\ fork = [at |-> fork.at, clean |-> fork.clean]
         /\ fork.at \in 0..(msgs - 1) /\ fork.clean \in SUBSET Paths
         /\ fork.at = 0 => fork.clean = {}
         /\ disk \in [Paths -> State] /\ dirty \in SUBSET Paths
         /\ Len(Log) <= MaxLog
         /\ acting => cp.open # 0
         /\ GoodLog(Log) /\ Log \in Seq(Event) /\ WellFormed(Log) /\ SoundLog(Log)
         /\ Log = cp.events
<1>1. Typed /\ GoodLog(Log)
  BY DEF IInv
<1>2. msgs \in Nat
  BY <1>1, CheckpointsAssumption DEF Typed
<1>3. cp.open \in Nat
  BY <1>1 DEF Typed, IsCp
<1> QED
  BY <1>1, <1>2, <1>3, GoodIs DEF Typed, Log

(* A message's turn begins.                                                   *)
LEMMA StartTurnHolds ==
  ASSUME IInv, StartTurn, Len(Log') <= MaxLog
  PROVE  IInv'
<1>1. /\ ~acting /\ fork = NoFork /\ cp.open = 0 /\ msgs < MaxMsgs
      /\ fork' = fork /\ disk' = disk
  BY DEF StartTurn
<1>2. PICK read \in SUBSET Carried :
        /\ cp' = Each(LAMBDA c, p : RecordPreEdit(c, p, disk[p]), BeginTurn(cp, msgs), read)
        /\ acting' = (read = Carried)
        /\ dirty' = dirty \ read
  BY DEF StartTurn
<1>3. PICK said \in BOOLEAN : /\ said => acting'
                              /\ msgs' = IF said THEN msgs + 1 ELSE msgs
  BY DEF StartTurn
<1>4. /\ IsCp(cp) /\ GoodLog(Log) /\ Log \in Seq(Event) /\ msgs \in Nat /\ msgs \in 1..MaxMsgs
      /\ disk \in [Paths -> State] /\ dirty \in SUBSET Paths /\ Log = cp.events
  BY IInvIs
<1>5. \A k \in MarksOf(Log) : Complete(Log, k)
  BY <1>1 DEF IInv, MarksComplete
<1>6. Carried = Tracked(Log)
  BY <1>4, <1>5, CarriedIs DEF Carried, Log
<1> DEFINE b == BeginTurn(cp, msgs)
           begun == [p \in Tracked(Log) |-> disk[p]]
           m == Mark(NextSeq(cp), msgs, begun)
<1>7. AtMark(b, Log, m)
  BY <1>4, TurnBegun DEF Log
<1>8. DOMAIN m.pre = {} /\ m.turnId = msgs /\ m.begun = begun
  BY DEF Mark
<1>9. \A p \in Tracked(Log) : p \in DOMAIN begun /\ begun[p] = disk[p]
  OBVIOUS
<1> HIDE DEF b, begun, m
<1>10. read \in SUBSET Paths /\ IsFiniteSet(read) /\ read \subseteq Tracked(Log)
  BY <1>2, <1>4, <1>6, TrackedFinite
<1>11. Records(cp', Log, m, disk, read)
  <2>1. \A p \in read : p \notin DOMAIN m.pre
    BY <1>8
  <2>2. \A p \in read \cap Tracked(Log) : p \in DOMAIN m.begun /\ m.begun[p] = disk[p]
    BY <1>8, <1>9
  <2>3. Records(Each(LAMBDA c, p : RecordPreEdit(c, p, disk[p]), b, read), Log, m, disk, read)
    BY <1>4, <1>7, <1>10, <2>1, <2>2, FilesRecorded
  <2> QED
    BY <1>2, <2>3 DEF b
<1> DEFINE M == cp'.events
<1>12. /\ IsCp(cp') /\ cp'.open # 0 /\ GoodLog(M)
       /\ Len(M) > 0 /\ M[Len(M)].kind = "turn" /\ M[Len(M)].seq = cp'.open
       /\ M[Len(M)].turnId = msgs
       /\ \A p \in Tracked(M) :
            IF p \in read THEN Content(M, p) = disk[p]
            ELSE p \in Tracked(b.events) /\ Content(M, p) = Content(b.events, p)
       /\ \A k \in MarksOf(M) :
            k = Len(M) \/ (k \in MarksOf(Log) /\ (Complete(Log, k) => Complete(M, k)))
       /\ Tracked(Log) \subseteq read => Complete(M, Len(M))
  <2>1. \A p \in read : p \notin DOMAIN m.pre
    BY <1>8
  <2>2. RecordedTurn(b, cp', Log, m, disk, read)
    BY <1>7, <1>11, <2>1, TurnRecorded
  <2>3. DOMAIN m.pre \cup read = read
    BY <1>8
  <2> QED
    BY <1>8, <2>2, <2>3 DEF RecordedTurn
<1>13. Log' = M
  BY DEF Log
<1>14. acting' \in BOOLEAN /\ msgs' \in 1..MaxMsgs /\ msgs' \in Nat
  <2>1. acting' \in BOOLEAN
    BY <1>2, Zenon
  <2>2. msgs' \in 1..MaxMsgs /\ msgs' \in Nat
    BY <1>1, <1>3, <1>4, CheckpointsAssumption
  <2> QED
    BY <2>1, <2>2
<1>15. Typed'
  <2>1. fork' = NoFork
    BY <1>1
  <2>2. fork'.at = 0 /\ fork'.clean = {} /\ fork' = [at |-> fork'.at, clean |-> fork'.clean]
    BY <2>1 DEF NoFork
  <2>3. fork'.at \in 0..(msgs' - 1) /\ fork'.clean \in SUBSET Paths
    BY <1>14, <2>2
  <2>4. disk' \in [Paths -> State] /\ dirty' \in SUBSET Paths
    BY <1>1, <1>2, <1>4
  <2> HIDE DEF M
  <2> QED
    BY <1>12, <1>14, <2>2, <2>3, <2>4 DEF Typed
<1> HIDE DEF M
<1>16. MarksComplete'
  <2>1. ASSUME NEW k \in MarksOf(M), k # Len(M)
        PROVE  Complete(M, k)
    BY <1>5, <1>12, <2>1
  <2>2. Complete(M, Len(M)) \/ (cp'.open # 0 /\ ~acting' /\ M[Len(M)].turnId = msgs')
    <3>1. CASE read = Carried
      BY <1>6, <1>12, <3>1
    <3>2. CASE read # Carried
      BY <1>2, <1>3, <1>12, <3>2
    <3> QED
      BY <3>1, <3>2
  <2>3. \A k \in MarksOf(M) :
          \/ Complete(M, k)
          \/ k = Len(M) /\ cp'.open # 0 /\ ~acting' /\ M[k].turnId = msgs'
    BY <2>1, <2>2
  <2> QED
    BY <1>13, <2>3 DEF MarksComplete
<1>17. OpenIsLast'
  BY <1>12, <1>13 DEF OpenIsLast
<1>18. ForkHolds'
  BY <1>1 DEF ForkHolds, NoFork
<1>19. ContentIsDisk'
  <2>1. ASSUME NEW p \in Tracked(M), p \notin dirty'
        PROVE  Content(M, p) = disk'[p]
    <3>1. CASE p \in read
      BY <1>1, <1>12, <3>1
    <3>2. CASE p \notin read
      <4>1. p \in Tracked(b.events) /\ Content(M, p) = Content(b.events, p)
        BY <1>12, <3>2
      <4>2. p \in Tracked(Log) /\ Content(b.events, p) = Content(Log, p)
        BY <1>7, <1>8, <4>1, MarkContents
      <4>3. p \notin dirty
        BY <1>2, <2>1, <3>2
      <4>4. Content(Log, p) = disk[p]
        BY <4>2, <4>3 DEF IInv, ContentIsDisk
      <4> QED
        BY <1>1, <4>1, <4>2, <4>4
    <3> QED
      BY <3>1, <3>2
  <2> QED
    BY <1>13, <2>1 DEF ContentIsDisk
<1>20. GoodLog(Log')
  BY <1>12, <1>13
<1> QED
  BY <1>15, <1>16, <1>17, <1>18, <1>19, <1>20 DEF IInv

(* A file is recorded before a tool changes it.                               *)
LEMMA SnapshotHolds ==
  ASSUME IInv, NEW p \in Paths, Snapshot(p), Len(Log') <= MaxLog
  PROVE  IInv'
<1>1. /\ acting /\ p \notin OpenPre(cp) /\ cp' = RecordPreEdit(cp, p, disk[p])
      /\ dirty' = dirty \ {p} /\ acting' = acting /\ msgs' = msgs /\ fork' = fork
      /\ disk' = disk
  BY DEF Snapshot
<1>2. /\ IsCp(cp) /\ cp.open # 0 /\ GoodLog(Log) /\ Log \in Seq(Event) /\ msgs \in Nat
      /\ msgs \in 1..MaxMsgs /\ disk \in [Paths -> State] /\ dirty \in SUBSET Paths
      /\ Log = cp.events
  BY <1>1, IInvIs
<1>3. PICK X, m : AtMark(cp, X, m)
  <2>1. Len(Log) > 0 /\ Log[Len(Log)].kind = "turn" /\ Log[Len(Log)].seq = cp.open
    BY <1>2 DEF IInv, OpenIsLast
  <2> QED
    BY <1>2, <2>1, OpenTurn
<1>4. p \notin DOMAIN m.pre
  BY <1>1, <1>3, AtMarkIs
<1>5. /\ \A k \in MarksOf(X) : Complete(X, k)
      /\ Tracked(X) \subseteq DOMAIN m.pre
  <2>1. \A k \in MarksOf(Log) : Complete(Log, k)
    BY <1>1 DEF IInv, MarksComplete
  <2> QED
    BY <1>2, <1>3, <2>1, CompleteAtMark
<1>6. PICK s : s = disk[p]
  OBVIOUS
<1>7. s \in State
  BY <1>2, <1>6
<1>8. Records(cp', X, m, disk, {p})
  <2>1. PICK v : v = disk
    OBVIOUS
  <2>2. Records(cp, X, m, v, {})
    BY <1>3, RecordsNone
  <2>3. s = v[p] /\ cp' = RecordPreEdit(cp, p, s)
    BY <1>1, <1>6, <2>1
  <2>4. p \notin Tracked(X) /\ p \notin {}
    BY <1>4, <1>5
  <2>5. PICK d : d = cp'
    OBVIOUS
  <2>6. Records(d, X, m, v, {} \cup {p})
    BY <1>4, <1>7, <2>2, <2>3, <2>4, <2>5, RecordsMore
  <2>7. {} \cup {p} = {p}
    OBVIOUS
  <2> QED
    BY <2>1, <2>5, <2>6, <2>7
<1> DEFINE M == cp'.events
<1>9. /\ IsCp(cp') /\ cp'.open # 0 /\ GoodLog(M)
      /\ Len(M) > 0 /\ M[Len(M)].kind = "turn" /\ M[Len(M)].seq = cp'.open
      /\ \A q \in Tracked(M) :
           IF q \in {p} THEN Content(M, q) = disk[q]
           ELSE q \in Tracked(Log) /\ Content(M, q) = Content(Log, q)
      /\ \A k \in MarksOf(M) :
           k = Len(M) \/ (k \in MarksOf(X) /\ (Complete(X, k) => Complete(M, k)))
      /\ Tracked(X) \subseteq DOMAIN m.pre \cup {p} => Complete(M, Len(M))
  <2>1. \A q \in {p} : q \notin DOMAIN m.pre
    BY <1>4
  <2>2. RecordedTurn(cp, cp', X, m, disk, {p})
    BY <1>3, <1>8, <2>1, TurnRecorded
  <2> QED
    BY <1>2, <2>2 DEF RecordedTurn
<1>10. Log' = M
  BY DEF Log
<1>11. Typed'
  <2>1. /\ fork' = [at |-> fork'.at, clean |-> fork'.clean]
        /\ fork'.at \in 0..(msgs' - 1) /\ fork'.clean \in SUBSET Paths
        /\ fork'.at = 0 => fork'.clean = {}
    BY <1>1, IInvIs
  <2>2. disk' \in [Paths -> State] /\ dirty' \in SUBSET Paths /\ acting' \in BOOLEAN
        /\ msgs' \in 1..MaxMsgs
    BY <1>1, <1>2, IInvIs
  <2> HIDE DEF M
  <2> QED
    BY <1>9, <2>1, <2>2 DEF Typed
<1> HIDE DEF M
<1>12. MarksComplete'
  <2>1. \A k \in MarksOf(M) : Complete(M, k)
    BY <1>5, <1>9
  <2> QED
    BY <1>10, <2>1 DEF MarksComplete
<1>13. OpenIsLast'
  BY <1>9, <1>10 DEF OpenIsLast
<1>14. ForkHolds'
  <2>1. fork.at = 0
    BY <1>1 DEF IInv, ForkHolds
  <2> QED
    BY <1>1, <2>1 DEF ForkHolds
<1>15. ContentIsDisk'
  <2>1. ASSUME NEW q \in Tracked(M), q \notin dirty'
        PROVE  Content(M, q) = disk'[q]
    <3>1. CASE q = p
      BY <1>1, <1>9, <3>1
    <3>2. CASE q # p
      <4>1. q \in Tracked(Log) /\ Content(M, q) = Content(Log, q) /\ q \notin dirty
        BY <1>1, <1>9, <2>1, <3>2
      <4>2. Content(Log, q) = disk[q]
        BY <4>1 DEF IInv, ContentIsDisk
      <4> QED
        BY <1>1, <4>1, <4>2
    <3> QED
      BY <3>1, <3>2
  <2> QED
    BY <1>10, <2>1 DEF ContentIsDisk
<1>16. GoodLog(Log')
  BY <1>9, <1>10
<1> QED
  BY <1>11, <1>12, <1>13, <1>14, <1>15, <1>16 DEF IInv

(* A tool, a command or the user changes a file.                              *)
LEMMA WriteHolds ==
  ASSUME IInv, NEW p \in Paths, NEW s \in Contents, Write(p, s)
  PROVE  IInv'
<1>1. /\ fork = NoFork /\ disk' = [disk EXCEPT ![p] = s]
      /\ dirty' = dirty \cup ({p} \cap Tracked(cp.events))
      /\ cp' = cp /\ acting' = acting /\ msgs' = msgs /\ fork' = fork
  BY DEF Write
<1>2. s \in State
  BY ContentsAreStates
<1>3. Log' = Log
  BY <1>1 DEF Log
<1>4. Typed'
  <2>1. disk' \in [Paths -> State] /\ dirty' \in SUBSET Paths
    BY <1>1, <1>2, IInvIs
  <2>2. Typed
    BY DEF IInv
  <2> QED
    BY <1>1, <1>3, <2>1, <2>2 DEF Typed
<1>5. MarksComplete'
  BY <1>1, <1>3 DEF IInv, MarksComplete
<1>6. OpenIsLast'
  BY <1>1, <1>3 DEF IInv, OpenIsLast
<1>7. ForkHolds'
  BY <1>1 DEF ForkHolds, NoFork
<1>8. ContentIsDisk'
  <2>1. ASSUME NEW q \in Tracked(Log), q \notin dirty'
        PROVE  Content(Log, q) = disk'[q]
    <3>1. q \notin dirty /\ q # p
      BY <1>1, <2>1 DEF Log
    <3>2. q \in Paths
      BY IInvIs, LogNames
    <3>3. disk'[q] = disk[q]
      BY <1>1, <3>1, <3>2, IInvIs
    <3> QED
      BY <3>1, <3>3 DEF IInv, ContentIsDisk
  <2> QED
    BY <1>3, <2>1 DEF ContentIsDisk
<1>9. GoodLog(Log')
  BY <1>3 DEF IInv
<1> QED
  BY <1>4, <1>5, <1>6, <1>7, <1>8, <1>9 DEF IInv

(* The turn ends.                                                             *)
LEMMA EndTurnHolds ==
  ASSUME IInv, EndTurn, Len(Log') <= MaxLog
  PROVE  IInv'
<1>1. PICK read \in SUBSET OpenPre(cp) :
        cp' = SealTurn(cp, [p \in read |-> disk[p]]) /\ dirty' = dirty \ read
  BY DEF EndTurn
<1>2. /\ acting /\ acting' = FALSE /\ msgs' = msgs /\ fork' = fork /\ disk' = disk
  BY DEF EndTurn
<1>3. /\ IsCp(cp) /\ cp.open # 0 /\ GoodLog(Log) /\ Log \in Seq(Event) /\ Log = cp.events
      /\ disk \in [Paths -> State] /\ dirty \in SUBSET Paths
  BY <1>2, IInvIs
<1>4. PICK X, m : AtMark(cp, X, m)
  <2>1. Len(Log) > 0 /\ Log[Len(Log)].kind = "turn" /\ Log[Len(Log)].seq = cp.open
    BY <1>3 DEF IInv, OpenIsLast
  <2> QED
    BY <1>3, <2>1, OpenTurn
<1>5. /\ cp.events[OpenIndex(cp)] = m /\ OpenPre(cp) = DOMAIN m.pre
      /\ X \in Seq(Event)
  BY <1>4, AtMarkIs
<1> DEFINE post == [p \in read |-> disk[p]]
           v == Ends(m, post)
           D == Sealing(cp, m, post)
<1>6. cp' = [D EXCEPT !.open = 0]
  <2> DEFINE mark == cp.events[OpenIndex(cp)]
  <2>1. SealTurn(cp, post) = [Sealing(cp, mark, post) EXCEPT !.open = 0]
    BY <1>3 DEF SealTurn, Sealing
  <2>2. mark = m
    BY <1>5
  <2> HIDE DEF mark
  <2>3. SealTurn(cp, post) = [Sealing(cp, m, post) EXCEPT !.open = 0]
    <3> HIDE DEF post
    <3> QED
      BY <2>1, <2>2
  <2> QED
    BY <1>1, <2>3
<1>7. m.turnId \in Nat /\ m.pre \in Known
  BY <1>4, MarkFields DEF AtMark
<1>8. /\ DOMAIN m.pre \subseteq Tracked(Log)
      /\ \A p \in DOMAIN m.pre : m.pre[p] = Content(Log, p)
      /\ \A p \in DOMAIN m.pre : p \in Paths /\ m.pre[p] \in State
  BY <1>3, <1>4, <1>7, MarkContents, KnownFields
<1>9. \A p \in DOMAIN m.pre : v[p] = IF p \in read THEN disk[p] ELSE m.pre[p]
  BY DEF Ends
<1>10. \A p \in DOMAIN m.pre : v[p] \in State
  BY <1>3, <1>8, <1>9
<1>11. Follows(cp, D, v, DOMAIN m.pre)
  <2> HIDE DEF post
  <2> QED
    BY <1>3, <1>7, <1>8, <1>10, TurnSealed
<1> HIDE DEF D, v, post
<1>12. /\ IsCp(D) /\ GoodLog(D.events) /\ Grows(Log, D.events)
       /\ \A q \in Tracked(Log) :
            Content(D.events, q) = IF q \in DOMAIN m.pre THEN v[q] ELSE Content(Log, q)
  BY <1>3, <1>11 DEF Follows, Edited
<1>13. cp' = [events |-> D.events, open |-> 0]
  BY <1>6, <1>12 DEF IsCp
<1>14. Log' = D.events /\ cp'.open = 0 /\ IsCp(cp')
  BY <1>13 DEF Log, IsCp
<1> DEFINE M == D.events
<1>15. WellFormed(M) /\ Tracked(M) = Tracked(Log)
  BY <1>12, GoodIs, GrowsIs
<1>16. Typed'
  <2>1. /\ fork' = [at |-> fork'.at, clean |-> fork'.clean]
        /\ fork'.at \in 0..(msgs' - 1) /\ fork'.clean \in SUBSET Paths
        /\ fork'.at = 0 => fork'.clean = {}
        /\ msgs' \in 1..MaxMsgs
    BY <1>2, IInvIs
  <2>2. disk' \in [Paths -> State] /\ dirty' \in SUBSET Paths
    BY <1>1, <1>2, <1>3
  <2>3. acting' \in BOOLEAN /\ ~acting'
    BY <1>2, Zenon
  <2>4. Len(Log') <= MaxLog
    OBVIOUS
  <2>5. acting' => cp'.open # 0
    BY <2>3
  <2>6. acting' \in BOOLEAN
    BY <2>3
  <2>7. IsCp(cp')
    BY <1>14
  <2> QED
    BY <2>1, <2>2, <2>4, <2>5, <2>6, <2>7 DEF Typed
<1> HIDE DEF M
<1>17. MarksComplete'
  <2>1. \A k \in MarksOf(Log) : Complete(Log, k)
    BY <1>2 DEF IInv, MarksComplete
  <2>2. \A k \in MarksOf(M) : Complete(M, k)
    BY <1>12, <1>15, <2>1, CompleteGrows DEF M
  <2> QED
    BY <1>14, <2>2 DEF MarksComplete, M
<1>18. OpenIsLast'
  BY <1>14 DEF OpenIsLast
<1>19. ForkHolds'
  <2>1. fork.at = 0
    BY <1>2 DEF IInv, ForkHolds
  <2> QED
    BY <1>2, <2>1 DEF ForkHolds
<1>20. ContentIsDisk'
  <2>1. ASSUME NEW q \in Tracked(M), q \notin dirty'
        PROVE  Content(M, q) = disk'[q]
    <3>1. q \in Tracked(Log)
           /\ Content(M, q) = IF q \in DOMAIN m.pre THEN v[q] ELSE Content(Log, q)
      BY <1>12, <1>15, <2>1 DEF M
    <3>2. CASE q \in read
      BY <1>2, <1>5, <1>9, <3>1, <3>2
    <3>3. CASE q \notin read
      <4>1. Content(Log, q) = disk[q]
        BY <1>1, <2>1, <3>1, <3>3 DEF IInv, ContentIsDisk
      <4> QED
        BY <1>2, <1>8, <1>9, <3>1, <3>3, <4>1
    <3> QED
      BY <3>2, <3>3
  <2> QED
    BY <1>14, <2>1 DEF ContentIsDisk, M
<1>21. GoodLog(Log')
  BY <1>12, <1>14
<1> QED
  BY <1>16, <1>17, <1>18, <1>19, <1>20, <1>21 DEF IInv

(* The conversation is cleared or compacted.                                  *)
LEMMA ResetMessagesHolds ==
  ASSUME IInv, ResetMessages, Len(Log') <= MaxLog
  PROVE  IInv'
<1>1. /\ fork = NoFork /\ cp' = IF cp.open # 0 THEN BeginTurn(Cleared, 1) ELSE Cleared
      /\ msgs' = 1 /\ dirty' = {} /\ acting' = acting /\ fork' = fork /\ disk' = disk
  BY DEF ResetMessages
<1>2. /\ acting \in BOOLEAN /\ acting => cp.open # 0
      /\ disk \in [Paths -> State]
  BY IInvIs
<1>3. Cleared.events = <<>> /\ Cleared.open = 0 /\ IsCp(Cleared)
  BY DEF Cleared, IsCp
<1>4. GoodLog(<<>>) /\ Tracked(<<>>) = {} /\ MarksOf(<<>>) = {} /\ Len(<<>>) = 0
  BY EmptyLog
<1>5. fork'.at = 0 /\ fork'.clean = {} /\ fork' = [at |-> fork'.at, clean |-> fork'.clean]
      /\ fork'.at \in 0..(msgs' - 1)
  BY <1>1 DEF NoFork
<1>6. msgs' \in 1..MaxMsgs
  BY <1>1, CheckpointsAssumption
<1>9. acting' \in BOOLEAN
  <2>1. acting' = acting
    BY DEF ResetMessages
  <2>2. acting \in BOOLEAN
    BY IInvIs
  <2> QED
    BY <2>1, <2>2, Zenon
<1>7. CASE cp.open = 0
  <2>1. cp' = Cleared
    BY <1>1, <1>7
  <2>2. Log' = <<>> /\ cp'.open = 0 /\ IsCp(cp')
    BY <1>3, <2>1 DEF Log
  <2>3. Typed'
    <3>0. acting' \in BOOLEAN
      BY <1>9, Zenon
    <3>1. ~acting' /\ disk' \in [Paths -> State] /\ dirty' \in SUBSET Paths
      BY <1>1, <1>2, <1>7
    <3>2. Len(Log') <= MaxLog
      OBVIOUS
    <3> QED
      BY <1>5, <1>6, <2>2, <3>0, <3>1, <3>2 DEF Typed
  <2>4. MarksComplete' /\ OpenIsLast' /\ ContentIsDisk' /\ ForkHolds'
    BY <1>4, <1>5, <2>2 DEF MarksComplete, OpenIsLast, ContentIsDisk, ForkHolds
  <2> QED
    BY <1>4, <2>2, <2>3, <2>4 DEF IInv
<1>8. CASE cp.open # 0
  <2> DEFINE id == 1
             m == Mark(NextSeq(Cleared), id, [p \in Tracked(Cleared.events) |-> disk[p]])
  <2>1. cp' = BeginTurn(Cleared, id)
    BY <1>1, <1>8
  <2>2. AtMark(cp', Cleared.events, m)
    <3>1. GoodLog(Cleared.events) /\ id \in Nat
      BY <1>3, <1>4
    <3> HIDE DEF id
    <3> QED
      BY <1>2, <2>1, <3>1, TurnBegun
  <2>3. DOMAIN m.pre = {} /\ m.turnId = 1
    BY DEF Mark
  <2> HIDE DEF m
  <2> DEFINE M == cp'.events
  <2>4. Log' = M
    BY DEF Log
  <2>5. PICK X : X = Cleared.events
    OBVIOUS
  <2>6. Tracked(X) = {} /\ MarksOf(X) = {}
    BY <1>3, <1>4, <2>5
  <2>7. AtMark(cp', X, m)
    BY <2>2, <2>5
  <2>8. PICK d : d = cp'
    OBVIOUS
  <2>9. AtMark(d, X, m) /\ d.events = M
    BY <2>7, <2>8
  <2>10. /\ IsCp(d) /\ d.open = m.seq /\ m.seq # 0 /\ m.kind = "turn" /\ GoodLog(d.events)
         /\ X \in Seq(Event) /\ Len(d.events) = Len(X) + 1
    BY <2>9, AtMarkIs DEF AtMark
  <2>11. /\ \A k \in MarksOf(d.events) : k = Len(d.events)
         /\ d.events[Len(d.events)] = m
         /\ Complete(d.events, Len(d.events))
    BY <2>6, <2>9, CompleteAtMark
  <2>12. Tracked(d.events) = {}
    BY <2>3, <2>6, <2>9, MarkContents
  <2>13. Typed'
    <3>0. acting' \in BOOLEAN
      BY <1>9, Zenon
    <3>1. disk' \in [Paths -> State] /\ dirty' \in SUBSET Paths
      BY <1>1, <1>2
    <3>2. Len(Log') <= MaxLog
      OBVIOUS
    <3>3. IsCp(cp') /\ cp'.open # 0
      BY <2>8, <2>10
    <3> QED
      BY <1>5, <1>6, <3>0, <3>1, <3>2, <3>3 DEF Typed
  <2> HIDE DEF M
  <2>14. MarksComplete'
    BY <2>4, <2>9, <2>11 DEF MarksComplete
  <2>15. Len(d.events) > 0
    BY <2>10
  <2>16. OpenIsLast'
    BY <2>4, <2>8, <2>9, <2>10, <2>11, <2>15 DEF OpenIsLast
  <2>17. ContentIsDisk' /\ ForkHolds'
    BY <1>5, <2>4, <2>9, <2>12 DEF ContentIsDisk, ForkHolds
  <2> QED
    BY <2>4, <2>9, <2>10, <2>13, <2>14, <2>16, <2>17 DEF IInv
<1> QED
  BY <1>7, <1>8

(* Between turns the log grows, and nothing else changes of a rewind that waits than
   that fewer files are clean, each of them as it was.                        *)
LEMMA GrownHolds ==
  ASSUME IInv, cp.open = 0, IsCp(cp'), cp'.open = 0, GoodLog(Log'), Grows(Log, Log'),
         Len(Log') <= MaxLog, acting' = acting, msgs' = msgs,
         fork'.at = fork.at, fork'.clean \subseteq fork.clean,
         fork' = [at |-> fork'.at, clean |-> fork'.clean],
         disk' \in [Paths -> State], \A p \in fork'.clean : disk'[p] = disk[p],
         dirty' \in SUBSET Paths, ContentIsDisk'
  PROVE  IInv'
<1>1. /\ acting \in BOOLEAN /\ msgs \in 1..MaxMsgs /\ msgs \in Nat
      /\ fork.at \in 0..(msgs - 1) /\ fork.clean \in SUBSET Paths
      /\ fork.at = 0 => fork.clean = {}
      /\ acting => cp.open # 0 /\ Log \in Seq(Event)
  BY IInvIs
<1>2. WellFormed(Log')
  BY GoodIs
<1>3. Typed'
  <2>1. /\ fork'.at \in 0..(msgs' - 1) /\ fork'.clean \in SUBSET Paths
        /\ fork'.at = 0 => fork'.clean = {}
    BY <1>1
  <2> QED
    BY <1>1, <2>1 DEF Typed
<1>4. MarksComplete'
  <2>1. \A k \in MarksOf(Log) : Complete(Log, k)
    BY DEF IInv, MarksComplete
  <2>2. \A k \in MarksOf(Log') : Complete(Log', k)
    BY <1>2, <2>1, CompleteGrows
  <2> QED
    BY <2>2 DEF MarksComplete
<1>5. OpenIsLast'
  BY DEF OpenIsLast
<1>6. ForkHolds'
  <2> SUFFICES ASSUME fork'.at # 0
               PROVE  /\ ~acting'
                      /\ Cut(fork.at)' = 0 => fork'.clean = {}
                      /\ Cut(fork.at)' # 0 =>
                           \A p \in fork'.clean \cap Tracked(Before(Log', Cut(fork.at)')) :
                             Content(Before(Log', Cut(fork.at)'), p) = disk'[p]
    BY DEF ForkHolds
  <2> DEFINE k == Cut(fork.at)
             K == Before(Log, k)
  <2>1. /\ ~acting
        /\ k = 0 => fork.clean = {}
        /\ k # 0 => \A p \in fork.clean \cap Tracked(K) : Content(K, p) = disk[p]
    BY DEF IInv, ForkHolds
  <2>2. Cut(fork.at)' = k
    BY <1>2, GrowsIs DEF Cut
  <2>3. k # 0 => Before(Log', k) = K
    <3>1. fork.at \in Nat
      BY <1>1
    <3>2. k # 0 => k \in MarksOf(Log)
      <4>0. PICK i : i = fork.at
        OBVIOUS
      <4>1. PICK x : x = EventIndexOfTurn(Log, i)
        OBVIOUS
      <4>2. x # 0 => x \in MarksOf(Log)
        <5>1. i \in Nat
          BY <3>1, <4>0
        <5>2. Log \in Seq(Event)
          BY IInvIs
        <5> QED
          BY <4>1, <5>1, <5>2, CutIsMark
      <4> QED
        BY <4>0, <4>1, <4>2 DEF Cut
    <3> HIDE DEF k
    <3> QED
      BY <1>2, <3>2, GrowsIs
  <2> HIDE DEF k, K
  <2> QED
    BY <2>1, <2>2, <2>3
<1> QED
  BY <1>3, <1>4, <1>5, <1>6 DEF IInv

(* The files are looked at.                                                   *)
LEMMA LookHolds ==
  ASSUME IInv, Look, Len(Log') <= MaxLog
  PROVE  IInv' /\ LaterEdits(Log, Log')
<1>1. PICK shown \in {Tracked(cp.events)} \cup {{p} : p \in Tracked(cp.events)} :
        cp' = Each(ReconcilePath, cp, shown) /\ dirty' = dirty \ shown
  BY DEF Look
<1>2. cp.open = 0 /\ acting' = acting /\ msgs' = msgs /\ fork' = fork /\ disk' = disk
  BY DEF Look
<1>3. /\ IsCp(cp) /\ GoodLog(Log) /\ Log = cp.events /\ disk \in [Paths -> State]
      /\ dirty \in SUBSET Paths /\ fork = [at |-> fork.at, clean |-> fork.clean]
  BY IInvIs
<1>4. shown \in SUBSET Tracked(Log)
  BY <1>1, <1>3
<1>5. Follows(cp, cp', disk, shown)
  BY <1>1, <1>2, <1>3, <1>4, FilesReconciled
<1>6. /\ IsCp(cp') /\ cp'.open = 0 /\ GoodLog(Log') /\ Grows(Log, Log') /\ LaterEdits(Log, Log')
      /\ \A q \in Tracked(Log) : Content(Log', q) = IF q \in shown THEN disk[q] ELSE Content(Log, q)
  BY <1>2, <1>5 DEF Follows, Edited, Log
<1>7. Tracked(Log') = Tracked(Log)
  BY <1>6, GoodIs, GrowsIs
<1>8. ContentIsDisk'
  <2>1. ASSUME NEW q \in Tracked(Log), q \notin dirty'
        PROVE  Content(Log', q) = disk'[q]
    <3>1. CASE q \in shown
      BY <1>2, <1>6, <3>1
    <3>2. CASE q \notin shown
      <4>1. Content(Log, q) = disk[q]
        BY <1>1, <2>1, <3>2 DEF IInv, ContentIsDisk
      <4> QED
        BY <1>2, <1>6, <3>2, <4>1
    <3> QED
      BY <3>1, <3>2
  <2> QED
    BY <1>7, <2>1 DEF ContentIsDisk
<1>9. IInv'
  BY <1>1, <1>2, <1>3, <1>6, <1>8, GrownHolds
<1> QED
  BY <1>6, <1>9

(* A review: the files are reconciled, hunks are decided, and the files are written.  *)
Reviewing(c, d, content, wrote, keep) ==
  /\ Follows(cp, c, disk, Tracked(Log))
  /\ Reviewed(c, d, keep)
  /\ content = [p \in Tracked(Log) |-> Content(d.events, p)]
  /\ wrote \subseteq {p \in Tracked(Log) : content[p] # disk[p]}
  /\ disk' = [p \in Paths |-> IF p \in wrote THEN content[p] ELSE disk[p]]
  /\ fork' = [fork EXCEPT !.clean = @ \ wrote]
  /\ \/ /\ wrote = {p \in Tracked(Log) : content[p] # disk[p]}
        /\ cp' = d /\ dirty' = dirty \ Tracked(Log)
     \/ cp' = c /\ dirty' = (dirty \ Tracked(Log)) \cup wrote

LEMMA ReviewIs ==
  ASSUME IInv, NEW keep \in BOOLEAN, Review(keep)
  PROVE  \E c, d, content, wrote : Reviewing(c, d, content, wrote, keep)
<1>1. /\ IsCp(cp) /\ GoodLog(Log) /\ Log = cp.events /\ disk \in [Paths -> State]
      /\ cp.open = 0 /\ Log \in Seq(Event)
  BY IInvIs DEF Review
<1>2. PICK c \in {Reconciled(cp)} : \E d \in {Outcome(c, ask, keep) : ask \in Asks(c.events)} :
       \E content \in {Only({[p \in Tracked(c.events) |-> Content(d.events, p)]})} :
       LET towrite == {p \in DOMAIN content : content[p] # disk[p]} IN
       \E wrote \in SUBSET towrite :
         /\ wrote = towrite \/ "write" \in Faults
         /\ disk' = [p \in Paths |-> IF p \in wrote THEN content[p] ELSE disk[p]]
         /\ fork' = [fork EXCEPT !.clean = @ \ wrote]
         /\ IF wrote = towrite
            THEN cp' = d /\ dirty' = dirty \ DOMAIN content
            ELSE cp' = c /\ dirty' = (dirty \ DOMAIN content) \cup wrote
  BY DEF Review
<1>3. PICK d \in {Outcome(c, ask, keep) : ask \in Asks(c.events)} :
       \E content \in {Only({[p \in Tracked(c.events) |-> Content(d.events, p)]})} :
       LET towrite == {p \in DOMAIN content : content[p] # disk[p]} IN
       \E wrote \in SUBSET towrite :
         /\ wrote = towrite \/ "write" \in Faults
         /\ disk' = [p \in Paths |-> IF p \in wrote THEN content[p] ELSE disk[p]]
         /\ fork' = [fork EXCEPT !.clean = @ \ wrote]
         /\ IF wrote = towrite
            THEN cp' = d /\ dirty' = dirty \ DOMAIN content
            ELSE cp' = c /\ dirty' = (dirty \ DOMAIN content) \cup wrote
  BY <1>2
<1>4. PICK ask \in Asks(c.events) : d = Outcome(c, ask, keep)
  BY <1>3
<1>5. PICK content \in {Only({[p \in Tracked(c.events) |-> Content(d.events, p)]})} :
       LET towrite == {p \in DOMAIN content : content[p] # disk[p]} IN
       \E wrote \in SUBSET towrite :
         /\ wrote = towrite \/ "write" \in Faults
         /\ disk' = [p \in Paths |-> IF p \in wrote THEN content[p] ELSE disk[p]]
         /\ fork' = [fork EXCEPT !.clean = @ \ wrote]
         /\ IF wrote = towrite
            THEN cp' = d /\ dirty' = dirty \ DOMAIN content
            ELSE cp' = c /\ dirty' = (dirty \ DOMAIN content) \cup wrote
  BY <1>3
<1>6. content = [p \in Tracked(c.events) |-> Content(d.events, p)]
  <2>1. \A v : Only({v}) = v
    BY DEF Only
  <2> QED
    BY <1>5, <2>1, Zenon
<1> DEFINE towrite == {p \in DOMAIN content : content[p] # disk[p]}
<1>7. PICK wrote \in SUBSET towrite :
         /\ disk' = [p \in Paths |-> IF p \in wrote THEN content[p] ELSE disk[p]]
         /\ fork' = [fork EXCEPT !.clean = @ \ wrote]
         /\ IF wrote = towrite
            THEN cp' = d /\ dirty' = dirty \ DOMAIN content
            ELSE cp' = c /\ dirty' = (dirty \ DOMAIN content) \cup wrote
  BY <1>5
<1>8. Follows(cp, c, disk, Tracked(Log))
  <2>1. c = Each(ReconcilePath, cp, Tracked(cp.events))
    BY <1>2 DEF Reconciled
  <2>2. Tracked(Log) \in SUBSET Tracked(cp.events) /\ Tracked(Log) = Tracked(cp.events)
    BY <1>1
  <2>3. c = Each(ReconcilePath, cp, Tracked(Log))
    BY <2>1, <2>2
  <2> QED
    BY <1>1, <2>2, <2>3, FilesReconciled
<1>9. IsCp(c) /\ GoodLog(c.events) /\ c.events \in Seq(Event) /\ Tracked(c.events) = Tracked(Log)
  <2>1. IsCp(c) /\ GoodLog(c.events) /\ Grows(Log, c.events)
    BY <1>1, <1>8 DEF Follows, Edited
  <2> QED
    BY <2>1, GoodIs, GrowsIs
<1>10. Reviewed(c, d, keep)
  BY <1>4, <1>9, AsksTyped, AskDecided
<1>11. DOMAIN content = Tracked(Log) /\ content = [p \in Tracked(Log) |-> Content(d.events, p)]
  BY <1>6, <1>9
<1>12. towrite = {p \in Tracked(Log) : content[p] # disk[p]}
  BY <1>11
<1>13. \/ wrote = towrite /\ cp' = d /\ dirty' = dirty \ Tracked(Log)
       \/ cp' = c /\ dirty' = (dirty \ Tracked(Log)) \cup wrote
  BY <1>7, <1>11
<1> HIDE DEF towrite
<1>14. Reviewing(c, d, content, wrote, keep)
  <2>1. wrote \subseteq towrite
    BY <1>7
  <2> HIDE DEF towrite
  <2>2. wrote \subseteq {p \in Tracked(Log) : content[p] # disk[p]}
    BY <1>12, <2>1
  <2>3. \/ /\ wrote = {p \in Tracked(Log) : content[p] # disk[p]}
           /\ cp' = d /\ dirty' = dirty \ Tracked(Log)
        \/ cp' = c /\ dirty' = (dirty \ Tracked(Log)) \cup wrote
    BY <1>12, <1>13
  <2> QED
    BY <1>7, <1>8, <1>10, <1>11, <2>2, <2>3 DEF Reviewing
<1> QED
  BY <1>14

(* A decision that says `keep` is the last event.                             *)
Approved == Len(Log') > Len(Log) /\ Last(Log').kind = "decide" /\ Last(Log').keep

LEMMA ReviewHolds ==
  ASSUME IInv, NEW keep \in BOOLEAN, Review(keep), Len(Log') <= MaxLog
  PROVE  IInv' /\ (Approved => disk' = disk)
<1>0. PICK c, d, content, wrote : Reviewing(c, d, content, wrote, keep)
  BY ReviewIs
<1>1. /\ Follows(cp, c, disk, Tracked(Log))
      /\ Reviewed(c, d, keep)
      /\ content = [p \in Tracked(Log) |-> Content(d.events, p)]
      /\ wrote \subseteq {p \in Tracked(Log) : content[p] # disk[p]}
      /\ disk' = [p \in Paths |-> IF p \in wrote THEN content[p] ELSE disk[p]]
      /\ fork' = [fork EXCEPT !.clean = @ \ wrote]
      /\ \/ /\ wrote = {p \in Tracked(Log) : content[p] # disk[p]}
            /\ cp' = d /\ dirty' = dirty \ Tracked(Log)
         \/ cp' = c /\ dirty' = (dirty \ Tracked(Log)) \cup wrote
  BY <1>0 DEF Reviewing
<1>2. cp.open = 0 /\ acting' = acting /\ msgs' = msgs
  BY DEF Review
<1>3. /\ IsCp(cp) /\ GoodLog(Log) /\ Log = cp.events /\ disk \in [Paths -> State]
      /\ dirty \in SUBSET Paths /\ fork = [at |-> fork.at, clean |-> fork.clean]
      /\ Log \in Seq(Event)
  BY IInvIs
<1>4. /\ IsCp(c) /\ c.open = 0 /\ GoodLog(c.events) /\ Grows(Log, c.events)
      /\ LaterEdits(Log, c.events)
      /\ \A q \in Tracked(Log) : Content(c.events, q) = disk[q]
  BY <1>1, <1>2, <1>3 DEF Follows, Edited
<1>5. Tracked(c.events) = Tracked(Log) /\ WellFormed(c.events)
  BY <1>4, GoodIs, GrowsIs
<1>6. /\ IsCp(d) /\ d.open = 0 /\ GoodLog(d.events) /\ Grows(c.events, d.events)
      /\ LaterDecisions(c.events, d.events, keep)
      /\ keep => \A q \in Tracked(Log) : Content(d.events, q) = disk[q]
  BY <1>1, <1>4, <1>5 DEF Reviewed
<1>7. Tracked(d.events) = Tracked(Log) /\ WellFormed(d.events) /\ Grows(Log, d.events)
  <2>1. Grows(Log, d.events)
    BY <1>4, <1>6, GrowsOn
  <2> QED
    BY <1>6, <2>1, GoodIs, GrowsIs
<1>8. Tracked(Log) \subseteq Paths
  BY <1>3, LogNames
<1>9. \A q \in Tracked(Log) : content[q] = Content(d.events, q) /\ content[q] \in State
  BY <1>1, <1>7, ContentIs
<1>10. wrote \subseteq Tracked(Log) /\ \A q \in wrote : content[q] # disk[q]
  BY <1>1
<1>11. disk' \in [Paths -> State]
  BY <1>1, <1>3, <1>9, <1>10
<1>12. \A q \in Paths : disk'[q] = IF q \in wrote THEN content[q] ELSE disk[q]
  BY <1>1
<1>13. fork' = [at |-> fork.at, clean |-> fork.clean \ wrote]
  BY <1>1, <1>3
<1>14. /\ fork'.at = fork.at /\ fork'.clean \subseteq fork.clean
       /\ fork' = [at |-> fork'.at, clean |-> fork'.clean]
       /\ \A p \in fork'.clean : p \notin wrote
  BY <1>13
<1>15. \A p \in fork'.clean : disk'[p] = disk[p]
  <2>1. fork.clean \in SUBSET Paths
    BY IInvIs
  <2> QED
    BY <1>12, <1>14, <2>1
<1>16. dirty' \in SUBSET Paths
  BY <1>1, <1>3, <1>8, <1>10
<1>17. ContentIsDisk' /\ IsCp(cp') /\ cp'.open = 0 /\ GoodLog(Log') /\ Grows(Log, Log')
  <2>1. CASE /\ wrote = {p \in Tracked(Log) : content[p] # disk[p]}
             /\ cp' = d /\ dirty' = dirty \ Tracked(Log)
    <3>1. Log' = d.events
      BY <2>1 DEF Log
    <3>2. ASSUME NEW q \in Tracked(Log)
          PROVE  Content(d.events, q) = disk'[q]
      <4>1. q \in Paths
        BY <1>8
      <4>2. q \in wrote <=> content[q] # disk[q]
        BY <2>1
      <4> QED
        BY <1>9, <1>12, <4>1, <4>2
    <3>3. ContentIsDisk'
      BY <1>7, <3>1, <3>2 DEF ContentIsDisk
    <3> QED
      BY <1>6, <1>7, <2>1, <3>1, <3>3
  <2>2. CASE cp' = c /\ dirty' = (dirty \ Tracked(Log)) \cup wrote
    <3>1. Log' = c.events
      BY <2>2 DEF Log
    <3>2. ASSUME NEW q \in Tracked(Log), q \notin dirty'
          PROVE  Content(c.events, q) = disk'[q]
      <4>1. q \in Paths /\ q \notin wrote
        BY <1>8, <2>2, <3>2
      <4> QED
        BY <1>4, <1>12, <4>1
    <3>3. ContentIsDisk'
      BY <1>5, <3>1, <3>2 DEF ContentIsDisk
    <3> QED
      BY <1>4, <2>2, <3>1, <3>3
  <2> QED
    BY <1>1, <2>1, <2>2
<1>18. IInv'
  BY <1>2, <1>11, <1>14, <1>15, <1>16, <1>17, GrownHolds
<1>19. ASSUME Approved
       PROVE  disk' = disk
  <2>1. CASE keep = TRUE
    <3>1. \A q \in Tracked(Log) : content[q] = disk[q]
      BY <1>6, <1>9, <2>1
    <3>2. \A q : q \notin wrote
      BY <1>10, <3>1
    <3>3. \A q \in Paths : disk'[q] = disk[q]
      BY <1>12, <3>2
    <3> QED
      BY <1>3, <1>11, <3>3
  <2>2. CASE keep = FALSE
    <3> DEFINE M == Log'
               n == Len(M)
    <3>1. n > Len(Log) /\ Last(M).kind = "decide" /\ Last(M).keep
      BY <1>19 DEF Approved
    <3>2. Last(M) = M[n]
      BY DEF Last
    <3>3. M = c.events \/ M = d.events
      BY <1>1 DEF Log
    <3> HIDE DEF M
    <3>4. CASE M = c.events
      <4>1. n \in (Len(Log) + 1)..Len(c.events)
        BY <1>4, <3>1, <3>4 DEF Grows
      <4>2. M[n].kind = "edit"
        BY <1>4, <3>4, <4>1 DEF LaterEdits
      <4> HIDE DEF n
      <4> QED
        BY <3>1, <3>2, <4>2
    <3>5. CASE M = d.events
      <4>0. /\ n \in Nat /\ Len(Log) \in Nat /\ Len(c.events) \in Nat /\ Len(d.events) = n
            /\ \A k \in 1..Len(c.events) : d.events[k] = c.events[k]
        BY <1>4, <1>6, <3>5 DEF Grows
      <4>1. n \in (Len(Log) + 1)..Len(c.events) \/ n \in (Len(c.events) + 1)..Len(d.events)
        BY <3>1, <4>0
      <4>2. CASE n \in (Len(Log) + 1)..Len(c.events)
        <5>1. c.events[n].kind = "edit"
          BY <1>4, <4>2 DEF LaterEdits
        <5>2. n \in 1..Len(c.events)
          BY <4>0, <4>2
        <5>3. M[n].kind = "edit"
          BY <3>5, <4>0, <5>1, <5>2
        <5> HIDE DEF n
        <5> QED
          BY <3>1, <3>2, <5>3
      <4>3. CASE n \in (Len(c.events) + 1)..Len(d.events)
        <5>1. d.events[n].keep = keep
          BY <1>6, <4>3 DEF LaterDecisions
        <5>2. ~Last(M).keep
          BY <2>2, <3>2, <3>5, <5>1
        <5> QED
          BY <3>1, <5>2
      <4> QED
        BY <4>1, <4>2, <4>3
    <3> QED
      BY <3>3, <3>4, <3>5
  <2> QED
    BY <2>1, <2>2
<1> QED
  BY <1>18, <1>19

-----------------------------------------------------------------------------
(* Rewinds.                                                                   *)

(* The events a truncation drops.                                             *)
Dropped(L, k) == SubSeq(L, k, Len(L))

LEMMA DroppedIs ==
  ASSUME NEW L \in Seq(Event), NEW k \in MarksOf(L)
  PROVE  LET S == Dropped(L, k) IN
         /\ S \in Seq(Event) /\ 1 \in MarksOf(S) /\ S[1] = L[k]
         /\ \A j \in MarksOf(S) : S[j] \in Event /\ S[j].kind = "turn" /\ j \in Nat \ {0}
<1> DEFINE S == Dropped(L, k)
<1>1. k \in 1..Len(L) /\ k \in Nat /\ Len(L) \in Nat /\ L[k].kind = "turn"
  BY MarkIndex
<1>2. S \in Seq(Event) /\ Len(S) = Len(L) - k + 1 /\ S[1] = L[k]
  BY <1>1 DEF Dropped
<1> HIDE DEF S
<1>3. DOMAIN S = 1..Len(S) /\ 1 \in 1..Len(S)
  BY <1>1, <1>2
<1>4. 1 \in MarksOf(S)
  BY <1>1, <1>2, <1>3 DEF MarksOf
<1>5. \A j \in MarksOf(S) : S[j] \in Event /\ S[j].kind = "turn" /\ j \in Nat \ {0}
  BY <1>2, MarkIndex
<1> QED
  BY <1>2, <1>4, <1>5 DEF S

(* What a truncation restores are states of files.                            *)
LEMMA PlanTyped ==
  ASSUME NEW L, GoodLog(L), NEW k \in MarksOf(L), NEW plan, plan = RestorePlan(L, k)
  PROVE  /\ DOMAIN plan = Tracked(Dropped(L, k)) /\ DOMAIN plan \subseteq Paths
         /\ \A p \in DOMAIN plan : plan[p] \in State
         /\ \A p \in DOMAIN L[k].pre : p \in DOMAIN plan /\ plan[p] = L[k].pre[p]
<1> DEFINE S == Dropped(L, k)
           K == Before(L, k)
           RecordedIn(p) == {j \in MarksOf(S) : p \in DOMAIN S[j].pre}
<1>1. L \in Seq(Event) /\ WellFormed(L)
  BY GoodIs
<1>2. /\ S \in Seq(Event) /\ 1 \in MarksOf(S) /\ S[1] = L[k]
      /\ \A j \in MarksOf(S) : S[j] \in Event /\ S[j].kind = "turn" /\ j \in Nat \ {0}
  BY <1>1, DroppedIs
<1>3. plan = [p \in Tracked(S) |-> IF RecordedIn(p) # {} THEN S[Min(RecordedIn(p))].pre[p]
                                   ELSE Content(K, p)]
  BY DEF RestorePlan, Dropped, Before
<1>4. WellFormed(K)
  <2>1. k \in 1..(Len(L) + 1)
    BY <1>1, MarkIndex
  <2> QED
    BY <1>1, <2>1, WellFormedPrefix
<1> HIDE DEF S, K
<1>5. \A p : RecordedIn(p) \in SUBSET Nat
  BY <1>2
<1>6. \A p : RecordedIn(p) # {} =>
        /\ Min(RecordedIn(p)) \in RecordedIn(p)
        /\ \A j \in RecordedIn(p) : Min(RecordedIn(p)) <= j
  <2> HIDE DEF RecordedIn
  <2> QED
    BY <1>5, MinOf
<1>7. DOMAIN plan = Tracked(S) /\ Tracked(S) \subseteq Paths
  BY <1>2, <1>3, LogNames
<1>8. ASSUME NEW p \in Tracked(S)
      PROVE  plan[p] \in State
  <2>1. CASE RecordedIn(p) = {}
    <3>1. plan[p] = Content(K, p)
      BY <1>3, <2>1
    <3> QED
      BY <1>4, <3>1, ContentIs
  <2>2. CASE RecordedIn(p) # {}
    <3> DEFINE j == Min(RecordedIn(p))
    <3>1. plan[p] = S[j].pre[p]
      BY <1>3, <2>2
    <3>2. j \in MarksOf(S) /\ p \in DOMAIN S[j].pre
      BY <1>6, <2>2
    <3> HIDE DEF j
    <3>3. S[j].pre \in Known
      BY <1>2, <3>2, MarkFields
    <3> QED
      BY <3>1, <3>2, <3>3, KnownFields
  <2> QED
    BY <2>1, <2>2
<1>9. ASSUME NEW p \in DOMAIN L[k].pre
      PROVE  p \in DOMAIN plan /\ plan[p] = L[k].pre[p]
  <2>1. p \in Tracked(S)
    <3>1. 1 \in DOMAIN S /\ Knows(S[1], p)
      BY <1>2 DEF MarksOf, Knows
    <3> QED
      BY <3>1, TrackedIs
  <2>2. 1 \in RecordedIn(p)
    BY <1>2
  <2>3. Min(RecordedIn(p)) = 1
    <3>1. Min(RecordedIn(p)) \in RecordedIn(p) /\ Min(RecordedIn(p)) <= 1
      BY <1>6, <2>2
    <3>2. RecordedIn(p) \subseteq Nat \ {0}
      BY <1>2
    <3> HIDE DEF RecordedIn
    <3> QED
      BY <3>1, <3>2
  <2>4. plan[p] = S[1].pre[p]
    <3>1. RecordedIn(p) # {}
      BY <2>2
    <3> HIDE DEF RecordedIn
    <3> QED
      BY <1>3, <2>1, <2>3, <3>1
  <2> QED
    BY <1>2, <1>7, <2>1, <2>4
<1> QED
  BY <1>7, <1>8, <1>9 DEF S

(* The plan of a rewind to a message is what was on disk when its turn began, and what
   the log has when it is cut there.                                          *)
LEMMA PlanStarts ==
  ASSUME IInv, NEW i \in 1..(msgs - 1), HasTurn(Log, i),
         NEW k, k = EventIndexOfTurn(Log, i), NEW plan, plan = RestorePlanToTurn(Log, i)
  PROVE  /\ k \in MarksOf(Log) /\ DOMAIN plan \subseteq Paths
         /\ \A p \in DOMAIN plan : plan[p] \in State
         /\ \A p \in Tracked(Before(Log, k)) :
              /\ p \in DOMAIN plan /\ plan[p] = Content(Before(Log, k), p)
              /\ plan[p] = Log[k].begun[p]
<1>1. GoodLog(Log) /\ WellFormed(Log) /\ Log \in Seq(Event) /\ SoundLog(Log) /\ msgs \in Nat
  BY IInvIs
<1>2. i \in Nat /\ i # msgs
  BY <1>1
<1>3. k \in MarksOf(Log) /\ Log[k].turnId = i
  BY <1>1, <1>2, CutIsMark
<1>4. Complete(Log, k)
  BY <1>2, <1>3 DEF IInv, MarksComplete
<1>5. plan = RestorePlan(Log, k)
  BY DEF RestorePlanToTurn
<1>6. /\ DOMAIN plan \subseteq Paths
      /\ \A p \in DOMAIN plan : plan[p] \in State
      /\ \A p \in DOMAIN Log[k].pre : p \in DOMAIN plan /\ plan[p] = Log[k].pre[p]
  BY <1>1, <1>3, <1>5, PlanTyped
<1>7. ASSUME NEW p \in Tracked(Before(Log, k))
      PROVE  /\ p \in DOMAIN plan /\ plan[p] = Content(Before(Log, k), p)
             /\ plan[p] = Log[k].begun[p]
  <2>1. p \in DOMAIN Log[k].pre
    BY <1>4 DEF Complete
  <2>2. plan[p] = Log[k].pre[p] /\ p \in DOMAIN plan
    BY <1>6, <2>1
  <2>3. Log[k].pre[p] = Content(Before(Log, k), p)
    BY <1>1, <1>3, <2>1 DEF SoundLog, MarksSee, Sees
  <2>4. Log[k].pre[p] = Log[k].begun[p]
    <3>1. k \in DOMAIN Log /\ Log[k].kind = "turn"
      BY <1>3 DEF MarksOf
    <3>2. FitsMark(Before(Log, k), Log[k])
      BY <1>1, <3>1 DEF WellFormed, Fits
    <3> QED
      BY <2>1, <3>2 DEF FitsMark
  <2> QED
    BY <2>2, <2>3, <2>4
<1> QED
  BY <1>3, <1>6, <1>7

(* The log is truncated, after the clean files were restored.                 *)
LEMMA TruncateHolds ==
  ASSUME IInv, ~acting, acting' = acting, NEW i \in 1..(msgs - 1), NEW clean \in SUBSET Paths,
         Truncate(i, clean), fork' = NoFork, disk' \in [Paths -> State],
         \A p \in Paths \ clean : disk'[p] = disk[p],
         NEW k, k = EventIndexOfTurn(Log, i), k = 0 => clean = {},
         k # 0 => \A p \in clean \cap Tracked(Before(Log, k)) :
                    Content(Before(Log, k), p) = disk'[p]
  PROVE  IInv' /\ Len(Log') <= Len(Log)
<1>1. /\ cp' = DropTurnsFrom(cp, i) /\ msgs' = i
      /\ dirty' = ((dirty \cup DroppedPaths(i)) \ clean) \cap Tracked(cp'.events)
  BY DEF Truncate
<1>2. /\ IsCp(cp) /\ GoodLog(Log) /\ WellFormed(Log) /\ SoundLog(Log) /\ Log \in Seq(Event)
      /\ msgs \in Nat /\ msgs \in 1..MaxMsgs /\ dirty \in SUBSET Paths
      /\ Len(Log) <= MaxLog /\ Log = cp.events
  BY IInvIs
<1>3. i \in Nat /\ i # msgs /\ i < msgs /\ i \in 1..MaxMsgs
  BY <1>2, CheckpointsAssumption
<1>4. fork'.at = 0 /\ fork'.clean = {} /\ fork' = [at |-> fork'.at, clean |-> fork'.clean]
  BY DEF NoFork
<1>5. MaxLog \in Nat /\ Len(Log) \in Nat
  BY <1>2, CheckpointsAssumption
<1>6. ForkHolds'
  BY <1>4 DEF ForkHolds
<1>7. dirty' \in SUBSET Paths
  <2>1. DroppedPaths(i) \subseteq Paths
    <3>1. DroppedPaths(i) = IF k = 0 THEN {} ELSE Tracked(Dropped(Log, k))
      BY <1>2 DEF DroppedPaths, Dropped
    <3>2. k # 0 => Tracked(Dropped(Log, k)) \subseteq Paths
      <4>1. k # 0 => k \in MarksOf(Log)
        BY <1>2, <1>3, CutIsMark
      <4>2. k # 0 => Dropped(Log, k) \in Seq(Event)
        BY <1>2, <4>1, DroppedIs
      <4> QED
        BY <4>2, LogNames
    <3> QED
      BY <3>1, <3>2
  <2> QED
    BY <1>1, <1>2, <2>1
<1>8. ASSUME IsCp(cp'), Len(Log') <= MaxLog
      PROVE  Typed'
  <2>1. fork'.at \in 0..(msgs' - 1) /\ fork'.clean \in SUBSET Paths
    BY <1>1, <1>3, <1>4
  <2>2. acting' \in BOOLEAN
    <3>1. acting \in BOOLEAN
      BY IInvIs
    <3> QED
      BY <3>1, Zenon
  <2>3. acting' => cp'.open # 0
    OBVIOUS
  <2>4. msgs' \in 1..MaxMsgs
    BY <1>1, <1>3
  <2> QED
    BY <1>4, <1>7, <1>8, <2>1, <2>2, <2>3, <2>4 DEF Typed
<1>9. CASE k = 0
  <2>1. cp' = cp
    BY <1>1, <1>2, <1>9 DEF DropTurnsFrom
  <2>2. Log' = Log
    BY <2>1 DEF Log
  <2>3. Typed'
    BY <1>2, <1>8, <2>1, <2>2
  <2>4. MarksComplete'
    <3>1. \A j \in MarksOf(Log) : Log[j].turnId < i
      BY <1>2, <1>3, <1>9, CutIsMark
    <3>2. \A j \in MarksOf(Log) : Complete(Log, j)
      <4> SUFFICES ASSUME NEW j \in MarksOf(Log), Log[j].turnId = msgs
                   PROVE  FALSE
        BY DEF IInv, MarksComplete
      <4> QED
        BY <1>2, <1>3, <3>1
    <3> QED
      BY <2>2, <3>2 DEF MarksComplete
  <2>5. OpenIsLast'
    BY <2>1, <2>2 DEF IInv, OpenIsLast
  <2>6. ContentIsDisk'
    <3>1. ASSUME NEW p \in Tracked(Log), p \notin dirty'
          PROVE  Content(Log, p) = disk'[p]
      <4>1. p \in Paths /\ p \notin clean
        BY <1>2, <1>9, LogNames
      <4>2. p \notin dirty
        BY <1>1, <1>2, <2>1, <3>1, <4>1
      <4> QED
        BY <4>1, <4>2 DEF IInv, ContentIsDisk
    <3> QED
      BY <2>2, <3>1 DEF ContentIsDisk
  <2> QED
    BY <1>2, <1>5, <1>6, <2>2, <2>3, <2>4, <2>5, <2>6 DEF IInv
<1>10. CASE k # 0
  <2> DEFINE K == Before(Log, k)
  <2>1. /\ k \in MarksOf(Log) /\ k \in 1..Len(Log) /\ k \in 1..(Len(Log) + 1)
        /\ Log[k] \in Event /\ Log[k].kind = "turn"
    <3>1. k \in MarksOf(Log)
      BY <1>2, <1>3, <1>10, CutIsMark
    <3>2. k \in 1..Len(Log) /\ Log[k] \in Event /\ Log[k].kind = "turn"
      BY <1>2, <3>1, MarkIndex
    <3> QED
      BY <1>5, <3>1, <3>2
  <2>2. cp' = [events |-> K, open |-> 0]
    <3>1. cp' = [cp EXCEPT !.events = SubSeq(cp.events, 1, k - 1), !.open = 0]
      BY <1>1, <1>2, <1>10 DEF DropTurnsFrom
    <3>2. SubSeq(cp.events, 1, k - 1) = K
      BY <1>2 DEF Before
    <3> HIDE DEF K
    <3> QED
      BY <1>2, <3>1, <3>2 DEF IsCp
  <2>3. Len(K) = k - 1 /\ Len(K) <= Len(Log)
    <3>1. Len(K) = k - 1
      BY <1>2, <2>1, Prefix
    <3> HIDE DEF K
    <3> QED
      BY <1>5, <2>1, <3>1
  <2>4. GoodLog(K)
    <3>1. SoundLog(K)
      BY <1>2, <2>1, SoundPrefix
    <3>2. KeptHold(K)
      BY <1>2, <2>1 DEF SoundLog
    <3> QED
      BY <3>1, <3>2 DEF GoodLog
  <2> HIDE DEF K
  <2>5. Log' = K /\ cp'.open = 0 /\ IsCp(cp')
    BY <2>2 DEF Log, IsCp
  <2>6. Len(K) <= MaxLog /\ Len(Log') <= MaxLog
    BY <1>2, <1>5, <2>1, <2>3, <2>5
  <2>7. Typed'
    BY <1>8, <2>5, <2>6
  <2>8. MarksComplete'
    <3>1. ASSUME NEW j \in MarksOf(K)
          PROVE  Complete(K, j)
      <4>1. j \in MarksOf(Log) /\ j < k /\ (Complete(K, j) <=> Complete(Log, j))
        BY <1>2, <2>1, CompletePrefix DEF K
      <4>2. j # Len(Log)
        BY <1>5, <2>1, <4>1
      <4> QED
        BY <4>1, <4>2 DEF IInv, MarksComplete
    <3> QED
      BY <2>5, <3>1 DEF MarksComplete
  <2>9. OpenIsLast'
    BY <2>5 DEF OpenIsLast
  <2>10. ContentIsDisk'
    <3>1. ASSUME NEW p \in Tracked(K), p \notin dirty'
          PROVE  Content(K, p) = disk'[p]
      <4>1. CASE p \in clean
        BY <1>10, <3>1, <4>1 DEF K
      <4>2. CASE p \notin clean
        <5>1. cp'.events = K
          BY <2>2
        <5>2. p \notin dirty /\ p \notin DroppedPaths(i)
          BY <1>1, <3>1, <4>2, <5>1
        <5>3. p \in Tracked(Log) /\ p \in Paths
          BY <1>2, <2>1, PrefixWithin, LogNames DEF K
        <5>4. p \notin Tracked(Dropped(Log, k))
          BY <1>2, <1>10, <5>2 DEF DroppedPaths, Dropped
        <5>5. p \notin DOMAIN Log[k].pre
          <6>1. DOMAIN RestorePlan(Log, k) = Tracked(Dropped(Log, k))
                /\ \A q \in DOMAIN Log[k].pre : q \in DOMAIN RestorePlan(Log, k)
            BY <1>2, <2>1, PlanTyped
          <6> QED
            BY <5>4, <6>1
        <5>6. k = Len(Log) /\ cp.open # 0
          <6>1. ~Complete(Log, k)
            BY <3>1, <5>5 DEF Complete, K
          <6> QED
            BY <2>1, <6>1 DEF IInv, MarksComplete
        <5>7. PICK X, m : AtMark(cp, X, m)
          <6>1. Len(Log) > 0 /\ Log[Len(Log)].kind = "turn" /\ Log[Len(Log)].seq = cp.open
            BY <5>6 DEF IInv, OpenIsLast
          <6> QED
            BY <1>2, <5>6, <6>1, OpenTurn
        <5>8. K = X
          <6>1. Log = Append(X, m) /\ X \in Seq(Event) /\ m \in Event /\ Len(Log) = Len(X) + 1
            BY <1>2, <5>7, AtMarkIs DEF AtMark
          <6>2. PICK M : M = Append(X, m)
            OBVIOUS
          <6>3. Before(M, Len(X) + 1) = X
            <7>1. Len(X) + 1 \in 1..(Len(X) + 1)
              BY <6>1
            <7> QED
              BY <6>1, <6>2, <7>1, PrefixOfLonger
          <6>4. M = Log /\ k = Len(X) + 1
            BY <5>6, <6>1, <6>2
          <6> QED
            BY <6>3, <6>4 DEF K
        <5>9. Content(Log, p) = Content(K, p)
          BY <1>2, <3>1, <5>7, <5>8, MarkContents
        <5>10. Content(Log, p) = disk[p]
          BY <5>2, <5>3 DEF IInv, ContentIsDisk
        <5> QED
          BY <4>2, <5>3, <5>9, <5>10
      <4> QED
        BY <4>1, <4>2
    <3> QED
      BY <2>5, <3>1 DEF ContentIsDisk
  <2>11. GoodLog(Log') /\ Len(Log') <= Len(Log)
    BY <2>3, <2>4, <2>5
  <2> QED
    BY <1>6, <2>7, <2>8, <2>9, <2>10, <2>11 DEF IInv
<1> QED
  BY <1>9, <1>10

(* What Restore does of the files.                                            *)
LEMMA RestoreIs ==
  ASSUME NEW plan, NEW done, Restore(plan, done), disk \in [Paths -> State],
         \A p \in DOMAIN plan : plan[p] \in State
  PROVE  /\ disk' \in [Paths -> State] /\ done \subseteq DOMAIN plan
         /\ \A p \in Paths \ done : disk'[p] = disk[p]
         /\ \A p \in Paths \cap done : disk'[p] = plan[p]
<1>1. /\ done \subseteq DOMAIN plan
      /\ disk' = [p \in Paths |-> IF p \in done THEN plan[p] ELSE disk[p]]
  BY DEF Restore
<1> QED
  BY <1>1

(* The plan of a rewind, when there is none.                                  *)
LEMMA NoPlan ==
  ASSUME NEW plan, plan = <<>>
  PROVE  DOMAIN plan = {}
OBVIOUS

LEMMA RewindInPlaceHolds ==
  ASSUME IInv, NEW i \in 1..(msgs - 1), NEW restore \in BOOLEAN, RewindInPlace(i, restore)
  PROVE  IInv' /\ Len(Log') <= Len(Log)
<1>1. PICK plan \in {PlanFor(i, restore)} : \E done \in SUBSET DOMAIN plan :
        Restore(plan, done) /\ Truncate(i, done)
  BY DEF RewindInPlace
<1>2. PICK done \in SUBSET DOMAIN plan : Restore(plan, done) /\ Truncate(i, done)
  BY <1>1
<1>3. ~acting /\ acting' = acting /\ fork' = NoFork
  BY DEF RewindInPlace
<1>4. PICK k : k = EventIndexOfTurn(Log, i)
  OBVIOUS
<1>5. /\ disk \in [Paths -> State] /\ Log = cp.events /\ Log \in Seq(Event) /\ msgs \in Nat
  BY IInvIs
<1>6. i \in Nat
  BY <1>5
<1>7. CASE DOMAIN plan = {}
  <2>1. done = {} /\ \A p \in DOMAIN plan : plan[p] \in State
    BY <1>7
  <2>2. /\ disk' \in [Paths -> State]
        /\ \A p \in Paths \ done : disk'[p] = disk[p]
    BY <1>2, <1>5, <2>1, RestoreIs
  <2>3. /\ done \in SUBSET Paths /\ (k = 0 => done = {})
        /\ k # 0 => \A p \in done \cap Tracked(Before(Log, k)) :
                      Content(Before(Log, k), p) = disk'[p]
    BY <2>1
  <2> QED
    BY <1>2, <1>3, <1>4, <2>2, <2>3, TruncateHolds
<1>8. CASE DOMAIN plan # {}
  <2>1. HasTurn(Log, i) /\ plan = RestorePlanToTurn(Log, i)
    <3>1. plan = IF restore THEN RestorePlanToTurn(Log, i) ELSE <<>>
      BY <1>1, <1>5 DEF PlanFor
    <3>2. plan # <<>>
      BY <1>8, NoPlan
    <3>3. ~HasTurn(Log, i) => RestorePlanToTurn(Log, i) = <<>>
      BY DEF RestorePlanToTurn
    <3> QED
      BY <3>1, <3>2, <3>3
  <2>2. /\ k \in MarksOf(Log) /\ DOMAIN plan \subseteq Paths
        /\ \A p \in DOMAIN plan : plan[p] \in State
        /\ \A p \in Tracked(Before(Log, k)) : plan[p] = Content(Before(Log, k), p)
    BY <1>4, <2>1, PlanStarts
  <2>3. /\ disk' \in [Paths -> State]
        /\ \A p \in Paths \ done : disk'[p] = disk[p]
        /\ \A p \in Paths \cap done : disk'[p] = plan[p]
    BY <1>2, <1>5, <2>2, RestoreIs
  <2>4. k # 0
    <3>1. k \in 1..Len(Log) /\ k \in Nat
      BY <1>5, <2>2, MarkIndex
    <3> QED
      BY <3>1
  <2>5. /\ done \in SUBSET Paths
        /\ \A p \in done \cap Tracked(Before(Log, k)) : Content(Before(Log, k), p) = disk'[p]
    BY <2>2, <2>3
  <2> QED
    BY <1>2, <1>3, <1>4, <2>3, <2>4, <2>5, TruncateHolds
<1> QED
  BY <1>7, <1>8

LEMMA RewindSavedHolds ==
  ASSUME IInv, RewindSaved
  PROVE  IInv' /\ Len(Log') <= Len(Log)
<1>1. /\ fork.at # 0 /\ Truncate(fork.at, fork.clean) /\ fork' = NoFork
      /\ acting' = acting /\ disk' = disk
  BY DEF RewindSaved
<1>2. PICK i : i = fork.at
  OBVIOUS
<1>3. PICK clean : clean = fork.clean
  OBVIOUS
<1>4. PICK k : k = EventIndexOfTurn(Log, i)
  OBVIOUS
<1>5. /\ disk \in [Paths -> State] /\ fork.at \in 0..(msgs - 1) /\ msgs \in Nat
      /\ fork.clean \in SUBSET Paths
  BY IInvIs
<1>6. i \in 1..(msgs - 1) /\ clean \in SUBSET Paths /\ Truncate(i, clean)
  BY <1>1, <1>2, <1>3, <1>5
<1>7. /\ ~acting
      /\ k = 0 => clean = {}
      /\ k # 0 => \A p \in clean \cap Tracked(Before(Log, k)) :
                    Content(Before(Log, k), p) = disk'[p]
  <2>1. Cut(fork.at) = k
    BY <1>2, <1>4 DEF Cut
  <2> QED
    BY <1>1, <1>3, <2>1 DEF IInv, ForkHolds
<1>8. disk' \in [Paths -> State] /\ \A p \in Paths \ clean : disk'[p] = disk[p]
  BY <1>1, <1>5
<1> QED
  BY <1>1, <1>4, <1>6, <1>7, <1>8, TruncateHolds

LEMMA RewindForkHolds ==
  ASSUME IInv, NEW i \in 1..(msgs - 1), RewindFork(i)
  PROVE  IInv' /\ Log' = Log
<1>1. PICK plan \in {RestorePlanToTurn(cp.events, i)} : \E done \in SUBSET DOMAIN plan :
        /\ Restore(plan, done)
        /\ fork' = [at |-> i, clean |-> done]
        /\ dirty' = dirty \cup {p \in done : disk[p] # plan[p]}
  BY DEF RewindFork
<1>2. PICK done \in SUBSET DOMAIN plan :
        /\ Restore(plan, done)
        /\ fork' = [at |-> i, clean |-> done]
        /\ dirty' = dirty \cup {p \in done : disk[p] # plan[p]}
  BY <1>1
<1>3. ~acting /\ acting' = acting /\ cp' = cp /\ msgs' = msgs
  BY DEF RewindFork
<1>4. PICK k : k = EventIndexOfTurn(Log, i)
  OBVIOUS
<1>5. /\ disk \in [Paths -> State] /\ Log = cp.events /\ Log \in Seq(Event) /\ msgs \in Nat
      /\ dirty \in SUBSET Paths
  BY IInvIs
<1>6. Log' = Log
  BY <1>3 DEF Log
<1>7. i \in Nat
  BY <1>5
<1>8. plan = RestorePlanToTurn(Log, i)
  BY <1>1, <1>5
<1>9. /\ DOMAIN plan \subseteq Paths /\ \A p \in DOMAIN plan : plan[p] \in State
      /\ k = 0 => DOMAIN plan = {}
      /\ \A p \in DOMAIN plan : p \in Tracked(Before(Log, k)) => plan[p] = Content(Before(Log, k), p)
  <2>1. CASE HasTurn(Log, i)
    <3>1. /\ k \in MarksOf(Log) /\ DOMAIN plan \subseteq Paths
          /\ \A p \in DOMAIN plan : plan[p] \in State
          /\ \A p \in Tracked(Before(Log, k)) : plan[p] = Content(Before(Log, k), p)
      BY <1>4, <1>8, <2>1, PlanStarts
    <3>2. k # 0
      <4>1. k \in 1..Len(Log) /\ k \in Nat
        BY <1>5, <3>1, MarkIndex
      <4> QED
        BY <4>1
    <3> QED
      BY <3>1, <3>2
  <2>2. CASE ~HasTurn(Log, i)
    <3>1. plan = <<>>
      BY <1>8, <2>2 DEF RestorePlanToTurn
    <3>2. DOMAIN plan = {}
      BY <3>1, NoPlan
    <3> QED
      BY <3>2
  <2> QED
    BY <2>1, <2>2
<1>10. /\ disk' \in [Paths -> State] /\ done \subseteq DOMAIN plan
       /\ \A p \in Paths \ done : disk'[p] = disk[p]
       /\ \A p \in Paths \cap done : disk'[p] = plan[p]
  BY <1>2, <1>5, <1>9, RestoreIs
<1>11. fork'.at = i /\ fork'.clean = done /\ fork' = [at |-> fork'.at, clean |-> fork'.clean]
  BY <1>2
<1>12. Typed'
  <2>1. fork'.at \in 0..(msgs' - 1) /\ fork'.clean \in SUBSET Paths /\ fork'.at # 0
    BY <1>3, <1>5, <1>9, <1>10, <1>11
  <2>2. dirty' \in SUBSET Paths
    BY <1>2, <1>5, <1>9
  <2>3. Typed
    BY DEF IInv
  <2> QED
    BY <1>3, <1>6, <1>10, <1>11, <2>1, <2>2, <2>3 DEF Typed
<1>13. MarksComplete'
  BY <1>3, <1>6 DEF IInv, MarksComplete
<1>14. OpenIsLast'
  BY <1>3, <1>6 DEF IInv, OpenIsLast
<1>15. ForkHolds'
  <2>1. EventIndexOfTurn(Log', fork'.at) = k
    BY <1>4, <1>6, <1>11
  <2>2. k = 0 => fork'.clean = {}
    BY <1>9, <1>10, <1>11
  <2>3. \A p \in fork'.clean \cap Tracked(Before(Log, k)) : Content(Before(Log, k), p) = disk'[p]
    BY <1>9, <1>10, <1>11
  <2>4. ~acting'
    BY <1>3
  <2> QED
    BY <1>6, <2>1, <2>2, <2>3, <2>4 DEF ForkHolds, Cut
<1>16. ContentIsDisk'
  <2>1. ASSUME NEW p \in Tracked(Log), p \notin dirty'
        PROVE  Content(Log, p) = disk'[p]
    <3>1. p \in Paths
      BY <1>5, LogNames
    <3>2. p \notin dirty /\ (p \in done => disk[p] = plan[p])
      BY <1>2, <2>1
    <3>3. disk'[p] = disk[p]
      BY <1>10, <3>1, <3>2
    <3> QED
      BY <3>2, <3>3 DEF IInv, ContentIsDisk
  <2> QED
    BY <1>6, <2>1 DEF ContentIsDisk
<1>17. GoodLog(Log')
  BY <1>6 DEF IInv
<1> QED
  BY <1>6, <1>12, <1>13, <1>14, <1>15, <1>16, <1>17 DEF IInv

LEMMA RewindFailsHolds ==
  ASSUME IInv, RewindFails
  PROVE  IInv' /\ Log' = Log
<1>1. /\ fork' = NoFork /\ cp' = cp /\ acting' = acting /\ msgs' = msgs /\ disk' = disk
      /\ dirty' = dirty
  BY DEF RewindFails
<1>2. Log' = Log
  BY <1>1 DEF Log
<1>3. Typed'
  <2>1. fork'.at = 0 /\ fork'.clean = {} /\ fork' = [at |-> fork'.at, clean |-> fork'.clean]
    BY <1>1 DEF NoFork
  <2>2. fork'.at \in 0..(msgs' - 1)
    <3>1. msgs \in 1..MaxMsgs /\ msgs \in Nat
      BY IInvIs
    <3> QED
      BY <1>1, <2>1, <3>1
  <2>3. Typed
    BY DEF IInv
  <2> QED
    BY <1>1, <1>2, <2>1, <2>2, <2>3 DEF Typed
<1>4. ForkHolds'
  BY <1>1 DEF ForkHolds, NoFork
<1>5. MarksComplete' /\ OpenIsLast'
  BY <1>1, <1>2 DEF IInv, MarksComplete, OpenIsLast
<1>6. ContentIsDisk' /\ GoodLog(Log')
  BY <1>1, <1>2 DEF IInv, ContentIsDisk
<1> QED
  BY <1>2, <1>3, <1>4, <1>5, <1>6 DEF IInv

-----------------------------------------------------------------------------
(* The theorems.                                                              *)

(* A step of the program keeps the invariant.                                 *)
LEMMA NextHolds ==
  ASSUME IInv, [Next]_vars
  PROVE  IInv'
<1>1. ASSUME UNCHANGED vars
      PROVE  IInv'
  <2>1. /\ cp' = cp /\ acting' = acting /\ msgs' = msgs /\ fork' = fork /\ disk' = disk
        /\ dirty' = dirty
    BY <1>1 DEF vars
  <2>2. Log' = Log
    BY <2>1 DEF Log
  <2>3. Typed'
    BY <2>1, <2>2 DEF IInv, Typed
  <2>4. MarksComplete' /\ OpenIsLast'
    BY <2>1, <2>2 DEF IInv, MarksComplete, OpenIsLast
  <2>5. ForkHolds' /\ ContentIsDisk'
    BY <2>1, <2>2 DEF IInv, ForkHolds, Cut, ContentIsDisk
  <2>6. GoodLog(Log')
    BY <2>2 DEF IInv
  <2> QED
    BY <2>3, <2>4, <2>5, <2>6 DEF IInv
<1>2. ASSUME Next
      PROVE  IInv'
  <2>1. Step /\ Len(Log') <= MaxLog
    BY <1>2 DEF Next, Log
  <2>2. CASE StartTurn
    BY <2>1, <2>2, StartTurnHolds
  <2>3. ASSUME NEW p \in Paths, Snapshot(p)
        PROVE  IInv'
    BY <2>1, <2>3, SnapshotHolds
  <2>4. ASSUME NEW p \in Paths, NEW s \in Contents, Write(p, s)
        PROVE  IInv'
    BY <2>4, WriteHolds
  <2>5. CASE EndTurn
    BY <2>1, <2>5, EndTurnHolds
  <2>6. CASE ResetMessages
    BY <2>1, <2>6, ResetMessagesHolds
  <2>7. CASE Look
    BY <2>1, <2>7, LookHolds
  <2>8. ASSUME NEW keep \in BOOLEAN, Review(keep)
        PROVE  IInv'
    BY <2>1, <2>8, ReviewHolds
  <2>9. ASSUME NEW i \in 1..(msgs - 1), RewindFork(i)
        PROVE  IInv'
    BY <2>9, RewindForkHolds
  <2>10. ASSUME NEW i \in 1..(msgs - 1), NEW restore \in BOOLEAN, RewindInPlace(i, restore)
         PROVE  IInv'
    BY <2>10, RewindInPlaceHolds
  <2>11. CASE RewindSaved
    BY <2>11, RewindSavedHolds
  <2>12. CASE RewindFails
    BY <2>12, RewindFailsHolds
  <2> QED
    BY <2>1, <2>2, <2>3, <2>4, <2>5, <2>6, <2>7, <2>8, <2>9, <2>10, <2>11, <2>12 DEF Step
<1> QED
  BY <1>1, <1>2

(* Whatever the tools, the commands and the user do to the files, in a turn or between
   turns, and whatever is reviewed, rewound, cleared or fails: the log is built as a log
   should be, its marks saw what it derives, and it agrees with the disk on every file
   nobody changed behind it.                                                  *)
THEOREM InvariantHolds == Spec => []IInv
<1> QED
  BY InitHolds, NextHolds, PTL DEF Spec

(* The Checkpointer's events have numbers of their own, an open turn has its mark, and the
   agent acts only in an open turn.                                           *)
THEOREM TypeCorrect == Spec => []TypeOK
<1>1. ASSUME IInv
      PROVE  TypeOK
  <2>1. /\ acting \in BOOLEAN /\ msgs \in 1..MaxMsgs /\ fork.at \in 0..(msgs - 1)
        /\ disk \in [Paths -> State] /\ dirty \in SUBSET Paths /\ Len(Log) <= MaxLog
        /\ acting => cp.open # 0
        /\ WellFormed(Log) /\ Log \in Seq(Event)
    BY <1>1, IInvIs
  <2>2. \A i, j \in DOMAIN Log : Log[i].seq = Log[j].seq => i = j
    BY <2>1, WellFormedIs
  <2>3. ASSUME cp.open # 0
        PROVE  \E i \in DOMAIN Log : Log[i].kind = "turn" /\ Log[i].seq = cp.open
    <3>1. Len(Log) > 0 /\ Log[Len(Log)].kind = "turn" /\ Log[Len(Log)].seq = cp.open
      BY <1>1, <2>3 DEF IInv, OpenIsLast
    <3>2. Len(Log) \in DOMAIN Log
      BY <2>1, <3>1
    <3> QED
      BY <3>1, <3>2
  <2>4. msgs \in 0..MaxMsgs
    BY <2>1
  <2>5. \A p \in Paths : disk[p].kind \in {"absent", "binary", "text"}
    BY <2>1, StateFields
  <2>6. dirty \subseteq Paths
    BY <2>1
  <2> QED
    BY <2>1, <2>2, <2>3, <2>4, <2>5, <2>6 DEF TypeOK
<1> QED
  BY <1>1, InvariantHolds, PTL

(* History.content is what is on disk, for every file nobody changed since the log last
   saw it, after any reviews, seals, truncations and restores.                *)
THEOREM ContentStaysDisk == Spec => []ContentIsDisk
<1>1. IInv => ContentIsDisk
  BY DEF IInv
<1> QED
  BY <1>1, InvariantHolds, PTL

(* A hunk is built only on hunks the log has before it, though drift is inserted before
   the mark of the open turn and turns are dropped; and accepted_baseline applies every
   hunk the user kept.                                                        *)
THEOREM DependenciesAlwaysHold == Spec => []DependenciesHold
<1>1. ASSUME IInv
      PROVE  DependenciesHold
  <2>1. WellFormed(Log) /\ Log \in Seq(Event) /\ KeptHold(Log)
    BY <1>1, IInvIs DEF GoodLog
  <2>2. ASSUME NEW p \in Tracked(Log)
        PROVE  Kept(Log, p) \subseteq Accepted(Log, p)
    <3>1. p \in Paths
      BY <2>1, LogNames
    <3> QED
      BY <2>1, <3>1, KeptAccepted
  <2>3. ASSUME NEW p \in Tracked(Log), NEW k \in DOMAIN Log, NEW i \in HunksOf(Log[k], p)
        PROVE  Log[k].hunks[i].deps \subseteq HunkIds(SubSeq(Log, 1, k - 1), p)
    <3>1. IsEditOf(Log[k], p) /\ i \in DOMAIN Log[k].hunks
      BY DEF HunksOf
    <3>2. Log[k].kind = "edit" /\ Log[k].path = p
      BY <3>1 DEF IsEditOf
    <3>3. FitsEdit(Before(Log, k), Log[k])
      BY <2>1, <3>2 DEF WellFormed, Fits
    <3>4. Before(Log, k) = SubSeq(Log, 1, k - 1)
      BY DEF Before
    <3> QED
      BY <3>1, <3>2, <3>3, <3>4 DEF FitsEdit
  <2> QED
    BY <2>2, <2>3 DEF DependenciesHold
<1> QED
  BY <1>1, InvariantHolds, PTL

(* History.restore_plan gives every file the log knew at a message what was on disk when
   that message's turn began.                                                 *)
THEOREM PlanIsAlwaysTheStart == Spec => []PlanIsTheStart
<1>1. ASSUME IInv
      PROVE  PlanIsTheStart
  <2>1. ASSUME NEW i \in 1..(msgs - 1), HasTurn(Log, i),
               NEW k, k = EventIndexOfTurn(Log, i),
               NEW plan, plan = RestorePlanToTurn(Log, i)
        PROVE  \A p \in Tracked(SubSeq(Log, 1, k - 1)) :
                 p \in DOMAIN plan /\ plan[p] = Log[k].begun[p]
    <3>1. \A p \in Tracked(Before(Log, k)) :
            p \in DOMAIN plan /\ plan[p] = Log[k].begun[p]
      BY <1>1, <2>1, PlanStarts
    <3> QED
      BY <3>1 DEF Before
  <2> QED
    BY <2>1 DEF PlanIsTheStart
<1> QED
  BY <1>1, InvariantHolds, PTL

(* ReviewManager.approve_review leaves the files alone, whatever was changed by hand since
   the last look and whatever else is pending or reverted.                    *)
THEOREM ApprovalsLeaveTheFiles == Spec => ApprovalLeavesTheFiles
<1>1. ASSUME IInv, [Next]_vars
      PROVE  Approved => disk' = disk
  <2>1. CASE UNCHANGED vars
    BY <2>1 DEF vars
  <2>2. ASSUME Next
        PROVE  Approved => disk' = disk
    <3>1. Step /\ Len(Log') <= MaxLog
      BY <2>2 DEF Next, Log
    <3>2. Len(Log) \in Nat /\ Len(Log') \in Nat
      <4>1. IInv'
        BY <1>1, NextHolds
      <4>2. Log \in Seq(Event) /\ Log' \in Seq(Event)
        BY <1>1, <4>1, IInvIs, GoodIs DEF IInv
      <4> QED
        BY <4>2
    <3>3. ASSUME Len(Log') <= Len(Log)
          PROVE  ~Approved
      BY <3>2, <3>3 DEF Approved
    <3>4. ASSUME Log' = Log
          PROVE  ~Approved
      BY <3>2, <3>3, <3>4
    <3>5. CASE StartTurn
      BY <3>5 DEF StartTurn
    <3>6. ASSUME NEW p \in Paths, Snapshot(p)
          PROVE  disk' = disk
      BY <3>6 DEF Snapshot
    <3>7. ASSUME NEW p \in Paths, NEW s \in Contents, Write(p, s)
          PROVE  ~Approved
      <4>1. cp' = cp
        BY <3>7 DEF Write
      <4>2. Log' = Log
        BY <4>1 DEF Log
      <4> QED
        BY <3>4, <4>2
    <3>8. CASE EndTurn
      BY <3>8 DEF EndTurn
    <3>9. CASE ResetMessages
      BY <3>9 DEF ResetMessages
    <3>10. CASE Look
      BY <3>10 DEF Look
    <3>11. ASSUME NEW keep \in BOOLEAN, Review(keep)
           PROVE  Approved => disk' = disk
      BY <1>1, <3>1, <3>11, ReviewHolds
    <3>12. ASSUME NEW i \in 1..(msgs - 1), RewindFork(i)
           PROVE  ~Approved
      BY <1>1, <3>4, <3>12, RewindForkHolds
    <3>13. ASSUME NEW i \in 1..(msgs - 1), NEW restore \in BOOLEAN, RewindInPlace(i, restore)
           PROVE  ~Approved
      BY <1>1, <3>3, <3>13, RewindInPlaceHolds
    <3>14. CASE RewindSaved
      BY <3>14 DEF RewindSaved
    <3>15. CASE RewindFails
      BY <3>15 DEF RewindFails
    <3> QED
      BY <3>1, <3>5, <3>6, <3>7, <3>8, <3>9, <3>10, <3>11, <3>12, <3>13, <3>14, <3>15
      DEF Step
  <2> QED
    BY <1>1, <2>1, <2>2
<1>2. IInv /\ [Next]_vars => [(Len(Log') > Len(Log) /\ Last(Log').kind = "decide"
                                /\ Last(Log').keep) => disk' = disk]_vars
  BY <1>1 DEF Approved
<1> QED
  BY <1>2, InvariantHolds, PTL DEF Spec, ApprovalLeavesTheFiles
=============================================================================
