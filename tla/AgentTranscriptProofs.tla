----------------------- MODULE AgentTranscriptProofs -----------------------
(* What AgentTranscript promises, for every value of its bounds.  The history *)
(* is cleaned by recursive functions, so the proofs begin with induction over *)
(* numbers, for sets, and with the functions that such a recursion defines.   *)
EXTENDS AgentTranscript, Integers, TLAPS, WellFoundedInduction, FiniteSetTheorems

(* ------------------------------ induction --------------------------------- *)

(* A set of numbers has a least one.                                          *)
LEMMA Least ==
  ASSUME NEW S \in SUBSET Nat, S # {}
  PROVE  \E n \in S : \A m \in S : n <= m
<1> DEFINE R == {ss \in Nat \X Nat : ss[1] < ss[2]}
<1>1. IsWellFoundedOn(R, Nat)
  BY NatLessThanWellFounded DEF OpToRel
<1>2. PICK n \in S : \A y \in S : ~(<<y, n>> \in R)
  <2> HIDE DEF R
  <2> QED
    BY <1>1, WFMin
<1>3. \A y \in S : ~(y < n)
  BY <1>2 DEF R
<1> QED
  BY <1>3

(* What holds of 0 and passes from a number to the next holds of all.         *)
LEMMA Induction ==
  ASSUME NEW S, 0 \in S, \A n \in Nat : n \in S => n + 1 \in S
  PROVE  \A n \in Nat : n \in S
<1> SUFFICES ASSUME Nat \ S # {}
             PROVE  FALSE
  OBVIOUS
<1>1. PICK n \in Nat \ S : \A m \in Nat \ S : n <= m
  BY Least
<1>2. n # 0 /\ n - 1 \in Nat /\ n - 1 \in S
  BY <1>1
<1> QED
  BY <1>1, <1>2

(* A recursion over the numbers up to N defines a function.                   *)
Unrolls(g, N, base, step) ==
  g[0] = base /\ \A i \in 1..N : g[i] = step[i][g[i - 1]]

(* The function is built one number at a time.                                *)
LEMMA Recursion ==
  ASSUME NEW N \in Nat, NEW V, NEW base \in V, NEW step \in [1..N -> [V -> V]]
  PROVE  \E g \in [0..N -> V] : Unrolls(g, N, base, step)
<1> DEFINE Grows(g, n) == g[0] = base /\ \A i \in 1..n : g[i] = step[i][g[i - 1]]
           S == {n \in Nat : n <= N => \E g \in [0..n -> V] : Grows(g, n)}
<1>1. 0 \in S
  <2>1. [i \in 0..0 |-> base] \in [0..0 -> V] /\ Grows([i \in 0..0 |-> base], 0)
    OBVIOUS
  <2> QED
    BY <2>1
<1>2. ASSUME NEW n \in Nat, n \in S
      PROVE  n + 1 \in S
  <2> SUFFICES ASSUME n + 1 <= N
               PROVE  \E g \in [0..(n + 1) -> V] : Grows(g, n + 1)
    OBVIOUS
  <2>1. PICK g \in [0..n -> V] : Grows(g, n)
    BY <1>2
  <2> DEFINE h == [i \in 0..(n + 1) |-> IF i <= n THEN g[i] ELSE step[n + 1][g[n]]]
  <2>2. step[n + 1] \in [V -> V] /\ g[n] \in V
    BY <2>1
  <2>3. h \in [0..(n + 1) -> V]
    BY <2>1, <2>2
  <2>4. ASSUME NEW i \in 1..(n + 1)
        PROVE  h[i] = step[i][h[i - 1]]
    <3>1. CASE i <= n
      BY <3>1, <2>1
    <3>2. CASE i = n + 1
      BY <3>2
    <3> QED
      BY <3>1, <3>2
  <2>5. h[0] = base
    BY <2>1
  <2> HIDE DEF h
  <2>6. Grows(h, n + 1)
    BY <2>4, <2>5
  <2> QED
    BY <2>3, <2>6
<1>3. N \in S
  <2> HIDE DEF S
  <2> QED
    BY <1>1, <1>2, Induction
<1> QED
  BY <1>3 DEF Unrolls

(* ------------------------------ the readings ------------------------------ *)

(* Calls are called, open and filled in.                                      *)
LEMMA CallsOfABlock ==
  ASSUME NEW s \in Seq(Message), NEW i \in 0..Len(s)
  PROVE  /\ CalledAt(s, i) \in SUBSET Calls
         /\ OpenAt(s, i) \in SUBSET Calls /\ ToFill(s, i) \in SUBSET Calls
<1>1. \A j \in 1..i : s[j].calls \in SUBSET Calls
  BY DEF Message
<1>2. CalledAt(s, i) \in SUBSET Calls
  BY <1>1 DEF CalledAt
<1> QED
  BY <1>2 DEF OpenAt, ToFill

(* R answers each call of C once, in some order, and nothing else.            *)
AnswersExactly(R, C) ==
  /\ R \in Seq(Message)
  /\ \A k \in 1..Len(R) : R[k] = Answered(R[k].of) /\ R[k].of \in C
  /\ \A c \in C : \E k \in 1..Len(R) : R[k].of = c
  /\ \A k, l \in 1..Len(R) : R[k].of = R[l].of => k = l

(* An answer to a call is a message.                                          *)
LEMMA AnsweredIsAMessage ==
  ASSUME NEW c \in Calls
  PROVE  /\ Answered(c) \in Message
         /\ Answered(c).kind = "tool" /\ Answered(c).of = c /\ Answered(c).calls = {}
  BY DEF Answered, Message

(* One answer more, to a call that had none.                                  *)
LEMMA OneMoreAnswer ==
  ASSUME NEW R, NEW C, NEW c \in Calls, c \notin C, AnswersExactly(R, C)
  PROVE  AnswersExactly(Append(R, Answered(c)), C \union {c})
<1> DEFINE a == Answered(c)
           Q == Append(R, a)
<1>1. a \in Message /\ a.of = c
  BY AnsweredIsAMessage
<1>2. R \in Seq(Message)
  BY DEF AnswersExactly
<1>3. /\ Q \in Seq(Message) /\ Len(Q) = Len(R) + 1 /\ Q[Len(R) + 1] = a
      /\ \A k \in 1..Len(R) : Q[k] = R[k]
  <2> HIDE DEF a
  <2> QED
    BY <1>1, <1>2
<1>4. Len(R) \in Nat
  BY <1>2
<1>5. \A k \in 1..Len(Q) : Q[k] = Answered(Q[k].of) /\ Q[k].of \in C \union {c}
  <2> HIDE DEF Q
  <2> QED
    BY <1>1, <1>3, <1>4 DEF AnswersExactly
<1>6. \A d \in C \union {c} : \E k \in 1..Len(Q) : Q[k].of = d
  <2> HIDE DEF Q, a
  <2>1. Len(R) + 1 \in 1..Len(Q) /\ Q[Len(R) + 1].of = c
    BY <1>1, <1>3, <1>4
  <2>2. ASSUME NEW d \in C
        PROVE  \E k \in 1..Len(Q) : Q[k].of = d
    <3>1. PICK k \in 1..Len(R) : R[k].of = d
      BY DEF AnswersExactly
    <3>2. k \in 1..Len(Q) /\ Q[k] = R[k]
      BY <1>3, <1>4
    <3> QED
      BY <3>1, <3>2
  <2> QED
    BY <2>1, <2>2
<1>7. \A k, l \in 1..Len(Q) : Q[k].of = Q[l].of => k = l
  <2> HIDE DEF Q, a
  <2> QED
    BY <1>1, <1>3, <1>4 DEF AnswersExactly
<1> QED
  BY <1>3, <1>5, <1>6, <1>7 DEF AnswersExactly

(* The placeholders of a set of calls answer exactly these.                   *)
LEMMA PlaceholdersAnswer ==
  ASSUME NEW calls \in SUBSET Calls
  PROVE  AnswersExactly(NoResponses(calls), calls)
<1> DEFINE step == [c \in 1..MaxCalls |-> [v \in Seq(Message) |->
                      IF c \in calls THEN Append(v, Answered(c)) ELSE v]]
           Def(f) == [c \in 0..MaxCalls |->
                        IF c = 0 THEN <<>>
                        ELSE IF c \in calls THEN Append(f[c - 1], Answered(c))
                        ELSE f[c - 1]]
           chosen == CHOOSE f : f = Def(f)
<1>0. MaxCalls \in Nat
  BY BoundsAssumption
<1>1. \A c \in 1..MaxCalls : Answered(c) \in Message
  BY AnsweredIsAMessage DEF Calls
<1>2. step \in [1..MaxCalls -> [Seq(Message) -> Seq(Message)]]
  BY <1>1
<1>3. PICK g \in [0..MaxCalls -> Seq(Message)] :
             g[0] = <<>> /\ \A c \in 1..MaxCalls : g[c] = step[c][g[c - 1]]
  <2>1. <<>> \in Seq(Message)
    OBVIOUS
  <2>2. \E g \in [0..MaxCalls -> Seq(Message)] : Unrolls(g, MaxCalls, <<>>, step)
    <3> HIDE DEF step
    <3> QED
      BY <1>0, <1>2, <2>1, Recursion
  <2> QED
    BY <2>2 DEF Unrolls
<1>4. g = Def(g)
  <2>1. ASSUME NEW c \in 1..MaxCalls
        PROVE  g[c] = IF c \in calls THEN Append(g[c - 1], Answered(c)) ELSE g[c - 1]
    <3>1. g[c - 1] \in Seq(Message)
      BY <1>0
    <3>2. g[c] = step[c][g[c - 1]]
      BY <1>3
    <3> QED
      BY <3>1, <3>2
  <2>2. ASSUME NEW c \in 0..MaxCalls
        PROVE  g[c] = IF c = 0 THEN <<>>
                      ELSE IF c \in calls THEN Append(g[c - 1], Answered(c))
                      ELSE g[c - 1]
    <3>1. c = 0 \/ c \in 1..MaxCalls
      BY <1>0
    <3> QED
      BY <1>3, <2>1, <3>1, Zenon
  <2>3. g = [c \in 0..MaxCalls |-> g[c]]
    OBVIOUS
  <2> QED
    BY <2>2, <2>3, Zenon
<1>5. chosen = Def(chosen)
  <2> HIDE DEF Def
  <2> QED
    BY <1>4
<1>6. NoResponses(calls) = chosen[MaxCalls]
  BY DEF NoResponses
<1> HIDE DEF chosen
<1>7. chosen[0] = <<>>
  BY <1>0, <1>5
<1>8. ASSUME NEW c \in 1..MaxCalls
      PROVE  chosen[c] = IF c \in calls THEN Append(chosen[c - 1], Answered(c))
                         ELSE chosen[c - 1]
  <2>1. c \in 0..MaxCalls /\ c # 0
    BY <1>0
  <2> QED
    BY <1>5, <2>1, Zenon
<1>9. \A n \in 0..MaxCalls : AnswersExactly(chosen[n], calls \intersect (1..n))
  <2> DEFINE S == {n \in Nat : n <= MaxCalls
                     => AnswersExactly(chosen[n], calls \intersect (1..n))}
  <2>1. 0 \in S
    <3>1. <<>> \in Seq(Message) /\ Len(<<>>) = 0 /\ calls \intersect (1..0) = {}
      OBVIOUS
    <3>2. AnswersExactly(<<>>, {})
      BY <3>1 DEF AnswersExactly
    <3> QED
      BY <1>7, <3>1, <3>2
  <2>2. ASSUME NEW n \in Nat, n \in S
        PROVE  n + 1 \in S
    <3> SUFFICES ASSUME n + 1 <= MaxCalls
                 PROVE  AnswersExactly(chosen[n + 1], calls \intersect (1..(n + 1)))
      OBVIOUS
    <3>1. /\ n + 1 \in 1..MaxCalls /\ (n + 1) - 1 = n
          /\ AnswersExactly(chosen[n], calls \intersect (1..n))
      BY <1>0, <2>2
    <3>2. chosen[n + 1] = IF n + 1 \in calls THEN Append(chosen[n], Answered(n + 1))
                          ELSE chosen[n]
      BY <1>8, <3>1
    <3>3. CASE n + 1 \in calls
      <4>1. calls \intersect (1..(n + 1)) = (calls \intersect (1..n)) \union {n + 1}
        BY <3>3
      <4>2. n + 1 \notin calls \intersect (1..n) /\ n + 1 \in Calls
        BY <3>1 DEF Calls
      <4> DEFINE R == chosen[n]
                 C == calls \intersect (1..n)
      <4> HIDE DEF R, C
      <4>3. AnswersExactly(R, C) /\ n + 1 \notin C /\ n + 1 \in Calls
        BY <3>1, <4>2 DEF R, C
      <4>4. AnswersExactly(Append(R, Answered(n + 1)), C \union {n + 1})
        BY <4>3, OneMoreAnswer
      <4> QED
        BY <3>2, <3>3, <4>1, <4>4 DEF R, C
    <3>4. CASE n + 1 \notin calls
      <4>1. calls \intersect (1..(n + 1)) = calls \intersect (1..n)
        BY <3>4
      <4> QED
        BY <3>1, <3>2, <3>4, <4>1
    <3> QED
      BY <3>3, <3>4
  <2> HIDE DEF S
  <2>3. \A n \in Nat : n \in S
    BY <2>1, <2>2, Induction
  <2> TAKE n \in 0..MaxCalls
  <2>4. n \in Nat /\ n <= MaxCalls /\ n \in S
    BY <1>0, <2>3
  <2> QED
    BY <2>4 DEF S
<1>10. calls \intersect (1..MaxCalls) = calls
  BY DEF Calls
<1>11. MaxCalls \in 0..MaxCalls
  BY <1>0
<1>12. AnswersExactly(chosen[MaxCalls], calls \intersect (1..MaxCalls))
  BY <1>9, <1>11
<1> QED
  BY <1>6, <1>10, <1>12

(* The history is rebuilt message by message.                                 *)
LEMMA CleanedToIsRead ==
  ASSUME NEW s \in Seq(Message)
  PROVE  LET out == CleanedTo(s)
         IN  /\ out \in [0..Len(s) -> Seq(Message)]
             /\ out[0] = <<>>
             /\ \A i \in 1..Len(s) :
                    out[i] = IF s[i].kind = "tool" THEN Append(out[i - 1], s[i])
                             ELSE Append(out[i - 1]
                                           \o NoResponses(ToFill(s, i - 1)), s[i])
<1> DEFINE More(i) == NoResponses(ToFill(s, i - 1))
           step == [i \in 1..Len(s) |-> [v \in Seq(Message) |->
                      IF s[i].kind = "tool" THEN Append(v, s[i])
                      ELSE Append(v \o More(i), s[i])]]
           Def(f) == [i \in 0..Len(s) |->
                        IF i = 0 THEN <<>>
                        ELSE IF s[i].kind = "tool" THEN Append(f[i - 1], s[i])
                        ELSE Append(f[i - 1] \o More(i), s[i])]
           chosen == CHOOSE f : f = Def(f)
<1>6. CleanedTo(s) = chosen
  BY DEF CleanedTo
<1>1. \A i \in 1..Len(s) : s[i] \in Message /\ More(i) \in Seq(Message)
  <2> TAKE i \in 1..Len(s)
  <2>1. i - 1 \in 0..Len(s)
    OBVIOUS
  <2>2. ToFill(s, i - 1) \in SUBSET Calls
    BY <2>1, CallsOfABlock
  <2> QED
    BY <2>2, PlaceholdersAnswer DEF AnswersExactly
<1> HIDE DEF More
<1>2. step \in [1..Len(s) -> [Seq(Message) -> Seq(Message)]]
  <2>1. ASSUME NEW i \in 1..Len(s), NEW v \in Seq(Message)
        PROVE  Append(v, s[i]) \in Seq(Message)
               /\ Append(v \o More(i), s[i]) \in Seq(Message)
    BY <1>1
  <2> QED
    BY <2>1
<1>3. PICK g \in [0..Len(s) -> Seq(Message)] :
             g[0] = <<>> /\ \A i \in 1..Len(s) : g[i] = step[i][g[i - 1]]
  <2>1. <<>> \in Seq(Message) /\ Len(s) \in Nat
    OBVIOUS
  <2>2. \E g \in [0..Len(s) -> Seq(Message)] : Unrolls(g, Len(s), <<>>, step)
    <3> HIDE DEF step
    <3> QED
      BY <1>2, <2>1, Recursion
  <2> QED
    BY <2>2 DEF Unrolls
<1>4. g = Def(g)
  <2>1. ASSUME NEW i \in 1..Len(s)
        PROVE  g[i] = IF s[i].kind = "tool" THEN Append(g[i - 1], s[i])
                      ELSE Append(g[i - 1] \o More(i), s[i])
    <3>1. g[i - 1] \in Seq(Message)
      OBVIOUS
    <3>2. g[i] = step[i][g[i - 1]]
      BY <1>3
    <3> QED
      BY <3>1, <3>2
  <2>2. ASSUME NEW i \in 0..Len(s)
        PROVE  g[i] = IF i = 0 THEN <<>>
                      ELSE IF s[i].kind = "tool" THEN Append(g[i - 1], s[i])
                      ELSE Append(g[i - 1] \o More(i), s[i])
    <3>1. i = 0 \/ i \in 1..Len(s)
      OBVIOUS
    <3> QED
      BY <1>3, <2>1, <3>1, Zenon
  <2>3. g = [i \in 0..Len(s) |-> g[i]]
    OBVIOUS
  <2> QED
    BY <2>2, <2>3, Zenon
<1>5. chosen = Def(chosen)
  <2> HIDE DEF Def
  <2> QED
    BY <1>4
<1> HIDE DEF chosen
<1>7. chosen[0] = <<>>
  BY <1>5
<1>8. ASSUME NEW i \in 1..Len(s)
      PROVE  chosen[i] = IF s[i].kind = "tool" THEN Append(chosen[i - 1], s[i])
                         ELSE Append(chosen[i - 1] \o More(i), s[i])
  <2>1. i \in 0..Len(s) /\ i # 0
    OBVIOUS
  <2> QED
    BY <1>5, <2>1, Zenon
<1>9. \A i \in 0..Len(s) : chosen[i] \in Seq(Message)
  <2> DEFINE S == {n \in Nat : n <= Len(s) => chosen[n] \in Seq(Message)}
  <2>1. 0 \in S
    <3>1. <<>> \in Seq(Message)
      OBVIOUS
    <3> QED
      BY <1>7, <3>1
  <2>2. ASSUME NEW n \in Nat, n \in S
        PROVE  n + 1 \in S
    <3> SUFFICES ASSUME n + 1 <= Len(s)
                 PROVE  chosen[n + 1] \in Seq(Message)
      OBVIOUS
    <3>1. n + 1 \in 1..Len(s) /\ (n + 1) - 1 = n /\ chosen[n] \in Seq(Message)
      BY <2>2
    <3>2. \/ chosen[n + 1] = Append(chosen[n], s[n + 1])
          \/ chosen[n + 1] = Append(chosen[n] \o More(n + 1), s[n + 1])
      BY <1>8, <3>1
    <3>3. s[n + 1] \in Message /\ More(n + 1) \in Seq(Message)
      BY <3>1, <1>1
    <3> HIDE DEF S
    <3>4. /\ Append(chosen[n], s[n + 1]) \in Seq(Message)
          /\ Append(chosen[n] \o More(n + 1), s[n + 1]) \in Seq(Message)
      BY <3>1, <3>3
    <3> QED
      BY <3>2, <3>4
  <2> HIDE DEF S
  <2>3. \A n \in Nat : n \in S
    BY <2>1, <2>2, Induction
  <2> QED
    BY <2>3 DEF S
<1>10. chosen \in [0..Len(s) -> Seq(Message)]
  BY <1>5, <1>9
<1> QED
  BY <1>6, <1>7, <1>8, <1>10 DEF More

(* ------------------------------ transcripts ------------------------------- *)

(* The calls a transcript makes, those it answers, and those of the message   *)
(* that is followed by nothing but answers.                                   *)
AskedIn(s) == {c \in Calls : \E i \in 1..Len(s) : c \in s[i].calls}

AnsweredIn(s) ==
  {c \in Calls : \E j \in 1..Len(s) : s[j].kind = "tool" /\ s[j].of = c}

InReach(s) ==
  {c \in Calls : \E i \in 1..Len(s) :
                   /\ c \in s[i].calls
                   /\ \A k \in (i + 1)..Len(s) : s[k].kind = "tool"}

Missing(s) == AskedIn(s) \ AnsweredIn(s)
Waiting(s) == InReach(s) \ AnsweredIn(s)

(* An answer stands in the block of answers that follows its call, a call has *)
(* one answer at most, and no call is made twice.                             *)
AnswersInPlace(s) ==
  \A j \in 1..Len(s) : s[j].kind = "tool"
    => \E i \in 1..Len(s) : /\ i < j /\ s[j].of \in s[i].calls
                            /\ \A k \in (i + 1)..j : s[k].kind = "tool"

AnsweredOnce(s) ==
  \A i, j \in 1..Len(s) :
    s[i].kind = "tool" /\ s[j].kind = "tool" /\ s[i].of = s[j].of => i = j

AskedOnce(s) ==
  \A i, j \in 1..Len(s), c \in Calls : c \in s[i].calls /\ c \in s[j].calls => i = j

Blocks(s) == AnswersInPlace(s) /\ AnsweredOnce(s) /\ AskedOnce(s)

(* The kinds of messages and their fields.                                    *)
LEMMA MessageFields ==
  ASSUME NEW m \in Message
  PROVE  /\ m.calls \in SUBSET Calls
         /\ m.kind = "tool" => m = Answered(m.of) /\ m.of \in Calls /\ m.calls = {}
         /\ m.kind # "tool" => m.of = 0
         /\ m.kind \notin {"tool", "assistant"} => m.calls = {}
  BY DEF Message, Answered, Kinds

(* Only calls that were made are answered.                                    *)
LEMMA AnswersAreToCalls ==
  ASSUME NEW s \in Seq(Message), AnswersInPlace(s)
  PROVE  AnsweredIn(s) \subseteq AskedIn(s)
  BY DEF AnsweredIn, AskedIn, AnswersInPlace

(* A message that is no answer closes the block before it and opens its own.  *)
LEMMA AfterAMessage ==
  ASSUME NEW s \in Seq(Message), NEW m \in Message, m.kind # "tool"
  PROVE  /\ Append(s, m) \in Seq(Message)
         /\ AskedIn(Append(s, m)) = AskedIn(s) \union m.calls
         /\ AnsweredIn(Append(s, m)) = AnsweredIn(s)
         /\ InReach(Append(s, m)) = m.calls
<1> DEFINE t == Append(s, m)
<1>1. /\ t \in Seq(Message) /\ Len(t) = Len(s) + 1 /\ t[Len(s) + 1] = m
      /\ \A k \in 1..Len(s) : t[k] = s[k]
      /\ Len(s) \in Nat
  OBVIOUS
<1>2. m.calls \in SUBSET Calls
  BY MessageFields
<1> HIDE DEF t
<1>3. AskedIn(t) = AskedIn(s) \union m.calls
  BY <1>1, <1>2 DEF AskedIn
<1>4. AnsweredIn(t) = AnsweredIn(s)
  BY <1>1 DEF AnsweredIn
<1>5. InReach(t) = m.calls
  <2>1. ASSUME NEW c \in Calls, c \in InReach(t)
        PROVE  c \in m.calls
    <3>1. PICK i \in 1..Len(t) : /\ c \in t[i].calls
                                 /\ \A k \in (i + 1)..Len(t) : t[k].kind = "tool"
      BY <2>1 DEF InReach
    <3>2. i = Len(s) + 1
      BY <3>1, <1>1
    <3> QED
      BY <3>1, <3>2, <1>1
  <2>2. ASSUME NEW c \in m.calls
        PROVE  c \in InReach(t)
    <3>1. Len(s) + 1 \in 1..Len(t) /\ (Len(s) + 2)..Len(t) = {}
      BY <1>1
    <3> QED
      BY <1>1, <1>2, <3>1 DEF InReach
  <2>3. InReach(t) \subseteq Calls
    BY DEF InReach
  <2> QED
    BY <2>1, <2>2, <2>3
<1> QED
  BY <1>1, <1>3, <1>4, <1>5 DEF t

(* It leaves every answer in its block, if its calls are new.                 *)
LEMMA MessageKeepsBlocks ==
  ASSUME NEW s \in Seq(Message), NEW m \in Message, m.kind # "tool",
         Blocks(s), m.calls \intersect AskedIn(s) = {}
  PROVE  /\ Blocks(Append(s, m))
         /\ Missing(Append(s, m)) = Missing(s) \union m.calls
         /\ Waiting(Append(s, m)) = m.calls
<1> DEFINE t == Append(s, m)
<1>1. /\ t \in Seq(Message) /\ Len(t) = Len(s) + 1 /\ t[Len(s) + 1] = m
      /\ \A k \in 1..Len(s) : t[k] = s[k]
      /\ Len(s) \in Nat
  OBVIOUS
<1>2. AnsweredIn(s) \intersect m.calls = {}
  BY AnswersAreToCalls DEF Blocks
<1>3. /\ Missing(t) = Missing(s) \union m.calls
      /\ Waiting(t) = m.calls
  BY <1>2, AfterAMessage DEF Missing, Waiting
<1> HIDE DEF t
<1>4. AnswersInPlace(t)
  <2> SUFFICES ASSUME NEW j \in 1..Len(t), t[j].kind = "tool"
               PROVE  \E i \in 1..Len(t) : /\ i < j /\ t[j].of \in t[i].calls
                                           /\ \A k \in (i + 1)..j : t[k].kind = "tool"
    BY DEF AnswersInPlace
  <2>1. j \in 1..Len(s) /\ t[j] = s[j]
    BY <1>1
  <2>2. PICK i \in 1..Len(s) : /\ i < j /\ s[j].of \in s[i].calls
                               /\ \A k \in (i + 1)..j : s[k].kind = "tool"
    BY <2>1 DEF Blocks, AnswersInPlace
  <2>3. i \in 1..Len(t) /\ t[i] = s[i] /\ \A k \in (i + 1)..j : t[k] = s[k]
    BY <1>1, <2>1
  <2> QED
    BY <2>1, <2>2, <2>3
<1>5. AnsweredOnce(t)
  BY <1>1 DEF Blocks, AnsweredOnce
<1>6. AskedOnce(t)
  <2> SUFFICES ASSUME NEW i \in 1..Len(t), NEW j \in 1..Len(t), NEW c \in Calls,
                      c \in t[i].calls, c \in t[j].calls, i < j
               PROVE  FALSE
    BY <1>1 DEF AskedOnce
  <2>1. i \in 1..Len(s) /\ t[i] = s[i] /\ c \in AskedIn(s)
    BY <1>1 DEF AskedIn
  <2>2. j \in 1..Len(s) \/ t[j] = m
    BY <1>1
  <2>3. CASE j \in 1..Len(s)
    BY <2>1, <2>3, <1>1 DEF Blocks, AskedOnce
  <2> QED
    BY <2>1, <2>2, <2>3
<1> QED
  BY <1>3, <1>4, <1>5, <1>6 DEF t, Blocks

(* Answers to calls in reach, each to one not answered yet, go in its block.  *)
LEMMA AnswersKeepBlocks ==
  ASSUME NEW s \in Seq(Message), Blocks(s),
         NEW C \in SUBSET Waiting(s), NEW R, AnswersExactly(R, C)
  PROVE  /\ s \o R \in Seq(Message)
         /\ Blocks(s \o R)
         /\ AskedIn(s \o R) = AskedIn(s)
         /\ Missing(s \o R) = Missing(s) \ C
         /\ Waiting(s \o R) = Waiting(s) \ C
<1> DEFINE t == s \o R
           n == Len(s)
<1>1. /\ R \in Seq(Message) /\ n \in Nat /\ Len(R) \in Nat
      /\ t \in Seq(Message) /\ Len(t) = n + Len(R)
      /\ \A k \in 1..n : t[k] = s[k]
      /\ \A k \in 1..Len(R) : t[n + k] = R[k]
  BY DEF AnswersExactly
<1>2. C \subseteq Calls /\ C \subseteq AskedIn(s)
  BY DEF Waiting, InReach, AskedIn
<1> HIDE DEF t, n
<1>1a. ASSUME NEW k \in 1..Len(t), k > n
       PROVE  k - n \in 1..Len(R) /\ t[k] = R[k - n]
  <2>1. k - n \in 1..Len(R) /\ n + (k - n) = k
    BY <1>1, <1>1a
  <2>2. t[n + (k - n)] = R[k - n]
    BY <1>1, <2>1
  <2> QED
    BY <2>1, <2>2
<1>3. ASSUME NEW k \in 1..Len(t), k > n
      PROVE  t[k].kind = "tool" /\ t[k].of \in C /\ t[k].calls = {}
  <2>1. k - n \in 1..Len(R) /\ t[k] = R[k - n]
    BY <1>1a, <1>3
  <2>2. R[k - n] = Answered(R[k - n].of) /\ R[k - n].of \in C
    BY <2>1 DEF AnswersExactly
  <2> QED
    BY <2>1, <2>2, <1>2, AnsweredIsAMessage
<1>4. \A k \in 1..Len(t) : (k <= n /\ k \in 1..n) \/ k > n
  BY <1>1
<1>5. AskedIn(t) = AskedIn(s)
  <2>1. ASSUME NEW c \in Calls, NEW i \in 1..Len(t), c \in t[i].calls
        PROVE  i \in 1..n /\ c \in s[i].calls
    <3>1. i \in 1..n
      BY <1>3, <1>4, <2>1
    <3> QED
      BY <1>1, <2>1, <3>1
  <2>2. ASSUME NEW c \in Calls, NEW i \in 1..n, c \in s[i].calls
        PROVE  i \in 1..Len(t) /\ c \in t[i].calls
    BY <1>1, <2>2
  <2> QED
    BY <2>1, <2>2 DEF AskedIn, n
<1>6. AnsweredIn(t) = AnsweredIn(s) \union C
  <2>1. ASSUME NEW c \in Calls, c \in AnsweredIn(t)
        PROVE  c \in AnsweredIn(s) \union C
    <3>1. PICK j \in 1..Len(t) : t[j].kind = "tool" /\ t[j].of = c
      BY <2>1 DEF AnsweredIn
    <3>2. CASE j \in 1..n
      BY <1>1, <3>1, <3>2 DEF AnsweredIn, n
    <3>3. CASE j > n
      BY <1>3, <3>1, <3>3
    <3> QED
      BY <1>4, <3>2, <3>3
  <2>2. ASSUME NEW c \in C
        PROVE  c \in AnsweredIn(t)
    <3>1. PICK k \in 1..Len(R) : R[k].of = c
      BY DEF AnswersExactly
    <3>2. n + k \in 1..Len(t) /\ n + k > n /\ t[n + k] = R[k]
      BY <1>1
    <3>3. t[n + k].kind = "tool" /\ t[n + k].of = c
      BY <1>3, <3>1, <3>2
    <3> QED
      BY <1>2, <3>2, <3>3 DEF AnsweredIn
  <2>3. AnsweredIn(s) \subseteq AnsweredIn(t)
    BY <1>1 DEF AnsweredIn, n
  <2>4. AnsweredIn(t) \subseteq Calls
    BY DEF AnsweredIn
  <2> QED
    BY <2>1, <2>2, <2>3, <2>4
<1>7. InReach(t) = InReach(s)
  <2>1. ASSUME NEW c \in Calls, c \in InReach(t)
        PROVE  c \in InReach(s)
    <3>1. PICK i \in 1..Len(t) : /\ c \in t[i].calls
                                 /\ \A k \in (i + 1)..Len(t) : t[k].kind = "tool"
      BY <2>1 DEF InReach
    <3>2. i \in 1..n
      BY <1>3, <1>4, <3>1
    <3>3. \A k \in (i + 1)..n : s[k].kind = "tool"
      BY <1>1, <3>1, <3>2
    <3> QED
      BY <1>1, <3>1, <3>2, <3>3 DEF InReach, n
  <2>2. ASSUME NEW c \in Calls, c \in InReach(s)
        PROVE  c \in InReach(t)
    <3>1. PICK i \in 1..n : /\ c \in s[i].calls
                            /\ \A k \in (i + 1)..n : s[k].kind = "tool"
      BY <2>2 DEF InReach, n
    <3>2. \A k \in (i + 1)..Len(t) : t[k].kind = "tool"
      BY <1>1, <1>3, <1>4, <3>1
    <3>3. i \in 1..Len(t) /\ c \in t[i].calls
      BY <1>1, <3>1
    <3> QED
      BY <3>2, <3>3 DEF InReach
  <2> QED
    BY <2>1, <2>2 DEF InReach
<1>8. /\ Missing(t) = Missing(s) \ C
      /\ Waiting(t) = Waiting(s) \ C
  BY <1>5, <1>6, <1>7 DEF Missing, Waiting
<1>9. AnswersInPlace(t)
  <2> SUFFICES ASSUME NEW j \in 1..Len(t), t[j].kind = "tool"
               PROVE  \E i \in 1..Len(t) : /\ i < j /\ t[j].of \in t[i].calls
                                           /\ \A k \in (i + 1)..j : t[k].kind = "tool"
    BY DEF AnswersInPlace
  <2>1. CASE j \in 1..n
    <3>1. s[j].kind = "tool" /\ t[j] = s[j]
      BY <1>1, <2>1
    <3>2. PICK i \in 1..n : /\ i < j /\ s[j].of \in s[i].calls
                            /\ \A k \in (i + 1)..j : s[k].kind = "tool"
      BY <2>1, <3>1 DEF Blocks, AnswersInPlace, n
    <3>3. i \in 1..Len(t) /\ t[i] = s[i] /\ \A k \in (i + 1)..j : t[k] = s[k]
      BY <1>1, <2>1
    <3> QED
      BY <3>1, <3>2, <3>3
  <2>2. CASE j > n
    <3>1. t[j].of \in InReach(t)
      BY <1>3, <1>7, <2>2 DEF Waiting
    <3>2. PICK i \in 1..Len(t) : /\ t[j].of \in t[i].calls
                                 /\ \A k \in (i + 1)..Len(t) : t[k].kind = "tool"
      BY <3>1 DEF InReach
    <3>3. i < j
      <4>1. i <= n
        BY <1>3, <1>4, <3>2
      <4> QED
        BY <4>1, <2>2, <1>1
    <3>4. \A k \in (i + 1)..j : k \in (i + 1)..Len(t)
      BY <1>1
    <3> QED
      BY <3>2, <3>3, <3>4, Zenon
  <2> QED
    BY <1>4, <2>1, <2>2
<1>10. AnsweredOnce(t)
  <2> SUFFICES ASSUME NEW i \in 1..Len(t), NEW j \in 1..Len(t), i < j,
                      t[i].kind = "tool", t[j].kind = "tool", t[i].of = t[j].of
               PROVE  FALSE
    BY <1>1 DEF AnsweredOnce
  <2>1. CASE j \in 1..n
    <3>1. i \in 1..n
      BY <1>1, <2>1
    <3>2. s[i] = t[i] /\ s[j] = t[j]
      BY <1>1, <2>1, <3>1
    <3>3. i = j
      BY <2>1, <3>1, <3>2 DEF Blocks, AnsweredOnce, n
    <3> QED
      BY <3>3
  <2>2. CASE i \in 1..n /\ j > n
    <3>1. t[i].of \in C /\ t[i] = s[i]
      BY <1>1, <1>3, <2>2
    <3>2. t[i].of \in AnsweredIn(s)
      BY <1>2, <2>2, <3>1 DEF AnsweredIn, n
    <3> QED
      BY <3>1, <3>2 DEF Waiting
  <2>3. CASE i > n /\ j > n
    <3>1. i - n \in 1..Len(R) /\ j - n \in 1..Len(R)
      BY <1>1, <2>3
    <3>2. t[i] = R[i - n] /\ t[j] = R[j - n]
      BY <1>1a, <2>3
    <3>3. i - n = j - n
      BY <3>1, <3>2 DEF AnswersExactly
    <3> QED
      BY <1>1, <3>3
  <2> QED
    BY <1>1, <1>4, <2>1, <2>2, <2>3
<1>11. AskedOnce(t)
  <2> SUFFICES ASSUME NEW i \in 1..Len(t), NEW j \in 1..Len(t), NEW c \in Calls,
                      c \in t[i].calls, c \in t[j].calls
               PROVE  i = j
    BY DEF AskedOnce
  <2>1. i \in 1..n /\ j \in 1..n
    BY <1>3, <1>4
  <2> QED
    BY <1>1, <2>1 DEF Blocks, AskedOnce, n
<1> QED
  BY <1>1, <1>5, <1>8, <1>9, <1>10, <1>11 DEF t, Blocks

(* The same, of one answer.                                                   *)
LEMMA AnAnswerKeepsBlocks ==
  ASSUME NEW s \in Seq(Message), Blocks(s), NEW c \in Waiting(s)
  PROVE  /\ Append(s, Answered(c)) \in Seq(Message)
         /\ Blocks(Append(s, Answered(c)))
         /\ AskedIn(Append(s, Answered(c))) = AskedIn(s)
         /\ Missing(Append(s, Answered(c))) = Missing(s) \ {c}
         /\ Waiting(Append(s, Answered(c))) = Waiting(s) \ {c}
<1>1. c \in Calls
  BY DEF Waiting, InReach
<1>2. /\ Answered(c) \in Message /\ Answered(c).of = c
      /\ Answered(c).kind = "tool" /\ Answered(c).calls = {}
  BY <1>1, AnsweredIsAMessage
<1> DEFINE a == Answered(c)
<1>3. Append(s, a) = s \o <<a>>
  <2> HIDE DEF a
  <2> QED
    BY <1>2 DEF a
<1>4. AnswersExactly(<<a>>, {c})
  <2>1. /\ <<a>> \in Seq(Message) /\ Len(<<a>>) = 1 /\ <<a>>[1] = a
        /\ a = Answered(a.of) /\ a.of = c
    BY <1>2
  <2> HIDE DEF a
  <2> QED
    BY <2>1 DEF AnswersExactly
<1>5. {c} \in SUBSET Waiting(s)
  OBVIOUS
<1> HIDE DEF a
<1>6. /\ s \o <<a>> \in Seq(Message)
      /\ Blocks(s \o <<a>>)
      /\ AskedIn(s \o <<a>>) = AskedIn(s)
      /\ Missing(s \o <<a>>) = Missing(s) \ {c}
      /\ Waiting(s \o <<a>>) = Waiting(s) \ {c}
  BY <1>4, <1>5, AnswersKeepBlocks
<1> QED
  BY <1>3, <1>6 DEF a

(* With every call answered, the answers of a message are the messages right  *)
(* after it, as many as it has calls.                                         *)
LEMMA NothingMissingIsAllAnswered ==
  ASSUME NEW s \in Seq(Message), Blocks(s), Missing(s) = {}
  PROVE  AllAnswered(s)
<1>1. ASSUME NEW i \in DOMAIN s, NEW j \in DOMAIN s, s[i].of = s[j].of, s[i].of # 0
      PROVE  i = j
  <2>1. s[i] \in Message /\ s[j] \in Message /\ i \in 1..Len(s) /\ j \in 1..Len(s)
    OBVIOUS
  <2>2. s[i].kind = "tool" /\ s[j].kind = "tool"
    BY <1>1, <2>1, MessageFields
  <2> QED
    BY <1>1, <2>1, <2>2 DEF Blocks, AnsweredOnce
<1>2. ASSUME NEW i \in DOMAIN s
      PROVE  LET n == Cardinality(s[i].calls)
             IN  /\ i + n <= Len(s)
                 /\ {s[j].of : j \in (i + 1)..(i + n)} = s[i].calls
  <2>0. /\ i \in 1..Len(s) /\ Len(s) \in Nat /\ s[i] \in Message
        /\ \A k \in 1..Len(s) : s[k] \in Message
    OBVIOUS
  <2>1. CASE s[i].calls = {}
    <3>1. Cardinality(s[i].calls) = 0
      BY <2>1, FS_EmptySet
    <3> QED
      BY <2>0, <2>1, <3>1
  <2>2. CASE s[i].calls # {}
    <3>1. s[i].kind # "tool" /\ s[i].calls \subseteq Calls
      BY <2>0, <2>2, MessageFields
    <3> DEFINE E == {e \in Nat : /\ i <= e /\ e <= Len(s)
                                 /\ e = Len(s) \/ s[e + 1].kind # "tool"}
    <3>2. PICK e \in E : \A d \in E : e <= d
      <4>1. Len(s) \in E /\ E \in SUBSET Nat
        BY <2>0
      <4> HIDE DEF E
      <4> QED
        BY <4>1, Least
    <3>3. /\ e \in Nat /\ i <= e /\ e <= Len(s)
          /\ e = Len(s) \/ s[e + 1].kind # "tool"
      OBVIOUS
    <3>4. ASSUME NEW k \in (i + 1)..e
          PROVE  s[k].kind = "tool"
      <4> SUFFICES ASSUME s[k].kind # "tool"
                   PROVE  FALSE
        OBVIOUS
      <4>1. k - 1 \in Nat /\ i <= k - 1 /\ k - 1 <= Len(s) /\ (k - 1) + 1 = k
        BY <2>0, <3>3
      <4>2. k - 1 \in E
        BY <4>1
      <4> QED
        BY <3>2, <3>3, <4>2
    <3> HIDE DEF E
    <3>5. ASSUME NEW j \in (i + 1)..e
          PROVE  s[j].of \in s[i].calls
      <4>1. j \in 1..Len(s) /\ s[j].kind = "tool"
        BY <2>0, <3>3, <3>4
      <4>2. PICK h \in 1..Len(s) : /\ h < j /\ s[j].of \in s[h].calls
                                   /\ \A k \in (h + 1)..j : s[k].kind = "tool"
        BY <4>1 DEF Blocks, AnswersInPlace
      <4>3. s[h].kind # "tool"
        BY <2>0, <4>2, MessageFields
      <4>4. ~(h < i)
        BY <2>0, <3>1, <4>2
      <4>5. ~(i < h)
        BY <2>0, <3>3, <3>4, <4>2, <4>3
      <4> QED
        BY <2>0, <4>2, <4>4, <4>5
    <3>6. ASSUME NEW c \in s[i].calls
          PROVE  \E j \in (i + 1)..e : s[j].of = c
      <4>1. c \in AnsweredIn(s)
        BY <2>0, <3>1 DEF Missing, AskedIn
      <4>2. PICK j \in 1..Len(s) : s[j].kind = "tool" /\ s[j].of = c
        BY <4>1 DEF AnsweredIn
      <4>3. PICK h \in 1..Len(s) : /\ h < j /\ c \in s[h].calls
                                   /\ \A k \in (h + 1)..j : s[k].kind = "tool"
        BY <4>2 DEF Blocks, AnswersInPlace
      <4>4. h = i
        BY <2>0, <3>1, <4>3 DEF Blocks, AskedOnce
      <4>5. j <= e
        BY <2>0, <3>3, <4>2, <4>3, <4>4
      <4> QED
        BY <2>0, <3>3, <4>2, <4>3, <4>4, <4>5
    <3> DEFINE S == (i + 1)..e
               T == s[i].calls
               f == [j \in S |-> s[j].of]
    <3>7. f \in Bijection(S, T)
      <4>1. f \in [S -> T]
        BY <3>5
      <4>2. ASSUME NEW a \in S, NEW b \in S, f[a] = f[b]
            PROVE  a = b
        <5>1. a \in 1..Len(s) /\ b \in 1..Len(s)
          BY <2>0, <3>3
        <5>2. s[a].kind = "tool" /\ s[b].kind = "tool"
          BY <3>4
        <5> QED
          BY <4>2, <5>1, <5>2 DEF Blocks, AnsweredOnce
      <4>3. \A c \in T : \E j \in S : f[j] = c
        BY <3>6
      <4> HIDE DEF f, S, T
      <4> QED
        BY <4>1, <4>2, <4>3 DEF Bijection, Injection, Surjection, IsInjective
    <3>8. IsFiniteSet(S) /\ Cardinality(S) = e - i
      <4> DEFINE a == i + 1
      <4>1. a \in Int /\ e \in Int
        BY <2>0, <3>3
      <4>2. S = a..e
        OBVIOUS
      <4>3. a > e => e - i = 0
        BY <2>0, <3>3
      <4>4. e - a + 1 = e - i
        BY <2>0, <3>3
      <4> HIDE DEF a, S
      <4>5. IsFiniteSet(a..e) /\ Cardinality(a..e) = IF a > e THEN 0 ELSE e - a + 1
        BY <4>1, FS_Interval
      <4> QED
        BY <4>2, <4>3, <4>4, <4>5
    <3>9. Cardinality(T) = e - i
      <4> HIDE DEF f, S, T
      <4>1. ExistsBijection(S, T)
        BY <3>7 DEF ExistsBijection
      <4> QED
        BY <3>8, <4>1, FS_Bijection
    <3>10. i + Cardinality(T) = e
      BY <2>0, <3>3, <3>9
    <3>11. {s[j].of : j \in S} = T
      BY <3>5, <3>6
    <3> QED
      BY <3>3, <3>10, <3>11
  <2> QED
    BY <2>1, <2>2
<1> QED
  BY <1>1, <1>2 DEF AllAnswered

(* ------------------------------ beginnings -------------------------------- *)

Beginning(s, i) == SubSeq(s, 1, i)

(* A beginning of a transcript is the one before it and a message.            *)
LEMMA BeginningGrows ==
  ASSUME NEW s \in Seq(Message)
  PROVE  /\ Beginning(s, 0) = <<>>
         /\ Beginning(s, Len(s)) = s
         /\ \A i \in 0..Len(s) : Beginning(s, i) \in Seq(Message)
         /\ \A n \in Nat : n + 1 <= Len(s)
              => Beginning(s, n + 1) = Append(Beginning(s, n), s[n + 1])
<1>1. \A i \in 0..Len(s) : /\ Beginning(s, i) \in Seq(Message)
                           /\ Len(Beginning(s, i)) = i
                           /\ \A k \in 1..i : Beginning(s, i)[k] = s[k]
  BY DEF Beginning
<1>2. Beginning(s, 0) = <<>>
  BY <1>1
<1>3. Beginning(s, Len(s)) = s
  <2>1. /\ Beginning(s, Len(s)) \in Seq(Message)
        /\ Len(Beginning(s, Len(s))) = Len(s)
        /\ \A k \in 1..Len(s) : Beginning(s, Len(s))[k] = s[k]
    BY <1>1
  <2> QED
    BY <2>1
<1>4. ASSUME NEW n \in Nat, n + 1 <= Len(s)
      PROVE  Beginning(s, n + 1) = Append(Beginning(s, n), s[n + 1])
  <2> DEFINE p == Beginning(s, n)
             q == Beginning(s, n + 1)
  <2>1. n \in 0..Len(s) /\ n + 1 \in 0..Len(s) /\ s[n + 1] \in Message
    BY <1>4
  <2>2. /\ p \in Seq(Message) /\ Len(p) = n /\ \A k \in 1..n : p[k] = s[k]
        /\ q \in Seq(Message) /\ Len(q) = n + 1 /\ \A k \in 1..(n + 1) : q[k] = s[k]
    BY <1>1, <2>1
  <2> HIDE DEF p, q
  <2>3. q = Append(p, s[n + 1])
    BY <2>1, <2>2
  <2> QED
    BY <2>3 DEF p, q
<1> QED
  BY <1>1, <1>2, <1>3, <1>4

(* A beginning of a transcript with answers in place has them in place.       *)
LEMMA BeginningsHaveBlocks ==
  ASSUME NEW s \in Seq(Message), Blocks(s), NEW i \in 0..Len(s)
  PROVE  Blocks(Beginning(s, i))
<1> DEFINE p == Beginning(s, i)
<1>1. /\ p \in Seq(Message) /\ Len(p) = i /\ i \in Nat /\ i <= Len(s) /\ Len(s) \in Nat
      /\ \A k \in 1..i : p[k] = s[k]
  BY DEF Beginning
<1> HIDE DEF p
<1>2. AnswersInPlace(p)
  <2> SUFFICES ASSUME NEW j \in 1..i, p[j].kind = "tool"
               PROVE  \E h \in 1..i : /\ h < j /\ p[j].of \in p[h].calls
                                      /\ \A k \in (h + 1)..j : p[k].kind = "tool"
    BY <1>1 DEF AnswersInPlace
  <2>1. j \in 1..Len(s) /\ s[j].kind = "tool" /\ s[j] = p[j]
    BY <1>1
  <2>2. PICK h \in 1..Len(s) : /\ h < j /\ s[j].of \in s[h].calls
                               /\ \A k \in (h + 1)..j : s[k].kind = "tool"
    BY <2>1 DEF Blocks, AnswersInPlace
  <2>3. h \in 1..i /\ p[h] = s[h] /\ \A k \in (h + 1)..j : p[k] = s[k]
    BY <1>1, <2>2
  <2> QED
    BY <2>1, <2>2, <2>3
<1>3. \A k \in 1..i : k \in 1..Len(s)
  BY <1>1
<1>4. AnsweredOnce(p)
  BY <1>1, <1>3 DEF Blocks, AnsweredOnce
<1>5. AskedOnce(p)
  BY <1>1, <1>3 DEF Blocks, AskedOnce
<1> QED
  BY <1>2, <1>4, <1>5 DEF Blocks, p

(* What comes next after a beginning fits what is there.                      *)
LEMMA NextMessageFits ==
  ASSUME NEW s \in Seq(Message), Blocks(s), NEW n \in Nat, n + 1 <= Len(s)
  PROVE  /\ s[n + 1].calls \intersect AskedIn(Beginning(s, n)) = {}
         /\ s[n + 1].kind = "tool" => s[n + 1].of \in Waiting(Beginning(s, n))
<1> DEFINE p == Beginning(s, n)
           m == s[n + 1]
<1>1. /\ p \in Seq(Message) /\ Len(p) = n /\ n + 1 \in 1..Len(s) /\ Len(s) \in Nat
      /\ \A k \in 1..n : p[k] = s[k] /\ k \in 1..Len(s) /\ k # n + 1
      /\ m \in Message
  BY DEF Beginning
<1> HIDE DEF p
<1>2. ASSUME NEW c \in m.calls, c \in AskedIn(p)
      PROVE  FALSE
  <2>1. PICK i \in 1..n : c \in p[i].calls /\ c \in Calls
    BY <1>1, <1>2 DEF AskedIn
  <2>2. c \in s[i].calls /\ c \in s[n + 1].calls /\ i # n + 1 /\ i \in 1..Len(s)
    BY <1>1, <2>1
  <2> QED
    BY <1>1, <2>1, <2>2 DEF Blocks, AskedOnce
<1>3. ASSUME m.kind = "tool"
      PROVE  m.of \in Waiting(p)
  <2>1. PICK i \in 1..Len(s) : /\ i < n + 1 /\ m.of \in s[i].calls
                               /\ \A k \in (i + 1)..(n + 1) : s[k].kind = "tool"
    BY <1>1, <1>3 DEF Blocks, AnswersInPlace
  <2>2. m.of \in Calls
    BY <1>1, <1>3, MessageFields
  <2>3. i \in 1..n /\ p[i] = s[i] /\ \A k \in (i + 1)..n : p[k].kind = "tool"
    BY <1>1, <2>1
  <2>4. m.of \in InReach(p)
    BY <1>1, <2>1, <2>2, <2>3 DEF InReach
  <2>5. ASSUME m.of \in AnsweredIn(p)
        PROVE  FALSE
    <3>1. PICK j \in 1..n : p[j].kind = "tool" /\ p[j].of = m.of
      BY <1>1, <2>5 DEF AnsweredIn
    <3>2. s[j].kind = "tool" /\ s[j].of = s[n + 1].of /\ j # n + 1 /\ j \in 1..Len(s)
      BY <1>1, <3>1
    <3> QED
      BY <1>1, <1>3, <3>2 DEF Blocks, AnsweredOnce
  <2> QED
    BY <2>4, <2>5 DEF Waiting
<1> QED
  BY <1>2, <1>3 DEF p

(* ------------------------------ notices ----------------------------------- *)

(* A message that is no notice changes nothing of what was last said.         *)
LEMMA SilentMessage ==
  ASSUME NEW s \in Seq(Message), NEW m \in Message, m.kind \notin Notices,
         NEW planning \in BOOLEAN
  PROVE  NoticeIsCurrent(Append(s, m), planning) <=> NoticeIsCurrent(s, planning)
<1> DEFINE t == Append(s, m)
           said == IF planning THEN "remind" ELSE "exit"
<1>1. /\ t \in Seq(Message) /\ Len(t) = Len(s) + 1 /\ t[Len(s) + 1] = m
      /\ \A k \in 1..Len(s) : t[k] = s[k]
      /\ Len(s) \in Nat /\ DOMAIN t = 1..Len(t) /\ DOMAIN s = 1..Len(s)
  OBVIOUS
<1>2. said \in Notices
  BY DEF Notices
<1> HIDE DEF t, said
<1>3. (\A i \in DOMAIN t : t[i].kind \notin Notices)
        <=> (\A i \in DOMAIN s : s[i].kind \notin Notices)
  BY <1>1
<1>4. ASSUME NEW i \in DOMAIN t, t[i].kind = said,
             \A j \in (i + 1)..Len(t) : t[j].kind \notin Notices
      PROVE  /\ i \in DOMAIN s /\ s[i].kind = said
             /\ \A j \in (i + 1)..Len(s) : s[j].kind \notin Notices
  <2>1. i # Len(s) + 1
    BY <1>1, <1>2, <1>4
  <2>2. i \in 1..Len(s)
    BY <1>1, <2>1
  <2>3. \A j \in (i + 1)..Len(s) : j \in (i + 1)..Len(t) /\ t[j] = s[j]
    BY <1>1, <2>2
  <2> QED
    BY <1>1, <1>4, <2>2, <2>3
<1>5. ASSUME NEW i \in DOMAIN s, s[i].kind = said,
             \A j \in (i + 1)..Len(s) : s[j].kind \notin Notices
      PROVE  /\ i \in DOMAIN t /\ t[i].kind = said
             /\ \A j \in (i + 1)..Len(t) : t[j].kind \notin Notices
  <2>1. i \in DOMAIN t /\ t[i].kind = said
    BY <1>1, <1>5
  <2>2. ASSUME NEW j \in (i + 1)..Len(t)
        PROVE  t[j].kind \notin Notices
    <3>1. j \in (i + 1)..Len(s) \/ j = Len(s) + 1
      BY <1>1
    <3> QED
      BY <1>1, <1>5, <3>1
  <2> QED
    BY <2>1, <2>2
<1> QED
  BY <1>3, <1>4, <1>5 DEF NoticeIsCurrent, NoNotice, t, said

(* A notice is what was last said.                                            *)
LEMMA LastNotice ==
  ASSUME NEW s \in Seq(Message), NEW m \in Message, m.kind \in Notices,
         NEW planning \in BOOLEAN
  PROVE  NoticeIsCurrent(Append(s, m), planning)
           <=> m.kind = IF planning THEN "remind" ELSE "exit"
<1> DEFINE t == Append(s, m)
           said == IF planning THEN "remind" ELSE "exit"
<1>1. /\ t \in Seq(Message) /\ Len(t) = Len(s) + 1 /\ t[Len(s) + 1] = m
      /\ Len(s) \in Nat /\ DOMAIN t = 1..Len(t)
  OBVIOUS
<1> HIDE DEF t, said
<1>2. Len(t) \in DOMAIN t /\ t[Len(t)].kind \in Notices /\ (Len(t) + 1)..Len(t) = {}
  BY <1>1
<1>3. ASSUME m.kind = said
      PROVE  NoticeIsCurrent(t, planning)
  BY <1>1, <1>2, <1>3 DEF NoticeIsCurrent, NoNotice, said
<1>4. ASSUME NoticeIsCurrent(t, planning)
      PROVE  m.kind = said
  <2>1. PICK i \in DOMAIN t : /\ t[i].kind = said
                              /\ \A j \in (i + 1)..Len(t) : t[j].kind \notin Notices
    BY <1>2, <1>4 DEF NoticeIsCurrent, NoNotice, said
  <2>2. i = Len(t)
    BY <1>1, <1>2, <2>1
  <2> QED
    BY <1>1, <2>1, <2>2
<1> QED
  BY <1>3, <1>4 DEF t, said

(* Answers say nothing.                                                       *)
LEMMA SilentAnswers ==
  ASSUME NEW s \in Seq(Message), NEW R, NEW C \in SUBSET Calls, AnswersExactly(R, C),
         NEW planning \in BOOLEAN, NoticeIsCurrent(s, planning)
  PROVE  NoticeIsCurrent(s \o R, planning)
<1> DEFINE t == s \o R
           n == Len(s)
<1>1. /\ R \in Seq(Message) /\ n \in Nat /\ Len(R) \in Nat
      /\ t \in Seq(Message) /\ Len(t) = n + Len(R)
      /\ \A k \in 1..n : t[k] = s[k]
      /\ \A k \in 1..Len(R) : t[n + k] = R[k]
      /\ DOMAIN t = 1..Len(t) /\ DOMAIN s = 1..n
  BY DEF AnswersExactly
<1> HIDE DEF t, n
<1>2. ASSUME NEW k \in 1..Len(t), k > n
      PROVE  t[k].kind \notin Notices
  <2>1. k - n \in 1..Len(R) /\ n + (k - n) = k
    BY <1>1, <1>2
  <2>2. t[n + (k - n)] = R[k - n]
    BY <1>1, <2>1
  <2>3. R[k - n] = Answered(R[k - n].of)
    BY <2>1 DEF AnswersExactly
  <2> QED
    BY <2>1, <2>2, <2>3 DEF Answered, Notices
<1>3. CASE ~planning /\ \A i \in DOMAIN s : s[i].kind \notin Notices
  <2>1. \A i \in DOMAIN t : t[i].kind \notin Notices
    BY <1>1, <1>2, <1>3
  <2> QED
    BY <1>3, <2>1 DEF NoticeIsCurrent, NoNotice, t
<1>4. ASSUME NEW i \in DOMAIN s,
             s[i].kind = IF planning THEN "remind" ELSE "exit",
             \A j \in (i + 1)..Len(s) : s[j].kind \notin Notices
      PROVE  NoticeIsCurrent(t, planning)
  <2>1. i \in DOMAIN t /\ t[i] = s[i]
    BY <1>1
  <2>2. ASSUME NEW j \in (i + 1)..Len(t)
        PROVE  t[j].kind \notin Notices
    <3>1. j \in (i + 1)..n \/ (j \in 1..Len(t) /\ j > n)
      BY <1>1
    <3>2. CASE j \in (i + 1)..n
      <4>1. t[j] = s[j]
        BY <1>1, <3>2
      <4> QED
        BY <1>4, <3>2, <4>1 DEF n
    <3> QED
      BY <1>2, <3>1, <3>2
  <2> QED
    BY <1>4, <2>1, <2>2 DEF NoticeIsCurrent, NoNotice
<1> QED
  BY <1>3, <1>4 DEF NoticeIsCurrent, NoNotice, t

(* ------------------------------ cleaning ---------------------------------- *)

(* What a beginning ends on does not depend on what comes after it.           *)
LEMMA BlockOfABeginning ==
  ASSUME NEW s \in Seq(Message), NEW n \in 0..Len(s)
  PROVE  /\ RespondedAt(s, n) = RespondedAt(Beginning(s, n), n)
         /\ CalledAt(s, n) = CalledAt(Beginning(s, n), n)
         /\ ToFill(s, n) = ToFill(Beginning(s, n), n)
<1> DEFINE p == Beginning(s, n)
<1>1. n \in Nat /\ \A k \in 1..n : p[k] = s[k]
  BY DEF Beginning
<1> HIDE DEF p
<1>2. {j \in 1..n : \A k \in j..n : s[k].kind = "tool"}
        = {j \in 1..n : \A k \in j..n : p[k].kind = "tool"}
  BY <1>1
<1>3. {j \in 1..n : \A k \in (j + 1)..n : s[k].kind = "tool"}
        = {j \in 1..n : \A k \in (j + 1)..n : p[k].kind = "tool"}
  BY <1>1
<1>4. RespondedAt(s, n) = RespondedAt(p, n)
  BY <1>1, <1>2 DEF RespondedAt
<1>5. CalledAt(s, n) = CalledAt(p, n)
  BY <1>1, <1>3 DEF CalledAt
<1> QED
  BY <1>4, <1>5 DEF ToFill, OpenAt, p

(* Where answers stand in place, the last block answers calls it stands       *)
(* behind, and what is open is what still waits.                              *)
LEMMA TheLastBlock ==
  ASSUME NEW s \in Seq(Message), Blocks(s)
  PROVE  /\ CalledAt(s, Len(s)) = InReach(s)
         /\ RespondedAt(s, Len(s)) \subseteq CalledAt(s, Len(s))
         /\ OpenAt(s, Len(s)) = Waiting(s)
<1> DEFINE n == Len(s)
<1>0. n \in Nat
  OBVIOUS
<1>1. \A j \in 1..n : s[j].calls \in SUBSET Calls
  BY DEF Message
<1>2. \A j \in 1..n : s[j].kind = "tool" => s[j].of \in Calls
  BY DEF Message, Kinds
<1>3. CalledAt(s, n) = InReach(s)
  BY <1>1 DEF CalledAt, InReach
<1>4. ASSUME NEW c \in RespondedAt(s, n)
      PROVE  c \in InReach(s) /\ c \in AnsweredIn(s)
  <2>1. PICK j \in 1..n : /\ s[j].of = c
                          /\ \A k \in j..n : s[k].kind = "tool"
    BY DEF RespondedAt
  <2>2. s[j].kind = "tool" /\ c \in Calls
    BY <1>0, <1>2, <2>1
  <2>3. PICK i \in 1..n : /\ i < j /\ c \in s[i].calls
                          /\ \A k \in (i + 1)..j : s[k].kind = "tool"
    BY <2>1, <2>2 DEF Blocks, AnswersInPlace
  <2>4. \A k \in (i + 1)..n : s[k].kind = "tool"
    <3> TAKE k \in (i + 1)..n
    <3>1. k \in (i + 1)..j \/ k \in j..n
      BY <1>0
    <3> QED
      BY <2>1, <2>3, <3>1
  <2> QED
    BY <2>1, <2>2, <2>3, <2>4 DEF InReach, AnsweredIn
<1>5. ASSUME NEW c \in InReach(s), c \in AnsweredIn(s)
      PROVE  c \in RespondedAt(s, n)
  <2>1. PICK i \in 1..n : /\ c \in s[i].calls
                          /\ \A k \in (i + 1)..n : s[k].kind = "tool"
    BY DEF InReach
  <2>2. PICK j \in 1..n : s[j].kind = "tool" /\ s[j].of = c
    BY <1>5 DEF AnsweredIn
  <2>3. PICK h \in 1..n : h < j /\ c \in s[h].calls
    BY <2>2 DEF Blocks, AnswersInPlace
  <2>4. h = i
    BY <1>1, <2>1, <2>3 DEF Blocks, AskedOnce
  <2>5. \A k \in j..n : s[k].kind = "tool"
    BY <1>0, <2>1, <2>3, <2>4
  <2> QED
    BY <2>2, <2>5 DEF RespondedAt
<1>6. RespondedAt(s, n) \subseteq InReach(s)
  BY <1>4
<1>7. InReach(s) \ RespondedAt(s, n) = InReach(s) \ AnsweredIn(s)
  BY <1>4, <1>5
<1> QED
  BY <1>3, <1>6, <1>7 DEF OpenAt, Waiting

(* So counting the answers finds every block that lacks one.                  *)
LEMMA WhatWaitsIsFilled ==
  ASSUME NEW s \in Seq(Message), Blocks(s)
  PROVE  ToFill(s, Len(s)) = Waiting(s)
<1> DEFINE T == CalledAt(s, Len(s))
           S == RespondedAt(s, Len(s))
<1>1. T \subseteq Calls /\ S \subseteq T /\ T \ S = Waiting(s)
  BY TheLastBlock, CallsOfABlock DEF OpenAt
<1>2. IsFiniteSet(Calls)
  BY BoundsAssumption, FS_Interval DEF Calls
<1> HIDE DEF S, T
<1>3. IsFiniteSet(T) /\ IsFiniteSet(S)
  BY <1>1, <1>2, FS_Subset
<1>4. Cardinality(S) \in Nat /\ Cardinality(T) \in Nat /\ Cardinality(S) <= Cardinality(T)
  BY <1>1, <1>3, FS_Subset, FS_CardinalityType
<1>5. Cardinality(S) = Cardinality(T) => S = T
  BY <1>1, <1>3, FS_Subset
<1>6. CASE Cardinality(S) < Cardinality(T)
  BY <1>1, <1>6 DEF ToFill, OpenAt, S, T
<1>7. CASE ~(Cardinality(S) < Cardinality(T))
  <2>1. S = T
    BY <1>4, <1>5, <1>7
  <2> QED
    BY <1>1, <1>7, <2>1 DEF ToFill, S, T
<1> QED
  BY <1>6, <1>7

(* out says the same of plan mode as p, if p says anything current.           *)
Says(out, p) ==
  /\ out \in Seq(Message) /\ p \in Seq(Message)
  /\ \A planning \in BOOLEAN :
         NoticeIsCurrent(p, planning) => NoticeIsCurrent(out, planning)

(* It still does when the same message follows, with answers before it.       *)
LEMMA TheSameIsSaid ==
  ASSUME NEW out, NEW p, Says(out, p), NEW m \in Message
  PROVE  Says(Append(out, m), Append(p, m))
<1>1. out \in Seq(Message) /\ p \in Seq(Message)
  BY DEF Says
<1>2. ASSUME NEW planning \in BOOLEAN, NoticeIsCurrent(Append(p, m), planning)
      PROVE  NoticeIsCurrent(Append(out, m), planning)
  <2>1. CASE m.kind \in Notices
    BY <1>1, <1>2, <2>1, LastNotice
  <2>2. CASE m.kind \notin Notices
    <3>1. NoticeIsCurrent(p, planning)
      BY <1>1, <1>2, <2>2, SilentMessage
    <3>2. NoticeIsCurrent(out, planning)
      BY <3>1 DEF Says
    <3> QED
      BY <1>1, <2>2, <3>2, SilentMessage
  <2> QED
    BY <2>1, <2>2
<1> QED
  BY <1>1, <1>2 DEF Says

LEMMA PlaceholdersSayNothing ==
  ASSUME NEW out, NEW p, Says(out, p), NEW C \in SUBSET Calls
  PROVE  Says(out \o NoResponses(C), p)
<1> DEFINE R == NoResponses(C)
<1>1. AnswersExactly(R, C) /\ R \in Seq(Message) /\ out \in Seq(Message)
  BY PlaceholdersAnswer DEF Says, AnswersExactly
<1> HIDE DEF R
<1>2. out \o R \in Seq(Message)
  BY <1>1
<1>3. ASSUME NEW planning \in BOOLEAN, NoticeIsCurrent(p, planning)
      PROVE  NoticeIsCurrent(out \o R, planning)
  <2>1. NoticeIsCurrent(out, planning)
    BY <1>3 DEF Says
  <2> QED
    BY <1>1, <2>1, SilentAnswers
<1> QED
  BY <1>2, <1>3 DEF Says, R

(* Whatever the history: cleaned, it is one, and says the same of plan mode.  *)
LEMMA CleanedSaysTheSame ==
  ASSUME NEW s \in Seq(Message)
  PROVE  Says(Cleaned(s), s)
<1> DEFINE out == CleanedTo(s)
           S == {n \in Nat : n <= Len(s) => Says(out[n], Beginning(s, n))}
<1>1. /\ out[0] = <<>>
      /\ \A i \in 1..Len(s) :
             out[i] = IF s[i].kind = "tool" THEN Append(out[i - 1], s[i])
                      ELSE Append(out[i - 1] \o NoResponses(ToFill(s, i - 1)), s[i])
  BY CleanedToIsRead
<1>2. /\ Beginning(s, 0) = <<>> /\ Beginning(s, Len(s)) = s
      /\ \A n \in Nat : n + 1 <= Len(s)
           => Beginning(s, n + 1) = Append(Beginning(s, n), s[n + 1])
  BY BeginningGrows
<1> HIDE DEF out
<1>3. 0 \in S
  <2>1. <<>> \in Seq(Message)
    OBVIOUS
  <2> QED
    BY <1>1, <1>2, <2>1 DEF Says
<1>4. ASSUME NEW n \in Nat, n \in S
      PROVE  n + 1 \in S
  <2> SUFFICES ASSUME n + 1 <= Len(s)
               PROVE  Says(out[n + 1], Beginning(s, n + 1))
    OBVIOUS
  <2> DEFINE p == Beginning(s, n)
             m == s[n + 1]
             C == ToFill(s, n)
  <2>1. /\ n + 1 \in 1..Len(s) /\ (n + 1) - 1 = n /\ n \in 0..Len(s)
        /\ m \in Message /\ Says(out[n], p)
    BY <1>4
  <2>2. \/ out[n + 1] = Append(out[n], m)
        \/ out[n + 1] = Append(out[n] \o NoResponses(C), m)
    BY <1>1, <2>1
  <2>3. C \in SUBSET Calls
    BY <2>1, CallsOfABlock
  <2>4. Beginning(s, n + 1) = Append(p, m)
    BY <1>2
  <2> HIDE DEF p, m, C
  <2>5. Says(out[n] \o NoResponses(C), p)
    BY <2>1, <2>3, PlaceholdersSayNothing
  <2> QED
    BY <2>1, <2>2, <2>4, <2>5, TheSameIsSaid
<1> HIDE DEF S
<1>5. \A n \in Nat : n \in S
  BY <1>3, <1>4, Induction
<1>6. Says(out[Len(s)], s)
  BY <1>2, <1>5 DEF S
<1>7. ToFill(s, Len(s)) \in SUBSET Calls
  BY CallsOfABlock
<1> QED
  BY <1>6, <1>7, PlaceholdersSayNothing DEF Cleaned, out

(* out stands for the beginning p of a history, with what waits in p still to *)
(* be answered: it asks the same and lacks only that.                         *)
StandsFor(out, p) ==
  /\ out \in Seq(Message) /\ Blocks(out)
  /\ Missing(out) = Waiting(p) /\ Waiting(out) = Waiting(p)
  /\ AskedIn(out) = AskedIn(p)

(* The empty transcript is cleaned to the empty one.                          *)
LEMMA NothingStandsForNothing ==
  StandsFor(<<>>, <<>>) /\ Waiting(<<>>) = {}
<1>1. <<>> \in Seq(Message) /\ Len(<<>>) = 0 /\ 1..0 = {}
  OBVIOUS
<1>2. /\ AskedIn(<<>>) = {} /\ AnsweredIn(<<>>) = {} /\ InReach(<<>>) = {}
  BY <1>1 DEF AskedIn, AnsweredIn, InReach
<1>3. Blocks(<<>>)
  BY <1>1 DEF Blocks, AnswersInPlace, AnsweredOnce, AskedOnce
<1>4. Missing(<<>>) = {} /\ Waiting(<<>>) = {}
  BY <1>2 DEF Missing, Waiting
<1> QED
  BY <1>1, <1>3, <1>4 DEF StandsFor

(* An answer is kept as it is.                                                *)
LEMMA AnAnswerIsKept ==
  ASSUME NEW p \in Seq(Message), Blocks(p), NEW out, StandsFor(out, p),
         NEW m \in Message, m.kind = "tool", m.of \in Waiting(p)
  PROVE  StandsFor(Append(out, m), Append(p, m))
<1> DEFINE c == m.of
<1>1. out \in Seq(Message) /\ Blocks(out) /\ c \in Waiting(out) /\ c \in Waiting(p)
  BY DEF StandsFor
<1>2. m = Answered(c)
  BY MessageFields
<1> HIDE DEF c
<1>3. /\ Append(p, m) \in Seq(Message) /\ AskedIn(Append(p, m)) = AskedIn(p)
      /\ Waiting(Append(p, m)) = Waiting(p) \ {c}
  BY <1>1, <1>2, AnAnswerKeepsBlocks
<1>4. /\ Append(out, m) \in Seq(Message) /\ Blocks(Append(out, m))
      /\ AskedIn(Append(out, m)) = AskedIn(out)
      /\ Missing(Append(out, m)) = Missing(out) \ {c}
      /\ Waiting(Append(out, m)) = Waiting(out) \ {c}
  BY <1>1, <1>2, AnAnswerKeepsBlocks
<1> QED
  BY <1>3, <1>4 DEF StandsFor, c

(* Placeholders make up for all that waits.                                   *)
LEMMA PlaceholdersComplete ==
  ASSUME NEW p \in Seq(Message), NEW out, StandsFor(out, p)
  PROVE  LET full == out \o NoResponses(Waiting(p))
         IN  /\ full \in Seq(Message) /\ Blocks(full)
             /\ AskedIn(full) = AskedIn(p) /\ Missing(full) = {}
<1> DEFINE C == Waiting(p)
           R == NoResponses(C)
<1>1. /\ out \in Seq(Message) /\ Blocks(out) /\ C = Waiting(out)
      /\ C = Missing(out) /\ C \subseteq Calls /\ AskedIn(out) = AskedIn(p)
  BY DEF StandsFor, Waiting, InReach
<1> HIDE DEF C
<1>2. AnswersExactly(R, C)
  BY <1>1, PlaceholdersAnswer
<1>a. C \in SUBSET Waiting(out) /\ out \in Seq(Message) /\ Blocks(out)
  BY <1>1
<1> HIDE DEF R
<1>3. /\ out \o R \in Seq(Message) /\ Blocks(out \o R)
      /\ AskedIn(out \o R) = AskedIn(out)
      /\ Missing(out \o R) = Missing(out) \ C
  BY <1>2, <1>a, AnswersKeepBlocks, Zenon
<1>4. Missing(out \o R) = {} /\ AskedIn(out \o R) = AskedIn(p)
  BY <1>1, <1>3
<1> QED
  BY <1>3, <1>4 DEF R, C

(* Anything else closes the block before it with the placeholders it lacks.   *)
LEMMA AMessageIsKept ==
  ASSUME NEW p \in Seq(Message), Blocks(p), NEW out, StandsFor(out, p),
         NEW m \in Message, m.kind # "tool", m.calls \intersect AskedIn(p) = {}
  PROVE  StandsFor(Append(out \o NoResponses(Waiting(p)), m), Append(p, m))
<1> DEFINE full == out \o NoResponses(Waiting(p))
<1>1. /\ full \in Seq(Message) /\ Blocks(full)
      /\ AskedIn(full) = AskedIn(p) /\ Missing(full) = {}
  BY PlaceholdersComplete
<1> HIDE DEF full
<1>2. /\ Append(full, m) \in Seq(Message)
      /\ AskedIn(Append(full, m)) = AskedIn(full) \union m.calls
  BY <1>1, AfterAMessage
<1>3. /\ Blocks(Append(full, m))
      /\ Missing(Append(full, m)) = Missing(full) \union m.calls
      /\ Waiting(Append(full, m)) = m.calls
  BY <1>1, MessageKeepsBlocks
<1>4. /\ AskedIn(Append(p, m)) = AskedIn(p) \union m.calls
      /\ Waiting(Append(p, m)) = m.calls
  BY AfterAMessage, MessageKeepsBlocks
<1> QED
  BY <1>1, <1>2, <1>3, <1>4 DEF StandsFor, full

(* The history that is cleaned asks the same calls, answers them all in place *)
(* and says the same of plan mode.                                            *)
THEOREM CleanedIsComplete ==
  ASSUME NEW s \in Seq(Message), Blocks(s)
  PROVE  /\ Cleaned(s) \in Seq(Message)
         /\ Blocks(Cleaned(s))
         /\ Missing(Cleaned(s)) = {}
         /\ AskedIn(Cleaned(s)) = AskedIn(s)
         /\ \A planning \in BOOLEAN :
                NoticeIsCurrent(s, planning) => NoticeIsCurrent(Cleaned(s), planning)
<1> DEFINE out == CleanedTo(s)
           Done(n) == StandsFor(out[n], Beginning(s, n))
           S == {n \in Nat : n <= Len(s) => Done(n)}
<1>1. /\ out[0] = <<>>
      /\ \A i \in 1..Len(s) :
             out[i] = IF s[i].kind = "tool" THEN Append(out[i - 1], s[i])
                      ELSE Append(out[i - 1] \o NoResponses(ToFill(s, i - 1)), s[i])
  BY CleanedToIsRead
<1>2. ASSUME NEW n \in 0..Len(s)
      PROVE  ToFill(s, n) = Waiting(Beginning(s, n))
  <2>1. /\ Beginning(s, n) \in Seq(Message) /\ Len(Beginning(s, n)) = n
        /\ Blocks(Beginning(s, n))
    BY BeginningsHaveBlocks DEF Beginning
  <2>2. ToFill(s, n) = ToFill(Beginning(s, n), n)
    BY BlockOfABeginning
  <2> QED
    BY <2>1, <2>2, WhatWaitsIsFilled
<1>3. /\ Beginning(s, 0) = <<>> /\ Beginning(s, Len(s)) = s
      /\ \A i \in 0..Len(s) : Beginning(s, i) \in Seq(Message)
      /\ \A n \in Nat : n + 1 <= Len(s)
           => Beginning(s, n + 1) = Append(Beginning(s, n), s[n + 1])
  BY BeginningGrows
<1> HIDE DEF out
<1>4. 0 \in S
  BY <1>1, <1>3, NothingStandsForNothing
<1>5. ASSUME NEW n \in Nat, n \in S
      PROVE  n + 1 \in S
  <2> SUFFICES ASSUME n + 1 <= Len(s)
               PROVE  Done(n + 1)
    OBVIOUS
  <2> DEFINE p == Beginning(s, n)
             m == s[n + 1]
  <2>1. /\ n + 1 \in 1..Len(s) /\ (n + 1) - 1 = n /\ n \in 0..Len(s)
        /\ m \in Message /\ StandsFor(out[n], p)
    BY <1>5
  <2>2. out[n + 1] = IF m.kind = "tool" THEN Append(out[n], m)
                     ELSE Append(out[n] \o NoResponses(Waiting(p)), m)
    BY <1>1, <1>2, <2>1
  <2>3. p \in Seq(Message) /\ Blocks(p) /\ Beginning(s, n + 1) = Append(p, m)
    BY <1>3, <2>1, BeginningsHaveBlocks
  <2>4. /\ m.calls \intersect AskedIn(p) = {}
        /\ m.kind = "tool" => m.of \in Waiting(p)
    BY <2>1, NextMessageFits
  <2> HIDE DEF p, m
  <2>5. CASE m.kind = "tool"
    BY <2>1, <2>2, <2>3, <2>4, <2>5, AnAnswerIsKept
  <2>6. CASE m.kind # "tool"
    BY <2>1, <2>2, <2>3, <2>4, <2>6, AMessageIsKept
  <2> QED
    BY <2>5, <2>6
<1> HIDE DEF S
<1>6. \A n \in Nat : n \in S
  BY <1>4, <1>5, Induction
<1>7. StandsFor(out[Len(s)], s) /\ ToFill(s, Len(s)) = Waiting(s)
  BY <1>3, <1>6, WhatWaitsIsFilled DEF S
<1>8. Cleaned(s) = out[Len(s)] \o NoResponses(Waiting(s))
  BY <1>7 DEF Cleaned, out
<1> QED
  BY <1>7, <1>8, PlaceholdersComplete, CleanedSaysTheSame DEF Says

(* ------------------------------ the invariant ----------------------------- *)

(* Until a late answer went astray, answers stand in place, and calls are     *)
(* known by the numbers given so far.                                         *)
History ==
  ~late.astray => Blocks(msgs) /\ \A c \in AskedIn(msgs) : c <= spent.calls

(* Where every call must have its answer.                                     *)
Settled == {"before", "ask", "save", "clearing", "seeding", "hooks",
            "compacting", "resetting"}

(* And which calls still lack an answer is known by where the turn is.        *)
Answerable ==
  ~late.astray =>
    /\ loop.at \in Settled => Missing(msgs) = {}
    /\ loop.at = "got"
         => /\ Missing(msgs) = msgs[Len(msgs)].calls
            /\ Waiting(msgs) = msgs[Len(msgs)].calls
    /\ loop.at \in {"mention", "tools"} => Missing(msgs) = loop.running
    /\ loop.running \subseteq Waiting(msgs)

(* The calls whose tools work, in the turn or after it was cut off.           *)
Working == late.left \union late.cancelled \union loop.running

(* They are none of the calls the model has just made.                        *)
Apart ==
  /\ \A c \in Working : c <= spent.calls
  /\ loop.at = "got"
       => /\ msgs # <<>> /\ msgs[Len(msgs)].kind \in {"assistant", "tool"}
          /\ \A c \in msgs[Len(msgs)].calls :
                 c <= spent.calls /\ c \notin late.left \union late.cancelled

(* What the turn that ends by itself has seen last.                           *)
LastWord ==
  /\ loop.at = "save"
       => msgs # <<>> /\ (msgs[Len(msgs)].kind = "tool" \/ msgs[Len(msgs)] = Asked({}))
  /\ loop.at = "hooks" \/ (loop.at = "ending" /\ loop.answered)
       => /\ ~plan.edited
          /\ ~late.astray => /\ msgs # <<>> /\ msgs[Len(msgs)] = Asked({})
                             /\ Missing(msgs) = {}
  /\ loop.at = "cancelling" => ~loop.answered

(* What the middleware remembers is what the transcript says.                 *)
Memory ==
  /\ plan.told /\ loop.at # "resetting" => NoticeIsCurrent(msgs, plan.was)
  /\ loop.at = "resetting" => NoNotice(msgs)

(* The model is asked only while answers are left to give (a bound).          *)
Budget ==
  /\ loop.at = "ask" => spent.asks < MaxAsks
  /\ loop.at \in {"compacting", "resetting"} /\ loop.then = "ask"
       => spent.asks < MaxAsks

IInv == TypeOK /\ History /\ Answerable /\ Apart /\ LastWord /\ Memory /\ Budget

(* ------------------------------ what a step adds -------------------------- *)

(* A message that calls no tool leaves missing what was missing.              *)
LEMMA SaidIsAdded ==
  ASSUME NEW s \in Seq(Message), Blocks(s), NEW kind \in Kinds
  PROVE  LET t == Append(s, Said(kind))
         IN  /\ t \in Seq(Message) /\ Blocks(t)
             /\ AskedIn(t) = AskedIn(s) /\ Missing(t) = Missing(s)
             /\ t # <<>> /\ t[Len(t)] = Said(kind)
<1> DEFINE m == Said(kind)
           t == Append(s, m)
<1>1. m \in Message /\ m.kind # "tool" /\ m.calls = {}
  BY DEF Said, Message, Kinds
<1> HIDE DEF m
<1>2. t # <<>> /\ t[Len(t)] = m
  BY <1>1
<1>3. t \in Seq(Message) /\ AskedIn(t) = AskedIn(s)
  BY <1>1, AfterAMessage
<1>4. Blocks(t) /\ Missing(t) = Missing(s)
  BY <1>1, MessageKeepsBlocks
<1> QED
  BY <1>2, <1>3, <1>4 DEF m

(* An answer of the model with new calls adds them to what is missing.        *)
LEMMA AskedIsAdded ==
  ASSUME NEW s \in Seq(Message), Blocks(s),
         NEW C \in SUBSET Calls, C \intersect AskedIn(s) = {}
  PROVE  LET t == Append(s, Asked(C))
         IN  /\ t \in Seq(Message) /\ Blocks(t)
             /\ AskedIn(t) = AskedIn(s) \union C
             /\ Missing(t) = Missing(s) \union C /\ Waiting(t) = C
             /\ t # <<>> /\ t[Len(t)] = Asked(C)
<1> DEFINE m == Asked(C)
           t == Append(s, m)
<1>1. m \in Message /\ m.kind # "tool" /\ m.calls = C
  BY DEF Asked, Message
<1> HIDE DEF m
<1>2. t # <<>> /\ t[Len(t)] = m
  BY <1>1
<1>3. t \in Seq(Message) /\ AskedIn(t) = AskedIn(s) \union C
  BY <1>1, AfterAMessage
<1>4. Blocks(t) /\ Missing(t) = Missing(s) \union C /\ Waiting(t) = C
  BY <1>1, MessageKeepsBlocks
<1> QED
  BY <1>2, <1>3, <1>4 DEF m

(* A cleared history lacks no answer and says nothing of plan mode.           *)
LEMMA NothingIsWhole ==
  /\ <<>> \in Seq(Message) /\ Blocks(<<>>)
  /\ AskedIn(<<>>) = {} /\ Missing(<<>>) = {}
  /\ NoticeIsCurrent(<<>>, FALSE) /\ NoNotice(<<>>)
<1>1. AskedIn(<<>>) = {}
  <2>1. Len(<<>>) = 0 /\ 1..0 = {}
    OBVIOUS
  <2> QED
    BY <2>1 DEF AskedIn
<1>2. NoticeIsCurrent(<<>>, FALSE) /\ NoNotice(<<>>)
  BY DEF NoticeIsCurrent, NoNotice
<1> QED
  BY <1>1, <1>2, NothingStandsForNothing DEF StandsFor

(* Nor does a history that was compacted to its summary.                      *)
LEMMA EnvelopeIsWhole ==
  LET t == <<Said("envelope")>>
  IN  /\ t \in Seq(Message) /\ Blocks(t)
      /\ AskedIn(t) = {} /\ Missing(t) = {}
      /\ NoNotice(t)
<1> DEFINE m == Said("envelope")
           t == <<m>>
<1>1. t = Append(<<>>, m) /\ "envelope" \in Kinds
  BY DEF Kinds
<1>2. /\ t \in Seq(Message) /\ Blocks(t)
      /\ AskedIn(t) = {} /\ Missing(t) = {}
  BY <1>1, NothingIsWhole, SaidIsAdded
<1>3. DOMAIN t = {1} /\ t[1].kind \notin Notices
  BY DEF Said, Notices
<1>4. NoNotice(t)
  BY <1>3 DEF NoNotice
<1> QED
  BY <1>2, <1>4

(* The names of new calls are new.                                            *)
LEMMA FreshIsNew ==
  ASSUME TypeOK, NEW n \in Nat, spent.calls + n <= MaxCalls
  PROVE  /\ Fresh(n) \in SUBSET Calls
         /\ \A c \in Fresh(n) : c > spent.calls /\ c <= spent.calls + n
         /\ History /\ ~late.astray => Fresh(n) \intersect AskedIn(msgs) = {}
<1>1. spent.calls \in Nat /\ MaxCalls \in Nat
  BY BoundsAssumption DEF TypeOK
<1>2. \A c \in Fresh(n) : c \in Nat /\ c > spent.calls /\ c <= spent.calls + n
  BY <1>1 DEF Fresh
<1>3. \A c \in Fresh(n) : c \in Calls
  BY <1>1, <1>2 DEF Calls
<1>4. History /\ ~late.astray => \A c \in AskedIn(msgs) : c \in Nat /\ c <= spent.calls
  BY DEF History, AskedIn, Calls
<1> QED
  BY <1>1, <1>2, <1>3, <1>4

(* ------------------------------ types ------------------------------------- *)

LoopTyped ==
  loop \in [at : Waits, then : {"idle", "before", "ask"},
            running : SUBSET Calls, recovered : BOOLEAN,
            cancelled : BOOLEAN, answered : BOOLEAN]

RunningTyped ==
  loop.running # {} <=> loop.at \in {"mention", "tools", "cancelling"}

PlanTyped ==
  plan \in [active : BOOLEAN, was : BOOLEAN, edited : BOOLEAN,
            clear : BOOLEAN, told : BOOLEAN]

SpentTyped ==
  spent \in [acts : 0..MaxActs, asks : 0..MaxAsks, calls : 0..MaxCalls,
             switches : 0..MaxSwitches, compactions : 0..MaxCompactions]

LateTyped ==
  late \in [left : SUBSET Calls, cancelled : SUBSET Calls,
            bound : BOOLEAN, astray : BOOLEAN]

LateKept ==
  /\ late.left # {} => late.bound
  /\ late.bound => loop.at # "tools"
  /\ (late.left \union late.cancelled) \intersect loop.running = {}

(* The types, one variable at a time.                                         *)
LEMMA TypeOKInParts ==
  TypeOK <=> /\ msgs \in Seq(Message)
             /\ LoopTyped /\ RunningTyped /\ PlanTyped /\ SpentTyped
             /\ LateTyped /\ LateKept
  BY DEF TypeOK, LoopTyped, RunningTyped, PlanTyped, SpentTyped, LateTyped, LateKept

(* The last message is a message, and calls calls.                            *)
LEMMA LastIsAMessage ==
  ASSUME NEW s \in Seq(Message), s # <<>>
  PROVE  s[Len(s)] \in Message /\ s[Len(s)].calls \in SUBSET Calls
<1>1. s[Len(s)] \in Message
  OBVIOUS
<1> QED
  BY <1>1, MessageFields

(* Where a turn goes when a tool has ended, field by field.                   *)
LEMMA WithoutToolFields ==
  ASSUME LoopTyped, RunningTyped, NEW c \in loop.running,
         loop' \in {WithoutTool(c), [WithoutTool(c) EXCEPT !.cancelled = TRUE]}
  PROVE  /\ loop'.running = loop.running \ {c} /\ loop'.answered = loop.answered
         /\ \/ loop'.at = loop.at
            \/ loop'.running = {} /\ \/ loop.at = "mention" /\ loop'.at = "before"
                                     \/ loop.at = "tools" /\ loop'.at = "save"
                                     \/ loop.at = "cancelling" /\ loop'.at = "ending"
<1>1. loop.at \in {"mention", "tools", "cancelling"}
  BY DEF RunningTyped
<1> QED
  BY <1>1 DEF WithoutTool, LoopTyped

(* Where the turn waits, field by field.                                      *)
LEMMA LoopStep ==
  ASSUME TypeOK, Apart, [Next]_vars
  PROVE  LoopTyped' /\ RunningTyped'
<1>0. LoopTyped /\ RunningTyped
  BY TypeOKInParts
<1>1. CASE StartTurn
  BY <1>0, <1>1 DEF StartTurn, Waits, LoopTyped, RunningTyped
<1>2. CASE MentionFile
  <2>1. spent.calls + 1 \in Calls
    BY <1>2, BoundsAssumption DEF MentionFile, TypeOK, Calls
  <2> DEFINE c == spent.calls + 1
  <2>2. loop' = [loop EXCEPT !.at = "mention", !.running = {c}] /\ c \in Calls
    BY <1>2, <2>1 DEF MentionFile
  <2> HIDE DEF c
  <2> QED
    BY <1>0, <2>2 DEF Waits, LoopTyped, RunningTyped
<1>3. CASE LimitReached
  BY <1>0, <1>3 DEF LimitReached, Waits, LoopTyped, RunningTyped
<1>4. CASE AskModel
  BY <1>0, <1>4 DEF AskModel, Waits, LoopTyped, RunningTyped
<1>5. CASE Answers
  BY <1>0, <1>5 DEF Answers, Waits, LoopTyped, RunningTyped
<1>6. CASE AskFails
  <2>1. loop.at = "ask" /\ Fails
    BY <1>6 DEF AskFails
  <2> QED
    BY <1>0, <2>1 DEF Fails, Waits, LoopTyped, RunningTyped
<1>7. CASE RunTools
  <2> DEFINE calls == msgs[Len(msgs)].calls
  <2>1. loop.at = "got" /\ msgs # <<>> /\ msgs \in Seq(Message)
    BY <1>7, TypeOKInParts DEF RunTools, Apart
  <2>2. calls \in SUBSET Calls
    BY <2>1, LastIsAMessage
  <2>3. loop' = [loop EXCEPT !.at = IF calls = {} THEN "save" ELSE "tools",
                             !.running = calls]
    BY <1>7 DEF RunTools
  <2> HIDE DEF calls
  <2> QED
    BY <1>0, <2>2, <2>3 DEF Waits, LoopTyped, RunningTyped
<1>8. ASSUME NEW c \in Calls, c \in loop.running, loop' = WithoutTool(c)
      PROVE  LoopTyped' /\ RunningTyped'
  <2> DEFINE left == loop.running \ {c}
             next == IF left # {} THEN loop.at
                     ELSE CASE loop.at = "mention" -> "before"
                            [] loop.at = "tools" -> "save"
                            [] loop.at = "cancelling" -> "ending"
  <2>1. loop' = [loop EXCEPT !.running = left, !.at = next]
    BY <1>8 DEF WithoutTool
  <2>2. loop.at \in {"mention", "tools", "cancelling"}
    BY <1>0, <1>8 DEF RunningTyped
  <2>3. left \in SUBSET Calls
    BY <1>0 DEF LoopTyped
  <2>4. next = IF left # {} THEN loop.at
               ELSE IF loop.at = "mention" THEN "before"
               ELSE IF loop.at = "tools" THEN "save" ELSE "ending"
    BY <2>2
  <2> HIDE DEF left, next
  <2>5. next \in Waits /\ (left # {} <=> next \in {"mention", "tools", "cancelling"})
    BY <2>2, <2>4 DEF Waits
  <2> QED
    BY <1>0, <2>1, <2>3, <2>5 DEF LoopTyped, RunningTyped
<1>9. ASSUME NEW c \in Calls, UserCancels(c)
      PROVE  LoopTyped' /\ RunningTyped'
  <2> DEFINE left == loop.running \ {c}
             next == IF left # {} THEN "tools" ELSE "save"
  <2>1. loop' = [loop EXCEPT !.running = left, !.at = next, !.cancelled = TRUE]
    <3>1. WithoutTool(c) = [loop EXCEPT !.running = left, !.at = next]
      BY <1>9 DEF UserCancels, WithoutTool
    <3>2. loop' = [[loop EXCEPT !.running = left, !.at = next]
                     EXCEPT !.cancelled = TRUE]
      BY <1>9, <3>1 DEF UserCancels
    <3> HIDE DEF left, next
    <3> QED
      BY <1>0, <3>2 DEF LoopTyped
  <2>2. left \in SUBSET Calls
    BY <1>0 DEF LoopTyped
  <2>3. next \in Waits /\ (left # {} <=> next \in {"mention", "tools", "cancelling"})
    BY DEF Waits
  <2> HIDE DEF left, next
  <2> QED
    BY <1>0, <2>1, <2>2, <2>3 DEF LoopTyped, RunningTyped
<1>10. CASE Interrupt
  <2>1. CASE loop.at = "cancelling"
    <3>1. loop' = [loop EXCEPT !.at = "ending", !.running = {}, !.answered = FALSE]
      BY <1>10, <2>1 DEF Interrupt
    <3> QED
      BY <1>0, <3>1 DEF Waits, LoopTyped, RunningTyped
  <2>2. CASE loop.at = "tools"
    <3>1. loop' = [loop EXCEPT !.at = "cancelling", !.running = loop.running,
                               !.answered = FALSE]
      BY <1>10, <2>2 DEF Interrupt
    <3> QED
      BY <1>0, <2>2, <3>1 DEF Waits, LoopTyped, RunningTyped
  <2>3. CASE loop.at \notin {"tools", "cancelling"}
    <3>1. PICK next \in {"idle", "ending"} :
                 loop' = [loop EXCEPT !.at = next, !.running = loop.running,
                                      !.answered = FALSE]
      BY <1>10, <2>3 DEF Interrupt
    <3>2. loop.at # "mention"
      BY <1>10 DEF Interrupt
    <3> QED
      BY <1>0, <2>3, <3>1, <3>2 DEF Waits, LoopTyped, RunningTyped
  <2> QED
    BY <2>1, <2>2, <2>3
<1>11. CASE InterruptMention \/ Abandon
  <2>1. loop' = [loop EXCEPT !.at = "idle", !.running = {}, !.answered = FALSE]
    BY <1>11 DEF InterruptMention, Abandon
  <2> QED
    BY <1>0, <2>1 DEF Waits, LoopTyped, RunningTyped
<1>12. CASE TurnToThePlan
  BY <1>0, <1>12 DEF TurnToThePlan, Waits, LoopTyped, RunningTyped
<1>13. CASE Judge
  <2>1. /\ loop.at = "save"
        /\ \/ loop' = [loop EXCEPT !.at = "ending", !.answered = FALSE]
           \/ loop' = [loop EXCEPT !.at = "hooks"]
           \/ loop' = [loop EXCEPT !.at = "before"]
    BY <1>13 DEF Judge
  <2> QED
    BY <1>0, <2>1 DEF Waits, LoopTyped, RunningTyped
<1>14. CASE ClearHistory
  BY <1>0, <1>14 DEF ClearHistory, Waits, LoopTyped, RunningTyped
<1>15. CASE SeedPlan \/ HooksRetry
  <2>1. loop.at \in {"seeding", "hooks"} /\ loop' = [loop EXCEPT !.at = "before"]
    BY <1>15 DEF SeedPlan, HooksRetry
  <2> QED
    BY <1>0, <2>1 DEF Waits, LoopTyped, RunningTyped
<1>16. CASE HooksPass
  BY <1>0, <1>16 DEF HooksPass, Waits, LoopTyped, RunningTyped
<1>17. CASE EndTurn
  BY <1>0, <1>17 DEF EndTurn, Waits, LoopTyped, RunningTyped
<1>18. CASE CompactFull \/ RecoverFromOverflow \/ CompactByHand
  <2>1. PICK then \in {"idle", "before", "ask"}, recovered \in BOOLEAN :
               loop' = [loop EXCEPT !.at = "compacting", !.then = then,
                                    !.recovered = recovered]
    BY <1>0, <1>18 DEF CompactFull, RecoverFromOverflow, CompactByHand,
                       StartCompaction, LoopTyped
  <2>2. loop.at \in {"idle", "before", "ask"}
    BY <1>18 DEF CompactFull, RecoverFromOverflow, CompactByHand
  <2> QED
    BY <1>0, <2>1, <2>2 DEF Waits, LoopTyped, RunningTyped
<1>19. CASE CompactionFails
  <2>1. /\ loop.at = "compacting"
        /\ \/ loop' = [loop EXCEPT !.at = "idle"]
           \/ loop' = [loop EXCEPT !.at = "ending", !.answered = FALSE]
    BY <1>19 DEF CompactionFails, Fails
  <2> QED
    BY <1>0, <2>1 DEF Waits, LoopTyped, RunningTyped
<1>20. CASE Summarized
  BY <1>0, <1>20 DEF Summarized, Waits, LoopTyped, RunningTyped
<1>21. CASE CompactionEnds
  <2>1. /\ loop.at = "resetting" /\ loop' = [loop EXCEPT !.at = loop.then]
    BY <1>21 DEF CompactionEnds
  <2>2. loop.then \in {"idle", "before", "ask"}
    BY <1>0 DEF LoopTyped
  <2> QED
    BY <1>0, <2>1, <2>2 DEF Waits, LoopTyped, RunningTyped
<1>22. CASE InterruptReset
  BY <1>0, <1>22 DEF InterruptReset, Waits, LoopTyped, RunningTyped
<1>26. CASE BatchRefused
  <2>1. /\ loop.at = "got"
        /\ \/ loop' = [loop EXCEPT !.at = "save"]
           \/ loop' = [loop EXCEPT !.at = "ending", !.answered = FALSE]
    BY <1>26 DEF BatchRefused, Fails
  <2> QED
    BY <1>0, <2>1 DEF Waits, LoopTyped, RunningTyped
<1>23. ASSUME UNCHANGED loop
       PROVE  LoopTyped' /\ RunningTyped'
  BY <1>0, <1>23 DEF LoopTyped, RunningTyped
<1>24. ASSUME NEW c \in Calls, ToolAnswers(c) \/ UserCancels(c) \/ ReviewPlan(c)
                                 \/ ToolVanishes(c)
       PROVE  LoopTyped' /\ RunningTyped'
  BY <1>8, <1>9, <1>23, <1>24 DEF ToolAnswers, ReviewPlan, ToolVanishes
<1>25. CASE SwitchAgent \/ ReloadConfig \/ UNCHANGED vars \/ CloseBatch
            \/ (\E k \in DOMAIN msgs : Rewind(k))
            \/ (\E c \in Calls : LateAnswers(c) \/ LateVanishes(c) \/ LateReview(c))
  BY <1>23, <1>25 DEF SwitchAgent, ReloadConfig, vars, CloseBatch, Rewind, LateAnswers,
                      LateVanishes, LateReview
<1> QED
  BY <1>1, <1>2, <1>3, <1>4, <1>5, <1>6, <1>7, <1>10, <1>11, <1>12, <1>13, <1>14,
     <1>15, <1>16, <1>17, <1>18, <1>19, <1>20, <1>21, <1>22, <1>24, <1>25, <1>26
     DEF Next

(* The memory of plan mode.                                                   *)
LEMMA PlanStep ==
  ASSUME TypeOK, [Next]_vars
  PROVE  PlanTyped'
<1>0. /\ PlanTyped
      /\ plan.active \in BOOLEAN /\ plan.was \in BOOLEAN /\ plan.told \in BOOLEAN
  BY TypeOKInParts DEF PlanTyped
<1>1. CASE AskModel
  <2> DEFINE told == plan.told \/ plan.was # plan.active
  <2>1. plan' = [plan EXCEPT !.was = plan.active, !.told = told]
    BY <1>1 DEF AskModel
  <2>2. told \in BOOLEAN
    OBVIOUS
  <2> HIDE DEF told
  <2> QED
    BY <1>0, <2>1, <2>2 DEF PlanTyped
<1>2. ASSUME NEW c \in Calls, ReviewPlan(c)
      PROVE  PlanTyped'
  <2>1. \/ plan' = [plan EXCEPT !.edited = TRUE]
        \/ \E clear \in BOOLEAN, edited \in BOOLEAN :
               plan' = [plan EXCEPT !.active = FALSE, !.clear = clear,
                                    !.edited = edited]
    BY <1>0, <1>2 DEF ReviewPlan, PlanTyped
  <2> QED
    BY <1>0, <2>1 DEF PlanTyped
<1>3. CASE TurnToThePlan \/ Judge \/ ClearHistory \/ CompactionEnds
  <2>1. \/ plan' = [plan EXCEPT !.clear = FALSE, !.edited = FALSE]
        \/ plan' = [plan EXCEPT !.edited = FALSE]
        \/ plan' = [plan EXCEPT !.was = FALSE, !.told = TRUE]
    BY <1>3 DEF TurnToThePlan, Judge, ClearHistory, CompactionEnds
  <2> QED
    BY <1>0, <2>1 DEF PlanTyped
<1>4. CASE InterruptReset \/ ReloadConfig
  <2> DEFINE told == plan.told /\ ~plan.was
  <2>1. \/ plan' = [plan EXCEPT !.told = told]
        \/ plan' = [plan EXCEPT !.was = FALSE, !.told = told]
    BY <1>4 DEF InterruptReset, ReloadConfig
  <2>2. told \in BOOLEAN
    OBVIOUS
  <2> HIDE DEF told
  <2> QED
    BY <1>0, <2>1, <2>2 DEF PlanTyped
<1>5. CASE SwitchAgent
  <2> DEFINE active == ~plan.active
  <2>1. plan' = [plan EXCEPT !.active = active] /\ active \in BOOLEAN
    BY <1>5 DEF SwitchAgent
  <2> HIDE DEF active
  <2> QED
    BY <1>0, <2>1 DEF PlanTyped
<1>6. ASSUME UNCHANGED plan
      PROVE  PlanTyped'
  BY <1>0, <1>6 DEF PlanTyped
<1>7. ASSUME NEW c \in Calls, LateReview(c)
      PROVE  PlanTyped'
  <2>1. PICK clear \in BOOLEAN : plan' = [plan EXCEPT !.active = FALSE, !.clear = clear]
    BY <1>0, <1>7 DEF LateReview, PlanTyped
  <2> QED
    BY <1>0, <2>1 DEF PlanTyped
<1>8. ASSUME NEW k \in DOMAIN msgs, Rewind(k)
      PROVE  PlanTyped'
  <2> DEFINE told == NoticeIsCurrent(msgs', plan.was)
  <2>1. plan' = [plan EXCEPT !.told = told]
    BY <1>8 DEF Rewind
  <2>2. told \in BOOLEAN
    BY DEF NoticeIsCurrent
  <2> HIDE DEF told
  <2> QED
    BY <1>0, <2>1, <2>2 DEF PlanTyped
<1> QED
  BY <1>1, <1>2, <1>3, <1>4, <1>5, <1>6, <1>7, <1>8
     DEF Next, vars, StartTurn, MentionFile, LimitReached, Answers, AskFails, RunTools,
         ToolAnswers, UserCancels, ToolVanishes, Interrupt, InterruptMention, SeedPlan,
         HooksRetry, HooksPass, EndTurn, CompactFull, RecoverFromOverflow,
         CompactByHand, StartCompaction, CompactionFails, Summarized, BatchRefused,
         Abandon, CloseBatch, LateAnswers, LateVanishes

(* The bounds.                                                                *)
LEMMA SpentStep ==
  ASSUME TypeOK, Budget, [Next]_vars
  PROVE  SpentTyped'
<1>0. /\ SpentTyped
      /\ MaxActs \in Nat /\ MaxAsks \in Nat /\ MaxCalls \in Nat
      /\ MaxSwitches \in Nat /\ MaxCompactions \in Nat
  BY TypeOKInParts, BoundsAssumption
<1>8. ASSUME UNCHANGED spent
      PROVE  SpentTyped'
  BY <1>0, <1>8 DEF SpentTyped
<1>1. CASE StartTurn
  BY <1>0, <1>1 DEF StartTurn, SpentTyped
<1>2. ASSUME NEW n \in Nat, spent.calls + n <= MaxCalls,
             spent' = [spent EXCEPT !.calls = @ + n]
      PROVE  SpentTyped'
  BY <1>0, <1>2 DEF SpentTyped
<1>3. CASE MentionFile
  <2>1. spent.calls + 1 <= MaxCalls /\ spent' = [spent EXCEPT !.calls = @ + 1]
    BY <1>0, <1>3 DEF MentionFile, SpentTyped
  <2> QED
    BY <1>2, <2>1
<1>4. CASE Answers
  <2>1. PICK n \in 0..2 : /\ spent.calls + n <= MaxCalls
                          /\ spent' = [spent EXCEPT !.asks = @ + 1, !.calls = @ + n]
    BY <1>4 DEF Answers
  <2>2. spent.asks < MaxAsks
    BY <1>4 DEF Answers, Budget
  <2> DEFINE asks == spent.asks + 1
             calls == spent.calls + n
  <2>3. asks \in 0..MaxAsks /\ calls \in 0..MaxCalls
    BY <1>0, <2>1, <2>2 DEF SpentTyped
  <2>4. spent' = [spent EXCEPT !.asks = asks, !.calls = calls]
    BY <2>1
  <2> HIDE DEF asks, calls
  <2> QED
    BY <1>0, <2>3, <2>4 DEF SpentTyped
<1>5. CASE AskFails
  <2>1. \/ UNCHANGED spent
        \/ \E n \in 0..1 : /\ spent.calls + n <= MaxCalls
                           /\ spent' = [spent EXCEPT !.calls = @ + n]
    BY <1>5 DEF AskFails
  <2>2. ASSUME NEW n \in 0..1, spent.calls + n <= MaxCalls,
               spent' = [spent EXCEPT !.calls = @ + n]
        PROVE  SpentTyped'
    <3>1. n \in Nat
      OBVIOUS
    <3> QED
      BY <1>2, <2>2, <3>1
  <2>3. CASE UNCHANGED spent
    BY <1>8, <2>3
  <2>4. CASE \E n \in 0..1 : /\ spent.calls + n <= MaxCalls
                             /\ spent' = [spent EXCEPT !.calls = @ + n]
    <3>1. PICK n \in 0..1 : /\ spent.calls + n <= MaxCalls
                            /\ spent' = [spent EXCEPT !.calls = @ + n]
      BY <2>4
    <3> QED
      BY <2>2, <3>1
  <2> QED
    BY <2>1, <2>3, <2>4
<1>6. CASE CompactFull \/ RecoverFromOverflow \/ CompactByHand
  <2>1. /\ spent.compactions < MaxCompactions
        /\ spent' = [spent EXCEPT !.compactions = @ + 1]
    BY <1>6 DEF CompactFull, RecoverFromOverflow, CompactByHand, StartCompaction
  <2> QED
    BY <1>0, <2>1 DEF SpentTyped
<1>7. CASE SwitchAgent \/ ReloadConfig
  <2>1. /\ spent.switches < MaxSwitches
        /\ spent' = [spent EXCEPT !.switches = @ + 1]
    BY <1>7 DEF SwitchAgent, ReloadConfig
  <2> QED
    BY <1>0, <2>1 DEF SpentTyped
<1> QED
  BY <1>1, <1>3, <1>4, <1>5, <1>6, <1>7, <1>8
     DEF Next, vars, LimitReached, AskModel, RunTools, ToolAnswers, UserCancels,
         ReviewPlan, ToolVanishes, Interrupt, InterruptMention, TurnToThePlan, Judge,
         ClearHistory, SeedPlan, HooksRetry, HooksPass, EndTurn, CompactionFails,
         Summarized, CompactionEnds, InterruptReset, BatchRefused, Abandon, CloseBatch,
         LateAnswers, LateVanishes, LateReview, Rewind

(* Every step keeps the model from being called past the bound.               *)
LEMMA BudgetStep ==
  ASSUME TypeOK, Budget, [Next]_vars
  PROVE  Budget'
<1>0. LoopTyped /\ SpentTyped
  BY TypeOKInParts
<1>1. ASSUME spent'.asks = spent.asks, loop'.then = loop.then,
             loop'.at = loop.at \/ loop'.at \notin {"ask", "compacting", "resetting"}
      PROVE  Budget'
  BY <1>1 DEF Budget
<1>2. CASE StartTurn
  BY <1>0, <1>1, <1>2 DEF StartTurn, LoopTyped, SpentTyped
<1>3. CASE MentionFile
  BY <1>0, <1>1, <1>3 DEF MentionFile, LoopTyped, SpentTyped
<1>4. CASE AskModel
  BY <1>0, <1>4 DEF AskModel, LoopTyped, SpentTyped, Budget
<1>5. CASE Answers
  <2>1. loop'.at = "got"
    BY <1>0, <1>5 DEF Answers, LoopTyped
  <2> QED
    BY <2>1 DEF Budget
<1>6. CASE LimitReached \/ AskFails \/ HooksPass \/ EndTurn \/ Judge \/ TurnToThePlan
           \/ ClearHistory \/ SeedPlan \/ HooksRetry \/ InterruptMention \/ Interrupt
           \/ InterruptReset \/ RunTools \/ BatchRefused \/ Abandon
  <2>1. loop'.at \notin {"ask", "compacting", "resetting"}
    BY <1>0, <1>6
       DEF LimitReached, AskFails, Fails, HooksPass, EndTurn, Judge, TurnToThePlan,
           ClearHistory, SeedPlan, HooksRetry, InterruptMention, Interrupt,
           InterruptReset, RunTools, BatchRefused, Abandon, LoopTyped
  <2> QED
    BY <2>1 DEF Budget
<1>7. ASSUME NEW c \in Calls, c \in loop.running, UNCHANGED spent,
             \/ loop' = WithoutTool(c)
             \/ loop' = [WithoutTool(c) EXCEPT !.cancelled = TRUE]
      PROVE  Budget'
  <2>1. /\ loop'.then = loop.then
        /\ loop.at \in {"mention", "tools", "cancelling"}
    BY <1>0, <1>7, TypeOKInParts DEF WithoutTool, LoopTyped, RunningTyped
  <2>2. loop'.at \notin {"ask", "compacting", "resetting"}
    BY <1>0, <1>7, <2>1 DEF WithoutTool, LoopTyped
  <2> QED
    BY <2>2 DEF Budget
<1>8. CASE CompactFull
  BY <1>0, <1>8 DEF CompactFull, StartCompaction, LoopTyped, SpentTyped, Budget
<1>9. CASE RecoverFromOverflow \/ CompactByHand
  <2>1. loop'.at = "compacting" /\ loop'.then \in {"before", "idle"}
    BY <1>0, <1>9 DEF RecoverFromOverflow, CompactByHand, StartCompaction, LoopTyped
  <2> QED
    BY <2>1 DEF Budget
<1>10. CASE CompactionFails
  <2>1. loop'.at \in {"idle", "ending"}
    BY <1>0, <1>10 DEF CompactionFails, Fails, LoopTyped
  <2> QED
    BY <2>1 DEF Budget
<1>11. CASE Summarized \/ CompactionEnds
  BY <1>0, <1>11 DEF Summarized, CompactionEnds, LoopTyped, Budget
<1>12. CASE SwitchAgent \/ ReloadConfig
  <2>1. loop' = loop /\ spent'.asks = spent.asks
    BY <1>0, <1>12 DEF SwitchAgent, ReloadConfig, SpentTyped
  <2> QED
    BY <1>1, <2>1
<1>13. ASSUME NEW c \in Calls,
              ReviewPlan(c) \/ LateAnswers(c) \/ LateVanishes(c) \/ LateReview(c)
       PROVE  Budget'
  BY <1>1, <1>13 DEF ReviewPlan, LateAnswers, LateVanishes, LateReview
<1>14. CASE UNCHANGED vars \/ CloseBatch \/ \E k \in DOMAIN msgs : Rewind(k)
  BY <1>1, <1>14 DEF vars, CloseBatch, Rewind
<1>15. ASSUME NEW c \in Calls, ToolAnswers(c) \/ UserCancels(c) \/ ToolVanishes(c)
       PROVE  Budget'
  BY <1>7, <1>15 DEF ToolAnswers, UserCancels, ToolVanishes
<1> QED
  BY <1>2, <1>3, <1>4, <1>5, <1>6, <1>8, <1>9, <1>10, <1>11, <1>12, <1>13, <1>14,
     <1>15 DEF Next

(* ------------------------------ what a step does to the transcript -------- *)

SaysMore == \E kind \in Kinds : msgs' = Append(msgs, Said(kind))

AsksMore ==
  \E n \in Nat : /\ spent.calls + n <= MaxCalls
                 /\ msgs' = Append(msgs, Asked(Fresh(n)))
                 /\ spent'.calls = spent.calls + n

AnswersMore == \E c \in loop.running : msgs' = Append(msgs, Answered(c))

StartsOver ==
  msgs' \in {Cleaned(msgs), Append(Cleaned(msgs), Said("user"))}

Forgets == msgs' \in {<<>>, <<Said("envelope")>>} /\ (ClearHistory \/ Summarized)

(* What a step may do to the transcript.                                      *)
LEMMA KindsOfStep ==
  ASSUME TypeOK, [Next]_vars
  PROVE  \/ AsksMore
         \/ /\ spent'.calls = spent.calls
            /\ \/ UNCHANGED msgs \/ SaysMore \/ AnswersMore \/ StartsOver \/ Forgets
               \/ BatchRefused
               \/ \E c \in Calls : LateAnswers(c)
               \/ \E k \in DOMAIN msgs : Rewind(k)
<1>0. /\ LoopTyped /\ SpentTyped /\ spent.calls \in Nat
      /\ {"user", "note", "remind", "exit"} \subseteq Kinds
  BY TypeOKInParts, BoundsAssumption DEF SpentTyped, Kinds
<1>1. CASE StartTurn
  BY <1>0, <1>1 DEF StartTurn, StartsOver, SpentTyped
<1>2. CASE MentionFile
  <2>1. Fresh(1) = {spent.calls + 1} /\ spent.calls + 1 <= MaxCalls
    BY <1>0, <1>2, BoundsAssumption DEF MentionFile, Fresh
  <2>2. spent'.calls = spent.calls + 1 /\ msgs' = Append(msgs, Asked(Fresh(1)))
    BY <1>0, <1>2, <2>1 DEF MentionFile, SpentTyped
  <2> QED
    BY <2>1, <2>2 DEF AsksMore
<1>3. CASE AskModel
  <2>1. \/ msgs' = Append(msgs, Said("exit")) \/ msgs' = Append(msgs, Said("remind"))
        \/ UNCHANGED msgs
    BY <1>3 DEF AskModel
  <2>2. UNCHANGED spent
    BY <1>3 DEF AskModel
  <2> QED
    BY <1>0, <2>1, <2>2 DEF SaysMore
<1>4. CASE Answers
  <2>1. PICK n \in 0..2 : /\ spent.calls + n <= MaxCalls
                          /\ msgs' = Append(msgs, Asked(Fresh(n)))
                          /\ spent' = [spent EXCEPT !.asks = @ + 1, !.calls = @ + n]
    BY <1>4 DEF Answers
  <2>2. spent'.calls = spent.calls + n /\ n \in Nat
    BY <1>0, <2>1 DEF SpentTyped
  <2> QED
    BY <2>1, <2>2 DEF AsksMore
<1>5. CASE AskFails
  <2>1. CASE UNCHANGED <<msgs, spent>>
    BY <2>1
  <2>2. ASSUME NEW n \in 0..1, spent.calls + n <= MaxCalls,
               msgs' = Append(msgs, Asked(Fresh(n))),
               spent' = [spent EXCEPT !.calls = @ + n]
        PROVE  AsksMore
    <3>1. spent'.calls = spent.calls + n /\ n \in Nat
      BY <1>0, <2>2 DEF SpentTyped
    <3> QED
      BY <2>2, <3>1 DEF AsksMore
  <2> QED
    BY <1>5, <2>1, <2>2 DEF AskFails
<1>6. ASSUME NEW c \in Calls, ToolAnswers(c) \/ UserCancels(c)
      PROVE  UNCHANGED spent /\ AnswersMore
  BY <1>6 DEF ToolAnswers, UserCancels, AnswersMore
<1>7. CASE InterruptMention
  BY <1>7 DEF InterruptMention, AnswersMore
<1>8. CASE Judge
  BY <1>0, <1>8 DEF Judge, SaysMore
<1>9. CASE ClearHistory \/ Summarized
  BY <1>9 DEF ClearHistory, Summarized, Forgets
<1>10. CASE SeedPlan \/ HooksRetry
  BY <1>0, <1>10 DEF SeedPlan, HooksRetry, SaysMore
<1>11. CASE CompactFull \/ RecoverFromOverflow \/ CompactByHand
  <2>1. msgs' = Cleaned(msgs) /\ spent' = [spent EXCEPT !.compactions = @ + 1]
    BY <1>11 DEF CompactFull, RecoverFromOverflow, CompactByHand, StartCompaction
  <2> QED
    BY <1>0, <2>1 DEF StartsOver, SpentTyped
<1>12. CASE SwitchAgent \/ ReloadConfig
  BY <1>0, <1>12 DEF SwitchAgent, ReloadConfig, SpentTyped
<1>13. CASE UNCHANGED <<msgs, spent>>
  BY <1>13
<1>14. CASE BatchRefused
  BY <1>14 DEF BatchRefused
<1>15. ASSUME NEW c \in Calls, LateAnswers(c)
       PROVE  UNCHANGED spent /\ \E d \in Calls : LateAnswers(d)
  BY <1>15 DEF LateAnswers
<1>16. ASSUME NEW k \in DOMAIN msgs, Rewind(k)
       PROVE  UNCHANGED spent /\ \E l \in DOMAIN msgs : Rewind(l)
  BY <1>16 DEF Rewind
<1> QED
  BY <1>1, <1>2, <1>3, <1>4, <1>5, <1>6, <1>7, <1>8, <1>9, <1>10, <1>11, <1>12, <1>13,
     <1>14, <1>15, <1>16
     DEF Next, vars, LimitReached, RunTools, ReviewPlan, ToolVanishes, Interrupt,
         TurnToThePlan, HooksPass, EndTurn, CompactionFails, CompactionEnds,
         InterruptReset, Abandon, CloseBatch, LateVanishes, LateReview

(* ------------------------------ who works --------------------------------- *)

(* The tools of earlier turns are left to themselves, and the turn starts no  *)
(* other.                                                                     *)
NoNewWork ==
  /\ late' \in {late, [late EXCEPT !.astray = FALSE]}
  /\ loop'.running \subseteq loop.running
  /\ loop'.at = "tools" => loop.at = "tools"

(* The few steps of which this is not so.                                     *)
LEMMA WhoStartsWork ==
  ASSUME TypeOK, [Next]_vars
  PROVE  \/ NoNewWork \/ MentionFile \/ RunTools \/ Abandon \/ CloseBatch
         \/ loop.at = "cancelling" /\ Interrupt
         \/ \E c \in Calls : LateAnswers(c) \/ LateVanishes(c)
<1>0. LoopTyped /\ RunningTyped
  BY TypeOKInParts
<1>1. CASE StartTurn \/ LimitReached \/ AskModel \/ Answers \/ AskFails \/ BatchRefused
  BY <1>0, <1>1 DEF StartTurn, LimitReached, AskModel, Answers, AskFails, BatchRefused,
                    Fails, LoopTyped, NoNewWork
<1>2. CASE InterruptMention \/ TurnToThePlan \/ Judge \/ ClearHistory \/ SeedPlan
  <2>1. /\ late' \in {late, [late EXCEPT !.astray = FALSE]}
        /\ \/ loop' = [loop EXCEPT !.at = "idle", !.running = {}, !.answered = FALSE]
           \/ loop' = [loop EXCEPT !.at = "clearing", !.cancelled = FALSE]
           \/ loop' = [loop EXCEPT !.at = "ending", !.answered = FALSE]
           \/ \E at \in {"hooks", "before", "seeding"} : loop' = [loop EXCEPT !.at = at]
    BY <1>2 DEF InterruptMention, TurnToThePlan, Judge, ClearHistory, SeedPlan
  <2> QED
    BY <1>0, <2>1 DEF LoopTyped, NoNewWork
<1>3. CASE HooksRetry \/ HooksPass \/ EndTurn \/ CompactFull \/ RecoverFromOverflow
           \/ CompactByHand
  BY <1>0, <1>3 DEF HooksRetry, HooksPass, EndTurn, CompactFull, RecoverFromOverflow,
                    CompactByHand, StartCompaction, LoopTyped, NoNewWork
<1>4. CASE CompactionFails \/ Summarized \/ CompactionEnds \/ InterruptReset
  BY <1>0, <1>4 DEF CompactionFails, Fails, Summarized, CompactionEnds, InterruptReset,
                    LoopTyped, NoNewWork
<1>5. CASE Interrupt /\ loop.at # "cancelling"
  <2>1. UNCHANGED late
    BY <1>5 DEF Interrupt
  <2>2. PICK next \in {"cancelling", "idle", "ending"} :
               loop' = [loop EXCEPT !.at = next, !.running = loop.running,
                                    !.answered = FALSE]
    BY <1>5 DEF Interrupt
  <2> QED
    BY <1>0, <2>1, <2>2 DEF LoopTyped, NoNewWork
<1>6. ASSUME NEW c \in Calls, ToolAnswers(c) \/ UserCancels(c) \/ ToolVanishes(c)
      PROVE  NoNewWork
  <2>1. /\ c \in loop.running /\ UNCHANGED late
        /\ loop' \in {WithoutTool(c), [WithoutTool(c) EXCEPT !.cancelled = TRUE]}
    BY <1>6 DEF ToolAnswers, UserCancels, ToolVanishes
  <2>2. /\ loop'.running = loop.running \ {c}
        /\ loop'.at = "tools" => loop.at = "tools"
    BY <1>0, <2>1, WithoutToolFields
  <2> QED
    BY <2>1, <2>2 DEF NoNewWork
<1>7. ASSUME UNCHANGED <<loop, late>>
      PROVE  NoNewWork
  BY <1>7 DEF NoNewWork
<1> QED
  BY <1>1, <1>2, <1>3, <1>4, <1>5, <1>6, <1>7
     DEF Next, vars, ReviewPlan, LateReview, SwitchAgent, ReloadConfig, Rewind

(* The tools of a turn that was cut off stay apart from those that run.       *)
LEMMA LateStep ==
  ASSUME TypeOK, Apart, [Next]_vars
  PROVE  LateTyped' /\ LateKept'
<1>0. /\ LoopTyped /\ RunningTyped /\ LateTyped /\ LateKept
      /\ LoopTyped' /\ RunningTyped'
  BY TypeOKInParts, LoopStep
<1>1. CASE NoNewWork
  BY <1>0, <1>1 DEF NoNewWork, LateTyped, LateKept
<1>2. CASE MentionFile
  <2>1. /\ UNCHANGED late /\ loop'.running = {spent.calls + 1}
        /\ loop'.at = "mention" /\ spent.calls \in Nat
    BY <1>0, <1>2, BoundsAssumption DEF MentionFile, LoopTyped, TypeOK
  <2>2. \A c \in late.left \union late.cancelled : c \in Nat /\ c <= spent.calls
    BY <1>0 DEF Apart, Working, LateTyped, Calls
  <2>3. (late.left \union late.cancelled) \intersect {spent.calls + 1} = {}
    BY <2>1, <2>2
  <2> QED
    BY <1>0, <2>1, <2>3 DEF LateTyped, LateKept
<1>3. CASE RunTools
  <2> DEFINE calls == msgs[Len(msgs)].calls
  <2>1. /\ UNCHANGED late
        /\ calls # {} => ~late.bound
        /\ loop' = [loop EXCEPT !.at = IF calls = {} THEN "save" ELSE "tools",
                                !.running = calls]
        /\ \A c \in calls : c \notin late.left \union late.cancelled
    BY <1>3 DEF RunTools, Apart
  <2> HIDE DEF calls
  <2>2. CASE calls = {}
    <3>1. loop'.running = {} /\ loop'.at = "save"
      BY <1>0, <2>1, <2>2 DEF LoopTyped
    <3> QED
      BY <1>0, <2>1, <3>1 DEF LateTyped, LateKept
  <2>3. CASE calls # {}
    <3>1. loop'.running = calls /\ ~late.bound
      BY <1>0, <2>1, <2>3 DEF LoopTyped
    <3>2. (late.left \union late.cancelled) \intersect calls = {}
      BY <2>1
    <3> QED
      BY <1>0, <2>1, <3>1, <3>2 DEF LateTyped, LateKept
  <2> QED
    BY <2>2, <2>3
<1>4. CASE Abandon
  <2> DEFINE bound == late.bound \/ loop.at \in {"tools", "save"}
             left == late.left \union loop.running
  <2>1. /\ loop'.at = "idle" /\ loop'.running = {}
        /\ late' = [late EXCEPT !.left = left, !.bound = bound]
    BY <1>0, <1>4 DEF Abandon, LoopTyped
  <2>2. left \in SUBSET Calls /\ bound \in BOOLEAN
    BY <1>0 DEF LoopTyped, LateTyped
  <2>3. left # {} => bound
    BY <1>0, <1>4 DEF Abandon, RunningTyped, LateKept
  <2> HIDE DEF left, bound
  <2> QED
    BY <1>0, <2>1, <2>2, <2>3 DEF LateTyped, LateKept
<1>5. CASE CloseBatch
  <2> DEFINE cancelled == late.cancelled \union late.left
  <2>1. /\ UNCHANGED loop /\ cancelled \in SUBSET Calls
        /\ late' = [late EXCEPT !.bound = FALSE, !.left = {}, !.cancelled = cancelled]
    BY <1>0, <1>5 DEF CloseBatch, LateTyped
  <2>2. cancelled \intersect loop.running = {}
    BY <1>0 DEF LateKept
  <2> HIDE DEF cancelled
  <2> QED
    BY <1>0, <2>1, <2>2 DEF LateTyped, LateKept
<1>6. CASE loop.at = "cancelling" /\ Interrupt
  <2> DEFINE cancelled == late.cancelled \union loop.running
  <2>1. /\ loop'.running = {} /\ loop'.at = "ending" /\ cancelled \in SUBSET Calls
        /\ late' = [late EXCEPT !.cancelled = cancelled]
    BY <1>0, <1>6 DEF Interrupt, LoopTyped, LateTyped
  <2> HIDE DEF cancelled
  <2> QED
    BY <1>0, <2>1 DEF LateTyped, LateKept
<1>7. ASSUME NEW c \in Calls, LateAnswers(c) \/ LateVanishes(c)
      PROVE  LateTyped' /\ LateKept'
  <2>1. PICK astray \in BOOLEAN :
               late' = [late EXCEPT !.left = @ \ {c}, !.cancelled = @ \ {c},
                                    !.astray = astray]
    <3> DEFINE astray == late.astray \/ c \notin OpenAt(msgs, Len(msgs))
    <3>1. astray \in BOOLEAN /\ late.astray \in BOOLEAN
      BY <1>0 DEF LateTyped
    <3>2. LateAnswers(c) => late' = [WithoutLate(c) EXCEPT !.astray = astray]
      BY DEF LateAnswers, WithoutLate, LateTyped
    <3>3. LateVanishes(c) => late' = WithoutLate(c)
      BY DEF LateVanishes
    <3> HIDE DEF astray
    <3> QED
      BY <1>0, <1>7, <3>1, <3>2, <3>3 DEF WithoutLate, LateTyped
  <2>2. UNCHANGED loop
    BY <1>7 DEF LateAnswers, LateVanishes
  <2> QED
    BY <1>0, <2>1, <2>2 DEF LateTyped, LateKept
<1> QED
  BY <1>1, <1>2, <1>3, <1>4, <1>5, <1>6, <1>7, WhoStartsWork

(* What a late tool leaves, and whether its answer goes astray.               *)
LEMMA LateFields ==
  ASSUME LateTyped, NEW c \in Calls, LateAnswers(c) \/ LateVanishes(c)
  PROVE  /\ late'.left = late.left \ {c} /\ late'.cancelled = late.cancelled \ {c}
         /\ LateVanishes(c) => late'.astray = late.astray
         /\ LateAnswers(c)
              => (late'.astray <=> late.astray \/ c \notin OpenAt(msgs, Len(msgs)))
<1>1. CASE LateAnswers(c)
  <2> DEFINE astray == late.astray \/ c \notin OpenAt(msgs, Len(msgs))
  <2>1. late' = [WithoutLate(c) EXCEPT !.astray = astray]
    BY <1>1 DEF LateAnswers, WithoutLate, LateTyped
  <2> HIDE DEF astray
  <2>2. /\ late'.left = late.left \ {c} /\ late'.cancelled = late.cancelled \ {c}
        /\ late'.astray = astray
    BY <2>1 DEF WithoutLate, LateTyped
  <2>3. LateVanishes(c) => late'.astray = late.astray
    BY DEF LateVanishes, WithoutLate, LateTyped
  <2> QED
    BY <2>2, <2>3 DEF astray
<1>2. CASE LateVanishes(c) /\ ~LateAnswers(c)
  BY <1>2 DEF LateVanishes, WithoutLate, LateTyped
<1> QED
  BY <1>1, <1>2

(* Nothing is in order again but by forgetting the transcript.                *)
LEMMA StraysOnly ==
  ASSUME TypeOK, [Next]_vars, ~late'.astray
  PROVE  ~late.astray \/ ClearHistory \/ Summarized
<1>0. LateTyped
  BY TypeOKInParts
<1>1. ASSUME NEW c \in Calls, LateAnswers(c) \/ LateVanishes(c)
      PROVE  ~late.astray
  BY <1>0, <1>1, LateFields
<1>2. CASE Abandon \/ CloseBatch \/ Interrupt
  BY <1>0, <1>2 DEF Abandon, CloseBatch, Interrupt, LateTyped
<1>3. CASE UNCHANGED late
  BY <1>3
<1> QED
  BY <1>1, <1>2, <1>3
     DEF Next, vars, StartTurn, MentionFile, LimitReached, AskModel, Answers, AskFails,
         RunTools, BatchRefused, ToolAnswers, UserCancels, ReviewPlan, ToolVanishes,
         LateReview, InterruptMention, TurnToThePlan, Judge, SeedPlan, HooksRetry,
         HooksPass, EndTurn, CompactFull, RecoverFromOverflow, CompactByHand,
         StartCompaction, CompactionFails, CompactionEnds, InterruptReset, SwitchAgent,
         ReloadConfig, Rewind

(* Only an answer of the model leads to where it waits to be acted on.        *)
LEMMA OnlyAnAnswerIsGot ==
  ASSUME TypeOK, [Next]_vars, loop'.at = "got"
  PROVE  \/ Answers
         \/ /\ UNCHANGED loop /\ loop.at = "got"
            /\ UNCHANGED msgs \/ \E c \in Calls : LateAnswers(c)
<1>0. LoopTyped /\ RunningTyped
  BY TypeOKInParts
<1>1. ~(StartTurn \/ MentionFile \/ LimitReached \/ AskModel \/ AskFails)
  BY <1>0 DEF StartTurn, MentionFile, LimitReached, AskModel, AskFails, Fails, LoopTyped
<1>9. ~(RunTools \/ BatchRefused)
  <2>1. RunTools \/ BatchRefused
          => \/ \E at \in {"save", "tools"}, running \in {loop'.running} :
                    loop' = [loop EXCEPT !.at = at, !.running = running]
             \/ loop' = [loop EXCEPT !.at = "save"]
             \/ loop' = [loop EXCEPT !.at = "ending", !.answered = FALSE]
    <3>1. RunTools => loop'.running = msgs[Len(msgs)].calls
      BY <1>0 DEF RunTools, LoopTyped
    <3> QED
      BY <3>1 DEF RunTools, BatchRefused, Fails
  <2> QED
    BY <1>0, <2>1 DEF LoopTyped
<1>2. ASSUME NEW c \in Calls, ToolAnswers(c) \/ UserCancels(c) \/ ToolVanishes(c)
      PROVE  FALSE
  <2>1. /\ c \in loop.running
        /\ loop' \in {WithoutTool(c), [WithoutTool(c) EXCEPT !.cancelled = TRUE]}
    BY <1>2 DEF ToolAnswers, UserCancels, ToolVanishes
  <2>2. loop.at \in {"mention", "tools", "cancelling"}
    BY <1>0, <2>1 DEF RunningTyped
  <2> QED
    BY <1>0, <2>1, <2>2, WithoutToolFields
<1>3. ~(Interrupt \/ InterruptMention \/ Abandon \/ TurnToThePlan \/ Judge)
  <2>1. ~Interrupt
    BY <1>0 DEF Interrupt, LoopTyped
  <2>2. ~(InterruptMention \/ Abandon)
    BY <1>0 DEF InterruptMention, Abandon, LoopTyped
  <2>3. ~(TurnToThePlan \/ Judge)
    <3>1. TurnToThePlan \/ Judge
            => \/ loop' = [loop EXCEPT !.at = "clearing", !.cancelled = FALSE]
               \/ loop' = [loop EXCEPT !.at = "ending", !.answered = FALSE]
               \/ \E at \in {"hooks", "before"} : loop' = [loop EXCEPT !.at = at]
      BY DEF TurnToThePlan, Judge
    <3> QED
      BY <1>0, <3>1 DEF LoopTyped
  <2> QED
    BY <2>1, <2>2, <2>3
<1>4. ~(ClearHistory \/ SeedPlan \/ HooksRetry \/ HooksPass \/ EndTurn \/ CompactFull
        \/ RecoverFromOverflow \/ CompactByHand)
  BY <1>0 DEF ClearHistory, SeedPlan, HooksRetry, HooksPass, EndTurn, CompactFull,
              RecoverFromOverflow, CompactByHand, StartCompaction, LoopTyped
<1>5. ~(CompactionFails \/ Summarized \/ CompactionEnds \/ InterruptReset)
  BY <1>0 DEF CompactionFails, Fails, Summarized, CompactionEnds, InterruptReset,
              LoopTyped
<1>6. ~\E k \in DOMAIN msgs : Rewind(k)
  BY DEF Rewind
<1>7. ASSUME NEW c \in Calls, ReviewPlan(c) \/ LateVanishes(c) \/ LateReview(c)
                                \/ LateAnswers(c)
      PROVE  UNCHANGED loop /\ (UNCHANGED msgs \/ LateAnswers(c))
  BY <1>7 DEF ReviewPlan, LateVanishes, LateReview, LateAnswers
<1>8. CASE CloseBatch \/ SwitchAgent \/ ReloadConfig \/ UNCHANGED vars
  BY <1>8 DEF CloseBatch, SwitchAgent, ReloadConfig, vars
<1> QED
  BY <1>1, <1>2, <1>3, <1>4, <1>5, <1>6, <1>7, <1>8, <1>9 DEF Next

(* No step makes one of its calls a tool's that still works for another.      *)
LEMMA ApartStep ==
  ASSUME TypeOK, Apart, [Next]_vars
  PROVE  Apart'
<1>0. /\ LoopTyped /\ RunningTyped /\ LateTyped /\ LateKept /\ spent.calls \in Nat
      /\ msgs \in Seq(Message) /\ Working \subseteq Calls /\ Calls \subseteq Nat
  BY TypeOKInParts, BoundsAssumption
     DEF SpentTyped, Working, LoopTyped, LateTyped, Calls
<1>1. spent'.calls \in Nat /\ spent.calls <= spent'.calls
  BY <1>0, KindsOfStep DEF AsksMore
<1>2. ASSUME NEW c \in Working'
      PROVE  c <= spent'.calls
  <2>1. CASE c \in Working
    BY <1>0, <1>1, <2>1 DEF Apart
  <2>2. CASE MentionFile
    <3>1. UNCHANGED late /\ loop'.running = {spent.calls + 1}
      BY <1>0, <2>2 DEF MentionFile, LoopTyped
    <3>2. spent'.calls = spent.calls + 1
      BY <2>2, TypeOKInParts DEF MentionFile, SpentTyped
    <3> QED
      BY <1>0, <1>2, <2>1, <3>1, <3>2 DEF Working
  <2>3. CASE RunTools
    <3>1. UNCHANGED <<late, spent>> /\ loop'.running = msgs[Len(msgs)].calls
          /\ loop.at = "got"
      BY <1>0, <2>3 DEF RunTools, LoopTyped
    <3> QED
      BY <1>2, <2>1, <3>1 DEF Working, Apart
  <2>4. CASE NoNewWork
    <3>1. c \in Working
      BY <1>0, <1>2, <2>4 DEF NoNewWork, Working, LateTyped
    <3> QED
      BY <2>1, <3>1
  <2>5. CASE Abandon \/ CloseBatch \/ (loop.at = "cancelling" /\ Interrupt)
    <3>1. c \in Working
      BY <1>0, <1>2, <2>5
         DEF Abandon, CloseBatch, Interrupt, Working, LateTyped, LoopTyped
    <3> QED
      BY <2>1, <3>1
  <2>6. ASSUME NEW d \in Calls, LateAnswers(d) \/ LateVanishes(d)
        PROVE  c \in Working
    <3>1. UNCHANGED loop
      BY <2>6 DEF LateAnswers, LateVanishes
    <3> QED
      BY <1>0, <1>2, <2>6, <3>1, LateFields DEF Working
  <2> QED
    BY <2>1, <2>2, <2>3, <2>4, <2>5, <2>6, WhoStartsWork
<1>3. ASSUME loop'.at = "got"
      PROVE  /\ msgs' # <<>> /\ msgs'[Len(msgs')].kind \in {"assistant", "tool"}
             /\ \A c \in msgs'[Len(msgs')].calls :
                    c <= spent'.calls /\ c \notin late'.left \union late'.cancelled
  <2>1. CASE Answers
    <3>1. PICK n \in 0..2 : /\ spent.calls + n <= MaxCalls
                            /\ msgs' = Append(msgs, Asked(Fresh(n)))
                            /\ spent' = [spent EXCEPT !.asks = @ + 1, !.calls = @ + n]
      BY <2>1 DEF Answers
    <3>2. n \in Nat
      OBVIOUS
    <3>3. /\ Fresh(n) \in SUBSET Calls
          /\ \A c \in Fresh(n) : c > spent.calls /\ c <= spent.calls + n
      BY <3>1, <3>2, FreshIsNew
    <3> DEFINE m == Asked(Fresh(n))
    <3>4. m \in Message /\ m.kind = "assistant" /\ m.calls = Fresh(n)
      BY <3>3 DEF Asked, Message
    <3> HIDE DEF m
    <3>5. msgs' # <<>> /\ msgs'[Len(msgs')] = m
      BY <1>0, <3>1, <3>4 DEF m
    <3>6. UNCHANGED late /\ spent'.calls = spent.calls + n
      BY <2>1, <3>1, TypeOKInParts DEF Answers, SpentTyped
    <3>7. \A c \in late.left \union late.cancelled : c \in Nat /\ c <= spent.calls
      BY <1>0 DEF Apart, Working
    <3>8. \A c \in Fresh(n) : c \notin late.left \union late.cancelled
      BY <1>0, <3>3, <3>7
    <3> QED
      BY <3>3, <3>4, <3>5, <3>6, <3>8
  <2>2. CASE loop.at = "got" /\ UNCHANGED msgs /\ UNCHANGED loop
    <3>1. /\ msgs # <<>> /\ msgs[Len(msgs)].kind \in {"assistant", "tool"}
          /\ \A c \in msgs[Len(msgs)].calls :
                 c \in Nat /\ c <= spent.calls /\ c \notin late.left \union late.cancelled
      BY <1>0, <2>2, LastIsAMessage DEF Apart
    <3>2. /\ late'.left \subseteq late.left
          /\ late'.cancelled \subseteq late.cancelled \union late.left
      <4>1. CASE NoNewWork
        BY <1>0, <4>1 DEF NoNewWork, LateTyped
      <4>2. CASE CloseBatch
        BY <1>0, <4>2 DEF CloseBatch, LateTyped
      <4>3. ASSUME NEW d \in Calls, LateAnswers(d) \/ LateVanishes(d)
            PROVE  /\ late'.left \subseteq late.left
                   /\ late'.cancelled \subseteq late.cancelled \union late.left
        BY <1>0, <4>3, LateFields
      <4>4. ~(MentionFile \/ RunTools \/ Abandon) /\ ~(loop.at = "cancelling" /\ Interrupt)
        BY <1>0, <2>2 DEF MentionFile, RunTools, Abandon, LoopTyped
      <4> QED
        BY <4>1, <4>2, <4>3, <4>4, WhoStartsWork
    <3> QED
      BY <1>0, <1>1, <2>2, <3>1, <3>2
  <2>3. ASSUME NEW c \in Calls, LateAnswers(c)
        PROVE  msgs' # <<>> /\ msgs'[Len(msgs')].kind = "tool" /\ msgs'[Len(msgs')].calls = {}
    <3> DEFINE m == Answered(c)
    <3>1. m \in Message /\ m.kind = "tool" /\ m.calls = {} /\ msgs' = Append(msgs, m)
      BY <2>3, AnsweredIsAMessage DEF LateAnswers
    <3> HIDE DEF m
    <3> QED
      BY <1>0, <3>1
  <2> QED
    BY <1>3, <2>1, <2>2, <2>3, OnlyAnAnswerIsGot
<1> QED
  BY <1>2, <1>3 DEF Apart, Working

(* Every step leaves a transcript.                                            *)
LEMMA MessagesStep ==
  ASSUME TypeOK, Apart, [Next]_vars
  PROVE  msgs' \in Seq(Message)
<1>0. msgs \in Seq(Message) /\ loop.running \subseteq Calls
  BY TypeOKInParts DEF LoopTyped
<1>a. ASSUME NEW s \in Seq(Message), NEW m \in Message
      PROVE  Append(s, m) \in Seq(Message)
  OBVIOUS
<1>b. \A kind \in Kinds : Said(kind) \in Message
  BY DEF Said, Message
<1>1. CASE AsksMore
  <2>1. PICK n \in Nat : /\ spent.calls + n <= MaxCalls
                         /\ msgs' = Append(msgs, Asked(Fresh(n)))
    BY <1>1 DEF AsksMore
  <2>2. Asked(Fresh(n)) \in Message
    BY <2>1, FreshIsNew DEF Asked, Message
  <2> QED
    BY <1>0, <1>a, <2>1, <2>2
<1>2. CASE SaysMore
  BY <1>0, <1>a, <1>b, <1>2 DEF SaysMore
<1>3. CASE AnswersMore \/ \E c \in Calls : LateAnswers(c)
  <2>1. PICK c \in Calls : msgs' = Append(msgs, Answered(c))
    BY <1>0, <1>3 DEF AnswersMore, LateAnswers
  <2>2. Answered(c) \in Message
    BY AnsweredIsAMessage
  <2> QED
    BY <1>0, <1>a, <2>1, <2>2
<1>4. CASE StartsOver
  <2>1. Cleaned(msgs) \in Seq(Message) /\ Said("user") \in Message
    BY <1>0, <1>b, CleanedSaysTheSame DEF Says, Kinds
  <2> QED
    BY <1>4, <1>a, <2>1 DEF StartsOver
<1>5. CASE Forgets
  BY <1>5, NothingIsWhole, EnvelopeIsWhole DEF Forgets
<1>6. CASE BatchRefused
  <2>1. PICK failed \in SUBSET Calls : msgs' = msgs \o NoResponses(failed)
    BY <1>0, <1>6, LastIsAMessage DEF BatchRefused, Apart
  <2>2. NoResponses(failed) \in Seq(Message)
    BY PlaceholdersAnswer DEF AnswersExactly
  <2> QED
    BY <1>0, <2>1, <2>2
<1>7. CASE \E k \in DOMAIN msgs : Rewind(k)
  <2>1. PICK k \in DOMAIN msgs : msgs' = Beginning(msgs, k - 1)
    BY <1>7 DEF Rewind, Beginning
  <2>2. k - 1 \in 0..Len(msgs)
    BY <1>0
  <2> QED
    BY <1>0, <2>1, <2>2, BeginningGrows
<1> QED
  BY <1>0, <1>1, <1>2, <1>3, <1>4, <1>5, <1>6, <1>7, KindsOfStep

(* A beginning asks no more.                                                  *)
LEMMA BeginningsAskLess ==
  ASSUME NEW s \in Seq(Message), NEW i \in 0..Len(s)
  PROVE  AskedIn(Beginning(s, i)) \subseteq AskedIn(s)
<1> DEFINE p == Beginning(s, i)
<1>1. Len(p) = i /\ i \in Nat /\ i <= Len(s) /\ \A k \in 1..i : p[k] = s[k]
  BY DEF Beginning
<1> HIDE DEF p
<1>2. AskedIn(p) \subseteq AskedIn(s)
  BY <1>1 DEF AskedIn
<1> QED
  BY <1>2 DEF p

(* Of calls that all wait, some are answered by placeholders.                 *)
LEMMA RefusalKeepsBlocks ==
  ASSUME NEW s \in Seq(Message), Blocks(s), NEW failed \in SUBSET Waiting(s)
  PROVE  LET t == s \o NoResponses(failed)
         IN  /\ Blocks(t) /\ AskedIn(t) = AskedIn(s)
             /\ Missing(t) = Missing(s) \ failed
<1> DEFINE R == NoResponses(failed)
<1>1. failed \in SUBSET Calls
  BY DEF Waiting, InReach
<1>2. AnswersExactly(R, failed)
  BY <1>1, PlaceholdersAnswer
<1> HIDE DEF R
<1>3. /\ Blocks(s \o R) /\ AskedIn(s \o R) = AskedIn(s)
      /\ Missing(s \o R) = Missing(s) \ failed
  BY <1>2, AnswersKeepBlocks
<1> QED
  BY <1>3 DEF R

(* Every step keeps answers in place and new calls new.                       *)
LEMMA HistoryStep ==
  ASSUME TypeOK, History, Answerable, [Next]_vars
  PROVE  History'
<1> SUFFICES ASSUME ~late'.astray
             PROVE  Blocks(msgs') /\ \A c \in AskedIn(msgs') : c <= spent'.calls
  BY DEF History
<1>1. msgs \in Seq(Message) /\ spent.calls \in Nat /\ LateTyped /\ spent'.calls \in Nat
      /\ spent.calls <= spent'.calls
  BY BoundsAssumption, TypeOKInParts, KindsOfStep DEF SpentTyped, AsksMore
<1>2. CASE ClearHistory \/ Summarized
  <2>1. Blocks(msgs') /\ AskedIn(msgs') = {}
    BY <1>2, NothingIsWhole, EnvelopeIsWhole DEF ClearHistory, Summarized
  <2> QED
    BY <2>1
<1>3. CASE ~late.astray
  <2>0. /\ Blocks(msgs) /\ \A c \in AskedIn(msgs) : c \in Nat /\ c <= spent.calls
        /\ loop.running \subseteq Waiting(msgs)
    BY <1>3 DEF History, Answerable, AskedIn, Calls
  <2>1. ASSUME Blocks(msgs'), AskedIn(msgs') \subseteq AskedIn(msgs)
        PROVE  Blocks(msgs') /\ \A c \in AskedIn(msgs') : c <= spent'.calls
    BY <1>1, <2>0, <2>1
  <2>2. CASE AsksMore
    <3>1. PICK n \in Nat : /\ spent.calls + n <= MaxCalls
                           /\ msgs' = Append(msgs, Asked(Fresh(n)))
                           /\ spent'.calls = spent.calls + n
      BY <2>2 DEF AsksMore
    <3>2. /\ Fresh(n) \in SUBSET Calls /\ Fresh(n) \intersect AskedIn(msgs) = {}
          /\ \A c \in Fresh(n) : c <= spent.calls + n
      BY <1>3, <3>1, FreshIsNew
    <3>3. /\ Blocks(msgs')
          /\ AskedIn(msgs') = AskedIn(msgs) \union Fresh(n)
      BY <1>1, <2>0, <3>1, <3>2, AskedIsAdded
    <3> QED
      BY <1>1, <2>0, <3>1, <3>2, <3>3
  <2>3. CASE UNCHANGED msgs
    BY <2>0, <2>1, <2>3
  <2>4. CASE SaysMore
    <3>1. PICK kind \in Kinds : msgs' = Append(msgs, Said(kind))
      BY <2>4 DEF SaysMore
    <3>2. Blocks(msgs') /\ AskedIn(msgs') = AskedIn(msgs)
      BY <1>1, <2>0, <3>1, SaidIsAdded
    <3> QED
      BY <2>1, <3>2
  <2>5. CASE AnswersMore \/ \E c \in Calls : LateAnswers(c)
    <3>1. PICK c \in Waiting(msgs) : msgs' = Append(msgs, Answered(c))
      <4>1. CASE AnswersMore
        BY <2>0, <4>1 DEF AnswersMore
      <4>2. ASSUME NEW c \in Calls, LateAnswers(c)
            PROVE  c \in Waiting(msgs) /\ msgs' = Append(msgs, Answered(c))
        BY <1>1, <2>0, <4>2, LateFields, TheLastBlock DEF LateAnswers
      <4> QED
        BY <2>5, <4>1, <4>2
    <3>2. Blocks(msgs') /\ AskedIn(msgs') = AskedIn(msgs)
      BY <1>1, <2>0, <3>1, AnAnswerKeepsBlocks
    <3> QED
      BY <2>1, <3>2
  <2>6. CASE StartsOver
    <3>1. /\ Cleaned(msgs) \in Seq(Message) /\ Blocks(Cleaned(msgs))
          /\ AskedIn(Cleaned(msgs)) = AskedIn(msgs)
      BY <1>1, <2>0, CleanedIsComplete
    <3>2. CASE msgs' = Cleaned(msgs)
      BY <2>1, <3>1, <3>2
    <3>3. CASE msgs' = Append(Cleaned(msgs), Said("user"))
      <4>1. "user" \in Kinds
        BY DEF Kinds
      <4>2. Blocks(msgs') /\ AskedIn(msgs') = AskedIn(Cleaned(msgs))
        BY <3>1, <3>3, <4>1, SaidIsAdded
      <4> QED
        BY <2>1, <3>1, <4>2
    <3> QED
      BY <2>6, <3>2, <3>3 DEF StartsOver
  <2>7. CASE BatchRefused
    <3>1. PICK failed \in SUBSET Waiting(msgs) : msgs' = msgs \o NoResponses(failed)
      BY <1>3, <2>7 DEF BatchRefused, Answerable
    <3>2. Blocks(msgs') /\ AskedIn(msgs') = AskedIn(msgs)
      BY <1>1, <2>0, <3>1, RefusalKeepsBlocks
    <3> QED
      BY <2>1, <3>2
  <2>8. CASE \E k \in DOMAIN msgs : Rewind(k)
    <3>1. PICK k \in DOMAIN msgs : msgs' = Beginning(msgs, k - 1)
      BY <2>8 DEF Rewind, Beginning
    <3>2. k - 1 \in 0..Len(msgs)
      BY <1>1
    <3>3. Blocks(msgs') /\ AskedIn(msgs') \subseteq AskedIn(msgs)
      BY <1>1, <2>0, <3>1, <3>2, BeginningsHaveBlocks, BeginningsAskLess
    <3> QED
      BY <2>1, <3>3
  <2>9. CASE Forgets
    BY <1>2, <2>9 DEF Forgets
  <2> QED
    BY <2>2, <2>3, <2>4, <2>5, <2>6, <2>7, <2>8, <2>9, KindsOfStep
<1> QED
  BY <1>2, <1>3, StraysOnly

(* ------------------------------ answers ----------------------------------- *)

(* Where nothing runs and nothing is missing, there is nothing to answer.     *)
LEMMA SettledIsAnswerable ==
  ASSUME RunningTyped', Missing(msgs') = {}, loop'.at \in Settled
  PROVE  Answerable'
<1>1. loop'.running = {}
  BY DEF RunningTyped, Settled
<1> QED
  BY <1>1 DEF Answerable, Settled

(* A turn that stopped owes nothing until the next one cleans up.             *)
LEMMA StoppedIsAnswerable ==
  ASSUME RunningTyped', loop'.at \in {"idle", "ending"}
  PROVE  Answerable'
<1>1. loop'.running = {}
  BY DEF RunningTyped
<1> QED
  BY <1>1 DEF Answerable, Settled

(* A tool that ends with its answer in the transcript.                        *)
LEMMA AnswerableAfterATool ==
  ASSUME TypeOK, History, Answerable, ~late.astray, RunningTyped',
         NEW c \in loop.running, msgs' = Append(msgs, Answered(c)),
         loop'.running = loop.running \ {c},
         \/ loop'.at = loop.at
         \/ loop.at = "mention" /\ loop'.at = "before"
         \/ loop.at = "tools" /\ loop'.at = "save"
         \/ loop'.at = "ending"
  PROVE  Answerable'
<1>1. /\ msgs \in Seq(Message) /\ Blocks(msgs) /\ c \in Waiting(msgs)
      /\ loop.running \subseteq Waiting(msgs)
      /\ loop.at \in {"mention", "tools", "cancelling"}
  BY TypeOKInParts DEF History, Answerable, RunningTyped
<1>2. /\ Missing(msgs') = Missing(msgs) \ {c}
      /\ Waiting(msgs') = Waiting(msgs) \ {c}
  BY <1>1, AnAnswerKeepsBlocks
<1>3. loop'.running \subseteq Waiting(msgs')
  BY <1>1, <1>2
<1>4. CASE loop'.at = loop.at
  BY <1>1, <1>2, <1>3, <1>4 DEF Answerable, Settled
<1>5. CASE loop.at \in {"mention", "tools"} /\ loop'.at \in {"before", "save"}
  <2>1. loop'.running = {}
    BY <1>5 DEF RunningTyped
  <2>2. Missing(msgs') = {}
    BY <1>2, <1>5, <2>1 DEF Answerable, Settled
  <2> QED
    BY <1>5, <2>2, SettledIsAnswerable DEF Settled
<1>6. CASE loop'.at = "ending"
  BY <1>6, StoppedIsAnswerable
<1> QED
  BY <1>1, <1>4, <1>5, <1>6

(* A late answer in its place is to no call that anything waits for.          *)
LEMMA AnswerableAfterALateTool ==
  ASSUME TypeOK, History, Answerable, Apart, ~late'.astray,
         NEW c \in Calls, LateAnswers(c)
  PROVE  Answerable'
<1>1. /\ LateTyped /\ LateKept /\ RunningTyped /\ msgs \in Seq(Message)
      /\ UNCHANGED loop /\ msgs' = Append(msgs, Answered(c))
      /\ c \in late.left \union late.cancelled
  BY TypeOKInParts DEF LateAnswers
<1>2. ~late.astray /\ c \in OpenAt(msgs, Len(msgs))
  BY <1>1, LateFields
<1>3. Blocks(msgs)
  BY <1>2 DEF History
<1>4. c \in Waiting(msgs) /\ c \in Missing(msgs)
  BY <1>1, <1>2, <1>3, TheLastBlock DEF Waiting, Missing, InReach, AskedIn
<1>5. Waiting(msgs') = Waiting(msgs) \ {c}
  BY <1>1, <1>3, <1>4, AnAnswerKeepsBlocks
<1>6. c \notin loop.running
  BY <1>1 DEF LateKept
<1>7. loop.running \subseteq Waiting(msgs')
  BY <1>2, <1>5, <1>6 DEF Answerable
<1>8. loop.at \notin Settled /\ loop.at \notin {"got", "mention", "tools"}
  BY <1>1, <1>2, <1>4, <1>6 DEF Answerable, Apart
<1> QED
  BY <1>1, <1>7, <1>8 DEF Answerable

(* Every step keeps what is missing known by where the turn is.               *)
LEMMA AnswerableStep ==
  ASSUME TypeOK, History, Answerable, Apart, [Next]_vars
  PROVE  Answerable'
<1> SUFFICES ASSUME ~late'.astray
             PROVE  Answerable'
  BY DEF Answerable
<1>0. /\ msgs \in Seq(Message) /\ LoopTyped /\ RunningTyped
      /\ RunningTyped' /\ {"user", "note", "remind", "exit"} \subseteq Kinds
  BY TypeOKInParts, LoopStep DEF Kinds
<1>12. CASE ClearHistory \/ Summarized
  <2>1. Missing(msgs') = {}
    BY <1>12, NothingIsWhole, EnvelopeIsWhole DEF ClearHistory, Summarized
  <2>2. loop'.at \in Settled
    BY <1>0, <1>12 DEF ClearHistory, Summarized, LoopTyped, Settled
  <2> QED
    BY <1>0, <2>1, <2>2, SettledIsAnswerable
<1> SUFFICES ASSUME ~late.astray
             PROVE  Answerable'
  BY <1>12, StraysOnly
<1>9a. /\ Blocks(msgs) /\ Missing(Cleaned(msgs)) = {}
       /\ loop.at \in Settled => Missing(msgs) = {}
  BY <1>0, CleanedIsComplete DEF History, Answerable
<1>a. ASSUME SaysMore, loop.at \in Settled, loop'.at \in Settled
      PROVE  Answerable'
  <2>1. PICK kind \in Kinds : msgs' = Append(msgs, Said(kind))
    BY <1>a DEF SaysMore
  <2>2. Missing(msgs') = {}
    BY <1>0, <1>9a, <1>a, <2>1, SaidIsAdded
  <2> QED
    BY <1>0, <1>a, <2>2, SettledIsAnswerable
<1>b. ASSUME UNCHANGED msgs, loop.at \in Settled, loop'.at \in Settled
      PROVE  Answerable'
  BY <1>0, <1>9a, <1>b, SettledIsAnswerable
<1>c. ASSUME loop'.at \in {"idle", "ending"}
      PROVE  Answerable'
  BY <1>0, <1>c, StoppedIsAnswerable
<1>d. ASSUME UNCHANGED msgs, UNCHANGED loop
      PROVE  Answerable'
  BY <1>d DEF Answerable, Settled
<1>1. CASE StartTurn
  <2>1. /\ Cleaned(msgs) \in Seq(Message) /\ Blocks(Cleaned(msgs))
        /\ msgs' = Append(Cleaned(msgs), Said("user"))
    BY <1>0, <1>9a, <1>1, CleanedIsComplete DEF StartTurn
  <2>2. Missing(msgs') = {}
    BY <1>0, <1>9a, <2>1, SaidIsAdded
  <2>3. loop'.at = "before"
    BY <1>0, <1>1 DEF StartTurn, LoopTyped
  <2> QED
    BY <1>0, <2>2, <2>3, SettledIsAnswerable DEF Settled
<1>2. CASE MentionFile
  <2>1. Fresh(1) = {spent.calls + 1} /\ spent.calls + 1 <= MaxCalls
    BY <1>2, BoundsAssumption DEF MentionFile, Fresh, TypeOK
  <2>2. /\ Fresh(1) \in SUBSET Calls /\ Fresh(1) \intersect AskedIn(msgs) = {}
    BY <2>1, FreshIsNew
  <2>3. msgs' = Append(msgs, Asked(Fresh(1)))
    BY <1>2, <2>1 DEF MentionFile
  <2>4. /\ Missing(msgs') = Missing(msgs) \union Fresh(1)
        /\ Waiting(msgs') = Fresh(1)
    BY <1>0, <1>9a, <2>2, <2>3, AskedIsAdded
  <2>5. loop.at = "before" /\ loop'.at = "mention" /\ loop'.running = Fresh(1)
    BY <1>0, <1>2, <2>1 DEF MentionFile, LoopTyped
  <2>6. Missing(msgs) = {}
    BY <1>9a, <2>5 DEF Settled
  <2> QED
    BY <2>4, <2>5, <2>6 DEF Answerable, Settled
<1>3. CASE LimitReached \/ AskFails \/ HooksPass \/ EndTurn \/ CompactionFails
           \/ InterruptMention \/ InterruptReset \/ Abandon
  <2>1. loop'.at \in {"idle", "ending"}
    BY <1>0, <1>3 DEF LimitReached, AskFails, Fails, HooksPass, EndTurn,
                      CompactionFails, InterruptMention, InterruptReset, Abandon,
                      LoopTyped
  <2> QED
    BY <1>c, <2>1
<1>4. CASE AskModel
  <2>1. loop.at \in Settled /\ loop'.at \in Settled
    BY <1>0, <1>4 DEF AskModel, LoopTyped, Settled
  <2>2. SaysMore \/ UNCHANGED msgs
    BY <1>0, <1>4 DEF AskModel, SaysMore
  <2> QED
    BY <1>a, <1>b, <2>1, <2>2
<1>5. CASE Answers
  <2>1. PICK n \in 0..2 : /\ spent.calls + n <= MaxCalls
                          /\ msgs' = Append(msgs, Asked(Fresh(n)))
    BY <1>5 DEF Answers
  <2>2. n \in Nat
    OBVIOUS
  <2>3. /\ Fresh(n) \in SUBSET Calls /\ Fresh(n) \intersect AskedIn(msgs) = {}
    BY <2>1, <2>2, FreshIsNew
  <2>4. /\ Missing(msgs') = Missing(msgs) \union Fresh(n)
        /\ Waiting(msgs') = Fresh(n)
        /\ msgs' # <<>> /\ msgs'[Len(msgs')] = Asked(Fresh(n))
    BY <1>0, <1>9a, <2>1, <2>3, AskedIsAdded
  <2>5. loop.at = "ask" /\ loop'.at = "got"
    BY <1>0, <1>5 DEF Answers, LoopTyped
  <2>6. Missing(msgs) = {} /\ loop'.running = {}
    BY <1>0, <1>9a, <2>5 DEF Settled, RunningTyped
  <2>7. Asked(Fresh(n)).calls = Fresh(n) /\ Asked(Fresh(n)).kind = "assistant"
    BY DEF Asked
  <2> QED
    BY <2>4, <2>5, <2>6, <2>7 DEF Answerable, Settled
<1>6. CASE RunTools
  <2> DEFINE calls == msgs[Len(msgs)].calls
  <2>1. /\ UNCHANGED msgs /\ Missing(msgs) = calls /\ Waiting(msgs) = calls
        /\ loop' = [loop EXCEPT !.at = IF calls = {} THEN "save" ELSE "tools",
                                !.running = calls]
    BY <1>6 DEF RunTools, Answerable
  <2> HIDE DEF calls
  <2>2. loop'.running = calls /\ loop'.at = IF calls = {} THEN "save" ELSE "tools"
    BY <1>0, <2>1 DEF LoopTyped
  <2> QED
    BY <2>1, <2>2 DEF Answerable, Settled
<1>18. CASE BatchRefused
  <2> DEFINE calls == msgs[Len(msgs)].calls
  <2>1. Missing(msgs) = calls /\ Waiting(msgs) = calls
    BY <1>18 DEF BatchRefused, Answerable
  <2>2. PICK failed \in SUBSET Waiting(msgs) :
               /\ msgs' = msgs \o NoResponses(failed)
               /\ \/ failed = Missing(msgs) /\ loop' = [loop EXCEPT !.at = "save"]
                  \/ loop' = [loop EXCEPT !.at = "ending", !.answered = FALSE]
    BY <1>18, <2>1 DEF BatchRefused, Fails
  <2> HIDE DEF calls
  <2>3. Missing(msgs') = Missing(msgs) \ failed
    BY <1>0, <1>9a, <2>2, RefusalKeepsBlocks
  <2>4. CASE loop' = [loop EXCEPT !.at = "ending", !.answered = FALSE]
    <3>1. loop'.at = "ending"
      BY <1>0, <2>4 DEF LoopTyped
    <3> QED
      BY <1>c, <3>1
  <2>5. CASE failed = Missing(msgs) /\ loop' = [loop EXCEPT !.at = "save"]
    <3>1. loop'.at = "save" /\ Missing(msgs') = {}
      BY <1>0, <2>3, <2>5 DEF LoopTyped
    <3> QED
      BY <1>0, <3>1, SettledIsAnswerable DEF Settled
  <2> QED
    BY <2>2, <2>4, <2>5
<1>7. ASSUME NEW c \in Calls, ToolAnswers(c) \/ UserCancels(c)
      PROVE  Answerable'
  <2>1. /\ c \in loop.running /\ msgs' = Append(msgs, Answered(c))
        /\ loop' \in {WithoutTool(c), [WithoutTool(c) EXCEPT !.cancelled = TRUE]}
    BY <1>7 DEF ToolAnswers, UserCancels
  <2> QED
    BY <1>0, <2>1, WithoutToolFields, AnswerableAfterATool
<1>8. ASSUME NEW c \in Calls, ToolVanishes(c)
      PROVE  Answerable'
  <2>1. /\ c \in loop.running /\ UNCHANGED msgs /\ loop' = WithoutTool(c)
        /\ loop.at = "cancelling"
    BY <1>8 DEF ToolVanishes
  <2>2. /\ loop'.running = loop.running \ {c}
        /\ loop'.at \in {"cancelling", "ending"}
    BY <1>0, <2>1, WithoutToolFields
  <2> QED
    BY <2>1, <2>2 DEF Answerable, Settled
<1>9. CASE Interrupt
  <2>1. /\ UNCHANGED msgs /\ loop'.running \subseteq loop.running
        /\ loop'.at \in {"idle", "ending", "cancelling"}
    BY <1>0, <1>9 DEF Interrupt, LoopTyped
  <2> QED
    BY <2>1 DEF Answerable, Settled
<1>10. CASE TurnToThePlan
  <2>1. loop.at \in Settled /\ loop'.at \in Settled /\ UNCHANGED msgs
    BY <1>0, <1>10 DEF TurnToThePlan, LoopTyped, Settled
  <2> QED
    BY <1>b, <2>1
<1>11. CASE Judge
  <2>1. loop.at \in Settled /\ (loop'.at = "ending" \/ loop'.at \in Settled)
    BY <1>0, <1>11 DEF Judge, LoopTyped, Settled
  <2>2. SaysMore \/ UNCHANGED msgs
    BY <1>0, <1>11 DEF Judge, SaysMore
  <2> QED
    BY <1>a, <1>b, <1>c, <2>1, <2>2
<1>13. CASE SeedPlan \/ HooksRetry
  <2>1. loop.at \in Settled /\ loop'.at \in Settled
    BY <1>0, <1>13 DEF SeedPlan, HooksRetry, LoopTyped, Settled
  <2>2. SaysMore \/ UNCHANGED msgs
    BY <1>0, <1>13 DEF SeedPlan, HooksRetry, SaysMore
  <2> QED
    BY <1>a, <1>b, <2>1, <2>2
<1>14. CASE CompactFull \/ RecoverFromOverflow \/ CompactByHand
  <2>1. msgs' = Cleaned(msgs) /\ loop'.at = "compacting"
    BY <1>0, <1>14 DEF CompactFull, RecoverFromOverflow, CompactByHand,
                       StartCompaction, LoopTyped
  <2>2. Missing(msgs') = {}
    BY <1>9a, <2>1
  <2> QED
    BY <1>0, <2>1, <2>2, SettledIsAnswerable DEF Settled
<1>15. CASE CompactionEnds
  <2>1. loop.at \in Settled /\ UNCHANGED msgs /\ (loop'.at = "idle" \/ loop'.at \in Settled)
    BY <1>0, <1>15 DEF CompactionEnds, LoopTyped, Settled
  <2> QED
    BY <1>b, <1>c, <2>1
<1>16. ASSUME NEW c \in Calls, ReviewPlan(c) \/ LateVanishes(c) \/ LateReview(c)
       PROVE  Answerable'
  BY <1>d, <1>16 DEF ReviewPlan, LateVanishes, LateReview
<1>17. CASE SwitchAgent \/ ReloadConfig \/ CloseBatch \/ UNCHANGED vars
  BY <1>d, <1>17 DEF SwitchAgent, ReloadConfig, CloseBatch, vars
<1>19. ASSUME NEW k \in DOMAIN msgs, Rewind(k)
       PROVE  Answerable'
  <2>1. loop'.at = "idle"
    BY <1>19 DEF Rewind
  <2> QED
    BY <1>c, <2>1
<1>20. ASSUME NEW c \in Calls, LateAnswers(c)
       PROVE  Answerable'
  BY <1>20, AnswerableAfterALateTool
<1> QED
  BY <1>1, <1>2, <1>3, <1>4, <1>5, <1>6, <1>7, <1>8, <1>9, <1>10, <1>11, <1>12,
     <1>13, <1>14, <1>15, <1>16, <1>17, <1>18, <1>19, <1>20 DEF Next

(* ------------------------------ the last word ----------------------------- *)

(* At these places the last word does not matter.                             *)
Talking == {"idle", "mention", "before", "ask", "got", "tools", "clearing",
            "seeding", "compacting", "resetting"}

(* Where the turn is not about to end nothing is said of its end.             *)
LEMMA TalkingHasNoLastWord ==
  ASSUME loop'.at \in Talking
  PROVE  LastWord'
  BY DEF LastWord, Talking

(* Nor of a turn that ends without an answer.                                 *)
LEMMA EndingUnanswered ==
  ASSUME loop'.at = "ending", ~loop'.answered
  PROVE  LastWord'
  BY DEF LastWord

(* Every step keeps a turn that ends by itself on an answer.                  *)
LEMMA LastWordStep ==
  ASSUME TypeOK, History, Answerable, Apart, LastWord, [Next]_vars
  PROVE  LastWord'
<1>0. /\ msgs \in Seq(Message) /\ LoopTyped /\ RunningTyped /\ PlanTyped
      /\ LateTyped
  BY TypeOKInParts
<1>1. CASE StartTurn \/ MentionFile \/ AskModel \/ Answers \/ TurnToThePlan
           \/ ClearHistory \/ SeedPlan \/ HooksRetry \/ EndTurn \/ CompactFull
           \/ RecoverFromOverflow \/ CompactByHand \/ Summarized \/ InterruptMention
           \/ Abandon
  <2>1. loop'.at \in Talking
    BY <1>0, <1>1
       DEF StartTurn, MentionFile, AskModel, Answers, TurnToThePlan, ClearHistory,
           SeedPlan, HooksRetry, EndTurn, CompactFull, RecoverFromOverflow,
           CompactByHand, StartCompaction, Summarized, InterruptMention, Abandon,
           LoopTyped, Talking
  <2> QED
    BY <2>1, TalkingHasNoLastWord
<1>2. CASE CompactionEnds
  <2>1. loop'.at \in Talking
    BY <1>0, <1>2 DEF CompactionEnds, LoopTyped, Talking
  <2> QED
    BY <2>1, TalkingHasNoLastWord
<1>3. CASE LimitReached \/ AskFails \/ InterruptReset
  <2>1. loop'.at = "ending" /\ ~loop'.answered
    BY <1>0, <1>3 DEF LimitReached, AskFails, Fails, InterruptReset, LoopTyped
  <2> QED
    BY <2>1, EndingUnanswered
<1>4. CASE CompactionFails
  <2>1. \/ loop'.at \in Talking
        \/ loop'.at = "ending" /\ ~loop'.answered
    BY <1>0, <1>4 DEF CompactionFails, Fails, LoopTyped, Talking
  <2> QED
    BY <2>1, EndingUnanswered, TalkingHasNoLastWord
<1>5. CASE Interrupt
  <2>1. ~loop'.answered /\ loop'.at \in {"cancelling", "idle", "ending"}
    BY <1>0, <1>5 DEF Interrupt, LoopTyped
  <2> QED
    BY <2>1 DEF LastWord
<1>6. CASE RunTools
  <2> DEFINE last == msgs[Len(msgs)]
  <2>1. /\ msgs # <<>> /\ last.kind \in {"assistant", "tool"} /\ UNCHANGED msgs
        /\ loop' = [loop EXCEPT !.at = IF last.calls = {} THEN "save" ELSE "tools",
                                !.running = last.calls]
    BY <1>6 DEF RunTools, Apart
  <2>2. last \in Message
    BY <1>0, <2>1
  <2> HIDE DEF last
  <2>3. CASE last.calls = {}
    <3>1. last.kind = "tool" \/ last = Asked({})
      BY <2>1, <2>2, <2>3 DEF Message, Asked, Kinds
    <3>2. loop'.at = "save"
      BY <1>0, <2>1, <2>3 DEF LoopTyped
    <3> QED
      BY <2>1, <3>1, <3>2 DEF LastWord, last
  <2>4. CASE last.calls # {}
    <3>1. loop'.at = "tools"
      BY <1>0, <2>1, <2>4 DEF LoopTyped
    <3> QED
      BY <3>1 DEF LastWord
  <2> QED
    BY <2>3, <2>4
<1>12. ASSUME NEW C \in SUBSET Calls, C # {}, msgs' = msgs \o NoResponses(C),
              loop'.at = "save"
       PROVE  LastWord'
  <2> DEFINE R == NoResponses(C)
  <2>1. AnswersExactly(R, C)
    BY PlaceholdersAnswer
  <2> HIDE DEF R
  <2>2. R \in Seq(Message) /\ Len(R) \in 1..Len(R)
    BY <1>12, <2>1 DEF AnswersExactly
  <2>3. R[Len(R)].kind = "tool"
    <3>1. R[Len(R)] = Answered(R[Len(R)].of) /\ R[Len(R)].of \in Calls
      BY <2>1, <2>2 DEF AnswersExactly
    <3> QED
      BY <3>1, AnsweredIsAMessage
  <2>4. /\ Len(msgs \o R) = Len(msgs) + Len(R)
        /\ (msgs \o R)[Len(msgs) + Len(R)] = R[Len(R)] /\ Len(msgs) + Len(R) # 0
    BY <1>0, <2>2
  <2>5. msgs' # <<>> /\ msgs'[Len(msgs')].kind = "tool"
    BY <1>12, <2>3, <2>4 DEF R
  <2> QED
    BY <1>12, <2>5 DEF LastWord
<1>13. CASE BatchRefused
  <2>1. PICK failed \in SUBSET msgs[Len(msgs)].calls :
               /\ msgs[Len(msgs)].calls # {} /\ msgs' = msgs \o NoResponses(failed)
               /\ \/ failed # {} /\ loop' = [loop EXCEPT !.at = "save"]
                  \/ loop' = [loop EXCEPT !.at = "ending", !.answered = FALSE]
    BY <1>13 DEF BatchRefused, Fails
  <2>2. failed \in SUBSET Calls
    BY <1>0, <1>13, LastIsAMessage DEF BatchRefused, Apart
  <2>3. \/ failed # {} /\ loop'.at = "save"
        \/ loop'.at = "ending" /\ ~loop'.answered
    BY <1>0, <2>1 DEF LoopTyped
  <2> QED
    BY <1>12, <2>1, <2>2, <2>3, EndingUnanswered
<1>7. ASSUME NEW c \in Calls, ToolAnswers(c) \/ UserCancels(c) \/ ToolVanishes(c)
      PROVE  LastWord'
  <2>1. /\ c \in loop.running
        /\ loop' \in {WithoutTool(c), [WithoutTool(c) EXCEPT !.cancelled = TRUE]}
    BY <1>7 DEF ToolAnswers, UserCancels, ToolVanishes
  <2>2. /\ loop'.answered = loop.answered
        /\ loop.at \in {"mention", "tools", "cancelling"}
        /\ \/ loop'.at = loop.at
           \/ loop.at = "mention" /\ loop'.at = "before"
           \/ loop.at = "tools" /\ loop'.at = "save"
           \/ loop.at = "cancelling" /\ loop'.at = "ending"
    BY <1>0, <2>1, WithoutToolFields DEF RunningTyped
  <2>3. CASE loop'.at \in {"mention", "tools", "before"}
    BY <2>3, TalkingHasNoLastWord DEF Talking
  <2>4. CASE loop.at = "cancelling"
    BY <2>2, <2>4 DEF LastWord
  <2>5. CASE loop.at = "tools" /\ loop'.at = "save"
    <3>1. msgs' = Append(msgs, Answered(c))
      BY <1>7, <2>5 DEF ToolAnswers, UserCancels, ToolVanishes
    <3> DEFINE m == Answered(c)
    <3>2. m \in Message /\ m.kind = "tool"
      BY AnsweredIsAMessage
    <3> HIDE DEF m
    <3>3. msgs' # <<>> /\ msgs'[Len(msgs')] = m
      BY <1>0, <3>1, <3>2 DEF m
    <3> QED
      BY <2>5, <3>2, <3>3 DEF LastWord
  <2> QED
    BY <2>2, <2>3, <2>4, <2>5
<1>8. CASE Judge
  <2>1. /\ loop.at = "save" /\ msgs # <<>> /\ UNCHANGED late
        /\ msgs[Len(msgs)].kind = "tool" \/ msgs[Len(msgs)] = Asked({})
    BY <1>8 DEF Judge, LastWord
  <2>2. \/ loop'.at = "ending" /\ ~loop'.answered
        \/ loop'.at = "before"
        \/ /\ loop'.at = "hooks" /\ msgs[Len(msgs)].kind # "tool"
           /\ ~plan.edited
    BY <1>0, <1>8 DEF Judge, LoopTyped
  <2>3. CASE loop'.at = "hooks" /\ msgs[Len(msgs)].kind # "tool" /\ ~plan.edited
    <3>1. UNCHANGED msgs /\ ~plan'.edited
      BY <1>0, <1>8, <2>3 DEF Judge, PlanTyped
    <3>2. ~late.astray => Missing(msgs) = {}
      BY <2>1 DEF Answerable, Settled
    <3> QED
      BY <2>1, <2>3, <3>1, <3>2 DEF LastWord
  <2> QED
    BY <2>2, <2>3, EndingUnanswered, TalkingHasNoLastWord DEF Talking
<1>9. CASE HooksPass
  <2>1. loop.at = "hooks" /\ loop'.at = "ending" /\ UNCHANGED <<msgs, plan, late>>
    BY <1>0, <1>9 DEF HooksPass, LoopTyped
  <2> QED
    BY <2>1 DEF LastWord
<1>10. ASSUME NEW c \in Calls, ReviewPlan(c)
       PROVE  LastWord'
  <2>1. loop'.at = "tools"
    BY <1>10 DEF ReviewPlan
  <2> QED
    BY <2>1, TalkingHasNoLastWord DEF Talking
<1>11. CASE SwitchAgent \/ ReloadConfig \/ CloseBatch \/ UNCHANGED vars
            \/ \E c \in Calls : LateVanishes(c) \/ LateReview(c)
  <2>1. UNCHANGED <<msgs, loop>> /\ plan'.edited = plan.edited
        /\ late'.astray = late.astray
    <3>1. ASSUME NEW c \in Calls, LateVanishes(c)
          PROVE  UNCHANGED <<msgs, loop, plan>> /\ late'.astray = late.astray
      BY <1>0, <3>1, LateFields DEF LateVanishes
    <3>2. ASSUME NEW c \in Calls, LateReview(c)
          PROVE  UNCHANGED <<msgs, loop, late>> /\ plan'.edited = plan.edited
      BY <1>0, <3>2 DEF LateReview, PlanTyped
    <3>3. CASE SwitchAgent \/ ReloadConfig \/ CloseBatch \/ UNCHANGED vars
      BY <1>0, <3>3 DEF SwitchAgent, ReloadConfig, CloseBatch, vars, PlanTyped, LateTyped
    <3> QED
      BY <1>11, <3>1, <3>2, <3>3
  <2> QED
    BY <2>1 DEF LastWord
<1>14. ASSUME NEW k \in DOMAIN msgs, Rewind(k)
       PROVE  LastWord'
  <2>1. loop'.at = "idle"
    BY <1>14 DEF Rewind
  <2> QED
    BY <2>1, TalkingHasNoLastWord DEF Talking
<1>15. ASSUME NEW c \in Calls, LateAnswers(c)
       PROVE  LastWord'
  <2> DEFINE m == Answered(c)
  <2>1. m \in Message /\ m.kind = "tool" /\ UNCHANGED <<loop, plan>>
        /\ msgs' = Append(msgs, m)
    BY <1>15, AnsweredIsAMessage DEF LateAnswers
  <2> HIDE DEF m
  <2>2. msgs' # <<>> /\ msgs'[Len(msgs')].kind = "tool"
    BY <1>0, <2>1
  <2>3. ASSUME ~late'.astray, loop.at = "hooks" \/ (loop.at = "ending" /\ loop.answered)
        PROVE  FALSE
    <3>1. ~late.astray /\ c \in OpenAt(msgs, Len(msgs))
      BY <1>0, <1>15, <2>3, LateFields
    <3>2. c \in Missing(msgs)
      BY <1>0, <3>1, TheLastBlock DEF History, Waiting, Missing, InReach, AskedIn
    <3> QED
      BY <2>3, <3>1, <3>2 DEF LastWord
  <2> QED
    BY <2>1, <2>2, <2>3 DEF LastWord
<1> QED
  BY <1>1, <1>2, <1>3, <1>4, <1>5, <1>6, <1>7, <1>8, <1>9, <1>10, <1>11, <1>13, <1>14,
     <1>15 DEF Next

(* ------------------------------ the memory of plan mode ------------------- *)

(* What was true of the last notice stays true after messages that are none,  *)
(* and after the history is cleaned.                                          *)
LEMMA UnspokenKeepsNotice ==
  ASSUME TypeOK, NEW planning \in BOOLEAN, NoticeIsCurrent(msgs, planning),
         \/ UNCHANGED msgs
         \/ \E kind \in Kinds \ Notices : msgs' = Append(msgs, Said(kind))
         \/ \E C \in SUBSET Calls : msgs' = Append(msgs, Asked(C))
         \/ \E c \in Calls : msgs' = Append(msgs, Answered(c))
         \/ \E C \in SUBSET Calls : msgs' = msgs \o NoResponses(C)
         \/ StartsOver
  PROVE  NoticeIsCurrent(msgs', planning)
<1>0. msgs \in Seq(Message)
  BY TypeOKInParts
<1>a. ASSUME NEW s \in Seq(Message), NoticeIsCurrent(s, planning),
             NEW m \in Message, m.kind \notin Notices
      PROVE  NoticeIsCurrent(Append(s, m), planning)
  BY <1>a, SilentMessage
<1>b. ASSUME NEW kind \in Kinds
      PROVE  Said(kind) \in Message /\ Said(kind).kind = kind
  BY DEF Said, Message
<1>1. CASE UNCHANGED msgs
  BY <1>1
<1>2. CASE \E kind \in Kinds \ Notices : msgs' = Append(msgs, Said(kind))
  BY <1>0, <1>a, <1>b, <1>2
<1>3. ASSUME NEW C \in SUBSET Calls, msgs' = Append(msgs, Asked(C))
      PROVE  NoticeIsCurrent(msgs', planning)
  <2>1. Asked(C) \in Message /\ Asked(C).kind \notin Notices
    BY DEF Asked, Message, Notices
  <2> QED
    BY <1>0, <1>3, <1>a, <2>1
<1>4. ASSUME NEW c \in Calls, msgs' = Append(msgs, Answered(c))
      PROVE  NoticeIsCurrent(msgs', planning)
  <2>1. Answered(c) \in Message /\ Answered(c).kind \notin Notices
    BY AnsweredIsAMessage DEF Notices
  <2> QED
    BY <1>0, <1>4, <1>a, <2>1
<1>5. ASSUME NEW C \in SUBSET Calls, msgs' = msgs \o NoResponses(C)
      PROVE  NoticeIsCurrent(msgs', planning)
  BY <1>0, <1>5, PlaceholdersAnswer, SilentAnswers
<1>6. CASE StartsOver
  <2>1. Cleaned(msgs) \in Seq(Message) /\ NoticeIsCurrent(Cleaned(msgs), planning)
    BY <1>0, CleanedSaysTheSame DEF Says
  <2>2. "user" \in Kinds /\ "user" \notin Notices
    BY DEF Kinds, Notices
  <2>3. Said("user") \in Message /\ Said("user").kind \notin Notices
    BY <1>b, <2>2
  <2> QED
    BY <1>6, <1>a, <2>1, <2>3 DEF StartsOver
<1> QED
  BY <1>1, <1>2, <1>3, <1>4, <1>5, <1>6

(* Every step keeps the middleware's memory what the transcript says.         *)
LEMMA MemoryStep ==
  ASSUME TypeOK, Apart, Memory, [Next]_vars
  PROVE  Memory'
<1>0. /\ msgs \in Seq(Message) /\ LoopTyped /\ RunningTyped /\ PlanTyped
      /\ plan.was \in BOOLEAN /\ plan.active \in BOOLEAN
      /\ "note" \in Kinds \ Notices /\ loop.running \subseteq Calls
  BY TypeOKInParts DEF PlanTyped, LoopTyped, Kinds, Notices
<1>a. ASSUME plan'.was = plan.was, plan'.told = plan.told,
             loop.at # "resetting", loop'.at # "resetting",
             \/ UNCHANGED msgs
             \/ \E kind \in Kinds \ Notices : msgs' = Append(msgs, Said(kind))
             \/ \E C \in SUBSET Calls : msgs' = Append(msgs, Asked(C))
             \/ \E c \in Calls : msgs' = Append(msgs, Answered(c))
             \/ \E C \in SUBSET Calls : msgs' = msgs \o NoResponses(C)
             \/ StartsOver
      PROVE  Memory'
  <2>1. ASSUME plan'.told
        PROVE  NoticeIsCurrent(msgs', plan'.was)
    <3>1. NoticeIsCurrent(msgs, plan.was)
      BY <1>a, <2>1 DEF Memory
    <3>2. NoticeIsCurrent(msgs', plan.was)
      BY <1>0, <1>a, <3>1, UnspokenKeepsNotice
    <3> QED
      BY <1>a, <3>2
  <2> QED
    BY <1>a, <2>1 DEF Memory
<1>b. ASSUME UNCHANGED <<msgs, loop>>, plan'.was = plan.was, plan'.told = plan.told
      PROVE  Memory'
  BY <1>b DEF Memory
<1>1. CASE StartTurn \/ CompactFull \/ RecoverFromOverflow \/ CompactByHand
  <2>1. /\ UNCHANGED plan /\ StartsOver
        /\ loop.at # "resetting" /\ loop'.at # "resetting"
    BY <1>0, <1>1 DEF StartTurn, CompactFull, RecoverFromOverflow, CompactByHand,
                      StartCompaction, StartsOver, LoopTyped
  <2> QED
    BY <1>a, <2>1
<1>2. CASE MentionFile \/ Answers \/ AskFails
  <2>1. /\ UNCHANGED plan /\ loop.at # "resetting" /\ loop'.at # "resetting"
    BY <1>0, <1>2 DEF MentionFile, Answers, AskFails, Fails, LoopTyped
  <2>2. UNCHANGED msgs \/ \E C \in SUBSET Calls : msgs' = Append(msgs, Asked(C))
    <3>1. CASE MentionFile
      <4>1. spent.calls + 1 \in Calls /\ msgs' = Append(msgs, Asked({spent.calls + 1}))
        BY <3>1, BoundsAssumption DEF MentionFile, TypeOK, Calls
      <4> QED
        BY <4>1
    <3>2. CASE Answers \/ AskFails
      <4>1. UNCHANGED msgs \/ \E n \in Nat : /\ spent.calls + n <= MaxCalls
                                             /\ msgs' = Append(msgs, Asked(Fresh(n)))
        BY <3>2 DEF Answers, AskFails
      <4> QED
        BY <4>1, FreshIsNew
    <3> QED
      BY <1>2, <3>1, <3>2
  <2> QED
    BY <1>a, <2>1, <2>2
<1>3. CASE AskModel
  <2>1. /\ loop'.at = "ask" /\ plan'.was = plan.active
        /\ loop.at = "before"
        /\ plan.was = plan.active => plan'.told = plan.told
    BY <1>0, <1>3 DEF AskModel, LoopTyped, PlanTyped
  <2>2. CASE plan.was /\ ~plan.active
    <3>1. Said("exit") \in Message /\ Said("exit").kind = "exit" /\ "exit" \in Notices
      BY DEF Said, Message, Kinds, Notices
    <3>2. msgs' = Append(msgs, Said("exit"))
      BY <1>3, <2>2 DEF AskModel
    <3>3. NoticeIsCurrent(msgs', FALSE)
      BY <1>0, <3>1, <3>2, LastNotice
    <3>4. plan'.was = FALSE
      BY <1>0, <2>1, <2>2
    <3> QED
      BY <2>1, <3>3, <3>4 DEF Memory
  <2>3. CASE ~plan.was /\ plan.active
    <3>1. Said("remind") \in Message /\ Said("remind").kind = "remind"
          /\ "remind" \in Notices
      BY DEF Said, Message, Kinds, Notices
    <3>2. msgs' = Append(msgs, Said("remind"))
      BY <1>3, <2>3 DEF AskModel
    <3>3. NoticeIsCurrent(msgs', TRUE)
      BY <1>0, <3>1, <3>2, LastNotice
    <3>4. plan'.was = TRUE
      BY <1>0, <2>1, <2>3
    <3> QED
      BY <2>1, <3>3, <3>4 DEF Memory
  <2>4. CASE plan.was = plan.active
    <3>1. UNCHANGED msgs
      BY <1>0, <1>3, <2>4 DEF AskModel
    <3>2. plan'.told = plan.told /\ plan'.was = plan.was
      BY <2>1, <2>4
    <3> QED
      BY <1>a, <2>1, <3>1, <3>2
  <2> QED
    BY <1>0, <2>2, <2>3, <2>4
<1>4. CASE LimitReached \/ RunTools \/ HooksPass \/ EndTurn \/ CompactionFails
           \/ Interrupt \/ Abandon
  <2>1. /\ UNCHANGED <<msgs, plan>> /\ loop.at # "resetting" /\ loop'.at # "resetting"
    BY <1>0, <1>4 DEF LimitReached, RunTools, HooksPass, EndTurn, CompactionFails,
                      Fails, Interrupt, Abandon, LoopTyped
  <2> QED
    BY <1>a, <2>1
<1>5. ASSUME NEW c \in Calls, ToolAnswers(c) \/ UserCancels(c) \/ ToolVanishes(c)
      PROVE  Memory'
  <2>1. /\ c \in loop.running /\ UNCHANGED plan
        /\ loop' \in {WithoutTool(c), [WithoutTool(c) EXCEPT !.cancelled = TRUE]}
        /\ msgs' = Append(msgs, Answered(c)) \/ UNCHANGED msgs
    BY <1>5 DEF ToolAnswers, UserCancels, ToolVanishes
  <2>2. loop.at # "resetting"
    BY <1>0, <2>1 DEF RunningTyped
  <2>3. loop'.at # "resetting"
    BY <1>0, <2>1, <2>2, WithoutToolFields
  <2> QED
    BY <1>a, <2>1, <2>2, <2>3
<1>6. ASSUME NEW c \in Calls, ReviewPlan(c) \/ LateReview(c) \/ LateVanishes(c)
      PROVE  Memory'
  <2>1. /\ UNCHANGED <<msgs, loop>> /\ plan'.was = plan.was /\ plan'.told = plan.told
    BY <1>0, <1>6 DEF ReviewPlan, LateReview, LateVanishes, PlanTyped
  <2> QED
    BY <1>b, <2>1
<1>7. CASE InterruptMention
  <2>1. /\ UNCHANGED plan /\ loop.at # "resetting" /\ loop'.at # "resetting"
    BY <1>0, <1>7 DEF InterruptMention, LoopTyped
  <2>2. UNCHANGED msgs \/ \E c \in Calls : msgs' = Append(msgs, Answered(c))
    BY <1>0, <1>7 DEF InterruptMention
  <2> QED
    BY <1>a, <2>1, <2>2
<1>8. CASE TurnToThePlan \/ Judge
  <2>1. /\ loop.at # "resetting" /\ loop'.at # "resetting"
        /\ plan'.was = plan.was /\ plan'.told = plan.told
        /\ UNCHANGED msgs \/ msgs' = Append(msgs, Said("note"))
    BY <1>0, <1>8 DEF TurnToThePlan, Judge, LoopTyped, PlanTyped
  <2> QED
    BY <1>0, <1>a, <2>1
<1>9. CASE SeedPlan \/ HooksRetry
  <2>1. /\ loop.at # "resetting" /\ loop'.at # "resetting" /\ UNCHANGED plan
        /\ UNCHANGED msgs \/ msgs' = Append(msgs, Said("note"))
    BY <1>0, <1>9 DEF SeedPlan, HooksRetry, LoopTyped
  <2> QED
    BY <1>0, <1>a, <2>1
<1>10. CASE ClearHistory
  <2>1. msgs' = <<>> /\ plan'.was = FALSE /\ loop'.at = "seeding"
    BY <1>0, <1>10 DEF ClearHistory, LoopTyped, PlanTyped
  <2> QED
    BY <2>1, NothingIsWhole DEF Memory
<1>11. CASE BatchRefused
  <2>1. /\ UNCHANGED plan /\ loop.at = "got" /\ loop'.at # "resetting"
    BY <1>0, <1>11 DEF BatchRefused, Fails, LoopTyped
  <2>2. \E C \in SUBSET Calls : msgs' = msgs \o NoResponses(C)
    BY <1>0, <1>11, LastIsAMessage DEF BatchRefused, Apart
  <2> QED
    BY <1>a, <2>1, <2>2
<1>12. CASE Summarized
  <2>1. msgs' = <<Said("envelope")>> /\ loop'.at = "resetting"
    BY <1>0, <1>12 DEF Summarized, LoopTyped
  <2> QED
    BY <2>1, EnvelopeIsWhole DEF Memory
<1>13. CASE CompactionEnds \/ InterruptReset
  <2>1. NoNotice(msgs') /\ loop'.at # "resetting"
    BY <1>0, <1>13 DEF CompactionEnds, InterruptReset, Memory, LoopTyped
  <2>2. plan'.told => plan'.was = FALSE
    BY <1>0, <1>13 DEF CompactionEnds, InterruptReset, PlanTyped
  <2>3. NoticeIsCurrent(msgs', FALSE)
    BY <2>1 DEF NoticeIsCurrent
  <2> QED
    BY <2>1, <2>2, <2>3 DEF Memory
<1>14. CASE ReloadConfig
  <2>1. /\ UNCHANGED <<msgs, loop>> /\ loop.at = "idle" /\ plan'.was = FALSE
        /\ plan'.told => plan.told /\ plan.was = FALSE
    BY <1>0, <1>14 DEF ReloadConfig, PlanTyped
  <2> QED
    BY <2>1 DEF Memory
<1>15. CASE SwitchAgent \/ CloseBatch \/ UNCHANGED vars
  <2>1. /\ UNCHANGED <<msgs, loop>> /\ plan'.was = plan.was /\ plan'.told = plan.told
    BY <1>0, <1>15 DEF SwitchAgent, CloseBatch, vars, PlanTyped
  <2> QED
    BY <1>b, <2>1
<1>16. ASSUME NEW c \in Calls, LateAnswers(c)
       PROVE  Memory'
  <2>1. /\ UNCHANGED <<loop, plan>> /\ msgs' = Append(msgs, Answered(c))
    BY <1>16 DEF LateAnswers
  <2>2. CASE loop.at # "resetting"
    BY <1>a, <2>1, <2>2
  <2>3. CASE loop.at = "resetting"
    <3> DEFINE m == Answered(c)
    <3>1. m \in Message /\ m.kind \notin Notices
      BY AnsweredIsAMessage DEF Notices
    <3> HIDE DEF m
    <3>2. /\ DOMAIN Append(msgs, m) = 1..(Len(msgs) + 1) /\ DOMAIN msgs = 1..Len(msgs)
          /\ \A i \in 1..Len(msgs) : Append(msgs, m)[i] = msgs[i]
          /\ Append(msgs, m)[Len(msgs) + 1] = m /\ Len(msgs) \in Nat
      BY <1>0, <3>1
    <3>3. NoNotice(msgs)
      BY <2>3 DEF Memory
    <3>4. NoNotice(Append(msgs, m))
      BY <3>1, <3>2, <3>3 DEF NoNotice
    <3> QED
      BY <2>1, <2>3, <3>4 DEF Memory, m
  <2> QED
    BY <2>2, <2>3
<1>17. ASSUME NEW k \in DOMAIN msgs, Rewind(k)
       PROVE  Memory'
  <2> DEFINE told == NoticeIsCurrent(msgs', plan.was)
  <2>1. plan' = [plan EXCEPT !.told = told] /\ UNCHANGED loop /\ loop.at = "idle"
    BY <1>17 DEF Rewind
  <2> HIDE DEF told
  <2>2. plan'.told = told /\ plan'.was = plan.was
    BY <1>0, <2>1 DEF PlanTyped
  <2>3. plan'.told => NoticeIsCurrent(msgs', plan'.was)
    BY <2>2 DEF told
  <2> QED
    BY <2>1, <2>3 DEF Memory
<1> QED
  BY <1>1, <1>2, <1>3, <1>4, <1>5, <1>6, <1>7, <1>8, <1>9, <1>10, <1>11, <1>12,
     <1>13, <1>14, <1>15, <1>16, <1>17 DEF Next

(* ------------------------------ theorems ---------------------------------- *)

(* A new session has an empty transcript and a middleware that told nothing.  *)
LEMMA InitHolds == Init => IInv
<1> SUFFICES ASSUME Init
             PROVE  IInv
  OBVIOUS
<1>1. /\ msgs = <<>> /\ loop.at = "idle" /\ loop.running = {}
      /\ plan.was = FALSE /\ plan.told = TRUE /\ spent.calls = 0
      /\ late.left = {} /\ late.cancelled = {} /\ late.bound = FALSE
  BY DEF Init
<1>2. LoopTyped
  BY DEF Init, LoopTyped, Waits
<1>3. PlanTyped
  BY DEF Init, PlanTyped
<1>4. SpentTyped
  BY BoundsAssumption DEF Init, SpentTyped
<1>5. RunningTyped /\ LateKept
  BY <1>1 DEF RunningTyped, LateKept
<1>6. LateTyped
  BY DEF Init, LateTyped
<1>7. TypeOK /\ History
  BY <1>1, <1>2, <1>3, <1>4, <1>5, <1>6, NothingIsWhole, TypeOKInParts DEF History
<1>8. Answerable /\ LastWord /\ Budget /\ Apart
  BY <1>1 DEF Answerable, Settled, LastWord, Budget, Apart, Working
<1>9. Memory
  BY <1>1, NothingIsWhole DEF Memory
<1> QED
  BY <1>7, <1>8, <1>9 DEF IInv

(* Every step of turns, tools, interrupts, late answers, rewinds, compactions *)
(* and switches keeps the invariant.                                          *)
THEOREM NextIsInductive == IInv /\ [Next]_vars => IInv'
<1> SUFFICES ASSUME IInv, [Next]_vars
             PROVE  IInv'
  OBVIOUS
<1>0. TypeOK /\ History /\ Answerable /\ Apart /\ LastWord /\ Memory /\ Budget
  BY DEF IInv
<1>1. LoopTyped' /\ RunningTyped'
  BY <1>0, LoopStep
<1>2. PlanTyped'
  BY <1>0, PlanStep
<1>3. SpentTyped'
  BY <1>0, SpentStep
<1>4. LateTyped' /\ LateKept'
  BY <1>0, LateStep
<1>5. msgs' \in Seq(Message)
  BY <1>0, MessagesStep
<1>6. TypeOK'
  BY <1>1, <1>2, <1>3, <1>4, <1>5
     DEF TypeOK, LoopTyped, RunningTyped, PlanTyped, SpentTyped, LateTyped, LateKept
<1>7. History' /\ Apart'
  BY <1>0, HistoryStep, ApartStep
<1>8. Answerable'
  BY <1>0, AnswerableStep
<1>9. LastWord'
  BY <1>0, LastWordStep
<1>10. Memory'
  BY <1>0, MemoryStep
<1>11. Budget'
  BY <1>0, BudgetStep
<1> QED
  BY <1>6, <1>7, <1>8, <1>9, <1>10, <1>11 DEF IInv

(* Whatever the turns and their interruptions: until the answer of a tool     *)
(* that outlived its turn goes astray, answers stand in place and the places  *)
(* of the loop know which calls lack one; and what the middleware of plan     *)
(* mode remembers is what the transcript says, or it is known not to be.      *)
THEOREM Invariance == Spec => []IInv
<1> QED
  BY InitHolds, NextIsInductive, PTL DEF Spec

(* The loop of AgentLoop keeps its messages, its suspension, the memory of    *)
(* plan mode, the tools of turns that were cut off and the bounds in their    *)
(* types; tools run only where the turn waits for them, no batch starts       *)
(* while an older one holds the queue, and no tool works twice.               *)
THEOREM TypeCorrect == Spec => []TypeOK
<1>1. IInv => TypeOK
  BY DEF IInv
<1> QED
  BY <1>1, Invariance, PTL

(* The transcript the model is called with, to answer or to summarize,        *)
(* answers each tool call once and right where it was made, whatever was      *)
(* interrupted, refused or cut off before, unless a tool that outlived its    *)
(* turn answered out of place since the transcript was last replaced.         *)
THEOREM TheModelSeesAnsweredCalls == Spec => []ModelSeesAnsweredCalls
<1>1. IInv => ModelSeesAnsweredCalls
  <2> SUFFICES ASSUME IInv, loop.at \in {"ask", "compacting"}, ~late.astray
               PROVE  AllAnswered(msgs)
    BY DEF ModelSeesAnsweredCalls
  <2>1. msgs \in Seq(Message) /\ Blocks(msgs)
    BY TypeOKInParts DEF IInv, History
  <2>2. Missing(msgs) = {}
    BY DEF IInv, Answerable, Settled
  <2> QED
    BY <2>1, <2>2, NothingMissingIsAllAnswered
<1> QED
  BY <1>1, Invariance, PTL

(* The model is called by a turn that looked at plan mode just before, or     *)
(* right after a compaction.                                                  *)
LEMMA OnlyTwoStepsCallTheModel ==
  ASSUME TypeOK, [Next]_vars, loop.at # "ask", loop'.at = "ask"
  PROVE  AskModel \/ CompactionEnds
<1>0. LoopTyped /\ RunningTyped
  BY TypeOKInParts
<1>1. ASSUME NEW c \in Calls, ToolAnswers(c) \/ UserCancels(c) \/ ToolVanishes(c)
      PROVE  FALSE
  <2>1. /\ c \in loop.running
        /\ loop' \in {WithoutTool(c), [WithoutTool(c) EXCEPT !.cancelled = TRUE]}
    BY <1>1 DEF ToolAnswers, UserCancels, ToolVanishes
  <2> QED
    BY <1>0, <2>1, WithoutToolFields
<1>2. ASSUME NEW c \in Calls,
             ReviewPlan(c) \/ LateAnswers(c) \/ LateVanishes(c) \/ LateReview(c)
      PROVE  FALSE
  BY <1>2 DEF ReviewPlan, LateAnswers, LateVanishes, LateReview
<1>3. ~(StartTurn \/ MentionFile \/ LimitReached \/ Answers \/ AskFails \/ RunTools
        \/ BatchRefused)
  <2>1. ~(StartTurn \/ MentionFile \/ LimitReached \/ Answers \/ AskFails)
    BY <1>0 DEF StartTurn, MentionFile, LimitReached, Answers, AskFails, Fails, LoopTyped
  <2>2. ~RunTools
    BY <1>0 DEF RunTools, LoopTyped
  <2>3. ~BatchRefused
    BY <1>0 DEF BatchRefused, Fails, LoopTyped
  <2> QED
    BY <2>1, <2>2, <2>3
<1>4. ~(Interrupt \/ InterruptMention \/ Abandon \/ TurnToThePlan \/ Judge
        \/ ClearHistory \/ SeedPlan)
  <2>1. ~Interrupt
    BY <1>0 DEF Interrupt, LoopTyped
  <2>2. ~Judge
    BY <1>0 DEF Judge, LoopTyped
  <2>3. ~(InterruptMention \/ Abandon)
    BY <1>0 DEF InterruptMention, Abandon, LoopTyped
  <2>4. ~TurnToThePlan
    <3>1. TurnToThePlan => loop' = [loop EXCEPT !.at = "clearing", !.cancelled = FALSE]
      BY DEF TurnToThePlan
    <3>2. loop' = [loop EXCEPT !.at = "clearing", !.cancelled = FALSE]
            => loop'.at = "clearing"
      BY <1>0 DEF LoopTyped
    <3> QED
      BY <3>1, <3>2
  <2>5. ~(ClearHistory \/ SeedPlan)
    BY <1>0 DEF ClearHistory, SeedPlan, LoopTyped
  <2> QED
    BY <2>1, <2>2, <2>3, <2>4, <2>5
<1>5. ~(HooksRetry \/ HooksPass \/ EndTurn \/ CompactFull \/ RecoverFromOverflow
        \/ CompactByHand)
  BY <1>0 DEF HooksRetry, HooksPass, EndTurn, CompactFull, RecoverFromOverflow,
              CompactByHand, StartCompaction, LoopTyped
<1>6. ~(CompactionFails \/ Summarized \/ InterruptReset \/ SwitchAgent
        \/ ReloadConfig \/ CloseBatch \/ (\E k \in DOMAIN msgs : Rewind(k))
        \/ UNCHANGED vars)
  BY <1>0 DEF CompactionFails, Fails, Summarized, InterruptReset, SwitchAgent,
              ReloadConfig, CloseBatch, Rewind, vars, LoopTyped
<1> QED
  BY <1>1, <1>2, <1>3, <1>4, <1>5, <1>6 DEF Next

(* When the model is called, the last notice it reads about plan mode is the  *)
(* profile its tools run under, as the read-only agent's middleware promises, *)
(* but for a call right after an automatic compaction, which may find none,   *)
(* and a memory that is no longer of this transcript: lost with a reload or   *)
(* an interrupted compaction, or kept through a rewind.                       *)
THEOREM ThePlanNoticeIsCurrent == Spec => PlanNoticeIsCurrent
<1>1. IInv /\ [Next]_vars
        => (loop.at # "ask" /\ loop'.at = "ask"
              => \/ NoticeIsCurrent(msgs', plan.active)
                 \/ ~plan'.told
                 \/ loop.at = "resetting" /\ NoNotice(msgs'))
  <2> SUFFICES ASSUME IInv, [Next]_vars, loop.at # "ask", loop'.at = "ask", plan'.told
               PROVE  \/ NoticeIsCurrent(msgs', plan.active)
                      \/ loop.at = "resetting" /\ NoNotice(msgs')
    OBVIOUS
  <2>0. TypeOK /\ Apart /\ Memory /\ PlanTyped
    BY TypeOKInParts DEF IInv
  <2>1. Memory'
    BY <2>0, MemoryStep
  <2>2. CASE AskModel
    <3>1. plan'.was = plan.active
      BY <2>0, <2>2 DEF AskModel, PlanTyped
    <3> QED
      BY <2>1, <3>1 DEF Memory
  <2>3. CASE CompactionEnds
    BY <2>0, <2>3 DEF CompactionEnds, Memory
  <2> QED
    BY <2>0, <2>2, <2>3, OnlyTwoStepsCallTheModel
<1>2. IInv /\ [Next]_vars
        => [loop.at # "ask" /\ loop'.at = "ask"
              => \/ NoticeIsCurrent(msgs', plan.active)
                 \/ ~plan'.told
                 \/ loop.at = "resetting" /\ NoNotice(msgs')]_vars
  BY <1>1
<1> QED
  BY <1>2, Invariance, PTL DEF Spec, PlanNoticeIsCurrent

(* A turn that ends by itself, neither stopped nor interrupted, ends on an    *)
(* answer of the model that calls no tool, unless a tool that outlived its    *)
(* turn answered out of place; and nothing edited is left to be read.         *)
THEOREM TheTurnEndsOnAnAnswer == Spec => EndsOnAnAnswer
<1>1. IInv /\ [Next]_vars
        => (loop.at = "ending" /\ loop'.at = "idle" /\ loop'.answered
              => /\ \/ /\ msgs # <<>>
                       /\ msgs[Len(msgs)] = Asked({})
                       /\ AllAnswered(msgs)
                    \/ late.astray
                 /\ ~plan.edited)
  <2> SUFFICES ASSUME IInv, [Next]_vars, loop.at = "ending", loop'.at = "idle",
                      loop'.answered
               PROVE  /\ \/ /\ msgs # <<>> /\ msgs[Len(msgs)] = Asked({})
                            /\ AllAnswered(msgs)
                         \/ late.astray
                      /\ ~plan.edited
    OBVIOUS
  <2>0. /\ TypeOK /\ msgs \in Seq(Message) /\ LoopTyped /\ RunningTyped
        /\ ~late.astray => Blocks(msgs)
        /\ LastWord
    BY TypeOKInParts DEF IInv, History
  <2>1. loop.running = {}
    BY <2>0 DEF RunningTyped
  <2>2. loop.answered
    <3>1. EndTurn \/ Interrupt \/ Abandon
      BY <2>0, <2>1
         DEF Next, vars, StartTurn, MentionFile, LimitReached, AskModel, Answers,
             AskFails, RunTools, BatchRefused, ToolAnswers, UserCancels, ReviewPlan,
             ToolVanishes, LateAnswers, LateVanishes, LateReview, CloseBatch,
             InterruptMention, TurnToThePlan, Judge, ClearHistory, SeedPlan, HooksRetry,
             HooksPass, CompactFull, RecoverFromOverflow, CompactByHand, CompactionFails,
             Summarized, CompactionEnds, InterruptReset, SwitchAgent, ReloadConfig,
             Rewind
    <3>2. ~(Interrupt \/ Abandon)
      BY <2>0 DEF Interrupt, Abandon, LoopTyped
    <3> QED
      BY <2>0, <3>1, <3>2 DEF EndTurn, LoopTyped
  <2>3. /\ ~plan.edited
        /\ ~late.astray => /\ msgs # <<>> /\ msgs[Len(msgs)] = Asked({})
                           /\ Missing(msgs) = {}
    BY <2>0, <2>2 DEF LastWord
  <2> QED
    BY <2>0, <2>3, NothingMissingIsAllAnswered
<1>2. IInv /\ [Next]_vars
        => [loop.at = "ending" /\ loop'.at = "idle" /\ loop'.answered
              => /\ \/ /\ msgs # <<>>
                       /\ msgs[Len(msgs)] = Asked({})
                       /\ AllAnswered(msgs)
                    \/ late.astray
                 /\ ~plan.edited]_vars
  BY <1>1
<1> QED
  BY <1>2, Invariance, PTL DEF Spec, EndsOnAnAnswer
=============================================================================
