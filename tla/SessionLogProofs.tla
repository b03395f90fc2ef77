--------------------------- MODULE SessionLogProofs ---------------------------
(* Machine-checked proofs about SessionLog, for any number of messages, of    *)
(* rewritings, of saves and of loops, whatever is rewritten and whenever.     *)
EXTENDS SessionLog, SequenceTheorems, TLAPS

(* The versions of the conversation that matter: those that wait to be saved, *)
(* the oldest first, and the one in memory.                                   *)
Newest == Len(queue) + 1
Version(i) == IF i <= Len(queue) THEN queue[i].msgs ELSE conv
IsVersion(i) == i = Newest \/ (i \in 1..Len(queue) /\ queue[i].kind = "save")

Has(msgs, p, m) == p \in 1..Len(msgs) /\ msgs[p] = m
Holding(msgs) == {msgs[p] : p \in 1..Len(msgs)}
Whole == Torn \notin Holding(file)

(* Threads are what they are for, and there are none without the process.     *)
ThreadsAreWhatTheyAre ==
  /\ threads["stray"] = NoThread
  /\ \A s \in Slots : threads[s].pc = "none" => threads[s] = NoThread
  /\ threads["rename"].pc \in {"none", "replace"}
  /\ threads["lock"].pc # "none" => queue # <<>>
  /\ threads["lock"].pc \in {"append", "overwrite", "dump"} => queue[1].kind = "save"
  /\ threads["lock"].pc # "none" /\ queue[1].kind = "save"
        => threads["lock"].msgs = queue[1].msgs
  /\ ~up => conv = <<>> /\ queue = <<>> /\ \A s \in Slots : threads[s] = NoThread
  /\ threads["lock"].pc = "replace" /\ queue[1].kind = "loops"
        => threads["lock"].out.loops = queue[1].loops

(* Messages have been given, and that of a file that is whole.                *)
MessagesWereGiven ==
  /\ \A i \in 1..Newest : IsVersion(i) => \A p \in 1..Len(Version(i)) : Version(i)[p] <= given
  /\ \A m \in Holding(file) : m <= given
  /\ \A s \in Slots : \A m \in Holding(threads[s].lines) : m <= given
  /\ meta.last <= given
  /\ \A s \in Slots : threads[s].out.last <= given

(* Metadata on disk counts messages; nobody waits to change what is not there.*)
MetaIsReal ==
  /\ meta # NoMeta => meta.total \in Nat
  /\ \A s \in Slots : threads[s].pc = "replace" => threads[s].out.total \in Nat
  /\ \A i \in 1..Len(queue) : queue[i].kind = "loops" => meta # NoMeta

(* A place of the conversation that changed never changes back, and with it   *)
(* changes all that follows; a message that has left does not come back.      *)
VersionsBranch ==
  /\ \A i, j, k \in 1..Newest : \A p \in Nat, m \in Messages :
        /\ IsVersion(i) /\ IsVersion(j) /\ IsVersion(k) /\ i <= j /\ j <= k
        /\ Has(Version(i), p, m) /\ Has(Version(k), p, m)
        => Has(Version(j), p, m)
  /\ \A i, k \in 1..Newest : \A p, r \in Nat, m, n \in Messages :
        /\ IsVersion(i) /\ IsVersion(k) /\ i <= k
        /\ Has(Version(i), p, m) /\ Has(Version(k), p, m)
        /\ r <= p /\ Has(Version(i), r, n)
        => Has(Version(k), r, n)
  /\ \A i, k \in 1..Newest : IsVersion(i) /\ IsVersion(k) /\ i <= k
        => Holding(Version(i)) \cap Holding(conv) \subseteq Holding(Version(k))

(* The metadata on disk and what is about to replace it.                      *)
IsMeta(md) == md = meta \/ \E s \in Slots : threads[s].pc = "replace" /\ md = threads[s].out

(* A version that agrees with the metadata has its messages in the log, and   *)
(* so have all older ones, in the same place.                                 *)
Covers(md) ==
  \A k \in 1..Newest : IsVersion(k) /\ Has(Version(k), md.total, md.last) =>
    /\ \A i \in 1..k : IsVersion(i) => Has(Version(i), md.total, md.last)
    /\ Whole => \A p \in 1..md.total : Version(k)[p] \in Holding(file)

MetasCover == \A md \in Metas : IsMeta(md) => Covers(md)

(* The save whose thread has written the log, and has yet to say so.          *)
InLog ==
  \/ threads["lock"].pc = "dump"
  \/ threads["lock"].pc = "replace" /\ queue[1].kind = "save"

(* How far the thread of a save is.                                           *)
LogIsWritten ==
  /\ threads["lock"].pc = "append" /\ Whole =>
        Holding(queue[1].msgs) \subseteq Holding(file) \cup Holding(threads["lock"].lines)
  /\ threads["lock"].pc = "overwrite" => threads["lock"].lines = queue[1].msgs
  /\ InLog => (Whole => Holding(queue[1].msgs) \subseteq Holding(file))
  /\ threads["lock"].pc = "replace" /\ queue[1].kind = "save" =>
        /\ threads["lock"].out.total = Len(queue[1].msgs)
        /\ threads["lock"].out.last = LastOf(queue[1].msgs)

(* What is owed is in every version, and in a log that is whole.              *)
OwedIsThere ==
  /\ Whole => owed \subseteq Holding(file)
  /\ up => \A i \in 1..Newest : IsVersion(i) => owed \subseteq Holding(Version(i))

(* The last change of the loops waits to be written, or is written.           *)
OnlySaves == \A i \in 1..Len(queue) : queue[i].kind = "save"
LastLoopsWait ==
  \A i \in 1..Len(queue) :
     queue[i].kind = "loops" /\ (\A j \in (i + 1)..Len(queue) : queue[j].kind = "save")
       => queue[i].loops = loops

LoopsArePending == up /\ ~raced =>
  /\ LastLoopsWait
  /\ OnlySaves =>
        /\ meta # NoMeta => meta.loops = loops
        /\ threads["lock"].pc = "replace" => threads["lock"].out.loops = loops

(* While nothing was interrupted the log is the last save, but for a save     *)
(* whose thread has written it, and the metadata says so.                     *)
LogIsExact == ~raced =>
  /\ ~InLog => file = kept
  /\ InLog => file = queue[1].msgs
  /\ threads["lock"].pc = "append" => kept \o threads["lock"].lines = queue[1].msgs
  /\ threads["lock"].pc = "replace" /\ queue[1].kind = "loops" =>
        /\ threads["lock"].out.total = meta.total /\ threads["lock"].out.last = meta.last
        /\ meta # NoMeta
  /\ meta = NoMeta => kept = <<>>
  /\ meta # NoMeta => meta.total = Len(kept) /\ meta.last = LastOf(kept)

(* A version that agrees with that metadata begins with the last save.        *)
BeginWith(prefix, total, last) ==
  \A k \in 1..Newest : IsVersion(k) /\ Has(Version(k), total, last) =>
     \A p \in 1..Len(prefix) : Version(k)[p] = prefix[p]

VersionsExtendTheLog ==
  ~raced /\ meta # NoMeta => BeginWith(kept, meta.total, meta.last)

(* No text is newer than the last rewriting, and only a thread that has yet   *)
(* to write the log has lines.                                                *)
TextsAreKnown ==
  /\ \A m \in Messages : text[m] <= edits /\ logged[m] <= edits
  /\ \A s \in Slots : \A m \in Messages : threads[s].text[m] <= edits
  /\ meta.text <= edits
  /\ \A s \in Slots : threads[s].out.text <= edits
  /\ \A s \in Slots : threads[s].pc \in {"dump", "replace"} => threads[s].lines = <<>>

(* The metadata that the next save will read.                                 *)
NextMeta == IF threads["lock"].pc = "replace" THEN threads["lock"].out ELSE meta

(* The log has a message as it is in memory, or it was rewritten since; if it *)
(* is the last of the log, and no save is at work, its fingerprint says so.   *)
IsWritten(m) ==
  \/ text[m] = logged[m]
  \/ m \in late
  \/ /\ threads["lock"].pc \in {"none", "replace"}
     /\ m = NextMeta.last /\ text[m] # NextMeta.text

(* So has the thread that is about to write it.                               *)
TextIsSafe(m) ==
  IF m \in Holding(threads["lock"].lines)
  THEN threads["lock"].text[m] = text[m] \/ m \in late
  ELSE m \in Holding(file) /\ threads["lock"].pc # "overwrite" => IsWritten(m)

TextsAreLogged == ~raced /\ up => \A m \in Messages : TextIsSafe(m)

(* What the loops need ...                                                    *)
LInv == TypeOK /\ ThreadsAreWhatTheyAre /\ MetaIsReal /\ LoopsArePending

(* ... and what the messages do.                                              *)
Held ==
  /\ ThreadsAreWhatTheyAre /\ MetaIsReal /\ MessagesWereGiven /\ VersionsBranch
  /\ MetasCover /\ LogIsWritten /\ OwedIsThere /\ LogIsExact /\ VersionsExtendTheLog
  /\ TextsAreKnown /\ TextsAreLogged

IInv == TypeOK /\ Held

-----------------------------------------------------------------------------
(* What a step does to the queue and to the versions.                         *)

Removes(k) ==
  /\ k \in 1..Len(queue) /\ Len(queue') = Len(queue) - 1
  /\ \A j \in 1..Len(queue') : queue'[j] = queue[IF j < k THEN j ELSE j + 1]

Adds(job) ==
  /\ Len(queue') = Len(queue) + 1
  /\ \A j \in 1..Len(queue) : queue'[j] = queue[j]
  /\ queue'[Len(queue) + 1] = job

(* The conversation keeps some of its messages and may get a new one.         *)
ConvGoesOn ==
  /\ given <= given'
  /\ \A p \in 1..Len(conv') : \/ p \in 1..Len(conv) /\ conv'[p] = conv[p]
                              \/ p = Len(conv') /\ conv'[p] > given /\ conv'[p] <= given'

(* Every version was one before, in the same order, or is the conversation.   *)
ComesFrom(f) ==
  /\ \A j \in 1..Newest' : f[j] \in 1..Newest /\ \A i \in 1..j : f[i] <= f[j]
  /\ f[Newest'] = Newest
  /\ \A j \in 1..Newest' : IsVersion(j)' =>
        /\ IsVersion(f[j])
        /\ Version(j)' = IF f[j] = Newest THEN conv' ELSE Version(f[j])

VersionsGoOn == ConvGoesOn /\ \E f \in [1..Newest' -> 1..Newest] : ComesFrom(f)

(* A job that leaves the queue takes its version with it.                     *)
LEMMA RemovingKeepsVersions ==
  ASSUME Shape, Shape', UNCHANGED <<conv, given>>, NEW k, Removes(k)
  PROVE  VersionsGoOn
<1> DEFINE n == Len(queue)
           f == [j \in 1..Newest' |-> IF j < k THEN j ELSE j + 1]
<1>1. n \in Nat /\ k \in 1..n /\ Len(queue') = n - 1 /\ Newest = n + 1 /\ Newest' = n
  BY DEF Removes, Shape, Newest
<1>2. ConvGoesOn
  BY DEF ConvGoesOn, Shape
<1>3. f \in [1..Newest' -> 1..Newest]
  BY <1>1
<1>4. \A j \in 1..Newest' : f[j] \in 1..Newest /\ \A i \in 1..j : f[i] <= f[j]
  BY <1>1
<1>5. f[Newest'] = Newest
  BY <1>1
<1>6. ASSUME NEW j \in 1..Newest', IsVersion(j)'
      PROVE  /\ IsVersion(f[j])
             /\ Version(j)' = IF f[j] = Newest THEN conv' ELSE Version(f[j])
  <2>1. CASE j = n
    BY <1>1, <2>1 DEF IsVersion, Version, Newest
  <2>2. CASE j # n
    <3>1. queue'[j] = queue[f[j]] /\ f[j] \in 1..n /\ f[j] # Newest /\ j \in 1..(n - 1)
      BY <1>1, <2>2 DEF Removes
    <3> QED
      BY <1>1, <1>6, <3>1, <2>2 DEF IsVersion, Version, Newest
  <2> QED
    BY <2>1, <2>2
<1> QED
  BY <1>2, <1>3, <1>4, <1>5, <1>6 DEF VersionsGoOn, ComesFrom

(* So do jobs that stay where they are.                                       *)
LEMMA WaitingKeepsVersions ==
  ASSUME Shape, Shape', UNCHANGED queue, ConvGoesOn
  PROVE  VersionsGoOn
<1> DEFINE f == [j \in 1..Newest' |-> j]
<1>1. Newest \in Nat /\ Newest = Len(queue) + 1 /\ Newest' = Newest
  BY DEF Shape, Newest
<1>2. f \in [1..Newest' -> 1..Newest]
  BY <1>1
<1>3. \A j \in 1..Newest' : f[j] \in 1..Newest /\ \A i \in 1..j : f[i] <= f[j]
  BY <1>1
<1>4. f[Newest'] = Newest
  BY <1>1
<1>5. ASSUME NEW j \in 1..Newest', IsVersion(j)'
      PROVE  /\ IsVersion(f[j])
             /\ Version(j)' = IF f[j] = Newest THEN conv' ELSE Version(f[j])
  BY <1>1, <1>5 DEF IsVersion, Version, Newest
<1> QED
  BY <1>2, <1>3, <1>4, <1>5 DEF VersionsGoOn, ComesFrom

(* A new job saves the conversation, or is no save.                           *)
LEMMA AddingKeepsVersions ==
  ASSUME Shape, Shape', ConvGoesOn, NEW job, Adds(job),
         job.kind = "save" => job.msgs = conv'
  PROVE  VersionsGoOn
<1> DEFINE n == Len(queue)
           f == [j \in 1..Newest' |-> IF j <= n + 1 THEN j ELSE n + 1]
<1>1. n \in Nat /\ Len(queue') = n + 1 /\ Newest = n + 1 /\ Newest' = n + 2
  BY DEF Adds, Shape, Newest
<1>3. f \in [1..Newest' -> 1..Newest]
  BY <1>1
<1>4. \A j \in 1..Newest' : f[j] \in 1..Newest /\ \A i \in 1..j : f[i] <= f[j]
  BY <1>1
<1>5. f[Newest'] = Newest
  BY <1>1
<1>6. ASSUME NEW j \in 1..Newest', IsVersion(j)'
      PROVE  /\ IsVersion(f[j])
             /\ Version(j)' = IF f[j] = Newest THEN conv' ELSE Version(f[j])
  <2>1. CASE j \in 1..n
    <3>1. queue'[j] = queue[j] /\ f[j] = j
      BY <1>1, <2>1 DEF Adds
    <3> QED
      BY <1>1, <1>6, <2>1, <3>1 DEF IsVersion, Version, Newest
  <2>2. CASE j = n + 1
    <3>1. queue'[j] = job /\ f[j] = Newest
      BY <1>1, <2>2 DEF Adds
    <3> QED
      BY <1>1, <1>6, <2>2, <3>1 DEF IsVersion, Version, Newest
  <2>3. CASE j = n + 2
    BY <1>1, <2>3 DEF IsVersion, Version, Newest
  <2> QED
    BY <1>1, <2>1, <2>2, <2>3
<1> QED
  BY <1>3, <1>4, <1>5, <1>6 DEF VersionsGoOn, ComesFrom

-----------------------------------------------------------------------------
(* What holds of versions that go on.                                         *)

(* A message that was there before is where it was.                           *)
LEMMA ConvKeepsPlaces ==
  ASSUME Shape, Shape', ConvGoesOn, NEW p, NEW m \in Nat, m <= given, Has(conv', p, m)
  PROVE  /\ Has(conv, p, m)
         /\ \A r \in 1..p : conv'[r] = conv[r]
<1>1. Len(conv') \in Nat /\ given \in Nat /\ p \in 1..Len(conv') /\ conv'[p] = m
  BY DEF Shape, Has
<1>2. \A r \in 1..p : r \in 1..Len(conv') /\ (r = Len(conv') => r = p)
  BY <1>1
<1>3. \A r \in 1..p : r \in 1..Len(conv) /\ conv'[r] = conv[r]
  BY <1>1, <1>2 DEF ConvGoesOn
<1> QED
  BY <1>1, <1>3 DEF Has

(* A message that a version holds afterwards it, or the conversation, held.   *)
LEMMA VersionsKeepPlaces ==
  ASSUME Shape, Shape', ConvGoesOn, NEW f, ComesFrom(f), NEW k \in 1..Newest', IsVersion(k)',
         NEW p, NEW m \in Nat, m <= given, Has(Version(k)', p, m)
  PROVE  /\ Has(Version(f[k]), p, m)
         /\ \A r \in 1..p : Version(k)'[r] = Version(f[k])[r]
<1>1. f[k] \in 1..Newest /\ IsVersion(f[k])
      /\ Version(k)' = IF f[k] = Newest THEN conv' ELSE Version(f[k])
  BY DEF ComesFrom
<1>2. Version(Newest) = conv
  BY DEF Version, Newest, Shape
<1>3. CASE f[k] = Newest
  BY <1>1, <1>2, <1>3, ConvKeepsPlaces
<1>4. CASE f[k] # Newest
  BY <1>1, <1>4
<1> QED
  BY <1>3, <1>4

(* Versions branch as they did.                                               *)
LEMMA BranchingIsKept ==
  ASSUME Shape, Shape', MessagesWereGiven, VersionsBranch, VersionsGoOn
  PROVE  VersionsBranch'
<1> PICK f \in [1..Newest' -> 1..Newest] : ComesFrom(f)
  BY DEF VersionsGoOn
<1>0. ConvGoesOn /\ Messages \subseteq Nat
  BY DEF VersionsGoOn, Messages
<1>1. \A j \in 1..Newest' : f[j] \in 1..Newest /\ \A i \in 1..j : f[i] <= f[j]
  BY DEF ComesFrom
<1>2. \A j \in 1..Newest' : IsVersion(j)' =>
        IsVersion(f[j]) /\ Version(j)' = IF f[j] = Newest THEN conv' ELSE Version(f[j])
  BY DEF ComesFrom
<1>3. Newest \in Nat /\ Newest' \in Nat /\ Version(Newest) = conv /\ given \in Nat
  BY DEF Version, Newest, Shape
<1>4. ASSUME NEW i \in 1..Newest, IsVersion(i), NEW p, NEW m, Has(Version(i), p, m)
      PROVE  m <= given
  BY <1>4 DEF MessagesWereGiven, Has
<1>5. ASSUME NEW i \in 1..Newest', NEW j \in 1..Newest', NEW k \in 1..Newest', NEW p \in Nat,
             NEW m \in Messages, IsVersion(i)', IsVersion(j)', IsVersion(k)', i <= j, j <= k,
             Has(Version(i)', p, m), Has(Version(k)', p, m)
      PROVE  Has(Version(j)', p, m)
  <2>1. f[i] \in 1..Newest /\ f[j] \in 1..Newest /\ f[k] \in 1..Newest
        /\ f[i] <= f[j] /\ f[j] <= f[k]
    BY <1>1, <1>3, <1>5
  <2>2. CASE f[i] = Newest
    <3>1. f[j] = Newest
      BY <2>1, <2>2, <1>3
    <3> QED
      BY <3>1, <2>2, <1>2, <1>5
  <2>3. CASE f[i] # Newest
    <3>1. Has(Version(f[i]), p, m) /\ IsVersion(f[i]) /\ IsVersion(f[j]) /\ IsVersion(f[k])
      BY <1>2, <1>5, <2>3
    <3>2. m <= given
      BY <1>4, <2>1, <3>1
    <3>3. Has(Version(f[k]), p, m)
      BY <1>0, <1>5, <3>2, VersionsKeepPlaces
    <3>4. Has(Version(f[j]), p, m)
      BY <2>1, <3>1, <3>3 DEF VersionsBranch
    <3>5. CASE f[j] = Newest
      <4>1. f[k] = Newest
        BY <2>1, <3>5, <1>3
      <4> QED
        BY <4>1, <3>5, <1>2, <1>5
    <3>6. CASE f[j] # Newest
      BY <3>4, <3>6, <1>2, <1>5
    <3> QED
      BY <3>5, <3>6
  <2> QED
    BY <2>2, <2>3
<1>6. ASSUME NEW i \in 1..Newest', NEW k \in 1..Newest', NEW p \in Nat, NEW r \in Nat,
             NEW m \in Messages, NEW n \in Messages, IsVersion(i)', IsVersion(k)', i <= k,
             Has(Version(i)', p, m), Has(Version(k)', p, m), r <= p, Has(Version(i)', r, n)
      PROVE  Has(Version(k)', r, n)
  <2>1. f[i] \in 1..Newest /\ f[k] \in 1..Newest /\ f[i] <= f[k]
    BY <1>1, <1>3, <1>6
  <2>2. CASE f[i] = Newest
    <3>1. f[k] = Newest
      BY <2>1, <2>2, <1>3
    <3> QED
      BY <3>1, <2>2, <1>2, <1>6
  <2>3. CASE f[i] # Newest
    <3>1. Has(Version(f[i]), p, m) /\ Has(Version(f[i]), r, n)
          /\ IsVersion(f[i]) /\ IsVersion(f[k])
      BY <1>2, <1>6, <2>3
    <3>2. m <= given
      BY <1>4, <2>1, <3>1
    <3>3. Has(Version(f[k]), p, m) /\ \A x \in 1..p : Version(k)'[x] = Version(f[k])[x]
      BY <1>0, <1>6, <3>2, VersionsKeepPlaces
    <3>4. Has(Version(f[k]), r, n)
      BY <2>1, <3>1, <3>3, <1>6 DEF VersionsBranch
    <3>5. r \in 1..p /\ r \in 1..Len(Version(k)')
      <4>1. r \in 1..p
        BY <1>6, <3>1 DEF Has
      <4>2. p \in 1..Len(Version(k)')
        BY <1>6 DEF Has
      <4> HIDE DEF Version
      <4> QED
        BY <4>1, <4>2
    <3> QED
      BY <3>3, <3>4, <3>5 DEF Has
  <2> QED
    BY <2>2, <2>3
<1>7. ASSUME NEW i \in 1..Newest', NEW k \in 1..Newest', IsVersion(i)', IsVersion(k)', i <= k,
             NEW x \in Holding(Version(i)') \cap Holding(conv')
      PROVE  x \in Holding(Version(k)')
  <2>1. f[i] \in 1..Newest /\ f[k] \in 1..Newest /\ f[i] <= f[k]
    BY <1>1, <1>3, <1>7
  <2>2. CASE f[k] = Newest
    BY <2>2, <1>2, <1>7
  <2>3. CASE f[k] # Newest
    <3>1. f[i] # Newest
      BY <2>1, <2>3, <1>3
    <3>2. x \in Holding(Version(f[i])) /\ IsVersion(f[i]) /\ IsVersion(f[k])
          /\ Version(k)' = Version(f[k])
      BY <1>2, <1>7, <3>1, <2>3
    <3>3. x <= given
      <4>1. PICK p \in 1..Len(Version(f[i])) : x = Version(f[i])[p]
        BY <3>2 DEF Holding
      <4> QED
        BY <4>1, <1>4, <2>1, <3>2 DEF Has
    <3>4. x \in Holding(conv)
      <4>1. PICK p \in 1..Len(conv') : x = conv'[p]
        BY <1>7 DEF Holding
      <4>2. x \in Nat
        <5>1. conv' \in Seq(Messages)
          BY DEF Shape
        <5>2. conv'[p] \in Messages
          BY <5>1, <4>1, ElementOfSeq
        <5> QED
          BY <5>2, <4>1, <1>0
      <4>3. Has(conv, p, x)
        BY <1>0, <4>1, <4>2, <3>3, ConvKeepsPlaces DEF Has
      <4> QED
        BY <4>3 DEF Has, Holding
    <3> QED
      BY <2>1, <3>2, <3>4 DEF VersionsBranch
  <2> QED
    BY <2>2, <2>3
<1> QED
  BY <1>5, <1>6, <1>7 DEF VersionsBranch

(* The log gets longer, unless a line of it is cut off.                       *)
LogGoesOn == Whole' => Whole /\ Holding(file) \subseteq Holding(file')

(* What metadata covered it covers.                                           *)
LEMMA CoveringIsKept ==
  ASSUME Shape, Shape', VersionsGoOn, LogGoesOn, NEW md \in Metas, md.last <= given,
         Covers(md)
  PROVE  Covers(md)'
<1> PICK f \in [1..Newest' -> 1..Newest] : ComesFrom(f)
  BY DEF VersionsGoOn
<1>0. ConvGoesOn /\ md.last \in Nat /\ md.total \in Int
  BY DEF VersionsGoOn, Messages, Metas, Torn
<1>1. \A j \in 1..Newest' : f[j] \in 1..Newest /\ \A i \in 1..j : f[i] <= f[j]
  BY DEF ComesFrom
<1>2. \A j \in 1..Newest' : IsVersion(j)' =>
        IsVersion(f[j]) /\ Version(j)' = IF f[j] = Newest THEN conv' ELSE Version(f[j])
  BY DEF ComesFrom
<1>3. Newest \in Nat /\ Newest' \in Nat
  BY DEF Newest, Shape
<1> SUFFICES ASSUME NEW k \in 1..Newest', IsVersion(k)', Has(Version(k)', md.total, md.last)
             PROVE  /\ \A i \in 1..k : IsVersion(i)' => Has(Version(i)', md.total, md.last)
                    /\ Whole' => \A p \in 1..md.total : Version(k)'[p] \in Holding(file')
  BY DEF Covers, Has, Holding
<1>4. Has(Version(f[k]), md.total, md.last)
      /\ \A r \in 1..md.total : Version(k)'[r] = Version(f[k])[r]
  BY <1>0, VersionsKeepPlaces
<1>5. f[k] \in 1..Newest /\ IsVersion(f[k])
  BY <1>1, <1>2
<1>6. /\ \A i \in 1..f[k] : IsVersion(i) => Has(Version(i), md.total, md.last)
      /\ Whole => \A p \in 1..md.total : Version(f[k])[p] \in Holding(file)
  BY <1>4, <1>5 DEF Covers
<1>7. ASSUME NEW i \in 1..k, IsVersion(i)'
      PROVE  Has(Version(i)', md.total, md.last)
  <2>1. /\ i \in 1..Newest' /\ f[i] \in 1..f[k] /\ IsVersion(f[i])
        /\ Version(i)' = IF f[i] = Newest THEN conv' ELSE Version(f[i])
        /\ f[i] = Newest => f[k] = Newest
    <3>1. i \in 1..Newest' /\ i <= k /\ f[i] \in 1..Newest
      BY <1>1, <1>3
    <3>2. f[i] <= f[k]
      BY <1>1
    <3>3. f[i] \in 1..f[k] /\ (f[i] = Newest => f[k] = Newest)
      BY <1>3, <1>5, <3>1, <3>2
    <3>4. IsVersion(f[i]) /\ Version(i)' = IF f[i] = Newest THEN conv' ELSE Version(f[i])
      BY <1>2, <1>7, <3>1
    <3> QED
      BY <3>1, <3>3, <3>4
  <2>2. CASE f[i] = Newest
    BY <2>1, <2>2, <1>2
  <2>3. CASE f[i] # Newest
    <3>1. Has(Version(f[i]), md.total, md.last)
      BY <2>1, <1>6
    <3> QED
      BY <2>1, <2>3, <3>1
  <2> QED
    BY <2>2, <2>3
<1> QED
  BY <1>4, <1>6, <1>7 DEF LogGoesOn

(* So are the versions' messages messages that have been given ...            *)
LEMMA VersionsHoldTheGiven ==
  ASSUME Shape, Shape', MessagesWereGiven, VersionsGoOn, NEW i \in 1..Newest', IsVersion(i)',
         NEW p \in 1..Len(Version(i)')
  PROVE  Version(i)'[p] <= given'
<1> PICK f \in [1..Newest' -> 1..Newest] : ComesFrom(f)
  BY DEF VersionsGoOn
<1>1. /\ IsVersion(f[i]) /\ f[i] \in 1..Newest
      /\ Version(i)' = IF f[i] = Newest THEN conv' ELSE Version(f[i])
  BY DEF ComesFrom
<1>2. ConvGoesOn /\ given \in Nat /\ given' \in Nat /\ given <= given'
  BY DEF VersionsGoOn, ConvGoesOn, Shape
<1>3. Version(Newest) = conv /\ Newest \in 1..Newest /\ IsVersion(Newest)
  BY DEF Version, Newest, IsVersion, Shape
<1>4. \A q \in 1..Len(conv) : conv[q] <= given /\ conv[q] \in Nat
  <2>1. \A q \in 1..Len(conv) : conv[q] \in Nat
    <3>1. conv \in Seq(Messages)
      BY DEF Shape
    <3>2. \A q \in 1..Len(conv) : conv[q] \in Messages
      BY <3>1, ElementOfSeq
    <3> QED
      BY <3>2 DEF Messages
  <2> QED
    BY <2>1, <1>3 DEF MessagesWereGiven
<1>5. CASE f[i] = Newest
  <2>1. \/ conv'[p] = conv[p] /\ p \in 1..Len(conv)
        \/ conv'[p] <= given'
    BY <1>1, <1>2, <1>5 DEF ConvGoesOn
  <2>2. conv'[p] <= given'
    BY <2>1, <1>2, <1>4
  <2> QED
    BY <2>2, <1>1, <1>5
<1>6. CASE f[i] # Newest
  <2>1. Version(i)' = Version(f[i])
    BY <1>1, <1>6
  <2>2. Version(f[i])[p] <= given
    BY <2>1, <1>1 DEF MessagesWereGiven
  <2>3. f[i] \in 1..Len(queue) /\ queue[f[i]] \in Jobs /\ Version(f[i]) = queue[f[i]].msgs
    BY <1>1, <1>6 DEF IsVersion, Version, Newest, Shape
  <2>4. Version(f[i])[p] \in Nat
    <3>1. queue[f[i]].msgs \in Seq(Messages)
      BY <2>3 DEF Jobs
    <3>2. queue[f[i]].msgs[p] \in Messages
      BY <3>1, <2>1, <2>3, ElementOfSeq
    <3> QED
      BY <3>2, <2>3 DEF Messages
  <2> QED
    BY <2>1, <2>2, <2>4, <1>2
<1> QED
  BY <1>5, <1>6

(* ... and what is owed in every one that has it before, if it is in memory.  *)
LEMMA VersionsHoldTheOwed ==
  ASSUME Shape, Shape', VersionsGoOn, NEW S, S \subseteq Holding(conv'),
         \A i \in 1..Newest : IsVersion(i) => S \subseteq Holding(Version(i)),
         NEW i \in 1..Newest', IsVersion(i)'
  PROVE  S \subseteq Holding(Version(i)')
<1> PICK f \in [1..Newest' -> 1..Newest] : ComesFrom(f)
  BY DEF VersionsGoOn
<1>1. /\ IsVersion(f[i]) /\ f[i] \in 1..Newest
      /\ Version(i)' = IF f[i] = Newest THEN conv' ELSE Version(f[i])
  BY DEF ComesFrom
<1> QED
  BY <1>1

(* A version that began with a save begins with it.                           *)
LEMMA BeginningIsKept ==
  ASSUME Shape, Shape', VersionsGoOn, NEW prefix, NEW total, NEW last \in Nat, last <= given,
         total = Len(prefix), BeginWith(prefix, total, last),
         NEW k \in 1..Newest', IsVersion(k)', Has(Version(k)', total, last),
         NEW p \in 1..Len(prefix)
  PROVE  Version(k)'[p] = prefix[p]
<1> PICK f \in [1..Newest' -> 1..Newest] : ComesFrom(f)
  BY DEF VersionsGoOn
<1>1. IsVersion(f[k]) /\ f[k] \in 1..Newest
  BY DEF ComesFrom
<1>2. ConvGoesOn
  BY DEF VersionsGoOn
<1>3. /\ Has(Version(f[k]), total, last)
      /\ \A r \in 1..total : Version(k)'[r] = Version(f[k])[r]
  BY <1>2, VersionsKeepPlaces
<1> QED
  BY <1>1, <1>3 DEF BeginWith

(* A version that holds the last message of a save at its place holds all of  *)
(* it, and so do the versions between.                                        *)
LEMMA VersionsHoldASave ==
  ASSUME Shape, VersionsBranch, NEW k \in 1..Newest, IsVersion(k), NEW i \in 1..k, IsVersion(i),
         NEW p, NEW m \in Messages, Has(Version(k), p, m), Has(Version(i), p, m)
  PROVE  /\ \A r \in 1..p : Version(k)[r] = Version(i)[r]
         /\ \A j \in i..k : IsVersion(j) => Has(Version(j), p, m)
<1>1. Newest \in Nat /\ i \in 1..Newest /\ i <= k /\ i <= Newest
  BY DEF Newest, Shape
<1>2. p \in Nat /\ p \in 1..Len(Version(i)) /\ Len(Version(i)) \in Nat
      /\ \A r \in 1..p : Version(i)[r] \in Messages
  <2>1. Version(i) \in Seq(Messages)
    <3>1. CASE i \in 1..Len(queue)
      <4>1. queue[i] \in Jobs /\ i <= Len(queue)
        BY <3>1 DEF Shape
      <4> QED
        BY <4>1 DEF Version, Jobs
    <3>2. CASE i = Newest
      BY <3>2 DEF Version, Newest, Shape
    <3> QED
      BY <3>1, <3>2, <1>1 DEF Newest, Shape
  <2>2. p \in 1..Len(Version(i)) /\ Len(Version(i)) \in Nat
    BY <2>1 DEF Has
  <2> QED
    BY <2>1, <2>2, ElementOfSeq
<1>3. ASSUME NEW r \in 1..p
      PROVE  Version(k)[r] = Version(i)[r]
  <2>1. r \in Nat /\ r <= p /\ Has(Version(i), r, Version(i)[r]) /\ Version(i)[r] \in Messages
    BY <1>2 DEF Has
  <2>2. Has(Version(k), r, Version(i)[r])
    BY <1>1, <1>2, <2>1 DEF VersionsBranch
  <2> QED
    BY <2>2 DEF Has
<1>4. ASSUME NEW j \in i..k, IsVersion(j)
      PROVE  Has(Version(j), p, m)
  <2>1. j \in 1..Newest /\ i <= j /\ j <= k
    BY <1>1
  <2> QED
    BY <1>1, <1>2, <1>4, <2>1 DEF VersionsBranch
<1> QED
  BY <1>3, <1>4

-----------------------------------------------------------------------------
(* Steps that leave the disk alone.                                           *)

MemoryStep ==
  /\ up /\ up' /\ UNCHANGED <<file, meta, kept>>
  /\ threads'["lock"] = threads["lock"]
  /\ \A s \in Slots : /\ threads'[s].pc = threads[s].pc
                      /\ threads'[s].lines = threads[s].lines
                      /\ threads'[s].out = threads[s].out
                      /\ threads[s] = NoThread => threads'[s] = NoThread
  /\ threads["lock"] # NoThread => queue' # <<>> /\ queue'[1] = queue[1]
  /\ raced => raced'
  /\ owed' \subseteq owed
  /\ owed \subseteq Holding(conv) => owed' \subseteq Holding(conv')

(* A job is removed ...                                                       *)
LEMMA RemovingJobs ==
  ASSUME Shape, NEW i \in 1..Len(queue), queue' = RemoveAt(queue, i)
  PROVE  Removes(i) /\ (i > 1 => queue' # <<>> /\ queue'[1] = queue[1])
<1>1. queue \in Seq(Jobs) /\ Len(queue) \in Nat
  BY DEF Shape
<1> DEFINE a == SubSeq(queue, 1, i - 1)
           b == SubSeq(queue, i + 1, Len(queue))
<1>2. /\ a \in Seq(Jobs) /\ Len(a) = i - 1
      /\ \A j \in 1..(i - 1) : a[j] = queue[j]
  BY <1>1
<1>3. /\ b \in Seq(Jobs) /\ Len(b) = Len(queue) - i
      /\ \A j \in 1..(Len(queue) - i) : b[j] = queue[i + j]
  BY <1>1
<1>4. queue' = a \o b
  BY DEF RemoveAt
<1> HIDE DEF a, b
<1>5. /\ Len(queue') = Len(queue) - 1
      /\ \A j \in 1..Len(queue') : queue'[j] = queue[IF j < i THEN j ELSE j + 1]
  <2>1. Len(queue') = Len(queue) - 1
    <3>1. Len(queue') = Len(a) + Len(b)
      BY <1>2, <1>3, <1>4, ConcatProperties, Zenon
    <3> QED
      BY <1>1, <1>2, <1>3, <3>1
  <2>2. ASSUME NEW j \in 1..Len(queue')
        PROVE  queue'[j] = queue[IF j < i THEN j ELSE j + 1]
    <3>1. CASE j < i
      BY <1>1, <1>2, <1>3, <1>4, <2>1, <2>2, <3>1
    <3>2. CASE j >= i
      <4>1. queue'[j] = b[j - (i - 1)]
        BY <1>1, <1>2, <1>3, <1>4, <2>1, <2>2, <3>2
      <4>2. j - (i - 1) \in 1..(Len(queue) - i) /\ i + (j - (i - 1)) = j + 1
        BY <1>1, <2>1, <2>2, <3>2
      <4> QED
        BY <1>3, <4>1, <4>2, <3>2
    <3> QED
      BY <1>1, <2>1, <2>2, <3>1, <3>2
  <2> QED
    BY <2>1, <2>2
<1>6. ASSUME i > 1
      PROVE  queue' # <<>> /\ queue'[1] = queue[1]
  <2>1. 1 \in 1..Len(queue')
    BY <1>1, <1>5, <1>6
  <2> QED
    BY <1>5, <1>6, <2>1
<1> QED
  BY <1>1, <1>5, <1>6 DEF Removes

(* ... the first one ...                                                      *)
LEMMA RemovingTheFirst ==
  ASSUME Shape, queue # <<>>, queue' = Tail(queue)
  PROVE  Removes(1)
<1>1. queue \in Seq(Jobs)
  BY DEF Shape
<1>2. Len(queue) \in Nat \ {0} /\ Len(queue') = Len(queue) - 1
      /\ \A j \in 1..Len(queue') : queue'[j] = queue[j + 1]
  BY <1>1
<1> QED
  BY <1>2 DEF Removes

(* ... or added.                                                              *)
LEMMA AddingAJob ==
  ASSUME Shape, NEW job, Enqueue(job)
  PROVE  Adds(job) /\ (queue # <<>> => queue' # <<>> /\ queue'[1] = queue[1])
<1>1. queue \in Seq(Jobs) /\ queue' = Append(queue, job)
  BY DEF Shape, Enqueue
<1>2. Len(queue) \in Nat /\ Len(queue') = Len(queue) + 1
      /\ (\A j \in 1..Len(queue) : queue'[j] = queue[j])
      /\ queue'[Len(queue) + 1] = job
  BY <1>1, AppendProperties
<1> QED
  BY <1>1, <1>2 DEF Adds

(* A message is added.                                                        *)
LEMMA AddMessageInMemory ==
  ASSUME TypeOK, Shape', AddMessage
  PROVE  MemoryStep /\ VersionsGoOn
<1>1. conv \in Seq(Messages) /\ given \in Nat /\ given' = given + 1
      /\ conv' = Append(conv, given + 1)
  BY DEF TypeOK, Shape, AddMessage
<1>2. Len(conv) \in Nat /\ Len(conv') = Len(conv) + 1
      /\ (\A j \in 1..Len(conv) : conv'[j] = conv[j])
      /\ conv'[Len(conv) + 1] = given + 1
  BY <1>1, AppendProperties
<1>3. ConvGoesOn
  BY <1>1, <1>2 DEF ConvGoesOn
<1>4. Holding(conv) \subseteq Holding(conv')
  BY <1>2 DEF Holding
<1>5. VersionsGoOn
  BY <1>3, WaitingKeepsVersions DEF AddMessage, TypeOK
<1> QED
  BY <1>4, <1>5 DEF AddMessage, MemoryStep, TypeOK

(* A message is rewritten.  Those who wait, and the threads, wait as before.  *)
LEMMA RewriteMessageInMemory ==
  ASSUME TypeOK, Shape', NEW i, RewriteMessage(i)
  PROVE  /\ MemoryStep /\ VersionsGoOn
         /\ UNCHANGED <<up, conv, given, loops, queue, threads, file, logged, meta, kept,
                        owed, raced>>
<1>1. UNCHANGED <<up, conv, given, loops, queue, threads, file, logged, meta, kept, owed,
                  raced>>
  BY DEF RewriteMessage
<1>2. ConvGoesOn
  BY <1>1 DEF ConvGoesOn, TypeOK, Shape
<1>3. VersionsGoOn
  BY <1>1, <1>2, WaitingKeepsVersions DEF TypeOK
<1> QED
  BY <1>1, <1>3 DEF RewriteMessage, MemoryStep, TypeOK

(* The conversation is to be saved.                                           *)
LEMMA SaveInMemory ==
  ASSUME TypeOK, Shape', Save
  PROVE  MemoryStep /\ VersionsGoOn /\ Adds(SaveJob(conv))
<1>1. Adds(SaveJob(conv)) /\ (queue # <<>> => queue' # <<>> /\ queue'[1] = queue[1])
  BY AddingAJob DEF Save, TypeOK
<1>2. ConvGoesOn
  BY DEF ConvGoesOn, Save, TypeOK, Shape
<1>3. VersionsGoOn
  BY <1>1, <1>2, AddingKeepsVersions DEF SaveJob, Save, TypeOK
<1> QED
  BY <1>1, <1>3 DEF Save, CanSave, MemoryStep, TypeOK

(* The conversation is cut off and is to be saved.                            *)
LEMMA RewindInMemory ==
  ASSUME TypeOK, Shape', NEW k \in 0..(Len(conv) - 1), Rewind(k)
  PROVE  MemoryStep /\ VersionsGoOn /\ Adds(SaveJob(conv'))
<1>1. Adds(SaveJob(conv')) /\ (queue # <<>> => queue' # <<>> /\ queue'[1] = queue[1])
  BY AddingAJob DEF Rewind, TypeOK
<1>2. conv \in Seq(Messages) /\ conv' = SubSeq(conv, 1, k) /\ Len(conv) \in Nat
  BY DEF Rewind, TypeOK, Shape
<1>3. Len(conv') = k /\ \A j \in 1..k : j \in 1..Len(conv) /\ conv'[j] = conv[j]
  BY <1>2
<1>4. ConvGoesOn
  BY <1>3 DEF ConvGoesOn, Rewind, TypeOK, Shape
<1>5. VersionsGoOn
  BY <1>1, <1>4, AddingKeepsVersions DEF SaveJob, TypeOK
<1>6. ToSet(conv') = Holding(conv')
  <2>1. conv' \in Seq(Messages)
    BY DEF Shape
  <2> QED
    BY <2>1 DEF ToSet, Holding
<1> QED
  BY <1>1, <1>5, <1>6 DEF Rewind, CanSave, MemoryStep, TypeOK

(* The loops change.                                                          *)
LEMMA ChangeLoopsInMemory ==
  ASSUME TypeOK, Shape', ChangeLoops
  PROVE  /\ MemoryStep /\ VersionsGoOn
         /\ IF meta = NoMeta THEN UNCHANGED queue ELSE Adds(LoopsJob(loops'))
<1>1. ConvGoesOn
  BY DEF ConvGoesOn, ChangeLoops, TypeOK, Shape
<1>2. CASE meta = NoMeta
  <2>1. VersionsGoOn
    BY <1>1, <1>2, WaitingKeepsVersions DEF ChangeLoops, TypeOK
  <2> QED
    BY <1>2, <2>1 DEF ChangeLoops, MemoryStep, TypeOK
<1>3. CASE meta # NoMeta
  <2>1. Adds(LoopsJob(loops')) /\ (queue # <<>> => queue' # <<>> /\ queue'[1] = queue[1])
    BY <1>3, AddingAJob DEF ChangeLoops, TypeOK
  <2>2. VersionsGoOn
    BY <1>1, <2>1, AddingKeepsVersions DEF LoopsJob, TypeOK
  <2> QED
    BY <1>3, <2>1, <2>2 DEF ChangeLoops, MemoryStep, TypeOK
<1> QED
  BY <1>2, <1>3

(* Somebody does not wait for the lock any longer.                            *)
LEMMA GiveUpInMemory ==
  ASSUME TypeOK, Shape', NEW i \in 1..Len(queue), GiveUp(i)
  PROVE  MemoryStep /\ VersionsGoOn /\ Removes(i)
<1>1. Removes(i) /\ (i > 1 => queue' # <<>> /\ queue'[1] = queue[1])
  BY RemovingJobs DEF GiveUp, TypeOK
<1>2. VersionsGoOn
  BY <1>1, RemovingKeepsVersions DEF GiveUp, TypeOK
<1> QED
  BY <1>1, <1>2 DEF GiveUp, MemoryStep, TypeOK

-----------------------------------------------------------------------------
(* Steps that change the disk, or are about to.                               *)

(* A log with lines appended holds both.                                      *)
LEMMA HoldingBoth ==
  ASSUME NEW S, NEW a \in Seq(S), NEW b \in Seq(S)
  PROVE  Holding(a \o b) = Holding(a) \cup Holding(b)
<1>1. /\ Len(a \o b) = Len(a) + Len(b) /\ Len(a) \in Nat /\ Len(b) \in Nat
      /\ \A i \in 1..(Len(a) + Len(b)) : (a \o b)[i] = IF i <= Len(a) THEN a[i] ELSE b[i - Len(a)]
  BY ConcatProperties, LenProperties, Zenon
<1> DEFINE c == a \o b
<1>2. \A i \in 1..Len(a) : i \in 1..Len(c) /\ c[i] = a[i]
  BY <1>1
<1>3. \A i \in 1..Len(b) : Len(a) + i \in 1..Len(c) /\ c[Len(a) + i] = b[i]
  BY <1>1
<1>4. \A i \in 1..Len(c) : (i \in 1..Len(a) /\ c[i] = a[i])
                           \/ (i - Len(a) \in 1..Len(b) /\ c[i] = b[i - Len(a)])
  BY <1>1
<1> HIDE DEF c
<1>5. Holding(c) = Holding(a) \cup Holding(b)
  <2>1. \A x \in Holding(a) \cup Holding(b) : x \in Holding(c)
    BY <1>2, <1>3 DEF Holding
  <2>2. ASSUME NEW x \in Holding(c)
        PROVE  x \in Holding(a) \cup Holding(b)
    <3>1. PICK i \in 1..Len(c) : x = c[i]
      BY <2>2 DEF Holding
    <3> QED
      BY <1>4, <3>1 DEF Holding
  <2> QED
    BY <2>1, <2>2
<1> QED
  BY <1>5 DEF c

(* A log that is whole gets the lines; one that is not may lose the first.    *)
LEMMA LinesAreAppended ==
  ASSUME NEW S, file \in Seq(S), NEW lines \in Seq(S)
  PROVE  /\ WithLines(lines) \in Seq(S)
         /\ Holding(file) \subseteq Holding(WithLines(lines))
         /\ Holding(WithLines(lines)) \subseteq Holding(file) \cup Holding(lines)
         /\ Whole => WithLines(lines) = file \o lines
                     /\ Holding(WithLines(lines)) = Holding(file) \cup Holding(lines)
<1>1. CASE file # <<>> /\ Last(file) = Torn /\ lines # <<>>
  <2>1. /\ Tail(lines) \in Seq(S) /\ WithLines(lines) = file \o Tail(lines)
        /\ Len(lines) \in Nat /\ Len(Tail(lines)) = Len(lines) - 1
        /\ \A i \in 1..Len(Tail(lines)) : Tail(lines)[i] = lines[i + 1]
    BY <1>1 DEF WithLines
  <2>2. Holding(Tail(lines)) \subseteq Holding(lines)
    <3>1. \A i \in 1..Len(Tail(lines)) : i + 1 \in 1..Len(lines) /\ Tail(lines)[i] = lines[i + 1]
      BY <2>1
    <3> QED
      BY <3>1 DEF Holding
  <2>3. Holding(WithLines(lines)) = Holding(file) \cup Holding(Tail(lines))
    BY <2>1, HoldingBoth
  <2>4. WithLines(lines) \in Seq(S)
    BY <2>1, ConcatProperties
  <2>5. ~Whole
    <3>1. Len(file) \in 1..Len(file)
      BY <1>1
    <3> QED
      BY <1>1, <3>1 DEF Whole, Holding, Last
  <2> QED
    BY <2>2, <2>3, <2>4, <2>5
<1>2. CASE ~(file # <<>> /\ Last(file) = Torn /\ lines # <<>>)
  <2>1. WithLines(lines) = file \o lines
    BY <1>2 DEF WithLines
  <2>2. Holding(file \o lines) = Holding(file) \cup Holding(lines)
    BY HoldingBoth
  <2>3. file \o lines \in Seq(S)
    BY ConcatProperties
  <2> QED
    BY <2>1, <2>2, <2>3
<1> QED
  BY <1>1, <1>2

(* A log that grows by some of these lines, the last of them maybe cut off.   *)
LogGrows(lines) ==
  /\ Holding(file) \subseteq Holding(file')
  /\ Holding(file') \subseteq Holding(file) \cup Holding(lines) \cup {Torn}

(* What an interrupted write leaves.                                          *)
LEMMA CuttingOff ==
  ASSUME Shape, NEW s \in Slots, file' \in CutOff(s)
  PROVE  LogGrows(threads[s].lines) /\ file' \in Seq(Messages \cup {Torn})
<1> DEFINE lines == threads[s].lines
           M == Messages \cup {Torn}
<1>0. file \in Seq(M) /\ lines \in Seq(Messages)
  BY DEF Shape, Threads
<1>1. CASE threads[s].pc # "append"
  BY <1>0, <1>1 DEF CutOff, LogGrows
<1>2. CASE threads[s].pc = "append"
  <2>1. PICK n \in 0..Len(lines) :
           \/ file' = WithLines(SubSeq(lines, 1, n))
           \/ file' = WithLines(Append(SubSeq(lines, 1, n), Torn))
    <3>1. Len(lines) \in Nat
      BY <1>0
    <3> HIDE DEF lines
    <3>2. CutOff(s) = {WithLines(SubSeq(lines, 1, n)) : n \in 0..Len(lines)}
            \cup {WithLines(Append(SubSeq(lines, 1, n), Torn)) : n \in 0..(Len(lines) - 1)}
      BY <1>2 DEF CutOff, lines
    <3> QED
      BY <3>1, <3>2
  <2> DEFINE a == SubSeq(lines, 1, n)
  <2>2. a \in Seq(Messages) /\ Len(a) = n /\ \A i \in 1..n : i \in 1..Len(lines) /\ a[i] = lines[i]
    BY <1>0
  <2>3. Holding(a) \subseteq Holding(lines)
    BY <2>2 DEF Holding
  <2>4. a \in Seq(M) /\ Append(a, Torn) \in Seq(M)
    <3>1. a \in Seq(M)
      BY <2>2
    <3> HIDE DEF a
    <3> QED
      BY <3>1, AppendProperties
  <2>5. Holding(Append(a, Torn)) \subseteq Holding(a) \cup {Torn}
    <3> HIDE DEF a, M
    <3>1. Len(Append(a, Torn)) = Len(a) + 1 /\ Len(a) \in Nat
          /\ (\A i \in 1..Len(a) : Append(a, Torn)[i] = a[i]) /\ Append(a, Torn)[Len(a) + 1] = Torn
      BY <2>4, AppendProperties
    <3>2. \A i \in 1..Len(Append(a, Torn)) : i \in 1..Len(a) \/ i = Len(a) + 1
      BY <3>1
    <3> QED
      BY <3>1, <3>2 DEF Holding
  <2> HIDE DEF a, M, lines
  <2>6. CASE file' = WithLines(a)
    <3>1. /\ file' \in Seq(M) /\ Holding(file) \subseteq Holding(file')
          /\ Holding(file') \subseteq Holding(file) \cup Holding(a)
      BY <1>0, <2>4, <2>6, LinesAreAppended
    <3> QED
      BY <2>3, <3>1 DEF LogGrows, M, lines
  <2>7. CASE file' = WithLines(Append(a, Torn))
    <3>1. /\ file' \in Seq(M) /\ Holding(file) \subseteq Holding(file')
          /\ Holding(file') \subseteq Holding(file) \cup Holding(Append(a, Torn))
      BY <1>0, <2>4, <2>7, LinesAreAppended
    <3> QED
      BY <2>3, <2>5, <3>1 DEF LogGrows, M, lines
  <2> QED
    BY <2>1, <2>6, <2>7 DEF a
<1> QED
  BY <1>1, <1>2

(* A log that grows does not lose anything.                                   *)
LEMMA GrowingGoesOn ==
  ASSUME NEW lines, LogGrows(lines)
  PROVE  LogGoesOn
BY DEF LogGrows, LogGoesOn, Whole

(* What a thread is started for.                                              *)
LEMMA ThreadIsStarted ==
  ASSUME Shape, NEW s \in Slots, NEW pc, NEW lines, NEW msgs, NEW out,
         Start(s, pc, lines, msgs, out)
  PROVE  /\ threads'[s].pc = pc /\ threads'[s].lines = lines
         /\ threads'[s].msgs = msgs /\ threads'[s].out = out
         /\ threads'[s].text = IF lines = <<>> THEN Unedited ELSE text
         /\ \A t \in Slots : t # s => threads'[t] = threads[t]
<1>1. threads' = [threads EXCEPT ![s] =
                    [pc |-> pc, lines |-> lines, msgs |-> msgs, out |-> out,
                     text |-> IF lines = <<>> THEN Unedited ELSE text]]
  BY DEF Start
<1>2. DOMAIN threads = Slots
  BY DEF Shape
<1> QED
  BY <1>1, <1>2

(* What a thread is.                                                          *)
LEMMA ThreadIsTyped ==
  ASSUME Shape, NEW s \in Slots
  PROVE  /\ threads[s] \in Threads /\ threads[s].lines \in Seq(Messages)
         /\ threads[s].msgs \in Seq(Messages) /\ threads[s].out \in Metas
         /\ threads[s].pc = "none" \/ threads[s].pc \in {"append", "overwrite", "dump", "replace"}
BY DEF Shape, Threads

(* The job whose turn it is.                                                  *)
LEMMA HeadIsTyped ==
  ASSUME Shape, queue # <<>>
  PROVE  /\ 1 \in 1..Len(queue) /\ Head(queue) = queue[1] /\ queue[1] \in Jobs
         /\ queue[1].kind \in {"save", "loops"} /\ queue[1].msgs \in Seq(Messages)
         /\ queue[1].loops \in 0..MaxLoops
         /\ queue[1].kind = "save" => IsVersion(1) /\ Version(1) = queue[1].msgs
<1>1. queue \in Seq(Jobs)
  BY DEF Shape
<1>2. 1 \in 1..Len(queue) /\ Head(queue) = queue[1]
  BY <1>1
<1>3. queue[1] \in Jobs
  BY <1>1, <1>2, ElementOfSeq
<1>4. queue[1].kind = "save" => IsVersion(1) /\ Version(1) = queue[1].msgs
  BY <1>2 DEF IsVersion, Version
<1> QED
  BY <1>2, <1>3, <1>4 DEF Jobs

(* The thread of a save has read the log.                                     *)
LEMMA ReadLogStarts ==
  ASSUME Shape, NEW msgs, Holds("save"), msgs = Head(queue).msgs, ~UpToDate(msgs),
         Start("lock", Plan(msgs).pc, Plan(msgs).lines, msgs, NoMeta)
  PROVE  /\ threads'["lock"].msgs = msgs /\ threads'["lock"].out = NoMeta
         /\ \A t \in Slots : t # "lock" => threads'[t] = threads[t]
         /\ \/ /\ threads'["lock"].pc = "overwrite" /\ threads'["lock"].lines = msgs
            \/ /\ threads'["lock"].pc = "append"
               /\ threads'["lock"].lines = SubSeq(msgs, OldTotal + 1, Len(msgs))
               /\ Len(msgs) > OldTotal /\ BoundaryUnchanged(msgs)
<1>1. /\ threads'["lock"].pc = Plan(msgs).pc /\ threads'["lock"].lines = Plan(msgs).lines
      /\ threads'["lock"].msgs = msgs /\ threads'["lock"].out = NoMeta
      /\ \A t \in Slots : t # "lock" => threads'[t] = threads[t]
  <2> DEFINE pc == Plan(msgs).pc
             lines == Plan(msgs).lines
  <2>1. "lock" \in Slots /\ Start("lock", pc, lines, msgs, NoMeta)
    BY DEF Slots
  <2> HIDE DEF pc, lines
  <2>2. /\ threads'["lock"].pc = pc /\ threads'["lock"].lines = lines
        /\ threads'["lock"].msgs = msgs /\ threads'["lock"].out = NoMeta
        /\ \A t \in Slots : t # "lock" => threads'[t] = threads[t]
    BY <2>1, ThreadIsStarted
  <2> QED
    BY <2>2 DEF pc, lines
<1>2. CASE Len(msgs) > OldTotal /\ BoundaryUnchanged(msgs)
  BY <1>1, <1>2 DEF Plan
<1>3. CASE ~(Len(msgs) > OldTotal /\ BoundaryUnchanged(msgs))
  BY <1>1, <1>3 DEF Plan
<1> QED
  BY <1>2, <1>3

(* The holder of the lock has the log or the metadata written by a thread.    *)
LEMMA WriterIsTheLock ==
  ASSUME ThreadsAreWhatTheyAre, NEW s \in Slots
  PROVE  /\ threads[s].pc \in {"append", "overwrite", "dump"} => s = "lock"
         /\ threads[s].pc = "replace" => s \in {"lock", "rename"}
<1>1. threads["stray"].pc = "none" /\ threads["rename"].pc \in {"none", "replace"}
  BY DEF ThreadsAreWhatTheyAre, NoThread
<1> QED
  BY <1>1 DEF Slots

(* The log is written.                                                        *)
LEMMA WriteLogStarts ==
  ASSUME Shape, ThreadsAreWhatTheyAre, NEW s \in Slots, WriteLog(s)
  PROVE  /\ s = "lock"
         /\ threads["lock"].pc \in {"append", "overwrite"}
         /\ file' = IF threads["lock"].pc = "append" THEN WithLines(threads["lock"].lines)
                    ELSE threads["lock"].lines
         /\ threads'["lock"].pc = "dump" /\ threads'["lock"].lines = <<>>
         /\ threads'["lock"].msgs = threads["lock"].msgs /\ threads'["lock"].out = NoMeta
         /\ \A t \in Slots : t # "lock" => threads'[t] = threads[t]
         /\ UNCHANGED <<up, conv, given, loops, queue, meta, kept, owed, raced>>
<1>1. s = "lock" /\ threads[s].pc \in {"append", "overwrite"}
  BY WriterIsTheLock DEF WriteLog
<1> DEFINE msgs == threads["lock"].msgs
<1>2. Start("lock", "dump", <<>>, msgs, NoMeta)
  BY <1>1 DEF WriteLog
<1> HIDE DEF msgs
<1>3. /\ threads'["lock"].pc = "dump" /\ threads'["lock"].lines = <<>>
      /\ threads'["lock"].msgs = msgs /\ threads'["lock"].out = NoMeta
      /\ \A t \in Slots : t # "lock" => threads'[t] = threads[t]
  BY <1>2, ThreadIsStarted, Zenon DEF Slots
<1> QED
  BY <1>1, <1>3 DEF WriteLog, msgs

(* The metadata are put together.                                             *)
LEMMA DumpMetaStarts ==
  ASSUME Shape, ThreadsAreWhatTheyAre, NEW s \in Slots, DumpMeta(s)
  PROVE  /\ s = "lock" /\ threads["lock"].pc = "dump"
         /\ threads'["lock"].pc = "replace" /\ threads'["lock"].lines = <<>>
         /\ threads'["lock"].msgs = threads["lock"].msgs
         /\ threads'["lock"].out.total = Len(threads["lock"].msgs)
         /\ threads'["lock"].out.last = LastOf(threads["lock"].msgs)
         /\ threads'["lock"].out.loops = loops
         /\ \A t \in Slots : t # "lock" => threads'[t] = threads[t]
         /\ UNCHANGED <<up, conv, given, loops, queue, file, meta, kept, owed, raced>>
<1>1. s = "lock" /\ threads[s].pc = "dump"
  BY WriterIsTheLock DEF DumpMeta
<1> DEFINE msgs == threads["lock"].msgs
           out == [total |-> Len(msgs), last |-> LastOf(msgs), text |-> TextOfLast(msgs),
                   loops |-> loops]
<1>2. Start("lock", "replace", <<>>, msgs, out)
  BY <1>1 DEF DumpMeta
<1> HIDE DEF msgs, out
<1>3. /\ threads'["lock"].pc = "replace" /\ threads'["lock"].lines = <<>>
      /\ threads'["lock"].msgs = msgs
      /\ threads'["lock"].out = out
      /\ \A t \in Slots : t # "lock" => threads'[t] = threads[t]
  <2>1. "lock" \in Slots
    BY DEF Slots
  <2> QED
    BY <1>2, <2>1, ThreadIsStarted, Zenon
<1> QED
  BY <1>1, <1>3 DEF DumpMeta, msgs, out

(* The metadata are read to change the loops in them.                         *)
LEMMA ReadFieldStarts ==
  ASSUME Shape, ReadField
  PROVE  /\ queue # <<>> /\ queue[1].kind = "loops" /\ threads["lock"] = NoThread
         /\ threads'["lock"].pc = "replace" /\ threads'["lock"].lines = <<>>
         /\ threads'["lock"].msgs = <<>>
         /\ threads'["lock"].out \in Metas
         /\ threads'["lock"].out.total = meta.total
         /\ threads'["lock"].out.last = meta.last
         /\ threads'["lock"].out.loops = queue[1].loops
         /\ \A t \in Slots : t # "lock" => threads'[t] = threads[t]
         /\ UNCHANGED <<up, conv, given, loops, queue, file, meta, kept, owed, raced>>
<1>1. queue # <<>> /\ queue[1].kind = "loops" /\ threads["lock"] = NoThread
      /\ Head(queue) = queue[1]
  BY HeadIsTyped DEF ReadField, Holds
<1> DEFINE out == [meta EXCEPT !.loops = queue[1].loops]
<1>2. Start("lock", "replace", <<>>, <<>>, out)
  BY <1>1 DEF ReadField
<1> HIDE DEF out
<1>3. /\ threads'["lock"].pc = "replace" /\ threads'["lock"].lines = <<>>
      /\ threads'["lock"].msgs = <<>>
      /\ threads'["lock"].out = out
      /\ \A t \in Slots : t # "lock" => threads'[t] = threads[t]
  BY <1>2, ThreadIsStarted, Zenon DEF Slots
<1>4. meta \in Metas /\ queue[1].loops \in 0..MaxLoops
  BY <1>1, HeadIsTyped DEF Shape
<1>5. out \in Metas /\ out.total = meta.total /\ out.last = meta.last
      /\ out.loops = queue[1].loops
  BY <1>4 DEF Metas, out
<1> QED
  BY <1>1, <1>3, <1>5 DEF ReadField

(* The metadata are read to change the title in them.                         *)
LEMMA ReadTitleStarts ==
  ASSUME Shape, ReadTitle
  PROVE  /\ up /\ meta # NoMeta /\ threads["rename"] = NoThread
         /\ threads'["rename"].pc = "replace" /\ threads'["rename"].lines = <<>>
         /\ threads'["rename"].msgs = <<>> /\ threads'["rename"].out = meta
         /\ \A t \in Slots : t # "rename" => threads'[t] = threads[t]
         /\ UNCHANGED <<up, conv, given, loops, queue, file, meta, kept, owed, raced>>
<1>1. Start("rename", "replace", <<>>, <<>>, meta)
  BY DEF ReadTitle
<1>2. /\ threads'["rename"].pc = "replace" /\ threads'["rename"].lines = <<>>
      /\ threads'["rename"].msgs = <<>> /\ threads'["rename"].out = meta
      /\ \A t \in Slots : t # "rename" => threads'[t] = threads[t]
  BY <1>1, ThreadIsStarted, Zenon DEF Slots
<1> QED
  BY <1>2 DEF ReadTitle

(* The metadata are replaced by the thread that has them.                     *)
LEMMA ReplaceMetaEnds ==
  ASSUME Shape, ThreadsAreWhatTheyAre, NEW s \in Slots, ReplaceMeta(s)
  PROVE  /\ threads[s].pc = "replace" /\ meta' = threads[s].out
         /\ threads'[s] = NoThread
         /\ \A t \in Slots : t # s => threads'[t] = threads[t]
         /\ UNCHANGED <<up, conv, given, loops, file>>
         /\ \/ s = "rename" /\ UNCHANGED <<queue, kept, owed>>
               /\ raced' = (raced \/ meta # meta')
            \/ s = "lock" /\ queue # <<>> /\ queue[1].kind = "save" /\ Saved(queue[1].msgs)
               /\ UNCHANGED raced
            \/ s = "lock" /\ queue # <<>> /\ queue[1].kind = "loops" /\ queue' = Tail(queue)
               /\ UNCHANGED <<kept, owed, raced>>
<1>1. s \in {"lock", "rename"} /\ threads[s].pc = "replace"
  BY WriterIsTheLock DEF ReplaceMeta
<1>2. threads'[s] = NoThread /\ \A t \in Slots : t # s => threads'[t] = threads[t]
  BY DEF ReplaceMeta, Shape
<1>3. CASE s = "rename"
  BY <1>1, <1>2, <1>3 DEF ReplaceMeta
<1>4. CASE s = "lock"
  <2>1. queue # <<>>
    BY <1>1, <1>4 DEF ThreadsAreWhatTheyAre
  <2>2. Head(queue) = queue[1] /\ queue[1].kind \in {"save", "loops"}
    BY <2>1, HeadIsTyped
  <2>3. UNCHANGED <<up, conv, given, loops, file, raced>> /\ meta' = threads[s].out
    BY <1>4 DEF ReplaceMeta, Shape
  <2>4. CASE queue[1].kind = "save"
    <3>1. Saved(queue[1].msgs)
      BY <1>4, <2>2, <2>4 DEF ReplaceMeta
    <3> QED
      BY <1>1, <1>2, <1>4, <2>1, <2>3, <2>4, <3>1
  <2>5. CASE queue[1].kind = "loops"
    <3>1. queue' = Tail(queue) /\ UNCHANGED <<kept, owed>>
      BY <1>4, <2>2, <2>5 DEF ReplaceMeta
    <3> QED
      BY <1>1, <1>2, <1>4, <2>1, <2>3, <2>5, <3>1
  <2> QED
    BY <2>2, <2>4, <2>5
<1> QED
  BY <1>1, <1>3, <1>4

(* A write fails.                                                             *)
LEMMA FailWriteEnds ==
  ASSUME Shape, ThreadsAreWhatTheyAre, FailWrite
  PROVE  /\ threads["lock"].pc \in {"append", "overwrite", "replace"} /\ queue # <<>>
         /\ file' \in CutOff("lock") /\ raced'
         /\ threads'["lock"] = NoThread
         /\ \A t \in Slots : t # "lock" => threads'[t] = threads[t]
         /\ queue' = Tail(queue)
         /\ UNCHANGED <<up, conv, given, loops, meta, kept, owed>>
<1>1. threads'["lock"] = NoThread /\ \A t \in Slots : t # "lock" => threads'[t] = threads[t]
  BY DEF FailWrite, Shape, Slots
<1>2. queue # <<>>
  BY DEF FailWrite, ThreadsAreWhatTheyAre
<1> QED
  BY <1>1, <1>2 DEF FailWrite

-----------------------------------------------------------------------------
(* The shape of the state.                                                    *)

(* A job that is added or removed leaves jobs.                                *)
LEMMA JobsAreJobs ==
  ASSUME Shape
  PROVE  /\ \A job \in Jobs : Enqueue(job) => queue' \in Seq(Jobs) /\ Len(queue') = Len(queue) + 1
         /\ queue # <<>> /\ queue' = Tail(queue)
              => queue' \in Seq(Jobs) /\ Len(queue') = Len(queue) - 1
         /\ \A i \in 1..Len(queue) : queue' = RemoveAt(queue, i)
              => queue' \in Seq(Jobs) /\ Len(queue') = Len(queue) - 1
<1>1. queue \in Seq(Jobs) /\ Len(queue) \in Nat
  BY DEF Shape
<1>2. ASSUME NEW job \in Jobs, Enqueue(job)
      PROVE  queue' \in Seq(Jobs) /\ Len(queue') = Len(queue) + 1
  BY <1>1, <1>2, AppendProperties DEF Enqueue
<1>3. ASSUME queue # <<>>, queue' = Tail(queue)
      PROVE  queue' \in Seq(Jobs) /\ Len(queue') = Len(queue) - 1
  BY <1>1, <1>3
<1>4. ASSUME NEW i \in 1..Len(queue), queue' = RemoveAt(queue, i)
      PROVE  queue' \in Seq(Jobs) /\ Len(queue') = Len(queue) - 1
  <2> DEFINE a == SubSeq(queue, 1, i - 1)
             b == SubSeq(queue, i + 1, Len(queue))
  <2>1. a \in Seq(Jobs) /\ b \in Seq(Jobs) /\ queue' = a \o b
    BY <1>1, <1>4 DEF RemoveAt
  <2>2. queue' \in Seq(Jobs)
    BY <2>1, ConcatProperties, Zenon
  <2>3. Len(queue') = Len(queue) - 1
    BY <1>4, RemovingJobs DEF Removes
  <2> QED
    BY <2>2, <2>3
<1> QED
  BY <1>2, <1>3, <1>4

(* Texts are numbers of rewritings.                                           *)
LEMMA TextsAreTexts ==
  /\ 0 \in Texts /\ Texts \subseteq Nat /\ Unedited \in [Messages -> Texts]
  /\ \A m \in Messages : Unedited[m] = 0
  /\ Shape => /\ \A s \in Slots : threads[s].text \in [Messages -> Texts]
              /\ \A msgs \in Seq(Messages) :
                   /\ TextOfLast(msgs) \in Texts
                   /\ TextOfLast(msgs) = IF msgs = <<>> THEN 0 ELSE text[LastOf(msgs)]
                   /\ msgs # <<>> => LastOf(msgs) \in Messages
<1>1. 0 \in Texts /\ Texts \subseteq Nat /\ Unedited \in [Messages -> Texts]
      /\ \A m \in Messages : Unedited[m] = 0
  BY SessionLogAssumption DEF Texts, Unedited
<1>2. ASSUME Shape, NEW msgs \in Seq(Messages), msgs # <<>>
      PROVE  TextOfLast(msgs) = text[LastOf(msgs)] /\ LastOf(msgs) \in Messages
  BY <1>2 DEF TextOfLast, LastOf, Last
<1>3. ASSUME Shape, NEW s \in Slots
      PROVE  threads[s].text \in [Messages -> Texts]
  BY <1>3 DEF Shape, Threads
<1>4. ASSUME Shape, NEW msgs \in Seq(Messages)
      PROVE  /\ TextOfLast(msgs) \in Texts
             /\ TextOfLast(msgs) = IF msgs = <<>> THEN 0 ELSE text[LastOf(msgs)]
  <2>1. CASE msgs = <<>>
    BY <1>1, <2>1 DEF TextOfLast
  <2>2. CASE msgs # <<>>
    BY <1>2, <1>4, <2>2 DEF Shape
  <2> QED
    BY <2>1, <2>2
<1> QED
  BY <1>1, <1>2, <1>3, <1>4

(* A thread that is started is one.                                           *)
LEMMA StartedThreads ==
  ASSUME Shape, NEW s \in Slots, NEW pc, NEW lines \in Seq(Messages), NEW msgs \in Seq(Messages),
         NEW out \in Metas, pc \in {"append", "overwrite", "dump", "replace"},
         Start(s, pc, lines, msgs, out)
  PROVE  threads' \in [Slots -> Threads]
<1> DEFINE t == [pc |-> pc, lines |-> lines, msgs |-> msgs, out |-> out,
                 text |-> IF lines = <<>> THEN Unedited ELSE text]
<1>1. t \in Threads
  <2>1. (IF lines = <<>> THEN Unedited ELSE text) \in [Messages -> Texts]
    BY TextsAreTexts DEF Shape
  <2> QED
    BY <2>1 DEF Threads
<1>2. threads' = [threads EXCEPT ![s] = t]
  BY DEF Start
<1> HIDE DEF t
<1> QED
  BY <1>1, <1>2 DEF Shape

(* No thread is one, too.                                                     *)
LEMMA NoThreadIsOne == NoThread \in Threads /\ NoMeta \in Metas
<1>1. NoMeta \in Metas /\ Unedited \in [Messages -> Texts]
  BY SessionLogAssumption DEF NoMeta, Metas, Torn, Texts, Unedited
<1> QED
  BY <1>1 DEF NoThread, Threads

(* The last message of a conversation is a message.                           *)
LEMMA LastIsAMessage ==
  ASSUME NEW msgs \in Seq(Messages)
  PROVE  /\ LastOf(msgs) \in Messages \cup {Torn}
         /\ msgs # <<>> => Len(msgs) \in 1..Len(msgs) /\ LastOf(msgs) = msgs[Len(msgs)]
                           /\ LastOf(msgs) \in Messages
<1>1. CASE msgs = <<>>
  BY <1>1 DEF LastOf
<1>2. CASE msgs # <<>>
  BY <1>2 DEF LastOf, Last
<1> QED
  BY <1>1, <1>2

(* What a step does to the texts.                                             *)
TextsStay == UNCHANGED textVars

LEMMA TextsStayUnless ==
  ASSUME Next
  PROVE  \/ TextsStay
         \/ \E i \in DOMAIN conv : RewriteMessage(i)
         \/ ReadLog
         \/ \E s \in Slots : WriteLog(s)
         \/ FailWrite \/ Crash \/ Resume
BY DEF Next, TextsStay, AddMessage, Save, Rewind, ChangeLoops, DumpMeta, ReplaceMeta,
       ReadField, ReadTitle, GiveUp

(* Texts stay texts.                                                          *)
LEMMA TextsStayTyped ==
  ASSUME Shape, [Next]_vars
  PROVE  /\ text' \in [Messages -> Texts] /\ edits' \in Texts
         /\ logged' \in [Messages -> Texts] /\ late' \subseteq Messages
<1>0. /\ text \in [Messages -> Texts] /\ edits \in Texts
      /\ logged \in [Messages -> Texts] /\ late \subseteq Messages
  BY DEF Shape
<1>a. \A S : \A s \in Slots : Land(s, S) \in [Messages -> Texts]
  BY <1>0, TextsAreTexts DEF Land
<1>1. CASE TextsStay \/ UNCHANGED vars
  BY <1>0, <1>1 DEF TextsStay, textVars, vars
<1>2. ASSUME NEW i \in DOMAIN conv, RewriteMessage(i)
      PROVE  /\ text' \in [Messages -> Texts] /\ edits' \in Texts
             /\ logged' \in [Messages -> Texts] /\ late' \subseteq Messages
  <2>1. conv[i] \in Messages
    BY DEF Shape
  <2>2. edits + 1 \in Texts
    BY <1>0, <1>2, SessionLogAssumption DEF RewriteMessage, Texts
  <2> QED
    BY <1>0, <1>2, <2>1, <2>2 DEF RewriteMessage
<1>3. CASE ReadLog
  BY <1>0, <1>3 DEF ReadLog
<1>4. ASSUME NEW s \in Slots, WriteLog(s)
      PROVE  /\ text' \in [Messages -> Texts] /\ edits' \in Texts
             /\ logged' \in [Messages -> Texts] /\ late' \subseteq Messages
  BY <1>0, <1>a, <1>4 DEF WriteLog
<1>5. CASE FailWrite
  BY <1>0, <1>a, <1>5 DEF FailWrite, Slots
<1>6. CASE Crash
  BY <1>0, <1>a, <1>6, TextsAreTexts DEF Crash, Slots
<1>7. CASE Resume
  BY <1>0, <1>7 DEF Resume
<1> QED
  BY <1>1, <1>2, <1>3, <1>4, <1>5, <1>6, <1>7, TextsStayUnless

(* Every step keeps the shape of the state.                                   *)
LEMMA TypeIsKept ==
  ASSUME TypeOK, ThreadsAreWhatTheyAre, MetaIsReal, [Next]_vars
  PROVE  TypeOK'
<1>0. Shape /\ Len(queue) <= MaxSaves /\ (threads["lock"] # NoThread => queue # <<>>)
      /\ Len(queue) \in Nat /\ MaxSaves \in Nat
  BY SessionLogAssumption DEF TypeOK, Shape
<1>t. /\ text' \in [Messages -> Texts] /\ edits' \in Texts
      /\ logged' \in [Messages -> Texts] /\ late' \subseteq Messages
  BY <1>0, TextsStayTyped
<1>1. CASE AddMessage
  <2>1. given' \in 0..MaxMessages /\ given + 1 \in Messages
    BY <1>0, <1>1, SessionLogAssumption DEF Shape, AddMessage, Messages
  <2>2. conv' \in Seq(Messages)
    BY <1>0, <1>1, <2>1, AppendProperties DEF Shape, AddMessage
  <2> QED
    BY <1>0, <1>t, <1>1, <2>1, <2>2 DEF TypeOK, Shape, AddMessage
<1>2. ASSUME NEW i \in DOMAIN conv, RewriteMessage(i)
      PROVE  TypeOK'
  BY <1>0, <1>t, <1>2 DEF RewriteMessage, TypeOK, Shape
<1>3. CASE Save
  <2>1. SaveJob(conv) \in Jobs
    BY <1>0, SessionLogAssumption DEF SaveJob, Jobs, Shape
  <2>2. queue' \in Seq(Jobs) /\ Len(queue') = Len(queue) + 1
    BY <1>0, <1>3, <2>1, JobsAreJobs DEF Save
  <2>3. Len(queue') <= MaxSaves /\ queue' # <<>>
    BY <1>0, <1>3, <2>2 DEF Save, CanSave
  <2> QED
    BY <1>0, <1>t, <1>3, <2>2, <2>3 DEF TypeOK, Shape, Save
<1>4. ASSUME NEW k \in 0..(Len(conv) - 1), Rewind(k)
      PROVE  TypeOK'
  <2>1. conv' \in Seq(Messages)
    BY <1>0, <1>4 DEF Rewind, Shape
  <2>2. SaveJob(conv') \in Jobs
    BY <2>1, SessionLogAssumption DEF SaveJob, Jobs
  <2>3. queue' \in Seq(Jobs) /\ Len(queue') = Len(queue) + 1
    BY <1>0, <1>4, <2>2, JobsAreJobs DEF Rewind
  <2>4. Len(queue') <= MaxSaves /\ queue' # <<>>
    BY <1>0, <1>4, <2>3 DEF Rewind, CanSave
  <2> QED
    BY <1>0, <1>t, <1>4, <2>1, <2>3, <2>4 DEF TypeOK, Shape, Rewind
<1>5. CASE ChangeLoops
  <2>1. loops' \in 0..MaxLoops
    BY <1>0, <1>5, SessionLogAssumption DEF ChangeLoops, Shape
  <2>2. LoopsJob(loops') \in Jobs
    BY <2>1 DEF LoopsJob, Jobs
  <2>3. queue' \in Seq(Jobs) /\ Len(queue') <= MaxSaves /\ (queue # <<>> => queue' # <<>>)
    <3>1. CASE meta = NoMeta
      BY <1>0, <1>5, <3>1 DEF ChangeLoops, Shape
    <3>2. CASE meta # NoMeta
      <4>1. queue' \in Seq(Jobs) /\ Len(queue') = Len(queue) + 1 /\ Len(queue) < MaxSaves
        BY <1>0, <1>5, <2>2, <3>2, JobsAreJobs DEF ChangeLoops
      <4> QED
        BY <1>0, <4>1
    <3> QED
      BY <3>1, <3>2
  <2>4. raced' \in BOOLEAN
    BY <1>0, <1>5 DEF ChangeLoops, Shape
  <2> QED
    BY <1>0, <1>t, <1>5, <2>1, <2>3, <2>4 DEF TypeOK, Shape, ChangeLoops
<1>6. CASE ReadLog
  <2> DEFINE msgs == Head(queue).msgs
  <2>1. /\ queue # <<>> /\ threads["lock"] = NoThread /\ Holds("save")
        /\ UNCHANGED <<up, conv, given, loops, file, meta, raced>>
        /\ msgs \in Seq(Messages)
    BY <1>0, <1>6, HeadIsTyped DEF ReadLog, Holds
  <2>2. CASE UpToDate(msgs) /\ Saved(msgs) /\ UNCHANGED threads
    <3>1. queue' \in Seq(Jobs) /\ Len(queue') = Len(queue) - 1
      BY <1>0, <2>1, <2>2, JobsAreJobs DEF Saved
    <3>2. kept' \in Seq(Messages) /\ owed' \subseteq Messages
      BY <1>0, <2>1, <2>2 DEF Saved, Shape, ToSet
    <3> QED
      BY <1>0, <1>t, <2>1, <2>2, <3>1, <3>2 DEF TypeOK, Shape
  <2>3. CASE /\ ~UpToDate(msgs) /\ UNCHANGED <<queue, kept, owed>>
             /\ Start("lock", Plan(msgs).pc, Plan(msgs).lines, msgs, NoMeta)
    <3>1. OldTotal \in Nat
      BY DEF OldTotal, MetaIsReal
    <3>2. Plan(msgs).pc \in {"append", "overwrite"} /\ Plan(msgs).lines \in Seq(Messages)
      <4> HIDE DEF msgs
      <4>1. SubSeq(msgs, OldTotal + 1, Len(msgs)) \in Seq(Messages)
        BY <2>1, <3>1
      <4> QED
        BY <2>1, <4>1 DEF Plan
    <3>3. threads' \in [Slots -> Threads]
      <4> HIDE DEF msgs
      <4>1. "lock" \in Slots /\ Plan(msgs).pc \in {"append", "overwrite", "dump", "replace"}
        BY <3>2 DEF Slots
      <4> QED
        BY <1>0, <2>1, <2>3, <3>2, <4>1, NoThreadIsOne, StartedThreads
    <3> QED
      BY <1>0, <1>t, <2>1, <2>3, <3>3 DEF TypeOK, Shape
  <2> QED
    BY <1>6, <2>1, <2>2, <2>3 DEF ReadLog
<1>7. ASSUME NEW s \in Slots, WriteLog(s)
      PROVE  TypeOK'
  <2>1. threads' \in [Slots -> Threads]
    <3>1. threads[s].msgs \in Seq(Messages) /\ <<>> \in Seq(Messages)
      BY <1>0, ThreadIsTyped, EmptySeq
    <3> QED
      BY <1>0, <1>7, <3>1, NoThreadIsOne, StartedThreads DEF WriteLog
  <2>2. file' \in Seq(Messages \cup {Torn})
    <3>1. file \in Seq(Messages \cup {Torn}) /\ threads[s].lines \in Seq(Messages)
          /\ threads[s].lines \in Seq(Messages \cup {Torn})
      BY <1>0, ThreadIsTyped DEF Shape
    <3> QED
      BY <1>7, <3>1, LinesAreAppended DEF WriteLog
  <2>3. queue # <<>> /\ UNCHANGED <<up, conv, given, loops, queue, meta, kept, owed, raced>>
    <3>1. s = "lock"
      BY <1>7, WriterIsTheLock DEF WriteLog
    <3> QED
      BY <1>7, <3>1 DEF WriteLog, ThreadsAreWhatTheyAre
  <2> QED
    BY <1>0, <1>t, <2>1, <2>2, <2>3 DEF TypeOK, Shape
<1>8. ASSUME NEW s \in Slots, DumpMeta(s)
      PROVE  TypeOK'
  <2> DEFINE msgs == threads[s].msgs
             out == [total |-> Len(msgs), last |-> LastOf(msgs), text |-> TextOfLast(msgs),
                     loops |-> loops]
  <2>1. msgs \in Seq(Messages) /\ <<>> \in Seq(Messages)
    BY <1>0, ThreadIsTyped, EmptySeq
  <2>2. Start(s, "replace", <<>>, msgs, out)
    BY <1>8 DEF DumpMeta
  <2>3. out \in Metas
    <3>1. /\ Len(msgs) \in Nat /\ LastOf(msgs) \in Messages \cup {Torn}
          /\ loops \in 0..MaxLoops /\ TextOfLast(msgs) \in Texts
      BY <1>0, <2>1, LastIsAMessage, TextsAreTexts, LenProperties DEF Shape
    <3> QED
      BY <3>1 DEF Metas
  <2> HIDE DEF msgs, out
  <2>4. threads' \in [Slots -> Threads]
    BY <1>0, <2>1, <2>2, <2>3, StartedThreads
  <2>5. queue # <<>> /\ UNCHANGED <<up, conv, given, loops, queue, file, meta, kept, owed, raced>>
    <3>1. s = "lock"
      BY <1>8, WriterIsTheLock DEF DumpMeta
    <3> QED
      BY <1>8, <3>1 DEF DumpMeta, ThreadsAreWhatTheyAre
  <2> QED
    BY <1>0, <1>t, <2>4, <2>5 DEF TypeOK, Shape
<1>9. ASSUME NEW s \in Slots, ReplaceMeta(s)
      PROVE  TypeOK'
  <2>1. meta' \in Metas
    BY <1>0, <1>9, ThreadIsTyped DEF ReplaceMeta
  <2>2. threads' \in [Slots -> Threads]
    BY <1>0, <1>9, NoThreadIsOne DEF ReplaceMeta, Shape
  <2>3. /\ threads'[s] = NoThread
        /\ \A t \in Slots : t # s => threads'[t] = threads[t]
        /\ UNCHANGED <<up, conv, given, loops, file>>
    BY <1>0, <1>9, ReplaceMetaEnds
  <2>4. CASE s = "rename" /\ UNCHANGED <<queue, kept, owed>> /\ raced' = (raced \/ meta # meta')
    <3>1. threads'["lock"] = threads["lock"]
      BY <2>3, <2>4 DEF Slots
    <3> QED
      BY <1>0, <1>t, <2>1, <2>2, <2>3, <2>4, <3>1 DEF TypeOK, Shape
  <2>5. CASE /\ s = "lock" /\ queue # <<>> /\ queue[1].kind = "save" /\ Saved(queue[1].msgs)
             /\ UNCHANGED raced
    <3>1. queue' \in Seq(Jobs) /\ Len(queue') = Len(queue) - 1
      BY <1>0, <2>5, JobsAreJobs DEF Saved
    <3>2. queue[1].msgs \in Seq(Messages)
      BY <1>0, <2>5, HeadIsTyped
    <3>3. kept' \in Seq(Messages) /\ owed' \subseteq Messages
      BY <1>0, <3>2, <2>5 DEF Saved, Shape, ToSet
    <3> QED
      BY <1>0, <1>t, <2>1, <2>2, <2>3, <2>5, <3>1, <3>3 DEF TypeOK, Shape
  <2>6. CASE /\ s = "lock" /\ queue # <<>> /\ queue[1].kind = "loops" /\ queue' = Tail(queue)
             /\ UNCHANGED <<kept, owed, raced>>
    <3>1. queue' \in Seq(Jobs) /\ Len(queue') = Len(queue) - 1
      BY <1>0, <2>6, JobsAreJobs
    <3> QED
      BY <1>0, <1>t, <2>1, <2>2, <2>3, <2>6, <3>1 DEF TypeOK, Shape
  <2> QED
    BY <1>0, <1>9, <2>4, <2>5, <2>6, ReplaceMetaEnds
<1>10. CASE ReadField
  <2>1. queue # <<>> /\ meta \in Metas /\ Head(queue).loops \in 0..MaxLoops
        /\ <<>> \in Seq(Messages)
    BY <1>0, <1>10, HeadIsTyped, EmptySeq DEF ReadField, Holds, Shape
  <2> DEFINE out == [meta EXCEPT !.loops = Head(queue).loops]
  <2>2. out \in Metas
    BY <2>1 DEF Metas
  <2>3. Start("lock", "replace", <<>>, <<>>, out)
    BY <1>10 DEF ReadField
  <2> HIDE DEF out
  <2>4. threads' \in [Slots -> Threads]
    BY <1>0, <2>1, <2>2, <2>3, StartedThreads DEF Slots
  <2> QED
    BY <1>0, <1>t, <1>10, <2>1, <2>4 DEF TypeOK, Shape, ReadField
<1>11. CASE ReadTitle
  <2>1. threads' \in [Slots -> Threads]
    <3>1. meta \in Metas /\ <<>> \in Seq(Messages)
      BY <1>0, EmptySeq DEF Shape
    <3> QED
      BY <1>0, <1>11, <3>1, StartedThreads DEF ReadTitle, Slots
  <2>2. threads'["lock"] = threads["lock"]
    BY <1>0, <1>11, ReadTitleStarts DEF Slots
  <2> QED
    BY <1>0, <1>t, <1>11, <2>1, <2>2 DEF TypeOK, Shape, ReadTitle
<1>12. CASE FailWrite
  <2>1. file' \in Seq(Messages \cup {Torn})
    BY <1>0, <1>12, CuttingOff DEF FailWrite, Slots
  <2>2. threads' \in [Slots -> Threads]
    BY <1>0, <1>12, NoThreadIsOne DEF FailWrite, Shape
  <2>3. queue # <<>> /\ threads'["lock"] = NoThread
    BY <1>0, <1>12, FailWriteEnds
  <2>4. queue' \in Seq(Jobs) /\ Len(queue') = Len(queue) - 1
    BY <1>0, <1>12, <2>3, JobsAreJobs DEF FailWrite
  <2>5. UNCHANGED <<up, conv, given, loops, meta, kept, owed>> /\ raced' \in BOOLEAN
    BY <1>12 DEF FailWrite
  <2>6. Shape'
    BY <1>0, <1>t, <2>1, <2>2, <2>4, <2>5 DEF Shape
  <2> QED
    BY <1>0, <2>3, <2>4, <2>6 DEF TypeOK
<1>13. ASSUME NEW i \in DOMAIN queue, GiveUp(i)
       PROVE  TypeOK'
  <2>0. i \in 1..Len(queue)
    BY <1>0, <1>13 DEF Shape
  <2>1. queue' \in Seq(Jobs) /\ Len(queue') = Len(queue) - 1
    BY <1>0, <1>13, <2>0, JobsAreJobs DEF GiveUp
  <2>2. threads["lock"] # NoThread => queue' # <<>>
    BY <1>0, <1>13, <2>0, RemovingJobs DEF GiveUp
  <2>3. raced' \in BOOLEAN
    BY <1>0, <1>13 DEF GiveUp, Shape
  <2> QED
    BY <1>0, <1>t, <1>13, <2>1, <2>2, <2>3 DEF TypeOK, Shape, GiveUp
<1>14. CASE Crash
  <2>1. file' \in Seq(Messages \cup {Torn})
    BY <1>0, <1>14, CuttingOff DEF Crash, Slots
  <2>2. threads' \in [Slots -> Threads] /\ threads'["lock"] = NoThread
    BY <1>0, <1>14, NoThreadIsOne DEF Crash, Slots
  <2>3. conv' \in Seq(Messages) /\ queue' \in Seq(Jobs) /\ Len(queue') = 0
    BY <1>14, EmptySeq DEF Crash
  <2>4. raced' \in BOOLEAN
    BY <1>0, <1>14 DEF Crash, Shape
  <2>5. up' \in BOOLEAN /\ UNCHANGED <<given, loops, meta, kept, owed>>
    BY <1>14 DEF Crash
  <2>6. Shape'
    BY <1>0, <1>t, <2>1, <2>2, <2>3, <2>4, <2>5 DEF Shape
  <2> QED
    BY <1>0, <2>2, <2>3, <2>6 DEF TypeOK
<1>15. CASE Resume
  <2>1. file \in Seq(Messages)
    <3>1. file \in Seq(Messages \cup {Torn}) /\ Torn \notin {file[p] : p \in DOMAIN file}
      BY <1>0, <1>15 DEF Resume, Loadable, ToSet, Shape
    <3>2. \A p \in 1..Len(file) : file[p] \in Messages
      BY <3>1
    <3> QED
      BY <3>1, <3>2
  <2>2. loops' \in 0..MaxLoops /\ conv' \in Seq(Messages) /\ up' \in BOOLEAN
    BY <1>0, <1>15, <2>1 DEF Resume, Shape, Metas
  <2> QED
    BY <1>0, <1>t, <1>15, <2>2 DEF TypeOK, Shape, Resume
<1>16. CASE UNCHANGED vars
  BY <1>0, <1>t, <1>16 DEF TypeOK, Shape, vars
<1>17. Next \/ UNCHANGED vars
  OBVIOUS
<1> QED
  BY <1>1, <1>2, <1>3, <1>4, <1>5, <1>6, <1>7, <1>8, <1>9, <1>10, <1>11, <1>12, <1>13, <1>14,
     <1>15, <1>16, <1>17 DEF Next

-----------------------------------------------------------------------------
(* The threads.                                                               *)

(* A step in memory keeps them.                                               *)
LEMMA MemoryKeepsThreads ==
  ASSUME Shape, ThreadsAreWhatTheyAre, MemoryStep
  PROVE  ThreadsAreWhatTheyAre'
<1>1. /\ up' /\ threads'["lock"] = threads["lock"]
      /\ threads["lock"] # NoThread => queue' # <<>> /\ queue'[1] = queue[1]
  BY DEF MemoryStep
<1>2. \A s \in Slots : threads'[s].pc = threads[s].pc
                       /\ (threads[s] = NoThread => threads'[s] = NoThread)
  BY DEF MemoryStep
<1>3. threads'["stray"] = NoThread
  BY <1>2 DEF ThreadsAreWhatTheyAre, Slots
<1>4. threads'["rename"].pc \in {"none", "replace"}
  BY <1>2 DEF ThreadsAreWhatTheyAre, Slots
<1>5. \A s \in Slots : threads'[s].pc = "none" => threads'[s] = NoThread
  BY <1>2 DEF ThreadsAreWhatTheyAre
<1>6. threads["lock"].pc # "none" => threads["lock"] # NoThread
  BY DEF NoThread
<1>7. /\ threads'["lock"].pc # "none" => queue' # <<>>
      /\ threads'["lock"].pc \in {"append", "overwrite", "dump"} => queue'[1].kind = "save"
      /\ threads'["lock"].pc # "none" /\ queue'[1].kind = "save"
            => threads'["lock"].msgs = queue'[1].msgs
      /\ threads'["lock"].pc = "replace" /\ queue'[1].kind = "loops"
            => threads'["lock"].out.loops = queue'[1].loops
  BY <1>1, <1>6 DEF ThreadsAreWhatTheyAre
<1> QED
  BY <1>1, <1>3, <1>4, <1>5, <1>7 DEF ThreadsAreWhatTheyAre

(* So does every step.                                                        *)
LEMMA ThreadsAreKept ==
  ASSUME TypeOK, TypeOK', ThreadsAreWhatTheyAre, [Next]_vars
  PROVE  ThreadsAreWhatTheyAre'
<1>0. Shape /\ Shape' /\ (threads["lock"] # NoThread => queue # <<>>)
  BY DEF TypeOK
<1>a. "lock" \in Slots /\ "stray" \in Slots /\ "rename" \in Slots /\ NoThread.pc = "none"
  BY DEF Slots, NoThread
<1>1. CASE AddMessage
  BY <1>0, <1>1, AddMessageInMemory, MemoryKeepsThreads
<1>2. ASSUME NEW i \in DOMAIN conv, RewriteMessage(i)
      PROVE  ThreadsAreWhatTheyAre'
  BY <1>0, <1>2, RewriteMessageInMemory, MemoryKeepsThreads
<1>3. CASE Save
  BY <1>0, <1>3, SaveInMemory, MemoryKeepsThreads
<1>4. ASSUME NEW k \in 0..(Len(conv) - 1), Rewind(k)
      PROVE  ThreadsAreWhatTheyAre'
  BY <1>0, <1>4, RewindInMemory, MemoryKeepsThreads
<1>5. CASE ChangeLoops
  BY <1>0, <1>5, ChangeLoopsInMemory, MemoryKeepsThreads
<1>6. CASE ReadLog
  <2> DEFINE msgs == Head(queue).msgs
  <2>1. /\ queue # <<>> /\ threads["lock"] = NoThread /\ Holds("save")
        /\ UNCHANGED <<up, conv>> /\ queue[1].kind = "save" /\ msgs = queue[1].msgs
    BY <1>0, <1>6, HeadIsTyped DEF ReadLog, Holds
  <2>2. up
    BY <2>1 DEF ThreadsAreWhatTheyAre
  <2>3. CASE UpToDate(msgs) /\ Saved(msgs) /\ UNCHANGED threads
    BY <1>a, <2>1, <2>2, <2>3 DEF ThreadsAreWhatTheyAre
  <2>4. CASE /\ ~UpToDate(msgs) /\ UNCHANGED <<queue, kept, owed>>
             /\ Start("lock", Plan(msgs).pc, Plan(msgs).lines, msgs, NoMeta)
    <3>1. /\ threads'["lock"].msgs = msgs
          /\ \A t \in Slots : t # "lock" => threads'[t] = threads[t]
          /\ threads'["lock"].pc \in {"append", "overwrite"}
      <4> HIDE DEF msgs
      <4> QED
        BY <1>0, <2>1, <2>4, ReadLogStarts DEF msgs
    <3> QED
      BY <1>a, <2>1, <2>2, <2>4, <3>1 DEF ThreadsAreWhatTheyAre
  <2> QED
    BY <1>6, <2>3, <2>4 DEF ReadLog
<1>7. ASSUME NEW s \in Slots, WriteLog(s)
      PROVE  ThreadsAreWhatTheyAre'
  <2>1. /\ threads["lock"].pc \in {"append", "overwrite"}
        /\ threads'["lock"].pc = "dump"
        /\ threads'["lock"].msgs = threads["lock"].msgs
        /\ \A t \in Slots : t # "lock" => threads'[t] = threads[t]
        /\ UNCHANGED <<up, conv, queue>>
    BY <1>0, <1>7, WriteLogStarts
  <2>2. up /\ queue # <<>>
    BY <1>a, <2>1 DEF ThreadsAreWhatTheyAre
  <2> QED
    BY <1>a, <2>1, <2>2 DEF ThreadsAreWhatTheyAre
<1>8. ASSUME NEW s \in Slots, DumpMeta(s)
      PROVE  ThreadsAreWhatTheyAre'
  <2>1. /\ threads["lock"].pc = "dump"
        /\ threads'["lock"].pc = "replace"
        /\ threads'["lock"].msgs = threads["lock"].msgs
        /\ \A t \in Slots : t # "lock" => threads'[t] = threads[t]
        /\ UNCHANGED <<up, conv, queue>>
    BY <1>0, <1>8, DumpMetaStarts
  <2>2. up /\ queue # <<>> /\ queue[1].kind = "save"
    BY <1>a, <2>1 DEF ThreadsAreWhatTheyAre
  <2> QED
    BY <1>a, <2>1, <2>2 DEF ThreadsAreWhatTheyAre
<1>9. ASSUME NEW s \in Slots, ReplaceMeta(s)
      PROVE  ThreadsAreWhatTheyAre'
  <2>1. /\ threads[s].pc = "replace" /\ threads'[s] = NoThread
        /\ \A t \in Slots : t # s => threads'[t] = threads[t]
        /\ UNCHANGED <<up, conv>>
        /\ \/ s = "rename" /\ UNCHANGED queue
           \/ s = "lock"
    BY <1>0, <1>9, ReplaceMetaEnds
  <2>2. up
    BY <1>a, <2>1 DEF ThreadsAreWhatTheyAre
  <2>3. CASE s = "lock"
    BY <1>a, <2>1, <2>2, <2>3 DEF ThreadsAreWhatTheyAre
  <2>4. CASE s = "rename" /\ UNCHANGED queue
    BY <1>a, <2>1, <2>2, <2>4 DEF ThreadsAreWhatTheyAre
  <2> QED
    BY <2>1, <2>3, <2>4
<1>10. CASE ReadField
  <2>1. /\ queue # <<>> /\ queue[1].kind = "loops" /\ threads["lock"] = NoThread
        /\ threads'["lock"].pc = "replace"
        /\ threads'["lock"].out.loops = queue[1].loops
        /\ \A t \in Slots : t # "lock" => threads'[t] = threads[t]
        /\ UNCHANGED <<up, conv, queue>>
    BY <1>0, <1>10, ReadFieldStarts
  <2>2. up
    BY <2>1 DEF ThreadsAreWhatTheyAre
  <2> QED
    BY <1>a, <2>1, <2>2 DEF ThreadsAreWhatTheyAre
<1>11. CASE ReadTitle
  <2>1. /\ up /\ threads'["rename"].pc = "replace"
        /\ \A t \in Slots : t # "rename" => threads'[t] = threads[t]
        /\ UNCHANGED <<up, conv, queue>>
    BY <1>0, <1>11, ReadTitleStarts
  <2> QED
    BY <1>a, <2>1 DEF ThreadsAreWhatTheyAre
<1>12. CASE FailWrite
  <2>1. /\ threads["lock"].pc \in {"append", "overwrite", "replace"}
        /\ threads'["lock"] = NoThread
        /\ \A t \in Slots : t # "lock" => threads'[t] = threads[t]
        /\ UNCHANGED <<up, conv>>
    BY <1>0, <1>12, FailWriteEnds
  <2>2. up
    BY <1>a, <2>1 DEF ThreadsAreWhatTheyAre
  <2> QED
    BY <1>a, <2>1, <2>2 DEF ThreadsAreWhatTheyAre
<1>13. ASSUME NEW i \in DOMAIN queue, GiveUp(i)
       PROVE  ThreadsAreWhatTheyAre'
  <2>1. i \in 1..Len(queue)
    BY <1>0 DEF Shape
  <2> QED
    BY <1>0, <1>13, <2>1, GiveUpInMemory, MemoryKeepsThreads
<1>14. CASE Crash
  <2>1. conv' = <<>> /\ queue' = <<>> /\ \A s \in Slots : threads'[s] = NoThread
    BY <1>14 DEF Crash
  <2> QED
    BY <1>a, <2>1 DEF ThreadsAreWhatTheyAre
<1>15. CASE Resume
  BY <1>a, <1>15 DEF Resume, ThreadsAreWhatTheyAre
<1>16. CASE UNCHANGED vars
  BY <1>16 DEF ThreadsAreWhatTheyAre, vars
<1>17. Next \/ UNCHANGED vars
  OBVIOUS
<1> QED
  BY <1>1, <1>2, <1>3, <1>4, <1>5, <1>6, <1>7, <1>8, <1>9, <1>10, <1>11, <1>12, <1>13, <1>14,
     <1>15, <1>16, <1>17 DEF Next

-----------------------------------------------------------------------------
(* The metadata and the loops.                                                *)

(* Nobody who waits to change the metadata joins the queue without any.       *)
LoopsNeedMeta == \A i \in 1..Len(queue) : queue[i].kind = "loops" => meta # NoMeta

(* Removing a job does not add one ...                                        *)
LEMMA RemovingKeepsNeed ==
  ASSUME Shape, LoopsNeedMeta, NEW k, Removes(k), meta' = meta \/ meta' # NoMeta
  PROVE  LoopsNeedMeta'
<1>1. Len(queue) \in Nat
  BY DEF Shape
<1> SUFFICES ASSUME NEW i \in 1..Len(queue'), queue'[i].kind = "loops"
             PROVE  meta' # NoMeta
  BY DEF LoopsNeedMeta
<1>2. PICK j \in 1..Len(queue) : queue'[i] = queue[j]
  <2>1. queue'[i] = queue[IF i < k THEN i ELSE i + 1] /\ Len(queue') = Len(queue) - 1
    BY DEF Removes
  <2>2. (IF i < k THEN i ELSE i + 1) \in 1..Len(queue)
    BY <1>1, <2>1 DEF Removes
  <2> QED
    BY <2>1, <2>2
<1> QED
  BY <1>2 DEF LoopsNeedMeta

(* ... and saves may always be added.                                         *)
LEMMA AddingKeepsNeed ==
  ASSUME Shape, LoopsNeedMeta, NEW job, Adds(job), job.kind = "loops" => meta # NoMeta,
         UNCHANGED meta
  PROVE  LoopsNeedMeta'
<1>1. Len(queue) \in Nat
  BY DEF Shape
<1> SUFFICES ASSUME NEW i \in 1..Len(queue'), queue'[i].kind = "loops"
             PROVE  meta' # NoMeta
  BY DEF LoopsNeedMeta
<1>2. CASE i \in 1..Len(queue)
  BY <1>2 DEF LoopsNeedMeta, Adds
<1>3. CASE i = Len(queue) + 1
  BY <1>3 DEF Adds
<1> QED
  BY <1>1, <1>2, <1>3 DEF Adds

(* Metadata are counted.                                                      *)
LEMMA MetaStaysReal ==
  ASSUME TypeOK, TypeOK', ThreadsAreWhatTheyAre, MetaIsReal, [Next]_vars
  PROVE  MetaIsReal'
<1>0. Shape /\ Shape' /\ (threads["lock"] # NoThread => queue # <<>>)
  BY DEF TypeOK
<1>a. "lock" \in Slots /\ "rename" \in Slots /\ NoThread.pc = "none" /\ LoopsNeedMeta
  BY DEF Slots, NoThread, MetaIsReal, LoopsNeedMeta
<1>b. \A s \in Slots : threads[s].pc = "replace" => threads[s].out.total \in Nat
  BY DEF MetaIsReal
<1>c. ASSUME UNCHANGED meta, LoopsNeedMeta',
             \A s \in Slots : threads'[s].pc = "replace" => threads'[s].out.total \in Nat
      PROVE  MetaIsReal'
  BY <1>c DEF MetaIsReal, LoopsNeedMeta
<1>d. ASSUME MemoryStep, LoopsNeedMeta'
      PROVE  MetaIsReal'
  <2>1. UNCHANGED meta /\ \A s \in Slots : threads'[s].pc = threads[s].pc
                                           /\ threads'[s].out = threads[s].out
    BY <1>d DEF MemoryStep
  <2> QED
    BY <1>b, <1>c, <1>d, <2>1
<1>e. NoMeta.total \notin Nat
  BY DEF NoMeta
<1>1. CASE AddMessage
  BY <1>0, <1>1, <1>a, <1>d, AddMessageInMemory DEF AddMessage, LoopsNeedMeta
<1>2. ASSUME NEW i \in DOMAIN conv, RewriteMessage(i)
      PROVE  MetaIsReal'
  BY <1>0, <1>2, <1>a, <1>d, RewriteMessageInMemory DEF LoopsNeedMeta
<1>3. CASE Save
  BY <1>0, <1>3, <1>a, <1>d, SaveInMemory, AddingKeepsNeed DEF Save, SaveJob
<1>4. ASSUME NEW k \in 0..(Len(conv) - 1), Rewind(k)
      PROVE  MetaIsReal'
  BY <1>0, <1>4, <1>a, <1>d, RewindInMemory, AddingKeepsNeed DEF Rewind, SaveJob
<1>5. CASE ChangeLoops
  <2>1. UNCHANGED meta
    BY <1>5 DEF ChangeLoops
  <2>2. CASE meta = NoMeta
    BY <1>0, <1>5, <1>a, <1>d, <2>1, <2>2, ChangeLoopsInMemory DEF LoopsNeedMeta
  <2>3. CASE meta # NoMeta
    <3>1. LoopsNeedMeta'
      BY <1>0, <1>5, <1>a, <2>1, <2>3, ChangeLoopsInMemory, AddingKeepsNeed
    <3> QED
      BY <3>1, <1>d, <1>5, ChangeLoopsInMemory, <1>0
  <2> QED
    BY <2>2, <2>3
<1>6. CASE ReadLog
  <2> DEFINE msgs == Head(queue).msgs
  <2>1. queue # <<>> /\ UNCHANGED meta /\ Holds("save")
    BY <1>6 DEF ReadLog, Holds
  <2>2. CASE UpToDate(msgs) /\ Saved(msgs) /\ UNCHANGED threads
    <3>1. LoopsNeedMeta'
      BY <1>0, <1>a, <2>1, <2>2, RemovingTheFirst, RemovingKeepsNeed DEF Saved
    <3> QED
      BY <1>b, <1>c, <2>1, <2>2, <3>1
  <2>3. CASE /\ ~UpToDate(msgs) /\ UNCHANGED <<queue, kept, owed>>
             /\ Start("lock", Plan(msgs).pc, Plan(msgs).lines, msgs, NoMeta)
    <3>1. /\ \A t \in Slots : t # "lock" => threads'[t] = threads[t]
          /\ threads'["lock"].pc \in {"append", "overwrite"}
      <4> HIDE DEF msgs
      <4> QED
        BY <1>0, <2>1, <2>3, ReadLogStarts DEF msgs
    <3>2. LoopsNeedMeta'
      BY <1>a, <2>1, <2>3 DEF LoopsNeedMeta
    <3> QED
      BY <1>b, <1>c, <2>1, <3>1, <3>2
  <2> QED
    BY <1>6, <2>2, <2>3 DEF ReadLog
<1>7. ASSUME NEW s \in Slots, WriteLog(s)
      PROVE  MetaIsReal'
  <2>1. /\ threads'["lock"].pc = "dump"
        /\ \A t \in Slots : t # "lock" => threads'[t] = threads[t]
        /\ UNCHANGED <<queue, meta>>
    BY <1>0, <1>7, WriteLogStarts
  <2>2. LoopsNeedMeta'
    BY <1>a, <2>1 DEF LoopsNeedMeta
  <2> QED
    BY <1>b, <1>c, <2>1, <2>2
<1>8. ASSUME NEW s \in Slots, DumpMeta(s)
      PROVE  MetaIsReal'
  <2>1. /\ threads'["lock"].out.total = Len(threads["lock"].msgs)
        /\ \A t \in Slots : t # "lock" => threads'[t] = threads[t]
        /\ UNCHANGED <<queue, meta>>
    BY <1>0, <1>8, DumpMetaStarts
  <2>2. Len(threads["lock"].msgs) \in Nat
    BY <1>0, <1>a, ThreadIsTyped, LenProperties
  <2>3. LoopsNeedMeta'
    BY <1>a, <2>1 DEF LoopsNeedMeta
  <2> QED
    BY <1>b, <1>c, <2>1, <2>2, <2>3
<1>9. ASSUME NEW s \in Slots, ReplaceMeta(s)
      PROVE  MetaIsReal'
  <2>1. /\ threads[s].pc = "replace" /\ meta' = threads[s].out /\ threads'[s] = NoThread
        /\ \A t \in Slots : t # s => threads'[t] = threads[t]
        /\ UNCHANGED queue \/ (queue # <<>> /\ queue' = Tail(queue))
    BY <1>0, <1>9, ReplaceMetaEnds DEF Saved
  <2>2. meta'.total \in Nat /\ meta' # NoMeta
    BY <1>b, <1>e, <2>1
  <2>3. LoopsNeedMeta'
    BY <2>2 DEF LoopsNeedMeta
  <2>4. \A t \in Slots : threads'[t].pc = "replace" => threads'[t].out.total \in Nat
    BY <1>a, <1>b, <2>1
  <2> QED
    BY <2>2, <2>3, <2>4 DEF MetaIsReal, LoopsNeedMeta
<1>10. CASE ReadField
  <2>1. /\ queue # <<>> /\ queue[1].kind = "loops"
        /\ threads'["lock"].out.total = meta.total
        /\ \A t \in Slots : t # "lock" => threads'[t] = threads[t]
        /\ UNCHANGED <<queue, meta>>
    BY <1>0, <1>10, ReadFieldStarts
  <2>2. meta.total \in Nat
    BY <1>0, <2>1, HeadIsTyped DEF MetaIsReal
  <2>3. LoopsNeedMeta'
    BY <1>a, <2>1 DEF LoopsNeedMeta
  <2> QED
    BY <1>b, <1>c, <2>1, <2>2, <2>3
<1>11. CASE ReadTitle
  <2>1. /\ meta # NoMeta /\ threads'["rename"].out = meta
        /\ \A t \in Slots : t # "rename" => threads'[t] = threads[t]
        /\ UNCHANGED <<queue, meta>>
    BY <1>0, <1>11, ReadTitleStarts
  <2>2. meta.total \in Nat
    BY <2>1 DEF MetaIsReal
  <2>3. LoopsNeedMeta'
    BY <1>a, <2>1 DEF LoopsNeedMeta
  <2> QED
    BY <1>b, <1>c, <2>1, <2>2, <2>3
<1>12. CASE FailWrite
  <2>1. /\ threads'["lock"] = NoThread /\ queue # <<>> /\ queue' = Tail(queue)
        /\ \A t \in Slots : t # "lock" => threads'[t] = threads[t]
        /\ UNCHANGED meta
    BY <1>0, <1>12, FailWriteEnds
  <2>2. LoopsNeedMeta'
    BY <1>0, <1>a, <2>1, RemovingTheFirst, RemovingKeepsNeed
  <2> QED
    BY <1>a, <1>b, <1>c, <2>1, <2>2
<1>13. ASSUME NEW i \in DOMAIN queue, GiveUp(i)
       PROVE  MetaIsReal'
  <2>1. i \in 1..Len(queue)
    BY <1>0 DEF Shape
  <2> QED
    BY <1>0, <1>13, <1>a, <1>d, <2>1, GiveUpInMemory, RemovingKeepsNeed DEF GiveUp
<1>14. CASE Crash
  <2>1. queue' = <<>> /\ UNCHANGED meta /\ \A s \in Slots : threads'[s] = NoThread
    BY <1>14 DEF Crash
  <2>2. LoopsNeedMeta'
    BY <2>1 DEF LoopsNeedMeta
  <2> QED
    BY <1>a, <1>c, <2>1, <2>2
<1>15. CASE Resume
  BY <1>15 DEF Resume, MetaIsReal
<1>16. CASE UNCHANGED vars
  BY <1>16 DEF MetaIsReal, vars
<1>17. Next \/ UNCHANGED vars
  OBVIOUS
<1> QED
  BY <1>1, <1>2, <1>3, <1>4, <1>5, <1>6, <1>7, <1>8, <1>9, <1>10, <1>11, <1>12, <1>13, <1>14,
     <1>15, <1>16, <1>17 DEF Next

(* A save that leaves takes no loops with it ...                              *)
LEMMA RemovingASave ==
  ASSUME Shape, NEW k, Removes(k), queue[k].kind = "save", UNCHANGED loops
  PROVE  /\ LastLoopsWait => LastLoopsWait'
         /\ OnlySaves' => OnlySaves
<1>1. Len(queue) \in Nat /\ k \in 1..Len(queue) /\ Len(queue') = Len(queue) - 1
      /\ \A j \in 1..Len(queue') : queue'[j] = queue[IF j < k THEN j ELSE j + 1]
  <2>1. Len(queue) \in Nat
    BY DEF Shape
  <2> QED
    BY <2>1 DEF Removes
<1> DEFINE old(j) == IF j < k THEN j ELSE j + 1
           new(j) == IF j < k THEN j ELSE j - 1
<1>2. \A j \in 1..Len(queue) : j # k => new(j) \in 1..Len(queue') /\ queue'[new(j)] = queue[j]
  <2> SUFFICES ASSUME NEW j \in 1..Len(queue), j # k
               PROVE  new(j) \in 1..Len(queue') /\ queue'[new(j)] = queue[j]
    OBVIOUS
  <2>1. new(j) \in 1..Len(queue') /\ old(new(j)) = j
    BY <1>1
  <2> QED
    BY <1>1, <2>1
<1>3. ASSUME LastLoopsWait, NEW i \in 1..Len(queue'), queue'[i].kind = "loops",
             \A j \in (i + 1)..Len(queue') : queue'[j].kind = "save"
      PROVE  queue'[i].loops = loops
  <2>1. old(i) \in 1..Len(queue) /\ queue'[i] = queue[old(i)]
    BY <1>1
  <2>2. ASSUME NEW j \in (old(i) + 1)..Len(queue)
        PROVE  queue[j].kind = "save"
    <3>1. CASE j = k
      BY <3>1
    <3>2. CASE j # k
      <4>1. j \in 1..Len(queue) /\ new(j) \in (i + 1)..Len(queue')
        BY <1>1, <2>1, <2>2, <3>2
      <4> QED
        BY <1>2, <1>3, <3>2, <4>1
    <3> QED
      BY <3>1, <3>2
  <2> QED
    BY <1>3, <2>1, <2>2 DEF LastLoopsWait
<1>4. ASSUME OnlySaves', NEW j \in 1..Len(queue)
      PROVE  queue[j].kind = "save"
  <2>1. CASE j = k
    BY <2>1
  <2>2. CASE j # k
    BY <1>2, <1>4, <2>2 DEF OnlySaves
  <2> QED
    BY <2>1, <2>2
<1> QED
  BY <1>3, <1>4 DEF LastLoopsWait, OnlySaves

(* ... and neither does one that comes.                                       *)
LEMMA AddingASave ==
  ASSUME Shape, NEW job, Adds(job), job.kind = "save", UNCHANGED loops
  PROVE  /\ LastLoopsWait => LastLoopsWait'
         /\ OnlySaves' => OnlySaves
<1>1. Len(queue) \in Nat /\ Len(queue') = Len(queue) + 1
      /\ (\A j \in 1..Len(queue) : queue'[j] = queue[j]) /\ queue'[Len(queue) + 1] = job
  BY DEF Adds, Shape
<1>2. ASSUME LastLoopsWait, NEW i \in 1..Len(queue'), queue'[i].kind = "loops",
             \A j \in (i + 1)..Len(queue') : queue'[j].kind = "save"
      PROVE  queue'[i].loops = loops
  <2>1. i \in 1..Len(queue)
    BY <1>1, <1>2
  <2>2. \A j \in (i + 1)..Len(queue) : queue[j].kind = "save"
    BY <1>1, <1>2, <2>1
  <2> QED
    BY <1>1, <1>2, <2>1, <2>2 DEF LastLoopsWait
<1> QED
  BY <1>1, <1>2 DEF LastLoopsWait, OnlySaves

(* The first job was the last to wait if only saves are left.                 *)
LEMMA RemovingTheFirstLoops ==
  ASSUME Shape, Removes(1), UNCHANGED loops, LastLoopsWait
  PROVE  /\ LastLoopsWait'
         /\ OnlySaves' /\ queue[1].kind = "loops" => queue[1].loops = loops
<1>1. Len(queue) \in Nat /\ Len(queue') = Len(queue) - 1 /\ 1 \in 1..Len(queue)
      /\ \A j \in 1..Len(queue') : queue'[j] = queue[j + 1]
  <2>1. Len(queue) \in Nat
    BY DEF Shape
  <2> QED
    BY <2>1 DEF Removes
<1>2. ASSUME NEW i \in 1..Len(queue'), queue'[i].kind = "loops",
             \A j \in (i + 1)..Len(queue') : queue'[j].kind = "save"
      PROVE  queue'[i].loops = loops
  <2>1. i + 1 \in 1..Len(queue) /\ queue'[i] = queue[i + 1]
    BY <1>1
  <2>2. ASSUME NEW j \in (i + 1 + 1)..Len(queue)
        PROVE  queue[j].kind = "save"
    <3>1. j - 1 \in (i + 1)..Len(queue') /\ j - 1 \in 1..Len(queue') /\ (j - 1) + 1 = j
      BY <1>1, <2>2
    <3>2. queue'[j - 1] = queue[j]
      BY <1>1, <3>1
    <3> QED
      BY <1>2, <3>1, <3>2
  <2> QED
    BY <1>2, <2>1, <2>2 DEF LastLoopsWait
<1>3. ASSUME OnlySaves', queue[1].kind = "loops"
      PROVE  queue[1].loops = loops
  <2>1. ASSUME NEW j \in (1 + 1)..Len(queue)
        PROVE  queue[j].kind = "save"
    <3>1. j - 1 \in 1..Len(queue') /\ (j - 1) + 1 = j
      BY <1>1, <2>1
    <3>2. queue'[j - 1] = queue[j]
      BY <1>1, <3>1
    <3> QED
      BY <1>3, <3>1, <3>2 DEF OnlySaves
  <2> QED
    BY <1>1, <1>3, <2>1 DEF LastLoopsWait
<1> QED
  BY <1>2, <1>3 DEF LastLoopsWait

(* A step in memory that changes neither loops nor the jobs that wait for     *)
(* them.                                                                      *)
LEMMA MemoryKeepsLoops ==
  ASSUME LoopsArePending, MemoryStep, UNCHANGED loops,
         LastLoopsWait => LastLoopsWait', OnlySaves' => OnlySaves
  PROVE  LoopsArePending'
<1>1. /\ up /\ UNCHANGED meta /\ threads'["lock"] = threads["lock"] /\ (raced => raced')
  BY DEF MemoryStep
<1> QED
  BY <1>1 DEF LoopsArePending

(* The last change of the loops is never forgotten.                           *)
LEMMA LoopsStayPending ==
  ASSUME TypeOK, TypeOK', ThreadsAreWhatTheyAre, MetaIsReal, LoopsArePending, [Next]_vars
  PROVE  LoopsArePending'
<1>0. Shape /\ Shape' /\ (threads["lock"] # NoThread => queue # <<>>)
  BY DEF TypeOK
<1>a. "lock" \in Slots /\ "rename" \in Slots /\ NoThread.pc = "none"
  BY DEF Slots, NoThread
<1>b. ASSUME UNCHANGED queue
      PROVE  (OnlySaves' => OnlySaves) /\ (UNCHANGED loops => (LastLoopsWait => LastLoopsWait'))
  BY <1>b DEF OnlySaves, LastLoopsWait
<1>1. CASE AddMessage
  BY <1>0, <1>1, <1>b, AddMessageInMemory, MemoryKeepsLoops DEF AddMessage
<1>2. ASSUME NEW i \in DOMAIN conv, RewriteMessage(i)
      PROVE  LoopsArePending'
  BY <1>0, <1>2, <1>b, RewriteMessageInMemory, MemoryKeepsLoops
<1>3. CASE Save
  <2>1. MemoryStep /\ Adds(SaveJob(conv)) /\ UNCHANGED loops /\ SaveJob(conv).kind = "save"
    BY <1>3, SaveInMemory, <1>0 DEF Save, SaveJob
  <2>2. (LastLoopsWait => LastLoopsWait') /\ (OnlySaves' => OnlySaves)
    BY <1>0, <2>1, AddingASave
  <2> QED
    BY <2>1, <2>2, MemoryKeepsLoops
<1>4. ASSUME NEW k \in 0..(Len(conv) - 1), Rewind(k)
      PROVE  LoopsArePending'
  <2>1. MemoryStep /\ Adds(SaveJob(conv')) /\ UNCHANGED loops /\ SaveJob(conv').kind = "save"
    BY <1>4, RewindInMemory, <1>0 DEF Rewind, SaveJob
  <2>2. (LastLoopsWait => LastLoopsWait') /\ (OnlySaves' => OnlySaves)
    BY <1>0, <2>1, AddingASave
  <2> QED
    BY <2>1, <2>2, MemoryKeepsLoops
<1>5. CASE ChangeLoops
  <2>1. UNCHANGED <<meta, threads>> /\ up
        /\ raced' = (raced \/ (meta = NoMeta /\ threads["lock"].pc = "replace"))
    BY <1>5 DEF ChangeLoops
  <2>2. CASE meta = NoMeta
    <3>1. UNCHANGED queue
      BY <1>5, <2>2 DEF ChangeLoops
    <3>2. LastLoopsWait'
      BY <2>2, <3>1 DEF LastLoopsWait, MetaIsReal
    <3> QED
      BY <2>1, <2>2, <3>2 DEF LoopsArePending
  <2>3. CASE meta # NoMeta
    <3>1. Adds(LoopsJob(loops'))
      BY <1>0, <1>5, <2>3, ChangeLoopsInMemory
    <3>2. Len(queue) \in Nat /\ Len(queue') = Len(queue) + 1
          /\ queue'[Len(queue) + 1].kind = "loops" /\ queue'[Len(queue) + 1].loops = loops'
      BY <1>0, <3>1 DEF Adds, LoopsJob, Shape
    <3>3. ~OnlySaves'
      BY <3>2 DEF OnlySaves
    <3>4. LastLoopsWait'
      <4> SUFFICES ASSUME NEW i \in 1..Len(queue'), queue'[i].kind = "loops",
                          \A j \in (i + 1)..Len(queue') : queue'[j].kind = "save"
                   PROVE  queue'[i].loops = loops'
        BY DEF LastLoopsWait
      <4>1. i = Len(queue) + 1
        BY <3>2
      <4> QED
        BY <3>2, <4>1
    <3> QED
      BY <3>3, <3>4 DEF LoopsArePending
  <2> QED
    BY <2>2, <2>3
<1>6. CASE ReadLog
  <2> DEFINE msgs == Head(queue).msgs
  <2>1. /\ queue # <<>> /\ UNCHANGED <<up, meta, loops, raced>> /\ Holds("save")
        /\ queue[1].kind = "save"
    BY <1>0, <1>6, HeadIsTyped DEF ReadLog, Holds
  <2>2. CASE UpToDate(msgs) /\ Saved(msgs) /\ UNCHANGED threads
    <3>1. (LastLoopsWait => LastLoopsWait') /\ (OnlySaves' => OnlySaves)
      BY <1>0, <2>1, <2>2, RemovingTheFirst, RemovingASave DEF Saved
    <3> QED
      BY <2>1, <2>2, <3>1 DEF LoopsArePending
  <2>3. CASE /\ ~UpToDate(msgs) /\ UNCHANGED <<queue, kept, owed>>
             /\ Start("lock", Plan(msgs).pc, Plan(msgs).lines, msgs, NoMeta)
    <3>1. threads'["lock"].pc \in {"append", "overwrite"}
      <4> HIDE DEF msgs
      <4> QED
        BY <1>0, <2>1, <2>3, ReadLogStarts DEF msgs
    <3> QED
      BY <1>b, <2>1, <2>3, <3>1 DEF LoopsArePending
  <2> QED
    BY <1>6, <2>2, <2>3 DEF ReadLog
<1>7. ASSUME NEW s \in Slots, WriteLog(s)
      PROVE  LoopsArePending'
  <2>1. threads'["lock"].pc = "dump" /\ UNCHANGED <<up, queue, meta, loops, raced>>
    BY <1>0, <1>7, WriteLogStarts
  <2> QED
    BY <1>b, <2>1 DEF LoopsArePending
<1>8. ASSUME NEW s \in Slots, DumpMeta(s)
      PROVE  LoopsArePending'
  <2>1. threads'["lock"].out.loops = loops /\ UNCHANGED <<up, queue, meta, loops, raced>>
    BY <1>0, <1>8, DumpMetaStarts
  <2> QED
    BY <1>b, <2>1 DEF LoopsArePending
<1>9. ASSUME NEW s \in Slots, ReplaceMeta(s)
      PROVE  LoopsArePending'
  <2>1. /\ threads[s].pc = "replace" /\ meta' = threads[s].out /\ threads'[s] = NoThread
        /\ \A t \in Slots : t # s => threads'[t] = threads[t]
        /\ UNCHANGED <<up, loops>>
    BY <1>0, <1>9, ReplaceMetaEnds
  <2>2. CASE s = "rename" /\ UNCHANGED queue /\ raced' = (raced \/ meta # meta')
    BY <1>a, <1>b, <2>1, <2>2 DEF LoopsArePending
  <2>3. CASE s = "lock" /\ queue # <<>> /\ queue' = Tail(queue) /\ UNCHANGED raced
    <3>1. Removes(1) /\ queue[1].kind \in {"save", "loops"}
      BY <1>0, <2>3, RemovingTheFirst, HeadIsTyped
    <3>2. threads'["lock"].pc = "none"
      BY <1>a, <2>1, <2>3
    <3>3. CASE queue[1].kind = "save"
      <4>1. (LastLoopsWait => LastLoopsWait') /\ (OnlySaves' => OnlySaves)
        BY <1>0, <2>1, <3>1, <3>3, RemovingASave
      <4> QED
        BY <2>1, <2>3, <3>2, <4>1 DEF LoopsArePending
    <3>4. CASE queue[1].kind = "loops"
      <4>1. LastLoopsWait => LastLoopsWait' /\ (OnlySaves' => queue[1].loops = loops)
        BY <1>0, <2>1, <3>1, <3>4, RemovingTheFirstLoops
      <4>2. meta'.loops = queue[1].loops
        BY <2>1, <2>3, <3>4 DEF ThreadsAreWhatTheyAre
      <4> QED
        BY <2>1, <2>3, <3>2, <4>1, <4>2 DEF LoopsArePending
    <3> QED
      BY <3>1, <3>3, <3>4
  <2> QED
    BY <1>0, <1>9, <2>2, <2>3, ReplaceMetaEnds DEF Saved
<1>10. CASE ReadField
  <2>1. /\ queue # <<>> /\ queue[1].kind = "loops" /\ UNCHANGED <<up, queue, meta, loops, raced>>
    BY <1>0, <1>10, ReadFieldStarts
  <2>2. ~OnlySaves'
    BY <1>0, <2>1, HeadIsTyped DEF OnlySaves
  <2> QED
    BY <1>b, <2>1, <2>2 DEF LoopsArePending
<1>11. CASE ReadTitle
  <2>1. threads'["lock"] = threads["lock"] /\ UNCHANGED <<up, queue, meta, loops, raced>>
    BY <1>0, <1>a, <1>11, ReadTitleStarts
  <2> QED
    BY <1>b, <2>1 DEF LoopsArePending
<1>12. CASE FailWrite
  BY <1>0, <1>12, FailWriteEnds DEF LoopsArePending
<1>13. ASSUME NEW i \in DOMAIN queue, GiveUp(i)
       PROVE  LoopsArePending'
  <2>1. i \in 1..Len(queue) /\ queue[i].kind \in {"save", "loops"}
    <3>1. i \in 1..Len(queue)
      BY <1>0 DEF Shape
    <3>2. queue[i] \in Jobs
      BY <1>0, <3>1 DEF Shape
    <3> QED
      BY <3>1, <3>2 DEF Jobs
  <2>2. MemoryStep /\ Removes(i) /\ UNCHANGED loops
        /\ raced' = (raced \/ queue[i].kind = "loops")
    BY <1>0, <1>13, <2>1, GiveUpInMemory DEF GiveUp
  <2>3. CASE queue[i].kind = "save"
    <3>1. (LastLoopsWait => LastLoopsWait') /\ (OnlySaves' => OnlySaves)
      BY <1>0, <2>2, <2>3, RemovingASave
    <3> QED
      BY <2>2, <3>1, MemoryKeepsLoops
  <2>4. CASE queue[i].kind = "loops"
    BY <2>2, <2>4 DEF LoopsArePending
  <2> QED
    BY <2>1, <2>3, <2>4
<1>14. CASE Crash
  BY <1>14 DEF Crash, LoopsArePending
<1>15. CASE Resume
  <2>1. queue' = <<>> /\ threads'["lock"] = NoThread /\ loops' = meta.loops /\ UNCHANGED meta
    BY <1>a, <1>15 DEF Resume, ThreadsAreWhatTheyAre
  <2>2. LastLoopsWait'
    BY <2>1 DEF LastLoopsWait
  <2> QED
    BY <1>a, <2>1, <2>2 DEF LoopsArePending
<1>16. CASE UNCHANGED vars
  BY <1>16, <1>b DEF LoopsArePending, vars
<1>17. Next \/ UNCHANGED vars
  OBVIOUS
<1> QED
  BY <1>1, <1>2, <1>3, <1>4, <1>5, <1>6, <1>7, <1>8, <1>9, <1>10, <1>11, <1>12, <1>13, <1>14,
     <1>15, <1>16, <1>17 DEF Next

-----------------------------------------------------------------------------
(* The steps.                                                                 *)

(* Steps that leave the conversation and only remove the first job go on.     *)
LEMMA SavingGoesOn ==
  ASSUME Shape, Shape', UNCHANGED <<conv, given>>,
         UNCHANGED queue \/ (queue # <<>> /\ queue' = Tail(queue))
  PROVE  VersionsGoOn
<1>1. CASE UNCHANGED queue
  <2>1. ConvGoesOn
    BY DEF ConvGoesOn, Shape
  <2> QED
    BY <1>1, <2>1, WaitingKeepsVersions
<1>2. CASE queue # <<>> /\ queue' = Tail(queue)
  BY <1>2, RemovingTheFirst, RemovingKeepsVersions
<1> QED
  BY <1>1, <1>2

(* Steps in memory go on, too; the others are those of the threads, a crash   *)
(* and what comes after it.                                                   *)
DiskStep ==
  \/ ReadLog \/ ReadField \/ ReadTitle \/ FailWrite
  \/ \E s \in Slots : WriteLog(s) \/ DumpMeta(s) \/ ReplaceMeta(s)

LEMMA StepsAreOfAKind ==
  ASSUME TypeOK, TypeOK', ThreadsAreWhatTheyAre, Next
  PROVE  \/ MemoryStep /\ VersionsGoOn
         \/ DiskStep /\ VersionsGoOn /\ UNCHANGED <<up, conv, given>> /\ up
         \/ Crash
         \/ Resume
<1>0. Shape /\ Shape'
  BY DEF TypeOK
<1>a. "lock" \in Slots /\ \A s \in Slots : ~up => threads[s] = NoThread
  BY DEF ThreadsAreWhatTheyAre, Slots
<1>1. CASE AddMessage
  BY <1>0, <1>1, AddMessageInMemory
<1>2. ASSUME NEW i \in DOMAIN conv, RewriteMessage(i)
      PROVE  MemoryStep /\ VersionsGoOn
  BY <1>0, <1>2, RewriteMessageInMemory
<1>3. CASE Save
  BY <1>0, <1>3, SaveInMemory
<1>4. ASSUME NEW k \in 0..(Len(conv) - 1), Rewind(k)
      PROVE  MemoryStep /\ VersionsGoOn
  BY <1>0, <1>4, RewindInMemory
<1>5. CASE ChangeLoops
  BY <1>0, <1>5, ChangeLoopsInMemory
<1>6. ASSUME NEW i \in DOMAIN queue, GiveUp(i)
      PROVE  MemoryStep /\ VersionsGoOn
  <2>1. i \in 1..Len(queue)
    BY <1>0 DEF Shape
  <2> QED
    BY <1>0, <1>6, <2>1, GiveUpInMemory
<1>7. ASSUME DiskStep, UNCHANGED <<up, conv, given>>, up,
             UNCHANGED queue \/ (queue # <<>> /\ queue' = Tail(queue))
      PROVE  DiskStep /\ VersionsGoOn /\ UNCHANGED <<up, conv, given>> /\ up
  BY <1>0, <1>7, SavingGoesOn
<1>b. \A kind : Holds(kind) => up /\ queue # <<>>
  BY DEF Holds, ThreadsAreWhatTheyAre
<1>8. CASE ReadLog
  <2>1. Holds("save") /\ UNCHANGED <<up, conv, given>>
        /\ (UNCHANGED queue \/ queue' = Tail(queue))
    BY <1>8 DEF ReadLog, Saved
  <2> QED
    BY <1>b, <1>7, <1>8, <2>1 DEF DiskStep
<1>9. CASE ReadField
  BY <1>b, <1>7, <1>9 DEF DiskStep, ReadField
<1>10. CASE ReadTitle
  BY <1>7, <1>10 DEF DiskStep, ReadTitle
<1>11. CASE FailWrite
  <2>1. threads["lock"].pc \in {"append", "overwrite", "replace"} /\ queue # <<>>
        /\ queue' = Tail(queue) /\ UNCHANGED <<up, conv, given>>
    BY <1>0, <1>11, FailWriteEnds
  <2>2. up
    BY <1>a, <2>1 DEF NoThread
  <2> QED
    BY <1>7, <1>11, <2>1, <2>2 DEF DiskStep
<1>12. ASSUME NEW s \in Slots, WriteLog(s) \/ DumpMeta(s) \/ ReplaceMeta(s)
       PROVE  DiskStep /\ VersionsGoOn /\ UNCHANGED <<up, conv, given>> /\ up
  <2>1. threads[s].pc # "none" /\ UNCHANGED <<up, conv, given>>
    BY <1>12 DEF WriteLog, DumpMeta, ReplaceMeta
  <2>2. up
    BY <1>a, <2>1 DEF NoThread
  <2>3. UNCHANGED queue \/ (queue # <<>> /\ queue' = Tail(queue))
    <3>1. CASE WriteLog(s) \/ DumpMeta(s)
      BY <3>1 DEF WriteLog, DumpMeta
    <3>2. CASE ReplaceMeta(s)
      BY <1>0, <3>2, ReplaceMetaEnds DEF Saved
    <3> QED
      BY <1>12, <3>1, <3>2
  <2>4. DiskStep
    BY <1>12 DEF DiskStep
  <2> QED
    BY <1>7, <2>1, <2>2, <2>3, <2>4
<1> QED
  BY <1>1, <1>2, <1>3, <1>4, <1>5, <1>6, <1>8, <1>9, <1>10, <1>11, <1>12 DEF Next

(* What is new in a conversation, and what is not.                            *)
IsNewPart(new, msgs, n) ==
  /\ new \in Seq(Messages) /\ Len(new) = Len(msgs) - n
  /\ \A p \in 1..Len(new) : new[p] = msgs[n + p]
  /\ Holding(new) \subseteq Holding(msgs)
  /\ Holding(msgs) \subseteq {msgs[p] : p \in 1..n} \cup Holding(new)

(* What follows the messages that are in the log is new.                      *)
LEMMA NewMessages ==
  ASSUME NEW msgs \in Seq(Messages), NEW n \in Nat, Len(msgs) > n,
         NEW new, new = SubSeq(msgs, n + 1, Len(msgs))
  PROVE  IsNewPart(new, msgs, n)
<1>1. /\ new \in Seq(Messages) /\ Len(new) = Len(msgs) - n /\ Len(msgs) \in Nat
      /\ \A p \in 1..Len(new) : new[p] = msgs[n + p]
  BY LenProperties
<1>2. \A p \in 1..Len(new) : n + p \in 1..Len(msgs)
  BY <1>1
<1>3. \A p \in 1..Len(msgs) : p \in 1..n \/ (p - n \in 1..Len(new) /\ new[p - n] = msgs[p])
  <2> SUFFICES ASSUME NEW p \in 1..Len(msgs), p \notin 1..n
               PROVE  p - n \in 1..Len(new) /\ new[p - n] = msgs[p]
    OBVIOUS
  <2>1. p - n \in 1..Len(new) /\ n + (p - n) = p
    BY <1>1
  <2>2. new[p - n] = msgs[n + (p - n)]
    BY <1>1, <2>1
  <2> QED
    BY <2>1, <2>2
<1>4. Holding(new) \subseteq Holding(msgs)
  BY <1>1, <1>2 DEF Holding
<1>5. ASSUME NEW x \in Holding(msgs)
      PROVE  x \in {msgs[p] : p \in 1..n} \cup Holding(new)
  <2>1. PICK p \in 1..Len(msgs) : x = msgs[p]
    BY <1>5 DEF Holding
  <2> QED
    BY <1>3, <2>1 DEF Holding
<1> QED
  BY <1>1, <1>4, <1>5 DEF IsNewPart

(* Messages have been given.                                                  *)
LEMMA MessagesStayGiven ==
  ASSUME TypeOK, TypeOK', ThreadsAreWhatTheyAre, MetaIsReal, MessagesWereGiven,
         Next
  PROVE  MessagesWereGiven'
<1>0. Shape /\ Shape' /\ given \in Nat /\ given' \in Nat
  BY DEF TypeOK, Shape
<1>a. /\ \A m \in Holding(file) : m <= given
      /\ \A s \in Slots : \A m \in Holding(threads[s].lines) : m <= given
      /\ meta.last <= given
      /\ \A s \in Slots : threads[s].out.last <= given
  BY DEF MessagesWereGiven
<1>b. Holding(<<>>) = {} /\ NoMeta.last <= given /\ NoThread.lines = <<>>
      /\ NoThread.out.last <= given /\ "lock" \in Slots
  BY <1>0 DEF Holding, NoMeta, NoThread, Slots, Torn
<1>c. ASSUME VersionsGoOn
      PROVE  \A i \in 1..Newest' : IsVersion(i)'
                => \A p \in 1..Len(Version(i)') : Version(i)'[p] <= given'
  BY <1>0, <1>c, VersionsHoldTheGiven
<1>d. ASSUME VersionsGoOn, UNCHANGED given, meta'.last <= given,
             \A m \in Holding(file') : m <= given,
             \A s \in Slots : \A m \in Holding(threads'[s].lines) : m <= given,
             \A s \in Slots : threads'[s].out.last <= given
      PROVE  MessagesWereGiven'
  BY <1>c, <1>d DEF MessagesWereGiven
<1>e. ASSUME queue # <<>>, queue[1].kind = "save"
      PROVE  \A p \in 1..Len(queue[1].msgs) : queue[1].msgs[p] <= given
  <2>1. 1 \in 1..Newest /\ IsVersion(1) /\ Version(1) = queue[1].msgs
    BY <1>0, <1>e, HeadIsTyped DEF Newest, Shape
  <2> QED
    BY <2>1 DEF MessagesWereGiven
<1>1. CASE MemoryStep /\ VersionsGoOn
  <2>1. given <= given'
    BY <1>1 DEF VersionsGoOn, ConvGoesOn
  <2>2. UNCHANGED <<file, meta>> /\ \A s \in Slots : threads'[s].lines = threads[s].lines
                                                     /\ threads'[s].out = threads[s].out
    BY <1>1 DEF MemoryStep
  <2>3. meta.last \in Int /\ \A s \in Slots : threads[s].out.last \in Int
    <3>1. meta \in Metas /\ \A s \in Slots : threads[s].out \in Metas
      BY <1>0, ThreadIsTyped DEF Shape
    <3> QED
      BY <3>1 DEF Metas, Messages, Torn
  <2>4. \A m \in Holding(file) : m \in Int
    <3>1. file \in Seq(Messages \cup {Torn})
      BY <1>0 DEF Shape
    <3>2. \A p \in 1..Len(file) : file[p] \in Messages \cup {Torn}
      BY <3>1, ElementOfSeq
    <3> QED
      BY <3>2 DEF Holding, Messages, Torn
  <2>5. \A s \in Slots : \A m \in Holding(threads[s].lines) : m \in Int
    <3> SUFFICES ASSUME NEW s \in Slots, NEW m \in Holding(threads[s].lines)
                 PROVE  m \in Int
      OBVIOUS
    <3>1. threads[s].lines \in Seq(Messages)
      BY <1>0, ThreadIsTyped
    <3>2. \A p \in 1..Len(threads[s].lines) : threads[s].lines[p] \in Messages
      BY <3>1, ElementOfSeq
    <3> QED
      BY <3>2 DEF Holding, Messages
  <2>6. meta'.last <= given'
    BY <1>0, <1>a, <2>1, <2>2, <2>3
  <2>7. \A s \in Slots : threads'[s].out.last <= given'
    BY <1>0, <1>a, <2>1, <2>2, <2>3
  <2>8. \A m \in Holding(file') : m <= given'
    BY <1>0, <1>a, <2>1, <2>2, <2>4
  <2>9. \A s \in Slots : \A m \in Holding(threads'[s].lines) : m <= given'
    BY <1>0, <1>a, <2>1, <2>2, <2>5
  <2> QED
    BY <1>c, <1>1, <2>6, <2>7, <2>8, <2>9 DEF MessagesWereGiven
<1>2. CASE DiskStep /\ VersionsGoOn /\ UNCHANGED <<up, conv, given>>
  <2>1. CASE ReadLog
    <3> DEFINE msgs == Head(queue).msgs
    <3>1. /\ queue # <<>> /\ UNCHANGED <<meta, file>> /\ Holds("save")
          /\ queue[1].kind = "save" /\ msgs = queue[1].msgs /\ msgs \in Seq(Messages)
      BY <1>0, <2>1, HeadIsTyped DEF ReadLog, Holds
    <3>2. CASE UNCHANGED threads
      BY <1>2, <1>a, <1>d, <3>1, <3>2
    <3>3. CASE /\ ~UpToDate(msgs) /\ UNCHANGED <<queue, kept, owed>>
               /\ Start("lock", Plan(msgs).pc, Plan(msgs).lines, msgs, NoMeta)
      <4> HIDE DEF msgs
      <4>1. /\ threads'["lock"].out = NoMeta
            /\ \A t \in Slots : t # "lock" => threads'[t] = threads[t]
            /\ \/ threads'["lock"].lines = msgs
               \/ threads'["lock"].lines = SubSeq(msgs, OldTotal + 1, Len(msgs))
                  /\ Len(msgs) > OldTotal
        BY <1>0, <3>1, <3>3, ReadLogStarts DEF msgs
      <4>2. Holding(threads'["lock"].lines) \subseteq Holding(msgs)
        <5>1. CASE threads'["lock"].lines = msgs
          BY <5>1
        <5>2. CASE threads'["lock"].lines = SubSeq(msgs, OldTotal + 1, Len(msgs))
                   /\ Len(msgs) > OldTotal
          <6>1. OldTotal \in Nat
            BY DEF OldTotal, MetaIsReal
          <6> DEFINE new == threads'["lock"].lines
          <6>2. new = SubSeq(msgs, OldTotal + 1, Len(msgs)) /\ Len(msgs) > OldTotal
            BY <5>2
          <6> HIDE DEF new
          <6>3. msgs \in Seq(Messages)
            BY <3>1
          <6>4. IsNewPart(new, msgs, OldTotal)
            BY <6>1, <6>2, <6>3, NewMessages
          <6> QED
            BY <6>4 DEF new, IsNewPart
        <5> QED
          BY <4>1, <5>1, <5>2
      <4>3. \A m \in Holding(threads'["lock"].lines) : m <= given
        BY <1>e, <3>1, <4>2 DEF Holding
      <4> QED
        BY <1>2, <1>a, <1>b, <1>d, <3>1, <4>1, <4>3
    <3> QED
      BY <2>1, <3>2, <3>3 DEF ReadLog
  <2>2. CASE ReadField
    <3>1. /\ threads'["lock"].lines = <<>> /\ threads'["lock"].out.last = meta.last
          /\ \A t \in Slots : t # "lock" => threads'[t] = threads[t]
          /\ UNCHANGED <<file, meta>>
      BY <1>0, <2>2, ReadFieldStarts
    <3> QED
      BY <1>2, <1>a, <1>b, <1>d, <3>1
  <2>3. CASE ReadTitle
    <3>1. /\ threads'["rename"].lines = <<>> /\ threads'["rename"].out = meta
          /\ \A t \in Slots : t # "rename" => threads'[t] = threads[t]
          /\ UNCHANGED <<file, meta>>
      BY <1>0, <2>3, ReadTitleStarts
    <3> QED
      BY <1>2, <1>a, <1>b, <1>d, <3>1
  <2>4. CASE FailWrite
    <3>1. /\ threads'["lock"] = NoThread /\ file' \in CutOff("lock")
          /\ \A t \in Slots : t # "lock" => threads'[t] = threads[t]
          /\ UNCHANGED meta
      BY <1>0, <2>4, FailWriteEnds
    <3>2. LogGrows(threads["lock"].lines)
      BY <1>0, <1>b, <3>1, CuttingOff
    <3>3. \A m \in Holding(file') : m <= given
      BY <1>0, <1>a, <1>b, <3>2 DEF LogGrows, Torn
    <3> QED
      BY <1>2, <1>a, <1>b, <1>d, <3>1, <3>3
  <2>5. ASSUME NEW s \in Slots, WriteLog(s)
        PROVE  MessagesWereGiven'
    <3>1. /\ file' = IF threads["lock"].pc = "append" THEN WithLines(threads["lock"].lines)
                     ELSE threads["lock"].lines
          /\ threads'["lock"].lines = <<>> /\ threads'["lock"].out = NoMeta
          /\ \A t \in Slots : t # "lock" => threads'[t] = threads[t]
          /\ UNCHANGED meta
      BY <1>0, <2>5, WriteLogStarts
    <3>2. /\ file \in Seq(Messages \cup {Torn})
          /\ threads["lock"].lines \in Seq(Messages \cup {Torn})
      BY <1>0, <1>b, ThreadIsTyped DEF Shape
    <3>3. Holding(file') \subseteq Holding(file) \cup Holding(threads["lock"].lines)
      BY <3>1, <3>2, LinesAreAppended
    <3> QED
      BY <1>2, <1>a, <1>b, <1>d, <3>1, <3>3
  <2>6. ASSUME NEW s \in Slots, DumpMeta(s)
        PROVE  MessagesWereGiven'
    <3>1. /\ threads["lock"].pc = "dump"
          /\ threads'["lock"].lines = <<>>
          /\ threads'["lock"].out.last = LastOf(threads["lock"].msgs)
          /\ \A t \in Slots : t # "lock" => threads'[t] = threads[t]
          /\ UNCHANGED <<file, meta>>
      BY <1>0, <2>6, DumpMetaStarts
    <3>2. queue # <<>> /\ queue[1].kind = "save" /\ threads["lock"].msgs = queue[1].msgs
          /\ threads["lock"].msgs \in Seq(Messages)
      BY <1>0, <1>b, <3>1, ThreadIsTyped DEF ThreadsAreWhatTheyAre
    <3>3. LastOf(threads["lock"].msgs) <= given
      <4>1. CASE threads["lock"].msgs = <<>>
        BY <1>0, <4>1 DEF LastOf, Torn
      <4>2. CASE threads["lock"].msgs # <<>>
        BY <1>e, <3>2, <4>2, LastIsAMessage
      <4> QED
        BY <4>1, <4>2
    <3> QED
      BY <1>2, <1>a, <1>b, <1>d, <3>1, <3>3
  <2>7. ASSUME NEW s \in Slots, ReplaceMeta(s)
        PROVE  MessagesWereGiven'
    <3>1. /\ meta' = threads[s].out /\ threads'[s] = NoThread
          /\ \A t \in Slots : t # s => threads'[t] = threads[t]
          /\ UNCHANGED file
      BY <1>0, <2>7, ReplaceMetaEnds
    <3> QED
      BY <1>2, <1>a, <1>b, <1>d, <3>1
  <2> QED
    BY <1>2, <2>1, <2>2, <2>3, <2>4, <2>5, <2>6, <2>7 DEF DiskStep
<1>3. CASE Crash
  <2>1. /\ file' \in CutOff("lock") /\ conv' = <<>> /\ queue' = <<>>
        /\ \A s \in Slots : threads'[s] = NoThread
        /\ UNCHANGED <<given, meta>>
    BY <1>3 DEF Crash
  <2>2. LogGrows(threads["lock"].lines)
    BY <1>0, <1>b, <2>1, CuttingOff
  <2>3. \A m \in Holding(file') : m <= given
    BY <1>0, <1>a, <1>b, <2>2 DEF LogGrows, Torn
  <2>4. Newest' = 1 /\ Version(1)' = <<>>
    BY <2>1 DEF Newest, Version
  <2> QED
    BY <1>a, <1>b, <2>1, <2>3, <2>4 DEF MessagesWereGiven
<1>4. CASE Resume
  <2>1. conv' = file /\ queue' = <<>> /\ UNCHANGED <<given, meta, file, threads>>
    BY <1>4 DEF Resume, ThreadsAreWhatTheyAre
  <2>2. Newest' = 1 /\ Version(1)' = file
    BY <2>1 DEF Newest, Version
  <2> QED
    BY <1>a, <2>1, <2>2 DEF MessagesWereGiven, Holding
<1> QED
  BY <1>1, <1>2, <1>3, <1>4, StepsAreOfAKind

(* A process that has just stopped or started has one version.                *)
LEMMA OneVersion ==
  ASSUME Crash \/ (Resume /\ ThreadsAreWhatTheyAre)
  PROVE  /\ Newest' = 1 /\ Version(1)' = conv' /\ IsVersion(1)'
         /\ queue' = <<>> /\ threads'["lock"] = NoThread
         /\ Crash => conv' = <<>>
         /\ Resume => conv' = file
<1>1. queue' = <<>> /\ threads'["lock"] = NoThread
  <2>1. CASE Crash
    BY <2>1 DEF Crash, Slots
  <2>2. CASE Resume /\ ThreadsAreWhatTheyAre
    BY <2>2 DEF Resume, ThreadsAreWhatTheyAre, Slots
  <2> QED
    BY <2>1, <2>2
<1>2. (Crash => conv' = <<>>) /\ (Resume => conv' = file)
  BY DEF Crash, Resume
<1> QED
  BY <1>1, <1>2 DEF Newest, Version, IsVersion

(* The versions branch in every step.                                         *)
LEMMA VersionsKeepBranching ==
  ASSUME TypeOK, TypeOK', ThreadsAreWhatTheyAre, MessagesWereGiven,
         VersionsBranch, Next
  PROVE  VersionsBranch'
<1>0. Shape /\ Shape'
  BY DEF TypeOK
<1>1. CASE VersionsGoOn
  BY <1>0, <1>1, BranchingIsKept
<1>2. CASE Crash \/ Resume
  <2>1. Newest' = 1 /\ Version(1)' = conv'
    BY <1>2, OneVersion
  <2>2. \A i \in 1..Newest' : Version(i)' = conv'
    BY <2>1
  <2> QED
    BY <2>2 DEF VersionsBranch
<1> QED
  BY <1>1, <1>2, StepsAreOfAKind

(* A conversation that agrees with the metadata has in the log what they count. *)
LEMMA BoundaryCovers ==
  ASSUME Shape, MetaIsReal, MetasCover, Whole, queue # <<>>, queue[1].kind = "save",
         BoundaryUnchanged(queue[1].msgs)
  PROVE  \A p \in 1..OldTotal : queue[1].msgs[p] \in Holding(file)
<1> DEFINE msgs == queue[1].msgs
<1>1. msgs \in Seq(Messages) /\ IsVersion(1) /\ Version(1) = msgs /\ 1 \in 1..Newest
  BY HeadIsTyped DEF Newest, Shape
<1>2. CASE OldTotal > 0
  <2>1. meta # NoMeta /\ OldTotal = meta.total /\ meta.total \in Nat
    BY <1>2 DEF OldTotal, MetaIsReal
  <2>2. OldTotal <= Len(msgs) /\ msgs[OldTotal] = meta.last
    BY <1>2 DEF BoundaryUnchanged
  <2>3. Has(Version(1), meta.total, meta.last)
    BY <1>1, <1>2, <2>1, <2>2 DEF Has
  <2>4. Covers(meta)
    BY DEF MetasCover, IsMeta, Shape
  <2>5. \A p \in 1..meta.total : Version(1)[p] \in Holding(file)
    BY <1>1, <2>3, <2>4 DEF Covers
  <2> QED
    BY <1>1, <2>1, <2>5
<1>3. CASE ~(OldTotal > 0)
  <2>1. OldTotal \in Nat
    BY DEF OldTotal, MetaIsReal
  <2> QED
    BY <1>3, <2>1
<1> QED
  BY <1>2, <1>3

(* A log that is up to date has it all.                                       *)
LEMMA UpToDateIsInTheLog ==
  ASSUME Shape, MetaIsReal, MetasCover, Whole, queue # <<>>, queue[1].kind = "save",
         UpToDate(queue[1].msgs)
  PROVE  Holding(queue[1].msgs) \subseteq Holding(file)
<1>1. Len(queue[1].msgs) = OldTotal /\ BoundaryUnchanged(queue[1].msgs)
  BY DEF UpToDate
<1>2. \A p \in 1..OldTotal : queue[1].msgs[p] \in Holding(file)
  BY <1>1, BoundaryCovers
<1> QED
  BY <1>1, <1>2 DEF Holding

(* A save writes all its messages.                                            *)
LEMMA SavesAreWritten ==
  ASSUME TypeOK, TypeOK', ThreadsAreWhatTheyAre, MetaIsReal, MetasCover,
         LogIsWritten, Next
  PROVE  LogIsWritten'
<1>0. Shape /\ Shape'
  BY DEF TypeOK
<1>a. "lock" \in Slots /\ NoThread.pc = "none"
  BY DEF Slots, NoThread
<1>b. ASSUME threads'["lock"].pc = "none"
      PROVE  LogIsWritten'
  BY <1>b DEF LogIsWritten, InLog
<1>c. ASSUME UNCHANGED file, threads'["lock"] = threads["lock"],
             threads["lock"].pc = "none" \/ queue'[1] = queue[1]
      PROVE  LogIsWritten'
  <2>1. CASE threads["lock"].pc = "none"
    BY <1>b, <1>c, <2>1
  <2>2. CASE queue'[1] = queue[1]
    BY <1>c, <2>2 DEF LogIsWritten, InLog, Whole
  <2> QED
    BY <1>c, <2>1, <2>2
<1>1. CASE MemoryStep /\ VersionsGoOn
  <2>1. /\ UNCHANGED file /\ threads'["lock"] = threads["lock"]
        /\ threads["lock"] # NoThread => queue'[1] = queue[1]
    BY <1>1 DEF MemoryStep
  <2> QED
    BY <1>a, <1>c, <2>1
<1>2. CASE ReadLog
  <2> DEFINE msgs == Head(queue).msgs
  <2>1. /\ queue # <<>> /\ UNCHANGED file /\ Holds("save") /\ threads["lock"] = NoThread
        /\ queue[1].kind = "save" /\ msgs = queue[1].msgs /\ msgs \in Seq(Messages)
    BY <1>0, <1>2, HeadIsTyped DEF ReadLog, Holds
  <2>2. CASE UNCHANGED threads
    BY <1>a, <1>b, <2>1, <2>2
  <2>3. CASE /\ ~UpToDate(msgs) /\ UNCHANGED <<queue, kept, owed>>
             /\ Start("lock", Plan(msgs).pc, Plan(msgs).lines, msgs, NoMeta)
    <3> HIDE DEF msgs
    <3> DEFINE new == threads'["lock"].lines
    <3>1. \/ threads'["lock"].pc = "overwrite" /\ new = msgs
          \/ /\ threads'["lock"].pc = "append" /\ new = SubSeq(msgs, OldTotal + 1, Len(msgs))
             /\ Len(msgs) > OldTotal /\ BoundaryUnchanged(msgs)
      BY <1>0, <2>1, <2>3, ReadLogStarts DEF msgs
    <3> HIDE DEF new
    <3>2. CASE threads'["lock"].pc = "overwrite" /\ new = msgs
      BY <2>1, <2>3, <3>2 DEF LogIsWritten, InLog, new
    <3>3. CASE /\ threads'["lock"].pc = "append" /\ new = SubSeq(msgs, OldTotal + 1, Len(msgs))
               /\ Len(msgs) > OldTotal /\ BoundaryUnchanged(msgs)
      <4>1. OldTotal \in Nat /\ msgs \in Seq(Messages) /\ Len(msgs) > OldTotal
            /\ new = SubSeq(msgs, OldTotal + 1, Len(msgs))
        BY <2>1, <3>3 DEF OldTotal, MetaIsReal
      <4>2. IsNewPart(new, msgs, OldTotal)
        BY <4>1, NewMessages
      <4>3. Whole => \A p \in 1..OldTotal : msgs[p] \in Holding(file)
        BY <1>0, <2>1, <3>3, BoundaryCovers
      <4>4. Whole => Holding(msgs) \subseteq Holding(file) \cup Holding(new)
        BY <4>2, <4>3 DEF IsNewPart
      <4>5. Whole' => Whole
        BY <2>1 DEF Whole
      <4> QED
        BY <2>1, <2>3, <3>3, <4>4, <4>5 DEF LogIsWritten, InLog, new
    <3> QED
      BY <3>1, <3>2, <3>3
  <2> QED
    BY <1>2, <2>2, <2>3 DEF ReadLog
<1>3. CASE ReadField
  <2>1. threads'["lock"].pc = "replace" /\ UNCHANGED queue /\ queue[1].kind = "loops"
    BY <1>0, <1>3, ReadFieldStarts
  <2> QED
    BY <2>1 DEF LogIsWritten, InLog
<1>4. CASE ReadTitle
  BY <1>0, <1>a, <1>c, <1>4, ReadTitleStarts
<1>5. CASE FailWrite
  BY <1>0, <1>a, <1>b, <1>5, FailWriteEnds
<1>6. ASSUME NEW s \in Slots, WriteLog(s)
      PROVE  LogIsWritten'
  <2>1. /\ threads["lock"].pc \in {"append", "overwrite"}
        /\ file' = IF threads["lock"].pc = "append" THEN WithLines(threads["lock"].lines)
                   ELSE threads["lock"].lines
        /\ threads'["lock"].pc = "dump" /\ UNCHANGED queue
    BY <1>0, <1>6, WriteLogStarts
  <2>2. CASE threads["lock"].pc = "overwrite"
    <3>1. file' = queue[1].msgs
      BY <2>1, <2>2 DEF LogIsWritten
    <3> QED
      BY <2>1, <3>1 DEF LogIsWritten, InLog
  <2>3. CASE threads["lock"].pc = "append"
    <3>1. /\ file \in Seq(Messages \cup {Torn})
          /\ threads["lock"].lines \in Seq(Messages \cup {Torn})
      BY <1>0, <1>a, ThreadIsTyped DEF Shape
    <3>2. file' = WithLines(threads["lock"].lines)
      BY <2>1, <2>3
    <3>3. /\ Holding(file) \subseteq Holding(file')
          /\ Whole => Holding(file') = Holding(file) \cup Holding(threads["lock"].lines)
      BY <3>1, <3>2, LinesAreAppended
    <3>4. Whole' => Whole
      BY <3>3 DEF Whole
    <3>5. Whole' => Holding(queue[1].msgs) \subseteq Holding(file')
      BY <2>3, <3>3, <3>4 DEF LogIsWritten
    <3> QED
      BY <2>1, <3>5 DEF LogIsWritten, InLog
  <2> QED
    BY <2>1, <2>2, <2>3
<1>7. ASSUME NEW s \in Slots, DumpMeta(s)
      PROVE  LogIsWritten'
  <2>1. /\ threads["lock"].pc = "dump" /\ threads'["lock"].pc = "replace"
        /\ threads'["lock"].out.total = Len(threads["lock"].msgs)
        /\ threads'["lock"].out.last = LastOf(threads["lock"].msgs)
        /\ UNCHANGED <<queue, file>>
    BY <1>0, <1>7, DumpMetaStarts
  <2>2. threads["lock"].msgs = queue[1].msgs
    BY <2>1 DEF ThreadsAreWhatTheyAre
  <2> QED
    BY <2>1, <2>2 DEF LogIsWritten, InLog, Whole
<1>8. ASSUME NEW s \in Slots, ReplaceMeta(s)
      PROVE  LogIsWritten'
  <2>1. /\ threads'[s] = NoThread /\ UNCHANGED file
        /\ \A t \in Slots : t # s => threads'[t] = threads[t]
        /\ \/ s = "rename" /\ UNCHANGED queue
           \/ s = "lock"
    BY <1>0, <1>8, ReplaceMetaEnds
  <2> QED
    BY <1>a, <1>b, <1>c, <2>1
<1>9. CASE Crash \/ Resume
  BY <1>a, <1>b, <1>9, OneVersion
<1> QED
  BY <1>1, <1>2, <1>3, <1>4, <1>5, <1>6, <1>7, <1>8, <1>9, StepsAreOfAKind DEF DiskStep

-----------------------------------------------------------------------------
(* What the metadata promise.                                                 *)

(* It is the length and the last message that count.                          *)
LEMMA CoveringIsAboutTheBoundary ==
  ASSUME NEW md, NEW other, md.total = other.total, md.last = other.last, Covers(other)
  PROVE  Covers(md)
BY DEF Covers

(* Metadata that a save is about to write cover what it wrote.                *)
LEMMA DumpedMetaCover ==
  ASSUME Shape, VersionsBranch, queue # <<>>, queue[1].kind = "save", NEW md,
         md.total = Len(queue[1].msgs), md.last = LastOf(queue[1].msgs),
         Whole => Holding(queue[1].msgs) \subseteq Holding(file)
  PROVE  Covers(md)
<1> DEFINE msgs == queue[1].msgs
<1>1. msgs \in Seq(Messages) /\ IsVersion(1) /\ Version(1) = msgs /\ 1 \in 1..Newest
      /\ Newest \in Nat
  BY HeadIsTyped DEF Newest, Shape
<1> SUFFICES ASSUME NEW k \in 1..Newest, IsVersion(k), Has(Version(k), md.total, md.last)
             PROVE  /\ \A i \in 1..k : IsVersion(i) => Has(Version(i), md.total, md.last)
                    /\ Whole => \A p \in 1..md.total : Version(k)[p] \in Holding(file)
  BY DEF Covers
<1>2. CASE msgs = <<>>
  <2>1. md.total = 0
    BY <1>2
  <2> QED
    BY <2>1 DEF Has
<1>3. CASE msgs # <<>>
  <2>1. md.total \in 1..Len(msgs) /\ msgs[md.total] = md.last /\ md.last \in Messages
    BY <1>1, <1>3, LastIsAMessage
  <2>2. Has(Version(1), md.total, md.last) /\ 1 \in 1..k
    BY <1>1, <2>1 DEF Has
  <2>3. /\ \A r \in 1..md.total : Version(k)[r] = Version(1)[r]
        /\ \A j \in 1..k : IsVersion(j) => Has(Version(j), md.total, md.last)
    BY <1>1, <2>1, <2>2, VersionsHoldASave
  <2>4. Whole => \A p \in 1..md.total : Version(1)[p] \in Holding(file)
    BY <1>1 DEF Holding
  <2> QED
    BY <2>3, <2>4
<1> QED
  BY <1>2, <1>3

(* A new log covers what the old one did.                                     *)
LEMMA OverwritingCovers ==
  ASSUME Shape, Shape', VersionsBranch, UNCHANGED <<queue, conv>>, queue # <<>>,
         queue[1].kind = "save", file' = queue[1].msgs, NEW md \in Metas, Covers(md)
  PROVE  Covers(md)'
<1> DEFINE msgs == queue[1].msgs
<1>1. msgs \in Seq(Messages) /\ IsVersion(1) /\ Version(1) = msgs /\ 1 \in 1..Newest
      /\ Newest \in Nat
  BY HeadIsTyped DEF Newest, Shape
<1>2. Newest' = Newest /\ \A i \in 1..Newest : IsVersion(i)' = IsVersion(i)
                                                 /\ Version(i)' = Version(i)
  BY DEF Newest, IsVersion, Version
<1> SUFFICES ASSUME NEW k \in 1..Newest, IsVersion(k), Has(Version(k), md.total, md.last)
             PROVE  /\ \A i \in 1..k : IsVersion(i) => Has(Version(i), md.total, md.last)
                    /\ \A p \in 1..md.total : Version(k)[p] \in Holding(file')
  <2>1. 1..Newest' = 1..Newest /\ \A k \in 1..Newest : 1..k \subseteq 1..Newest
    BY <1>1, <1>2
  <2> QED
    BY <1>2, <2>1 DEF Covers, Has, Holding
<1>3. \A i \in 1..k : IsVersion(i) => Has(Version(i), md.total, md.last)
  BY DEF Covers
<1>4. Has(Version(1), md.total, md.last) /\ 1 \in 1..k
  BY <1>1, <1>3
<1>5. md.last \in Messages
  <2>1. md.total \in 1..Len(msgs) /\ msgs[md.total] = md.last
    BY <1>1, <1>4 DEF Has
  <2> QED
    BY <1>1, <2>1, ElementOfSeq
<1>6. \A r \in 1..md.total : Version(k)[r] = Version(1)[r]
  BY <1>1, <1>4, <1>5, VersionsHoldASave
<1>7. \A p \in 1..md.total : Version(1)[p] \in Holding(file')
  <2>1. md.total \in 1..Len(msgs) /\ Len(msgs) \in Nat
    BY <1>1, <1>4, LenProperties DEF Has
  <2>2. \A p \in 1..md.total : p \in 1..Len(msgs)
    BY <2>1
  <2> QED
    BY <1>1, <2>2 DEF Holding
<1> QED
  BY <1>3, <1>6, <1>7

(* The metadata cover what they count, whoever wrote them.                    *)
LEMMA MetasStayCovered ==
  ASSUME TypeOK, TypeOK', ThreadsAreWhatTheyAre, MetaIsReal, MessagesWereGiven,
         VersionsBranch, MetasCover, LogIsWritten, Next
  PROVE  MetasCover'
<1>0. Shape /\ Shape'
  BY DEF TypeOK
<1>a. "lock" \in Slots /\ NoThread.pc = "none"
  BY DEF Slots, NoThread
<1>b. \A md \in Metas : IsMeta(md) => Covers(md) /\ md.last <= given
  BY DEF MetasCover, IsMeta, MessagesWereGiven
<1>c. ASSUME VersionsGoOn, LogGoesOn, NEW md \in Metas, IsMeta(md)
      PROVE  Covers(md)'
  BY <1>0, <1>b, <1>c, CoveringIsKept
<1>d. ASSUME UNCHANGED file
      PROVE  LogGoesOn
  BY <1>d DEF LogGoesOn, Whole
<1> SUFFICES ASSUME NEW md \in Metas, IsMeta(md)'
             PROVE  Covers(md)'
  BY DEF MetasCover
<1>1. CASE MemoryStep /\ VersionsGoOn
  <2>1. IsMeta(md) /\ UNCHANGED file
    BY <1>1 DEF MemoryStep, IsMeta
  <2> QED
    BY <1>1, <1>c, <1>d, <2>1
<1>2. CASE ReadLog /\ VersionsGoOn
  <2> DEFINE msgs == Head(queue).msgs
  <2>1. queue # <<>> /\ UNCHANGED <<file, meta>> /\ Holds("save")
    BY <1>2 DEF ReadLog, Holds
  <2>2. CASE UNCHANGED threads
    BY <1>2, <1>c, <1>d, <2>1, <2>2 DEF IsMeta
  <2>3. CASE /\ ~UpToDate(msgs) /\ UNCHANGED <<queue, kept, owed>>
             /\ Start("lock", Plan(msgs).pc, Plan(msgs).lines, msgs, NoMeta)
    <3>1. /\ threads'["lock"].pc \in {"append", "overwrite"}
          /\ \A t \in Slots : t # "lock" => threads'[t] = threads[t]
      <4> HIDE DEF msgs
      <4> QED
        BY <1>0, <2>1, <2>3, ReadLogStarts DEF msgs
    <3>2. IsMeta(md)
      BY <2>1, <3>1 DEF IsMeta
    <3> QED
      BY <1>2, <1>c, <1>d, <2>1, <3>2
  <2> QED
    BY <1>2, <2>2, <2>3 DEF ReadLog
<1>3. CASE ReadField /\ VersionsGoOn
  <2>1. /\ threads'["lock"].out.total = meta.total
        /\ threads'["lock"].out.last = meta.last
        /\ \A t \in Slots : t # "lock" => threads'[t] = threads[t]
        /\ UNCHANGED <<file, meta>>
    BY <1>0, <1>3, ReadFieldStarts
  <2>2. IsMeta(md) \/ (md.total = meta.total /\ md.last = meta.last)
    BY <2>1 DEF IsMeta
  <2>3. CASE IsMeta(md)
    BY <1>3, <1>c, <1>d, <2>1, <2>3
  <2>4. CASE md.total = meta.total /\ md.last = meta.last
    <3>1. meta \in Metas /\ IsMeta(meta)
      BY <1>0 DEF IsMeta, Shape
    <3>2. Covers(md) /\ md.last <= given
      BY <1>b, <2>4, <3>1, CoveringIsAboutTheBoundary
    <3> QED
      BY <1>0, <1>3, <1>d, <2>1, <3>2, CoveringIsKept
  <2> QED
    BY <2>2, <2>3, <2>4
<1>4. CASE ReadTitle /\ VersionsGoOn
  <2>1. /\ threads'["rename"].out = meta
        /\ \A t \in Slots : t # "rename" => threads'[t] = threads[t]
        /\ UNCHANGED <<file, meta>>
    BY <1>0, <1>4, ReadTitleStarts
  <2>2. IsMeta(md)
    BY <2>1 DEF IsMeta
  <2> QED
    BY <1>4, <1>c, <1>d, <2>1, <2>2
<1>5. CASE FailWrite /\ VersionsGoOn
  <2>1. /\ threads'["lock"] = NoThread /\ file' \in CutOff("lock")
        /\ \A t \in Slots : t # "lock" => threads'[t] = threads[t]
        /\ UNCHANGED meta
    BY <1>0, <1>5, FailWriteEnds
  <2>2. LogGoesOn
    BY <1>0, <1>a, <2>1, CuttingOff, GrowingGoesOn
  <2>3. IsMeta(md)
    BY <1>a, <2>1 DEF IsMeta
  <2> QED
    BY <1>5, <1>c, <2>2, <2>3
<1>6. ASSUME NEW s \in Slots, WriteLog(s), VersionsGoOn
      PROVE  Covers(md)'
  <2>1. /\ threads["lock"].pc \in {"append", "overwrite"}
        /\ file' = IF threads["lock"].pc = "append" THEN WithLines(threads["lock"].lines)
                   ELSE threads["lock"].lines
        /\ threads'["lock"].pc = "dump"
        /\ \A t \in Slots : t # "lock" => threads'[t] = threads[t]
        /\ UNCHANGED <<queue, conv, meta>>
    BY <1>0, <1>6, WriteLogStarts
  <2>2. IsMeta(md)
    BY <2>1 DEF IsMeta
  <2>3. CASE threads["lock"].pc = "overwrite"
    <3>1. file' = queue[1].msgs /\ queue # <<>> /\ queue[1].kind = "save"
      BY <2>1, <2>3 DEF LogIsWritten, ThreadsAreWhatTheyAre
    <3> QED
      BY <1>0, <1>b, <2>1, <2>2, <3>1, OverwritingCovers
  <2>4. CASE threads["lock"].pc = "append"
    <3>1. /\ file \in Seq(Messages \cup {Torn})
          /\ threads["lock"].lines \in Seq(Messages \cup {Torn})
      BY <1>0, <1>a, ThreadIsTyped DEF Shape
    <3>2. file' = WithLines(threads["lock"].lines)
      BY <2>1, <2>4
    <3>3. Holding(file) \subseteq Holding(file')
      BY <3>1, <3>2, LinesAreAppended
    <3>4. LogGoesOn
      BY <3>3 DEF LogGoesOn, Whole
    <3> QED
      BY <1>6, <1>c, <2>2, <3>4
  <2> QED
    BY <2>1, <2>3, <2>4
<1>7. ASSUME NEW s \in Slots, DumpMeta(s), VersionsGoOn
      PROVE  Covers(md)'
  <2>1. /\ threads["lock"].pc = "dump"
        /\ threads'["lock"].out.total = Len(threads["lock"].msgs)
        /\ threads'["lock"].out.last = LastOf(threads["lock"].msgs)
        /\ \A t \in Slots : t # "lock" => threads'[t] = threads[t]
        /\ UNCHANGED <<file, meta, queue, given>>
    BY <1>0, <1>7, DumpMetaStarts
  <2>2. /\ threads["lock"].msgs = queue[1].msgs /\ queue # <<>> /\ queue[1].kind = "save"
        /\ Whole => Holding(queue[1].msgs) \subseteq Holding(file)
    BY <2>1 DEF ThreadsAreWhatTheyAre, LogIsWritten, InLog
  <2>3. IsMeta(md) \/ md = threads'["lock"].out
    BY <2>1 DEF IsMeta
  <2>4. CASE IsMeta(md)
    BY <1>7, <1>c, <1>d, <2>1, <2>4
  <2>5. CASE md = threads'["lock"].out
    <3>1. md.total = Len(queue[1].msgs) /\ md.last = LastOf(queue[1].msgs)
      BY <2>1, <2>2, <2>5
    <3>2. Covers(md)
      BY <1>0, <2>2, <3>1, DumpedMetaCover
    <3>3. md.last <= given
      <4>1. queue[1].msgs \in Seq(Messages) /\ IsVersion(1) /\ Version(1) = queue[1].msgs
            /\ 1 \in 1..Newest /\ given \in Nat
        BY <1>0, <2>2, HeadIsTyped DEF Newest, Shape
      <4>2. CASE queue[1].msgs = <<>>
        BY <3>1, <4>1, <4>2 DEF LastOf, Torn
      <4>3. CASE queue[1].msgs # <<>>
        BY <3>1, <4>1, <4>3, LastIsAMessage DEF MessagesWereGiven
      <4> QED
        BY <4>2, <4>3
    <3> QED
      BY <1>0, <1>7, <1>d, <2>1, <3>2, <3>3, CoveringIsKept
  <2> QED
    BY <2>3, <2>4, <2>5
<1>8. ASSUME NEW s \in Slots, ReplaceMeta(s), VersionsGoOn
      PROVE  Covers(md)'
  <2>1. /\ threads[s].pc = "replace" /\ meta' = threads[s].out
        /\ threads'[s] = NoThread /\ UNCHANGED file
        /\ \A t \in Slots : t # s => threads'[t] = threads[t]
    BY <1>0, <1>8, ReplaceMetaEnds
  <2>2. IsMeta(md)
    BY <1>a, <2>1 DEF IsMeta
  <2> QED
    BY <1>8, <1>c, <1>d, <2>1, <2>2
<1>9. CASE Crash \/ Resume
  <2>1. Newest' = 1 /\ Version(1)' = conv' /\ (Crash => conv' = <<>>)
        /\ (Resume => conv' = file /\ UNCHANGED file)
    BY <1>9, OneVersion DEF Resume
  <2> SUFFICES ASSUME NEW k \in 1..Newest', IsVersion(k)', Has(Version(k)', md.total, md.last)
               PROVE  /\ \A i \in 1..k : IsVersion(i)' => Has(Version(i)', md.total, md.last)
                      /\ Whole' => \A p \in 1..md.total : Version(k)'[p] \in Holding(file')
    BY DEF Covers, Has, Holding
  <2>2. k = 1 /\ \A i \in 1..k : i = 1
    BY <2>1
  <2>3. Resume
    BY <1>9, <2>1, <2>2 DEF Has
  <2>4. \A p \in 1..md.total : p \in 1..Len(file)
    <3>1. md.total \in 1..Len(file) /\ Len(file) \in Nat
      BY <1>0, <2>1, <2>2, <2>3 DEF Has, Shape
    <3> QED
      BY <3>1
  <2> QED
    BY <2>1, <2>2, <2>3, <2>4 DEF Holding
<1> QED
  BY <1>1, <1>2, <1>3, <1>4, <1>5, <1>6, <1>7, <1>8, <1>9, StepsAreOfAKind DEF DiskStep

(* What is owed when a save is over is in every version.                      *)
LEMMA SavedOwes ==
  ASSUME Shape, VersionsBranch, OwedIsThere, up, queue # <<>>, queue[1].kind = "save",
         Saved(queue[1].msgs)
  PROVE  /\ owed' \subseteq owed \cup Holding(queue[1].msgs)
         /\ \A i \in 1..Newest : IsVersion(i) => owed' \subseteq Holding(Version(i))
         /\ owed' \subseteq Holding(conv)
<1> DEFINE msgs == queue[1].msgs
<1>1. msgs \in Seq(Messages) /\ IsVersion(1) /\ Version(1) = msgs /\ 1 \in 1..Newest
      /\ Newest \in Nat /\ conv \in Seq(Messages)
  BY HeadIsTyped DEF Newest, Shape
<1>2. ToSet(msgs) = Holding(msgs) /\ ToSet(conv) = Holding(conv)
  BY <1>1 DEF ToSet, Holding
<1>3. owed' = owed \cup (Holding(msgs) \cap Holding(conv))
  BY <1>2 DEF Saved
<1>4. ASSUME NEW i \in 1..Newest, IsVersion(i)
      PROVE  owed' \subseteq Holding(Version(i))
  <2>1. owed \subseteq Holding(Version(i))
    BY <1>4 DEF OwedIsThere
  <2>2. 1 <= i
    BY <1>1
  <2>3. Holding(msgs) \cap Holding(conv) \subseteq Holding(Version(i))
    BY <1>1, <1>4, <2>2 DEF VersionsBranch
  <2> QED
    BY <1>3, <2>1, <2>3
<1>5. IsVersion(Newest) /\ Version(Newest) = conv /\ Newest \in 1..Newest
  BY <1>1 DEF IsVersion, Version, Newest, Shape
<1> QED
  BY <1>3, <1>4, <1>5

(* What is owed is not lost.                                                  *)
LEMMA OwedStaysThere ==
  ASSUME TypeOK, TypeOK', ThreadsAreWhatTheyAre, MetaIsReal, VersionsBranch,
         MetasCover, LogIsWritten, OwedIsThere, Next
  PROVE  OwedIsThere'
<1>0. Shape /\ Shape'
  BY DEF TypeOK
<1>a. "lock" \in Slots
  BY DEF Slots
<1>b. IsVersion(Newest) /\ Version(Newest) = conv /\ Newest \in 1..Newest
  BY <1>0 DEF IsVersion, Version, Newest, Shape
<1>c. ASSUME VersionsGoOn, owed' \subseteq Holding(conv'),
             \A i \in 1..Newest : IsVersion(i) => owed' \subseteq Holding(Version(i)),
             Whole' => owed' \subseteq Holding(file')
      PROVE  OwedIsThere'
  BY <1>0, <1>c, VersionsHoldTheOwed DEF OwedIsThere
<1>d. ASSUME VersionsGoOn, LogGoesOn, owed' = owed, up, UNCHANGED conv
      PROVE  OwedIsThere'
  <2>1. owed \subseteq Holding(conv)
        /\ \A i \in 1..Newest : IsVersion(i) => owed \subseteq Holding(Version(i))
    BY <1>b, <1>d DEF OwedIsThere
  <2>2. Whole' => owed \subseteq Holding(file')
    BY <1>d DEF OwedIsThere, LogGoesOn
  <2> QED
    BY <1>c, <1>d, <2>1, <2>2
<1>e. ASSUME UNCHANGED file
      PROVE  LogGoesOn
  BY <1>e DEF LogGoesOn, Whole
<1>f. ASSUME VersionsGoOn, UNCHANGED <<conv, file>>, up, queue # <<>>, queue[1].kind = "save",
             Saved(queue[1].msgs), Whole => Holding(queue[1].msgs) \subseteq Holding(file)
      PROVE  OwedIsThere'
  <2>1. /\ owed' \subseteq owed \cup Holding(queue[1].msgs)
        /\ \A i \in 1..Newest : IsVersion(i) => owed' \subseteq Holding(Version(i))
        /\ owed' \subseteq Holding(conv)
    BY <1>0, <1>f, SavedOwes
  <2>2. Whole' => owed' \subseteq Holding(file')
    BY <1>f, <2>1 DEF OwedIsThere, Whole
  <2> QED
    BY <1>c, <1>f, <2>1, <2>2
<1>1. CASE MemoryStep /\ VersionsGoOn
  <2>1. /\ up /\ UNCHANGED file /\ owed' \subseteq owed
        /\ owed \subseteq Holding(conv) => owed' \subseteq Holding(conv')
    BY <1>1 DEF MemoryStep
  <2>2. owed \subseteq Holding(conv)
        /\ \A i \in 1..Newest : IsVersion(i) => owed' \subseteq Holding(Version(i))
    BY <1>b, <2>1 DEF OwedIsThere
  <2>3. Whole' => owed' \subseteq Holding(file')
    BY <2>1 DEF OwedIsThere, Whole
  <2> QED
    BY <1>1, <1>c, <2>1, <2>2, <2>3
<1>2. CASE ReadLog /\ VersionsGoOn /\ up
  <2> DEFINE msgs == Head(queue).msgs
  <2>1. /\ queue # <<>> /\ UNCHANGED <<file, conv>> /\ Holds("save")
        /\ queue[1].kind = "save" /\ msgs = queue[1].msgs
    BY <1>0, <1>2, HeadIsTyped DEF ReadLog, Holds
  <2>2. CASE UpToDate(msgs) /\ Saved(msgs)
    <3>1. UpToDate(queue[1].msgs) /\ Saved(queue[1].msgs)
      BY <2>1, <2>2
    <3>2. Whole => Holding(queue[1].msgs) \subseteq Holding(file)
      BY <1>0, <2>1, <3>1, UpToDateIsInTheLog
    <3> QED
      BY <1>2, <1>f, <2>1, <3>1, <3>2
  <2>3. CASE UNCHANGED owed
    BY <1>2, <1>d, <1>e, <2>1, <2>3
  <2> QED
    BY <1>2, <2>2, <2>3 DEF ReadLog
<1>3. CASE (ReadField \/ ReadTitle) /\ VersionsGoOn /\ up
  BY <1>3, <1>d, <1>e DEF ReadField, ReadTitle
<1>4. CASE FailWrite /\ VersionsGoOn /\ up
  <2>1. file' \in CutOff("lock") /\ UNCHANGED <<conv, owed>>
    BY <1>4 DEF FailWrite
  <2>2. LogGoesOn
    BY <1>0, <1>a, <2>1, CuttingOff, GrowingGoesOn
  <2> QED
    BY <1>4, <1>d, <2>1, <2>2
<1>5. ASSUME NEW s \in Slots, WriteLog(s), VersionsGoOn, up
      PROVE  OwedIsThere'
  <2>1. /\ threads["lock"].pc \in {"append", "overwrite"}
        /\ file' = IF threads["lock"].pc = "append" THEN WithLines(threads["lock"].lines)
                   ELSE threads["lock"].lines
        /\ UNCHANGED <<queue, conv, owed>>
    BY <1>0, <1>5, WriteLogStarts
  <2>2. CASE threads["lock"].pc = "overwrite"
    <3>1. file' = queue[1].msgs /\ queue # <<>> /\ queue[1].kind = "save"
      BY <2>1, <2>2 DEF LogIsWritten, ThreadsAreWhatTheyAre
    <3>2. IsVersion(1) /\ Version(1) = queue[1].msgs /\ 1 \in 1..Newest
      BY <1>0, <3>1, HeadIsTyped DEF Newest, Shape
    <3>3. \A i \in 1..Newest : IsVersion(i) => owed \subseteq Holding(Version(i))
      BY <1>5 DEF OwedIsThere
    <3>4. owed \subseteq Holding(file') /\ owed \subseteq Holding(conv)
      BY <1>b, <3>1, <3>2, <3>3
    <3> QED
      BY <1>5, <1>c, <2>1, <3>3, <3>4
  <2>3. CASE threads["lock"].pc = "append"
    <3>1. /\ file \in Seq(Messages \cup {Torn})
          /\ threads["lock"].lines \in Seq(Messages \cup {Torn})
      BY <1>0, <1>a, ThreadIsTyped DEF Shape
    <3>2. file' = WithLines(threads["lock"].lines)
      BY <2>1, <2>3
    <3>3. Holding(file) \subseteq Holding(file')
      BY <3>1, <3>2, LinesAreAppended
    <3>4. LogGoesOn
      BY <3>3 DEF LogGoesOn, Whole
    <3> QED
      BY <1>5, <1>d, <2>1, <3>4
  <2> QED
    BY <2>1, <2>2, <2>3
<1>6. ASSUME NEW s \in Slots, DumpMeta(s), VersionsGoOn, up
      PROVE  OwedIsThere'
  BY <1>6, <1>d, <1>e DEF DumpMeta
<1>7. ASSUME NEW s \in Slots, ReplaceMeta(s), VersionsGoOn, up
      PROVE  OwedIsThere'
  <2>1. /\ threads[s].pc = "replace" /\ UNCHANGED <<conv, file>>
        /\ \/ UNCHANGED owed
           \/ s = "lock" /\ queue # <<>> /\ queue[1].kind = "save" /\ Saved(queue[1].msgs)
    BY <1>0, <1>7, ReplaceMetaEnds
  <2>2. CASE UNCHANGED owed
    BY <1>7, <1>d, <1>e, <2>1, <2>2
  <2>3. CASE s = "lock" /\ queue # <<>> /\ queue[1].kind = "save" /\ Saved(queue[1].msgs)
    <3>1. Whole => Holding(queue[1].msgs) \subseteq Holding(file)
      BY <2>1, <2>3 DEF LogIsWritten, InLog
    <3> QED
      BY <1>7, <1>f, <2>1, <2>3, <3>1
  <2> QED
    BY <2>1, <2>2, <2>3
<1>8. CASE Crash
  <2>1. file' \in CutOff("lock") /\ UNCHANGED owed /\ ~up'
    BY <1>8 DEF Crash
  <2>2. LogGoesOn
    BY <1>0, <1>a, <2>1, CuttingOff, GrowingGoesOn
  <2> QED
    BY <2>1, <2>2 DEF OwedIsThere, LogGoesOn
<1>9. CASE Resume
  <2>1. Newest' = 1 /\ Version(1)' = file /\ UNCHANGED <<file, owed>>
        /\ Torn \notin ToSet(file)
    BY <1>9, OneVersion DEF Resume, Loadable
  <2>2. Whole
    BY <1>0, <2>1 DEF Whole, Holding, ToSet, Shape
  <2>3. owed \subseteq Holding(file)
    BY <2>2 DEF OwedIsThere
  <2> QED
    BY <2>1, <2>3 DEF OwedIsThere
<1> QED
  BY <1>1, <1>2, <1>3, <1>4, <1>5, <1>6, <1>7, <1>8, <1>9, StepsAreOfAKind DEF DiskStep

-----------------------------------------------------------------------------
(* The log, as long as nothing is interrupted.                                *)

(* The save whose turn it is begins with the last one if their boundary is    *)
(* the same.                                                                  *)
LEMMA SavesExtendTheLog ==
  ASSUME Shape, MetaIsReal, LogIsExact, VersionsExtendTheLog, ~raced, queue # <<>>,
         queue[1].kind = "save", BoundaryUnchanged(queue[1].msgs)
  PROVE  /\ OldTotal = Len(kept)
         /\ \A p \in 1..Len(kept) : queue[1].msgs[p] = kept[p]
<1> DEFINE msgs == queue[1].msgs
<1>1. IsVersion(1) /\ Version(1) = msgs /\ 1 \in 1..Newest
  BY HeadIsTyped DEF Newest, Shape
<1>2. CASE meta = NoMeta
  <2>1. kept = <<>> /\ OldTotal = 0
    BY <1>2 DEF LogIsExact, OldTotal
  <2> QED
    BY <2>1
<1>3. CASE meta # NoMeta
  <2>1. OldTotal = Len(kept) /\ OldTotal = meta.total /\ OldTotal \in Nat
        /\ BeginWith(kept, meta.total, meta.last)
    BY <1>3 DEF LogIsExact, OldTotal, MetaIsReal, VersionsExtendTheLog
  <2>2. CASE OldTotal > 0
    <3>1. Has(Version(1), meta.total, meta.last)
      BY <1>1, <2>1, <2>2 DEF BoundaryUnchanged, Has
    <3> QED
      BY <1>1, <2>1, <3>1 DEF BeginWith
  <2>3. CASE OldTotal = 0
    BY <2>1, <2>3
  <2> QED
    BY <2>1, <2>2, <2>3
<1> QED
  BY <1>2, <1>3

(* Appending what is new makes it the whole of the save ...                   *)
LEMMA AppendingIsExact ==
  ASSUME NEW old \in Seq(Messages), NEW msgs \in Seq(Messages), NEW new, NEW n \in Nat,
         n = Len(old), IsNewPart(new, msgs, n), \A p \in 1..Len(old) : msgs[p] = old[p]
  PROVE  old \o new = msgs
<1>1. new \in Seq(Messages) /\ Len(new) = Len(msgs) - n
      /\ \A p \in 1..Len(new) : new[p] = msgs[n + p]
  BY DEF IsNewPart
<1> DEFINE all == old \o new
<1>2. /\ all \in Seq(Messages) /\ Len(all) = Len(old) + Len(new)
      /\ \A i \in 1..(Len(old) + Len(new)) :
            all[i] = IF i <= Len(old) THEN old[i] ELSE new[i - Len(old)]
  BY <1>1, ConcatProperties, Zenon
<1> HIDE DEF all
<1>3. Len(old) \in Nat /\ Len(new) \in Nat /\ Len(msgs) \in Nat
  BY <1>1, LenProperties
<1>4. Len(all) = Len(msgs)
  BY <1>1, <1>2, <1>3
<1>5. ASSUME NEW i \in 1..Len(all)
      PROVE  all[i] = msgs[i]
  <2>1. CASE i <= Len(old)
    BY <1>2, <1>3, <2>1
  <2>2. CASE i > Len(old)
    <3>1. i - Len(old) \in 1..Len(new) /\ n + (i - Len(old)) = i
      BY <1>2, <1>3, <2>2
    <3>2. all[i] = new[i - Len(old)]
      BY <1>2, <1>3, <2>2
    <3> QED
      BY <1>1, <3>1, <3>2
  <2> QED
    BY <1>2, <1>3, <2>1, <2>2
<1>6. all = msgs
  BY <1>2, <1>4, <1>5, SeqEqual
<1> QED
  BY <1>6 DEF all

(* ... and a save that is up to date is the last one.                         *)
LEMMA UpToDateIsTheLast ==
  ASSUME Shape, MetaIsReal, LogIsExact, VersionsExtendTheLog, ~raced, queue # <<>>,
         queue[1].kind = "save", UpToDate(queue[1].msgs)
  PROVE  queue[1].msgs = kept
<1>1. Len(queue[1].msgs) = OldTotal /\ BoundaryUnchanged(queue[1].msgs)
  BY DEF UpToDate
<1>2. OldTotal = Len(kept) /\ \A p \in 1..Len(kept) : queue[1].msgs[p] = kept[p]
  BY <1>1, SavesExtendTheLog
<1>3. queue[1].msgs \in Seq(Messages) /\ kept \in Seq(Messages)
  BY HeadIsTyped DEF Shape
<1> QED
  BY <1>1, <1>2, <1>3, SeqEqual

(* The log stays what was saved last.                                         *)
LEMMA LogStaysExact ==
  ASSUME TypeOK, TypeOK', ThreadsAreWhatTheyAre, MetaIsReal, LogIsWritten,
         LogIsExact, VersionsExtendTheLog, Next
  PROVE  LogIsExact'
<1>0. Shape /\ Shape'
  BY DEF TypeOK
<1>a. "lock" \in Slots /\ NoThread.pc = "none" /\ NoMeta.total \notin Nat
  BY DEF Slots, NoThread, NoMeta
<1>b. ASSUME ~raced, threads["lock"].pc = "none"
      PROVE  file = kept
  BY <1>b DEF LogIsExact, InLog
<1> SUFFICES ASSUME ~raced'
             PROVE  LogIsExact'
  BY DEF LogIsExact
<1>c. ASSUME UNCHANGED <<file, meta, kept>>, ~raced, threads'["lock"] = threads["lock"],
             threads["lock"].pc = "none" \/ queue'[1] = queue[1]
      PROVE  LogIsExact'
  <2>1. CASE threads["lock"].pc = "none"
    <3>1. ~InLog /\ ~InLog'
      BY <1>c, <2>1 DEF InLog
    <3> QED
      BY <1>c, <2>1, <3>1 DEF LogIsExact
  <2>2. CASE queue'[1] = queue[1]
    <3>1. InLog' = InLog
      BY <1>c, <2>2 DEF InLog
    <3> QED
      BY <1>c, <2>2, <3>1 DEF LogIsExact
  <2> QED
    BY <1>c, <2>1, <2>2
<1>1. CASE MemoryStep /\ VersionsGoOn
  <2>1. /\ UNCHANGED <<file, meta, kept>> /\ threads'["lock"] = threads["lock"] /\ ~raced
        /\ threads["lock"] # NoThread => queue'[1] = queue[1]
    BY <1>1 DEF MemoryStep
  <2> QED
    BY <1>a, <1>c, <2>1
<1>2. CASE ReadLog
  <2> DEFINE msgs == Head(queue).msgs
  <2>1. /\ queue # <<>> /\ UNCHANGED <<file, meta, raced>> /\ Holds("save")
        /\ threads["lock"] = NoThread /\ queue[1].kind = "save" /\ msgs = queue[1].msgs
        /\ msgs \in Seq(Messages) /\ ~raced
    BY <1>0, <1>2, HeadIsTyped DEF ReadLog, Holds
  <2>2. CASE UpToDate(msgs) /\ Saved(msgs) /\ UNCHANGED threads
    <3>1. queue[1].msgs = kept
      BY <1>0, <2>1, <2>2, UpToDateIsTheLast
    <3>2. kept' = kept
      BY <2>1, <2>2, <3>1 DEF Saved
    <3> QED
      BY <1>a, <1>c, <2>1, <2>2, <3>2
  <2>3. CASE /\ ~UpToDate(msgs) /\ UNCHANGED <<queue, kept, owed>>
             /\ Start("lock", Plan(msgs).pc, Plan(msgs).lines, msgs, NoMeta)
    <3> HIDE DEF msgs
    <3> DEFINE new == threads'["lock"].lines
    <3>1. \/ threads'["lock"].pc = "overwrite"
          \/ /\ threads'["lock"].pc = "append" /\ new = SubSeq(msgs, OldTotal + 1, Len(msgs))
             /\ Len(msgs) > OldTotal /\ BoundaryUnchanged(msgs)
      BY <1>0, <2>1, <2>3, ReadLogStarts DEF msgs
    <3> HIDE DEF new
    <3>2. ~InLog /\ ~InLog'
      BY <1>a, <2>1, <3>1 DEF InLog
    <3>3. ASSUME threads'["lock"].pc = "append"
          PROVE  kept \o new = msgs
      <4>1. OldTotal \in Nat /\ msgs \in Seq(Messages) /\ Len(msgs) > OldTotal
            /\ new = SubSeq(msgs, OldTotal + 1, Len(msgs)) /\ BoundaryUnchanged(msgs)
        BY <2>1, <3>1, <3>3 DEF OldTotal, MetaIsReal
      <4>2. IsNewPart(new, msgs, OldTotal)
        BY <4>1, NewMessages
      <4>3. OldTotal = Len(kept) /\ \A p \in 1..Len(kept) : msgs[p] = kept[p]
        BY <1>0, <2>1, <4>1, SavesExtendTheLog
      <4>4. kept \in Seq(Messages)
        BY <1>0 DEF Shape
      <4> QED
        BY <4>1, <4>2, <4>3, <4>4, AppendingIsExact
    <3>4. threads'["lock"].pc = "append" => kept' \o threads'["lock"].lines = queue'[1].msgs
      BY <2>1, <2>3, <3>3 DEF new
    <3> QED
      BY <2>1, <2>3, <3>1, <3>2, <3>4 DEF LogIsExact
  <2> QED
    BY <1>2, <2>2, <2>3 DEF ReadLog
<1>3. CASE ReadField
  <2>1. /\ queue # <<>> /\ queue[1].kind = "loops" /\ threads["lock"] = NoThread
        /\ threads'["lock"].pc = "replace"
        /\ threads'["lock"].out.total = meta.total
        /\ threads'["lock"].out.last = meta.last
        /\ UNCHANGED <<queue, file, meta, kept, raced>>
    BY <1>0, <1>3, ReadFieldStarts
  <2>2. meta # NoMeta
    BY <1>0, <2>1, HeadIsTyped DEF MetaIsReal
  <2>3. ~InLog /\ ~InLog'
    BY <1>a, <2>1 DEF InLog
  <2> QED
    BY <2>1, <2>2, <2>3 DEF LogIsExact
<1>4. CASE ReadTitle
  BY <1>0, <1>a, <1>c, <1>4, ReadTitleStarts
<1>5. CASE FailWrite
  BY <1>0, <1>5, FailWriteEnds
<1>6. ASSUME NEW s \in Slots, WriteLog(s)
      PROVE  LogIsExact'
  <2>1. /\ threads["lock"].pc \in {"append", "overwrite"}
        /\ file' = IF threads["lock"].pc = "append" THEN WithLines(threads["lock"].lines)
                   ELSE threads["lock"].lines
        /\ threads'["lock"].pc = "dump" /\ UNCHANGED <<queue, meta, kept, raced>>
    BY <1>0, <1>6, WriteLogStarts
  <2>2. InLog' /\ ~InLog
    BY <2>1 DEF InLog
  <2>3. file' = queue[1].msgs
    <3>1. CASE threads["lock"].pc = "overwrite"
      BY <2>1, <3>1 DEF LogIsWritten
    <3>2. CASE threads["lock"].pc = "append"
      <4>1. file = kept /\ kept \o threads["lock"].lines = queue[1].msgs
        BY <2>1, <2>2, <3>2 DEF LogIsExact
      <4>2. /\ file \in Seq(Messages) /\ threads["lock"].lines \in Seq(Messages)
            /\ file' = WithLines(threads["lock"].lines)
        BY <1>0, <1>a, <2>1, <3>2, <4>1, ThreadIsTyped DEF Shape
      <4>3. Whole
        <5>1. \A p \in 1..Len(file) : file[p] \in Messages
          BY <4>2, ElementOfSeq
        <5> QED
          BY <5>1 DEF Whole, Holding, Torn, Messages
      <4>4. file' = file \o threads["lock"].lines
        BY <4>2, <4>3, LinesAreAppended
      <4> QED
        BY <4>1, <4>4
    <3> QED
      BY <2>1, <3>1, <3>2
  <2> QED
    BY <2>1, <2>2, <2>3 DEF LogIsExact
<1>7. ASSUME NEW s \in Slots, DumpMeta(s)
      PROVE  LogIsExact'
  <2>1. /\ threads["lock"].pc = "dump" /\ threads'["lock"].pc = "replace"
        /\ UNCHANGED <<queue, file, meta, kept, raced>>
    BY <1>0, <1>7, DumpMetaStarts
  <2>2. queue[1].kind = "save"
    BY <2>1 DEF ThreadsAreWhatTheyAre
  <2>3. InLog /\ InLog'
    BY <2>1, <2>2 DEF InLog
  <2> QED
    BY <2>1, <2>2, <2>3 DEF LogIsExact
<1>8. ASSUME NEW s \in Slots, ReplaceMeta(s)
      PROVE  LogIsExact'
  <2>1. /\ threads[s].pc = "replace" /\ meta' = threads[s].out /\ threads'[s] = NoThread
        /\ \A t \in Slots : t # s => threads'[t] = threads[t]
        /\ UNCHANGED file /\ meta'.total \in Nat
    BY <1>0, <1>8, ReplaceMetaEnds DEF MetaIsReal
  <2>2. CASE s = "rename" /\ UNCHANGED <<queue, kept, owed>> /\ raced' = (raced \/ meta # meta')
    BY <1>a, <1>c, <2>1, <2>2
  <2>3. CASE /\ s = "lock" /\ queue # <<>> /\ queue[1].kind = "save" /\ Saved(queue[1].msgs)
             /\ UNCHANGED raced
    <3>1. InLog /\ ~InLog' /\ threads'["lock"].pc = "none"
      BY <1>a, <2>1, <2>3 DEF InLog
    <3>2. kept' = queue[1].msgs /\ file = queue[1].msgs
      BY <2>3, <3>1 DEF Saved, LogIsExact
    <3>3. meta'.total = Len(queue[1].msgs) /\ meta'.last = LastOf(queue[1].msgs)
      BY <2>1, <2>3 DEF LogIsWritten
    <3>4. meta' # NoMeta
      BY <1>a, <2>1
    <3> QED
      BY <2>1, <3>1, <3>2, <3>3, <3>4 DEF LogIsExact
  <2>4. CASE /\ s = "lock" /\ queue # <<>> /\ queue[1].kind = "loops" /\ queue' = Tail(queue)
             /\ UNCHANGED <<kept, owed, raced>>
    <3>1. ~InLog /\ ~InLog' /\ threads'["lock"].pc = "none"
      BY <1>a, <2>1, <2>4 DEF InLog
    <3>2. meta'.total = meta.total /\ meta'.last = meta.last /\ meta # NoMeta /\ file = kept
          /\ meta.total = Len(kept) /\ meta.last = LastOf(kept)
      BY <2>1, <2>4, <3>1 DEF LogIsExact
    <3>3. meta' # NoMeta
      BY <1>a, <2>1
    <3> QED
      BY <2>1, <2>4, <3>1, <3>2, <3>3 DEF LogIsExact
  <2> QED
    BY <1>0, <1>8, <2>2, <2>3, <2>4, ReplaceMetaEnds
<1>9. CASE Crash
  <2>1. /\ file' \in CutOff("lock") /\ UNCHANGED <<meta, kept>> /\ ~raced
        /\ threads["lock"] = NoThread /\ threads'["lock"] = NoThread
    BY <1>9, <1>a DEF Crash
  <2>2. file' = file
    BY <1>a, <2>1 DEF CutOff
  <2> QED
    BY <1>a, <1>c, <2>1, <2>2
<1>10. CASE Resume
  <2>1. UNCHANGED <<threads, file, meta, kept, raced>> /\ threads["lock"] = NoThread
    BY <1>10, <1>a DEF Resume, ThreadsAreWhatTheyAre
  <2> QED
    BY <1>a, <1>c, <2>1
<1> QED
  BY <1>1, <1>2, <1>3, <1>4, <1>5, <1>6, <1>7, <1>8, <1>9, <1>10, StepsAreOfAKind DEF DiskStep

(* The versions begin with it.                                                *)
LEMMA VersionsKeepExtending ==
  ASSUME TypeOK, TypeOK', ThreadsAreWhatTheyAre, MetaIsReal, MessagesWereGiven,
         VersionsBranch, LogIsWritten, LogIsExact, LogIsExact', VersionsExtendTheLog, Next
  PROVE  VersionsExtendTheLog'
<1>0. Shape /\ Shape'
  BY DEF TypeOK
<1>a. "lock" \in Slots /\ NoThread.pc = "none"
  BY DEF Slots, NoThread
<1> SUFFICES ASSUME ~raced', meta' # NoMeta, NEW k \in 1..Newest', IsVersion(k)',
                    Has(Version(k)', meta'.total, meta'.last), NEW p \in 1..Len(kept')
             PROVE  Version(k)'[p] = kept'[p]
  BY DEF VersionsExtendTheLog, BeginWith, Has
<1>b. meta.last \in Nat /\ meta.last <= given /\ meta'.last \in Nat
  <2>1. meta \in Metas /\ meta' \in Metas
    BY <1>0 DEF Shape
  <2> QED
    BY <2>1 DEF Metas, Messages, Torn, MessagesWereGiven
<1>c. ASSUME VersionsGoOn, ~raced, meta # NoMeta, meta'.total = meta.total,
             meta'.last = meta.last, UNCHANGED kept
      PROVE  Version(k)'[p] = kept'[p]
  <2>1. meta.total = Len(kept) /\ BeginWith(kept, meta.total, meta.last)
    BY <1>c DEF LogIsExact, VersionsExtendTheLog
  <2>2. Has(Version(k)', meta.total, meta.last) /\ p \in 1..Len(kept)
    BY <1>c
  <2>3. Version(k)'[p] = kept[p]
    BY <1>0, <1>b, <1>c, <2>1, <2>2, BeginningIsKept
  <2> QED
    BY <1>c, <2>3
<1>1. CASE MemoryStep /\ VersionsGoOn
  BY <1>1, <1>c DEF MemoryStep
<1>2. CASE ReadLog /\ VersionsGoOn
  <2> DEFINE msgs == Head(queue).msgs
  <2>1. /\ queue # <<>> /\ UNCHANGED <<meta, raced>> /\ queue[1].kind = "save"
        /\ msgs = queue[1].msgs
    BY <1>0, <1>2, HeadIsTyped DEF ReadLog, Holds
  <2>2. CASE UpToDate(msgs) /\ Saved(msgs)
    <3>1. queue[1].msgs = kept
      BY <1>0, <2>1, <2>2, UpToDateIsTheLast
    <3>2. kept' = kept
      BY <2>1, <2>2, <3>1 DEF Saved
    <3> QED
      BY <1>2, <1>c, <2>1, <3>2
  <2>3. CASE UNCHANGED kept
    BY <1>2, <1>c, <2>1, <2>3
  <2> QED
    BY <1>2, <2>2, <2>3 DEF ReadLog
<1>3. CASE (ReadField \/ ReadTitle) /\ VersionsGoOn
  BY <1>3, <1>c DEF ReadField, ReadTitle
<1>4. CASE FailWrite
  BY <1>0, <1>4, FailWriteEnds
<1>5. ASSUME NEW s \in Slots, WriteLog(s) \/ DumpMeta(s), VersionsGoOn
      PROVE  Version(k)'[p] = kept'[p]
  BY <1>5, <1>c DEF WriteLog, DumpMeta
<1>6. ASSUME NEW s \in Slots, ReplaceMeta(s), VersionsGoOn
      PROVE  Version(k)'[p] = kept'[p]
  <2>1. threads[s].pc = "replace" /\ meta' = threads[s].out
    BY <1>0, <1>6, ReplaceMetaEnds
  <2>2. CASE s = "rename" /\ UNCHANGED <<queue, kept, owed>> /\ raced' = (raced \/ meta # meta')
    BY <1>6, <1>c, <2>2
  <2>3. CASE /\ s = "lock" /\ queue # <<>> /\ queue[1].kind = "save" /\ Saved(queue[1].msgs)
    <3> DEFINE msgs == queue[1].msgs
               total == meta'.total
               last == meta'.last
    <3>1. total = Len(msgs) /\ last = LastOf(msgs) /\ kept' = msgs
      BY <2>1, <2>3 DEF LogIsWritten, Saved
    <3>2. msgs \in Seq(Messages) /\ IsVersion(1) /\ Version(1) = msgs /\ 1 \in 1..Newest
          /\ Newest \in Nat
      BY <1>0, <2>3, HeadIsTyped DEF Newest, Shape
    <3>3. msgs # <<>>
      BY <3>1
    <3>4. total \in 1..Len(msgs) /\ last = msgs[total] /\ last \in Messages
      BY <3>1, <3>2, <3>3, LastIsAMessage
    <3>5. Has(Version(1), total, last) /\ last <= given
      BY <3>2, <3>4 DEF Has, MessagesWereGiven
    <3> HIDE DEF total, last
    <3>6. BeginWith(msgs, total, last)
      <4> SUFFICES ASSUME NEW j \in 1..Newest, IsVersion(j), Has(Version(j), total, last),
                          NEW q \in 1..Len(msgs)
                   PROVE  Version(j)[q] = msgs[q]
        BY DEF BeginWith
      <4>1. 1 \in 1..j /\ q \in 1..total
        BY <3>1, <3>2
      <4>2. \A r \in 1..total : Version(j)[r] = Version(1)[r]
        BY <1>0, <3>2, <3>4, <3>5, <4>1, VersionsHoldASave
      <4> QED
        BY <3>2, <4>1, <4>2
    <3>7. Has(Version(k)', total, last) /\ p \in 1..Len(msgs) /\ last \in Nat
      BY <1>b, <3>1 DEF total, last
    <3> HIDE DEF msgs
    <3>8. Version(k)'[p] = msgs[p]
      BY <1>0, <1>6, <3>1, <3>5, <3>6, <3>7, BeginningIsKept
    <3> QED
      BY <3>1, <3>8
  <2>4. CASE /\ s = "lock" /\ queue # <<>> /\ queue[1].kind = "loops" /\ queue' = Tail(queue)
             /\ UNCHANGED <<kept, owed, raced>>
    <3>1. meta'.total = meta.total /\ meta'.last = meta.last /\ meta # NoMeta
      BY <2>1, <2>4 DEF LogIsExact
    <3> QED
      BY <1>6, <1>c, <2>4, <3>1
  <2> QED
    BY <1>0, <1>6, <2>2, <2>3, <2>4, ReplaceMetaEnds
<1>7. CASE Crash \/ Resume
  <2>1. Newest' = 1 /\ Version(1)' = conv' /\ (Crash => conv' = <<>>)
        /\ (Resume => conv' = file /\ UNCHANGED <<file, kept, raced>>)
    BY <1>7, OneVersion DEF Resume
  <2>2. k = 1
    BY <2>1
  <2>3. Resume
    BY <1>7, <2>1, <2>2 DEF Has
  <2>4. file = kept
    BY <1>a, <2>1, <2>3 DEF Resume, ThreadsAreWhatTheyAre, LogIsExact, InLog
  <2> QED
    BY <2>1, <2>2, <2>3, <2>4
<1> QED
  BY <1>1, <1>2, <1>3, <1>4, <1>5, <1>6, <1>7, StepsAreOfAKind DEF DiskStep

-----------------------------------------------------------------------------
(* The texts.                                                                 *)

LEMMA RewritingsAreCounted ==
  ASSUME TypeOK, TypeOK', ThreadsAreWhatTheyAre, TextsAreKnown, Next
  PROVE  TextsAreKnown'
<1>0. Shape /\ Shape'
  BY DEF TypeOK
<1>a. /\ edits \in Nat /\ text \in [Messages -> Nat] /\ logged \in [Messages -> Nat]
      /\ meta.text \in Nat
      /\ \A s \in Slots : threads[s].text \in [Messages -> Nat] /\ threads[s].out.text \in Nat
  <2>1. /\ edits \in Texts /\ text \in [Messages -> Texts] /\ logged \in [Messages -> Texts]
        /\ meta.text \in Texts
    BY <1>0 DEF Shape, Metas
  <2>2. \A s \in Slots : threads[s].text \in [Messages -> Texts] /\ threads[s].out.text \in Texts
    <3>1. \A s \in Slots : threads[s].out \in Metas
      BY <1>0, ThreadIsTyped
    <3> QED
      BY <1>0, <3>1, TextsAreTexts DEF Metas
  <2> QED
    BY <2>1, <2>2, TextsAreTexts
<1>b. /\ \A m \in Messages : Unedited[m] <= edits
      /\ NoMeta.text <= edits /\ NoThread.text = Unedited /\ NoThread.out = NoMeta
      /\ NoThread.lines = <<>> /\ "lock" \in Slots
      /\ \A msgs \in Seq(Messages) : TextOfLast(msgs) <= edits
  <2>1. \A msgs \in Seq(Messages) : TextOfLast(msgs) <= edits
    BY <1>0, <1>a, TextsAreTexts DEF TextsAreKnown
  <2> QED
    BY <1>a, <2>1, TextsAreTexts DEF NoMeta, NoThread, Slots
<1>c. \A S : \A s \in Slots : \A m \in Messages : Land(s, S)[m] <= edits
  BY DEF Land, TextsAreKnown
<1>d. ASSUME UNCHANGED edits, meta'.text <= edits,
             \A m \in Messages : text'[m] <= edits /\ logged'[m] <= edits,
             \A s \in Slots : \/ threads'[s] = threads[s]
                            \/ threads'[s] = NoThread
                            \/ /\ threads'[s].text \in {text, Unedited}
                               /\ threads'[s].out.text <= edits
                               /\ threads'[s].pc \in {"dump", "replace"}
                                     => threads'[s].lines = <<>>
      PROVE  TextsAreKnown'
  BY <1>b, <1>d DEF TextsAreKnown
<1>e. ASSUME NEW s \in Slots, NEW pc, NEW lines, NEW msgs, NEW out, out.text <= edits,
             Start(s, pc, lines, msgs, out), pc \in {"append", "overwrite"} \/ lines = <<>>
      PROVE  \A r \in Slots : \/ threads'[r] = threads[r]
                            \/ /\ threads'[r].text \in {text, Unedited}
                               /\ threads'[r].out.text <= edits
                               /\ threads'[r].pc \in {"dump", "replace"}
                                     => threads'[r].lines = <<>>
  BY <1>0, <1>e, ThreadIsStarted
<1>f. (\A m \in Messages : text[m] <= edits /\ logged[m] <= edits) /\ meta.text <= edits
      /\ \A s \in Slots : threads[s].out.text <= edits
  BY DEF TextsAreKnown
<1>1. CASE AddMessage \/ Save \/ (\E k \in 0..(Len(conv) - 1) : Rewind(k)) \/ ChangeLoops
           \/ \E i \in DOMAIN queue : GiveUp(i)
  <2>1. UNCHANGED <<threads, meta, text, edits, logged>>
    BY <1>1 DEF AddMessage, Save, Rewind, ChangeLoops, GiveUp, textVars
  <2> QED
    BY <1>d, <1>f, <2>1
<1>2. ASSUME NEW i \in DOMAIN conv, RewriteMessage(i)
      PROVE  TextsAreKnown'
  <2>1. /\ edits' = edits + 1 /\ UNCHANGED <<threads, meta, logged>>
        /\ text' = [text EXCEPT ![conv[i]] = edits + 1]
    BY <1>2 DEF RewriteMessage
  <2>2. \A m \in Messages : text'[m] <= edits + 1 /\ logged[m] <= edits + 1
    BY <1>a, <1>f, <2>1
  <2>3. \A s \in Slots : \A m \in Messages : threads[s].text[m] <= edits + 1
    BY <1>a DEF TextsAreKnown
  <2>4. meta.text <= edits + 1 /\ \A s \in Slots : threads[s].out.text <= edits + 1
    BY <1>a, <1>f
  <2> QED
    BY <2>1, <2>2, <2>3, <2>4 DEF TextsAreKnown
<1>3. CASE ReadLog
  <2> DEFINE msgs == Head(queue).msgs
  <2>1. UNCHANGED <<meta, text, edits, logged>>
    BY <1>3 DEF ReadLog
  <2>2. CASE UNCHANGED threads
    BY <1>d, <1>f, <2>1, <2>2
  <2>3. CASE Start("lock", Plan(msgs).pc, Plan(msgs).lines, msgs, NoMeta)
    <3>1. Plan(msgs).pc \in {"append", "overwrite"}
      BY DEF Plan
    <3> HIDE DEF msgs
    <3> QED
      BY <1>b, <1>d, <1>e, <1>f, <2>1, <2>3, <3>1
  <2> QED
    BY <1>3, <2>2, <2>3 DEF ReadLog
<1>4. ASSUME NEW s \in Slots, WriteLog(s)
      PROVE  TextsAreKnown'
  <2>1. Start(s, "dump", <<>>, threads[s].msgs, NoMeta)
    BY <1>4 DEF WriteLog
  <2>2. UNCHANGED <<meta, text, edits>> /\ \A m \in Messages : logged'[m] <= edits
    BY <1>4, <1>c DEF WriteLog
  <2> QED
    BY <1>b, <1>d, <1>e, <1>f, <2>1, <2>2
<1>5. ASSUME NEW s \in Slots, DumpMeta(s)
      PROVE  TextsAreKnown'
  <2> DEFINE msgs == threads[s].msgs
             out == [total |-> Len(msgs), last |-> LastOf(msgs), text |-> TextOfLast(msgs),
                     loops |-> loops]
  <2>1. Start(s, "replace", <<>>, msgs, out) /\ UNCHANGED <<meta, text, edits, logged>>
    BY <1>5 DEF DumpMeta, textVars
  <2>2. out.text <= edits
    BY <1>0, <1>b, ThreadIsTyped
  <2> HIDE DEF msgs, out
  <2> QED
    BY <1>d, <1>e, <1>f, <2>1, <2>2
<1>6. ASSUME NEW s \in Slots, ReplaceMeta(s)
      PROVE  TextsAreKnown'
  <2>1. /\ meta' = threads[s].out /\ UNCHANGED <<text, edits, logged>>
        /\ threads' = [threads EXCEPT ![s] = NoThread]
    BY <1>6 DEF ReplaceMeta, textVars
  <2>2. \A r \in Slots : threads'[r] = threads[r] \/ threads'[r] = NoThread
    BY <1>0, <2>1 DEF Shape
  <2> QED
    BY <1>d, <1>f, <2>1, <2>2
<1>7. CASE ReadField
  <2> DEFINE out == [meta EXCEPT !.loops = Head(queue).loops]
  <2>1. Start("lock", "replace", <<>>, <<>>, out) /\ UNCHANGED <<meta, text, edits, logged>>
    BY <1>7 DEF ReadField, textVars
  <2>2. out.text <= edits
    BY <1>0, <1>f DEF Shape, Metas
  <2> HIDE DEF out
  <2> QED
    BY <1>b, <1>d, <1>e, <1>f, <2>1, <2>2
<1>8. CASE ReadTitle
  <2>1. Start("rename", "replace", <<>>, <<>>, meta) /\ UNCHANGED <<meta, text, edits, logged>>
    BY <1>8 DEF ReadTitle, textVars
  <2> QED
    BY <1>d, <1>e, <1>f, <2>1 DEF Slots
<1>9. CASE FailWrite
  <2>1. /\ UNCHANGED <<meta, text, edits>>
        /\ threads' = [threads EXCEPT !["lock"] = NoThread]
        /\ logged' = Land("lock", ToSet(file') \ ToSet(file))
    BY <1>9 DEF FailWrite
  <2>2. \A r \in Slots : threads'[r] = threads[r] \/ threads'[r] = NoThread
    BY <1>0, <2>1 DEF Shape
  <2> QED
    BY <1>b, <1>c, <1>d, <1>f, <2>1, <2>2
<1>10. CASE Crash
  <2>1. /\ UNCHANGED <<meta, edits>> /\ text' = Unedited
        /\ \A r \in Slots : threads'[r] = NoThread
        /\ logged' = Land("lock", ToSet(file') \ ToSet(file))
    BY <1>10 DEF Crash
  <2> QED
    BY <1>b, <1>c, <1>d, <1>f, <2>1
<1>11. CASE Resume
  <2>1. UNCHANGED <<meta, edits, threads, logged>> /\ text' = logged
    BY <1>11 DEF Resume
  <2> QED
    BY <1>d, <1>f, <2>1
<1> QED
  BY <1>1, <1>2, <1>3, <1>4, <1>5, <1>6, <1>7, <1>8, <1>9, <1>10, <1>11 DEF Next

(* A message that is rewritten is marked, unless a fingerprint will tell.     *)
LEMMA RewritingIsNoticed ==
  ASSUME TypeOK, TypeOK', ThreadsAreWhatTheyAre, TextsAreKnown, NEW i \in DOMAIN conv,
         RewriteMessage(i), NEW m \in Messages, TextIsSafe(m)
  PROVE  TextIsSafe(m)'
<1>1. /\ UNCHANGED <<threads, meta, logged, file>>
      /\ text' = [text EXCEPT ![conv[i]] = edits + 1]
      /\ late' = IF /\ conv[i] # Compared
                    /\ conv[i] \in ToSet(file) \cup UNION {ToSet(threads[s].lines) : s \in Slots}
                 THEN late \cup {conv[i]} ELSE late
  BY DEF RewriteMessage
<1>2. /\ text \in [Messages -> Texts] /\ edits \in Nat /\ meta.text \in Nat
      /\ \A s \in Slots : threads[s].out.text \in Nat /\ threads[s].lines \in Seq(Messages)
      /\ file \in Seq(Messages \cup {Torn}) /\ "lock" \in Slots
  BY TextsAreTexts DEF TypeOK, Shape, Threads, Metas, Slots
<1>3. CASE m # conv[i]
  <2>1. text'[m] = text[m] /\ late \subseteq late'
    BY <1>1, <1>2, <1>3
  <2>2. NextMeta' = NextMeta
    BY <1>1 DEF NextMeta
  <2> QED
    BY <1>1, <2>1, <2>2 DEF TextIsSafe, IsWritten
<1>4. CASE m = conv[i]
  <2> DEFINE t == threads["lock"]
  <2>1. ToSet(t.lines) = Holding(t.lines) /\ ToSet(file) = Holding(file)
    BY <1>2 DEF ToSet, Holding
  <2>2. t.pc \in {"none", "dump", "replace"} => Holding(t.lines) = {}
    <3>1. t.pc \in {"none", "dump", "replace"} => t.lines = <<>>
      BY <1>2 DEF TextsAreKnown, ThreadsAreWhatTheyAre, NoThread
    <3> QED
      BY <3>1 DEF Holding
  <2>3. CASE m # Compared
    <3>1. m \in Holding(t.lines) \cup Holding(file) => m \in late'
      BY <1>1, <1>2, <1>4, <2>1, <2>3
    <3> QED
      BY <1>1, <3>1 DEF TextIsSafe, IsWritten
  <2>4. CASE m = Compared
    <3>1. t.pc \in {"none", "replace"} /\ m = NextMeta.last
      BY <2>4 DEF Compared, NextMeta, Messages, Torn
    <3>2. text'[m] = edits + 1 /\ NextMeta.text <= edits /\ NextMeta.text \in Nat
      BY <1>1, <1>2, <1>4 DEF NextMeta, TextsAreKnown
    <3>3. text'[m] # NextMeta.text
      BY <1>2, <3>2
    <3>4. NextMeta' = NextMeta
      BY <1>1 DEF NextMeta
    <3> QED
      BY <1>1, <2>2, <3>1, <3>3, <3>4 DEF TextIsSafe, IsWritten
  <2> QED
    BY <2>3, <2>4
<1> QED
  BY <1>3, <1>4

(* A save that appends found the text of the last message of the log.         *)
LEMMA ReadingKeepsTexts ==
  ASSUME TypeOK, TypeOK', ThreadsAreWhatTheyAre, LogIsExact, ~raced, MetaIsReal, ReadLog,
         NEW m \in Messages, TextIsSafe(m)
  PROVE  TextIsSafe(m)'
<1> DEFINE msgs == Head(queue).msgs
<1>0. Shape /\ "lock" \in Slots
  BY DEF TypeOK, Slots
<1>1. /\ Holds("save") /\ threads["lock"] = NoThread /\ queue # <<>>
      /\ UNCHANGED <<file, meta, text, logged>>
  BY DEF ReadLog, Holds
<1>2. threads["lock"].pc = "none" /\ Holding(threads["lock"].lines) = {}
  BY <1>1 DEF NoThread, Holding
<1>3. CASE UNCHANGED <<threads, late>>
  BY <1>1, <1>3 DEF TextIsSafe, IsWritten, NextMeta
<1>4. CASE /\ ~UpToDate(msgs) /\ late' = late \ ToSet(Plan(msgs).lines)
           /\ Start("lock", Plan(msgs).pc, Plan(msgs).lines, msgs, NoMeta)
  <2> DEFINE lines == Plan(msgs).lines
  <2>1. /\ threads'["lock"].lines = lines /\ threads'["lock"].pc = Plan(msgs).pc
        /\ threads'["lock"].text = IF lines = <<>> THEN Unedited ELSE text
    <3> DEFINE pc == Plan(msgs).pc
    <3>1. Start("lock", pc, lines, msgs, NoMeta)
      BY <1>4
    <3> HIDE DEF pc, lines, msgs
    <3>2. /\ threads'["lock"].lines = lines /\ threads'["lock"].pc = pc
          /\ threads'["lock"].text = IF lines = <<>> THEN Unedited ELSE text
      BY <1>0, <3>1, ThreadIsStarted
    <3> QED
      BY <3>2 DEF pc
  <2>2. ToSet(lines) = Holding(lines)
    <3>1. threads'["lock"].lines \in Seq(Messages)
      BY <1>0, ThreadIsTyped DEF TypeOK, Shape, Threads
    <3> QED
      BY <2>1, <3>1 DEF ToSet, Holding
  <2> HIDE DEF lines, msgs
  <2>3. CASE m \in Holding(lines)
    <3>1. lines # <<>>
      BY <2>3 DEF Holding
    <3> QED
      BY <1>1, <2>1, <2>3, <3>1 DEF TextIsSafe
  <2>4. CASE m \notin Holding(lines) /\ m \in Holding(file) /\ Plan(msgs).pc # "overwrite"
    <3>1. Len(msgs) > OldTotal /\ BoundaryUnchanged(msgs)
      BY <2>4 DEF Plan
    <3>2. IsWritten(m) /\ NextMeta = meta
      BY <1>2, <2>4 DEF TextIsSafe, NextMeta
    <3>3. ~(m = meta.last /\ text[m] # meta.text)
      <4>1. CASE OldTotal > 0
        BY <3>1, <4>1 DEF BoundaryUnchanged
      <4>2. CASE ~(OldTotal > 0)
        <5>1. meta = NoMeta \/ meta.last = Torn
          <6>1. ASSUME meta # NoMeta
                PROVE  meta.last = Torn
            <7>1. meta.total \in Nat /\ meta.total = 0
              BY <4>2, <6>1 DEF OldTotal, MetaIsReal
            <7>2. kept \in Seq(Messages) /\ Len(kept) = 0
              BY <1>0, <6>1, <7>1 DEF LogIsExact, Shape
            <7>3. kept = <<>>
              BY <7>2
            <7> QED
              BY <6>1, <7>3 DEF LogIsExact, LastOf
          <6> QED
            BY <6>1
        <5> QED
          BY <5>1 DEF NoMeta, Torn, Messages
      <4> QED
        BY <4>1, <4>2
    <3>4. text[m] = logged[m] \/ m \in late'
      BY <1>4, <2>2, <2>4, <3>2, <3>3 DEF IsWritten, lines
    <3> QED
      BY <1>1, <2>1, <2>4, <3>4 DEF TextIsSafe, IsWritten
  <2> QED
    BY <1>1, <2>1, <2>3, <2>4 DEF TextIsSafe
<1> QED
  BY <1>3, <1>4 DEF ReadLog

(* What is written has the texts that were read, or later ones are marked.    *)
LEMMA WritingKeepsTexts ==
  ASSUME TypeOK, TypeOK', ThreadsAreWhatTheyAre, NEW s \in Slots, WriteLog(s),
         NEW m \in Messages, TextIsSafe(m)
  PROVE  TextIsSafe(m)'
<1> DEFINE t == threads["lock"]
<1>0. Shape /\ "lock" \in Slots /\ file \in Seq(Messages \cup {Torn})
      /\ t.lines \in Seq(Messages) /\ t.lines \in Seq(Messages \cup {Torn})
  <2>1. Shape /\ "lock" \in Slots
    BY DEF TypeOK, Slots
  <2>2. file \in Seq(Messages \cup {Torn}) /\ t.lines \in Seq(Messages)
    BY <2>1, ThreadIsTyped DEF Shape
  <2> HIDE DEF t
  <2> QED
    BY <2>1, <2>2
<1>1. /\ s = "lock" /\ t.pc \in {"append", "overwrite"}
      /\ file' = IF t.pc = "append" THEN WithLines(t.lines) ELSE t.lines
      /\ threads'["lock"].pc = "dump" /\ threads'["lock"].lines = <<>>
  BY <1>0, WriteLogStarts
<1>2. UNCHANGED <<text, late>> /\ logged' = Land("lock", ToSet(t.lines))
  BY <1>1 DEF WriteLog
<1>3. ToSet(t.lines) = Holding(t.lines) /\ Holding(<<>>) = {}
  BY <1>0 DEF ToSet, Holding
<1>4. logged'[m] = IF m \in Holding(t.lines) THEN t.text[m] ELSE logged[m]
  BY <1>2, <1>3 DEF Land
<1>5. m \in Holding(file') => m \in Holding(t.lines) \/ (m \in Holding(file) /\ t.pc = "append")
  BY <1>0, <1>1, LinesAreAppended
<1> HIDE DEF t
<1>6. m \in Holding(file') => text'[m] = logged'[m] \/ m \in late'
  BY <1>1, <1>2, <1>4, <1>5 DEF TextIsSafe, IsWritten, t
<1> QED
  BY <1>1, <1>3, <1>6 DEF TextIsSafe, IsWritten

(* The log has the texts of memory but for those rewritten since.             *)
LEMMA TextsStayLogged ==
  ASSUME TypeOK, TypeOK', ThreadsAreWhatTheyAre, MetaIsReal, LogIsExact, TextsAreKnown,
         TextsAreLogged, Next
  PROVE  TextsAreLogged'
<1>0. Shape /\ Shape' /\ "lock" \in Slots /\ "rename" # "lock"
      /\ NoThread.pc = "none" /\ NoThread.lines = <<>> /\ Holding(<<>>) = {}
  BY DEF TypeOK, Slots, NoThread, Holding
<1> SUFFICES ASSUME ~raced', up', NEW m \in Messages
             PROVE  TextIsSafe(m)'
  BY DEF TextsAreLogged
<1>a. ASSUME UNCHANGED <<file, logged, text, late, meta>>, threads'["lock"] = threads["lock"],
             TextIsSafe(m)
      PROVE  TextIsSafe(m)'
  BY <1>a DEF TextIsSafe, IsWritten, NextMeta
<1>b. Resume \/ (~raced /\ up)
  <2>1. ~raced
    BY DEF Next, AddMessage, RewriteMessage, Save, Rewind, ChangeLoops, ReadLog, WriteLog, DumpMeta,
           ReplaceMeta, ReadField, ReadTitle, FailWrite, GiveUp, Crash, Resume
  <2>2. up \/ Resume
    BY StepsAreOfAKind DEF MemoryStep, Crash
  <2> QED
    BY <2>1, <2>2
<1>c. ~Resume => TextIsSafe(m)
  BY <1>b DEF TextsAreLogged
<1>1. CASE AddMessage \/ Save \/ (\E k \in 0..(Len(conv) - 1) : Rewind(k)) \/ ChangeLoops
           \/ \E i \in DOMAIN queue : GiveUp(i)
  <2>1. UNCHANGED <<threads, meta, text, file, late, logged>> /\ up
    BY <1>1 DEF AddMessage, Save, CanSave, Rewind, ChangeLoops, GiveUp, textVars
  <2>2. ~Resume
    BY <2>1 DEF Resume
  <2> QED
    BY <1>a, <1>c, <2>1, <2>2
<1>2. ASSUME NEW i \in DOMAIN conv, RewriteMessage(i)
      PROVE  TextIsSafe(m)'
  <2>1. ~Resume
    BY <1>2 DEF RewriteMessage, Resume
  <2> QED
    BY <1>2, <1>c, <2>1, RewritingIsNoticed
<1>3. ASSUME Resume
      PROVE  TextIsSafe(m)'
  <2>1. threads'["lock"].lines = <<>> /\ text' = logged /\ logged' = logged
    BY <1>0, <1>3 DEF Resume, ThreadsAreWhatTheyAre
  <2> QED
    BY <1>0, <2>1 DEF TextIsSafe, IsWritten
<1>4. CASE ReadLog
  BY <1>3, <1>4, <1>b, <1>c, ReadingKeepsTexts
<1>5. ASSUME NEW s \in Slots, WriteLog(s)
      PROVE  TextIsSafe(m)'
  BY <1>3, <1>5, <1>c, WritingKeepsTexts
<1>6. ASSUME NEW s \in Slots, DumpMeta(s), ~Resume
      PROVE  TextIsSafe(m)'
  <2>1. /\ threads["lock"].pc = "dump" /\ threads'["lock"].lines = <<>>
        /\ UNCHANGED <<file, text, logged, late>>
    BY <1>0, <1>6, DumpMetaStarts DEF DumpMeta, textVars
  <2>2. Holding(threads["lock"].lines) = {}
    BY <1>0, <2>1 DEF TextsAreKnown
  <2> QED
    BY <1>0, <1>6, <1>c, <2>1, <2>2 DEF TextIsSafe, IsWritten
<1>7. ASSUME NEW s \in Slots, ReplaceMeta(s), ~Resume
      PROVE  TextIsSafe(m)'
  <2>1. /\ threads[s].pc = "replace" /\ meta' = threads[s].out /\ threads'[s] = NoThread
        /\ \A r \in Slots : r # s => threads'[r] = threads[r]
        /\ UNCHANGED <<file, text, logged, late>>
    BY <1>0, <1>7, ReplaceMetaEnds DEF ReplaceMeta, textVars
  <2>2. CASE s = "lock"
    <3>1. Holding(threads["lock"].lines) = {} /\ Holding(threads'["lock"].lines) = {}
      BY <1>0, <2>1, <2>2 DEF TextsAreKnown
    <3>2. NextMeta' = NextMeta /\ threads'["lock"].pc = "none"
      BY <1>0, <2>1, <2>2 DEF NextMeta
    <3> QED
      BY <1>7, <1>c, <2>1, <2>2, <3>1, <3>2 DEF TextIsSafe, IsWritten
  <2>3. CASE s # "lock"
    <3>1. UNCHANGED meta
      BY <1>0, <1>7, <2>1, <2>3, ReplaceMetaEnds
    <3> QED
      BY <1>0, <1>7, <1>a, <1>c, <2>1, <2>3, <3>1
  <2> QED
    BY <2>2, <2>3
<1>8. ASSUME ReadField, ~Resume
      PROVE  TextIsSafe(m)'
  <2> DEFINE out == [meta EXCEPT !.loops = Head(queue).loops]
  <2>1. /\ Start("lock", "replace", <<>>, <<>>, out) /\ threads["lock"] = NoThread
        /\ UNCHANGED <<file, meta, text, logged, late>>
    BY <1>8 DEF ReadField, Holds, textVars
  <2>2. out.last = meta.last /\ out.text = meta.text
    BY <1>0 DEF Shape, Metas
  <2> HIDE DEF out
  <2>3. /\ threads'["lock"].pc = "replace" /\ threads'["lock"].lines = <<>>
        /\ threads'["lock"].out = out
    BY <1>0, <2>1, ThreadIsStarted, Zenon
  <2> QED
    BY <1>0, <1>8, <1>c, <2>1, <2>2, <2>3 DEF TextIsSafe, IsWritten, NextMeta
<1>9. ASSUME ReadTitle, ~Resume
      PROVE  TextIsSafe(m)'
  <2>1. threads'["lock"] = threads["lock"] /\ UNCHANGED <<file, meta, text, logged, late>>
    BY <1>0, <1>9, ReadTitleStarts DEF ReadTitle, textVars
  <2> QED
    BY <1>9, <1>a, <1>c, <2>1
<1>10. ~FailWrite /\ ~Crash
  BY DEF FailWrite, Crash
<1> QED
  BY <1>1, <1>2, <1>3, <1>4, <1>5, <1>6, <1>7, <1>8, <1>9, <1>10 DEF Next

-----------------------------------------------------------------------------
(* The invariants.                                                            *)

(* The initial state has no versions but the empty conversation.              *)
LEMMA InitHolds == Init => LInv /\ Held
<1> SUFFICES ASSUME Init
             PROVE  LInv /\ Held
  OBVIOUS
<1>1. /\ up = TRUE /\ conv = <<>> /\ given = 0 /\ loops = 0 /\ queue = <<>> /\ file = <<>>
      /\ meta = NoMeta /\ kept = <<>> /\ owed = {} /\ raced = FALSE
      /\ text = Unedited /\ logged = Unedited /\ edits = 0 /\ late = {}
      /\ \A s \in Slots : threads[s] = NoThread
  BY DEF Init
<1>2. /\ "lock" \in Slots /\ "stray" \in Slots /\ "rename" \in Slots /\ Len(queue) = 0
      /\ NoThread.pc = "none" /\ NoThread.lines = <<>> /\ NoThread.out = NoMeta
      /\ NoMeta.total = -1 /\ NoMeta.last = 0 /\ NoMeta.text = 0
      /\ NoThread.text = Unedited
  BY <1>1 DEF Slots, NoThread, NoMeta, Torn
<1>3. TypeOK
  <2>1. threads \in [Slots -> Threads] /\ meta \in Metas
    BY <1>1, NoThreadIsOne DEF Init
  <2>2. 0 \in 0..MaxMessages /\ 0 \in 0..MaxLoops /\ 0 <= MaxSaves
    BY SessionLogAssumption
  <2>3. conv \in Seq(Messages) /\ queue \in Seq(Jobs) /\ file \in Seq(Messages \cup {Torn})
        /\ kept \in Seq(Messages)
    BY <1>1, EmptySeq
  <2> QED
    BY <1>1, <1>2, <2>1, <2>2, <2>3, TextsAreTexts DEF TypeOK, Shape
<1>4. ThreadsAreWhatTheyAre
  BY <1>1, <1>2 DEF ThreadsAreWhatTheyAre
<1>5. MetaIsReal
  BY <1>1, <1>2 DEF MetaIsReal
<1>6. LoopsArePending
  BY <1>1, <1>2 DEF LoopsArePending, LastLoopsWait
<1>7. Newest = 1 /\ \A i \in 1..Newest : Version(i) = <<>>
  BY <1>1, <1>2 DEF Newest, Version
<1>8. \A i \in 1..Newest : \A p, m : ~Has(Version(i), p, m)
  BY <1>7 DEF Has
<1>9. Holding(<<>>) = {}
  BY DEF Holding
<1>10. MessagesWereGiven
  <2>1. \A i \in 1..Newest : \A p \in 1..Len(Version(i)) : FALSE
    BY <1>7
  <2> QED
    BY <1>1, <1>2, <1>9, <2>1 DEF MessagesWereGiven
<1>11. VersionsBranch
  BY <1>1, <1>7, <1>8, <1>9 DEF VersionsBranch
<1>12. MetasCover
  BY <1>8 DEF MetasCover, Covers
<1>13. LogIsWritten
  BY <1>1, <1>2 DEF LogIsWritten, InLog
<1>14. OwedIsThere
  BY <1>1 DEF OwedIsThere
<1>15. LogIsExact
  BY <1>1, <1>2 DEF LogIsExact, InLog
<1>16. VersionsExtendTheLog
  BY <1>1 DEF VersionsExtendTheLog
<1>17. TextsAreKnown
  BY <1>1, <1>2, TextsAreTexts DEF TextsAreKnown
<1>18. TextsAreLogged
  BY <1>1, <1>2, <1>9 DEF TextsAreLogged, TextIsSafe
<1> QED
  BY <1>3, <1>4, <1>5, <1>6, <1>10, <1>11, <1>12, <1>13, <1>14, <1>15, <1>16, <1>17, <1>18
     DEF LInv, Held

(* Whatever is saved, rewritten, interrupted and resumed, every step keeps    *)
(* the shape of the state, what the threads are for, and the last change of   *)
(* the loops where it will be written.                                        *)
THEOREM NextKeepsLoops == LInv /\ [Next]_vars => LInv'
<1> SUFFICES ASSUME LInv, [Next]_vars
             PROVE  LInv'
  OBVIOUS
<1>1. TypeOK /\ ThreadsAreWhatTheyAre /\ MetaIsReal /\ LoopsArePending
  BY DEF LInv
<1>2. TypeOK'
  BY <1>1, TypeIsKept
<1>3. ThreadsAreWhatTheyAre' /\ MetaIsReal' /\ LoopsArePending'
  BY <1>1, <1>2, ThreadsAreKept, MetaStaysReal, LoopsStayPending
<1> QED
  BY <1>2, <1>3 DEF LInv

(* Every step, the rewriting of any message at any time included, keeps what  *)
(* relates the saves that wait, their threads, the log, the metadata and the  *)
(* texts.                                                                     *)
THEOREM NextIsInductive == IInv /\ [Next]_vars => IInv'
<1> SUFFICES ASSUME IInv, [Next]_vars
             PROVE  IInv'
  OBVIOUS
<1>1. /\ TypeOK /\ ThreadsAreWhatTheyAre /\ MetaIsReal /\ MessagesWereGiven /\ VersionsBranch
      /\ MetasCover /\ LogIsWritten /\ OwedIsThere /\ LogIsExact /\ VersionsExtendTheLog
      /\ TextsAreKnown /\ TextsAreLogged
  BY DEF IInv, Held
<1>2. TypeOK' /\ ThreadsAreWhatTheyAre' /\ MetaIsReal'
  <2>1. TypeOK'
    BY <1>1, TypeIsKept
  <2> QED
    BY <1>1, <2>1, ThreadsAreKept, MetaStaysReal
<1>3. CASE Next
  <2>1. MessagesWereGiven' /\ VersionsBranch'
    BY <1>1, <1>2, <1>3, MessagesStayGiven, VersionsKeepBranching
  <2>2. LogIsWritten' /\ MetasCover'
    BY <1>1, <1>2, <1>3, SavesAreWritten, MetasStayCovered
  <2>3. OwedIsThere' /\ LogIsExact'
    BY <1>1, <1>2, <1>3, OwedStaysThere, LogStaysExact
  <2>4. VersionsExtendTheLog'
    BY <1>1, <1>2, <1>3, <2>3, VersionsKeepExtending
  <2>5. TextsAreKnown' /\ TextsAreLogged'
    BY <1>1, <1>2, <1>3, RewritingsAreCounted, TextsStayLogged
  <2> QED
    BY <1>2, <2>1, <2>2, <2>3, <2>4, <2>5 DEF IInv, Held
<1>4. CASE UNCHANGED vars
  <2>1. VersionsGoOn
    BY <1>1, <1>2, <1>4, SavingGoesOn DEF vars, TypeOK
  <2>2. UNCHANGED <<up, conv, given, queue, threads, file, meta, kept, owed, raced, text, edits,
                    logged, late>>
    BY <1>4 DEF vars, textVars
  <2>3. VersionsBranch'
    BY <1>1, <1>2, <2>1, BranchingIsKept DEF TypeOK
  <2>4. MessagesWereGiven'
    <3>1. \A i \in 1..Newest' : IsVersion(i)'
             => \A p \in 1..Len(Version(i)') : Version(i)'[p] <= given'
      BY <1>1, <1>2, <2>1, VersionsHoldTheGiven DEF TypeOK
    <3> QED
      BY <1>1, <2>2, <3>1 DEF MessagesWereGiven
  <2>5. MetasCover'
    <3> SUFFICES ASSUME NEW md \in Metas, IsMeta(md)'
                 PROVE  Covers(md)'
      BY DEF MetasCover
    <3>1. IsMeta(md) /\ LogGoesOn
      BY <2>2 DEF IsMeta, LogGoesOn, Whole
    <3>2. Covers(md) /\ md.last <= given
      BY <1>1, <3>1 DEF MetasCover, IsMeta, MessagesWereGiven
    <3> QED
      BY <1>1, <1>2, <2>1, <3>1, <3>2, CoveringIsKept DEF TypeOK
  <2>6. LogIsWritten' /\ LogIsExact'
    BY <1>1, <2>2 DEF LogIsWritten, LogIsExact, InLog, Whole
  <2>7. OwedIsThere'
    BY <1>1, <2>2 DEF OwedIsThere, Newest, Version, IsVersion, Holding, Whole
  <2>8. VersionsExtendTheLog'
    BY <1>1, <2>2 DEF VersionsExtendTheLog, BeginWith, Newest, Version, IsVersion, Has
  <2>9. TextsAreKnown' /\ TextsAreLogged'
    BY <1>1, <2>2 DEF TextsAreKnown, TextsAreLogged, TextIsSafe, IsWritten, NextMeta
  <2> QED
    BY <1>2, <2>3, <2>4, <2>5, <2>6, <2>7, <2>8, <2>9 DEF IInv, Held
<1> QED
  BY <1>3, <1>4

(* The state keeps its shape: the queue is bounded, and a thread writes for   *)
(* the holder of the lock only as long as there is one (session_logger.py:53).*)
THEOREM TypeCorrect == Spec => []TypeOK
<1>1. Init => LInv
  BY InitHolds
<1>2. LInv => TypeOK
  BY DEF LInv
<1> QED
  BY <1>1, <1>2, NextKeepsLoops, PTL DEF Spec

(* Whatever is rewritten, interrupted and resumed: when nothing is under way, *)
(* and no save or update of the metadata was interrupted, the loops on disk   *)
(* are those in memory.                                                       *)
THEOREM LoopsAreSaved == Spec => []LoopsReachTheDisk
<1>1. Init => LInv
  BY InitHolds
<1>2. LInv => LoopsReachTheDisk
  <2> SUFFICES ASSUME LInv, up, Quiet, meta # NoMeta, ~raced
               PROVE  meta.loops = loops
    BY DEF LoopsReachTheDisk
  <2>1. OnlySaves
    BY DEF Quiet, OnlySaves
  <2> QED
    BY <2>1 DEF LInv, LoopsArePending
<1> QED
  BY <1>1, <1>2, NextKeepsLoops, PTL DEF Spec

(* The invariant holds in every state.                                        *)
THEOREM Invariance == Spec => []IInv
<1>1. Init => IInv
  BY InitHolds DEF LInv, IInv
<1> QED
  BY <1>1, NextIsInductive, PTL DEF Spec

(* A message that a completed save contained, and that nobody has taken back, *)
(* is in the log whenever the log can be loaded, whatever is rewritten, and   *)
(* however often writes fail and the process stops and resumes.               *)
THEOREM NothingSavedIsLost == Spec => []SavedMessagesSurvive
<1>1. IInv => SavedMessagesSurvive
  <2> SUFFICES ASSUME IInv, Loadable
               PROVE  owed \subseteq ToSet(file)
    BY DEF SavedMessagesSurvive
  <2>1. file \in Seq(Messages \cup {Torn})
    BY DEF IInv, TypeOK, Shape
  <2>2. ToSet(file) = Holding(file)
    BY <2>1 DEF ToSet, Holding
  <2>3. Whole
    BY <2>2 DEF Loadable, Whole
  <2> QED
    BY <2>2, <2>3 DEF IInv, Held, OwedIsThere
<1> QED
  BY <1>1, Invariance, PTL

(* When no save is under way, and none was interrupted, the log has the       *)
(* messages the last save was asked to save, and the metadata say how far it  *)
(* goes; it has their texts but for those rewritten after a save took them,   *)
(* or the fingerprint of its last message tells the next save.                *)
THEOREM TheLogIsTheLastSave == Spec => []LogIsTheLastSave
<1>1. IInv => LogIsTheLastSave
  <2> SUFFICES ASSUME IInv, Quiet, meta # NoMeta, ~raced
               PROVE  /\ file = kept /\ meta.total = Len(kept)
                      /\ meta.last = LastOf(kept)
                      /\ up => \A m \in ToSet(file) :
                           \/ logged[m] = text[m]
                           \/ m \in late
                           \/ m = meta.last /\ text[m] # meta.text
    BY DEF LogIsTheLastSave
  <2>1. threads["lock"] = NoThread /\ threads["lock"].pc = "none"
    BY DEF Quiet, NoThread, Slots
  <2>2. ~InLog
    BY <2>1 DEF InLog
  <2>3. file = kept /\ meta.total = Len(kept) /\ meta.last = LastOf(kept)
    BY <2>2 DEF IInv, Held, LogIsExact
  <2>4. ASSUME up, NEW m \in ToSet(file)
        PROVE  \/ logged[m] = text[m]
               \/ m \in late
               \/ m = meta.last /\ text[m] # meta.text
    <3>1. kept \in Seq(Messages)
      BY DEF IInv, TypeOK, Shape
    <3>2. m \in Messages /\ m \in Holding(file)
      BY <2>3, <2>4, <3>1 DEF ToSet, Holding
    <3>3. TextIsSafe(m) /\ Holding(threads["lock"].lines) = {} /\ NextMeta = meta
      BY <2>1, <2>4, <3>2 DEF IInv, Held, TextsAreLogged, NoThread, Holding, NextMeta
    <3> QED
      BY <2>1, <3>2, <3>3 DEF TextIsSafe, IsWritten
  <2> QED
    BY <2>3, <2>4
<1> QED
  BY <1>1, Invariance, PTL
=============================================================================
