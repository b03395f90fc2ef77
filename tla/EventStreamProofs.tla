--------------------------- MODULE EventStreamProofs ---------------------------
(***************************************************************************)
(* Machine-checked proofs about EventStream, for any entries, writers,     *)
(* queue sizes and number of connections: a client that follows the stream *)
(* lacks only events whose send an interrupt cancelled, a client that was  *)
(* sent everything shows the server's history but for those, and what it   *)
(* shows never goes back.                                                  *)
(***************************************************************************)
EXTENDS EventStream, SequenceTheorems, TLAPS

Flying  == {m \in InTransit : m.kind = "event"}
Awaited == {m \in InTransit : m.kind = "state"}

(* The transport's queue holds at most one response, and none while one waits  *)
(* to be put.                                                                 *)
OneInTheQueue ==
  /\ \A i, j \in DOMAIN outbox :
       outbox[i].kind = "state" /\ outbox[j].kind = "state" => i = j
  /\ answer # <<>> => \A i \in DOMAIN outbox : outbox[i].kind = "event"

(* A response is on its way only to a client that waits for it, and only one. *)
ResponsesAreAwaited ==
  /\ mode \notin {"resyncing", "resuming"} => Awaited = {}
  /\ conn = "opening" => mode = "resuming" /\ Awaited = {}
  /\ conn = "none" => answer = <<>>
  /\ OneInTheQueue

(* An event has one number, and takes an entry on; a later one of the entry   *)
(* does not take it back.                                                     *)
EventsAreNumbered ==
  /\ \A m, n \in Flying : m.id = n.id => m = n
  /\ \A m \in Flying : m.update.from < m.update.to
                       /\ m.update.to <= history[m.update.entry]
  /\ \A m, n \in Flying : m.id < n.id /\ m.update.entry = n.update.entry
                           => m.update.to <= n.update.to \/ m.update.to = Completed

(* An update that is not notified yet is of the entry's last revision, but for *)
(* an effect that an answer resumed, which the turn may have completed.       *)
IsRecent(u) ==
  history[u.entry] = u.to \/ (history[u.entry] = Completed /\ u.to = Resumed)

UpdatesAreRecent ==
  /\ \A w \in Writers : \A i \in DOMAIN toSend[w] :
       LET u == toSend[w][i] IN
       /\ u.from < u.to
       /\ IsRecent(u)
       /\ w # Turn => u.from # Absent /\ u.to >= Resumed
  /\ \A w \in Writers : \A i \in DOMAIN toSend[Turn], j \in DOMAIN toSend[w] :
       w # Turn /\ toSend[Turn][i].entry = toSend[w][j].entry
         => toSend[Turn][i].from # Absent

(* Updates that are applied and not notified.                                 *)
Pending == UNION {Messages(toSend[w]) : w \in Writers}

(* Events on their way, and those whose send was cancelled.                   *)
Sent == Flying \cup lost

(* The queues behind the suspended puts, and all but what a writer waits to put. *)
Queued == Messages(buffered) \cup Messages(outbox) \cup Messages(inbox)
Elsewhere(w) == Queued \cup UNION {Messages(blocked[v]) : v \in Writers \ {w}}

(* An event that waits to be put is nowhere else, and one whose send was      *)
(* cancelled is nowhere.                                                      *)
PutsAreSingle ==
  \A w \in Writers : \A m \in Messages(blocked[w]), n \in Elsewhere(w) :
    n.kind = "event" => n.id # m.id
LostAreGone == \A m \in lost, n \in Flying : n.id # m.id

(* What a view that has events up to the kth shows is of the past, and the    *)
(* events that follow do not take it back.                                    *)
IsBehind(v, k) ==
  /\ \A e \in Entries : v[e] <= history[e]
  /\ \A m \in Flying : m.id > k =>
       \/ v[m.update.entry] <= m.update.to
       \/ v[m.update.entry] = Completed
       \/ m.update.from = Absent

(* The events that follow bring it up to date, but for those whose send was    *)
(* cancelled: every number was sent, the last update of an entry was sent or   *)
(* is still to be notified, and an entry is added before it is patched.  What  *)
(* the turn has still to notify behind an event the view has, the view has.    *)
IsCaughtUp(v, k) ==
  /\ \A id \in (k + 1)..watermark : \E m \in Sent : m.id = id
  /\ \A e \in Entries :
       \/ v[e] = history[e]
       \/ \E m \in Sent : m.id > k /\ m.update.entry = e /\ m.update.to = history[e]
       \/ \E u \in Pending : u.entry = e /\ u.to = history[e]
  /\ \A e \in Entries : v[e] = Absent =>
       \/ history[e] = Absent
       \/ \E m \in Sent : m.id > k /\ m.update.entry = e /\ m.update.from = Absent
       \/ \E u \in Pending : u.entry = e /\ u.from = Absent
  /\ \A m \in Flying :
       m.id > k /\ m.update.from # Absent /\ v[m.update.entry] = Absent
       => \E n \in Sent : /\ n.id > k /\ n.id < m.id
                          /\ n.update.entry = m.update.entry
                          /\ n.update.from = Absent
  /\ \A m \in Messages(blocked[Turn]) : m.id <= k =>
       \A u \in Messages(toSend[Turn]) : u.to <= v[u.entry]

ViewIsBehind ==
  /\ \A e \in Entries : view[e] <= history[e]
  /\ mode = "up" => IsBehind(view, lastId)
  /\ \A s \in Awaited : IsBehind(s.view, s.id) /\ \A e \in Entries : view[e] <= s.view[e]

ViewIsCaughtUp ==
  conn # "none" =>
    /\ mode = "up" => IsCaughtUp(view, lastId)
    /\ \A s \in Awaited : IsCaughtUp(s.view, s.id)

IInv ==
  /\ TypeOK /\ ResponsesAreAwaited /\ EventsAreNumbered /\ UpdatesAreRecent
  /\ PutsAreSingle /\ LostAreGone /\ ViewIsBehind /\ ViewIsCaughtUp

-----------------------------------------------------------------------------
(* Queues as sets of messages.                                             *)

\* A message more at the end.
LEMMA OneMore ==
  ASSUME NEW S, NEW s \in Seq(S), NEW m \in S
  PROVE  /\ Append(s, m) \in Seq(S) /\ Len(Append(s, m)) = Len(s) + 1
         /\ Messages(Append(s, m)) = Messages(s) \cup {m}
<1>1. /\ Append(s, m) \in Seq(S) /\ Len(Append(s, m)) = Len(s) + 1
      /\ \A i \in 1..Len(s) : Append(s, m)[i] = s[i]
      /\ Append(s, m)[Len(s) + 1] = m
  BY AppendProperties
<1> DEFINE t == Append(s, m)
<1>2. DOMAIN t = 1..(Len(s) + 1) /\ DOMAIN s = 1..Len(s) /\ Len(s) \in Nat
  BY <1>1, LenProperties
<1> HIDE DEF t
<1>3. Messages(t) = Messages(s) \cup {m}
  <2>1. ASSUME NEW x \in Messages(t) PROVE x \in Messages(s) \cup {m}
    <3>1. PICK i \in 1..(Len(s) + 1) : x = t[i]
      BY <1>2 DEF Messages
    <3>2. CASE i = Len(s) + 1
      BY <1>1, <3>1, <3>2 DEF t
    <3>3. CASE i # Len(s) + 1
      BY <1>1, <1>2, <3>1, <3>3 DEF t, Messages
    <3> QED
      BY <3>2, <3>3
  <2>2. Messages(s) \subseteq Messages(t)
    BY <1>1, <1>2 DEF t, Messages
  <2>3. m \in Messages(t)
    BY <1>1, <1>2 DEF t, Messages
  <2> QED
    BY <2>1, <2>2, <2>3
<1> QED
  BY <1>1, <1>3 DEF t

\* Two queues one after the other.
LEMMA BothQueues ==
  ASSUME NEW S, NEW a \in Seq(S), NEW b \in Seq(S)
  PROVE  /\ a \o b \in Seq(S) /\ Len(a \o b) = Len(a) + Len(b)
         /\ Messages(a \o b) = Messages(a) \cup Messages(b)
<1>1. /\ a \o b \in Seq(S) /\ Len(a \o b) = Len(a) + Len(b)
      /\ Len(a) \in Nat /\ Len(b) \in Nat
      /\ \A i \in 1..(Len(a) + Len(b)) :
           (a \o b)[i] = IF i <= Len(a) THEN a[i] ELSE b[i - Len(a)]
  BY ConcatProperties, LenProperties, Zenon
<1> DEFINE c == a \o b
<1>2. /\ DOMAIN c = 1..(Len(a) + Len(b)) /\ DOMAIN a = 1..Len(a) /\ DOMAIN b = 1..Len(b)
  BY <1>1, LenProperties
<1>3. \A i \in 1..Len(a) : i \in DOMAIN c /\ c[i] = a[i]
  BY <1>1, <1>2
<1>4. \A i \in 1..Len(b) : Len(a) + i \in DOMAIN c /\ c[Len(a) + i] = b[i]
  BY <1>1, <1>2
<1>5. \A i \in DOMAIN c : \/ i \in DOMAIN a /\ c[i] = a[i]
                          \/ i - Len(a) \in DOMAIN b /\ c[i] = b[i - Len(a)]
  BY <1>1, <1>2
<1> HIDE DEF c
<1>6. Messages(c) = Messages(a) \cup Messages(b)
  <2>1. Messages(c) \subseteq Messages(a) \cup Messages(b)
    BY <1>5 DEF Messages
  <2>2. Messages(a) \subseteq Messages(c)
    BY <1>2, <1>3 DEF Messages
  <2>3. Messages(b) \subseteq Messages(c)
    BY <1>2, <1>4 DEF Messages
  <2> QED
    BY <2>1, <2>2, <2>3
<1> QED
  BY <1>1, <1>6 DEF c

\* The first message and the others.
LEMMA FirstAndOthers ==
  ASSUME NEW S, NEW s \in Seq(S), s # <<>>
  PROVE  /\ Tail(s) \in Seq(S) /\ Len(Tail(s)) = Len(s) - 1
         /\ Head(s) = s[1] /\ Head(s) \in S /\ 1 \in DOMAIN s
         /\ \A i \in DOMAIN Tail(s) : i + 1 \in DOMAIN s /\ Tail(s)[i] = s[i + 1]
         /\ Messages(s) = {Head(s)} \cup Messages(Tail(s))
<1>1. /\ Tail(s) \in Seq(S) /\ Len(Tail(s)) = Len(s) - 1
      /\ Head(s) = s[1] /\ Head(s) \in S
      /\ \A i \in 1..(Len(s) - 1) : Tail(s)[i] = s[i + 1]
      /\ Len(s) \in Nat /\ Len(s) >= 1
  BY HeadTailProperties, EmptySeq, LenProperties
<1> DEFINE t == Tail(s)
<1>2. DOMAIN t = 1..(Len(s) - 1) /\ DOMAIN s = 1..Len(s)
  BY <1>1, LenProperties
<1> HIDE DEF t
<1>3. 1 \in DOMAIN s /\ \A i \in DOMAIN t : i + 1 \in DOMAIN s /\ t[i] = s[i + 1]
  BY <1>1, <1>2 DEF t
<1>4. \A i \in DOMAIN s : i = 1 \/ (i - 1 \in DOMAIN t /\ s[i] = t[i - 1])
  BY <1>1, <1>2 DEF t
<1>5. Messages(s) = {s[1]} \cup Messages(t)
  BY <1>3, <1>4 DEF Messages
<1> QED
  BY <1>1, <1>3, <1>5 DEF t

\* Queues with nothing, or with one message.
LEMMA ShortQueues ==
  /\ Messages(<<>>) = {}
  /\ \A S : \A m \in S : <<m>> \in Seq(S) /\ Messages(<<m>>) = {m} /\ Len(<<m>>) = 1
  /\ \A S : <<>> \in Seq(S)
<1>1. Messages(<<>>) = {}
  BY DEF Messages
<1>2. ASSUME NEW S, NEW m \in S
      PROVE  <<m>> \in Seq(S) /\ Messages(<<m>>) = {m} /\ Len(<<m>>) = 1
  BY DEF Messages
<1> QED
  BY <1>1, <1>2

\* A queue without messages, and what a queue of a set holds.
LEMMA QueueHolds ==
  ASSUME NEW S, NEW s \in Seq(S)
  PROVE  /\ Messages(s) \subseteq S
         /\ Messages(s) = {} <=> s = <<>>
         /\ DOMAIN s = 1..Len(s) /\ Len(s) \in Nat
         /\ Len(s) = 0 <=> s = <<>>
<1>1. DOMAIN s = 1..Len(s) /\ Len(s) \in Nat /\ (Len(s) = 0 <=> s = <<>>)
  BY LenProperties, EmptySeq
<1>2. \A i \in DOMAIN s : s[i] \in S
  BY <1>1, ElementOfSeq
<1>3. s # <<>> => s[1] \in Messages(s)
  BY <1>1 DEF Messages
<1>4. Messages(<<>>) = {}
  BY ShortQueues
<1>5. Messages(s) \subseteq S
  BY <1>2 DEF Messages
<1> QED
  BY <1>1, <1>3, <1>4, <1>5

-----------------------------------------------------------------------------
(* What the steps do to the queues.                                        *)

\* An event more in the transport's queue.
LEMMA OneMoreOut ==
  ASSUME NEW s \in Seq(Events \cup States), NEW m \in Events \cup States
  PROVE  /\ Append(s, m) \in Seq(Events \cup States) /\ Len(Append(s, m)) = Len(s) + 1
         /\ Messages(Append(s, m)) = Messages(s) \cup {m}
<1> DEFINE M == Events \cup States
<1>1. s \in Seq(M) /\ m \in M
  OBVIOUS
<1> HIDE DEF M
<1>2. /\ Append(s, m) \in Seq(M) /\ Len(Append(s, m)) = Len(s) + 1
      /\ Messages(Append(s, m)) = Messages(s) \cup {m}
  BY <1>1, OneMore
<1> QED
  BY <1>2 DEF M

\* The puts that wait for room.
Suspended == UNION {Messages(blocked[w]) : w \in Writers}

\* A writer suspends in a put.
LEMMA WriterSuspends ==
  ASSUME Shape, NEW w \in Writers, NEW m \in Events, blocked[w] = <<>>,
         blocked' = [blocked EXCEPT ![w] = <<m>>]
  PROVE  /\ blocked' \in [Writers -> Seq(Events)]
         /\ \A v \in Writers : Len(blocked'[v]) <= 1
         /\ Suspended' = Suspended \cup {m}
<1>1. /\ blocked \in [Writers -> Seq(Events)] /\ \A v \in Writers : Len(blocked[v]) <= 1
      /\ <<m>> \in Seq(Events) /\ Messages(<<m>>) = {m} /\ Len(<<m>>) = 1
      /\ Messages(blocked[w]) = {}
  BY ShortQueues DEF Shape
<1>2. /\ blocked' \in [Writers -> Seq(Events)] /\ blocked'[w] = <<m>>
      /\ \A v \in Writers \ {w} : blocked'[v] = blocked[v]
  BY <1>1
<1>3. Suspended' = Suspended \cup {m}
  BY <1>1, <1>2 DEF Suspended
<1> QED
  BY <1>1, <1>2, <1>3

\* A put goes through.
LEMMA WriterResumes ==
  ASSUME Shape, NEW w \in Writers, blocked' = [blocked EXCEPT ![w] = <<>>]
  PROVE  /\ blocked' \in [Writers -> Seq(Events)]
         /\ \A v \in Writers : Len(blocked'[v]) <= 1
         /\ Suspended = Suspended' \cup Messages(blocked[w])
<1>1. /\ blocked \in [Writers -> Seq(Events)] /\ \A v \in Writers : Len(blocked[v]) <= 1
      /\ <<>> \in Seq(Events) /\ Messages(<<>>) = {} /\ Len(<<>>) = 0
  BY ShortQueues, EmptySeq DEF Shape
<1>2. /\ blocked' \in [Writers -> Seq(Events)] /\ blocked'[w] = <<>>
      /\ \A v \in Writers \ {w} : blocked'[v] = blocked[v]
  BY <1>1
<1>3. Suspended = Suspended' \cup Messages(blocked[w])
  BY <1>1, <1>2 DEF Suspended
<1> QED
  BY <1>1, <1>2, <1>3

\* What is in transit, in parts.
LEMMA TransitParts ==
  /\ InTransit = Messages(buffered) \cup Messages(answer) \cup Messages(outbox)
                 \cup Messages(inbox) \cup Suspended
  /\ InTransit' = Messages(buffered)' \cup Messages(answer)' \cup Messages(outbox)'
                  \cup Messages(inbox)' \cup Suspended'
BY DEF InTransit, Suspended

\* Messages in transit are events or states.
LEMMA TransitIsTyped ==
  ASSUME Shape
  PROVE  InTransit \subseteq Events \cup States
<1>1. /\ Messages(buffered) \subseteq Events /\ Messages(answer) \subseteq States
      /\ Messages(outbox) \subseteq Events \cup States /\ Messages(inbox) \subseteq Events
      /\ \A w \in Writers : Messages(blocked[w]) \subseteq Events
  BY QueueHolds DEF Shape
<1>2. Suspended \subseteq Events
  BY <1>1 DEF Suspended
<1> QED
  BY <1>1, <1>2, TransitParts

\* The updates of a writer go out: to an attached client the first as an event,
\* otherwise all of them, as events if the client is attaching.
Publishes(w, us) ==
  /\ conn = "attached" =>
       /\ toSend' = [toSend EXCEPT ![w] = Tail(us)]
       /\ watermark' = watermark + 1
       /\ InTransit' = InTransit \cup {Event(watermark + 1, us[1])}
  /\ conn # "attached" =>
       /\ toSend' = [toSend EXCEPT ![w] = <<>>]
       /\ watermark' = watermark + Len(us)
  /\ conn \in {"opening", "attaching"} =>
       InTransit' = InTransit \cup {Event(watermark + i, us[i]) : i \in 1..Len(us)}
  /\ conn = "none" => InTransit' = InTransit

\* The ways of a put into the transport's queue.
Outgoing ==
  \/ outbox' = outbox
  \/ \E m \in Events : outbox' = Append(outbox, m)

\* The updates leave their writer suspended with a new event, or the queues with
\* new events.
Puts(w) ==
  \/ /\ UNCHANGED blocked
     /\ \A n \in Queued' : n \in Queued \/ n.id > watermark
  \/ /\ UNCHANGED Queued
     /\ \E m \in Events : m.id > watermark /\ blocked' = [blocked EXCEPT ![w] = <<m>>]

\* Numbering updates publishes them.
LEMMA NotifyPublishes ==
  ASSUME Shape, NEW w \in Writers, NEW us \in Seq(Updates), us # <<>>,
         Len(us) <= 2, blocked[w] = <<>>, Notify(w, us),
         UNCHANGED <<conn, answer, inbox>>
  PROVE  /\ Publishes(w, us) /\ Outgoing /\ Puts(w)
         /\ watermark' \in Nat /\ watermark' >= watermark
         /\ toSend' \in [Writers -> Seq(Updates)]
         /\ \A v \in Writers : Len(toSend'[v]) <= 1
         /\ blocked' \in [Writers -> Seq(Events)]
         /\ \A v \in Writers : Len(blocked'[v]) <= 1
         /\ buffered' \in Seq(Events)
         /\ outbox' \in Seq(Events \cup States) /\ Len(outbox') <= Outbox
<1> DEFINE event == Event(watermark + 1, us[1])
<1>0. /\ watermark \in Nat /\ toSend \in [Writers -> Seq(Updates)]
      /\ \A v \in Writers : Len(toSend[v]) <= 1
      /\ blocked \in [Writers -> Seq(Events)] /\ \A v \in Writers : Len(blocked[v]) <= 1
      /\ buffered \in Seq(Events)
      /\ outbox \in Seq(Events \cup States) /\ Len(outbox) <= Outbox /\ Len(outbox) \in Nat
      /\ conn \in {"none", "opening", "attaching", "attached"}
  BY LenProperties DEF Shape
<1>1. /\ DOMAIN us = 1..Len(us) /\ Len(us) \in Nat /\ Len(us) >= 1
      /\ \A i \in 1..Len(us) : us[i] \in Updates
  BY LenProperties, EmptySeq, ElementOfSeq
<1>2. Tail(us) \in Seq(Updates) /\ Len(Tail(us)) = Len(us) - 1
  BY FirstAndOthers
<1>3. event \in Events
  BY <1>0, <1>1 DEF Event, Events
<1>7. event.id = watermark + 1 /\ event.id > watermark
  BY <1>0 DEF Event
<1> HIDE DEF event
<1>4. <<>> \in Seq(Updates) /\ Len(<<>>) = 0
  BY ShortQueues, EmptySeq
<1>5. CASE conn = "attached"
  <2>1. /\ watermark' = watermark + 1
        /\ toSend' = [toSend EXCEPT ![w] = Tail(us)]
        /\ UNCHANGED buffered
        /\ \/ Room /\ outbox' = Append(outbox, event) /\ UNCHANGED blocked
           \/ ~Room /\ blocked' = [blocked EXCEPT ![w] = <<event>>] /\ UNCHANGED outbox
    BY <1>5 DEF Notify, event
  <2>2. /\ toSend' \in [Writers -> Seq(Updates)] /\ \A v \in Writers : Len(toSend'[v]) <= 1
        /\ watermark' \in Nat /\ watermark' >= watermark
    BY <1>0, <1>1, <1>2, <2>1
  <2>3. CASE Room /\ outbox' = Append(outbox, event) /\ UNCHANGED blocked
    <3> DEFINE out == Append(outbox, event)
    <3>a. /\ out \in Seq(Events \cup States) /\ Len(out) = Len(outbox) + 1
          /\ Messages(out) = Messages(outbox) \cup {event}
      BY <1>0, <1>3, OneMoreOut
    <3>b. outbox' = out
      BY <2>3
    <3> HIDE DEF out
    <3>1. /\ outbox' \in Seq(Events \cup States) /\ Len(outbox') = Len(outbox) + 1
          /\ Messages(outbox') = Messages(outbox) \cup {event}
      BY <3>a, <3>b
    <3>2. Len(outbox') <= Outbox
      BY <1>0, <2>3, <3>1, StreamAssumption DEF Room
    <3>3. InTransit' = InTransit \cup {event}
      BY <2>1, <2>3, <3>1, TransitParts DEF Suspended
    <3>4. Publishes(w, us)
      BY <1>5, <2>1, <3>3 DEF Publishes, event
    <3>5. Puts(w)
      BY <1>7, <2>1, <2>3, <3>1 DEF Puts, Queued
    <3> QED
      BY <1>0, <1>3, <2>1, <2>2, <2>3, <3>1, <3>2, <3>4, <3>5 DEF Outgoing
  <2>4. CASE blocked' = [blocked EXCEPT ![w] = <<event>>] /\ UNCHANGED outbox
    <3>1. /\ blocked' \in [Writers -> Seq(Events)]
          /\ \A v \in Writers : Len(blocked'[v]) <= 1
          /\ Suspended' = Suspended \cup {event}
      BY <1>3, <2>4, WriterSuspends
    <3>2. InTransit' = InTransit \cup {event}
      BY <2>1, <2>4, <3>1, TransitParts
    <3>3. Publishes(w, us)
      BY <1>5, <2>1, <3>2 DEF Publishes, event
    <3>4. Puts(w)
      BY <1>3, <1>7, <2>1, <2>4 DEF Puts, Queued
    <3> QED
      BY <1>0, <2>1, <2>2, <2>4, <3>1, <3>3, <3>4 DEF Outgoing
  <2> QED
    BY <2>1, <2>3, <2>4, SMTT(30)
<1>6. CASE conn # "attached"
  <2>1. /\ watermark' = watermark + Len(us)
        /\ toSend' = [toSend EXCEPT ![w] = <<>>]
        /\ buffered' = Buffer(Numbered(us))
        /\ UNCHANGED <<outbox, blocked>>
    BY <1>6 DEF Notify
  <2>2. /\ toSend' \in [Writers -> Seq(Updates)] /\ \A v \in Writers : Len(toSend'[v]) <= 1
        /\ watermark' \in Nat /\ watermark' >= watermark
    BY <1>0, <1>1, <1>4, <2>1
  <2>3. CASE conn = "none"
    <3>1. buffered' = buffered
      BY <2>1, <2>3 DEF Buffer
    <3>2. InTransit' = InTransit
      BY <2>1, <3>1, TransitParts DEF Suspended
    <3>3. Publishes(w, us)
      BY <1>6, <2>1, <2>3, <3>2 DEF Publishes
    <3>4. Puts(w)
      BY <2>1, <3>1 DEF Puts, Queued
    <3> QED
      BY <1>0, <2>1, <2>2, <3>1, <3>3, <3>4 DEF Outgoing
  <2>4. CASE conn \in {"opening", "attaching"}
    <3> DEFINE new == Numbered(us)
    <3>1. \A i \in 1..Len(us) : Event(watermark + i, us[i]) \in Events
      BY <1>0, <1>1 DEF Event, Events
    <3>2. /\ new \in Seq(Events) /\ DOMAIN new = 1..Len(us)
          /\ \A i \in 1..Len(us) : new[i] = Event(watermark + i, us[i])
      BY <1>1, <3>1, SeqDef DEF Numbered
    <3>3. Messages(new) = {Event(watermark + i, us[i]) : i \in 1..Len(us)}
      BY <3>2 DEF Messages
    <3>4. buffered' = buffered \o new
      BY <2>1, <2>4 DEF Buffer
    <3> HIDE DEF new
    <3>5. buffered' \in Seq(Events) /\ Messages(buffered)' = Messages(buffered) \cup Messages(new)
      BY <1>0, <3>2, <3>4, BothQueues
    <3>6. InTransit' = InTransit \cup Messages(new)
      BY <2>1, <3>5, TransitParts DEF Suspended
    <3>7. Publishes(w, us)
      BY <1>6, <2>1, <2>4, <3>3, <3>6 DEF Publishes
    <3>8. \A n \in Messages(new) : n.id > watermark
      <4>1. \A i \in 1..Len(us) : Event(watermark + i, us[i]).id > watermark
        BY <1>0, <1>1 DEF Event
      <4> QED
        BY <3>3, <4>1
    <3>9. Puts(w)
      BY <2>1, <3>5, <3>8 DEF Puts, Queued
    <3> QED
      BY <1>0, <2>1, <2>2, <3>5, <3>7, <3>9 DEF Outgoing
  <2> QED
    BY <1>0, <1>6, <2>3, <2>4
<1> QED
  BY <1>5, <1>6

-----------------------------------------------------------------------------
(* What the writers project.                                               *)

\* The updates are of different entries, and take each of them on. Those of a
\* request add an entry, or answer a callback once the turn has notified all.
Projects(w, us) ==
  /\ us \in Seq(Updates) /\ us # <<>> /\ Len(us) <= 2
  /\ \A i, j \in DOMAIN us : us[i].entry = us[j].entry => i = j
  /\ \A i \in DOMAIN us : us[i].from = history[us[i].entry] /\ us[i].from < us[i].to
  /\ w # Turn =>
       \/ Len(us) = 1 /\ us[1].from = Absent
       \/ /\ toSend[Turn] = <<>>
          /\ \A i \in DOMAIN us : us[i].from # Absent /\ us[i].to >= Resumed
  /\ Project(w, us)

\* One update, or two of different entries.
LEMMA FewUpdates ==
  /\ \A u \in Updates : <<u>> \in Seq(Updates) /\ <<u>> # <<>> /\ Len(<<u>>) = 1
                        /\ DOMAIN <<u>> = {1} /\ <<u>>[1] = u
  /\ \A u, v \in Updates : <<u, v>> \in Seq(Updates) /\ <<u, v>> # <<>> /\ Len(<<u, v>>) = 2
                           /\ DOMAIN <<u, v>> = {1, 2}
                           /\ <<u, v>>[1] = u /\ <<u, v>>[2] = v
OBVIOUS

\* An update of the turn takes its entry on.
LEMMA TurnTakesOn ==
  ASSUME Shape, NEW u \in TurnUpdates
  PROVE  u \in Updates /\ u.from = history[u.entry] /\ u.from < u.to
<1> USE DEF Absent, InProgress, Blocked, Resumed, Completed, Revisions
<1>1. PICK e \in Entries, to \in Revisions : u = Update(e, to) /\ history[e] < to
  BY DEF TurnUpdates, Shape
<1>2. history[e] \in Revisions
  BY DEF Shape
<1> QED
  BY <1>1, <1>2 DEF Update, Updates

\* The turn projects the updates of a core event.
LEMMA TurnProjects ==
  ASSUME Shape, ProjectTurn
  PROVE  \E us : Projects(Turn, us)
<1>1. PICK us \in TurnBatches : Project(Turn, us)
  BY DEF ProjectTurn
<1>2. CASE \E u \in TurnUpdates : us = <<u>>
  <2>1. PICK u \in TurnUpdates : us = <<u>>
    BY <1>2
  <2>2. u \in Updates /\ u.from = history[u.entry] /\ u.from < u.to
    BY TurnTakesOn
  <2>3. us \in Seq(Updates) /\ us # <<>> /\ Len(us) = 1 /\ DOMAIN us = {1} /\ us[1] = u
    BY <2>1, <2>2, FewUpdates
  <2>4. Projects(Turn, us)
    BY <1>1, <2>2, <2>3 DEF Projects
  <2> QED
    BY <2>4
<1>3. CASE us \in {p \in TurnUpdates \X TurnUpdates : p[1].entry # p[2].entry}
  <2>1. PICK u \in TurnUpdates, v \in TurnUpdates : us = <<u, v>> /\ u.entry # v.entry
    BY <1>3
  <2>2. /\ u \in Updates /\ u.from = history[u.entry] /\ u.from < u.to
        /\ v \in Updates /\ v.from = history[v.entry] /\ v.from < v.to
    BY TurnTakesOn
  <2>3. /\ us \in Seq(Updates) /\ us # <<>> /\ Len(us) = 2 /\ DOMAIN us = {1, 2}
        /\ us[1] = u /\ us[2] = v
    BY <2>1, <2>2, FewUpdates
  <2>4. Projects(Turn, us)
    BY <1>1, <2>1, <2>2, <2>3 DEF Projects
  <2> QED
    BY <2>4
<1> QED
  BY <1>1, <1>2, <1>3 DEF TurnBatches

\* A request adds a note.
LEMMA NoteProjects ==
  ASSUME Shape, NEW w \in Requests, NEW e \in Entries, AddNote(w, e)
  PROVE  \E us : Projects(w, us)
<1> USE DEF Absent, InProgress, Blocked, Resumed, Completed, Revisions
<1> DEFINE u == Update(e, Completed)
<1>1. history[e] = Absent /\ Project(w, <<u>>)
  BY DEF AddNote
<1>2. u \in Updates /\ u.entry = e /\ u.from = Absent /\ u.to = Completed
  BY <1>1 DEF Update, Updates
<1> HIDE DEF u
<1>3. /\ <<u>> \in Seq(Updates) /\ <<u>> # <<>> /\ Len(<<u>>) = 1 /\ DOMAIN <<u>> = {1}
      /\ <<u>>[1] = u
  BY <1>2, FewUpdates
<1> DEFINE us == <<u>>
<1>4. /\ us \in Seq(Updates) /\ us # <<>> /\ Len(us) = 1 /\ DOMAIN us = {1} /\ us[1] = u
      /\ Project(w, us)
  BY <1>1, <1>3
<1> HIDE DEF us
<1>5. Projects(w, us)
  BY <1>1, <1>2, <1>4 DEF Projects
<1> QED
  BY <1>5

\* A request answers a callback.
LEMMA AnswerProjects ==
  ASSUME Shape, NEW w \in Requests, NEW c \in Entries, NEW e \in Entries, Answer(w, c, e)
  PROVE  \E us : Projects(w, us)
<1> USE DEF Absent, InProgress, Blocked, Resumed, Completed, Revisions
<1> DEFINE u == Update(c, Completed)
           v == Update(e, Resumed)
<1>1. /\ history[c] = InProgress /\ history[e] = Blocked /\ toSend[Turn] = <<>>
      /\ Project(w, <<u, v>>)
  BY DEF Answer
<1>2. /\ u \in Updates /\ u.entry = c /\ u.from = InProgress /\ u.to = Completed
      /\ v \in Updates /\ v.entry = e /\ v.from = Blocked /\ v.to = Resumed
      /\ c # e
  BY <1>1 DEF Update, Updates
<1> HIDE DEF u, v
<1> DEFINE us == <<u, v>>
<1>4. /\ us \in Seq(Updates) /\ us # <<>> /\ Len(us) = 2 /\ DOMAIN us = {1, 2}
      /\ us[1] = u /\ us[2] = v
  BY <1>2, FewUpdates
<1>5. Project(w, us)
  BY <1>1
<1> HIDE DEF us
<1>6. Projects(w, us)
  BY <1>1, <1>2, <1>4, <1>5 DEF Projects
<1> QED
  BY <1>6

\* The history takes the updates.
LEMMA HistoryTakesThem ==
  ASSUME Shape, NEW us, NEW w \in Writers, Projects(w, us)
  PROVE  /\ history' \in [Entries -> Revisions]
         /\ \A i \in DOMAIN us : history'[us[i].entry] = us[i].to
         /\ \A e \in Entries : \/ history'[e] = history[e]
                               \/ \E i \in DOMAIN us : us[i].entry = e
<1>1. /\ us \in Seq(Updates) /\ DOMAIN us = 1..Len(us)
      /\ \A i \in DOMAIN us : us[i] \in Updates
      /\ \A i, j \in DOMAIN us : us[i].entry = us[j].entry => i = j
      /\ history' = Apply(us) /\ history \in [Entries -> Revisions]
  BY ElementOfSeq, LenProperties DEF Projects, Project, Shape
<1> DEFINE S == {us[i] : i \in DOMAIN us}
           The(e) == CHOOSE u \in S : u.entry = e
<1>2. ASSUME NEW i \in DOMAIN us
      PROVE  The(us[i].entry) = us[i]
  BY <1>1
<1>3. /\ DOMAIN history' = Entries
      /\ \A e \in Entries : history'[e] = IF \E i \in DOMAIN us : us[i].entry = e
                                          THEN The(e).to ELSE history[e]
  BY <1>1 DEF Apply
<1> HIDE DEF The
<1>4. ASSUME NEW i \in DOMAIN us
      PROVE  us[i].entry \in Entries /\ us[i].to \in Revisions /\ history'[us[i].entry] = us[i].to
  BY <1>1, <1>2, <1>3 DEF Updates
<1>5. ASSUME NEW e \in Entries
      PROVE  history'[e] \in Revisions
  BY <1>1, <1>3, <1>4
<1>6. history' = [e \in Entries |-> history'[e]]
  BY <1>1 DEF Apply
<1>7. history' \in [Entries -> Revisions]
  BY <1>5, <1>6
<1> QED
  BY <1>3, <1>4, <1>7

-----------------------------------------------------------------------------
(* The messages a writer's step adds.                                      *)

\* What the updates us of a writer become: each is an event past the watermark,
\* or is still to be notified, or nobody is connected.
Sends(us) ==
  /\ Flying \subseteq Flying' /\ Awaited' = Awaited
  /\ watermark' \in Nat /\ watermark <= watermark'
  /\ \A n \in Flying' : n \in Flying \/ /\ n.id \in (watermark + 1)..watermark'
                                        /\ n.update \in Messages(us)
  /\ \A m, n \in Flying' : m \notin Flying /\ n \notin Flying /\ m.id = n.id => m = n
  /\ conn # "none" => \A id \in (watermark + 1)..watermark' : \E n \in Flying' : n.id = id
  /\ \A u \in Messages(us) :
       u \in Pending' \/ (conn # "none" => \E n \in Flying' : n.id > watermark /\ n.update = u)
  /\ \A u \in Pending : u \in Pending' \/ u \in Messages(us)

\* Events and states are told apart.
LEMMA EventsAreEvents ==
  /\ \A id, u : /\ Event(id, u).kind = "event" /\ Event(id, u).id = id
                /\ Event(id, u).update = u
  /\ \A id, h : State(id, h).kind = "state" /\ State(id, h).id = id /\ State(id, h).view = h
BY DEF Event, State

\* Publishing sends the updates.
LEMMA PublishingSends ==
  ASSUME Shape, NEW w \in Writers, NEW us \in Seq(Updates), us # <<>>,
         toSend[w] = <<>> \/ toSend[w] = us, Publishes(w, us)
  PROVE  Sends(us)
<1>0. /\ watermark \in Nat /\ toSend \in [Writers -> Seq(Updates)]
      /\ conn \in {"none", "opening", "attaching", "attached"}
      /\ Messages(<<>>) = {}
  BY ShortQueues DEF Shape
<1>a. /\ DOMAIN us = 1..Len(us) /\ Len(us) \in Nat /\ Len(us) >= 1
      /\ <<>> \in Seq(Updates)
  BY LenProperties, EmptySeq
<1>b. Messages(us) = {us[1]} \cup Messages(Tail(us)) /\ Tail(us) \in Seq(Updates)
  BY FirstAndOthers
<1>1. /\ DOMAIN us = 1..Len(us) /\ Len(us) \in Nat /\ Len(us) >= 1
      /\ Messages(us) = {us[1]} \cup Messages(Tail(us)) /\ us[1] \in Messages(us)
      /\ \A i \in 1..Len(us) : us[i] \in Messages(us)
      /\ \A u \in Messages(us) : \E i \in 1..Len(us) : u = us[i]
      /\ Tail(us) \in Seq(Updates) /\ <<>> \in Seq(Updates)
  BY <1>a, <1>b DEF Messages
<1>2. Messages(toSend[w]) \subseteq Messages(us)
  BY <1>0
<1>3. ASSUME NEW rest \in Seq(Updates), toSend' = [toSend EXCEPT ![w] = rest]
      PROVE  /\ \A u \in Pending : u \in Pending' \/ u \in Messages(us)
             /\ Messages(rest) \subseteq Pending'
  <2>1. toSend'[w] = rest /\ \A v \in Writers \ {w} : toSend'[v] = toSend[v]
    BY <1>0, <1>3
  <2>2. ASSUME NEW u \in Pending PROVE u \in Pending' \/ u \in Messages(us)
    <3>1. PICK v \in Writers : u \in Messages(toSend[v])
      BY DEF Pending
    <3>2. CASE v = w
      BY <1>2, <3>1, <3>2
    <3>3. CASE v # w
      BY <2>1, <3>1, <3>3 DEF Pending
    <3> QED
      BY <3>2, <3>3
  <2>3. Messages(rest) \subseteq Pending'
    BY <2>1 DEF Pending
  <2> QED
    BY <2>2, <2>3
<1>4. CASE conn = "attached"
  <2> DEFINE event == Event(watermark + 1, us[1])
  <2>1. /\ toSend' = [toSend EXCEPT ![w] = Tail(us)] /\ watermark' = watermark + 1
        /\ InTransit' = InTransit \cup {event}
    BY <1>4 DEF Publishes
  <2>2. event.kind = "event" /\ event.id = watermark + 1 /\ event.update = us[1]
    BY EventsAreEvents
  <2> HIDE DEF event
  <2>3. Flying' = Flying \cup {event} /\ Awaited' = Awaited
    BY <2>1, <2>2 DEF Flying, Awaited
  <2>4. /\ \A u \in Pending : u \in Pending' \/ u \in Messages(us)
        /\ Messages(Tail(us)) \subseteq Pending'
    BY <1>1, <1>3, <2>1
  <2>5. \A u \in Messages(us) :
          u \in Pending' \/ \E n \in Flying' : n.id > watermark /\ n.update = u
    BY <1>0, <1>1, <2>2, <2>3, <2>4
  <2>6. \A id \in (watermark + 1)..watermark' : \E n \in Flying' : n.id = id
    BY <1>0, <2>1, <2>2, <2>3
  <2> QED
    BY <1>0, <1>1, <2>1, <2>2, <2>3, <2>4, <2>5, <2>6 DEF Sends
<1>5. CASE conn \in {"opening", "attaching"}
  <2> DEFINE New(i) == Event(watermark + i, us[i])
  <2>1. /\ toSend' = [toSend EXCEPT ![w] = <<>>] /\ watermark' = watermark + Len(us)
        /\ InTransit' = InTransit \cup {New(i) : i \in 1..Len(us)}
    BY <1>5 DEF Publishes
  <2>2. \A i \in 1..Len(us) : New(i).kind = "event" /\ New(i).id = watermark + i
                              /\ New(i).update = us[i]
    BY EventsAreEvents
  <2> HIDE DEF New
  <2>3. Flying' = Flying \cup {New(i) : i \in 1..Len(us)} /\ Awaited' = Awaited
    BY <2>1, <2>2 DEF Flying, Awaited
  <2>4. \A u \in Pending : u \in Pending' \/ u \in Messages(us)
    BY <1>1, <1>3, <2>1
  <2>5. \A u \in Messages(us) : \E n \in Flying' : n.id > watermark /\ n.update = u
    <3>1. ASSUME NEW u \in Messages(us) PROVE \E n \in Flying' : n.id > watermark /\ n.update = u
      <4>1. PICK i \in 1..Len(us) : u = us[i]
        BY <1>1
      <4>2. New(i) \in Flying' /\ New(i).id > watermark /\ New(i).update = u
        BY <1>0, <1>1, <2>2, <2>3, <4>1
      <4> QED
        BY <4>2
    <3> QED
      BY <3>1
  <2>6. ASSUME NEW id \in (watermark + 1)..watermark' PROVE \E n \in Flying' : n.id = id
    <3>1. id - watermark \in 1..Len(us)
      BY <1>0, <1>1, <2>1
    <3>2. New(id - watermark) \in Flying' /\ New(id - watermark).id = id
      BY <1>0, <2>2, <2>3, <3>1
    <3> QED
      BY <3>2
  <2>7. \A n \in Flying' : n \in Flying \/ \E i \in 1..Len(us) : n = New(i)
    BY <2>3
  <2>8. \A n \in Flying' : n \in Flying \/ /\ n.id \in (watermark + 1)..watermark'
                                           /\ n.update \in Messages(us)
    <3>1. ASSUME NEW n \in Flying', n \notin Flying
          PROVE  n.id \in (watermark + 1)..watermark' /\ n.update \in Messages(us)
      <4>1. PICK i \in 1..Len(us) : n = New(i)
        BY <2>7, <3>1
      <4> QED
        BY <1>0, <1>1, <2>1, <2>2, <4>1
    <3> QED
      BY <3>1
  <2>9. \A m, n \in Flying' : m \notin Flying /\ n \notin Flying /\ m.id = n.id => m = n
    <3>1. ASSUME NEW m \in Flying', NEW n \in Flying', m \notin Flying, n \notin Flying, m.id = n.id
          PROVE  m = n
      <4>1. PICK i \in 1..Len(us), j \in 1..Len(us) : m = New(i) /\ n = New(j)
        BY <2>7, <3>1
      <4>2. i = j
        BY <1>0, <2>2, <3>1, <4>1
      <4> QED
        BY <4>1, <4>2
    <3> QED
      BY <3>1
  <2>10. watermark' \in Nat /\ watermark <= watermark' /\ Flying \subseteq Flying'
    BY <1>0, <1>1, <2>1, <2>3
  <2> HIDE DEF Flying, Awaited, Pending
  <2> QED
    BY <2>3, <2>4, <2>5, <2>6, <2>8, <2>9, <2>10 DEF Sends
<1>6. CASE conn = "none"
  <2>1. /\ toSend' = [toSend EXCEPT ![w] = <<>>] /\ watermark' = watermark + Len(us)
        /\ InTransit' = InTransit
    BY <1>6 DEF Publishes
  <2>2. \A u \in Pending : u \in Pending' \/ u \in Messages(us)
    BY <1>1, <1>3, <2>1
  <2>3. Flying' = Flying /\ Awaited' = Awaited
    BY <2>1 DEF Flying, Awaited
  <2> QED
    BY <1>0, <1>1, <1>6, <2>1, <2>2, <2>3 DEF Sends
<1> QED
  BY <1>0, <1>4, <1>5, <1>6

\* What is new of the history is among the updates, which are of the last
\* revisions; an entry with a patch among them is not still to be added.
TakesOn(us) ==
  /\ history' \in [Entries -> Revisions]
  /\ \A e \in Entries : history'[e] # history[e] =>
       \E u \in Messages(us) : /\ u.entry = e /\ u.to = history'[e] /\ u.from = history[e]
                               /\ history[e] < history'[e]
  /\ \A u \in Messages(us) :
       /\ u \in Updates /\ u.from < u.to /\ IsRecent(u)'
       /\ u.from # Absent => /\ history[u.entry] # Absent
                             /\ \A x \in Pending : x.entry = u.entry => x.from # Absent

\* The event the turn waits to put is new, or what it has left behind it is not.
TurnWaits ==
  \A m \in Messages(blocked[Turn])' :
    \/ m.id \in Nat /\ m.id > watermark
    \/ m \in Messages(blocked[Turn]) /\ toSend'[Turn] = toSend[Turn]

\* A step of a writer.
Publication(us) ==
  Sends(us) /\ TakesOn(us) /\ TurnWaits /\ UNCHANGED <<conn, mode, view, lastId, lost>>

\* A turn that notifies waits for no other put, and a request leaves the turn's.
LEMMA TurnKeepsWaiting ==
  ASSUME Shape, NEW w \in Writers, blocked[w] = <<>>, Puts(w),
         w # Turn => toSend'[Turn] = toSend[Turn]
  PROVE  TurnWaits
<1>0. Turn \in Writers /\ blocked \in [Writers -> Seq(Events)] /\ Messages(<<>>) = {}
  BY ShortQueues DEF Shape, Writers
<1>1. CASE UNCHANGED blocked
  BY <1>0, <1>1 DEF TurnWaits
<1>2. ASSUME NEW m \in Events, m.id > watermark, blocked' = [blocked EXCEPT ![w] = <<m>>]
      PROVE  TurnWaits
  <2>1. Messages(<<m>>) = {m}
    BY ShortQueues
  <2>2. CASE w = Turn
    <3>1. Messages(blocked[Turn])' = {m}
      BY <1>0, <1>2, <2>1, <2>2
    <3> QED
      BY <1>2, <3>1 DEF TurnWaits, Events
  <2>3. CASE w # Turn
    <3>1. blocked'[Turn] = blocked[Turn]
      BY <1>0, <1>2, <2>3
    <3> QED
      BY <2>3, <3>1 DEF TurnWaits
  <2> QED
    BY <2>2, <2>3
<1> QED
  BY <1>1, <1>2 DEF Puts

\* What a writer has left is of what it had.
LEMMA WhatIsLeft ==
  ASSUME Shape, NEW w \in Writers, NEW us \in Seq(Updates), us # <<>>, Publishes(w, us)
  PROVE  /\ \A v \in Writers \ {w} : toSend'[v] = toSend[v]
         /\ \A i \in DOMAIN toSend'[w] : \E j \in DOMAIN us : toSend'[w][i] = us[j]
         /\ Len(us) = 1 => DOMAIN toSend'[w] = {}
<1>0. DOMAIN <<>> = {} /\ toSend \in [Writers -> Seq(Updates)]
  BY DEF Shape
<1>1. /\ Tail(us) \in Seq(Updates) /\ Len(Tail(us)) = Len(us) - 1
      /\ \A i \in DOMAIN Tail(us) : i + 1 \in DOMAIN us /\ Tail(us)[i] = us[i + 1]
  BY FirstAndOthers
<1>2. Len(us) = 1 => DOMAIN Tail(us) = {}
  BY <1>1, LenProperties
<1>3. \E rest : /\ toSend' = [toSend EXCEPT ![w] = rest]
                /\ rest = Tail(us) \/ rest = <<>>
  BY DEF Publishes
<1>4. PICK rest : /\ toSend' = [toSend EXCEPT ![w] = rest]
                  /\ rest = Tail(us) \/ rest = <<>>
  BY <1>3
<1>5. toSend'[w] = rest /\ \A v \in Writers \ {w} : toSend'[v] = toSend[v]
  BY <1>0, <1>4
<1>6. \A i \in DOMAIN rest : \E j \in DOMAIN us : rest[i] = us[j]
  BY <1>0, <1>1, <1>4
<1>7. Len(us) = 1 => DOMAIN rest = {}
  BY <1>0, <1>2, <1>4
<1> QED
  BY <1>5, <1>6, <1>7

\* Projecting.
LEMMA ProjectingIsPublication ==
  ASSUME Shape, UpdatesAreRecent, NEW w \in Writers, NEW us, Projects(w, us)
  PROVE  Publication(us)
<1>1. /\ us \in Seq(Updates) /\ us # <<>> /\ Len(us) <= 2
      /\ toSend[w] = <<>> /\ blocked[w] = <<>>
      /\ Notify(w, us) /\ UNCHANGED <<conn, answer, clientVars, lost>>
  BY DEF Projects, Project, Idle
<1>2. Sends(us)
  BY <1>1, NotifyPublishes, PublishingSends DEF clientVars
<1>3. /\ history' \in [Entries -> Revisions] /\ history \in [Entries -> Revisions]
      /\ \A i \in DOMAIN us : history'[us[i].entry] = us[i].to
      /\ \A e \in Entries : \/ history'[e] = history[e]
                            \/ \E i \in DOMAIN us : us[i].entry = e
  BY HistoryTakesThem DEF Shape
<1>4. /\ DOMAIN us = 1..Len(us) /\ \A i \in DOMAIN us : us[i] \in Updates
      /\ \A i \in DOMAIN us : us[i].from = history[us[i].entry] /\ us[i].from < us[i].to
  BY <1>1, ElementOfSeq, LenProperties DEF Projects
<1>5. \A e \in Entries : history'[e] # history[e] =>
        \E u \in Messages(us) : /\ u.entry = e /\ u.to = history'[e] /\ u.from = history[e]
                                /\ history[e] < history'[e]
  BY <1>3, <1>4 DEF Messages
<1>6. ASSUME NEW u \in Messages(us), u.from # Absent, NEW x \in Pending, x.entry = u.entry
      PROVE  x.from # Absent
  <2>0. PICK v \in Writers : x \in Messages(toSend[v])
    BY DEF Pending
  <2>1. PICK j \in DOMAIN toSend[v] : x = toSend[v][j]
    BY <2>0 DEF Messages
  <2>2. CASE v # Turn
    BY <2>1, <2>2 DEF UpdatesAreRecent
  <2>3. CASE v = Turn
    <3>1. toSend[Turn] # <<>>
      BY <2>1, <2>3
    <3>2. w # Turn
      BY <1>1, <3>1
    <3>3. Len(us) = 1 /\ us[1].from = Absent
      BY <3>1, <3>2 DEF Projects
    <3>4. u = us[1]
      BY <1>4, <3>3 DEF Messages
    <3> QED
      BY <1>6, <3>3, <3>4
  <2> QED
    BY <2>2, <2>3
<1>7. ASSUME NEW u \in Messages(us)
      PROVE  /\ u \in Updates /\ u.from < u.to /\ IsRecent(u)'
             /\ u.from # Absent => history[u.entry] # Absent
  BY <1>3, <1>4 DEF Messages, IsRecent
<1>8. TakesOn(us)
  BY <1>3, <1>5, <1>6, <1>7 DEF TakesOn
<1>9. TurnWaits
  <2>1. Publishes(w, us) /\ Puts(w)
    BY <1>1, NotifyPublishes DEF clientVars
  <2>2. Turn \in Writers
    BY DEF Writers
  <2> QED
    BY <1>1, <2>1, <2>2, WhatIsLeft, TurnKeepsWaiting
<1> QED
  BY <1>1, <1>2, <1>8, <1>9 DEF Publication, clientVars

\* Notifying what was projected before.
LEMMA NotifyingIsPublication ==
  ASSUME Shape, UpdatesAreRecent, NEW w \in Writers, NotifyNext(w)
  PROVE  Publication(toSend[w])
<1> DEFINE us == toSend[w]
<1>1. /\ us \in Seq(Updates) /\ us # <<>> /\ Len(us) <= 1 /\ blocked[w] = <<>>
      /\ Notify(w, us) /\ UNCHANGED <<history, conn, answer, clientVars, lost>>
  BY DEF NotifyNext, Shape
<1>8. TurnWaits
  <2>1. Publishes(w, us) /\ Puts(w)
    BY <1>1, NotifyPublishes DEF clientVars
  <2>2. Turn \in Writers /\ us \in Seq(Updates)
    BY <1>1 DEF Writers
  <2> QED
    BY <1>1, <2>1, <2>2, WhatIsLeft, TurnKeepsWaiting
<1>2. Sends(us)
  BY <1>1, NotifyPublishes, PublishingSends DEF clientVars
<1>3. /\ DOMAIN us = 1..Len(us) /\ Len(us) \in Nat /\ \A i \in DOMAIN us : us[i] \in Updates
      /\ history \in [Entries -> Revisions]
  BY <1>1, ElementOfSeq, LenProperties DEF Shape
<1>4. \A i \in DOMAIN us : us[i].from < us[i].to /\ IsRecent(us[i])
  BY DEF UpdatesAreRecent
<1>5. ASSUME NEW u \in Messages(us)
      PROVE  /\ u \in Updates /\ u.from < u.to /\ IsRecent(u)
             /\ history[u.entry] # Absent
  <2>1. u \in Updates /\ u.from < u.to /\ IsRecent(u)
    BY <1>3, <1>4 DEF Messages
  <2> QED
    BY <2>1 DEF Updates, Revisions, Absent, Resumed, Completed, IsRecent
<1>6. ASSUME NEW u \in Messages(us), u.from # Absent, NEW x \in Pending, x.entry = u.entry
      PROVE  x.from # Absent
  <2>0. PICK v \in Writers : x \in Messages(toSend[v])
    BY DEF Pending
  <2>1. PICK j \in DOMAIN toSend[v] : x = toSend[v][j]
    BY <2>0 DEF Messages
  <2>2. PICK i \in DOMAIN us : u = us[i]
    BY DEF Messages
  <2>3. CASE v # Turn
    BY <2>1, <2>3 DEF UpdatesAreRecent
  <2>4. CASE v = Turn /\ w # Turn
    BY <1>6, <2>1, <2>2, <2>4 DEF UpdatesAreRecent
  <2>5. CASE v = Turn /\ w = Turn
    <3>1. i = j
      BY <1>1, <1>3, <2>1, <2>2, <2>5
    <3> QED
      BY <1>6, <2>1, <2>2, <2>5, <3>1
  <2> QED
    BY <2>3, <2>4, <2>5
<1> HIDE DEF us
<1>7. TakesOn(us)
  BY <1>1, <1>3, <1>5, <1>6 DEF TakesOn, IsRecent
<1> QED
  BY <1>1, <1>2, <1>7, <1>8 DEF Publication, clientVars, us

-----------------------------------------------------------------------------
(* Publications keep what was said of events and views.                    *)

\* Events and states are what they are called, and their numbers were given.
LEMMA TransitIsSorted ==
  ASSUME TypeOK
  PROVE  /\ \A m \in Flying : /\ m \in Events /\ m.id \in Nat \ {0} /\ m.id <= watermark
                              /\ m.update \in Updates
         /\ \A m \in lost : /\ m \in Events /\ m.id \in Nat \ {0} /\ m.id <= watermark
                            /\ m.update \in Updates
         /\ \A s \in Awaited : /\ s \in States /\ s.id \in Nat /\ s.id <= watermark
                               /\ s.view \in [Entries -> Revisions]
<1>1. InTransit \subseteq Events \cup States /\ \A m \in InTransit : m.id <= watermark
  BY TransitIsTyped DEF TypeOK
<1>2. /\ \A m \in Events : m.kind = "event" /\ m.id \in Nat \ {0} /\ m.update \in Updates
      /\ \A s \in States : s.kind = "state" /\ s.id \in Nat /\ s.view \in [Entries -> Revisions]
  BY DEF Events, States
<1>3. lost \subseteq Events /\ \A m \in lost : m.id <= watermark
  BY DEF TypeOK, Shape
<1> QED
  BY <1>1, <1>2, <1>3 DEF Flying, Awaited

\* New events have new numbers, and take their entries on.
LEMMA PublicationNumbers ==
  ASSUME TypeOK, EventsAreNumbered, NEW us, Publication(us)
  PROVE  EventsAreNumbered'
<1>0. /\ \A m \in Flying : m.id \in Nat \ {0} /\ m.id <= watermark /\ m.update \in Updates
      /\ watermark \in Nat /\ history \in [Entries -> Revisions]
  BY TransitIsSorted DEF TypeOK, Shape
<1>1. Sends(us) /\ TakesOn(us)
  BY DEF Publication
<1>2. ASSUME NEW m \in Flying', NEW n \in Flying', m.id = n.id
      PROVE  m = n
  <2>1. CASE m \in Flying /\ n \in Flying
    BY <1>2, <2>1 DEF EventsAreNumbered
  <2>2. CASE m \notin Flying /\ n \notin Flying
    BY <1>1, <1>2, <2>2 DEF Sends
  <2>3. CASE m \in Flying /\ n \notin Flying
    <3>1. m.id <= watermark /\ n.id > watermark
      BY <1>0, <1>1, <2>3 DEF Sends
    <3> QED
      BY <1>0, <1>2, <2>3, <3>1
  <2>4. CASE m \notin Flying /\ n \in Flying
    <3>1. n.id <= watermark /\ m.id > watermark
      BY <1>0, <1>1, <2>4 DEF Sends
    <3> QED
      BY <1>0, <1>2, <2>4, <3>1
  <2> QED
    BY <2>1, <2>2, <2>3, <2>4
<1>3. \A e \in Entries : history[e] <= history'[e] /\ history[e] \in Nat /\ history'[e] \in Nat
  BY <1>0, <1>1 DEF TakesOn, Revisions, Absent, Completed
<1>4. ASSUME NEW m \in Flying'
      PROVE  m.update.from < m.update.to /\ m.update.to <= history'[m.update.entry]
  <2>1. CASE m \in Flying
    <3>1. m.update.entry \in Entries /\ m.update.to \in Nat
      BY <1>0, <2>1 DEF Updates, Revisions, Absent, Completed
    <3> QED
      BY <1>3, <2>1, <3>1 DEF EventsAreNumbered
  <2>2. CASE m \notin Flying
    <3>1. m.update \in Messages(us)
      BY <1>1, <2>2 DEF Sends
    <3>2. m.update \in Updates /\ m.update.from < m.update.to /\ IsRecent(m.update)'
      BY <1>1, <3>1 DEF TakesOn
    <3> QED
      BY <3>2 DEF IsRecent, Updates, Revisions, Absent, Resumed, Completed
  <2> QED
    BY <2>1, <2>2
<1>5. ASSUME NEW m \in Flying', NEW n \in Flying', m.id < n.id,
             m.update.entry = n.update.entry
      PROVE  m.update.to <= n.update.to \/ m.update.to = Completed
  <2>1. CASE n \in Flying
    <3>1. m \in Flying
      <4>1. m \notin Flying => m.id > watermark /\ m.id \in Nat
        BY <1>0, <1>1 DEF Sends
      <4>2. n.id <= watermark /\ n.id \in Nat
        BY <1>0, <2>1
      <4> QED
        BY <1>0, <1>5, <4>1, <4>2
    <3> QED
      BY <1>5, <2>1, <3>1 DEF EventsAreNumbered
  <2>2. CASE n \notin Flying
    <3>1. n.update \in Messages(us)
      BY <1>1, <2>2 DEF Sends
    <3>2. n.update \in Updates /\ IsRecent(n.update)'
      BY <1>1, <3>1 DEF TakesOn
    <3>3. m.update \in Updates
      BY <1>0, <1>1 DEF Sends, TakesOn
    <3> QED
      BY <1>4, <1>5, <3>2, <3>3
      DEF IsRecent, Updates, Revisions, Absent, Resumed, Completed
  <2> QED
    BY <2>1, <2>2
<1> QED
  BY <1>2, <1>4, <1>5 DEF EventsAreNumbered

\* New events do not take a view back.
LEMMA PublicationIsAhead ==
  ASSUME TypeOK, NEW us, Publication(us),
         NEW v \in [Entries -> Revisions], NEW k \in Nat, IsBehind(v, k)
  PROVE  IsBehind(v, k)'
<1> USE DEF Revisions, Absent, Resumed, Completed
<1>0. /\ watermark \in Nat /\ history \in [Entries -> Revisions]
      /\ \A m \in Flying : m.update \in Updates
  BY TransitIsSorted DEF TypeOK, Shape
<1>1. Sends(us) /\ TakesOn(us)
  BY DEF Publication
<1>2. \A e \in Entries : history[e] <= history'[e] /\ history'[e] \in 0..4
  BY <1>0, <1>1 DEF TakesOn
<1>3. \A e \in Entries : v[e] <= history'[e]
  BY <1>0, <1>2 DEF IsBehind
<1>4. ASSUME NEW m \in Flying', m.id > k
      PROVE  \/ v[m.update.entry] <= m.update.to
             \/ v[m.update.entry] = Completed
             \/ m.update.from = Absent
  <2>1. CASE m \in Flying
    BY <1>4, <2>1 DEF IsBehind
  <2>2. CASE m \notin Flying
    <3>1. m.update \in Messages(us)
      BY <1>1, <2>2 DEF Sends
    <3>2. m.update \in Updates /\ IsRecent(m.update)'
      BY <1>1, <3>1 DEF TakesOn
    <3>3. m.update.entry \in Entries /\ v[m.update.entry] \in 0..4
      BY <3>2 DEF Updates
    <3>4. CASE history'[m.update.entry] = m.update.to
      BY <1>3, <3>3, <3>4
    <3>5. CASE history'[m.update.entry] = Completed /\ m.update.to = Resumed
      BY <3>3, <3>5
    <3> QED
      BY <3>2, <3>4, <3>5 DEF IsRecent
  <2> QED
    BY <2>1, <2>2
<1> QED
  BY <1>3, <1>4 DEF IsBehind

\* New events follow those that bring a view up to date.
LEMMA PublicationFollows ==
  ASSUME TypeOK, NEW us, Publication(us), conn # "none",
         NEW v \in [Entries -> Revisions], NEW k \in Nat, k <= watermark, IsCaughtUp(v, k)
  PROVE  IsCaughtUp(v, k)'
<1>0. /\ watermark \in Nat /\ history \in [Entries -> Revisions]
      /\ \A m \in Sent : m.id \in Nat \ {0} /\ m.id <= watermark /\ m.update \in Updates
  BY TransitIsSorted DEF TypeOK, Shape, Sent
<1>1. Sends(us) /\ TakesOn(us) /\ TurnWaits /\ lost' = lost
  BY DEF Publication
<1>2. /\ Sent \subseteq Sent' /\ Flying' \subseteq Sent' /\ Flying \subseteq Sent
      /\ watermark' \in Nat /\ watermark <= watermark'
  BY <1>1 DEF Sends, Sent
<1>3. \A n \in Flying' : n.id \in Nat
  BY <1>0, <1>1, <1>2 DEF Sends
<1>4. ASSUME NEW u \in Messages(us) \cup Pending
      PROVE  u \in Pending' \/ \E n \in Sent' : n.id > k /\ n.update = u
  <2>1. u \in Pending' \/ u \in Messages(us)
    BY <1>1 DEF Sends
  <2>2. u \in Messages(us) =>
          u \in Pending' \/ \E n \in Flying' : n.id > watermark /\ n.update = u
    BY <1>1 DEF Sends
  <2> QED
    BY <1>0, <1>2, <1>3, <2>1, <2>2
<1>5. ASSUME NEW id \in (k + 1)..watermark' PROVE \E m \in Sent' : m.id = id
  <2>1. CASE id <= watermark
    BY <1>0, <1>2, <2>1 DEF IsCaughtUp
  <2>2. CASE id > watermark
    <3>1. id \in (watermark + 1)..watermark'
      BY <1>0, <1>2, <2>2
    <3> QED
      BY <1>1, <1>2, <3>1 DEF Sends
  <2> QED
    BY <1>0, <1>2, <2>1, <2>2
<1>6. ASSUME NEW e \in Entries
      PROVE  \/ v[e] = history'[e]
             \/ \E m \in Sent' : m.id > k /\ m.update.entry = e /\ m.update.to = history'[e]
             \/ \E u \in Pending' : u.entry = e /\ u.to = history'[e]
  <2>1. CASE history'[e] # history[e]
    <3>1. PICK u \in Messages(us) : u.entry = e /\ u.to = history'[e]
      BY <1>1, <2>1 DEF TakesOn
    <3> QED
      BY <1>4, <3>1
  <2>2. CASE history'[e] = history[e] /\ \E u \in Pending : u.entry = e /\ u.to = history[e]
    <3>1. PICK u \in Pending : u.entry = e /\ u.to = history'[e]
      BY <2>2
    <3> QED
      BY <1>4, <3>1
  <2>3. CASE /\ history'[e] = history[e]
             /\ \/ v[e] = history[e]
                \/ \E m \in Sent : m.id > k /\ m.update.entry = e /\ m.update.to = history[e]
    BY <1>2, <2>3
  <2> QED
    BY <2>1, <2>2, <2>3 DEF IsCaughtUp
<1>7. ASSUME NEW e \in Entries, v[e] = Absent
      PROVE  \/ history'[e] = Absent
             \/ \E m \in Sent' : m.id > k /\ m.update.entry = e /\ m.update.from = Absent
             \/ \E u \in Pending' : u.entry = e /\ u.from = Absent
  <2>1. CASE history[e] = Absent /\ history'[e] # Absent
    <3>1. PICK u \in Messages(us) : u.entry = e /\ u.from = Absent
      BY <1>1, <2>1 DEF TakesOn
    <3> QED
      BY <1>4, <3>1
  <2>2. CASE \E u \in Pending : u.entry = e /\ u.from = Absent
    <3>1. PICK u \in Pending : u.entry = e /\ u.from = Absent
      BY <2>2
    <3> QED
      BY <1>4, <3>1
  <2>3. CASE \E m \in Sent : m.id > k /\ m.update.entry = e /\ m.update.from = Absent
    BY <1>2, <2>3
  <2> QED
    BY <1>7, <2>1, <2>2, <2>3 DEF IsCaughtUp
<1>8. ASSUME NEW m \in Flying', m.id > k, m.update.from # Absent, v[m.update.entry] = Absent
      PROVE  \E n \in Sent' : /\ n.id > k /\ n.id < m.id
                              /\ n.update.entry = m.update.entry
                              /\ n.update.from = Absent
  <2>1. CASE m \in Flying
    BY <1>2, <1>8, <2>1 DEF IsCaughtUp
  <2>2. CASE m \notin Flying
    <3>1. m.id \in (watermark + 1)..watermark' /\ m.update \in Messages(us)
      BY <1>1, <2>2 DEF Sends
    <3>2. /\ m.update \in Updates /\ history[m.update.entry] # Absent
          /\ \A x \in Pending : x.entry = m.update.entry => x.from # Absent
      BY <1>1, <1>8, <3>1 DEF TakesOn
    <3>3. m.update.entry \in Entries
      BY <3>2 DEF Updates
    <3>4. PICK n \in Sent : /\ n.id > k /\ n.update.entry = m.update.entry
                            /\ n.update.from = Absent
      BY <1>8, <3>2, <3>3 DEF IsCaughtUp
    <3>5. n.id < m.id
      BY <1>0, <3>1
    <3> QED
      BY <1>2, <3>4, <3>5
  <2> QED
    BY <2>1, <2>2
<1>9. ASSUME NEW m \in Messages(blocked[Turn])', m.id <= k, NEW u \in Messages(toSend[Turn])'
      PROVE  u.to <= v[u.entry]
  <2>1. CASE m.id \in Nat /\ m.id > watermark
    BY <1>0, <1>9, <2>1
  <2>2. CASE m \in Messages(blocked[Turn]) /\ toSend'[Turn] = toSend[Turn]
    BY <1>9, <2>2 DEF IsCaughtUp
  <2> QED
    BY <1>1, <1>9, <2>1, <2>2 DEF TurnWaits
<1> QED
  BY <1>5, <1>6, <1>7, <1>8, <1>9 DEF IsCaughtUp

\* A step of a writer leaves every view, shown or on its way, as good as it was.
LEMMA PublicationKeepsViews ==
  ASSUME TypeOK, ViewIsBehind, ViewIsCaughtUp, NEW us, Publication(us)
  PROVE  ViewIsBehind' /\ ViewIsCaughtUp'
<1>0. /\ watermark \in Nat /\ history \in [Entries -> Revisions]
      /\ view \in [Entries -> Revisions] /\ lastId \in Nat /\ lastId <= watermark
      /\ \A s \in Awaited : /\ s.id \in Nat /\ s.id <= watermark
                            /\ s.view \in [Entries -> Revisions]
  BY TransitIsSorted DEF TypeOK, Shape
<1>1. UNCHANGED <<conn, mode, view, lastId>> /\ Awaited' = Awaited /\ TakesOn(us)
  BY DEF Publication, Sends
<1>2. \A e \in Entries : view[e] <= history'[e]
  BY <1>0, <1>1 DEF TakesOn, ViewIsBehind, Revisions, Absent, Completed
<1>3. ASSUME NEW v \in [Entries -> Revisions], NEW k \in Nat, IsBehind(v, k)
      PROVE  IsBehind(v, k)'
  BY <1>3, PublicationIsAhead
<1>4. ASSUME conn # "none", NEW v \in [Entries -> Revisions], NEW k \in Nat, k <= watermark,
             IsCaughtUp(v, k)
      PROVE  IsCaughtUp(v, k)'
  BY <1>4, PublicationFollows
<1>5. mode' = "up" => IsBehind(view, lastId)'
  <2>1. mode' = "up" => IsBehind(view, lastId)
    BY <1>1 DEF ViewIsBehind
  <2> QED
    BY <1>0, <1>1, <1>3, <2>1 DEF IsBehind
<1>6. ASSUME NEW s \in Awaited PROVE IsBehind(s.view, s.id)'
  BY <1>0, <1>3 DEF ViewIsBehind
<1>7. conn' # "none" /\ mode' = "up" => IsCaughtUp(view, lastId)'
  <2>1. conn' # "none" /\ mode' = "up" => IsCaughtUp(view, lastId)
    BY <1>1 DEF ViewIsCaughtUp
  <2> QED
    BY <1>0, <1>1, <1>4, <2>1 DEF IsCaughtUp
<1>8. ASSUME NEW s \in Awaited, conn' # "none" PROVE IsCaughtUp(s.view, s.id)'
  BY <1>0, <1>1, <1>4, <1>8 DEF ViewIsCaughtUp
<1>9. \A s \in Awaited : \A e \in Entries : view[e] <= s.view[e]
  BY DEF ViewIsBehind
<1>10. ViewIsBehind'
  BY <1>1, <1>2, <1>5, <1>6, <1>9 DEF ViewIsBehind
<1>11. ViewIsCaughtUp'
  BY <1>1, <1>7, <1>8 DEF ViewIsCaughtUp
<1> QED
  BY <1>10, <1>11

-----------------------------------------------------------------------------
(* What is still to be notified.                                           *)

\* A step that only drops updates.
LEMMA DroppingKeepsRecent ==
  ASSUME UpdatesAreRecent, UNCHANGED history,
         \A w \in Writers : toSend'[w] = toSend[w] \/ toSend'[w] = <<>>
  PROVE  UpdatesAreRecent'
<1>0. DOMAIN <<>> = {}
  OBVIOUS
<1>1. \A w \in Writers : \A i \in DOMAIN toSend'[w] :
        i \in DOMAIN toSend[w] /\ toSend'[w][i] = toSend[w][i]
  BY <1>0
<1>2. Turn \in Writers
  BY DEF Writers
<1> QED
  BY <1>1, <1>2 DEF UpdatesAreRecent, IsRecent

\* An update that is still recent after a step.
StaysRecent(u) ==
  history'[u.entry] = u.to \/ (history'[u.entry] = Completed /\ u.to = Resumed)

\* Projecting leaves recent updates.
LEMMA ProjectingKeepsRecent ==
  ASSUME Shape, UpdatesAreRecent, NEW w \in Writers, NEW us, Projects(w, us)
  PROVE  UpdatesAreRecent'
<1> USE DEF Revisions, Absent, Resumed, Completed
<1>1. /\ us \in Seq(Updates) /\ us # <<>> /\ Len(us) <= 2
      /\ blocked[w] = <<>> /\ Notify(w, us) /\ UNCHANGED <<conn, answer, clientVars>>
  BY DEF Projects, Project, Idle
<1>2. Publishes(w, us)
  BY <1>1, NotifyPublishes DEF clientVars
<1>3. /\ \A v \in Writers \ {w} : toSend'[v] = toSend[v]
      /\ \A i \in DOMAIN toSend'[w] : \E j \in DOMAIN us : toSend'[w][i] = us[j]
      /\ Len(us) = 1 => DOMAIN toSend'[w] = {}
  BY <1>1, <1>2, WhatIsLeft
<1>4. /\ history' \in [Entries -> Revisions] /\ history \in [Entries -> Revisions]
      /\ toSend \in [Writers -> Seq(Updates)]
      /\ \A i \in DOMAIN us : history'[us[i].entry] = us[i].to
      /\ \A e \in Entries : \/ history'[e] = history[e]
                            \/ \E i \in DOMAIN us : us[i].entry = e
  BY HistoryTakesThem DEF Shape
<1>a. DOMAIN us = 1..Len(us) /\ \A i \in DOMAIN us : us[i] \in Updates
  BY <1>1, ElementOfSeq, LenProperties
<1>b. ASSUME NEW v \in Writers, NEW i \in DOMAIN toSend[v]
      PROVE  toSend[v][i] \in Updates
  <2>1. toSend[v] \in Seq(Updates)
    BY <1>4
  <2> QED
    BY <2>1, ElementOfSeq, LenProperties
<1>5. /\ DOMAIN us = 1..Len(us) /\ \A i \in DOMAIN us : us[i] \in Updates
      /\ \A i \in DOMAIN us : us[i].from = history[us[i].entry] /\ us[i].from < us[i].to
      /\ \A u \in Updates : u.entry \in Entries /\ u.from \in 0..4 /\ u.to \in 0..4
      /\ \A v \in Writers : \A i \in DOMAIN toSend[v] : toSend[v][i] \in Updates
      /\ Turn \in Writers
  BY <1>a, <1>b DEF Projects, Updates, Writers
<1>6. w # Turn => \/ Len(us) = 1 /\ us[1].from = Absent
                  \/ /\ DOMAIN toSend[Turn] = {}
                     /\ \A i \in DOMAIN us : us[i].from # Absent /\ us[i].to >= Resumed
  BY DEF Projects
<1>7. ASSUME NEW i \in DOMAIN toSend'[w]
      PROVE  LET u == toSend'[w][i] IN
             /\ u.from < u.to /\ StaysRecent(u)
             /\ w # Turn => u.from # Absent /\ u.to >= Resumed
  <2>1. PICK j \in DOMAIN us : toSend'[w][i] = us[j]
    BY <1>3
  <2>2. us[j].from < us[j].to /\ StaysRecent(us[j])
    BY <1>4, <1>5 DEF StaysRecent
  <2>3. w # Turn => us[j].from # Absent /\ us[j].to >= Resumed
    BY <1>3, <1>6, <1>7
  <2> QED
    BY <2>1, <2>2, <2>3
<1>8. ASSUME NEW v \in Writers, v # w, NEW i \in DOMAIN toSend[v]
      PROVE  StaysRecent(toSend[v][i])
  <2> DEFINE u == toSend[v][i]
  <2>1. /\ u \in Updates /\ u.from < u.to /\ IsRecent(u)
        /\ v # Turn => u.to >= Resumed
    BY <1>5 DEF UpdatesAreRecent
  <2>2. u.entry \in Entries /\ u.from \in 0..4 /\ u.to \in 0..4
    BY <1>5, <2>1
  <2> HIDE DEF u
  <2>3. CASE history'[u.entry] = history[u.entry]
    BY <2>1, <2>3 DEF IsRecent, StaysRecent, u
  <2>4. CASE history'[u.entry] # history[u.entry]
    <3>1. PICK j \in DOMAIN us : us[j].entry = u.entry
      BY <1>4, <2>2, <2>4
    <3>2. history[u.entry] = us[j].from /\ us[j].from < us[j].to /\ history'[u.entry] = us[j].to
          /\ us[j].from \in 0..4 /\ us[j].to \in 0..4
      BY <1>4, <1>5, <3>1
    <3>3. history[u.entry] = u.to
      BY <2>1, <3>2 DEF IsRecent
    <3>4. CASE v = Turn
      <4>1. DOMAIN toSend[Turn] # {}
        BY <1>8, <3>4
      <4>2. Len(us) = 1 /\ us[1].from = Absent
        BY <1>6, <1>8, <3>4, <4>1
      <4>3. j = 1
        BY <1>5, <3>1, <4>2
      <4>4. us[j].from = 0
        BY <4>2, <4>3
      <4>5. u.from < history[u.entry] /\ history[u.entry] = 0
        BY <2>1, <3>2, <3>3, <4>4
      <4> QED
        BY <2>2, <4>5
    <3>5. CASE v # Turn
      <4>1. history'[u.entry] = Completed /\ u.to = Resumed
        BY <2>1, <2>2, <3>2, <3>3, <3>5
      <4> QED
        BY <4>1 DEF StaysRecent, u
    <3> QED
      BY <3>4, <3>5
  <2> QED
    BY <2>3, <2>4
<1>9. ASSUME NEW v \in Writers, NEW i \in DOMAIN toSend'[Turn], NEW j \in DOMAIN toSend'[v],
             v # Turn, toSend'[Turn][i].entry = toSend'[v][j].entry
      PROVE  toSend'[Turn][i].from # Absent
  <2>1. CASE w = Turn
    <3>1. PICK k \in DOMAIN us : toSend'[Turn][i] = us[k]
      BY <1>3, <1>9, <2>1
    <3>2. toSend'[v] = toSend[v]
      BY <1>3, <1>9, <2>1
    <3>3. /\ toSend[v][j] \in Updates /\ IsRecent(toSend[v][j]) /\ toSend[v][j].to >= Resumed
      BY <1>5, <1>9, <3>2 DEF UpdatesAreRecent
    <3>4. history[toSend[v][j].entry] # Absent
      BY <1>5, <3>3 DEF IsRecent
    <3> QED
      BY <1>5, <1>9, <3>1, <3>2, <3>4
  <2>2. CASE w # Turn /\ v # w
    BY <1>3, <1>5, <1>9, <2>2 DEF UpdatesAreRecent
  <2>3. CASE w # Turn /\ v = w
    <3>1. DOMAIN toSend[Turn] # {} /\ DOMAIN toSend'[w] # {}
      BY <1>3, <1>5, <1>9, <2>3
    <3> QED
      BY <1>3, <1>6, <2>3, <3>1
  <2> QED
    BY <2>1, <2>2, <2>3
<1>10. \A v \in Writers : \A i \in DOMAIN toSend'[v] :
         LET u == toSend'[v][i] IN
         /\ u.from < u.to /\ StaysRecent(u)
         /\ v # Turn => u.from # Absent /\ u.to >= Resumed
  BY <1>3, <1>7, <1>8 DEF UpdatesAreRecent
<1> QED
  BY <1>9, <1>10 DEF UpdatesAreRecent, IsRecent, StaysRecent

\* A queue of at most one that is not empty.
LEMMA OnlyOne ==
  ASSUME NEW S, NEW s \in Seq(S), s # <<>>, Len(s) <= 1
  PROVE  Len(s) = 1
<1>1. Len(s) \in Nat /\ (Len(s) = 0 <=> s = <<>>)
  BY QueueHolds
<1> QED
  BY <1>1

\* Notifying leaves fewer of them.
LEMMA NotifyingKeepsRecent ==
  ASSUME Shape, UpdatesAreRecent, NEW w \in Writers, NotifyNext(w)
  PROVE  UpdatesAreRecent'
<1> DEFINE us == toSend[w]
<1>1. /\ us \in Seq(Updates) /\ us # <<>> /\ Len(us) <= 1 /\ blocked[w] = <<>>
      /\ Notify(w, us) /\ UNCHANGED <<history, conn, answer, clientVars>>
  BY DEF NotifyNext, Shape
<1>2. Publishes(w, us)
  BY <1>1, NotifyPublishes DEF clientVars
<1> HIDE DEF us
<1>3. Len(us) = 1
  BY <1>1, OnlyOne
<1>6. toSend' \in [Writers -> Seq(Updates)]
  BY <1>1, NotifyPublishes DEF clientVars
<1>4. /\ \A v \in Writers \ {w} : toSend'[v] = toSend[v]
      /\ DOMAIN toSend'[w] = {}
  BY <1>1, <1>2, <1>3, WhatIsLeft
<1>5. toSend'[w] = <<>>
  <2>1. toSend'[w] \in Seq(Updates)
    BY <1>6
  <2> DEFINE rest == toSend'[w]
  <2>2. rest \in Seq(Updates) /\ DOMAIN rest = {}
    BY <1>4, <2>1
  <2> HIDE DEF rest
  <2>3. Len(rest) \in Nat /\ 1..Len(rest) = {}
    BY <2>2, LenProperties
  <2>4. Len(rest) = 0
    <3>1. 1 \notin 1..Len(rest)
      BY <2>3
    <3>2. ~(Len(rest) >= 1)
      BY <2>3, <3>1
    <3> QED
      BY <2>3, <3>2
  <2> QED
    BY <2>2, <2>4, EmptySeq DEF rest
<1> QED
  BY <1>1, <1>4, <1>5, DroppingKeepsRecent

-----------------------------------------------------------------------------
(* Steps that move messages or lose some.                                  *)

\* A put that still waits goes on waiting, and the events elsewhere are no others.
PutsGoOn ==
  \A w \in Writers :
    \/ Messages(blocked[w])' = {}
    \/ /\ Messages(blocked[w])' = Messages(blocked[w])
       /\ \A n \in Elsewhere(w)' : n \in Elsewhere(w) \/ n.kind # "event"

\* No new events in the queues, and the puts as they were.
LEMMA QueuesGoOn ==
  ASSUME UNCHANGED blocked, \A n \in Queued' : n \in Queued \/ n.kind # "event"
  PROVE  PutsGoOn
BY DEF PutsGoOn, Elsewhere

\* A put that goes on is as single as it was.
LEMMA GoingOnKeepsSingle ==
  ASSUME PutsAreSingle, PutsGoOn
  PROVE  PutsAreSingle'
<1>1. ASSUME NEW w \in Writers, NEW m \in Messages(blocked[w])', NEW n \in Elsewhere(w)',
             n.kind = "event"
      PROVE  n.id # m.id
  <2>1. m \in Messages(blocked[w]) /\ n \in Elsewhere(w)
    BY <1>1 DEF PutsGoOn
  <2> QED
    BY <1>1, <2>1 DEF PutsAreSingle
<1> QED
  BY <1>1 DEF PutsAreSingle

\* Messages are lost only on the way to a client that does not follow the
\* stream, or after it had them.
Loses ==
  /\ UNCHANGED <<history, watermark, view, lastId, lost>>
  /\ InTransit' \subseteq InTransit
  /\ PutsGoOn
  /\ \A w \in Writers : toSend'[w] = toSend[w] \/ toSend'[w] = <<>>
  /\ mode' = "up" => mode = "up"
  /\ conn' # "none" /\ (mode' = "up" \/ Awaited' # {}) =>
       /\ conn # "none" /\ toSend' = toSend
       /\ \A m \in Flying : m \in Flying' \/ (Awaited' = {} /\ m.id <= lastId)

\* A view is as good as it was without messages it had.
LEMMA LosingKeepsCaughtUp ==
  ASSUME UNCHANGED <<history, watermark, toSend, lost>>, Flying' \subseteq Flying,
         NEW v, NEW k \in Nat, IsCaughtUp(v, k), watermark \in Nat,
         \A m \in Flying : m.id \in Nat /\ (m \in Flying' \/ m.id <= k),
         \A m \in Messages(blocked[Turn])' : m \in Messages(blocked[Turn]),
         \A m \in lost : m.id \in Nat
  PROVE  IsCaughtUp(v, k)'
<1>1. Pending' = Pending
  BY DEF Pending
<1>2. \A m \in Sent : m.id > k => m \in Sent'
  BY DEF Sent
<1>3. \A id \in (k + 1)..watermark : \E m \in Sent : m.id = id /\ m.id > k
  BY DEF IsCaughtUp
<1> HIDE DEF Flying, Pending
<1>4. \A id \in (k + 1)..watermark' : \E m \in Sent' : m.id = id
  BY <1>2, <1>3
<1>5. \A m \in Messages(blocked[Turn])' : m.id <= k =>
        \A u \in Messages(toSend[Turn])' : u.to <= v[u.entry]
  BY DEF IsCaughtUp
<1> QED
  BY <1>1, <1>2, <1>4, <1>5 DEF IsCaughtUp

\* What is said of events and views holds without the messages lost.
LEMMA LosingKeepsViews ==
  ASSUME TypeOK, EventsAreNumbered, UpdatesAreRecent, PutsAreSingle, LostAreGone,
         ViewIsBehind, ViewIsCaughtUp, Loses
  PROVE  /\ EventsAreNumbered' /\ UpdatesAreRecent' /\ PutsAreSingle' /\ LostAreGone'
         /\ ViewIsBehind' /\ ViewIsCaughtUp'
<1>0. /\ watermark \in Nat /\ lastId \in Nat
      /\ \A m \in Flying \cup lost : m.id \in Nat
      /\ \A s \in Awaited : s.id \in Nat
  BY TransitIsSorted DEF TypeOK, Shape
<1>1. /\ UNCHANGED <<history, watermark, view, lastId, lost>>
      /\ Flying' \subseteq Flying /\ Awaited' \subseteq Awaited
      /\ mode' = "up" => mode = "up"
  BY DEF Loses, Flying, Awaited
<1>2. EventsAreNumbered'
  BY <1>1 DEF EventsAreNumbered
<1>11. PutsAreSingle' /\ LostAreGone'
  BY <1>1, GoingOnKeepsSingle DEF Loses, LostAreGone
<1>12. \A m \in Messages(blocked[Turn])' : m \in Messages(blocked[Turn])
  <2>1. Turn \in Writers
    BY DEF Writers
  <2> QED
    BY <2>1 DEF Loses, PutsGoOn
<1>3. UpdatesAreRecent'
  BY DroppingKeepsRecent DEF Loses
<1>4. ASSUME NEW v, NEW k, IsBehind(v, k) PROVE IsBehind(v, k)'
  BY <1>1, <1>4 DEF IsBehind
<1>5. mode' = "up" => IsBehind(view, lastId)'
  <2>1. mode' = "up" => IsBehind(view, lastId)
    BY <1>1 DEF ViewIsBehind
  <2> QED
    BY <1>1, <1>4, <2>1 DEF IsBehind
<1>6. ASSUME NEW s \in Awaited'
      PROVE  IsBehind(s.view, s.id)' /\ \A e \in Entries : view[e] <= s.view[e]
  BY <1>1, <1>4, <1>6 DEF ViewIsBehind
<1>7. ViewIsBehind'
  BY <1>1, <1>5, <1>6 DEF ViewIsBehind
<1>8. conn' # "none" /\ mode' = "up" => IsCaughtUp(view, lastId)'
  <2>1. ASSUME conn' # "none", mode' = "up" PROVE IsCaughtUp(view, lastId)'
    <3>1. /\ conn # "none" /\ toSend' = toSend
          /\ \A m \in Flying : m \in Flying' \/ m.id <= lastId
      BY <2>1 DEF Loses
    <3>2. IsCaughtUp(view, lastId)
      BY <1>1, <2>1, <3>1 DEF ViewIsCaughtUp
    <3>3. \A v : \A k \in Nat : v = view /\ k = lastId => IsCaughtUp(v, k)'
      BY <1>0, <1>1, <1>12, <3>1, <3>2, LosingKeepsCaughtUp
    <3> QED
      BY <1>0, <1>1, <3>3 DEF IsCaughtUp
  <2> QED
    BY <2>1
<1>9. ASSUME NEW s \in Awaited', conn' # "none" PROVE IsCaughtUp(s.view, s.id)'
  <2>1. /\ conn # "none" /\ toSend' = toSend
        /\ \A m \in Flying : m \in Flying'
    BY <1>9 DEF Loses
  <2>2. IsCaughtUp(s.view, s.id) /\ s.id \in Nat
    BY <1>0, <1>1, <1>9, <2>1 DEF ViewIsCaughtUp
  <2> QED
    BY <1>0, <1>1, <1>12, <2>1, <2>2, LosingKeepsCaughtUp
<1>10. ViewIsCaughtUp'
  BY <1>8, <1>9 DEF ViewIsCaughtUp
<1> QED
  BY <1>2, <1>3, <1>7, <1>10, <1>11

-----------------------------------------------------------------------------
(* The effect of each step that moves or loses messages.                   *)

\* The pump takes an event.
LEMMA PumpTakes ==
  ASSUME Shape, Pumps, inbox' = Tail(inbox), UNCHANGED <<serverVars, outbox>>
  PROVE  /\ inbox' \in Seq(Events) /\ Len(inbox') <= Inbox
         /\ Head(inbox) \in Events /\ Head(inbox) \in Flying /\ Head(inbox) \in Queued
         /\ Queued' \subseteq Queued
         /\ InTransit = InTransit' \cup {Head(inbox)}
<1>1. inbox \in Seq(Events) /\ inbox # <<>> /\ Len(inbox) <= Inbox
  BY DEF Shape, Pumps
<1>2. /\ Tail(inbox) \in Seq(Events) /\ Len(Tail(inbox)) = Len(inbox) - 1
      /\ Head(inbox) \in Events
      /\ Messages(inbox) = {Head(inbox)} \cup Messages(Tail(inbox))
  BY <1>1, FirstAndOthers
<1>3. Len(inbox) \in Nat /\ Inbox \in Nat
  BY <1>1, LenProperties, StreamAssumption
<1>4. Messages(inbox)' = Messages(Tail(inbox))
  OBVIOUS
<1>5. InTransit = InTransit' \cup {Head(inbox)}
  BY <1>2, <1>4, TransitParts DEF Suspended, serverVars
<1>6. Head(inbox).kind = "event"
  BY <1>2 DEF Events
<1>7. Len(inbox') <= Inbox
  BY <1>1, <1>2, <1>3
<1>8. Head(inbox) \in Queued /\ Queued' \subseteq Queued
  BY <1>2, <1>4 DEF Queued, serverVars
<1> QED
  BY <1>2, <1>5, <1>6, <1>7, <1>8 DEF Flying

\* An event that was had, or after which the client does not follow any more.
LEMMA PumpLoses ==
  ASSUME TypeOK, ResponsesAreAwaited, SkipEvent \/ RejectEvent \/ Resync
  PROVE  Shape' /\ Loses
<1>1. /\ Pumps /\ inbox' = Tail(inbox) /\ UNCHANGED <<serverVars, outbox, view, lastId, attaches, lost>>
      /\ mode' \in {"up", "broken", "asking"}
      /\ mode' = "up" => IsStale(Head(inbox))
  BY DEF SkipEvent, RejectEvent, Resync, Pumps
<1>2. /\ inbox' \in Seq(Events) /\ Len(inbox') <= Inbox
      /\ InTransit = InTransit' \cup {Head(inbox)} /\ Queued' \subseteq Queued
  BY <1>1, PumpTakes DEF TypeOK
<1>3. Shape'
  BY <1>1, <1>2 DEF TypeOK, Shape, serverVars
<1>4. mode = "up" /\ Awaited = {}
  BY <1>1 DEF Pumps, ResponsesAreAwaited
<1>5. Awaited' = {} /\ \A m \in Flying : m \in Flying' \/ m = Head(inbox)
  BY <1>2, <1>4 DEF Awaited, Flying
<1>6. InTransit' \subseteq InTransit
  BY <1>2
<1>8. PutsGoOn
  BY <1>1, <1>2, QueuesGoOn DEF serverVars
<1> HIDE DEF InTransit, Awaited, Flying
<1>7. Loses
  BY <1>1, <1>4, <1>5, <1>6, <1>8 DEF Loses, serverVars, IsStale
<1> QED
  BY <1>3, <1>7

\* The server detaches.
LEMMA DetachLoses ==
  ASSUME TypeOK, ConnectionFails \/ CloseConnection
  PROVE  Shape' /\ Loses
<1>0. /\ toSend \in [Writers -> Seq(Updates)] /\ blocked \in [Writers -> Seq(Events)]
      /\ \A w \in Writers : Len(toSend[w]) <= 1 /\ Len(blocked[w]) <= 1
  BY DEF TypeOK, Shape
<1>1. /\ Detach /\ UNCHANGED <<outbox, inbox, view, lastId, attaches, lost>>
      /\ mode' = mode \/ mode' = "closing"
  BY DEF ConnectionFails, CloseConnection, clientVars
<1>2. /\ \A S : <<>> \in Seq(S)
      /\ Len(<<>>) = 0 /\ Messages(<<>>) = {}
  BY ShortQueues, EmptySeq
<1>3. /\ toSend' \in [Writers -> Seq(Updates)] /\ blocked' \in [Writers -> Seq(Events)]
      /\ \A w \in Writers : toSend'[w] = toSend[w] \/ toSend'[w] = <<>>
      /\ \A w \in Writers : blocked'[w] = blocked[w] \/ blocked'[w] = <<>>
  BY <1>0, <1>1, <1>2 DEF Detach
<1>4. \A w \in Writers : Len(toSend'[w]) <= 1 /\ Len(blocked'[w]) <= 1
  BY <1>0, <1>2, <1>3
<1>5. conn' = "none" /\ buffered' = <<>> /\ answer' = <<>> /\ UNCHANGED <<history, watermark>>
  BY <1>1 DEF Detach
<1>6. mode' \in {"up", "asking", "resyncing", "broken", "closing", "closed", "resuming"}
  BY <1>1 DEF TypeOK, Shape
<1>7. Shape'
  BY <1>1, <1>2, <1>3, <1>4, <1>5, <1>6 DEF TypeOK, Shape
<1>8. \A w \in Writers : Messages(blocked'[w]) \subseteq Messages(blocked[w])
  BY <1>2, <1>3
<1>9. InTransit' \subseteq InTransit
  BY <1>1, <1>2, <1>5, <1>8, TransitParts DEF Suspended
<1>10. PutsGoOn
  <2>1. Queued' \subseteq Queued
    BY <1>1, <1>2, <1>5 DEF Queued
  <2>2. \A w \in Writers : Elsewhere(w)' \subseteq Elsewhere(w)
    BY <1>8, <2>1 DEF Elsewhere
  <2> QED
    BY <1>2, <1>3, <2>2 DEF PutsGoOn
<1> QED
  BY <1>1, <1>3, <1>5, <1>7, <1>9, <1>10 DEF Loses

\* The connection ends, and is replaced.
LEMMA ClosingLoses ==
  ASSUME TypeOK, ResponsesAreAwaited, EndOfStream \/ ConnectionClosed \/ Resume
  PROVE  Shape' /\ Loses
<1>1. /\ \A S : <<>> \in Seq(S)
      /\ Len(<<>>) = 0 /\ Messages(<<>>) = {} /\ Outbox \in Nat /\ Inbox \in Nat
      /\ MaxAttaches \in Nat
  BY ShortQueues, EmptySeq, StreamAssumption
<1>2. CASE EndOfStream
  <2>1. /\ conn = "none" /\ mode' = "closed" /\ inbox' = <<>>
        /\ UNCHANGED <<history, watermark, toSend, blocked, conn, buffered, answer, outbox,
                       view, lastId, attaches, lost>>
    BY <1>2 DEF EndOfStream, serverVars
  <2>2. Shape'
    BY <1>1, <2>1 DEF TypeOK, Shape
  <2>3. InTransit' \subseteq InTransit
    BY <1>1, <2>1, TransitParts DEF Suspended
  <2>5. PutsGoOn
    BY <1>1, <2>1, QueuesGoOn DEF Queued
  <2> QED
    BY <2>1, <2>2, <2>3, <2>5 DEF Loses
<1>3. CASE ConnectionClosed
  <2>1. /\ mode = "closing" /\ mode' = "closed" /\ inbox' = <<>> /\ outbox' = <<>>
        /\ UNCHANGED <<history, watermark, toSend, blocked, conn, buffered, answer,
                       view, lastId, attaches, lost>>
    BY <1>3 DEF ConnectionClosed, serverVars
  <2>2. Shape'
    BY <1>1, <2>1 DEF TypeOK, Shape
  <2>3. InTransit' \subseteq InTransit
    BY <1>1, <2>1, TransitParts DEF Suspended
  <2>4. Awaited' = {}
    BY <2>1, <2>3 DEF ResponsesAreAwaited, Awaited
  <2>5. PutsGoOn
    BY <1>1, <2>1, QueuesGoOn DEF Queued
  <2> QED
    BY <2>1, <2>2, <2>3, <2>4, <2>5 DEF Loses
<1>4. CASE Resume
  <2>1. /\ mode = "closed" /\ mode' = "resuming" /\ conn' = "opening"
        /\ attaches < MaxAttaches /\ attaches' = attaches + 1
        /\ UNCHANGED <<history, watermark, toSend, blocked, buffered, answer, outbox, inbox,
                       view, lastId, lost>>
    BY <1>4 DEF Resume
  <2>2. Shape'
    BY <1>1, <2>1 DEF TypeOK, Shape
  <2>3. InTransit' = InTransit
    BY <2>1, TransitParts DEF Suspended
  <2>4. Awaited' = {}
    BY <2>1, <2>3 DEF ResponsesAreAwaited, Awaited
  <2>5. PutsGoOn
    BY <2>1, QueuesGoOn DEF Queued
  <2> QED
    BY <2>1, <2>2, <2>3, <2>4, <2>5 DEF Loses
<1> QED
  BY <1>2, <1>3, <1>4

\* Messages that only move are all there.
LEMMA MovingLoses ==
  ASSUME InTransit' = InTransit, conn' # "none" => conn # "none",
         UNCHANGED <<history, watermark, toSend, mode, view, lastId, lost>>, PutsGoOn
  PROVE  Loses
<1>1. Flying' = Flying
  BY DEF Flying
<1>2. InTransit' \subseteq InTransit
  OBVIOUS
<1> HIDE DEF Flying, Awaited, InTransit
<1> QED
  BY <1>1, <1>2 DEF Loses

\* A queue of the server goes on into the transport's.
LEMMA OneMoreThere ==
  ASSUME Shape, Room, NEW S, S = Events \/ S = States, NEW q \in Seq(S), Len(q) <= 1,
         outbox' = outbox \o q
  PROVE  /\ outbox' \in Seq(Events \cup States) /\ Len(outbox') <= Outbox
         /\ Messages(outbox)' = Messages(outbox) \cup Messages(q)
<1> DEFINE M == Events \cup States
<1>1. outbox \in Seq(M) /\ Outbox \in Nat
  BY StreamAssumption DEF Shape
<1>2. q \in Seq(M)
  <2>1. S \subseteq M
    OBVIOUS
  <2>2. q \in [1..Len(q) -> S] /\ Len(q) \in Nat
    BY LenProperties
  <2> HIDE DEF M
  <2>3. q \in [1..Len(q) -> M]
    BY <2>1, <2>2
  <2> QED
    BY <2>2, <2>3, SeqDef
<1> HIDE DEF M
<1>3. /\ outbox \o q \in Seq(M) /\ Len(outbox \o q) = Len(outbox) + Len(q)
      /\ Messages(outbox \o q) = Messages(outbox) \cup Messages(q)
  BY <1>1, <1>2, BothQueues
<1>4. Len(outbox) \in Nat /\ Len(q) \in Nat /\ Len(outbox) < Outbox
  BY <1>1, <1>2, LenProperties DEF Room
<1>5. Len(outbox') <= Outbox
  BY <1>1, <1>3, <1>4
<1>6. outbox' \in Seq(M) /\ Messages(outbox)' = Messages(outbox) \cup Messages(q)
  BY <1>3
<1> QED
  BY <1>5, <1>6 DEF M

\* A suspended put goes through.
LEMMA PutBlockedMoves ==
  ASSUME TypeOK, NEW w \in Writers, PutBlocked(w)
  PROVE  Shape' /\ Loses
<1>1. /\ Room /\ outbox' = outbox \o blocked[w] /\ blocked' = [blocked EXCEPT ![w] = <<>>]
      /\ UNCHANGED <<history, watermark, toSend, conn, buffered, answer, inbox, mode, view,
                     lastId, attaches, lost>>
      /\ Shape
  BY DEF PutBlocked, clientVars, TypeOK
<1>2. blocked[w] \in Seq(Events) /\ Len(blocked[w]) <= 1
  BY <1>1 DEF Shape
<1>3. /\ outbox' \in Seq(Events \cup States) /\ Len(outbox') <= Outbox
      /\ Messages(outbox)' = Messages(outbox) \cup Messages(blocked[w])
  BY <1>1, <1>2, OneMoreThere
<1>4. /\ blocked' \in [Writers -> Seq(Events)] /\ \A v \in Writers : Len(blocked'[v]) <= 1
      /\ Suspended = Suspended' \cup Messages(blocked[w])
  BY <1>1, WriterResumes
<1>5. Shape'
  BY <1>1, <1>3, <1>4 DEF Shape
<1>6. InTransit' = InTransit
  BY <1>1, <1>3, <1>4, TransitParts
<1>7. PutsGoOn
  <2>1. Queued' = Queued \cup Messages(blocked[w])
    BY <1>1, <1>3 DEF Queued
  <2>2. /\ Messages(blocked[w])' = {}
        /\ \A v \in Writers \ {w} : blocked'[v] = blocked[v]
    BY <1>1, ShortQueues DEF Shape
  <2>3. ASSUME NEW v \in Writers \ {w} PROVE Elsewhere(v)' \subseteq Elsewhere(v)
    BY <2>1, <2>2 DEF Elsewhere
  <2> QED
    BY <2>2, <2>3 DEF PutsGoOn
<1> QED
  BY <1>1, <1>5, <1>6, <1>7, MovingLoses

\* A response is put.
LEMMA PutAnswerMoves ==
  ASSUME TypeOK, PutAnswer
  PROVE  Shape' /\ Loses
<1>1. /\ Room /\ outbox' = outbox \o answer /\ answer' = <<>>
      /\ UNCHANGED <<history, watermark, toSend, blocked, conn, buffered, inbox, mode, view,
                     lastId, attaches, lost>>
      /\ Shape
  BY DEF PutAnswer, clientVars, TypeOK
<1>2. answer \in Seq(States) /\ Len(answer) <= 1
  BY <1>1 DEF Shape
<1>3. /\ outbox' \in Seq(Events \cup States) /\ Len(outbox') <= Outbox
      /\ Messages(outbox)' = Messages(outbox) \cup Messages(answer)
  BY <1>1, <1>2, OneMoreThere
<1>4. <<>> \in Seq(States) /\ Len(<<>>) = 0 /\ Messages(<<>>) = {}
  BY ShortQueues, EmptySeq
<1>5. Shape'
  BY <1>1, <1>3, <1>4 DEF Shape
<1>6. InTransit' = InTransit
  BY <1>1, <1>3, <1>4, TransitParts DEF Suspended
<1>7. \A n \in Messages(answer) : n.kind # "event"
  <2>1. Messages(answer) \subseteq States
    BY <1>2, QueueHolds
  <2> QED
    BY <2>1 DEF States
<1>8. PutsGoOn
  BY <1>1, <1>3, <1>7, QueuesGoOn DEF Queued
<1> QED
  BY <1>1, <1>5, <1>6, <1>8, MovingLoses

\* A buffered event is sent.
LEMMA FlushMoves ==
  ASSUME TypeOK, Flush
  PROVE  Shape' /\ Loses
<1>1. /\ Room /\ buffered # <<>> /\ outbox' = Append(outbox, Head(buffered))
      /\ buffered' = Tail(buffered)
      /\ UNCHANGED <<history, watermark, toSend, blocked, conn, answer, inbox, mode, view,
                     lastId, attaches, lost>>
      /\ Shape
  BY DEF Flush, clientVars, TypeOK
<1>2. buffered \in Seq(Events) /\ outbox \in Seq(Events \cup States)
  BY <1>1 DEF Shape
<1>3. /\ Tail(buffered) \in Seq(Events) /\ Head(buffered) \in Events
      /\ Messages(buffered) = {Head(buffered)} \cup Messages(Tail(buffered))
  BY <1>1, <1>2, FirstAndOthers
<1> DEFINE out == Append(outbox, Head(buffered))
<1>4. /\ out \in Seq(Events \cup States) /\ Len(out) = Len(outbox) + 1
      /\ Messages(out) = Messages(outbox) \cup {Head(buffered)}
  BY <1>2, <1>3, OneMoreOut
<1>5. outbox' = out
  BY <1>1
<1> HIDE DEF out
<1>6. Len(outbox) \in Nat /\ Len(outbox) < Outbox /\ Outbox \in Nat
  BY <1>1, <1>2, LenProperties, StreamAssumption DEF Room
<1>7. outbox' \in Seq(Events \cup States) /\ Len(outbox') <= Outbox
  BY <1>4, <1>5, <1>6
<1>8. Shape'
  BY <1>1, <1>3, <1>7 DEF Shape
<1>9. /\ Messages(outbox)' = Messages(outbox) \cup {Head(buffered)}
      /\ Messages(buffered)' = Messages(Tail(buffered))
  BY <1>1, <1>4, <1>5
<1>10. InTransit' = InTransit
  BY <1>1, <1>3, <1>9, TransitParts DEF Suspended
<1>11. PutsGoOn
  BY <1>1, <1>3, <1>9, QueuesGoOn DEF Queued
<1> QED
  BY <1>1, <1>8, <1>10, <1>11, MovingLoses

\* The reader queues an event for the pump.
LEMMA ReceiveEventMoves ==
  ASSUME TypeOK, ReceiveEvent
  PROVE  Shape' /\ Loses
<1>1. /\ outbox # <<>> /\ Head(outbox).kind = "event" /\ Len(inbox) < Inbox
      /\ inbox' = Append(inbox, Head(outbox)) /\ outbox' = Tail(outbox)
      /\ UNCHANGED <<history, watermark, toSend, blocked, conn, buffered, answer, mode, view,
                     lastId, attaches, lost>>
      /\ Shape
  BY DEF ReceiveEvent, serverVars, TypeOK
<1> DEFINE M == Events \cup States
<1>2. inbox \in Seq(Events) /\ outbox \in Seq(M) /\ Len(outbox) <= Outbox
  BY <1>1 DEF Shape
<1> HIDE DEF M
<1>3. /\ Tail(outbox) \in Seq(M) /\ Len(Tail(outbox)) = Len(outbox) - 1 /\ Head(outbox) \in M
      /\ Messages(outbox) = {Head(outbox)} \cup Messages(Tail(outbox))
  BY <1>1, <1>2, FirstAndOthers
<1>4. Head(outbox) \in Events
  BY <1>1, <1>3 DEF M, States
<1> DEFINE in == Append(inbox, Head(outbox))
<1>5. /\ in \in Seq(Events) /\ Len(in) = Len(inbox) + 1
      /\ Messages(in) = Messages(inbox) \cup {Head(outbox)}
  BY <1>2, <1>4, OneMore
<1>6. inbox' = in
  BY <1>1
<1> HIDE DEF in
<1>7. /\ Len(inbox) \in Nat /\ Len(inbox) < Inbox /\ Inbox \in Nat
      /\ Len(outbox) \in Nat /\ Outbox \in Nat
  BY <1>1, <1>2, LenProperties, StreamAssumption
<1>8. /\ inbox' \in Seq(Events) /\ Len(inbox') <= Inbox
      /\ outbox' \in Seq(M) /\ Len(outbox') <= Outbox
  BY <1>1, <1>2, <1>3, <1>5, <1>6, <1>7
<1>9. Shape'
  BY <1>1, <1>8 DEF Shape, M
<1>10. /\ Messages(inbox)' = Messages(inbox) \cup {Head(outbox)}
       /\ Messages(outbox)' = Messages(Tail(outbox))
  BY <1>1, <1>5, <1>6
<1>11. InTransit' = InTransit
  BY <1>1, <1>3, <1>10, TransitParts DEF Suspended
<1>12. PutsGoOn
  BY <1>1, <1>3, <1>10, QueuesGoOn DEF Queued
<1> QED
  BY <1>1, <1>9, <1>11, <1>12, MovingLoses

\* The attachment ends.
LEMMA FinishAttachmentMoves ==
  ASSUME TypeOK, FinishAttachment
  PROVE  Shape' /\ Loses
<1>1. /\ conn = "attaching" /\ conn' = "attached"
      /\ UNCHANGED <<history, watermark, toSend, blocked, buffered, answer, outbox, inbox,
                     mode, view, lastId, attaches, lost>>
      /\ Shape
  BY DEF FinishAttachment, clientVars, TypeOK
<1>2. Shape'
  BY <1>1 DEF Shape
<1>3. InTransit' = InTransit
  BY <1>1, TransitParts DEF Suspended
<1>4. PutsGoOn
  BY <1>1, QueuesGoOn DEF Queued
<1> QED
  BY <1>1, <1>2, <1>3, <1>4, MovingLoses

-----------------------------------------------------------------------------
(* Types.                                                                  *)

\* What is lost or moves was numbered before.
LEMMA LosingIsTyped ==
  ASSUME TypeOK, Shape', Loses
  PROVE  TypeOK'
BY DEF TypeOK, Loses

\* What a writer's step sends is numbered up to the new watermark.
LEMMA PublicationIsTyped ==
  ASSUME TypeOK, Shape', NEW us, Publication(us)
  PROVE  TypeOK'
<1>0. watermark \in Nat /\ \A m \in InTransit : m.id <= watermark /\ m.id \in Nat
  <2>1. \A m \in InTransit : m \in Events \cup States
    BY TransitIsTyped DEF TypeOK
  <2> QED
    BY <2>1 DEF TypeOK, Shape, Events, States
<1>1. /\ watermark' \in Nat /\ watermark <= watermark'
      /\ Awaited' = Awaited
      /\ \A n \in Flying' : n \in Flying \/ n.id \in (watermark + 1)..watermark'
  BY DEF Publication, Sends
<1>2. \A m \in InTransit' : m \in Flying' \/ m \in Awaited'
  <2>1. InTransit' \subseteq Events \cup States
    <3>1. /\ Messages(buffered)' \subseteq Events /\ Messages(answer)' \subseteq States
          /\ Messages(outbox)' \subseteq Events \cup States /\ Messages(inbox)' \subseteq Events
          /\ \A w \in Writers : Messages(blocked[w])' \subseteq Events
      BY QueueHolds DEF Shape
    <3>2. Suspended' \subseteq Events
      BY <3>1 DEF Suspended
    <3> QED
      BY <3>1, <3>2, TransitParts
  <2>2. \A m \in Events \cup States : m.kind \in {"event", "state"}
    BY DEF Events, States
  <2> QED
    BY <2>1, <2>2 DEF Flying, Awaited
<1>3. Flying \subseteq InTransit /\ Awaited \subseteq InTransit
  BY DEF Flying, Awaited
<1>4. ASSUME NEW m \in InTransit' PROVE m.id <= watermark'
  <2>1. CASE m \in Flying \/ m \in Awaited
    BY <1>0, <1>1, <1>3, <2>1
  <2>2. CASE m \in Flying' /\ m \notin Flying
    BY <1>1, <2>2
  <2> QED
    BY <1>1, <1>2, <1>4, <2>1, <2>2
<1>5. \A m \in lost' : m.id <= watermark'
  <2>1. lost' = lost /\ \A m \in lost : m.id \in Nat /\ m.id <= watermark
    BY TransitIsSorted DEF Publication
  <2> QED
    BY <1>0, <1>1, <2>1
<1> QED
  BY <1>4, <1>5 DEF TypeOK

\* A writer's step keeps the types.
LEMMA WritingIsTyped ==
  ASSUME TypeOK, UpdatesAreRecent, NEW w \in Writers, NEW us,
         Projects(w, us) \/ (NotifyNext(w) /\ us = toSend[w])
  PROVE  /\ TypeOK' /\ Publication(us) /\ Outgoing /\ UNCHANGED answer
         /\ Puts(w) /\ blocked[w] = <<>> /\ UNCHANGED inbox
<1>0. Shape
  BY DEF TypeOK
<1>1. /\ us \in Seq(Updates) /\ us # <<>> /\ Len(us) <= 2 /\ blocked[w] = <<>>
      /\ Notify(w, us) /\ UNCHANGED <<conn, answer, clientVars, lost>>
  <2>1. CASE Projects(w, us)
    BY <2>1 DEF Projects, Project, Idle
  <2>2. CASE NotifyNext(w) /\ us = toSend[w]
    <3>1. toSend[w] \in Seq(Updates) /\ Len(toSend[w]) <= 1
      BY <1>0 DEF Shape
    <3>2. Len(toSend[w]) \in Nat
      BY <3>1, LenProperties
    <3> QED
      BY <2>2, <3>1, <3>2 DEF NotifyNext
  <2> QED
    BY <2>1, <2>2
<1>2. /\ Outgoing /\ Puts(w)
      /\ watermark' \in Nat /\ watermark' >= watermark
      /\ toSend' \in [Writers -> Seq(Updates)]
      /\ \A v \in Writers : Len(toSend'[v]) <= 1
      /\ blocked' \in [Writers -> Seq(Events)]
      /\ \A v \in Writers : Len(blocked'[v]) <= 1
      /\ buffered' \in Seq(Events)
      /\ outbox' \in Seq(Events \cup States) /\ Len(outbox') <= Outbox
  BY <1>0, <1>1, NotifyPublishes DEF clientVars
<1>3. Publication(us)
  BY <1>0, ProjectingIsPublication, NotifyingIsPublication
<1>4. history' \in [Entries -> Revisions]
  BY <1>3 DEF Publication, TakesOn
<1>5. lastId' \in 0..watermark'
  BY <1>0, <1>1, <1>2 DEF Shape, clientVars
<1>6. Shape'
  BY <1>0, <1>1, <1>2, <1>4, <1>5 DEF Shape, clientVars
<1>7. TypeOK'
  BY <1>3, <1>6, PublicationIsTyped
<1> QED
  BY <1>1, <1>2, <1>3, <1>7 DEF clientVars

\* A new event is nowhere else.
LEMMA WritingKeepsSingle ==
  ASSUME TypeOK, PutsAreSingle, LostAreGone, NEW w \in Writers, NEW us, Publication(us),
         Puts(w)
  PROVE  PutsAreSingle' /\ LostAreGone'
<1>0. /\ watermark \in Nat /\ blocked \in [Writers -> Seq(Events)]
      /\ \A n \in InTransit : n.kind = "event" => n.id \in Nat /\ n.id <= watermark
      /\ \A n \in lost : n.id \in Nat /\ n.id <= watermark
  BY TransitIsSorted DEF TypeOK, Shape, Flying
<1>1. \A v \in Writers : Messages(blocked[v]) \subseteq InTransit /\ Messages(blocked[v]) \subseteq Events
  BY <1>0, QueueHolds, TransitParts DEF Suspended
<1>2. \A v \in Writers : Elsewhere(v) \subseteq InTransit
  BY <1>1, TransitParts DEF Elsewhere, Queued
<1>3. \A v \in Writers : \A m \in Messages(blocked[v]) : m.id \in Nat /\ m.id <= watermark
  BY <1>0, <1>1 DEF Events
<1> HIDE DEF InTransit
<1>4. PutsAreSingle'
  <2>1. CASE UNCHANGED blocked /\ \A n \in Queued' : n \in Queued \/ n.id > watermark
    <3>1. ASSUME NEW v \in Writers, NEW m \in Messages(blocked[v])', NEW n \in Elsewhere(v)',
                 n.kind = "event"
          PROVE  n.id # m.id
      <4>1. n \in Elsewhere(v) \/ n.id > watermark
        BY <2>1 DEF Elsewhere
      <4>2. m \in Messages(blocked[v]) /\ m.id \in Nat /\ m.id <= watermark
        BY <1>3, <2>1
      <4>3. CASE n \in Elsewhere(v)
        BY <3>1, <4>2, <4>3 DEF PutsAreSingle
      <4>4. CASE n.id > watermark
        <5>1. ~(m.id > watermark)
          BY <1>0, <4>2
        <5> QED
          BY <4>4, <5>1
      <4> QED
        BY <4>1, <4>3, <4>4
    <3> QED
      BY <3>1 DEF PutsAreSingle
  <2>2. ASSUME UNCHANGED Queued, NEW p \in Events, p.id > watermark,
               blocked' = [blocked EXCEPT ![w] = <<p>>]
        PROVE  PutsAreSingle'
    <3>0. Messages(<<p>>) = {p} /\ p.id \in Nat
      BY <2>2, ShortQueues DEF Events
    <3>1. /\ Messages(blocked[w])' = {p}
          /\ \A v \in Writers \ {w} : Messages(blocked[v])' = Messages(blocked[v])
      BY <1>0, <2>2, <3>0
    <3>2. ASSUME NEW v \in Writers, NEW m \in Messages(blocked[v])', NEW n \in Elsewhere(v)',
                 n.kind = "event"
          PROVE  n.id # m.id
      <4>1. CASE v = w
        <5>1. n \in Elsewhere(w) /\ m = p
          BY <2>2, <3>1, <4>1 DEF Elsewhere
        <5>2. n.id \in Nat /\ n.id <= watermark
          BY <1>0, <1>2, <3>2, <5>1
        <5> QED
          BY <1>0, <2>2, <3>0, <5>1, <5>2
      <4>2. CASE v # w
        <5>1. m \in Messages(blocked[v]) /\ m.id \in Nat /\ m.id <= watermark
          BY <1>3, <3>1, <4>2
        <5>2. n \in Elsewhere(v) \/ n = p
          BY <2>2, <3>1, <4>2 DEF Elsewhere
        <5>3. CASE n \in Elsewhere(v)
          BY <3>2, <5>1, <5>3 DEF PutsAreSingle
        <5>4. CASE n = p
          BY <1>0, <2>2, <3>0, <5>1, <5>4
        <5> QED
          BY <5>2, <5>3, <5>4
      <4> QED
        BY <4>1, <4>2
    <3> QED
      BY <3>2 DEF PutsAreSingle
  <2> QED
    BY <2>1, <2>2 DEF Puts
<1>5. LostAreGone'
  <2>1. /\ lost' = lost
        /\ \A n \in Flying' : n \in Flying \/ n.id \in (watermark + 1)..watermark'
        /\ watermark' \in Nat
    BY DEF Publication, Sends
  <2>2. ASSUME NEW m \in lost, NEW n \in Flying' PROVE n.id # m.id
    <3>1. CASE n \in Flying
      BY <3>1 DEF LostAreGone
    <3>2. CASE n.id \in (watermark + 1)..watermark'
      BY <1>0, <2>1, <3>2
    <3> QED
      BY <2>1, <3>1, <3>2
  <2> QED
    BY <2>1, <2>2 DEF LostAreGone
<1> QED
  BY <1>4, <1>5

-----------------------------------------------------------------------------
(* The client applies an event.                                            *)

\* The event applied is the next one.
Applies(m) ==
  /\ m \in Flying /\ m \in Queued /\ m \in Events /\ m.id = lastId + 1
  /\ ~Rejects(m.update) /\ Queued' \subseteq Queued
  /\ InTransit = InTransit' \cup {m} /\ Awaited = {} /\ Awaited' = {}
  /\ mode = "up" /\ UNCHANGED <<history, watermark, toSend, blocked, conn, mode, lost>>
  /\ view' = IF Ignores(m.update) THEN view
             ELSE [view EXCEPT ![m.update.entry] = m.update.to]
  /\ lastId' = m.id

\* What the pump applies.
LEMMA PumpApplies ==
  ASSUME TypeOK, ResponsesAreAwaited, ApplyEvent
  PROVE  Applies(Head(inbox)) /\ inbox' \in Seq(Events) /\ Len(inbox') <= Inbox
<1> DEFINE m == Head(inbox)
<1>1. /\ Pumps /\ ~IsStale(m) /\ ~IsGap(m) /\ ~Rejects(m.update)
      /\ inbox' = Tail(inbox) /\ UNCHANGED <<serverVars, outbox, mode, attaches, lost>>
      /\ view' = IF Ignores(m.update) THEN view
                 ELSE [view EXCEPT ![m.update.entry] = m.update.to]
      /\ lastId' = m.id
  BY DEF ApplyEvent
<1>2. /\ inbox' \in Seq(Events) /\ Len(inbox') <= Inbox
      /\ m \in Events /\ m \in Flying /\ InTransit = InTransit' \cup {m}
      /\ m \in Queued /\ Queued' \subseteq Queued
  BY <1>1, PumpTakes DEF TypeOK
<1> HIDE DEF m
<1>3. m.id \in Nat /\ lastId \in Nat
  BY <1>2 DEF Events, TypeOK, Shape
<1>4. m.id = lastId + 1
  BY <1>1, <1>3 DEF IsStale, IsGap
<1>5. mode = "up" /\ Awaited = {}
  BY <1>1 DEF Pumps, ResponsesAreAwaited
<1>6. Awaited' = {}
  BY <1>2, <1>5 DEF Awaited
<1> QED
  BY <1>1, <1>2, <1>4, <1>5, <1>6 DEF Applies, serverVars, m

\* The event is of an entry that the view has, or adds it; then the view has it.
LEMMA AppliedIsShown ==
  ASSUME TypeOK, EventsAreNumbered, LostAreGone, ViewIsBehind, NEW m, Applies(m),
         conn # "none" => IsCaughtUp(view, lastId)
  PROVE  /\ view' \in [Entries -> Revisions]
         /\ \A e \in Entries : e # m.update.entry => view'[e] = view[e]
         /\ ~Ignores(m.update) => view'[m.update.entry] = m.update.to
         /\ Ignores(m.update) => view' = view
         /\ conn # "none" => ~Ignores(m.update)
         /\ view[m.update.entry] <= m.update.to
<1> USE DEF Revisions, Absent, Completed
<1>1. /\ m \in Flying /\ m.update \in Updates /\ lastId \in Nat
      /\ view \in [Entries -> Revisions] /\ m.id = lastId + 1
      /\ \A n \in Sent : n.id \in Nat
  BY TransitIsSorted DEF Applies, TypeOK, Shape, Sent
<1>2. m.update.entry \in Entries /\ m.update.to \in 0..4 /\ m.update.from \in 0..4
  BY <1>1 DEF Updates
<1>3. view' = IF Ignores(m.update) THEN view
              ELSE [view EXCEPT ![m.update.entry] = m.update.to]
  BY DEF Applies
<1>4. CASE Ignores(m.update)
  <2>1. view' = view /\ view[m.update.entry] = 0 /\ m.update.from # 0
    BY <1>3, <1>4 DEF Ignores
  <2>2. ASSUME conn # "none" PROVE FALSE
    <3>1. PICK n \in Sent : n.id > lastId /\ n.id < m.id
      BY <1>1, <2>1, <2>2 DEF IsCaughtUp
    <3> QED
      BY <1>1, <3>1
  <2> QED
    BY <1>1, <1>2, <1>4, <2>1, <2>2
<1>5. CASE ~Ignores(m.update)
  <2>1. view' = [view EXCEPT ![m.update.entry] = m.update.to]
    BY <1>3, <1>5
  <2>2. /\ view' \in [Entries -> Revisions] /\ view'[m.update.entry] = m.update.to
        /\ \A e \in Entries : e # m.update.entry => view'[e] = view[e]
    BY <1>1, <1>2, <2>1
  <2>3. \/ view[m.update.entry] <= m.update.to
        \/ view[m.update.entry] = Completed
        \/ m.update.from = Absent
    BY <1>1 DEF ViewIsBehind, IsBehind, Applies
  <2>4. view[m.update.entry] \in 0..4
    BY <1>1, <1>2
  <2>5. view[m.update.entry] <= m.update.to
    <3>1. CASE m.update.from = Absent
      BY <1>2, <2>4, <3>1 DEF Applies, Rejects
    <3>2. CASE m.update.from # Absent
      BY <1>2, <2>3, <2>4, <3>2 DEF Applies, Rejects
    <3> QED
      BY <3>1, <3>2
  <2> QED
    BY <1>5, <2>2, <2>5
<1> QED
  BY <1>4, <1>5

\* The events that follow do not take it back.
LEMMA ApplyingIsAhead ==
  ASSUME TypeOK, EventsAreNumbered, LostAreGone, ViewIsBehind, NEW m, Applies(m),
         conn # "none" => IsCaughtUp(view, lastId)
  PROVE  ViewIsBehind'
<1>1. /\ \A n \in Flying : n.id \in Nat /\ n.update \in Updates
      /\ m \in Flying /\ m.id = lastId + 1 /\ lastId' = m.id /\ lastId \in Nat
      /\ history' = history /\ Awaited' = {} /\ mode = "up"
      /\ Flying' \subseteq Flying
      /\ history \in [Entries -> Revisions] /\ view \in [Entries -> Revisions]
  BY TransitIsSorted DEF Applies, TypeOK, Shape, Flying
<1>2. /\ \A e \in Entries : e # m.update.entry => view'[e] = view[e]
      /\ ~Ignores(m.update) => view'[m.update.entry] = m.update.to
      /\ Ignores(m.update) => view' = view
  BY AppliedIsShown
<1>3. IsBehind(view, lastId)
  BY <1>1 DEF ViewIsBehind
<1>4. \A e \in Entries : view'[e] <= history[e]
  BY <1>1, <1>2, <1>3 DEF IsBehind, EventsAreNumbered
<1>5. ASSUME NEW n \in Flying', n.id > m.id
      PROVE  \/ view'[n.update.entry] <= n.update.to
             \/ view'[n.update.entry] = Completed
             \/ n.update.from = Absent
  <2>1. n \in Flying /\ n.id > lastId /\ n.update.entry \in Entries
    BY <1>1, <1>5 DEF Updates
  <2>2. CASE view'[n.update.entry] = view[n.update.entry]
    BY <1>3, <2>1, <2>2 DEF IsBehind
  <2>3. CASE n.update.entry = m.update.entry /\ view'[m.update.entry] = m.update.to
    BY <1>1, <1>5, <2>1, <2>3 DEF EventsAreNumbered
  <2> QED
    BY <1>2, <2>1, <2>2, <2>3
<1> QED
  BY <1>1, <1>4, <1>5 DEF ViewIsBehind, IsBehind

\* The events that follow bring it up to date.
LEMMA ApplyingFollows ==
  ASSUME TypeOK, EventsAreNumbered, PutsAreSingle, LostAreGone, ViewIsBehind, NEW m, Applies(m),
         conn # "none", IsCaughtUp(view, lastId)
  PROVE  IsCaughtUp(view, lastId)'
<1>1. /\ \A n \in Sent : n.id \in Nat /\ n.update \in Updates
      /\ m \in Sent /\ m \in Flying /\ m.id = lastId + 1 /\ lastId' = m.id /\ lastId \in Nat
      /\ history' = history /\ watermark' = watermark /\ watermark \in Nat /\ mode = "up"
      /\ history \in [Entries -> Revisions] /\ view \in [Entries -> Revisions]
  BY TransitIsSorted DEF Applies, TypeOK, Shape, Sent
<1>2. /\ Sent' \subseteq Sent /\ \A n \in Sent : n \in Sent' \/ n = m
      /\ Flying' \subseteq Flying /\ Flying \subseteq Sent
  BY DEF Applies, Flying, Sent
<1>3. Pending' = Pending
  BY DEF Pending, Applies
<1>4. /\ \A e \in Entries : e # m.update.entry => view'[e] = view[e]
      /\ view'[m.update.entry] = m.update.to
      /\ view[m.update.entry] <= m.update.to
  BY AppliedIsShown
<1>5. /\ m.update.entry \in Entries /\ m.update.to \in Nat /\ m.update.from \in Nat
      /\ m.update.from < m.update.to /\ m.update.to <= history[m.update.entry]
      /\ \A e \in Entries : view[e] \in Nat /\ history[e] \in Nat
  BY <1>1 DEF Updates, Revisions, Absent, Completed, EventsAreNumbered
<1>11. \A n \in Sent : n # m => n.id # m.id
  BY <1>1 DEF EventsAreNumbered, LostAreGone, Sent
<1>6. \A n \in Sent : n.id > lastId /\ n # m => n.id > m.id /\ n \in Sent'
  BY <1>1, <1>2, <1>11
<1> HIDE DEF Flying, Pending
<1>7. ASSUME NEW id \in (m.id + 1)..watermark PROVE \E n \in Sent' : n.id = id
  <2>1. id \in (lastId + 1)..watermark /\ id # m.id
    BY <1>1
  <2>2. PICK n \in Sent : n.id = id
    BY <2>1 DEF IsCaughtUp
  <2> QED
    BY <1>2, <2>1, <2>2
<1>8. ASSUME NEW e \in Entries
      PROVE  \/ view'[e] = history[e]
             \/ \E n \in Sent' : n.id > m.id /\ n.update.entry = e /\ n.update.to = history[e]
             \/ \E u \in Pending : u.entry = e /\ u.to = history[e]
  <2>1. CASE view[e] = history[e]
    BY <1>4, <1>5, <2>1
  <2>2. CASE \E n \in Sent : n.id > lastId /\ n.update.entry = e /\ n.update.to = history[e]
    <3>1. PICK n \in Sent : n.id > lastId /\ n.update.entry = e /\ n.update.to = history[e]
      BY <2>2
    <3>2. CASE n = m
      BY <1>4, <3>1, <3>2
    <3>3. CASE n # m
      BY <1>6, <3>1, <3>3
    <3> QED
      BY <3>2, <3>3
  <2>3. CASE \E u \in Pending : u.entry = e /\ u.to = history[e]
    BY <2>3
  <2> QED
    BY <2>1, <2>2, <2>3 DEF IsCaughtUp
<1>9. ASSUME NEW e \in Entries, view'[e] = Absent
      PROVE  \/ history[e] = Absent
             \/ \E n \in Sent' : n.id > m.id /\ n.update.entry = e /\ n.update.from = Absent
             \/ \E u \in Pending : u.entry = e /\ u.from = Absent
  <2>1. e # m.update.entry /\ view[e] = Absent
    BY <1>4, <1>5, <1>9 DEF Absent
  <2>2. CASE \E n \in Sent : n.id > lastId /\ n.update.entry = e /\ n.update.from = Absent
    <3>1. PICK n \in Sent : n.id > lastId /\ n.update.entry = e /\ n.update.from = Absent
      BY <2>2
    <3> QED
      BY <1>6, <2>1, <3>1
  <2> QED
    BY <2>1, <2>2 DEF IsCaughtUp
<1>10. ASSUME NEW n \in Flying', n.id > m.id, n.update.from # Absent,
              view'[n.update.entry] = Absent
       PROVE  \E p \in Sent' : /\ p.id > m.id /\ p.id < n.id
                               /\ p.update.entry = n.update.entry
                               /\ p.update.from = Absent
  <2>1. n \in Flying /\ n.update.entry \in Entries /\ n.id > lastId
    BY <1>1, <1>2, <1>10 DEF Updates
  <2>2. n.update.entry # m.update.entry /\ view[n.update.entry] = Absent
    BY <1>4, <1>5, <1>10, <2>1 DEF Absent
  <2>3. PICK p \in Sent : /\ p.id > lastId /\ p.id < n.id
                          /\ p.update.entry = n.update.entry /\ p.update.from = Absent
    BY <1>10, <2>1, <2>2 DEF IsCaughtUp
  <2> QED
    BY <1>6, <2>2, <2>3
<1>12. ASSUME NEW n \in Messages(blocked[Turn]), n.id <= m.id,
              NEW u \in Messages(toSend[Turn])
       PROVE  u.to <= view'[u.entry]
  <2>0. Turn \in Writers /\ n \in Events /\ u \in Updates
    <3>1. Turn \in Writers /\ blocked[Turn] \in Seq(Events) /\ toSend[Turn] \in Seq(Updates)
      BY DEF Writers, TypeOK, Shape
    <3> QED
      BY <3>1, QueueHolds
  <2>1. m.id # n.id
    BY <2>0 DEF PutsAreSingle, Elsewhere, Applies, Events
  <2>2. n.id \in Nat /\ n.id <= lastId
    BY <1>1, <1>12, <2>0, <2>1 DEF Events
  <2>3. u.to <= view[u.entry]
    BY <2>2 DEF IsCaughtUp
  <2>4. /\ u.to \in Nat /\ u.entry \in Entries
        /\ view[u.entry] \in Nat /\ view'[u.entry] \in Nat
    BY <1>4, <1>5, <2>0 DEF Updates, Revisions, Absent, Completed
  <2> QED
    BY <1>4, <2>3, <2>4
<1>13. blocked' = blocked /\ toSend' = toSend
  BY DEF Applies
<1> QED
  BY <1>1, <1>3, <1>7, <1>8, <1>9, <1>10, <1>12, <1>13 DEF IsCaughtUp

\* Applying keeps types and what is said of events and views.
LEMMA ApplyingKeepsViews ==
  ASSUME TypeOK, ResponsesAreAwaited, EventsAreNumbered, UpdatesAreRecent,
         PutsAreSingle, LostAreGone, ViewIsBehind, ViewIsCaughtUp, ApplyEvent
  PROVE  /\ TypeOK' /\ EventsAreNumbered' /\ UpdatesAreRecent'
         /\ PutsAreSingle' /\ LostAreGone' /\ ViewIsBehind' /\ ViewIsCaughtUp'
         /\ Awaited' = {}
         /\ \A e \in Entries : view'[e] >= view[e]
<1> DEFINE m == Head(inbox)
<1>1. Applies(m) /\ inbox' \in Seq(Events) /\ Len(inbox') <= Inbox
  BY PumpApplies
<1>2. UNCHANGED <<serverVars, outbox, mode, attaches, lost>>
  BY DEF ApplyEvent
<1> HIDE DEF m
<1>3. conn # "none" => IsCaughtUp(view, lastId)
  BY <1>1 DEF ViewIsCaughtUp, Applies
<1>4. /\ view' \in [Entries -> Revisions]
      /\ \A e \in Entries : e # m.update.entry => view'[e] = view[e]
      /\ ~Ignores(m.update) => view'[m.update.entry] = m.update.to
      /\ Ignores(m.update) => view' = view
      /\ view[m.update.entry] <= m.update.to
  BY <1>1, <1>3, AppliedIsShown
<1>5. lastId' \in 0..watermark' /\ m.id <= watermark /\ m.update.entry \in Entries
  <2>1. m.id \in Nat /\ m.id <= watermark /\ watermark \in Nat /\ m.update \in Updates
    BY <1>1, TransitIsSorted DEF Applies, TypeOK, Shape
  <2>2. lastId' = m.id /\ watermark' = watermark
    BY <1>1 DEF Applies
  <2> QED
    BY <2>1, <2>2 DEF Updates
<1>6. Shape'
  BY <1>1, <1>2, <1>4, <1>5 DEF TypeOK, Shape, serverVars
<1>7. InTransit' \subseteq InTransit /\ watermark' = watermark
  BY <1>1 DEF Applies
<1>8. TypeOK'
  BY <1>2, <1>6, <1>7 DEF TypeOK
<1>9. EventsAreNumbered'
  <2>1. Flying' \subseteq Flying
    BY <1>7 DEF Flying
  <2> QED
    BY <1>2, <2>1 DEF EventsAreNumbered, serverVars
<1>15. PutsAreSingle' /\ LostAreGone'
  <2>1. PutsGoOn /\ Flying' \subseteq Flying
    BY <1>1, <1>7, QueuesGoOn DEF Applies, Flying
  <2> QED
    BY <1>2, <2>1, GoingOnKeepsSingle DEF LostAreGone
<1>10. UpdatesAreRecent'
  BY <1>2, DroppingKeepsRecent DEF serverVars
<1>11. ViewIsBehind'
  BY <1>1, <1>3, ApplyingIsAhead
<1>12. Awaited' = {} /\ conn' = conn
  BY <1>1 DEF Applies
<1>13. ViewIsCaughtUp'
  <2>1. conn # "none" => IsCaughtUp(view, lastId)'
    BY <1>1, <1>3, ApplyingFollows
  <2> QED
    BY <1>12, <2>1 DEF ViewIsCaughtUp
<1>14. ASSUME NEW e \in Entries PROVE view'[e] >= view[e]
  <2>0. view \in [Entries -> Revisions]
    BY DEF TypeOK, Shape
  <2>1. view[e] \in Nat /\ view'[e] \in Nat
    BY <1>4, <2>0 DEF Revisions, Absent, Completed
  <2>2. view'[e] = view[e] \/ (e = m.update.entry /\ view'[e] = m.update.to)
    BY <1>4
  <2> QED
    BY <1>4, <2>1, <2>2
<1> QED
  BY <1>8, <1>9, <1>10, <1>11, <1>12, <1>13, <1>14, <1>15

-----------------------------------------------------------------------------
(* Snapshots.                                                              *)

\* A server with nobody waiting takes one.
LEMMA SnapshotKeepsViews ==
  ASSUME TypeOK, ResponsesAreAwaited, EventsAreNumbered, UpdatesAreRecent,
         PutsAreSingle, LostAreGone, ViewIsBehind, ViewIsCaughtUp,
         ReadSession \/ ResumeSession
  PROVE  /\ TypeOK' /\ EventsAreNumbered' /\ UpdatesAreRecent'
         /\ PutsAreSingle' /\ LostAreGone' /\ ViewIsBehind' /\ ViewIsCaughtUp'
         /\ mode' \in {"resyncing", "resuming"} /\ Awaited = {}
<1>1. /\ answer' = <<Snapshot>>
      /\ UNCHANGED <<history, watermark, toSend, blocked, buffered, outbox, inbox, view,
                     lastId, attaches, lost>>
      /\ conn' \in {"attaching", "attached"}
      /\ mode' \in {"resyncing", "resuming"} /\ Awaited = {}
  BY DEF ReadSession, ResumeSession, ResponsesAreAwaited, clientVars
<1>2. /\ watermark \in Nat /\ history \in [Entries -> Revisions]
      /\ view \in [Entries -> Revisions] /\ lastId \in Nat
      /\ \A n \in Flying : n.id \in Nat /\ n.id <= watermark
  BY TransitIsSorted DEF TypeOK, Shape
<1> DEFINE s == Snapshot
<1>3. s \in States /\ s.kind = "state" /\ s.id = watermark /\ s.view = history
  BY <1>2 DEF Snapshot, State, States
<1>a. answer' = <<s>>
  BY <1>1
<1> HIDE DEF s
<1>4. answer' \in Seq(States) /\ Len(answer') = 1 /\ Messages(answer)' = {s}
  BY <1>a, <1>3, ShortQueues
<1>5. Messages(answer) = {}
  <2>1. answer \in Seq(States)
    BY DEF TypeOK, Shape
  <2>2. Messages(answer) \subseteq States
    BY <2>1, QueueHolds
  <2>3. \A x \in Messages(answer) : x \in Awaited
    BY <2>2, TransitParts DEF Awaited, States
  <2> QED
    BY <1>1, <2>3
<1>6. InTransit' = InTransit \cup {s}
  BY <1>1, <1>4, <1>5, TransitParts DEF Suspended
<1>7. Flying' = Flying /\ Awaited' = {s}
  BY <1>1, <1>3, <1>6 DEF Flying, Awaited
<1>8. Shape'
  BY <1>1, <1>4 DEF TypeOK, Shape
<1>9. TypeOK'
  BY <1>1, <1>2, <1>3, <1>6, <1>8 DEF TypeOK
<1>10. EventsAreNumbered'
  BY <1>1, <1>7 DEF EventsAreNumbered
<1>11. UpdatesAreRecent'
  BY <1>1, DroppingKeepsRecent
<1>18. PutsAreSingle' /\ LostAreGone'
  <2>1. PutsGoOn
    BY <1>1, QueuesGoOn DEF Queued
  <2> QED
    BY <1>1, <1>7, <2>1, GoingOnKeepsSingle DEF LostAreGone
<1>19. \A u \in Messages(toSend[Turn]) : u.to <= history[u.entry]
  <2>1. ASSUME NEW u \in Messages(toSend[Turn]) PROVE u.to <= history[u.entry]
    <3>0. Turn \in Writers /\ toSend[Turn] \in Seq(Updates)
      BY DEF Writers, TypeOK, Shape
    <3>1. u \in Updates /\ IsRecent(u)
      BY <3>0, QueueHolds DEF UpdatesAreRecent, Messages
    <3> QED
      BY <1>2, <3>1 DEF IsRecent, Updates, Revisions, Absent, Resumed, Completed
  <2> QED
    BY <2>1
<1>12. ~ \E n \in Flying : n.id > watermark
  BY <1>2
<1>b. \A e \in Entries : history[e] \in Nat
  BY <1>2 DEF Revisions, Absent, Completed
<1>13. \A e \in Entries : view[e] <= history[e]
  BY DEF ViewIsBehind
<1>17. ASSUME NEW e \in Entries PROVE history[e] <= history[e]
  <2>1. history[e] \in Nat
    BY <1>b
  <2> QED
    BY <2>1
<1>14. ViewIsBehind'
  BY <1>1, <1>3, <1>7, <1>12, <1>13, <1>17 DEF ViewIsBehind, IsBehind
<1>15. (watermark + 1)..watermark = {}
  BY <1>2
<1>16. ViewIsCaughtUp'
  BY <1>1, <1>3, <1>7, <1>12, <1>15, <1>19 DEF ViewIsCaughtUp, IsCaughtUp
<1> QED
  BY <1>1, <1>9, <1>10, <1>11, <1>14, <1>16, <1>18

\* The only response on its way is the one that the client takes.
LEMMA OneResponse ==
  ASSUME Shape, ResponsesAreAwaited, outbox # <<>>, Head(outbox).kind = "state",
         outbox' = Tail(outbox), UNCHANGED <<buffered, answer, inbox, blocked>>
  PROVE  /\ InTransit = InTransit' \cup {Head(outbox)} /\ Awaited' = {}
         /\ outbox' \in Seq(Events \cup States) /\ Len(outbox') <= Outbox
<1> DEFINE M == Events \cup States
<1>0. outbox \in Seq(M) /\ Outbox \in Nat /\ Len(outbox) <= Outbox
  BY StreamAssumption DEF Shape
<1> HIDE DEF M
<1>1. /\ Tail(outbox) \in Seq(M) /\ Len(Tail(outbox)) = Len(outbox) - 1
      /\ Head(outbox) = outbox[1] /\ 1 \in DOMAIN outbox
      /\ \A i \in DOMAIN Tail(outbox) : i + 1 \in DOMAIN outbox /\ Tail(outbox)[i] = outbox[i + 1]
      /\ Messages(outbox) = {Head(outbox)} \cup Messages(Tail(outbox))
  BY <1>0, FirstAndOthers
<1>2. Len(outbox) \in Nat /\ DOMAIN Tail(outbox) = 1..Len(Tail(outbox)) /\ Len(Tail(outbox)) \in Nat
  BY <1>0, <1>1, LenProperties
<1>3. outbox' \in Seq(M) /\ Len(outbox') <= Outbox /\ Messages(outbox)' = Messages(Tail(outbox))
  BY <1>0, <1>1, <1>2
<1>4. InTransit = InTransit' \cup {Head(outbox)}
  BY <1>1, <1>3, TransitParts DEF Suspended
<1>5. answer = <<>>
  BY <1>1 DEF ResponsesAreAwaited, OneInTheQueue
<1>6. ASSUME NEW i \in DOMAIN Tail(outbox) PROVE Tail(outbox)[i].kind # "state"
  BY <1>1, <1>2 DEF ResponsesAreAwaited, OneInTheQueue
<1>7. ASSUME NEW x \in Messages(Tail(outbox)) PROVE x.kind # "state"
  BY <1>6 DEF Messages
<1>8. /\ \A x \in Messages(buffered) \cup Messages(inbox) \cup Suspended : x.kind # "state"
      /\ Messages(answer) = {}
  <2>1. /\ Messages(buffered) \subseteq Events /\ Messages(inbox) \subseteq Events
        /\ \A w \in Writers : Messages(blocked[w]) \subseteq Events
    BY QueueHolds DEF Shape
  <2>2. \A x \in Events : x.kind # "state"
    BY DEF Events
  <2>3. Suspended \subseteq Events
    BY <2>1 DEF Suspended
  <2> QED
    BY <1>5, <2>1, <2>2, <2>3, ShortQueues
<1>9. InTransit' = Messages(buffered) \cup Messages(answer) \cup Messages(Tail(outbox))
                   \cup Messages(inbox) \cup Suspended
  BY <1>3, TransitParts DEF Suspended
<1>10. Awaited' = {}
  BY <1>7, <1>8, <1>9 DEF Awaited
<1> QED
  BY <1>3, <1>4, <1>10 DEF M

\* The client shows the snapshot.
LEMMA ReceivingKeepsViews ==
  ASSUME TypeOK, ResponsesAreAwaited, EventsAreNumbered, UpdatesAreRecent,
         PutsAreSingle, LostAreGone, ViewIsBehind, ViewIsCaughtUp, ReceiveState
  PROVE  /\ TypeOK' /\ EventsAreNumbered' /\ UpdatesAreRecent'
         /\ PutsAreSingle' /\ LostAreGone' /\ ViewIsBehind' /\ ViewIsCaughtUp'
         /\ Awaited' = {} /\ Awaited # {}
         /\ \A e \in Entries : view'[e] >= view[e]
<1> DEFINE s == Head(outbox)
<1>1. /\ outbox # <<>> /\ s.kind = "state" /\ view' = s.view /\ lastId' = s.id /\ mode' = "up"
      /\ outbox' = Tail(outbox) /\ lost' = {m \in lost : m.id > s.id}
      /\ UNCHANGED <<history, watermark, toSend, blocked, conn, buffered, answer, inbox, attaches>>
  BY DEF ReceiveState, serverVars
<1>2. /\ InTransit = InTransit' \cup {s} /\ Awaited' = {}
      /\ outbox' \in Seq(Events \cup States) /\ Len(outbox') <= Outbox
  BY <1>1, OneResponse DEF TypeOK
<1> HIDE DEF s
<1>3. s \in Awaited
  BY <1>1, <1>2 DEF Awaited
<1>4. /\ s.id \in Nat /\ s.id <= watermark /\ s.view \in [Entries -> Revisions]
      /\ watermark \in Nat
  BY <1>3, TransitIsSorted DEF TypeOK, Shape
<1>5. lastId' \in 0..watermark' /\ view' \in [Entries -> Revisions]
  BY <1>1, <1>4
<1>6. Shape'
  BY <1>1, <1>2, <1>5 DEF TypeOK, Shape
<1>7. TypeOK'
  BY <1>1, <1>2, <1>6 DEF TypeOK
<1>8. Flying' = Flying
  BY <1>1, <1>2 DEF Flying
<1>9. EventsAreNumbered'
  BY <1>1, <1>8 DEF EventsAreNumbered
<1>17. PutsAreSingle' /\ LostAreGone'
  <2>1. Messages(outbox)' \subseteq Messages(outbox)
    <3>1. outbox \in Seq(Events \cup States)
      BY DEF TypeOK, Shape
    <3> DEFINE M == Events \cup States
    <3>2. outbox \in Seq(M)
      BY <3>1
    <3> HIDE DEF M
    <3>3. Messages(Tail(outbox)) \subseteq Messages(outbox)
      BY <1>1, <3>2, FirstAndOthers
    <3> QED
      BY <1>1, <3>3
  <2>2. PutsGoOn
    BY <1>1, <2>1, QueuesGoOn DEF Queued
  <2> QED
    BY <1>1, <1>8, <2>2, GoingOnKeepsSingle DEF LostAreGone
<1>18. Sent' \subseteq Sent /\ \A m \in Sent : m.id > s.id => m \in Sent'
  BY <1>1, <1>8 DEF Sent
<1>10. UpdatesAreRecent'
  BY <1>1, DroppingKeepsRecent
<1>11. IsBehind(s.view, s.id) /\ \A e \in Entries : view[e] <= s.view[e]
  BY <1>3 DEF ViewIsBehind
<1>12. ViewIsBehind'
  BY <1>1, <1>2, <1>8, <1>11 DEF ViewIsBehind, IsBehind
<1>13. conn # "none" => IsCaughtUp(s.view, s.id)
  BY <1>3 DEF ViewIsCaughtUp
<1>14. Pending' = Pending
  BY <1>1 DEF Pending
<1>19. \A id \in (s.id + 1)..watermark : id > s.id
  BY <1>4
<1>15. ViewIsCaughtUp'
  <2>1. ASSUME conn # "none" PROVE IsCaughtUp(view, lastId)'
    <3>1. IsCaughtUp(s.view, s.id)
      BY <1>13, <2>1
    <3>2. \A id \in (s.id + 1)..watermark : \E m \in Sent' : m.id = id
      BY <1>18, <1>19, <3>1 DEF IsCaughtUp
    <3> HIDE DEF Sent, Flying, Pending
    <3> QED
      BY <1>1, <1>8, <1>14, <1>18, <3>1, <3>2 DEF IsCaughtUp
  <2> QED
    BY <1>1, <1>2, <2>1 DEF ViewIsCaughtUp
<1>16. \A e \in Entries : view'[e] >= view[e]
  BY <1>1, <1>4, <1>11 DEF TypeOK, Shape, Revisions, Absent, Completed
<1> QED
  BY <1>2, <1>3, <1>7, <1>9, <1>10, <1>12, <1>15, <1>16, <1>17

-----------------------------------------------------------------------------
(* One response at a time.                                                 *)

\* The queue moves on by d, and takes events only.
Slides(d) ==
  \A i \in DOMAIN outbox' : i \in Nat /\ \/ outbox'[i].kind = "event"
                                         \/ i + d \in DOMAIN outbox /\ outbox'[i] = outbox[i + d]

\* A queue that slides has no response more.
LEMMA SlidingKeepsOne ==
  ASSUME OneInTheQueue, NEW d \in Nat, Slides(d), answer' = answer \/ answer' = <<>>
  PROVE  OneInTheQueue'
<1>1. ASSUME NEW i \in DOMAIN outbox', NEW j \in DOMAIN outbox',
             outbox'[i].kind = "state", outbox'[j].kind = "state"
      PROVE  i = j
  <2>1. /\ i \in Nat /\ i + d \in DOMAIN outbox /\ outbox'[i] = outbox[i + d]
        /\ j \in Nat /\ j + d \in DOMAIN outbox /\ outbox'[j] = outbox[j + d]
    BY <1>1 DEF Slides
  <2>2. i + d = j + d
    BY <1>1, <2>1 DEF OneInTheQueue
  <2> QED
    BY <2>1, <2>2
<1>2. ASSUME answer' # <<>>, NEW i \in DOMAIN outbox' PROVE outbox'[i].kind = "event"
  BY <1>2 DEF OneInTheQueue, Slides
<1> QED
  BY <1>1, <1>2 DEF OneInTheQueue

\* A queue that stays, is cleared, goes on or takes an event.
LEMMA QueuesSlide ==
  ASSUME Shape,
         \/ Outgoing
         \/ outbox' = <<>>
         \/ outbox # <<>> /\ outbox' = Tail(outbox)
         \/ \E w \in Writers : outbox' = outbox \o blocked[w]
  PROVE  \E d \in Nat : Slides(d)
<1> DEFINE M == Events \cup States
<1>0. /\ outbox \in Seq(M) /\ \A w \in Writers : blocked[w] \in Seq(Events)
      /\ \A w \in Writers : blocked[w] \in Seq(M)
  <2>1. outbox \in Seq(M) /\ \A w \in Writers : blocked[w] \in Seq(Events)
    BY DEF Shape
  <2>2. ASSUME NEW w \in Writers PROVE blocked[w] \in Seq(M)
    <3>1. blocked[w] \in [1..Len(blocked[w]) -> Events] /\ Len(blocked[w]) \in Nat
      BY <2>1, LenProperties
    <3>2. Events \subseteq M
      OBVIOUS
    <3> HIDE DEF M
    <3>3. blocked[w] \in [1..Len(blocked[w]) -> M]
      BY <3>1, <3>2
    <3> QED
      BY <3>1, <3>3, SeqDef
  <2> QED
    BY <2>1, <2>2
<1> HIDE DEF M
<1>1. DOMAIN outbox = 1..Len(outbox) /\ Len(outbox) \in Nat
  BY <1>0, LenProperties
<1>2. \A m \in Events : m.kind = "event"
  BY DEF Events
<1>8. \A i \in 1..(Len(outbox) + 1) :
        i \in Nat /\ i + 0 = i /\ (i \in DOMAIN outbox \/ i = Len(outbox) + 1)
  BY <1>1
<1>3. CASE outbox' = outbox
  <2>1. ASSUME NEW i \in DOMAIN outbox PROVE i \in Nat /\ i + 0 = i
    BY <1>1
  <2>2. Slides(0)
    BY <1>3, <2>1 DEF Slides
  <2> QED
    BY <2>2
<1>4. CASE \E m \in Events : outbox' = Append(outbox, m)
  <2>1. PICK m \in Events : outbox' = Append(outbox, m)
    BY <1>4
  <2>2. m \in M /\ m.kind = "event"
    BY <1>2 DEF M
  <2>3. /\ Append(outbox, m) \in Seq(M) /\ Len(Append(outbox, m)) = Len(outbox) + 1
        /\ \A i \in 1..Len(outbox) : Append(outbox, m)[i] = outbox[i]
        /\ Append(outbox, m)[Len(outbox) + 1] = m
    BY <1>0, <2>2, AppendProperties
  <2>4. DOMAIN Append(outbox, m) = 1..(Len(outbox) + 1)
    BY <2>3, LenProperties
  <2> DEFINE out == Append(outbox, m)
  <2>5. /\ outbox' = out /\ DOMAIN out = 1..(Len(outbox) + 1)
        /\ \A i \in 1..Len(outbox) : out[i] = outbox[i]
        /\ out[Len(outbox) + 1] = m
    BY <2>1, <2>3, <2>4
  <2> HIDE DEF out
  <2>6. Slides(0)
    <3>1. ASSUME NEW i \in DOMAIN out
          PROVE  i \in Nat /\ \/ out[i].kind = "event"
                              \/ i + 0 \in DOMAIN outbox /\ out[i] = outbox[i + 0]
      <4>1. i \in Nat /\ i + 0 = i /\ (i \in DOMAIN outbox \/ i = Len(outbox) + 1)
        BY <1>8, <2>5
      <4> QED
        BY <1>1, <2>2, <2>5, <4>1
    <3> QED
      BY <2>5, <3>1 DEF Slides
  <2> QED
    BY <2>6
<1>5. CASE outbox' = <<>>
  <2>1. DOMAIN outbox' = {}
    BY <1>5
  <2>2. Slides(0)
    BY <2>1 DEF Slides
  <2> QED
    BY <2>2
<1>6. CASE outbox # <<>> /\ outbox' = Tail(outbox)
  <2>1. /\ Tail(outbox) \in Seq(M)
        /\ \A i \in DOMAIN Tail(outbox) : i + 1 \in DOMAIN outbox /\ Tail(outbox)[i] = outbox[i + 1]
    BY <1>0, <1>6, FirstAndOthers
  <2>2. DOMAIN Tail(outbox) = 1..Len(Tail(outbox)) /\ Len(Tail(outbox)) \in Nat
    BY <2>1, LenProperties
  <2>3. Slides(1)
    BY <1>6, <2>1, <2>2 DEF Slides
  <2> QED
    BY <2>3
<1>7. CASE \E w \in Writers : outbox' = outbox \o blocked[w]
  <2>1. PICK w \in Writers : outbox' = outbox \o blocked[w]
    BY <1>7
  <2> DEFINE q == blocked[w]
             out == outbox \o q
  <2>2. q \in Seq(Events) /\ q \in Seq(M)
    BY <1>0
  <2> HIDE DEF q
  <2>3. /\ out \in Seq(M) /\ Len(out) = Len(outbox) + Len(q)
        /\ \A i \in 1..(Len(outbox) + Len(q)) :
             out[i] = IF i <= Len(outbox) THEN outbox[i] ELSE q[i - Len(outbox)]
    BY <1>0, <2>2, ConcatProperties, Zenon
  <2>4. DOMAIN out = 1..(Len(outbox) + Len(q)) /\ Len(q) \in Nat
    BY <2>2, <2>3, LenProperties
  <2>5. \A i \in 1..Len(q) : q[i].kind = "event"
    BY <1>2, <2>2, ElementOfSeq
  <2>6. outbox' = out
    BY <2>1 DEF q
  <2> HIDE DEF out
  <2>7. Slides(0)
    <3>1. ASSUME NEW i \in DOMAIN out
          PROVE  i \in Nat /\ \/ out[i].kind = "event"
                              \/ i + 0 \in DOMAIN outbox /\ out[i] = outbox[i + 0]
      <4>1. i \in Nat /\ i >= 1 /\ i <= Len(outbox) + Len(q)
        BY <1>1, <2>4
      <4>2. CASE i <= Len(outbox)
        BY <1>1, <2>3, <2>4, <4>1, <4>2
      <4>3. CASE i > Len(outbox)
        <5>1. out[i] = q[i - Len(outbox)] /\ i - Len(outbox) \in 1..Len(q)
          BY <1>1, <2>3, <2>4, <4>1, <4>3
        <5> QED
          BY <2>5, <4>1, <5>1
      <4> QED
        BY <1>1, <4>1, <4>2, <4>3
    <3> QED
      BY <2>6, <3>1 DEF Slides
  <2> QED
    BY <2>7
<1> QED
  BY <1>3, <1>4, <1>5, <1>6, <1>7 DEF Outgoing

\* How a step may leave the responses.
LEMMA ResponsesStayAwaited ==
  ASSUME Shape, ResponsesAreAwaited, Awaited' \subseteq Awaited,
         mode' = mode \/ Awaited' = {},
         conn' = "opening" => mode' = "resuming" /\ (conn = "opening" \/ Awaited' = {}),
         conn' = "none" => conn = "none" \/ answer' = <<>>,
         answer' = answer \/ answer' = <<>>,
         \/ Outgoing
         \/ outbox' = <<>>
         \/ outbox # <<>> /\ outbox' = Tail(outbox)
         \/ \E w \in Writers : outbox' = outbox \o blocked[w]
  PROVE  ResponsesAreAwaited'
<1>1. PICK d \in Nat : Slides(d)
  BY QueuesSlide
<1>2. OneInTheQueue'
  BY <1>1, SlidingKeepsOne DEF ResponsesAreAwaited
<1>3. mode' \notin {"resyncing", "resuming"} => Awaited' = {}
  BY DEF ResponsesAreAwaited
<1>4. conn' = "opening" => mode' = "resuming" /\ Awaited' = {}
  BY DEF ResponsesAreAwaited
<1>5. conn' = "none" => answer' = <<>>
  BY DEF ResponsesAreAwaited
<1> QED
  BY <1>2, <1>3, <1>4, <1>5 DEF ResponsesAreAwaited

\* A writer's step sends no response.
LEMMA WritingKeepsResponses ==
  ASSUME TypeOK, ResponsesAreAwaited, NEW us, Publication(us), Outgoing, UNCHANGED answer
  PROVE  ResponsesAreAwaited'
<1>1. Awaited' = Awaited /\ mode' = mode /\ conn' = conn /\ Shape
  BY DEF Publication, Sends, TypeOK
<1>2. conn' = "opening" => mode' = "resuming" /\ conn = "opening"
  BY <1>1 DEF ResponsesAreAwaited
<1> QED
  BY <1>1, <1>2, ResponsesStayAwaited

\* Nor do the steps that only lose messages.
LEMMA LosingKeepsResponses ==
  ASSUME TypeOK, ResponsesAreAwaited, Loses,
         \/ SkipEvent \/ RejectEvent \/ Resync
         \/ ConnectionFails \/ CloseConnection \/ EndOfStream \/ ConnectionClosed \/ Resume
  PROVE  ResponsesAreAwaited'
<1>1. Shape /\ Awaited' \subseteq Awaited
  BY DEF Loses, Awaited, TypeOK
<1>2. CASE SkipEvent \/ RejectEvent \/ Resync
  <2>1. /\ mode = "up" /\ UNCHANGED <<conn, answer, outbox>>
    BY <1>2 DEF SkipEvent, RejectEvent, Resync, Pumps, serverVars
  <2>2. Awaited' = {} /\ conn # "opening"
    BY <1>1, <2>1 DEF ResponsesAreAwaited
  <2> QED
    BY <1>1, <2>1, <2>2, ResponsesStayAwaited DEF Outgoing
<1>3. CASE ConnectionFails
  <2>1. mode' = mode /\ conn' = "none" /\ answer' = <<>> /\ outbox' = outbox
    BY <1>3 DEF ConnectionFails, Detach, clientVars
  <2> QED
    BY <1>1, <2>1, ResponsesStayAwaited DEF Outgoing
<1>4. CASE CloseConnection
  <2>1. mode = "broken" /\ conn' = "none" /\ answer' = <<>> /\ outbox' = outbox
    BY <1>4 DEF CloseConnection, Detach
  <2>2. Awaited' = {}
    BY <1>1, <2>1 DEF ResponsesAreAwaited
  <2> QED
    BY <1>1, <2>1, <2>2, ResponsesStayAwaited DEF Outgoing
<1>5. CASE EndOfStream
  <2>1. /\ conn = "none" /\ outbox = <<>> /\ inbox' = <<>>
        /\ UNCHANGED <<conn, answer, outbox, buffered, blocked>>
    BY <1>5 DEF EndOfStream, serverVars
  <2>2. answer = <<>>
    BY <2>1 DEF ResponsesAreAwaited
  <2>3. \A x \in Messages(buffered) \cup Suspended : x.kind # "state"
    <3>1. Messages(buffered) \subseteq Events
          /\ \A w \in Writers : Messages(blocked[w]) \subseteq Events
      BY <1>1, QueueHolds DEF Shape
    <3>2. \A x \in Events : x.kind # "state"
      BY DEF Events
    <3> QED
      BY <3>1, <3>2 DEF Suspended
  <2>4. InTransit' = Messages(buffered) \cup Suspended
    BY <2>1, <2>2, TransitParts, ShortQueues DEF Suspended
  <2>5. Awaited' = {}
    BY <2>3, <2>4 DEF Awaited
  <2> QED
    BY <1>1, <2>1, <2>5, ResponsesStayAwaited DEF Outgoing
<1>6. CASE ConnectionClosed
  <2>1. mode = "closing" /\ UNCHANGED <<conn, answer>> /\ outbox' = <<>>
    BY <1>6 DEF ConnectionClosed, serverVars
  <2>2. Awaited' = {} /\ conn # "opening"
    BY <1>1, <2>1 DEF ResponsesAreAwaited
  <2> QED
    BY <1>1, <2>1, <2>2, ResponsesStayAwaited
<1>7. CASE Resume
  <2>1. /\ mode = "closed" /\ mode' = "resuming" /\ conn' = "opening"
        /\ UNCHANGED <<answer, outbox>>
    BY <1>7 DEF Resume
  <2>2. Awaited' = {}
    BY <1>1, <2>1 DEF ResponsesAreAwaited
  <2> QED
    BY <1>1, <2>1, <2>2, ResponsesStayAwaited DEF Outgoing
<1> QED
  BY <1>2, <1>3, <1>4, <1>5, <1>6, <1>7

\* Nor those that only move events.
LEMMA MovingKeepsResponses ==
  ASSUME TypeOK, ResponsesAreAwaited, Loses,
         \/ \E w \in Writers : PutBlocked(w)
         \/ Flush \/ FinishAttachment \/ ReceiveEvent
  PROVE  ResponsesAreAwaited'
<1>1. Shape /\ Awaited' \subseteq Awaited
  BY DEF Loses, Awaited, TypeOK
<1>2. /\ mode' = mode /\ answer' = answer
      /\ conn' = conn \/ conn' = "attached"
  BY DEF PutBlocked, Flush, FinishAttachment, ReceiveEvent, clientVars, serverVars
<1>3. \/ Outgoing
      \/ outbox # <<>> /\ outbox' = Tail(outbox)
      \/ \E w \in Writers : outbox' = outbox \o blocked[w]
  <2>1. CASE Flush
    <3>1. buffered \in Seq(Events) /\ buffered # <<>>
      BY <1>1, <2>1 DEF Shape, Flush
    <3>2. Head(buffered) \in Events
      BY <3>1, FirstAndOthers
    <3> QED
      BY <2>1, <3>2 DEF Flush, Outgoing
  <2>2. CASE FinishAttachment
    BY <2>2 DEF FinishAttachment, Outgoing
  <2>3. CASE ReceiveEvent
    BY <2>3 DEF ReceiveEvent
  <2>4. CASE \E w \in Writers : PutBlocked(w)
    BY <2>4 DEF PutBlocked
  <2> QED
    BY <2>1, <2>2, <2>3, <2>4
<1>4. conn' = "opening" => mode' = "resuming" /\ conn = "opening"
  BY <1>2 DEF ResponsesAreAwaited
<1> QED
  BY <1>1, <1>2, <1>3, <1>4, ResponsesStayAwaited

\* The response that is put is the only one.
LEMMA PuttingKeepsResponses ==
  ASSUME TypeOK, ResponsesAreAwaited, Loses, PutAnswer
  PROVE  ResponsesAreAwaited'
<1>1. /\ Shape /\ Awaited' \subseteq Awaited /\ answer # <<>> /\ outbox' = outbox \o answer
      /\ answer' = <<>> /\ UNCHANGED <<conn, mode>>
  BY DEF Loses, Awaited, TypeOK, PutAnswer, clientVars
<1>2. \A i \in DOMAIN outbox : outbox[i].kind = "event"
  BY <1>1 DEF ResponsesAreAwaited, OneInTheQueue
<1> DEFINE M == Events \cup States
<1>3. outbox \in Seq(M) /\ answer \in Seq(States) /\ Len(answer) <= 1
  BY <1>1 DEF Shape
<1>4. answer \in Seq(M)
  <2>1. answer \in [1..Len(answer) -> States] /\ Len(answer) \in Nat
    BY <1>3, LenProperties
  <2>2. States \subseteq M
    OBVIOUS
  <2> HIDE DEF M
  <2>3. answer \in [1..Len(answer) -> M]
    BY <2>1, <2>2
  <2> QED
    BY <2>1, <2>3, SeqDef
<1> HIDE DEF M
<1> DEFINE out == outbox \o answer
<1>5. /\ out \in Seq(M) /\ Len(out) = Len(outbox) + Len(answer)
      /\ \A i \in 1..(Len(outbox) + Len(answer)) :
           out[i] = IF i <= Len(outbox) THEN outbox[i] ELSE answer[i - Len(outbox)]
  BY <1>3, <1>4, ConcatProperties, Zenon
<1>6. /\ DOMAIN out = 1..(Len(outbox) + Len(answer)) /\ Len(outbox) \in Nat
      /\ Len(answer) \in Nat /\ DOMAIN outbox = 1..Len(outbox)
  BY <1>3, <1>5, LenProperties
<1>7. outbox' = out
  BY <1>1
<1> HIDE DEF out
<1>8. ASSUME NEW i \in DOMAIN out, out[i].kind = "state" PROVE i = Len(outbox) + 1
  <2>1. i \in Nat /\ i >= 1 /\ i <= Len(outbox) + Len(answer)
    BY <1>6
  <2>2. CASE i <= Len(outbox)
    <3>1. out[i] = outbox[i] /\ i \in DOMAIN outbox
      BY <1>5, <1>6, <2>1, <2>2
    <3>2. out[i].kind = "event"
      BY <1>2, <3>1
    <3> QED
      BY <1>8, <3>2
  <2> QED
    BY <1>3, <1>6, <2>1, <2>2
<1>9. OneInTheQueue'
  BY <1>1, <1>7, <1>8 DEF OneInTheQueue
<1>10. (mode' \notin {"resyncing", "resuming"} => Awaited' = {})
       /\ (conn' = "opening" => mode' = "resuming" /\ Awaited' = {})
  BY <1>1 DEF ResponsesAreAwaited
<1> QED
  BY <1>1, <1>9, <1>10 DEF ResponsesAreAwaited

\* A snapshot is taken when no response is on its way.
LEMMA SnapshotKeepsResponses ==
  ASSUME TypeOK, ResponsesAreAwaited, ReadSession \/ ResumeSession,
         mode' \in {"resyncing", "resuming"}, Awaited = {}
  PROVE  ResponsesAreAwaited'
<1>1. outbox' = outbox /\ conn' \in {"attaching", "attached"}
  BY DEF ReadSession, ResumeSession
<1>2. \A i \in DOMAIN outbox : outbox[i].kind = "event"
  <2>1. outbox \in Seq(Events \cup States)
    BY DEF TypeOK, Shape
  <2>2. Messages(outbox) \subseteq Events \cup States
    BY <2>1, QueueHolds
  <2>3. \A x \in Messages(outbox) : x.kind # "state"
    BY TransitParts DEF Awaited
  <2>4. \A x \in Events \cup States : x.kind \in {"event", "state"}
    BY DEF Events, States
  <2>5. \A i \in DOMAIN outbox : outbox[i] \in Messages(outbox)
    BY DEF Messages
  <2> QED
    BY <2>2, <2>3, <2>4, <2>5
<1>3. OneInTheQueue'
  BY <1>1, <1>2 DEF OneInTheQueue
<1> QED
  BY <1>1, <1>3 DEF ResponsesAreAwaited

\* The client takes an event or the response.
LEMMA TakingKeepsResponses ==
  ASSUME TypeOK, ResponsesAreAwaited, Awaited' = {},
         ApplyEvent \/ (ReceiveState /\ Awaited # {})
  PROVE  ResponsesAreAwaited'
<1>1. UNCHANGED <<conn, answer>> /\ Shape
  BY DEF ApplyEvent, ReceiveState, serverVars, TypeOK
<1>2. outbox' = outbox \/ (outbox # <<>> /\ outbox' = Tail(outbox))
  BY DEF ApplyEvent, ReceiveState
<1>3. conn # "opening"
  BY DEF ApplyEvent, Pumps, ResponsesAreAwaited
<1> QED
  BY <1>1, <1>2, <1>3, ResponsesStayAwaited DEF Outgoing

-----------------------------------------------------------------------------
(* The inductive invariant.                                                *)

\* Nothing is in transit at first.
LEMMA InitIsInductive ==
  Init => IInv
<1> SUFFICES ASSUME Init PROVE IInv
  OBVIOUS
<1> USE DEF Init
<1>1. /\ \A S : <<>> \in Seq(S)
      /\ Len(<<>>) = 0 /\ Messages(<<>>) = {} /\ DOMAIN <<>> = {}
      /\ Outbox \in Nat /\ Inbox \in Nat /\ MaxAttaches \in Nat
  BY ShortQueues, EmptySeq, StreamAssumption
<1>2. [e \in Entries |-> Absent] \in [Entries -> Revisions]
  BY DEF Revisions, Absent, Completed
<1>3. Shape
  <2>1. /\ toSend \in [Writers -> Seq(Updates)] /\ blocked \in [Writers -> Seq(Events)]
        /\ \A w \in Writers : Len(toSend[w]) <= 1 /\ Len(blocked[w]) <= 1
    BY <1>1
  <2>2. lastId \in 0..watermark /\ attaches \in 0..MaxAttaches /\ watermark \in Nat
    BY <1>1
  <2> QED
    BY <1>1, <1>2, <2>1, <2>2 DEF Shape
<1>4. InTransit = {}
  BY <1>1 DEF InTransit
<1>5. Flying = {} /\ Awaited = {}
  BY <1>4 DEF Flying, Awaited
<1>6. ResponsesAreAwaited
  BY <1>1, <1>5 DEF ResponsesAreAwaited, OneInTheQueue
<1>7. EventsAreNumbered
  BY <1>5 DEF EventsAreNumbered
<1>8. UpdatesAreRecent
  <2>1. \A w \in Writers : DOMAIN toSend[w] = {}
    BY <1>1
  <2>2. Turn \in Writers
    BY DEF Writers
  <2> QED
    BY <2>1, <2>2 DEF UpdatesAreRecent
<1>9. \A e \in Entries : view[e] = history[e] /\ history[e] = 0
  BY DEF Absent
<1>12. Turn \in Writers
  BY DEF Writers
<1>13. PutsAreSingle /\ LostAreGone
  BY <1>1, <1>5 DEF PutsAreSingle, LostAreGone
<1>10. ViewIsBehind
  BY <1>5, <1>9 DEF ViewIsBehind, IsBehind
<1>11. ViewIsCaughtUp
  <2>1. (lastId + 1)..watermark = {}
    BY SMT
  <2>2. Messages(blocked[Turn]) = {}
    BY <1>1, <1>12
  <2> QED
    BY <1>5, <1>9, <2>1, <2>2 DEF ViewIsCaughtUp, IsCaughtUp, Absent
<1> QED
  BY <1>3, <1>4, <1>6, <1>7, <1>8, <1>10, <1>11, <1>13 DEF IInv, TypeOK

\* Projecting and notifying keep the invariant.
LEMMA WritingIsInductive ==
  ASSUME IInv, NEW w \in Writers, NEW us,
         Projects(w, us) \/ (NotifyNext(w) /\ us = toSend[w])
  PROVE  IInv' /\ UNCHANGED view
<1>1. /\ TypeOK /\ ResponsesAreAwaited /\ EventsAreNumbered /\ UpdatesAreRecent
      /\ PutsAreSingle /\ LostAreGone /\ ViewIsBehind /\ ViewIsCaughtUp
  BY DEF IInv
<1>2. TypeOK' /\ Publication(us) /\ Outgoing /\ UNCHANGED answer /\ Puts(w)
  BY <1>1, WritingIsTyped
<1>3. ResponsesAreAwaited'
  BY <1>1, <1>2, WritingKeepsResponses
<1>4. EventsAreNumbered'
  BY <1>1, <1>2, PublicationNumbers
<1>5. UpdatesAreRecent'
  BY <1>1, ProjectingKeepsRecent, NotifyingKeepsRecent DEF TypeOK
<1>6. ViewIsBehind' /\ ViewIsCaughtUp'
  BY <1>1, <1>2, PublicationKeepsViews
<1>7. PutsAreSingle' /\ LostAreGone'
  BY <1>1, <1>2, WritingKeepsSingle
<1> QED
  BY <1>2, <1>3, <1>4, <1>5, <1>6, <1>7 DEF IInv, Publication

\* The steps that move or lose messages.
Carries ==
  \/ \E w \in Writers : PutBlocked(w)
  \/ PutAnswer \/ Flush \/ FinishAttachment \/ ReceiveEvent
  \/ SkipEvent \/ RejectEvent \/ Resync
  \/ ConnectionFails \/ CloseConnection \/ EndOfStream \/ ConnectionClosed \/ Resume

\* They keep the invariant.
LEMMA CarryingIsInductive ==
  ASSUME IInv, Carries
  PROVE  IInv' /\ UNCHANGED view
<1>1. /\ TypeOK /\ ResponsesAreAwaited /\ EventsAreNumbered /\ UpdatesAreRecent
      /\ PutsAreSingle /\ LostAreGone /\ ViewIsBehind /\ ViewIsCaughtUp
  BY DEF IInv
<1>2. Shape' /\ Loses
  BY <1>1, PutBlockedMoves, PutAnswerMoves, FlushMoves, FinishAttachmentMoves,
     ReceiveEventMoves, PumpLoses, DetachLoses, ClosingLoses DEF Carries
<1>3. TypeOK'
  BY <1>1, <1>2, LosingIsTyped
<1>4. ResponsesAreAwaited'
  BY <1>1, <1>2, LosingKeepsResponses, MovingKeepsResponses, PuttingKeepsResponses DEF Carries
<1>5. /\ EventsAreNumbered' /\ UpdatesAreRecent' /\ PutsAreSingle' /\ LostAreGone'
      /\ ViewIsBehind' /\ ViewIsCaughtUp'
  BY <1>1, <1>2, LosingKeepsViews
<1> QED
  BY <1>2, <1>3, <1>4, <1>5 DEF IInv, Loses

\* So does what a client takes, which takes its view on.
LEMMA TakingIsInductive ==
  ASSUME IInv, ApplyEvent \/ ReceiveState
  PROVE  IInv' /\ \A e \in Entries : view'[e] >= view[e]
<1>1. /\ TypeOK /\ ResponsesAreAwaited /\ EventsAreNumbered /\ UpdatesAreRecent
      /\ PutsAreSingle /\ LostAreGone /\ ViewIsBehind /\ ViewIsCaughtUp
  BY DEF IInv
<1>2. /\ TypeOK' /\ EventsAreNumbered' /\ UpdatesAreRecent'
      /\ PutsAreSingle' /\ LostAreGone' /\ ViewIsBehind' /\ ViewIsCaughtUp'
      /\ Awaited' = {}
      /\ \A e \in Entries : view'[e] >= view[e]
      /\ ApplyEvent \/ (ReceiveState /\ Awaited # {})
  BY <1>1, ApplyingKeepsViews, ReceivingKeepsViews
<1>3. ResponsesAreAwaited'
  BY <1>1, <1>2, TakingKeepsResponses
<1> QED
  BY <1>2, <1>3 DEF IInv

\* And a snapshot.
LEMMA SnapshotIsInductive ==
  ASSUME IInv, ReadSession \/ ResumeSession
  PROVE  IInv' /\ UNCHANGED view
<1>1. /\ TypeOK /\ ResponsesAreAwaited /\ EventsAreNumbered /\ UpdatesAreRecent
      /\ PutsAreSingle /\ LostAreGone /\ ViewIsBehind /\ ViewIsCaughtUp
  BY DEF IInv
<1>2. /\ TypeOK' /\ EventsAreNumbered' /\ UpdatesAreRecent'
      /\ PutsAreSingle' /\ LostAreGone' /\ ViewIsBehind' /\ ViewIsCaughtUp'
      /\ mode' \in {"resyncing", "resuming"} /\ Awaited = {}
  BY <1>1, SnapshotKeepsViews
<1>3. ResponsesAreAwaited'
  BY <1>1, <1>2, SnapshotKeepsResponses
<1>4. UNCHANGED view
  BY DEF ReadSession, ResumeSession, clientVars
<1> QED
  BY <1>2, <1>3, <1>4 DEF IInv

\* An interrupt takes the event the turn waits to put out of the stream, and its
\* updates behind it.
Cancels(ev) ==
  /\ ev \in Messages(blocked[Turn])
  /\ Flying = Flying' \cup {ev} /\ Awaited' = Awaited
  /\ \A n \in Flying' : n.id # ev.id
  /\ lost' = lost \cup {ev} \cup {Event(ev.id, u) : u \in Messages(toSend[Turn])}
  /\ Messages(blocked[Turn])' = {}
  /\ Pending \subseteq Pending' \cup Messages(toSend[Turn])
  /\ UNCHANGED <<history, watermark, conn, mode, view, lastId>>

LEMMA InterruptCancels ==
  ASSUME TypeOK, PutsAreSingle, Interrupt
  PROVE  /\ TypeOK' /\ PutsAreSingle' /\ Cancels(blocked[Turn][1])
         /\ Outgoing /\ UNCHANGED answer
         /\ \A w \in Writers : toSend'[w] = toSend[w] \/ toSend'[w] = <<>>
<1> DEFINE ev == blocked[Turn][1]
           rest == Messages(toSend[Turn])
<1>0. Turn \in Writers /\ Shape /\ Messages(<<>>) = {} /\ \A S : <<>> \in Seq(S) /\ Len(<<>>) = 0
  BY ShortQueues, EmptySeq DEF Writers, TypeOK
<1>1. /\ blocked[Turn] # <<>> /\ blocked' = [blocked EXCEPT ![Turn] = <<>>]
      /\ toSend' = [toSend EXCEPT ![Turn] = <<>>]
      /\ lost' = lost \cup {ev} \cup {Event(ev.id, toSend[Turn][i]) : i \in DOMAIN toSend[Turn]}
      /\ UNCHANGED <<history, watermark, conn, buffered, answer, outbox, inbox, mode, view,
                     lastId, attaches>>
  BY DEF Interrupt, clientVars
<1>2. lost' = lost \cup {ev} \cup {Event(ev.id, u) : u \in rest}
  BY <1>1 DEF Messages
<1>3. Messages(blocked[Turn]) = {ev} /\ ev \in Events
  <2>1. blocked[Turn] \in Seq(Events) /\ Len(blocked[Turn]) = 1
    BY <1>0, <1>1, OnlyOne DEF Shape
  <2>2. DOMAIN blocked[Turn] = 1..1
    BY <2>1, LenProperties
  <2>3. DOMAIN blocked[Turn] = {1}
    BY <2>2
  <2> QED
    BY <2>1, <2>3, QueueHolds DEF Messages
<1>4. /\ blocked' \in [Writers -> Seq(Events)]
      /\ \A v \in Writers : Len(blocked'[v]) <= 1
      /\ Suspended = Suspended' \cup {ev}
  BY <1>0, <1>1, <1>3, WriterResumes
<1>5. /\ blocked'[Turn] = <<>> /\ \A v \in Writers \ {Turn} : blocked'[v] = blocked[v]
      /\ toSend'[Turn] = <<>> /\ \A v \in Writers \ {Turn} : toSend'[v] = toSend[v]
  BY <1>0, <1>1 DEF Shape
<1>6. InTransit = InTransit' \cup {ev}
  BY <1>1, <1>4, TransitParts
<1>7. ev.kind = "event" /\ ev.id \in Nat \ {0} /\ ev.id <= watermark
  BY <1>3, <1>6 DEF TypeOK, Events
<1>8. Flying = Flying' \cup {ev} /\ Awaited' = Awaited
  BY <1>6, <1>7 DEF Flying, Awaited
<1>9. \A n \in Flying' : n.id # ev.id
  <2>1. \A n \in Messages(answer) : n.kind # "event"
    <3>1. Messages(answer) \subseteq States
      BY <1>0, QueueHolds DEF Shape
    <3> QED
      BY <3>1 DEF States
  <2>2. Suspended' = UNION {Messages(blocked[v]) : v \in Writers \ {Turn}}
    BY <1>0, <1>5 DEF Suspended
  <2>3. \A n \in Flying' : n \in Elsewhere(Turn) /\ n.kind = "event"
    BY <1>1, <2>1, <2>2, TransitParts DEF Flying, Elsewhere, Queued
  <2> QED
    BY <1>0, <1>3, <2>3 DEF PutsAreSingle
<1>10. Messages(blocked[Turn])' = {}
  BY <1>0, <1>5
<1>11. Pending \subseteq Pending' \cup rest
  BY <1>5 DEF Pending
<1>12. Cancels(ev)
  BY <1>1, <1>2, <1>3, <1>8, <1>9, <1>10, <1>11 DEF Cancels
<1>13. PutsAreSingle'
  <2>1. ASSUME NEW v \in Writers, NEW m \in Messages(blocked[v])'
        PROVE  v # Turn /\ m \in Messages(blocked[v]) /\ Elsewhere(v)' \subseteq Elsewhere(v)
    <3>1. v # Turn /\ blocked'[v] = blocked[v]
      BY <1>5, <1>10, <2>1
    <3>2. \A x \in Writers \ {v} : Messages(blocked[x])' \subseteq Messages(blocked[x])
      BY <1>5, <1>10
    <3>3. Queued' = Queued
      BY <1>1 DEF Queued
    <3> QED
      BY <2>1, <3>1, <3>2, <3>3 DEF Elsewhere
  <2> QED
    BY <2>1 DEF PutsAreSingle
<1>14. Shape'
  <2>1. /\ toSend' \in [Writers -> Seq(Updates)]
        /\ \A v \in Writers : Len(toSend'[v]) <= 1
    BY <1>0, <1>1, <1>5 DEF Shape
  <2>2. \A u \in rest : Event(ev.id, u) \in Events
    <3>1. rest \subseteq Updates
      BY <1>0, QueueHolds DEF Shape
    <3> QED
      BY <1>7, <3>1 DEF Event, Events
  <2>3. lost' \subseteq Events
    BY <1>0, <1>2, <1>3, <2>2 DEF Shape
  <2> QED
    BY <1>0, <1>1, <1>4, <2>1, <2>3 DEF Shape
<1>15. \A m \in InTransit' \cup lost' : m.id <= watermark'
  BY <1>1, <1>2, <1>6, <1>7 DEF TypeOK, Event
<1> QED
  BY <1>1, <1>5, <1>12, <1>13, <1>14, <1>15 DEF TypeOK, Outgoing

\* A view is as good as it was, but for what the interrupt cancelled.
LEMMA CancellingKeepsCaughtUp ==
  ASSUME UpdatesAreRecent, NEW ev, ev.id \in Nat, Cancels(ev),
         NEW v \in [Entries -> Revisions], NEW k \in Nat, history \in [Entries -> Revisions],
         toSend \in [Writers -> Seq(Updates)], IsBehind(v, k), IsCaughtUp(v, k)
  PROVE  IsCaughtUp(v, k)'
<1> DEFINE rest == Messages(toSend[Turn])
<1>0. Turn \in Writers
  BY DEF Writers
<1>1. /\ Sent \subseteq Sent'
      /\ \A u \in rest : Event(ev.id, u) \in Sent'
      /\ Flying' \subseteq Flying
  BY DEF Cancels, Sent
<1>2. \A u : Event(ev.id, u).id = ev.id /\ Event(ev.id, u).update = u
  BY DEF Event
<1>3. \A u \in rest : u.entry \in Entries /\ u.to \in 0..4 /\ u.from \in 0..4 /\ u.from < u.to
  <2>1. rest \subseteq Updates
    BY <1>0, QueueHolds
  <2>2. \A u \in rest : u.from < u.to
    BY <1>0 DEF UpdatesAreRecent, Messages
  <2> QED
    BY <2>1, <2>2 DEF Updates, Revisions, Absent, Completed
<1>4. \A e \in Entries : v[e] \in 0..4 /\ history[e] \in 0..4 /\ v[e] <= history[e]
  BY DEF IsBehind, Revisions, Absent, Completed
<1>5. ev.id <= k => \A u \in rest : u.to <= v[u.entry]
  BY DEF IsCaughtUp, Cancels
<1>6. UNCHANGED <<history, watermark>> /\ Messages(blocked[Turn])' = {}
      /\ Pending \subseteq Pending' \cup rest
  BY DEF Cancels
<1> HIDE DEF rest, Sent, Pending, Flying
<1>7. \A id \in (k + 1)..watermark : \E m \in Sent' : m.id = id
  BY <1>1 DEF IsCaughtUp
<1>8. ASSUME NEW e \in Entries
      PROVE  \/ v[e] = history[e]
             \/ \E m \in Sent' : m.id > k /\ m.update.entry = e /\ m.update.to = history[e]
             \/ \E u \in Pending' : u.entry = e /\ u.to = history[e]
  <2>1. CASE v[e] = history[e] \/ \E m \in Sent : m.id > k /\ m.update.entry = e /\ m.update.to = history[e]
    BY <1>1, <2>1
  <2>2. ASSUME NEW u \in Pending, u.entry = e, u.to = history[e]
        PROVE  \/ v[e] = history[e]
               \/ \E m \in Sent' : m.id > k /\ m.update.entry = e /\ m.update.to = history[e]
               \/ \E x \in Pending' : x.entry = e /\ x.to = history[e]
    <3>1. CASE u \in Pending'
      BY <2>2, <3>1
    <3>2. CASE u \in rest /\ ev.id <= k
      BY <1>4, <1>5, <2>2, <3>2
    <3>3. CASE u \in rest /\ ev.id > k
      BY <1>1, <1>2, <2>2, <3>3
    <3> QED
      BY <1>6, <2>2, <3>1, <3>2, <3>3
  <2> QED
    BY <2>1, <2>2 DEF IsCaughtUp
<1>9. ASSUME NEW e \in Entries, v[e] = Absent
      PROVE  \/ history[e] = Absent
             \/ \E m \in Sent' : m.id > k /\ m.update.entry = e /\ m.update.from = Absent
             \/ \E u \in Pending' : u.entry = e /\ u.from = Absent
  <2>1. CASE history[e] = Absent \/ \E m \in Sent : m.id > k /\ m.update.entry = e /\ m.update.from = Absent
    BY <1>1, <2>1
  <2>2. ASSUME NEW u \in Pending, u.entry = e, u.from = Absent
        PROVE  \/ \E m \in Sent' : m.id > k /\ m.update.entry = e /\ m.update.from = Absent
               \/ \E x \in Pending' : x.entry = e /\ x.from = Absent
    <3>1. CASE u \in Pending'
      BY <2>2, <3>1
    <3>2. CASE u \in rest /\ ev.id <= k
      BY <1>3, <1>5, <1>9, <2>2, <3>2 DEF Absent
    <3>3. CASE u \in rest /\ ev.id > k
      BY <1>1, <1>2, <2>2, <3>3
    <3> QED
      BY <1>6, <2>2, <3>1, <3>2, <3>3
  <2> QED
    BY <1>9, <2>1, <2>2 DEF IsCaughtUp
<1>10. ASSUME NEW m \in Flying', m.id > k, m.update.from # Absent, v[m.update.entry] = Absent
       PROVE  \E n \in Sent' : /\ n.id > k /\ n.id < m.id
                              /\ n.update.entry = m.update.entry
                              /\ n.update.from = Absent
  BY <1>1, <1>10 DEF IsCaughtUp
<1> QED
  BY <1>6, <1>7, <1>8, <1>9, <1>10 DEF IsCaughtUp

\* An interrupt keeps the invariant.
LEMMA InterruptIsInductive ==
  ASSUME IInv, Interrupt
  PROVE  IInv' /\ UNCHANGED view
<1> DEFINE ev == blocked[Turn][1]
<1>1. /\ TypeOK /\ ResponsesAreAwaited /\ EventsAreNumbered /\ UpdatesAreRecent
      /\ PutsAreSingle /\ LostAreGone /\ ViewIsBehind /\ ViewIsCaughtUp
  BY DEF IInv
<1>2. /\ TypeOK' /\ PutsAreSingle' /\ Cancels(ev) /\ Outgoing /\ UNCHANGED answer
      /\ \A w \in Writers : toSend'[w] = toSend[w] \/ toSend'[w] = <<>>
  BY <1>1, InterruptCancels
<1>3. /\ UNCHANGED <<history, watermark, conn, mode, view, lastId>>
      /\ Flying' \subseteq Flying /\ ev \in Flying /\ Awaited' = Awaited
  BY <1>2 DEF Cancels
<1> HIDE DEF ev
<1>4. /\ history \in [Entries -> Revisions] /\ toSend \in [Writers -> Seq(Updates)]
      /\ view \in [Entries -> Revisions] /\ lastId \in Nat /\ watermark \in Nat
      /\ ev.id \in Nat
      /\ \A s \in Awaited : s.id \in Nat /\ s.view \in [Entries -> Revisions]
  BY <1>1, <1>3, TransitIsSorted DEF TypeOK, Shape
<1>5. ResponsesAreAwaited'
  <2>1. conn' = "opening" => mode' = "resuming" /\ conn = "opening"
    BY <1>1, <1>3 DEF ResponsesAreAwaited
  <2> QED
    BY <1>1, <1>2, <1>3, <2>1, ResponsesStayAwaited DEF TypeOK
<1>6. EventsAreNumbered'
  BY <1>1, <1>3 DEF EventsAreNumbered
<1>7. UpdatesAreRecent'
  BY <1>1, <1>2, <1>3, DroppingKeepsRecent
<1>8. LostAreGone'
  <2>1. ASSUME NEW m \in lost', NEW n \in Flying' PROVE n.id # m.id
    <3>1. m \in lost \/ m.id = ev.id
      BY <1>2, <2>1 DEF Cancels, Event
    <3> QED
      BY <1>1, <1>2, <1>3, <2>1, <3>1 DEF Cancels, LostAreGone
  <2> QED
    BY <2>1 DEF LostAreGone
<1>9. ASSUME NEW v, NEW k, IsBehind(v, k) PROVE IsBehind(v, k)'
  BY <1>3, <1>9 DEF IsBehind
<1>10. ViewIsBehind'
  BY <1>1, <1>3, <1>9 DEF ViewIsBehind, IsBehind
<1>11. ASSUME NEW v \in [Entries -> Revisions], NEW k \in Nat, IsBehind(v, k), IsCaughtUp(v, k)
       PROVE  IsCaughtUp(v, k)'
  BY <1>1, <1>2, <1>4, <1>11, CancellingKeepsCaughtUp
<1>12. conn' # "none" /\ mode' = "up" => IsCaughtUp(view, lastId)'
  <2>1. ASSUME conn' # "none", mode' = "up" PROVE IsCaughtUp(view, lastId)'
    <3>1. IsBehind(view, lastId) /\ IsCaughtUp(view, lastId)
      BY <1>1, <1>3, <2>1 DEF ViewIsBehind, ViewIsCaughtUp
    <3>2. \A v \in [Entries -> Revisions] : \A k \in Nat :
            v = view /\ k = lastId => IsCaughtUp(v, k)'
      BY <1>11, <3>1
    <3>3. view \in [Entries -> Revisions] /\ lastId \in Nat /\ view' = view /\ lastId' = lastId
      BY <1>3, <1>4
    <3> QED
      BY <3>2, <3>3 DEF IsCaughtUp
  <2> QED
    BY <2>1
<1>13. ASSUME NEW s \in Awaited', conn' # "none" PROVE IsCaughtUp(s.view, s.id)'
  BY <1>1, <1>3, <1>4, <1>11, <1>13 DEF ViewIsBehind, ViewIsCaughtUp
<1>14. ViewIsCaughtUp'
  BY <1>12, <1>13 DEF ViewIsCaughtUp
<1> QED
  BY <1>2, <1>3, <1>5, <1>6, <1>7, <1>8, <1>10, <1>14 DEF IInv

\* The steps of Next, by what they do to the stream.
LEMMA StepsOfTheStream ==
  ASSUME Next, Shape
  PROVE  \/ \E w \in Writers : \E us : Projects(w, us)
         \/ \E w \in Writers : NotifyNext(w)
         \/ Carries
         \/ ApplyEvent \/ ReceiveState
         \/ ReadSession \/ ResumeSession \/ Interrupt
<1>1. Turn \in Writers /\ Requests \subseteq Writers
  BY DEF Writers
<1>2. CASE ProjectTurn
  BY <1>1, <1>2, TurnProjects
<1>3. CASE \E w \in Requests, e \in Entries : AddNote(w, e)
  BY <1>1, <1>3, NoteProjects
<1>4. CASE \E w \in Requests, c, e \in Entries : Answer(w, c, e)
  BY <1>1, <1>4, AnswerProjects
<1>5. CASE ServerStep
  BY <1>5 DEF ServerStep, Carries
<1>6. CASE ClientStep
  BY <1>6 DEF ClientStep, Carries
<1>7. CASE ReadStep
  BY <1>7 DEF ReadStep, Carries
<1>8. CASE ConnectionFails
  BY <1>8 DEF Carries
<1> QED
  BY <1>2, <1>3, <1>4, <1>5, <1>6, <1>7, <1>8 DEF Next

\* Every step keeps the invariant, and takes no view back.
THEOREM NextIsInductive ==
  IInv /\ [Next]_vars => IInv' /\ \A e \in Entries : view'[e] >= view[e]
<1> SUFFICES ASSUME IInv, [Next]_vars
             PROVE  IInv' /\ \A e \in Entries : view'[e] >= view[e]
  OBVIOUS
<1>0. Shape
  BY DEF IInv, TypeOK
<1>1. ASSUME UNCHANGED view PROVE \A e \in Entries : view'[e] >= view[e]
  <2>0. view \in [Entries -> Revisions]
    BY <1>0 DEF Shape
  <2>1. \A e \in Entries : view[e] \in Nat
    BY <2>0 DEF Revisions, Absent, Completed
  <2>2. ASSUME NEW e \in Entries PROVE view'[e] >= view[e]
    <3>1. view[e] \in Nat /\ view'[e] = view[e]
      BY <1>1, <2>1
    <3> QED
      BY <3>1
  <2> QED
    BY <2>2
<1>2. CASE UNCHANGED vars
  <2>1. UNCHANGED <<history, watermark, toSend, blocked, conn, buffered, answer, outbox,
                    inbox, mode, view, lastId, attaches, lost>>
    BY <1>2 DEF vars, serverVars, clientVars
  <2>2. InTransit' = InTransit /\ Pending' = Pending
    BY <2>1 DEF InTransit, Pending
  <2>3. Flying' = Flying /\ Awaited' = Awaited /\ Sent' = Sent
    BY <2>1, <2>2 DEF Flying, Awaited, Sent
  <2>6. PutsAreSingle' /\ LostAreGone'
    BY <2>1, <2>3 DEF IInv, PutsAreSingle, LostAreGone, Elsewhere, Queued
  <2>4. TypeOK' /\ ResponsesAreAwaited' /\ EventsAreNumbered' /\ UpdatesAreRecent'
    BY <2>1, <2>2, <2>3
    DEF IInv, TypeOK, Shape, ResponsesAreAwaited, OneInTheQueue, EventsAreNumbered,
        UpdatesAreRecent, IsRecent
  <2>5. ViewIsBehind' /\ ViewIsCaughtUp'
    BY <2>1, <2>2, <2>3 DEF IInv, ViewIsBehind, ViewIsCaughtUp, IsBehind, IsCaughtUp
  <2> QED
    BY <1>1, <2>1, <2>4, <2>5, <2>6 DEF IInv
<1>3. CASE Next
  <2>1. CASE \E w \in Writers : \E us : Projects(w, us)
    BY <1>1, <2>1, WritingIsInductive
  <2>2. CASE \E w \in Writers : NotifyNext(w)
    BY <1>1, <2>2, WritingIsInductive
  <2>3. CASE Carries
    BY <1>1, <2>3, CarryingIsInductive
  <2>4. CASE ApplyEvent \/ ReceiveState
    BY <2>4, TakingIsInductive
  <2>5. CASE ReadSession \/ ResumeSession
    BY <1>1, <2>5, SnapshotIsInductive
  <2>6. CASE Interrupt
    BY <1>1, <2>6, InterruptIsInductive
  <2> QED
    BY <1>0, <1>3, <2>1, <2>2, <2>3, <2>4, <2>5, <2>6, StepsOfTheStream
<1> QED
  BY <1>2, <1>3

\* The invariant holds in every behaviour.
THEOREM Invariance == Spec => []IInv
<1>1. Init => IInv
  BY InitIsInductive
<1>2. IInv /\ [Next]_vars => IInv'
  BY NextIsInductive
<1> QED
  BY <1>1, <1>2, PTL DEF Spec

-----------------------------------------------------------------------------
(* What it says.                                                           *)

\* Queues stay within their sizes, and no message is numbered past the
\* watermark.
THEOREM TypeCorrect == Spec => []TypeOK
<1>1. IInv => TypeOK
  BY DEF IInv
<1> QED
  BY <1>1, Invariance, PTL

\* The number of an event on its way is in flight.
LEMMA FlyingIsInFlight ==
  ASSUME Shape, NEW m \in Flying
  PROVE  m.id \in InFlight
<1>1. m.kind = "event" /\ m \in InTransit
  BY DEF Flying
<1>2. ASSUME NEW s, m \in Messages(s) PROVE m.id \in IdsIn(s)
  <2>1. PICK i \in DOMAIN s : m = s[i]
    BY <1>2 DEF Messages
  <2> QED
    BY <1>1, <2>1 DEF IdsIn
<1>3. m \notin Messages(answer)
  <2>1. Messages(answer) \subseteq States
    BY QueueHolds DEF Shape
  <2> QED
    BY <1>1, <2>1 DEF States
<1> QED
  BY <1>1, <1>2, <1>3 DEF InTransit, InFlight

\* Every event past what a following client had is on its way to it, whatever the
\* queues hold back and whichever connection it is on, or had its send cancelled
\* by an interrupt.
THEOREM EventsAreKept == Spec => []OnlyCancelledSendsAreLost
<1>1. IInv => OnlyCancelledSendsAreLost
  <2> SUFFICES ASSUME IInv, mode = "up", conn # "none", NEW id \in (lastId + 1)..watermark
               PROVE  id \in InFlight \/ \E m \in lost : m.id = id
    BY DEF OnlyCancelledSendsAreLost
  <2>1. IsCaughtUp(view, lastId) /\ Shape
    BY DEF IInv, ViewIsCaughtUp, TypeOK
  <2>2. PICK m \in Sent : m.id = id
    BY <2>1 DEF IsCaughtUp
  <2> QED
    BY <2>1, <2>2, FlyingIsInFlight DEF Sent
<1> QED
  BY <1>1, Invariance, PTL

\* A client that was sent everything shows the server's history, but for the
\* entries that a send held which an interrupt cancelled and no later event or
\* snapshot has told the client of.
THEOREM ClientIsCurrent == Spec => []QuiescentClientIsCurrent
<1>1. IInv => QuiescentClientIsCurrent
  <2> SUFFICES ASSUME IInv, mode = "up", conn # "none", InFlight = {},
                      \A w \in Writers : toSend[w] = <<>>, NEW e \in Entries
               PROVE  \/ view[e] = history[e]
                      \/ \E m \in lost : m.id > lastId /\ m.update.entry = e
    BY DEF QuiescentClientIsCurrent
  <2>1. IsCaughtUp(view, lastId) /\ Shape
    BY DEF IInv, ViewIsCaughtUp, TypeOK
  <2>2. Sent = lost
    BY <2>1, FlyingIsInFlight DEF Sent
  <2>3. Pending = {}
    BY ShortQueues DEF Pending
  <2> QED
    BY <2>1, <2>2, <2>3 DEF IsCaughtUp
<1> QED
  BY <1>1, Invariance, PTL

\* What a client shows of an entry never goes back, on any connection.
THEOREM ViewAdvances == Spec => ViewNeverGoesBack
<1>1. IInv /\ [Next]_vars => [\A e \in Entries : view'[e] >= view[e]]_vars
  BY NextIsInductive
<1> QED
  BY <1>1, Invariance, PTL DEF Spec, ViewNeverGoesBack

-----------------------------------------------------------------------------
(* What it promises: HistoryMirror.                                        *)

\* A projection takes entries on.
LEMMA ProjectingMovesOn ==
  ASSUME Shape, NEW w \in Writers, NEW us, Projects(w, us)
  PROVE  /\ UNCHANGED view
         /\ \A e \in Entries : history[e] <= history'[e]
<1> USE DEF Absent, InProgress, Blocked, Resumed, Completed, Revisions
<1>1. UNCHANGED view
  BY DEF Projects, Project, clientVars
<1>2. /\ \A i \in DOMAIN us : history'[us[i].entry] = us[i].to
      /\ \A e \in Entries : history'[e] = history[e] \/ \E i \in DOMAIN us : us[i].entry = e
  BY HistoryTakesThem
<1>3. ASSUME NEW e \in Entries
      PROVE  history[e] <= history'[e]
  <2>1. history[e] \in 0..4
    BY DEF Shape
  <2>2. CASE history'[e] = history[e]
    BY <2>1, <2>2
  <2>3. ASSUME NEW i \in DOMAIN us, us[i].entry = e
        PROVE  history[e] <= history'[e]
    <3>1. us[i] \in Updates
      BY ElementOfSeq, LenProperties DEF Projects
    <3>2. us[i].from = history[e] /\ us[i].from < us[i].to /\ history'[e] = us[i].to
      BY <1>2, <2>3 DEF Projects
    <3>3. us[i].to \in 0..4
      BY <3>1 DEF Updates
    <3> QED
      BY <2>1, <3>2, <3>3
  <2> QED
    BY <1>2, <2>2, <2>3
<1> QED
  BY <1>1, <1>3

\* The other steps leave the history alone.
LEMMA OtherStepsKeepHistory ==
  ASSUME Next, Shape, ~\E w \in Writers : \E us : Projects(w, us)
  PROVE  UNCHANGED history
<1>1. CASE \E w \in Writers : NotifyNext(w)
  BY <1>1 DEF NotifyNext
<1>2. CASE Carries
  BY <1>2 DEF Carries, PutBlocked, PutAnswer, Flush, FinishAttachment, SkipEvent,
     RejectEvent, Resync, EndOfStream, CloseConnection, ConnectionClosed, Resume,
     ReceiveEvent, ConnectionFails, Detach, serverVars
<1>3. CASE ApplyEvent \/ ReceiveState
  BY <1>3 DEF ApplyEvent, ReceiveState, serverVars
<1>4. CASE ReadSession \/ ResumeSession
  BY <1>4 DEF ReadSession, ResumeSession
<1>5. CASE Interrupt
  BY <1>5 DEF Interrupt
<1> QED
  BY <1>1, <1>2, <1>3, <1>4, <1>5, StepsOfTheStream

\* A step of the stream publishes, shows, or is not seen.
LEMMA StepImplementsMirror ==
  ASSUME IInv, [Next]_vars
  PROVE  [Mirror!Next]_<<history, view>>
<1>1. IInv' /\ \A e \in Entries : view[e] <= view'[e]
  <2>1. IInv' /\ \A e \in Entries : view'[e] >= view[e]
    BY NextIsInductive
  <2> QED
    BY <2>1
<1>2. Shape /\ Shape'
  BY <1>1 DEF IInv, TypeOK
<1>3. Mirror!Revisions = Revisions
  BY DEF Mirror!Revisions, Revisions, Absent
<1>4. CASE \E w \in Writers : \E us : Projects(w, us)
  <2>1. UNCHANGED view /\ \A e \in Entries : history[e] <= history'[e]
    BY <1>2, <1>4, ProjectingMovesOn
  <2>2. history' \in [Entries -> Mirror!Revisions]
    BY <1>2, <1>3 DEF Shape
  <2>3. Mirror!Publish
    BY <2>1, <2>2 DEF Mirror!Publish
  <2> QED
    BY <2>3 DEF Mirror!Next
<1>5. CASE Next /\ ~\E w \in Writers : \E us : Projects(w, us)
  <2>1. UNCHANGED history
    BY <1>2, <1>5, OtherStepsKeepHistory
  <2>2. \A e \in Entries : view'[e] <= history[e]
    <3>1. \A e \in Entries : view'[e] <= history'[e]
      BY <1>1 DEF IInv, ViewIsBehind
    <3> QED
      BY <2>1, <3>1
  <2>3. view' \in [Entries -> Mirror!Revisions]
    BY <1>2, <1>3 DEF Shape
  <2>4. Mirror!Show
    BY <1>1, <2>1, <2>2, <2>3 DEF Mirror!Show
  <2> QED
    BY <2>4 DEF Mirror!Next
<1>6. CASE UNCHANGED vars
  BY <1>6 DEF vars, serverVars, clientVars
<1> QED
  BY <1>4, <1>5, <1>6

\* The detailed stream implements the abstract copy of the history: whatever
\* overtakes what, is dropped, asked for again or comes over a new connection,
\* ClientProjection shows nothing EventProjector has not reached, and nothing
\* older than it showed.
THEOREM StreamImplementsMirror == Spec => ImplementsMirror
<1>1. Init => Mirror!Init
  BY DEF Init, Mirror!Init, Absent
<1>2. IInv /\ [Next]_vars => [Mirror!Next]_<<history, view>>
  BY StepImplementsMirror
<1>3. Mirror!mirrorVars = <<history, view>>
  BY DEF Mirror!mirrorVars
<1> QED
  BY <1>1, <1>2, <1>3, Invariance, PTL DEF Spec, ImplementsMirror, Mirror!Spec, Mirror!mirrorVars

=============================================================================
