------------------------- MODULE RootLifecycleProofs -------------------------
(* Machine-checked proofs about RootLifecycle, for any number of agent loops. *)
(*                                                                            *)
(* Whether a runtime can be dropped, closed twice or used after its close is  *)
(* a matter of who holds it. The inductive invariant says of every state of   *)
(* the lock, the request, the close under way and the turn which of them      *)
(* holds which root, and which subagents are where.                           *)
EXTENDS RootLifecycle, TLAPS

(* The lock belongs to the task whose state says so, and a runtime is being   *)
(* closed exactly while its holder closes one.                                *)
LockHasItsHolder ==
    /\ server.lock = "bye" <=> bye.at = "closing"
    /\ server.lock = "stop" <=> stop = "closing"
    /\ server.lock = "request" <=>
           \/ req.at \in {"replacing", "restoring", "undoing"}
           \/ (req.at = "building" /\ req.kind \in {"open", "replace"})
    /\ closing.at # "none" <=>
           server.lock \in {"bye", "stop"} \/ req.at \in {"replacing", "undoing"}
    /\ closing.at = "none" => closing = NoClosing

(* What each kind of request holds on its way.                                *)
RequestHoldsItsRoots ==
    /\ req.at = "none" <=> req.kind = "none"
    /\ req.kind = "none" => req = NoReq
    /\ req.kind \in {"none", "open"} <=> req.prev = NoOne
    /\ req.new = NoOne <=> req.at \in {"none", "waiting"}
    /\ req.at = "waiting" => req.kind \in {"open", "replace"}
    /\ req.at = "adopting" => req.kind = "adopt"
    /\ req.kind = "fork" => req.at = "building"
    /\ req.at = "replacing" => req.kind \in {"replace", "adopt"} /\ closing.of = req.prev
    /\ req.at \in {"building", "adopting", "replacing"} =>
           Open(req.new) /\ req.new \notin {server.root, closing.of}
    /\ req.at = "restoring" => req.new = server.root
    /\ req.at = "undoing" => req.new = closing.of

(* The root in use is open and the registry's; none while one is closed. Only *)
(* a server that closes loses it under a request that is to replace it.       *)
ServerHoldsItsRoot ==
    /\ registry.root = server.root
    /\ server.attached => server.root # NoOne /\ req.at # "restoring"
    /\ server.root # NoOne => Open(server.root) /\ closing.at = "none"
    /\ req.prev # NoOne /\ req.at \in {"waiting", "building", "adopting"} =>
           \/ server.root = req.prev
           \/ /\ server.closed /\ server.root = NoOne
              /\ req.prev = closing.of \/ life[req.prev] = "closed"
    /\ req.at = "adopting" => server.closed

(* A staged fork is open and nobody else's.                                   *)
StagedIsSpare ==
    \A r \in staged : Open(r) /\ r \notin {server.root, req.new, closing.of}

ClosingIsOfAnOpenRoot ==
    /\ closing.of # NoOne =>
           IF closing.at = "closed" THEN life[closing.of] = "closed" ELSE Open(closing.of)
    /\ closing.at # "children" => closing.left = {}
    /\ closing.at = "turn" => closing.of # NoOne

(* No open root is forgotten, but by a server that closes.                    *)
OpenRootIsHeld == \A r \in Roots : Open(r) => Owned(r) \/ server.closed

(* Subagents: those registered are open, those being closed no longer         *)
(* registered, and no other is open.                                          *)
ChildrenAreHeld ==
    /\ \A s \in registry.kids : Open(s) /\ s \notin closing.left
    /\ \A s \in closing.left : life[s] # "unborn"
    /\ \A s \in Subs : Open(s) => s \in registry.kids \cup closing.left
    /\ server.root # NoOne => \A s \in registry.kids : registry.parent[s] = server.root

(* A session is reserved for the one request or the one turn.                 *)
ReservedForOne ==
    /\ \A r \in Roots : reserved[r] = "lifecycle" <=> req.prev = r
    /\ run.at = "none" <=> run.of = NoOne
    /\ run.at = "none" => run = NoRun
    /\ run.at \in {"linking", "child"} <=> run.sub # NoOne
    /\ run.sub # NoOne => life[run.sub] # "unborn"
    /\ run.of # NoOne =>
           reserved[run.of] = "turn" \/ (life[run.of] = "closed" /\ reserved[run.of] = "free")

(* A turn goes on until the close of its root reaches it.                     *)
TurnIsOfALiveRoot ==
    run.of # NoOne /\ ~run.cancelled =>
        \/ run.of = server.root
        \/ run.of = closing.of /\ closing.at \in {"handler", "children"}

(* session/close: its root stays until it is closed, by it or before it.      *)
CloseFollowsItsRoot ==
    /\ bye.at \in {"stopping", "closing", "replying", "done"} \/ stop # "none" => server.closed
    /\ stop # "none" => bye.at \notin {"handler", "stopping"}
    /\ stop \in {"closing", "done"} => bye.at # "closing"
    /\ bye.ok => bye.at \in {"replying", "done"}
    /\ bye.at \in {"handler", "stopping"} =>
           bye.of \in Roots /\ (bye.of \in {server.root, closing.of} \/ life[bye.of] = "closed")
    /\ bye.at = "closing" => bye.of = closing.of \/ life[bye.of] = "closed"
    /\ bye.at # "none" => bye.of # NoOne \/ bye.at = "done"
    /\ bye.ok => bye.of # NoOne /\ life[bye.of] = "closed"

(* Once AppServer.close has the lock nobody brings a root back, and of the    *)
(* session that was closed before it no subagent is registered any more.      *)
StoppedStays ==
    /\ stop # "none" /\ req.at # "none" /\ ~req.cancelled =>
           req.at \in {"replacing", "restoring", "undoing"}
    /\ stop \in {"closing", "done"} => server.root = NoOne
    /\ stop \in {"closing", "done"} => req.at \notin {"replacing", "restoring", "undoing"}
    /\ bye.ok /\ (stop = "done" \/ (stop = "closing" /\ closing.at # "handler")) =>
           \A s \in registry.kids : registry.parent[s] # bye.of

Held ==
    /\ LockHasItsHolder /\ RequestHoldsItsRoots /\ ServerHoldsItsRoot
    /\ StagedIsSpare /\ ClosingIsOfAnOpenRoot /\ OpenRootIsHeld
    /\ ChildrenAreHeld /\ ReservedForOne /\ TurnIsOfALiveRoot
    /\ CloseFollowsItsRoot /\ StoppedStays

IInv == Shape /\ Held

(* --------------------------- types are kept ------------------------------- *)

(* The loop to be built next is one that was not built before.                *)
LEMMA FreshIsUnborn ==
  ASSUME NEW S, Unborn(S) # {}
  PROVE  Fresh(S) \in S /\ life[Fresh(S)] = "unborn"
BY DEF Fresh, Unborn

(* What the actions assign to life is of its type.                            *)
LEMMA LifeUpdates ==
  ASSUME Shape
  PROVE  /\ \A loops : Shut(loops) \in LifeStates
         /\ \A l \in Loops : [life EXCEPT ![l] = "open"] \in LifeStates
BY DEF Shape, LifeStates, Shut, Loops

(* What the actions assign to reserved is of its type.                        *)
LEMMA ReservedUpdates ==
  ASSUME Shape
  PROVE  /\ \A r, kind : Freed(r, kind) \in Reservations
         /\ \A r : [reserved EXCEPT ![r] = "lifecycle"] \in Reservations
         /\ \A r : [reserved EXCEPT ![r] = "turn"] \in Reservations
<1>1. ASSUME NEW r, NEW kind \in {"lifecycle", "turn"}
      PROVE  [reserved EXCEPT ![r] = kind] \in Reservations
  BY DEF Shape, Reservations
<1>2. ASSUME NEW r, NEW kind PROVE Freed(r, kind) \in Reservations
  BY DEF Shape, Reservations, Freed
<1> QED
  BY <1>1, <1>2

(* What the actions assign to server is of its type.                          *)
LEMMA ServerUpdates ==
  ASSUME Shape
  PROVE  /\ Unlocked \in ServerStates
         /\ [server EXCEPT !.lock = "request"] \in ServerStates
         /\ [server EXCEPT !.lock = "free"] \in ServerStates
         /\ [server EXCEPT !.root = NoOne] \in ServerStates
         /\ [server EXCEPT !.closed = TRUE] \in ServerStates
         /\ [Unlocked EXCEPT !.attached = TRUE] \in ServerStates
         /\ \A r \in Roots \cup {NoOne}, l \in {"request", "bye", "stop"} :
               [server EXCEPT !.root = r, !.attached = FALSE, !.lock = l] \in ServerStates
<1> USE DEF Shape, ServerStates
<1>1. Unlocked \in ServerStates
  BY DEF Unlocked
<1>2. [server EXCEPT !.lock = "request"] \in ServerStates
  OBVIOUS
<1>3. [server EXCEPT !.lock = "free"] \in ServerStates
  OBVIOUS
<1>4. [server EXCEPT !.root = NoOne] \in ServerStates
  OBVIOUS
<1>5. [server EXCEPT !.closed = TRUE] \in ServerStates
  BY Zenon
<1>6. [Unlocked EXCEPT !.attached = TRUE] \in ServerStates
  BY <1>1, Zenon
<1>7. ASSUME NEW r \in Roots \cup {NoOne}, NEW l \in {"request", "bye", "stop"}
      PROVE  [server EXCEPT !.root = r, !.attached = FALSE, !.lock = l] \in ServerStates
  BY Zenon
<1> QED
  BY <1>1, <1>2, <1>3, <1>4, <1>5, <1>6, <1>7, Zenon

(* What the actions assign to registry is of its type.                        *)
LEMMA RegistryUpdates ==
  ASSUME Shape
  PROVE  /\ \A kids \in SUBSET Subs : [registry EXCEPT !.kids = kids] \in RegistryStates
         /\ \A r \in Roots \cup {NoOne} :
              /\ [registry EXCEPT !.root = r] \in RegistryStates
              /\ [registry EXCEPT !.root = r, !.kids = {}] \in RegistryStates
         /\ \A s \in Subs, r \in Roots \cup {NoOne} :
              [registry EXCEPT !.kids = @ \cup {s}, !.parent[s] = r] \in RegistryStates
<1> USE DEF Shape, RegistryStates
<1>1. ASSUME NEW kids \in SUBSET Subs
      PROVE  [registry EXCEPT !.kids = kids] \in RegistryStates
  OBVIOUS
<1>2. ASSUME NEW r \in Roots \cup {NoOne}
      PROVE  [registry EXCEPT !.root = r] \in RegistryStates
  OBVIOUS
<1>3. ASSUME NEW r \in Roots \cup {NoOne}
      PROVE  [registry EXCEPT !.root = r, !.kids = {}] \in RegistryStates
  BY Zenon
<1>4. ASSUME NEW s \in Subs, NEW r \in Roots \cup {NoOne}
      PROVE  [registry EXCEPT !.kids = @ \cup {s}, !.parent[s] = r] \in RegistryStates
  BY Zenon
<1> QED
  BY <1>1, <1>2, <1>3, <1>4, Zenon

RequestPoints == {"none", "waiting", "building", "adopting", "replacing",
                  "restoring", "undoing"}

(* What the actions assign to req is of its type.                             *)
LEMMA RequestUpdates ==
  ASSUME Shape
  PROVE  /\ NoReq \in RequestStates
         /\ CancelledRequest \in RequestStates
         /\ \A b \in BOOLEAN : [req EXCEPT !.cancelled = b] \in RequestStates
         /\ \A at \in RequestPoints : [req EXCEPT !.at = at] \in RequestStates
         /\ \A at \in RequestPoints, r \in Roots :
              [req EXCEPT !.at = at, !.new = r] \in RequestStates
<1> USE DEF Shape, RequestStates, RequestPoints
<1>1. NoReq \in RequestStates
  BY DEF NoReq
<1>2. ASSUME NEW b \in BOOLEAN PROVE [req EXCEPT !.cancelled = b] \in RequestStates
  OBVIOUS
<1>3. CancelledRequest \in RequestStates
  BY <1>2, Zenon DEF CancelledRequest
<1>4. ASSUME NEW at \in RequestPoints PROVE [req EXCEPT !.at = at] \in RequestStates
  OBVIOUS
<1>5. ASSUME NEW at \in RequestPoints, NEW r \in Roots
      PROVE  [req EXCEPT !.at = at, !.new = r] \in RequestStates
  BY Zenon
<1> QED
  BY <1>1, <1>2, <1>3, <1>4, <1>5, Zenon

(* What the actions assign to closing is of its type.                         *)
LEMMA ClosingUpdates ==
  ASSUME Shape
  PROVE  /\ NoClosing \in ClosingStates
         /\ \A of \in Roots \cup {NoOne}, at \in {"handler", "closed"} :
              [NoClosing EXCEPT !.at = at, !.of = of] \in ClosingStates
         /\ [NoClosing EXCEPT !.at = "handler"] \in ClosingStates
         /\ [closing EXCEPT !.at = "children", !.left = registry.kids] \in ClosingStates
         /\ \A at \in {"closed", "turn"} : [closing EXCEPT !.at = at] \in ClosingStates
         /\ \A s \in Subs, bad \in BOOLEAN :
              [closing EXCEPT !.left = @ \ {s}, !.failed = @ \/ bad] \in ClosingStates
         /\ \A bad \in BOOLEAN :
              [closing EXCEPT !.at = "closed", !.failed = @ \/ bad] \in ClosingStates
<1> USE DEF Shape, ClosingStates, RegistryStates
<1>1. NoClosing \in ClosingStates
  BY DEF NoClosing
<1>2. ASSUME NEW of \in Roots \cup {NoOne}, NEW at \in {"handler", "closed"}
      PROVE  [NoClosing EXCEPT !.at = at, !.of = of] \in ClosingStates
  BY <1>1, Zenon
<1>3. [NoClosing EXCEPT !.at = "handler"] \in ClosingStates
  BY <1>1
<1>4. [closing EXCEPT !.at = "children", !.left = registry.kids] \in ClosingStates
  BY Zenon
<1>5. ASSUME NEW at \in {"closed", "turn"} PROVE [closing EXCEPT !.at = at] \in ClosingStates
  OBVIOUS
<1>6. ASSUME NEW s \in Subs, NEW bad \in BOOLEAN
      PROVE  [closing EXCEPT !.left = @ \ {s}, !.failed = @ \/ bad] \in ClosingStates
  BY Zenon
<1>7. ASSUME NEW bad \in BOOLEAN
      PROVE  [closing EXCEPT !.at = "closed", !.failed = @ \/ bad] \in ClosingStates
  BY Zenon
<1> QED
  BY <1>1, <1>2, <1>3, <1>4, <1>5, <1>6, <1>7, Zenon

(* What the actions assign to bye is of its type.                             *)
LEMMA ByeUpdates ==
  ASSUME Shape
  PROVE  /\ \A at \in {"none", "stopping", "closing", "done"} :
              [bye EXCEPT !.at = at] \in ByeStates
         /\ \A r \in Roots \cup {NoOne} :
              [bye EXCEPT !.at = "handler", !.of = r] \in ByeStates
         /\ \A ok \in BOOLEAN : [bye EXCEPT !.at = "replying", !.ok = ok] \in ByeStates
<1> USE DEF Shape, ByeStates
<1>1. ASSUME NEW at \in {"none", "stopping", "closing", "done"}
      PROVE  [bye EXCEPT !.at = at] \in ByeStates
  OBVIOUS
<1>2. ASSUME NEW r \in Roots \cup {NoOne}
      PROVE  [bye EXCEPT !.at = "handler", !.of = r] \in ByeStates
  BY Zenon
<1>3. ASSUME NEW ok \in BOOLEAN PROVE [bye EXCEPT !.at = "replying", !.ok = ok] \in ByeStates
  BY Zenon
<1> QED
  BY <1>1, <1>2, <1>3, Zenon

(* What the actions assign to run is of its type.                             *)
LEMMA RunUpdates ==
  ASSUME Shape
  PROVE  /\ NoRun \in RunStates
         /\ \A b \in BOOLEAN : [run EXCEPT !.cancelled = b] \in RunStates
         /\ \A r \in Roots \cup {NoOne} :
              [NoRun EXCEPT !.at = "running", !.of = r] \in RunStates
         /\ \A at \in {"creating", "child"} : [run EXCEPT !.at = at] \in RunStates
         /\ \A s \in Subs : [run EXCEPT !.at = "linking", !.sub = s] \in RunStates
         /\ [run EXCEPT !.at = "running", !.sub = NoOne] \in RunStates
<1> USE DEF Shape, RunStates
<1>1. NoRun \in RunStates
  BY DEF NoRun
<1>2. ASSUME NEW b \in BOOLEAN PROVE [run EXCEPT !.cancelled = b] \in RunStates
  OBVIOUS
<1>3. ASSUME NEW r \in Roots \cup {NoOne}
      PROVE  [NoRun EXCEPT !.at = "running", !.of = r] \in RunStates
  BY <1>1, Zenon
<1>4. ASSUME NEW at \in {"creating", "child"} PROVE [run EXCEPT !.at = at] \in RunStates
  OBVIOUS
<1>5. ASSUME NEW s \in Subs PROVE [run EXCEPT !.at = "linking", !.sub = s] \in RunStates
  BY Zenon
<1>6. [run EXCEPT !.at = "running", !.sub = NoOne] \in RunStates
  BY Zenon
<1> QED
  BY <1>1, <1>2, <1>3, <1>4, <1>5, <1>6, Zenon

(* What the fields of the records are.                                        *)
LEMMA FieldTypes ==
  ASSUME Shape
  PROVE  /\ server.root \in Roots \cup {NoOne} /\ registry.root \in Roots \cup {NoOne}
         /\ req.prev \in Roots \cup {NoOne} /\ req.new \in Roots \cup {NoOne}
         /\ closing.of \in Roots \cup {NoOne} /\ run.of \in Roots \cup {NoOne}
         /\ run.sub \in Subs \cup {NoOne}
         /\ registry.kids \in SUBSET Subs
BY DEF Shape, ServerStates, RegistryStates, RequestStates, ClosingStates, RunStates

(* Requests as they begin.                                                    *)
LEMMA NewRequests ==
  ASSUME Shape
  PROVE  /\ [NoReq EXCEPT !.kind = "open", !.at = "waiting"] \in RequestStates
         /\ \A r \in Roots \cup {NoOne} :
              [NoReq EXCEPT !.kind = "replace", !.at = "waiting", !.prev = r]
                \in RequestStates
         /\ \A kind \in {"adopt", "fork"}, r \in Roots \cup {NoOne}, new \in Roots :
              [kind |-> kind, at |-> "building", prev |-> r, new |-> new,
               cancelled |-> FALSE] \in RequestStates
<1>1. [NoReq EXCEPT !.kind = "open", !.at = "waiting"] \in RequestStates
  BY RequestUpdates, Zenon DEF RequestStates
<1>2. ASSUME NEW r \in Roots \cup {NoOne}
      PROVE  [NoReq EXCEPT !.kind = "replace", !.at = "waiting", !.prev = r]
               \in RequestStates
  BY RequestUpdates, Zenon DEF RequestStates
<1>3. ASSUME NEW kind \in {"adopt", "fork"}, NEW r \in Roots \cup {NoOne}, NEW new \in Roots
      PROVE  [kind |-> kind, at |-> "building", prev |-> r, new |-> new,
              cancelled |-> FALSE] \in RequestStates
  BY DEF RequestStates
<1> QED
  BY <1>1, <1>2, <1>3, Zenon

(* A cancelled request holds what it held.                                    *)
LEMMA CancelledHoldsOn ==
  ASSUME Shape
  PROVE  /\ CancelledRequest.kind = req.kind /\ CancelledRequest.at = req.at
         /\ CancelledRequest.prev = req.prev /\ CancelledRequest.new = req.new
         /\ req = NoReq => CancelledRequest = NoReq
         /\ req # NoReq => CancelledRequest.cancelled
<1> USE DEF Shape, RequestStates
<1>1. /\ CancelledRequest.kind = req.kind /\ CancelledRequest.at = req.at
      /\ CancelledRequest.prev = req.prev /\ CancelledRequest.new = req.new
  BY DEF CancelledRequest
<1>2. ASSUME req = NoReq PROVE CancelledRequest = NoReq
  BY <1>2, Zenon DEF CancelledRequest, NoReq
<1>3. ASSUME req # NoReq PROVE CancelledRequest.cancelled
  BY <1>3, Zenon DEF CancelledRequest
<1> QED
  BY <1>1, <1>2, <1>3, Zenon

(* A runtime whose close begins.                                              *)
LEMMA CloseBegins ==
  ASSUME Shape, NEW r \in Roots, BeginClose(r)
  PROVE  /\ closing'.of = r /\ closing'.left = {} /\ closing'.failed = FALSE
         /\ Open(r) => closing'.at = "handler"
         /\ ~Open(r) => closing'.at = "closed"
         /\ registry'.root = IF registry.root = r THEN NoOne ELSE registry.root
         /\ registry'.kids = registry.kids /\ registry'.parent = registry.parent
<1>1. closing'.of = r /\ closing'.left = {} /\ closing'.failed = FALSE
  BY DEF BeginClose, NoClosing
<1>2. /\ Open(r) => closing'.at = "handler"
      /\ ~Open(r) => closing'.at = "closed"
  BY DEF BeginClose, NoClosing
<1>3. /\ registry'.root = IF registry.root = r THEN NoOne ELSE registry.root
      /\ registry'.kids = registry.kids /\ registry'.parent = registry.parent
  BY DEF BeginClose, Shape, RegistryStates
<1> QED
  BY <1>1, <1>2, <1>3

(* A turn that is cancelled stays the turn it was.                            *)
LEMMA CancelledTurnGoesOn ==
  ASSUME Shape, CancelTurn
  PROVE  /\ run'.at = run.at /\ run'.of = run.of /\ run'.sub = run.sub
         /\ run = NoRun => run' = NoRun
         /\ run.cancelled => run'.cancelled
         /\ run.of = closing.of /\ run # NoRun => run'.cancelled
<1> DEFINE b == run.cancelled \/ (run # NoRun /\ run.of = closing.of)
<1>1. run' = [run EXCEPT !.cancelled = b]
  BY DEF CancelTurn
<1>2. ASSUME run = NoRun PROVE b = FALSE
  <2>1. ~run.cancelled
    BY <1>2, SMT DEF NoRun
  <2> QED
    BY <1>2, <2>1, Zenon
<1>3. b \in BOOLEAN /\ run \in RunStates
  BY DEF Shape
<1> HIDE DEF b
<1>4. /\ run'.at = run.at /\ run'.of = run.of /\ run'.sub = run.sub
      /\ run'.cancelled = b
  BY <1>1, <1>3 DEF RunStates
<1>5. ASSUME run = NoRun PROVE run' = NoRun
  <2>1. run' = [run EXCEPT !.cancelled = FALSE]
    BY <1>1, <1>2, <1>5, Zenon
  <2> QED
    BY <1>5, <2>1, Zenon DEF NoRun
<1>6. /\ run.cancelled => run'.cancelled
      /\ run.of = closing.of /\ run # NoRun => run'.cancelled
  BY <1>4, Zenon DEF b
<1> QED
  BY <1>4, <1>5, <1>6

(* A request stays the request it was when a close swallows its cancellation. *)
LEMMA SwallowedCancellation ==
  ASSUME Shape, CloseLoop
  PROVE  /\ req'.kind = req.kind /\ req'.at = req.at /\ req'.prev = req.prev
         /\ req'.new = req.new
         /\ req = NoReq => req' = NoReq
         /\ req'.cancelled <=> req.cancelled /\ server.lock # "request"
<1> DEFINE b == req.cancelled /\ server.lock # "request"
<1>1. req' = [req EXCEPT !.cancelled = b]
  BY DEF CloseLoop
<1>2. ASSUME req = NoReq PROVE b = FALSE
  <2>1. ~req.cancelled
    BY <1>2, SMT DEF NoReq
  <2> QED
    BY <2>1, Zenon
<1>3. b \in BOOLEAN /\ req \in RequestStates
  BY DEF Shape
<1> HIDE DEF b
<1>4. /\ req'.kind = req.kind /\ req'.at = req.at /\ req'.prev = req.prev
      /\ req'.new = req.new /\ req'.cancelled = b
  BY <1>1, <1>3 DEF RequestStates
<1>5. ASSUME req = NoReq PROVE req' = NoReq
  <2>1. req' = [req EXCEPT !.cancelled = FALSE]
    BY <1>1, <1>2, <1>5, Zenon
  <2> QED
    BY <1>5, <2>1, Zenon DEF NoReq
<1> QED
  BY <1>4, <1>5, Zenon DEF b

(* Every step keeps the types of the variables.                               *)
THEOREM ShapeIsKept == Shape /\ RequestHoldsItsRoots /\ [Next]_vars => Shape'
<1> SUFFICES ASSUME Shape, RequestHoldsItsRoots, [Next]_vars PROVE Shape'
  OBVIOUS
<1> USE FieldTypes DEF Shape, vars
<1>1. ASSUME TakeChildren PROVE Shape'
  BY <1>1, ClosingUpdates, RegistryUpdates DEF TakeChildren
<1>2. ASSUME NEW s \in Subs, CloseChild(s) PROVE Shape'
  BY <1>2, LifeUpdates, ClosingUpdates DEF CloseChild, Loops
<1>3. ASSUME CancelTurn PROVE Shape'
  BY <1>3, ClosingUpdates, RunUpdates DEF CancelTurn
<1>4. ASSUME CloseLoop PROVE Shape'
  BY <1>4, LifeUpdates, ClosingUpdates, ReservedUpdates, RequestUpdates DEF CloseLoop, RequestPoints, Loops
<1>5. ASSUME RequestOpen PROVE Shape'
  BY <1>5, NewRequests DEF RequestOpen
<1>6. ASSUME RequestReplace PROVE Shape'
  BY <1>6, ReservedUpdates, NewRequests DEF RequestReplace
<1>7. ASSUME NEW kind \in {"adopt", "fork"}, RequestFork(kind) PROVE Shape'
  BY <1>7, FreshIsUnborn, ReservedUpdates, NewRequests, LifeUpdates DEF RequestFork, Loops
<1>8. ASSUME StartBuilding PROVE Shape'
  BY <1>8, FreshIsUnborn, ServerUpdates, RequestUpdates, LifeUpdates DEF StartBuilding, RequestPoints, Loops
<1>9. ASSUME NEW r \in Roots, ClaimStaged(r) PROVE Shape'
  BY <1>9, ServerUpdates, RegistryUpdates, RequestUpdates, LifeUpdates DEF ClaimStaged, Bind, RequestPoints, Loops
<1>10. ASSUME BuildFails PROVE Shape'
  BY <1>10, LifeUpdates, RequestUpdates, ReservedUpdates, ServerUpdates DEF BuildFails, EndRequest, RequestPoints, Loops
<1>11. ASSUME BuiltOpens PROVE Shape'
  BY <1>11, ServerUpdates, RegistryUpdates, RequestUpdates, LifeUpdates DEF BuiltOpens, Bind, RequestPoints, Loops
<1>12. ASSUME BuiltReplaces PROVE Shape'
  BY <1>12, ServerUpdates, ClosingUpdates, RegistryUpdates, RequestUpdates DEF BuiltReplaces, Install, BeginClose, RequestPoints
<1>13. ASSUME ForkIsStaged PROVE Shape'
  <2>1. req.new \in Roots
    BY <1>13 DEF ForkIsStaged, RequestHoldsItsRoots
  <2> QED
    BY <1>13, <2>1, RequestUpdates, ReservedUpdates DEF ForkIsStaged, EndRequest, RequestPoints
<1>14. ASSUME Adopt PROVE Shape'
  BY <1>14, ServerUpdates, ClosingUpdates, RegistryUpdates, RequestUpdates DEF Adopt, Install, BeginClose, RequestPoints
<1>15. ASSUME AdoptWaits PROVE Shape'
  BY <1>15, RequestUpdates DEF AdoptWaits, RequestPoints
<1>16. ASSUME AdoptFails PROVE Shape'
  BY <1>16, RequestUpdates, ReservedUpdates DEF AdoptFails, EndRequest, RequestPoints
<1>17. ASSUME Replaced PROVE Shape'
  <2>1. CASE closing.failed \/ registry.root # NoOne
    <3>1. closing' = NoClosing /\ life' = Shut({req.new}) /\ EndRequest
          /\ server' = Unlocked /\ UNCHANGED <<registry, staged, bye, stop, run>>
      BY <1>17, <2>1 DEF Replaced
    <3> QED
      BY <3>1, ClosingUpdates, LifeUpdates, RequestUpdates, ReservedUpdates,
         ServerUpdates DEF EndRequest
  <2>2. CASE ~(closing.failed \/ registry.root # NoOne)
    <3>1. closing' = NoClosing /\ life' = Shut(registry.kids) /\ Bind(req.new)
          /\ UNCHANGED <<reserved, staged, bye, stop, run>>
      BY <1>17, <2>2 DEF Replaced
    <3>2. req.new \in Roots
      BY <1>17 DEF Replaced, RequestHoldsItsRoots
    <3> QED
      BY <3>1, <3>2, ClosingUpdates, LifeUpdates, RequestUpdates, RegistryUpdates,
         ServerUpdates DEF Bind, RequestPoints
  <2> QED
    BY <2>1, <2>2
<1>18. ASSUME RestoreChild PROVE Shape'
  BY <1>18, FreshIsUnborn, LifeUpdates, RegistryUpdates DEF RestoreChild, Loops
<1>19. ASSUME RestoreFails PROVE Shape'
  BY <1>19, ServerUpdates, ClosingUpdates, RegistryUpdates, RequestUpdates DEF RestoreFails, BeginClose, RequestPoints
<1>20. ASSUME Undone PROVE Shape'
  BY <1>20, ClosingUpdates, RequestUpdates, ReservedUpdates, ServerUpdates DEF Undone, EndRequest, RequestPoints
<1>21. ASSUME Installed PROVE Shape'
  BY <1>21, ServerUpdates, RequestUpdates, ReservedUpdates DEF Installed, EndRequest, RequestPoints
<1>22. ASSUME Disconnect PROVE Shape'
  BY <1>22, RequestUpdates, ByeUpdates DEF Disconnect, Serving, RequestPoints
<1>23. ASSUME SessionClose PROVE Shape'
  BY <1>23, ByeUpdates DEF SessionClose, Serving
<1>24. ASSUME StopRequests PROVE Shape'
  BY <1>24, ByeUpdates, ServerUpdates, RequestUpdates DEF StopRequests, RequestPoints
<1>25. ASSUME CloseForRequest PROVE Shape'
  BY <1>25, ServerUpdates, ClosingUpdates, RegistryUpdates, ByeUpdates DEF CloseForRequest, CloseRoot, BeginClose
<1>26. ASSUME ClosedForRequest PROVE Shape'
  BY <1>26, ByeUpdates, ClosingUpdates, ServerUpdates DEF ClosedForRequest
<1>27. ASSUME Replied PROVE Shape'
  BY <1>27, ByeUpdates, RequestUpdates DEF Replied, Stopping, Serving, RequestPoints
<1>28. ASSUME Shutdown PROVE Shape'
  <2>1. bye' \in ByeStates
    BY <1>28 DEF Shutdown, ByeStates
  <2> QED
    BY <1>28, <2>1, RequestUpdates, ServerUpdates DEF Shutdown, Stopping, Serving
<1>29. ASSUME CloseForShutdown PROVE Shape'
  BY <1>29, ServerUpdates, ClosingUpdates, RegistryUpdates DEF CloseForShutdown, CloseRoot, BeginClose
<1>30. ASSUME ShutdownDone PROVE Shape'
  BY <1>30, ClosingUpdates, ServerUpdates DEF ShutdownDone
<1>31. ASSUME StartTurn PROVE Shape'
  BY <1>31, RunUpdates, ReservedUpdates DEF StartTurn, Serving
<1>32. ASSUME Interrupt PROVE Shape'
  BY <1>32, RunUpdates DEF Interrupt, Serving
<1>33. ASSUME CreateChild PROVE Shape'
  BY <1>33, RunUpdates DEF CreateChild
<1>34. ASSUME RegisterChild PROVE Shape'
  BY <1>34, FreshIsUnborn, LifeUpdates, RegistryUpdates, RunUpdates DEF RegisterChild, Loops
<1>35. ASSUME LinkChild PROVE Shape'
  BY <1>35, RunUpdates DEF LinkChild
<1>36. ASSUME LinkFails PROVE Shape'
  BY <1>36, LifeUpdates, RegistryUpdates, RunUpdates DEF LinkFails, Loops
<1>37. ASSUME ChildEnds PROVE Shape'
  BY <1>37, RunUpdates DEF ChildEnds
<1>38. ASSUME TurnEnds PROVE Shape'
  BY <1>38, RunUpdates, ReservedUpdates DEF TurnEnds
<1>39. CASE UNCHANGED vars
  BY <1>39
<1> QED
  BY <1>1, <1>2, <1>3, <1>4, <1>5, <1>6, <1>7, <1>8, <1>9, <1>10, <1>11, <1>12, <1>13, <1>14, <1>15, <1>16, <1>17, <1>18, <1>19, <1>20, <1>21, <1>22, <1>23, <1>24, <1>25, <1>26, <1>27, <1>28, <1>29, <1>30, <1>31, <1>32, <1>33, <1>34, <1>35, <1>36, <1>37, <1>38, <1>39 DEF Next, Builds, Closes, Shuts

(* Every step keeps the inductive invariant.                                  *)
THEOREM NextIsInductive == IInv /\ [Next]_vars => IInv'
<1> SUFFICES ASSUME IInv, [Next]_vars PROVE IInv'
  OBVIOUS
<1> USE NoOneAssumption, LoopsAssumption
<1> USE DEF IInv, Held, LockHasItsHolder, RequestHoldsItsRoots, ServerHoldsItsRoot,
            StagedIsSpare, ClosingIsOfAnOpenRoot, OpenRootIsHeld, ChildrenAreHeld,
            ReservedForOne, TurnIsOfALiveRoot, CloseFollowsItsRoot, StoppedStays,
            NoReq, NoClosing, NoRun, Open, Owned, vars,
            Shape, Loops, LifeStates, ServerStates, RegistryStates, Reservations,
            RequestStates, ClosingStates, ByeStates, RunStates
<1>0. Shape'
  BY ShapeIsKept
<1>1. ASSUME TakeChildren PROVE Held'
  BY <1>1, SMTT(20) DEF TakeChildren
<1>2. ASSUME NEW s \in Subs, CloseChild(s) PROVE Held'
  BY <1>2, SMTT(20) DEF CloseChild, Shut
<1>3. ASSUME CancelTurn PROVE Held'
  BY <1>3, <1>0, CancelledTurnGoesOn, SMTT(20) DEF CancelTurn
<1>4. ASSUME CloseLoop PROVE Held'
  <2>1. closing.at = "turn" /\ UNCHANGED <<server, registry, staged, bye, stop, run>>
    BY <1>4 DEF CloseLoop
  <2>2. \A l \in Loops : life'[l] = IF l = closing.of THEN "closed" ELSE life[l]
    BY <1>4 DEF CloseLoop, Shut
  <2>3. \A r \in Roots :
           reserved'[r] = IF r = closing.of /\ reserved[r] = "turn" THEN "free" ELSE reserved[r]
    BY <1>4 DEF CloseLoop, Freed
  <2>4. PICK c \in Roots : closing.of = c
    BY <2>1
  <2>6. closing'.at = "closed" /\ closing'.of = c /\ closing'.left = {}
    BY <1>4, <2>4 DEF CloseLoop
  <2>5. /\ req'.kind = req.kind /\ req'.at = req.at /\ req'.prev = req.prev
        /\ req'.new = req.new
        /\ req = NoReq => req' = NoReq
        /\ (req'.cancelled <=> req.cancelled /\ server.lock # "request")
    BY <1>4, SwallowedCancellation
  <2>11. LockHasItsHolder'
    BY <2>1, <2>4, <2>5, <2>6, SMTT(10)
  <2>12. RequestHoldsItsRoots'
    BY <2>1, <2>2, <2>4, <2>5, <2>6, SMTT(10)
  <2>13. ServerHoldsItsRoot'
    BY <2>1, <2>2, <2>4, <2>5, <2>6, SMTT(10)
  <2>14. StagedIsSpare'
    BY <2>1, <2>2, <2>4, <2>5, <2>6, SMTT(10)
  <2>15. ClosingIsOfAnOpenRoot'
    BY <2>1, <2>2, <2>4, <2>6, SMTT(10)
  <2>16. OpenRootIsHeld'
    BY <2>1, <2>2, <2>4, <2>6, <2>5, SMTT(10)
  <2>17. ChildrenAreHeld'
    BY <2>1, <2>2, <2>4, <2>6, SMTT(10)
  <2>18. ReservedForOne'
    BY <2>1, <2>2, <2>3, <2>4, <2>5, <2>6, SMTT(10)
  <2>19. TurnIsOfALiveRoot'
    BY <2>1, <2>4, <2>6, SMTT(10)
  <2>20. CloseFollowsItsRoot'
    BY <2>1, <2>2, <2>4, <2>6, SMTT(10)
  <2>21. StoppedStays'
    BY <2>1, <2>5, SMTT(10)
  <2> QED
    BY <2>11, <2>12, <2>13, <2>14, <2>15, <2>16, <2>17, <2>18, <2>19, <2>20, <2>21
<1>5. ASSUME RequestOpen PROVE Held'
  BY <1>5, SMTT(20) DEF RequestOpen, Serving
<1>6. ASSUME RequestReplace PROVE Held'
  BY <1>6, SMTT(20) DEF RequestReplace, Serving
<1>7. ASSUME NEW kind \in {"adopt", "fork"}, RequestFork(kind) PROVE Held'
  BY <1>7, FreshIsUnborn, SMTT(20) DEF RequestFork, Serving
<1>8. ASSUME StartBuilding PROVE Held'
  BY <1>8, FreshIsUnborn, SMTT(20) DEF StartBuilding
<1>9. ASSUME NEW r \in Roots, ClaimStaged(r) PROVE Held'
  BY <1>9, SMTT(20) DEF ClaimStaged, Bind, Shut
<1>10. ASSUME BuildFails PROVE Held'
  BY <1>10, SMTT(20) DEF BuildFails, Shut, EndRequest, Freed, Unlocked
<1>11. ASSUME BuiltOpens PROVE Held'
  BY <1>11, SMTT(20) DEF BuiltOpens, Bind, Shut
<1>12. ASSUME BuiltReplaces PROVE Held'
  <2>1. req.prev \in Roots /\ BeginClose(req.prev)
    BY <1>12 DEF BuiltReplaces, Install
  <2>2. /\ req.kind = "replace" /\ req.at = "building" /\ ~req.cancelled
        /\ UNCHANGED <<life, staged, reserved, bye, stop, run>>
    BY <1>12 DEF BuiltReplaces, Install
  <2>3. /\ req'.at = "replacing" /\ req'.kind = req.kind /\ req'.prev = req.prev
        /\ req'.new = req.new /\ ~req'.cancelled
        /\ server'.root = NoOne /\ server'.attached = FALSE /\ server'.lock = "request"
        /\ server'.closed = server.closed
    BY <1>12 DEF BuiltReplaces, Install
  <2>6. closing.at = "none" /\ closing.of = NoOne
    BY <2>2
  <2>4. CASE server.root = req.prev
    <3>1. Open(server.root)
      BY <2>1, <2>4
    <3>4. /\ closing'.of = server.root /\ closing'.left = {} /\ closing'.at = "handler"
          /\ registry'.root = NoOne
          /\ registry'.kids = registry.kids /\ registry'.parent = registry.parent
      <4>1. Open(req.prev) /\ registry.root = req.prev /\ Shape
        BY <2>1, <2>4, <3>1
      <4> HIDE DEF Open, Shape
      <4> QED
        BY <2>1, <2>4, <4>1, CloseBegins
    <3>11. LockHasItsHolder'
      BY <2>1, <2>2, <2>3, <2>4, <3>4, SMTT(10)
    <3>12. RequestHoldsItsRoots'
      BY <2>1, <2>2, <2>3, <2>4, <3>4, SMTT(10)
    <3>13. ServerHoldsItsRoot'
      BY <2>1, <2>2, <2>3, <2>4, <3>4, SMTT(10)
    <3>14. StagedIsSpare'
      BY <2>1, <2>2, <2>3, <2>4, <3>4, SMTT(10)
    <3>15. ClosingIsOfAnOpenRoot'
      BY <2>1, <2>2, <2>3, <2>4, <3>4, SMTT(10)
    <3>16. OpenRootIsHeld'
      BY <2>1, <2>2, <2>3, <2>4, <3>4, SMTT(10)
    <3>17. ChildrenAreHeld'
      BY <2>1, <2>2, <2>3, <2>4, <3>4, SMTT(10)
    <3>18. ReservedForOne'
      BY <2>1, <2>2, <2>3, <2>4, <3>4, SMTT(10)
    <3>19. TurnIsOfALiveRoot'
      BY <2>1, <2>2, <2>3, <2>4, <3>4, SMTT(10)
    <3>20. CloseFollowsItsRoot'
      BY <2>1, <2>2, <2>3, <2>4, <3>4, SMTT(10)
    <3>21. StoppedStays'
      BY <2>1, <2>2, <2>3, <2>4, <3>4, SMTT(10)
    <3> QED
      BY <3>11, <3>12, <3>13, <3>14, <3>15, <3>16, <3>17, <3>18, <3>19, <3>20, <3>21
  <2>5. CASE server.root = NoOne /\ server.closed /\ life[req.prev] = "closed"
    <3>4. /\ closing'.of = req.prev /\ closing'.left = {}
          /\ closing'.at = "closed"
          /\ registry'.root = NoOne
          /\ registry'.kids = registry.kids /\ registry'.parent = registry.parent
      <4>1. registry.root = NoOne /\ Shape
        BY <2>1, <2>5
      <4> HIDE DEF Open, Shape
      <4> QED
        BY <2>1, <2>5, <4>1, CloseBegins DEF Open
    <3>11. LockHasItsHolder'
      BY <2>1, <2>2, <2>3, <2>5, <3>4, SMTT(10)
    <3>12. RequestHoldsItsRoots'
      BY <2>1, <2>2, <2>3, <2>5, <3>4, SMTT(10)
    <3>13. ServerHoldsItsRoot'
      <4>1. registry'.root = NoOne
        BY <3>4
      <4> QED
        BY <2>3, <4>1, SMTT(10)
    <3>14. StagedIsSpare'
      BY <2>1, <2>2, <2>3, <2>5, <3>4, SMTT(10)
    <3>15. ClosingIsOfAnOpenRoot'
      <4>1. life' = life /\ life[req.prev] = "closed"
        BY <2>2, <2>5
      <4> QED
        BY <3>4, <4>1, SMTT(10)
    <3>16. OpenRootIsHeld'
      BY <2>1, <2>2, <2>3, <2>5, <3>4, SMTT(10)
    <3>17. ChildrenAreHeld'
      BY <2>1, <2>2, <2>3, <2>5, <3>4, SMTT(10)
    <3>18. ReservedForOne'
      BY <2>1, <2>2, <2>3, <2>5, <3>4, SMTT(10)
    <3>19. TurnIsOfALiveRoot'
      BY <2>1, <2>2, <2>3, <2>5, <3>4, SMTT(10)
    <3>20. CloseFollowsItsRoot'
      BY <2>1, <2>2, <2>3, <2>5, <3>4, SMTT(10)
    <3>21. StoppedStays'
      BY <2>1, <2>2, <2>3, <2>5, <3>4, SMTT(10)
    <3> QED
      BY <3>11, <3>12, <3>13, <3>14, <3>15, <3>16, <3>17, <3>18, <3>19, <3>20, <3>21
  <2> QED
    BY <2>1, <2>2, <2>6, <2>4, <2>5
<1>13. ASSUME ForkIsStaged PROVE Held'
  BY <1>13, SMTT(20) DEF ForkIsStaged, EndRequest, Freed
<1>14. ASSUME Adopt PROVE Held'
  BY <1>14, SMTT(20) DEF Adopt, Install, BeginClose
<1>15. ASSUME AdoptWaits PROVE Held'
  BY <1>15, SMTT(20) DEF AdoptWaits
<1>16. ASSUME AdoptFails PROVE Held'
  BY <1>16, SMTT(20) DEF AdoptFails, EndRequest, Freed
<1>17. ASSUME Replaced PROVE Held'
  <2>1. CASE closing.failed \/ registry.root # NoOne
    <3>1. closing' = NoClosing /\ life' = Shut({req.new}) /\ EndRequest
          /\ server' = Unlocked /\ UNCHANGED <<registry, staged, bye, stop, run>>
      BY <1>17, <2>1 DEF Replaced
    <3>2. req.at = "replacing" /\ server.lock = "request" /\ closing.at = "closed"
      BY <1>17 DEF Replaced
    <3>11. LockHasItsHolder'
      BY <1>0, <3>1, <3>2, SMTT(10) DEF EndRequest, Shut, Unlocked, Freed
    <3>12. RequestHoldsItsRoots'
      BY <1>0, <3>1, <3>2, SMTT(10) DEF EndRequest, Shut, Unlocked, Freed
    <3>13. ServerHoldsItsRoot'
      BY <1>0, <3>1, <3>2, SMTT(10) DEF EndRequest, Shut, Unlocked, Freed
    <3>14. StagedIsSpare'
      BY <1>0, <3>1, <3>2, SMTT(10) DEF EndRequest, Shut, Unlocked, Freed
    <3>15. ClosingIsOfAnOpenRoot'
      BY <1>0, <3>1, <3>2, SMTT(10) DEF EndRequest, Shut, Unlocked, Freed
    <3>16. OpenRootIsHeld'
      BY <1>0, <3>1, <3>2, SMTT(10) DEF EndRequest, Shut, Unlocked, Freed
    <3>17. ChildrenAreHeld'
      BY <1>0, <3>1, <3>2, SMTT(10) DEF EndRequest, Shut, Unlocked, Freed
    <3>18. ReservedForOne'
      BY <1>0, <3>1, <3>2, SMTT(10) DEF EndRequest, Shut, Unlocked, Freed
    <3>19. TurnIsOfALiveRoot'
      BY <1>0, <3>1, <3>2, SMTT(10) DEF EndRequest, Shut, Unlocked, Freed
    <3>20. CloseFollowsItsRoot'
      BY <1>0, <3>1, <3>2, SMTT(10) DEF EndRequest, Shut, Unlocked, Freed
    <3>21. StoppedStays'
      BY <1>0, <3>1, <3>2, SMTT(10) DEF EndRequest, Shut, Unlocked, Freed
    <3> QED
      BY <3>11, <3>12, <3>13, <3>14, <3>15, <3>16, <3>17, <3>18, <3>19, <3>20, <3>21
  <2>2. CASE ~(closing.failed \/ registry.root # NoOne)
    <3>1. closing' = NoClosing /\ life' = Shut(registry.kids) /\ Bind(req.new)
          /\ UNCHANGED <<reserved, staged, bye, stop, run>>
      BY <1>17, <2>2 DEF Replaced
    <3>2. req.at = "replacing" /\ server.lock = "request" /\ closing.at = "closed"
      BY <1>17 DEF Replaced
    <3>11. LockHasItsHolder'
      BY <1>0, <3>1, <3>2, SMTT(10) DEF Bind, Shut
    <3>12. RequestHoldsItsRoots'
      BY <1>0, <3>1, <3>2, SMTT(10) DEF Bind, Shut
    <3>13. ServerHoldsItsRoot'
      BY <1>0, <3>1, <3>2, SMTT(10) DEF Bind, Shut
    <3>14. StagedIsSpare'
      BY <1>0, <3>1, <3>2, SMTT(10) DEF Bind, Shut
    <3>15. ClosingIsOfAnOpenRoot'
      BY <1>0, <3>1, <3>2, SMTT(10) DEF Bind, Shut
    <3>16. OpenRootIsHeld'
      BY <1>0, <3>1, <3>2, SMTT(10) DEF Bind, Shut
    <3>17. ChildrenAreHeld'
      BY <1>0, <3>1, <3>2, SMTT(10) DEF Bind, Shut
    <3>18. ReservedForOne'
      BY <1>0, <3>1, <3>2, SMTT(10) DEF Bind, Shut
    <3>19. TurnIsOfALiveRoot'
      BY <1>0, <3>1, <3>2, SMTT(10) DEF Bind, Shut
    <3>20. CloseFollowsItsRoot'
      BY <1>0, <3>1, <3>2, SMTT(10) DEF Bind, Shut
    <3>21. StoppedStays'
      BY <1>0, <3>1, <3>2, SMTT(10) DEF Bind, Shut
    <3> QED
      BY <3>11, <3>12, <3>13, <3>14, <3>15, <3>16, <3>17, <3>18, <3>19, <3>20, <3>21
  <2> QED
    BY <2>1, <2>2
<1>18. ASSUME RestoreChild PROVE Held'
  BY <1>18, FreshIsUnborn, SMTT(20) DEF RestoreChild
<1>19. ASSUME RestoreFails PROVE Held'
  BY <1>19, SMTT(20) DEF RestoreFails, BeginClose
<1>20. ASSUME Undone PROVE Held'
  BY <1>20, SMTT(20) DEF Undone, EndRequest, Freed, Unlocked
<1>21. ASSUME Installed PROVE Held'
  BY <1>21, SMTT(20) DEF Installed, EndRequest, Freed, Unlocked
<1>22. ASSUME Disconnect PROVE Held'
  BY <1>22, <1>0, CancelledHoldsOn, SMTT(20) DEF Disconnect, Serving
<1>23. ASSUME SessionClose PROVE Held'
  BY <1>23, SMTT(20) DEF SessionClose, Serving
<1>24. ASSUME StopRequests PROVE Held'
  BY <1>24, <1>0, CancelledHoldsOn, SMTT(20) DEF StopRequests
<1>25. ASSUME CloseForRequest PROVE Held'
  <2>1. CASE server.root = NoOne
    BY <1>25, <2>1, SMTT(20) DEF CloseForRequest, CloseRoot
  <2>2. CASE server.root # NoOne
    <3>1. server.root \in Roots /\ BeginClose(server.root)
      BY <1>25, <2>2 DEF CloseForRequest, CloseRoot
    <3>2. /\ server.lock = "free" /\ UNCHANGED <<life, staged, reserved, req, run>>
          /\ bye.at = "stopping" /\ bye'.at = "closing" /\ bye'.of = bye.of /\ bye'.ok = bye.ok /\ stop' = stop
      BY <1>25 DEF CloseForRequest, CloseRoot
    <3>3. /\ server'.root = NoOne /\ server'.attached = FALSE /\ server'.lock = "bye"
          /\ server'.closed = server.closed
      BY <1>25 DEF CloseForRequest, CloseRoot
    <3>4. /\ closing'.of = server.root /\ closing'.left = {} /\ closing'.at = "handler"
          /\ registry'.root = NoOne
          /\ registry'.kids = registry.kids /\ registry'.parent = registry.parent
      <4>1. Open(server.root) /\ registry.root = server.root /\ Shape
        BY <2>2, <3>1
      <4> HIDE DEF Open, Shape
      <4> QED
        BY <3>1, <4>1, CloseBegins
    <3>11. LockHasItsHolder'
      BY <2>2, <3>1, <3>2, <3>3, <3>4, SMTT(10)
    <3>12. RequestHoldsItsRoots'
      BY <2>2, <3>1, <3>2, <3>3, <3>4, SMTT(10)
    <3>13. ServerHoldsItsRoot'
      BY <2>2, <3>1, <3>2, <3>3, <3>4, SMTT(10)
    <3>14. StagedIsSpare'
      BY <2>2, <3>1, <3>2, <3>3, <3>4, SMTT(10)
    <3>15. ClosingIsOfAnOpenRoot'
      BY <2>2, <3>1, <3>2, <3>3, <3>4, SMTT(10)
    <3>16. OpenRootIsHeld'
      BY <2>2, <3>1, <3>2, <3>3, <3>4, SMTT(10)
    <3>17. ChildrenAreHeld'
      BY <2>2, <3>1, <3>2, <3>3, <3>4, SMTT(10)
    <3>18. ReservedForOne'
      BY <2>2, <3>1, <3>2, <3>3, <3>4, SMTT(10)
    <3>19. TurnIsOfALiveRoot'
      BY <2>2, <3>1, <3>2, <3>3, <3>4, SMTT(10)
    <3>20. CloseFollowsItsRoot'
      BY <2>2, <3>1, <3>2, <3>3, <3>4, SMTT(10)
    <3>21. StoppedStays'
      BY <2>2, <3>1, <3>2, <3>3, <3>4, SMTT(10)
    <3> QED
      BY <3>11, <3>12, <3>13, <3>14, <3>15, <3>16, <3>17, <3>18, <3>19, <3>20, <3>21
  <2> QED
    BY <2>1, <2>2
<1>26. ASSUME ClosedForRequest PROVE Held'
  <2>1. bye'.at = "replying" /\ bye'.of = bye.of
    BY <1>26 DEF ClosedForRequest
  <2> QED
    BY <1>26, <1>0, <2>1, SMTT(20) DEF ClosedForRequest
<1>27. ASSUME Replied PROVE Held'
  <2>1. /\ bye.at = "replying" /\ bye'.at = "done" /\ bye'.of = bye.of /\ bye'.ok = bye.ok
        /\ UNCHANGED <<life, server, registry, staged, reserved, closing, run>>
    BY <1>27 DEF Replied
  <2>2. /\ stop = "none" => stop' = "stopping" /\ req' = CancelledRequest
        /\ stop # "none" => stop' = stop /\ req' = req
    BY <1>27 DEF Replied, Stopping, Serving
  <2>3. /\ req'.kind = req.kind /\ req'.at = req.at /\ req'.prev = req.prev
        /\ req'.new = req.new
        /\ req = NoReq => req' = NoReq
        /\ req # NoReq /\ stop = "none" => req'.cancelled
        /\ req # NoReq /\ stop # "none" => (req'.cancelled <=> req.cancelled)
    BY <2>2, CancelledHoldsOn
  <2>11. LockHasItsHolder'
    BY <2>1, <2>2, <2>3, SMTT(10)
  <2>12. RequestHoldsItsRoots'
    BY <2>1, <2>2, <2>3, SMTT(10)
  <2>13. ServerHoldsItsRoot'
    BY <2>1, <2>2, <2>3, SMTT(10)
  <2>14. StagedIsSpare'
    BY <2>1, <2>2, <2>3, SMTT(10)
  <2>15. ClosingIsOfAnOpenRoot'
    BY <2>1, <2>2, <2>3, SMTT(10)
  <2>16. OpenRootIsHeld'
    BY <2>1, <2>2, <2>3, SMTT(10)
  <2>17. ChildrenAreHeld'
    BY <2>1, <2>2, <2>3, SMTT(10)
  <2>18. ReservedForOne'
    BY <2>1, <2>2, <2>3, SMTT(10)
  <2>19. TurnIsOfALiveRoot'
    BY <2>1, <2>2, <2>3, SMTT(10)
  <2>20. CloseFollowsItsRoot'
    BY <2>1, <2>2, <2>3, SMTT(10)
  <2>21. StoppedStays'
    BY <2>1, <2>2, <2>3, SMTT(10)
  <2> QED
    BY <2>11, <2>12, <2>13, <2>14, <2>15, <2>16, <2>17, <2>18, <2>19, <2>20, <2>21
<1>28. ASSUME Shutdown PROVE Held'
  BY <1>28, <1>0, CancelledHoldsOn, SMTT(20) DEF Shutdown, Stopping, Serving
<1>29. ASSUME CloseForShutdown PROVE Held'
  <2>1. CASE server.root = NoOne
    BY <1>29, <2>1, SMTT(20) DEF CloseForShutdown, CloseRoot
  <2>2. CASE server.root # NoOne
    <3>1. server.root \in Roots /\ BeginClose(server.root)
      BY <1>29, <2>2 DEF CloseForShutdown, CloseRoot
    <3>2. /\ server.lock = "free" /\ UNCHANGED <<life, staged, reserved, req, run>>
          /\ stop = "stopping" /\ stop' = "closing" /\ bye' = bye
      BY <1>29 DEF CloseForShutdown, CloseRoot
    <3>3. /\ server'.root = NoOne /\ server'.attached = FALSE /\ server'.lock = "stop"
          /\ server'.closed = server.closed
      BY <1>29 DEF CloseForShutdown, CloseRoot
    <3>4. /\ closing'.of = server.root /\ closing'.left = {} /\ closing'.at = "handler"
          /\ registry'.root = NoOne
          /\ registry'.kids = registry.kids /\ registry'.parent = registry.parent
      <4>1. Open(server.root) /\ registry.root = server.root /\ Shape
        BY <2>2, <3>1
      <4> HIDE DEF Open, Shape
      <4> QED
        BY <3>1, <4>1, CloseBegins
    <3>11. LockHasItsHolder'
      BY <2>2, <3>1, <3>2, <3>3, <3>4, SMTT(10)
    <3>12. RequestHoldsItsRoots'
      BY <2>2, <3>1, <3>2, <3>3, <3>4, SMTT(10)
    <3>13. ServerHoldsItsRoot'
      BY <2>2, <3>1, <3>2, <3>3, <3>4, SMTT(10)
    <3>14. StagedIsSpare'
      BY <2>2, <3>1, <3>2, <3>3, <3>4, SMTT(10)
    <3>15. ClosingIsOfAnOpenRoot'
      BY <2>2, <3>1, <3>2, <3>3, <3>4, SMTT(10)
    <3>16. OpenRootIsHeld'
      BY <2>2, <3>1, <3>2, <3>3, <3>4, SMTT(10)
    <3>17. ChildrenAreHeld'
      BY <2>2, <3>1, <3>2, <3>3, <3>4, SMTT(10)
    <3>18. ReservedForOne'
      BY <2>2, <3>1, <3>2, <3>3, <3>4, SMTT(10)
    <3>19. TurnIsOfALiveRoot'
      BY <2>2, <3>1, <3>2, <3>3, <3>4, SMTT(10)
    <3>20. CloseFollowsItsRoot'
      BY <2>2, <3>1, <3>2, <3>3, <3>4, SMTT(10)
    <3>21. StoppedStays'
      BY <2>2, <3>1, <3>2, <3>3, <3>4, SMTT(10)
    <3> QED
      BY <3>11, <3>12, <3>13, <3>14, <3>15, <3>16, <3>17, <3>18, <3>19, <3>20, <3>21
  <2> QED
    BY <2>1, <2>2
<1>30. ASSUME ShutdownDone PROVE Held'
  BY <1>30, SMTT(20) DEF ShutdownDone
<1>31. ASSUME StartTurn PROVE Held'
  BY <1>31, SMTT(20) DEF StartTurn, Serving
<1>32. ASSUME Interrupt PROVE Held'
  BY <1>32, SMTT(20) DEF Interrupt, Serving
<1>33. ASSUME CreateChild PROVE Held'
  <2>1. run'.at = "creating" /\ run'.of = run.of /\ run'.sub = run.sub /\ ~run'.cancelled
    BY <1>33 DEF CreateChild
  <2>2. /\ run.at = "running" /\ ~run.cancelled
        /\ UNCHANGED <<life, server, registry, staged, reserved, req, closing, bye, stop>>
    BY <1>33 DEF CreateChild
  <2>11. LockHasItsHolder'
    BY <2>1, <2>2, SMTT(10)
  <2>12. RequestHoldsItsRoots'
    BY <2>1, <2>2, SMTT(10)
  <2>13. ServerHoldsItsRoot'
    BY <2>1, <2>2, SMTT(10)
  <2>14. StagedIsSpare'
    BY <2>1, <2>2, SMTT(10)
  <2>15. ClosingIsOfAnOpenRoot'
    BY <2>1, <2>2, SMTT(10)
  <2>16. OpenRootIsHeld'
    BY <2>1, <2>2, SMTT(10)
  <2>17. ChildrenAreHeld'
    BY <2>1, <2>2, SMTT(10)
  <2>18. ReservedForOne'
    BY <2>1, <2>2, SMTT(10)
  <2>19. TurnIsOfALiveRoot'
    BY <2>1, <2>2, SMTT(10)
  <2>20. CloseFollowsItsRoot'
    BY <2>1, <2>2, SMTT(10)
  <2>21. StoppedStays'
    BY <2>1, <2>2, SMTT(10)
  <2> QED
    BY <2>11, <2>12, <2>13, <2>14, <2>15, <2>16, <2>17, <2>18, <2>19, <2>20, <2>21
<1>34. ASSUME RegisterChild PROVE Held'
  BY <1>34, FreshIsUnborn, SMTT(20) DEF RegisterChild
<1>35. ASSUME LinkChild PROVE Held'
  BY <1>35, SMTT(20) DEF LinkChild
<1>36. ASSUME LinkFails PROVE Held'
  BY <1>36, SMTT(20) DEF LinkFails, Shut
<1>37. ASSUME ChildEnds PROVE Held'
  BY <1>37, SMTT(20) DEF ChildEnds
<1>38. ASSUME TurnEnds PROVE Held'
  BY <1>38, SMTT(20) DEF TurnEnds, Freed
<1>39. ASSUME UNCHANGED vars PROVE Held'
  BY <1>39
<1> HIDE DEF IInv, Held, LockHasItsHolder, RequestHoldsItsRoots, ServerHoldsItsRoot,
             StagedIsSpare, ClosingIsOfAnOpenRoot, OpenRootIsHeld, ChildrenAreHeld,
             ReservedForOne, TurnIsOfALiveRoot, CloseFollowsItsRoot, StoppedStays,
             NoReq, NoClosing, NoRun, Open, Owned,
             Shape, Loops, LifeStates, ServerStates, RegistryStates, Reservations,
             RequestStates, ClosingStates, ByeStates, RunStates
<1>40. Held'
  BY <1>1, <1>2, <1>3, <1>4, <1>5, <1>6, <1>7, <1>8, <1>9, <1>10,
     <1>11, <1>12, <1>13, <1>14, <1>15, <1>16, <1>17, <1>18, <1>19, <1>20,
     <1>21, <1>22, <1>23, <1>24, <1>25, <1>26, <1>27, <1>28, <1>29, <1>30,
     <1>31, <1>32, <1>33, <1>34, <1>35, <1>36, <1>37, <1>38, <1>39
  DEF Next, Builds, Closes, Shuts
<1> QED
  BY <1>0, <1>40 DEF IInv

(* Nothing runs and nothing is open before the first request.                 *)
LEMMA InitIsInductive == Init => IInv
<1> SUFFICES ASSUME Init PROVE IInv
  OBVIOUS
<1> USE DEF Init, NoReq, NoClosing, NoRun
<1>1. Shape
  BY DEF Shape, Loops, LifeStates, ServerStates, RegistryStates, Reservations,
         RequestStates, ClosingStates, ByeStates, RunStates
<1>2. LockHasItsHolder /\ RequestHoldsItsRoots
  BY NoOneAssumption DEF LockHasItsHolder, RequestHoldsItsRoots
<1>3. ServerHoldsItsRoot /\ StagedIsSpare /\ ClosingIsOfAnOpenRoot
  BY DEF ServerHoldsItsRoot, StagedIsSpare, ClosingIsOfAnOpenRoot
<1>4. OpenRootIsHeld /\ ChildrenAreHeld
  BY DEF OpenRootIsHeld, ChildrenAreHeld, Open
<1>5. ReservedForOne /\ TurnIsOfALiveRoot
  BY NoOneAssumption DEF ReservedForOne, TurnIsOfALiveRoot
<1>6. CloseFollowsItsRoot /\ StoppedStays
  BY DEF CloseFollowsItsRoot, StoppedStays
<1> QED
  BY <1>1, <1>2, <1>3, <1>4, <1>5, <1>6 DEF IInv, Held

(* So it holds of every state a run reaches.                                  *)
THEOREM Invariance == Spec => []IInv
<1>1. Init => IInv
  BY InitIsInductive
<1>2. IInv /\ [Next]_vars => IInv'
  BY NextIsInductive
<1> QED
  BY <1>1, <1>2, PTL DEF Spec

(* Every state has its shape, and the lock the holder its state says.         *)
THEOREM TypeCorrect == Spec => []TypeOK
<1>1. IInv => TypeOK
  BY DEF IInv, Held, TypeOK, LockHasItsHolder, RequestHoldsItsRoots
<1> QED
  BY <1>1, Invariance, PTL

(* No start, resume, fork, close, cancellation or shutdown, in whatever order *)
(* they interleave, drops a runtime that is open.                             *)
THEOREM RuntimesAreOwned == Spec => []EveryRuntimeIsOwned
<1>1. IInv => EveryRuntimeIsOwned
  BY DEF IInv, Held, EveryRuntimeIsOwned, OpenRootIsHeld, ChildrenAreHeld
<1> QED
  BY <1>1, Invariance, PTL

(* The root clients are attached to is never closed or replaced under them,   *)
(* nor under a turn that goes on.                                             *)
THEOREM AttachedRootIsNeverLost == Spec => []AttachedRootIsWhole
<1> SUFFICES ASSUME IInv PROVE AttachedRootIsWhole
  BY Invariance, PTL
<1> USE DEF IInv, Held
<1>1. /\ server.root \in Roots \cup {NoOne} /\ req.prev \in Roots \cup {NoOne}
      /\ run.of \in Roots \cup {NoOne}
  BY FieldTypes
<1>2. ASSUME server.attached
      PROVE  /\ server.root # NoOne /\ registry.root = server.root /\ Open(server.root)
             /\ \A s \in registry.kids : Open(s) /\ registry.parent[s] = server.root
  BY <1>2 DEF ServerHoldsItsRoot, ChildrenAreHeld
<1>3. ASSUME run # NoRun, ~run.cancelled PROVE run.of \in {server.root, closing.of}
  BY <1>3 DEF ReservedForOne, TurnIsOfALiveRoot
<1>4. ASSUME req.at = "replacing" PROVE run.of # closing.of
  <2>1. closing.of = req.prev /\ req.prev \in Roots
    BY <1>1, <1>4 DEF RequestHoldsItsRoots
  <2>2. reserved[req.prev] = "lifecycle"
    BY <2>1 DEF ReservedForOne
  <2>3. run.of # NoOne => reserved[run.of] # "lifecycle"
    BY DEF ReservedForOne
  <2> QED
    BY <2>1, <2>2, <2>3, NoOneAssumption
<1> QED
  BY <1>2, <1>3, <1>4 DEF AttachedRootIsWhole

(* A session/close that succeeded leaves no child open once the server is down*)
THEOREM ClosedSessionIsReleased == Spec => []SessionCloseReleases
<1> SUFFICES ASSUME IInv, stop = "done", bye.ok
             PROVE  /\ server.root = NoOne /\ registry.root = NoOne
                    /\ \A s \in Subs :
                          registry.parent[s] = bye.of => ~Open(s)
  BY Invariance, PTL DEF SessionCloseReleases
<1>1. server.root = NoOne /\ registry.root = NoOne
  BY DEF IInv, Held, StoppedStays, ServerHoldsItsRoot
<1>2. closing.left = {}
  BY DEF IInv, Held, LockHasItsHolder, ClosingIsOfAnOpenRoot, StoppedStays, CloseFollowsItsRoot, NoClosing
<1>3. ASSUME NEW s \in Subs, registry.parent[s] = bye.of PROVE ~Open(s)
  BY <1>2, <1>3 DEF IInv, Held, ChildrenAreHeld, StoppedStays
<1> QED
  BY <1>1, <1>3
=============================================================================
