--------------------------- MODULE RootLifecycle ---------------------------
(* The root session of an app server: opened, replaced, forked and closed,    *)
(* with the children its subagents run in.                                    *)
(*                                                                            *)
(* Four tasks interleave at awaits: one request that may change the root      *)
(* (start, resume, continue, fork: the attachment lock lets one through), a   *)
(* session/close, AppServer.close, and the turn of the root. The first three  *)
(* close runtimes under _lifecycle_lock; the turn creates children beside it. *)
(* A runtime counts as closed once all of its clean-up was attempted.         *)

CONSTANTS
    Roots,      \* agent loops that may become the root
    Subs,       \* agent loops of subagents
    NoOne

ASSUME NoOneAssumption == NoOne \notin Roots \cup Subs
ASSUME LoopsAssumption == Roots \cap Subs = {}

VARIABLES
    life,       \* of each loop: "unborn", "open" or "closed"
    server,     \* AppServer: root, is it attached, who holds the lock, _closed
    registry,   \* SessionRuntimeRegistry: _root, _children, their parents
    staged,     \* HarnessProcess._staged_roots
    reserved,   \* of each root: what its SessionExecution is busy with
    req,        \* the request that changes the root
    closing,    \* the close of a root runtime under way, by the lock's holder
    bye,        \* the session/close request
    stop,       \* AppServer.close
    run         \* the turn of the root and the subagent it waits for

vars == <<life, server, registry, staged, reserved, req, closing, bye, stop, run>>

NoReq == [kind |-> "none", at |-> "none", prev |-> NoOne, new |-> NoOne,
          cancelled |-> FALSE]
NoClosing == [at |-> "none", of |-> NoOne, left |-> {}, failed |-> FALSE]
NoRun == [at |-> "none", of |-> NoOne, sub |-> NoOne, cancelled |-> FALSE]

Init ==
    /\ life = [l \in Roots \cup Subs |-> "unborn"]
    /\ server = [root |-> NoOne, attached |-> FALSE, lock |-> "free", closed |-> FALSE]
    /\ registry = [root |-> NoOne, kids |-> {}, parent |-> [s \in Subs |-> NoOne]]
    /\ staged = {}
    /\ reserved = [r \in Roots |-> "free"]
    /\ req = NoReq
    /\ closing = NoClosing
    /\ bye = [at |-> "none", of |-> NoOne, ok |-> FALSE]
    /\ stop = "none"
    /\ run = NoRun

Open(l) == life[l] = "open"

(* Loops not built yet are alike: the next one is any of them.                *)
Unborn(S) == {l \in S : life[l] = "unborn"}
Fresh(S) == CHOOSE l \in Unborn(S) : TRUE

(* The connection is read until AppServer.close ends the serving task.        *)
Serving == stop = "none"

Shut(loops) == [l \in Roots \cup Subs |-> IF l \in loops THEN "closed" ELSE life[l]]

Freed(r, kind) ==
    IF r # NoOne /\ reserved[r] = kind THEN [reserved EXCEPT ![r] = "free"] ELSE reserved

(* --------------------------- closing a runtime ---------------------------- *)

(* _RootRuntime.close: released by the registry at once, then the handler,    *)
(* the children, the turn and the loop, whatever fails. Closing twice does    *)
(* nothing.                                                                   *)
BeginClose(r) ==
    /\ closing' = [NoClosing EXCEPT !.at = IF Open(r) THEN "handler" ELSE "closed",
                                    !.of = r]
    /\ registry' = [registry EXCEPT !.root = IF @ = r THEN NoOne ELSE @]

(* _close_children takes the children it finds.                               *)
TakeChildren ==
    /\ closing.at = "handler"
    /\ closing' = [closing EXCEPT !.at = "children", !.left = registry.kids]
    /\ registry' = [registry EXCEPT !.kids = {}]
    /\ UNCHANGED <<life, server, staged, reserved, req, bye, stop, run>>

CloseChild(s) ==
    /\ closing.at = "children" /\ s \in closing.left
    /\ life' = Shut({s})
    /\ \E bad \in BOOLEAN :
           closing' = [closing EXCEPT !.left = @ \ {s}, !.failed = @ \/ bad]
    /\ UNCHANGED <<server, registry, staged, reserved, req, bye, stop, run>>

(* SessionRuntime.close cancels the turn; for the registry alone this is all. *)
CancelTurn ==
    /\ closing.at = "children" /\ closing.left = {}
    /\ closing' = [closing EXCEPT !.at = IF closing.of = NoOne THEN "closed" ELSE "turn"]
    /\ run' = [run EXCEPT !.cancelled = @ \/ (run # NoRun /\ run.of = closing.of)]
    /\ UNCHANGED <<life, server, registry, staged, reserved, req, bye, stop>>

(* The turn has ended, or the wait for it is given up. A cancellation of the  *)
(* closing task is one of the failures, unless the loop's aclose swallows it. *)
CloseLoop ==
    /\ closing.at = "turn"
    /\ life' = Shut({closing.of})
    /\ \E bad \in BOOLEAN :
          /\ run.of = closing.of => bad
          /\ closing' = [closing EXCEPT !.at = "closed", !.failed = @ \/ bad]
    /\ reserved' = Freed(closing.of, "turn")
    /\ req' = [req EXCEPT !.cancelled = @ /\ server.lock # "request"]
    /\ UNCHANGED <<server, registry, staged, bye, stop, run>>

(* ------------------------- changing the root ------------------------------ *)

(* Without a root, start, resume and continue wait to open one.               *)
RequestOpen ==
    /\ Serving /\ req = NoReq /\ server.root = NoOne
    /\ req' = [NoReq EXCEPT !.kind = "open", !.at = "waiting"]
    /\ UNCHANGED <<life, server, registry, staged, reserved, closing, bye, stop, run>>

(* Resuming another session reserves the root it will replace.                *)
RequestReplace ==
    /\ Serving /\ req = NoReq /\ server.root # NoOne
    /\ reserved[server.root] = "free"
    /\ reserved' = [reserved EXCEPT ![server.root] = "lifecycle"]
    /\ req' = [NoReq EXCEPT !.kind = "replace", !.at = "waiting", !.prev = server.root]
    /\ UNCHANGED <<life, server, registry, staged, closing, bye, stop, run>>

(* A fork is built before the lock is asked for.                              *)
RequestFork(kind) ==
    /\ Serving /\ req = NoReq /\ server.attached
    /\ reserved[server.root] = "free" /\ Unborn(Roots) # {}
    /\ reserved' = [reserved EXCEPT ![server.root] = "lifecycle"]
    /\ req' = [kind |-> kind, at |-> "building", prev |-> server.root,
               new |-> Fresh(Roots), cancelled |-> FALSE]
    /\ life' = [life EXCEPT ![Fresh(Roots)] = "open"]
    /\ UNCHANGED <<server, registry, staged, closing, bye, stop, run>>

(* The request ends: what it reserved is free again, and what it locked.      *)
EndRequest ==
    /\ req' = NoReq
    /\ reserved' = Freed(req.prev, "lifecycle")

(* Mutant: the lock is not let go of.                                         *)
LockForgotten == server

Unlocked == [server EXCEPT !.lock = IF @ = "request" THEN "free" ELSE @]

(* _bind_root; then restore_children closes what the registry still holds.    *)
Bind(r) ==
    /\ server' = [server EXCEPT !.root = r, !.attached = FALSE, !.lock = "request"]
    /\ registry' = [registry EXCEPT !.root = r, !.kids = {}]
    /\ req' = [req EXCEPT !.at = "restoring", !.new = r]

(* An opener looks for a root again under the lock; the attachment lock kept  *)
(* others from opening one.                                                   *)
StartBuilding ==
    /\ req.at = "waiting" /\ server.lock = "free" /\ ~req.cancelled
    /\ req.kind = "open" => server.root = NoOne
    /\ Unborn(Roots) # {}
    /\ server' = [server EXCEPT !.lock = "request"]
    /\ req' = [req EXCEPT !.at = "building", !.new = Fresh(Roots)]
    /\ life' = [life EXCEPT ![Fresh(Roots)] = "open"]
    /\ UNCHANGED <<registry, staged, reserved, closing, bye, stop, run>>

(* A session forked before is claimed instead of built.                       *)
ClaimStaged(r) ==
    /\ req.kind = "open" /\ req.at = "waiting" /\ ~req.cancelled
    /\ server.lock = "free" /\ server.root = NoOne /\ registry.root = NoOne
    /\ r \in staged
    /\ staged' = staged \ {r}
    /\ Bind(r)
    /\ life' = Shut(registry.kids)
    /\ UNCHANGED <<reserved, closing, bye, stop, run>>

(* Building, or waiting, is cut short; a loop half built is closed. The       *)
(* saved session may also not be there at all.                                *)
BuildFails ==
    /\ \/ req.at = "building"
       \/ req.at = "waiting" /\ (req.cancelled \/ server.lock = "free")
    /\ life' = Shut({req.new})
    /\ EndRequest
    /\ server' = IF req.at = "building" THEN Unlocked ELSE server
    /\ UNCHANGED <<registry, staged, closing, bye, stop, run>>

(* _install_root: no root while the previous one closes.                      *)
Install(prev) ==
    /\ server' = [server EXCEPT !.root = NoOne, !.attached = FALSE, !.lock = "request"]
    /\ BeginClose(prev)
    /\ req' = [req EXCEPT !.at = "replacing"]
    /\ UNCHANGED <<life, staged, reserved>>

BuiltOpens ==
    /\ req.kind = "open" /\ req.at = "building" /\ ~req.cancelled
    /\ registry.root = NoOne
    /\ Bind(req.new)
    /\ life' = Shut(registry.kids)
    /\ UNCHANGED <<staged, reserved, closing, bye, stop, run>>

BuiltReplaces ==
    /\ req.kind = "replace" /\ req.at = "building" /\ ~req.cancelled
    /\ Install(req.prev)
    /\ UNCHANGED <<bye, stop, run>>

(* A fork that stays detached waits for a server that claims it.              *)
ForkIsStaged ==
    /\ req.kind = "fork" /\ req.at = "building" /\ ~req.cancelled
    /\ staged' = staged \cup {req.new}
    /\ EndRequest
    /\ UNCHANGED <<life, server, registry, closing, bye, stop, run>>

(* _adopt_root. The fork is nobody's while it waits: if there is no root to   *)
(* replace any more, or the wait is cancelled, no one closes it.              *)
Adopt ==
    /\ req.kind = "adopt" /\ req.at \in {"building", "adopting"} /\ ~req.cancelled
    /\ server.lock = "free" /\ server.root # NoOne
    /\ Install(server.root)
    /\ UNCHANGED <<bye, stop, run>>

AdoptWaits ==
    /\ req.kind = "adopt" /\ req.at = "building" /\ ~req.cancelled
    /\ server.lock # "free"
    /\ req' = [req EXCEPT !.at = "adopting"]
    /\ UNCHANGED <<life, server, registry, staged, reserved, closing, bye, stop, run>>

AdoptFails ==
    /\ req.kind = "adopt"
    /\ \/ req.at = "adopting" /\ req.cancelled
       \/ /\ req.at \in {"building", "adopting"} /\ ~req.cancelled
          /\ server.lock = "free" /\ server.root = NoOne
    /\ EndRequest
    /\ UNCHANGED <<life, server, registry, staged, closing, bye, stop, run>>

(* The previous root is closed: the new one takes its place, or is closed too.*)
Replaced ==
    /\ req.at = "replacing" /\ server.lock = "request" /\ closing.at = "closed"
    /\ closing' = NoClosing
    /\ IF closing.failed \/ registry.root # NoOne
       THEN /\ life' = Shut({req.new})
            /\ EndRequest
            /\ server' = Unlocked
            /\ UNCHANGED registry
       ELSE /\ Bind(req.new)
            /\ life' = Shut(registry.kids)
            /\ UNCHANGED reserved
    /\ UNCHANGED <<staged, bye, stop, run>>

(* restore_children resumes the saved children one by one.                    *)
RestoreChild ==
    /\ req.at = "restoring" /\ ~req.cancelled /\ Unborn(Subs) # {}
    /\ LET s == Fresh(Subs)
       IN  /\ life' = [life EXCEPT ![s] = "open"]
           /\ registry' = [registry EXCEPT !.kids = @ \cup {s},
                                           !.parent[s] = registry.root]
    /\ UNCHANGED <<server, staged, reserved, req, closing, bye, stop, run>>

(* Mutant: the new root is dropped, not closed.                               *)
RestoreFailsHalfWay ==
    /\ req.at = "restoring"
    /\ server' = [Unlocked EXCEPT !.root = NoOne]
    /\ registry' = [registry EXCEPT !.root = NoOne]
    /\ EndRequest
    /\ UNCHANGED <<life, staged, closing, bye, stop, run>>

RestoreFails ==
    /\ req.at = "restoring"
    /\ server' = [server EXCEPT !.root = NoOne]
    /\ BeginClose(req.new)
    /\ req' = [req EXCEPT !.at = "undoing"]
    /\ UNCHANGED <<life, staged, reserved, bye, stop, run>>

Undone ==
    /\ req.at = "undoing" /\ server.lock = "request" /\ closing.at = "closed"
    /\ closing' = NoClosing
    /\ EndRequest
    /\ server' = Unlocked
    /\ UNCHANGED <<life, registry, staged, bye, stop, run>>

Installed ==
    /\ req.at = "restoring" /\ ~req.cancelled
    /\ server' = [Unlocked EXCEPT !.attached = TRUE]
    /\ EndRequest
    /\ UNCHANGED <<life, registry, staged, closing, bye, stop, run>>

(* ------------------------- closing the server ----------------------------- *)

CancelledRequest == [req EXCEPT !.cancelled = req # NoReq]

(* A connection that breaks cancels its requests, if the server is to live.   *)
Disconnect ==
    /\ Serving /\ ~server.closed
    /\ req' = CancelledRequest
    /\ bye' = [bye EXCEPT !.at = "none"]
    /\ UNCHANGED <<life, server, registry, staged, reserved, closing, stop, run>>

SessionClose ==
    /\ Serving /\ bye.at = "none" /\ server.attached
    /\ reserved[server.root] # "lifecycle"
    /\ bye' = [bye EXCEPT !.at = "handler", !.of = server.root]
    /\ UNCHANGED <<life, server, registry, staged, reserved, req, closing, stop, run>>

(* _close_attached_runtime first cancels the other requests and waits; those  *)
(* that arrive while it waits are not cancelled.                              *)
StopRequests ==
    /\ bye.at = "handler"
    /\ bye' = [bye EXCEPT !.at = "stopping"]
    /\ server' = [server EXCEPT !.closed = TRUE]
    /\ req' = CancelledRequest
    /\ UNCHANGED <<life, registry, staged, reserved, closing, stop, run>>

(* Mutants: _lifecycle_lock is not waited for; only a root is closed.         *)
CloseRootWithoutLock(holder) ==
    /\ server' = [server EXCEPT !.root = NoOne, !.attached = FALSE, !.lock = holder]
    /\ IF server.root # NoOne
       THEN BeginClose(server.root)
       ELSE /\ closing' = [NoClosing EXCEPT !.at = "handler"]
            /\ UNCHANGED registry
    /\ UNCHANGED <<life, staged, reserved, req, run>>

CloseRootOnly(holder) ==
    /\ server.lock = "free"
    /\ server' = [server EXCEPT !.root = NoOne, !.attached = FALSE, !.lock = holder]
    /\ IF server.root # NoOne
       THEN BeginClose(server.root)
       ELSE /\ closing' = [NoClosing EXCEPT !.at = "closed"]
            /\ UNCHANGED registry
    /\ UNCHANGED <<life, staged, reserved, req, run>>

(* _close_root: the root, or with none the children left in the registry.     *)
CloseRoot(holder) ==
    /\ server.lock = "free"
    /\ server' = [server EXCEPT !.root = NoOne, !.attached = FALSE, !.lock = holder]
    /\ IF server.root # NoOne
       THEN BeginClose(server.root)
       ELSE /\ closing' = [NoClosing EXCEPT !.at = "handler"]
            /\ UNCHANGED registry
    /\ UNCHANGED <<life, staged, reserved, req, run>>

CloseForRequest ==
    /\ bye.at = "stopping"
    /\ CloseRoot("bye")
    /\ bye' = [bye EXCEPT !.at = "closing"]
    /\ UNCHANGED stop

(* AppServer.close: by the session/close that is answered, at the end of the  *)
(* connection, or by the host. It cancels every request, session/close too;   *)
(* one that is closing the root collects the cancellation and goes on.        *)
Stopping ==
    /\ stop' = IF Serving THEN "stopping" ELSE stop
    /\ req' = IF Serving THEN CancelledRequest ELSE req

ClosedForRequest ==
    /\ bye.at = "closing" /\ server.lock = "bye" /\ closing.at = "closed"
    /\ bye' = [bye EXCEPT !.at = "replying", !.ok = ~closing.failed]
    /\ closing' = NoClosing
    /\ server' = [server EXCEPT !.lock = "free"]
    /\ UNCHANGED <<life, registry, staged, reserved, req, stop, run>>

(* The answer is sent; until then requests are still read.                    *)
Replied ==
    /\ bye.at = "replying"
    /\ bye' = [bye EXCEPT !.at = "done"]
    /\ Stopping
    /\ UNCHANGED <<life, server, registry, staged, reserved, closing, run>>

Shutdown ==
    /\ Serving
    /\ Stopping
    /\ server' = [server EXCEPT !.closed = TRUE]
    /\ bye' = [bye EXCEPT !.at = IF @ \in {"handler", "stopping", "replying"} THEN "done" ELSE @]
    /\ UNCHANGED <<life, registry, staged, reserved, closing, run>>

CloseForShutdown ==
    /\ stop = "stopping"
    /\ CloseRoot("stop")
    /\ stop' = "closing"
    /\ UNCHANGED bye

ShutdownDone ==
    /\ stop = "closing" /\ server.lock = "stop" /\ closing.at = "closed"
    /\ stop' = "done"
    /\ closing' = NoClosing
    /\ server' = [server EXCEPT !.lock = "free"]
    /\ UNCHANGED <<life, registry, staged, reserved, req, bye, run>>

(* ------------------------ a turn and its subagents ------------------------ *)

(* Mutant: the turn does not reserve the session.                             *)
StartTurnUnreserved ==
    /\ Serving /\ run = NoRun /\ server.attached
    /\ run' = [NoRun EXCEPT !.at = "running", !.of = server.root]
    /\ UNCHANGED <<life, server, registry, staged, reserved, req, closing, bye, stop>>

StartTurn ==
    /\ Serving /\ run = NoRun /\ server.attached /\ reserved[server.root] = "free"
    /\ run' = [NoRun EXCEPT !.at = "running", !.of = server.root]
    /\ reserved' = [reserved EXCEPT ![server.root] = "turn"]
    /\ UNCHANGED <<life, server, registry, staged, req, closing, bye, stop>>

Interrupt ==
    /\ Serving /\ run # NoRun
    /\ run' = [run EXCEPT !.cancelled = TRUE]
    /\ UNCHANGED <<life, server, registry, staged, reserved, req, closing, bye, stop>>

(* SessionRuntimeRegistry.run looks its parent up, then builds the child.     *)
CreateChild ==
    /\ run.at = "running" /\ ~run.cancelled /\ registry.root = run.of
    /\ run' = [run EXCEPT !.at = "creating"]
    /\ UNCHANGED <<life, server, registry, staged, reserved, req, closing, bye, stop>>

RegisterChild ==
    /\ run.at = "creating" /\ ~run.cancelled /\ Unborn(Subs) # {}
    /\ LET s == Fresh(Subs)
       IN  /\ life' = [life EXCEPT ![s] = "open"]
           /\ registry' = [registry EXCEPT !.kids = @ \cup {s}, !.parent[s] = run.of]
           /\ run' = [run EXCEPT !.at = "linking", !.sub = s]
    /\ UNCHANGED <<server, staged, reserved, req, closing, bye, stop>>

(* The child is saved and linked; its turn runs, on a loop closed or not.     *)
LinkChild ==
    /\ run.at = "linking" /\ ~run.cancelled
    /\ run' = [run EXCEPT !.at = "child"]
    /\ UNCHANGED <<life, server, registry, staged, reserved, req, closing, bye, stop>>

LinkFails ==
    /\ run.at = "linking"
    /\ life' = Shut({run.sub})
    /\ registry' = [registry EXCEPT !.kids = @ \ {run.sub}]
    /\ run' = [run EXCEPT !.at = "running", !.sub = NoOne]
    /\ UNCHANGED <<server, staged, reserved, req, closing, bye, stop>>

(* The child's turn ends; a cancelled tool interrupts it and waits for that.  *)
ChildEnds ==
    /\ run.at = "child"
    /\ run' = [run EXCEPT !.at = "running", !.sub = NoOne]
    /\ UNCHANGED <<life, server, registry, staged, reserved, req, closing, bye, stop>>

TurnEnds ==
    /\ run.at = "running" \/ run.at = "creating"
    /\ run' = NoRun
    /\ reserved' = Freed(run.of, "turn")
    /\ UNCHANGED <<life, server, registry, staged, req, closing, bye, stop>>

Closes == TakeChildren \/ (\E s \in Subs : CloseChild(s)) \/ CancelTurn \/ CloseLoop

Builds ==
    \/ StartBuilding \/ (\E r \in Roots : ClaimStaged(r)) \/ BuildFails
    \/ BuiltOpens \/ BuiltReplaces \/ ForkIsStaged \/ Adopt \/ AdoptWaits \/ AdoptFails
    \/ Replaced \/ RestoreFails \/ Undone \/ Installed

Shuts ==
    \/ StopRequests \/ CloseForRequest \/ ClosedForRequest \/ Replied
    \/ CloseForShutdown \/ ShutdownDone

Next ==
    \/ RequestOpen \/ RequestReplace
    \/ \E kind \in {"adopt", "fork"} : RequestFork(kind)
    \/ Builds \/ RestoreChild \/ Closes \/ Shuts
    \/ Disconnect \/ SessionClose \/ Shutdown
    \/ StartTurn \/ Interrupt \/ CreateChild \/ RegisterChild \/ LinkChild
    \/ LinkFails \/ ChildEnds \/ TurnEnds

(* A task that is not blocked goes on: a build, a close, a shutdown. Nobody   *)
(* need send a request, and a turn need not end.                              *)
Spec == Init /\ [][Next]_vars /\ WF_vars(Builds) /\ WF_vars(Closes) /\ WF_vars(Shuts)

(* ------------------------------ properties -------------------------------- *)

Loops == Roots \cup Subs
LifeStates == [Loops -> {"unborn", "open", "closed"}]
ServerStates == [root : Roots \cup {NoOne}, attached : BOOLEAN,
                 lock : {"free", "request", "bye", "stop"}, closed : BOOLEAN]
RegistryStates == [root : Roots \cup {NoOne}, kids : SUBSET Subs,
                   parent : [Subs -> Roots \cup {NoOne}]]
Reservations == [Roots -> {"free", "turn", "lifecycle"}]
RequestStates == [kind : {"none", "open", "replace", "adopt", "fork"},
                  at : {"none", "waiting", "building", "adopting", "replacing",
                        "restoring", "undoing"},
                  prev : Roots \cup {NoOne}, new : Roots \cup {NoOne},
                  cancelled : BOOLEAN]
ClosingStates == [at : {"none", "handler", "children", "turn", "closed"},
                  of : Roots \cup {NoOne}, left : SUBSET Subs, failed : BOOLEAN]
ByeStates == [at : {"none", "handler", "stopping", "closing", "replying", "done"},
              of : Roots \cup {NoOne}, ok : BOOLEAN]
RunStates == [at : {"none", "running", "creating", "linking", "child"},
              of : Roots \cup {NoOne}, sub : Subs \cup {NoOne}, cancelled : BOOLEAN]

Shape ==
    /\ life \in LifeStates
    /\ server \in ServerStates
    /\ registry \in RegistryStates
    /\ staged \subseteq Roots
    /\ reserved \in Reservations
    /\ req \in RequestStates
    /\ closing \in ClosingStates
    /\ bye \in ByeStates
    /\ stop \in {"none", "stopping", "closing", "done"}
    /\ run \in RunStates

(* The shape of the state; the lock is held by a task that closes or changes  *)
(* the root, and a close of a runtime by the holder of the lock.              *)
TypeOK ==
    /\ Shape
    /\ server.lock = "bye" => bye.at = "closing"
    /\ server.lock = "stop" => stop = "closing"
    /\ server.lock = "request" =>
           req.at \in {"building", "replacing", "restoring", "undoing"}
    /\ closing.at # "none" => server.lock # "free"

Owned(r) ==
    \/ r = server.root \/ r = req.new \/ r \in staged
    \/ r = closing.of /\ closing.at # "closed"

(* No runtime is dropped open: each root is the server's, staged, held by the *)
(* request that builds it or being closed, each child is registered or being  *)
(* closed. Only a server that closes may drop a fork.                         *)
EveryRuntimeIsOwned ==
    /\ \A r \in Roots : Open(r) => Owned(r) \/ server.closed
    /\ \A s \in Subs : Open(s) => s \in registry.kids \cup closing.left

(* The root clients are attached to is the registry's, open, with its own     *)
(* children only; a turn that goes on is its turn; and a root is never        *)
(* replaced under a turn.                                                     *)
AttachedRootIsWhole ==
    /\ server.attached =>
           /\ server.root # NoOne
           /\ registry.root = server.root
           /\ Open(server.root)
           /\ \A s \in registry.kids : Open(s) /\ registry.parent[s] = server.root
    /\ run # NoRun /\ ~run.cancelled => run.of \in {server.root, closing.of}
    /\ req.at = "replacing" => run.of # closing.of

(* Once the server has shut down after a session/close that succeeded, no     *)
(* child of that session is open, not even one its turn was creating.         *)
SessionCloseReleases ==
    stop = "done" /\ bye.ok =>
        /\ server.root = NoOne /\ registry.root = NoOne
        /\ \A s \in Subs : registry.parent[s] = bye.of => ~Open(s)

(* A server that begins to close gets closed, whatever holds its lock.        *)
CloseEnds == server.closed ~> stop = "done"
=============================================================================
