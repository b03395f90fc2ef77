--------------------------- MODULE HistoryMirror ---------------------------
(***************************************************************************)
(* What the event stream promises the client of a session: a copy of the   *)
(* public history that may lag and skip revisions, but shows nothing the   *)
(* server has not reached and never goes back, on whatever connection; and *)
(* the server's own history only moves on.  An entry is final once it has  *)
(* its last revision, in the history and so in the copy.                   *)
(***************************************************************************)
EXTENDS Naturals

CONSTANTS Entries, Final

VARIABLES
  history, \* the revision of every entry on the server
  view     \* the one the client shows

mirrorVars == <<history, view>>

Revisions == 0..Final

Init ==
  /\ history = [e \in Entries |-> 0]
  /\ view = [e \in Entries |-> 0]

\* The projectors change entries, several in one step.
Publish ==
  /\ history' \in [Entries -> Revisions]
  /\ \A e \in Entries : history[e] <= history'[e]
  /\ UNCHANGED view

\* An event or a snapshot reaches the view, of entries as they were at any time
\* since.
Show ==
  /\ view' \in [Entries -> Revisions]
  /\ \A e \in Entries : view[e] <= view'[e] /\ view'[e] <= history[e]
  /\ UNCHANGED history

Next == Publish \/ Show

Spec == Init /\ [][Next]_mirrorVars

=============================================================================
