-------------------------- MODULE CallbackContract --------------------------
(***************************************************************************)
(* What the app server promises about approvals and user questions: a tool *)
(* asks, a client sees the callback open, and the tool proceeds only on    *)
(* the answer the public history shows, once and for good.                 *)
(***************************************************************************)
CONSTANTS Callbacks, Answers

VARIABLES
  shown,   \* the callback in the public history
  verdict  \* what the tool that asked was told

contractVars == <<shown, verdict>>

Shown    == {"absent", "open", "cancelled"} \cup Answers
Verdicts == {"none", "waiting", "rejected", "cancelled"} \cup Answers

Init ==
  /\ shown = [c \in Callbacks |-> "absent"]
  /\ verdict = [c \in Callbacks |-> "none"]

\* A tool asks for an approval or for the user's input.
Ask(c) ==
  /\ verdict[c] = "none"
  /\ verdict' = [verdict EXCEPT ![c] = "waiting"]
  /\ UNCHANGED shown

\* The callback appears in the history.
Open(c) ==
  /\ shown[c] = "absent"
  /\ verdict[c] = "waiting"
  /\ shown' = [shown EXCEPT ![c] = "open"]
  /\ UNCHANGED verdict

\* A client answers an open callback; what it shows is then frozen.
Answer(c, a) ==
  /\ shown[c] = "open"
  /\ shown' = [shown EXCEPT ![c] = a]
  /\ UNCHANGED verdict

\* The tool goes on with the answer the history shows.
Decide(c, a) ==
  /\ verdict[c] = "waiting"
  /\ shown[c] = a
  /\ verdict' = [verdict EXCEPT ![c] = a]
  /\ UNCHANGED shown

\* Tools that cannot get an answer any more are told so.
Refuse ==
  /\ \A c \in Callbacks :
       \/ verdict'[c] = verdict[c]
       \/ verdict[c] = "waiting" /\ verdict'[c] \in {"rejected", "cancelled"}
  /\ verdict' \in [Callbacks -> Verdicts]
  /\ UNCHANGED shown

\* A turn ends, and what is still open is shown cancelled.
Cancel ==
  /\ \A c \in Callbacks :
       \/ shown'[c] = shown[c]
       \/ shown[c] = "open" /\ shown'[c] = "cancelled"
  /\ shown' \in [Callbacks -> Shown]
  /\ UNCHANGED verdict

Next ==
  \/ \E c \in Callbacks :
       \/ Ask(c) \/ Open(c)
       \/ \E a \in Answers : Answer(c, a) \/ Decide(c, a)
  \/ Refuse
  \/ Cancel

Spec == Init /\ [][Next]_contractVars

=============================================================================
