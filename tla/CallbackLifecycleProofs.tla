----------------------- MODULE CallbackLifecycleProofs -----------------------
(***************************************************************************)
(* For any callbacks, requests, answers and bounds: the detailed callback  *)
(* lifecycle implements CallbackContract, one answer is accepted, and a    *)
(* client that attaches is asked what the turn waits for.                  *)
(*                                                                         *)
(* The two facts meet in an answer's way from a request to the tool: it is *)
(* shown before it is in the record, and in the record before the turn's   *)
(* task takes it.  The invariant says what agrees at each of those points, *)
(* for callbacks the current turn projects; those of older turns may have  *)
(* answers nobody takes any more.                                          *)
(***************************************************************************)
EXTENDS CallbackLifecycle, TLAPS

RequestStates ==
  [at : {"idle", "locking", "emitting", "reporting", "replying"},
   cb : Callbacks \cup {None}, out : {"none"} \cup Answers, done : BOOLEAN]

Types ==
  /\ turn \in {"none", "unwinding"} \cup InTheLoop \cup Ending
  /\ current \in Callbacks \cup {None}
  /\ projected \subseteq Callbacks
  /\ entry \in [Callbacks -> {"absent", "open", "cancelled"} \cup Answers]
  /\ future \in [Callbacks -> {"none", "pending", "rejected", "cancelled"} \cup Answers]
  /\ output \in [Callbacks -> {"none"} \cup Answers]
  /\ tool \in [Callbacks -> {"none", "waiting", "rejected", "cancelled"} \cup Answers]
  /\ req \in [Requests -> RequestStates]
  /\ accepted \subseteq Callbacks \X Answers

\* An entry is added together with its record, and only a callback with a
\* record is projected or answered.
EntryHasRecord   == \A c \in Callbacks : ~HasRecord(c) => entry[c] = "absent"
ProjectedRecords == \A c \in projected : HasRecord(c)
RequestedRecords ==
  \A r \in Requests :
    req[r].at # "idle" => /\ req[r].cb \in Callbacks
                          /\ req[r].out \in Answers
                          /\ HasRecord(req[r].cb)

\* The task handles a callback it projects.
HandledIsProjected == turn \in Handling => current \in projected

\* What is shown, what the requests hold and what the record resolved to.
HeldAnswerIsShown ==
  \A r \in Requests :
    req[r].at \in {"emitting", "reporting"} /\ req[r].cb \in projected
      => entry[req[r].cb] = req[r].out
FutureIsShown  == \A c \in projected : future[c] \in Answers => entry[c] = future[c]
SavedIsSettled == turn = "saving" => future[current] \in Answers

\* The lock: one holder, for a record without an output.
LockHasOneHolder ==
  \A r, q \in Requests, c \in Callbacks : Holds(r, c) /\ Holds(q, c) => r = q
HolderHasNoOutput ==
  \A r \in Requests : \A c \in Callbacks : Holds(r, c) => output[c] = "none"
AcceptedIsOutput == \A p \in accepted : output[p[1]] = p[2]

LoopIsActive == turn \notin {"none", "idling"} => active

IInv ==
  /\ Types
  /\ EntryHasRecord /\ ProjectedRecords /\ RequestedRecords
  /\ HandledIsProjected
  /\ HeldAnswerIsShown /\ FutureIsShown /\ SavedIsSettled
  /\ LockHasOneHolder /\ HolderHasNoOutput /\ AcceptedIsOutput
  /\ LoopIsActive /\ IdleOnceInactive

-----------------------------------------------------------------------------
\* The initial state satisfies the inductive invariant.
THEOREM InitIsInductive == Init => IInv
BY NoneAssumption, AnswerAssumption
   DEF Init, IInv, Types, EntryHasRecord, ProjectedRecords, RequestedRecords,
       HandledIsProjected, HeldAnswerIsShown, FutureIsShown, SavedIsSettled,
       LockHasOneHolder, HolderHasNoOutput, AcceptedIsOutput, LoopIsActive,
       IdleOnceInactive, HasRecord, Holds, NoRequest, Handling, InTheLoop, Ending,
       RequestStates

\* One request moves on, and keeps what it answered.
MovesToReply(r) ==
  /\ req' \in [Requests -> RequestStates]
  /\ \A q \in Requests \ {r} : req'[q] = req[q]
  /\ req'[r].at = "replying" /\ req'[r].cb = req[r].cb /\ req'[r].out = req[r].out

\* Replying changes where the request is, and nothing of other requests.
LEMMA ReplyMovesOneRequest ==
  ASSUME Types, NEW r \in Requests, NEW ok \in BOOLEAN, Reply(r, ok)
  PROVE  MovesToReply(r)
<1> DEFINE at == [req EXCEPT ![r].at = "replying"]
<1>1. req \in [Requests -> RequestStates]
  BY DEF Types
<1>2. /\ at \in [Requests -> RequestStates]
      /\ \A q \in Requests \ {r} : at[q] = req[q]
      /\ at[r].at = "replying" /\ at[r].cb = req[r].cb /\ at[r].out = req[r].out
  BY <1>1 DEF RequestStates
<1>3. req' = [at EXCEPT ![r].done = ok]
  BY <1>1, Zenon DEF Reply
<1> HIDE DEF at
<1>4. req' \in [Requests -> RequestStates]
  BY <1>2, <1>3 DEF RequestStates
<1>5. /\ \A q \in Requests \ {r} : req'[q] = at[q]
      /\ req'[r].at = at[r].at /\ req'[r].cb = at[r].cb /\ req'[r].out = at[r].out
  BY <1>2, <1>3 DEF RequestStates
<1> QED
  BY <1>2, <1>4, <1>5 DEF MovesToReply

\* A duplicate answer, or a conflicting one, only replies.
LEMMA AnsweringAgainOnlyReplies ==
  ASSUME Types, NEW r \in Requests, AnswerAgain(r)
  PROVE  /\ MovesToReply(r) /\ req[r].at = "locking"
         /\ UNCHANGED <<turnVars, recordVars, connVars, sentVars, accepted>>
<1> DEFINE same == output[req[r].cb] = req[r].out
<1>1. /\ req[r].at = "locking" /\ Reply(r, same)
      /\ UNCHANGED <<turnVars, recordVars, connVars, sentVars, accepted>>
  BY Zenon DEF AnswerAgain
<1>2. same \in BOOLEAN
  OBVIOUS
<1> HIDE DEF same
<1> QED
  BY <1>1, <1>2, ReplyMovesOneRequest, Zenon

\* Every step of the turn's task, of a request, of a client or of the
\* connection preserves the inductive invariant.
THEOREM NextIsInductive == IInv /\ [Next]_vars => IInv'
<1> SUFFICES ASSUME IInv, [Next]_vars PROVE IInv'
  OBVIOUS
<1> USE NoneAssumption, AnswerAssumption
<1> USE DEF IInv, Types, EntryHasRecord, ProjectedRecords, RequestedRecords,
            HandledIsProjected, HeldAnswerIsShown, FutureIsShown, SavedIsSettled,
            LockHasOneHolder, HolderHasNoOutput, AcceptedIsOutput, LoopIsActive,
            IdleOnceInactive, HasRecord, Holds, NoRequest, Handling, InTheLoop,
            Ending, RequestStates, vars, turnVars, recordVars, connVars, sentVars
<1>1. ASSUME StartTurn
      PROVE  IInv'
  BY <1>1, SMTT(20) DEF StartTurn
<1>2. ASSUME NEW c \in Callbacks, AskApproval(c)
      PROVE  IInv'
  BY <1>2, SMTT(20) DEF AskApproval, Set
<1>3. ASSUME NEW c \in Callbacks, OpenCallback(c)
      PROVE  IInv'
  BY <1>3, SMTT(20) DEF OpenCallback, Set
<1>4. ASSUME EmitBlocked
      PROVE  IInv'
  BY <1>4, SMTT(20) DEF EmitBlocked
<1>5. ASSUME DeliverCallback
      PROVE  IInv'
  BY <1>5, SMTT(20) DEF DeliverCallback, Send
<1>6. ASSUME CallbackSent
      PROVE  IInv'
  BY <1>6, SMTT(20) DEF CallbackSent
<1>7. ASSUME DeliveryUnsupported
      PROVE  IInv'
  BY <1>7, SMTT(20) DEF DeliveryUnsupported, FailTurn, Unwind, Settle
<1>8. ASSUME TakeAnswer
      PROVE  IInv'
  BY <1>8, SMTT(20) DEF TakeAnswer, ResolveCore, Settle
<1>9. ASSUME AnswerSaved
      PROVE  IInv'
  BY <1>9, SMTT(20) DEF AnswerSaved, ResolveCore, Settle
<1>10. ASSUME SavingFails
      PROVE  IInv'
  BY <1>10, SMTT(20) DEF SavingFails, FailTurn, Unwind, Settle
<1>11. ASSUME TakeRejection
      PROVE  IInv'
  BY <1>11, SMTT(20) DEF TakeRejection, Unwind
<1>12. ASSUME LeaveLoop
      PROVE  IInv'
  BY <1>12, SMTT(20) DEF LeaveLoop, Unwind
<1>13. ASSUME Interrupt
      PROVE  IInv'
  BY <1>13, SMTT(20) DEF Interrupt, Settle
<1>14. ASSUME CancelInLoop
      PROVE  IInv'
  BY <1>14, SMTT(20) DEF CancelInLoop, Unwind
<1>15. ASSUME CloseEntries
      PROVE  IInv'
  BY <1>15, SMTT(20) DEF CloseEntries, Open
<1>16. ASSUME CancelWhileEnding
      PROVE  IInv'
  BY <1>16, SMTT(20) DEF CancelWhileEnding
<1>17. ASSUME CancelCallbacks
      PROVE  IInv'
  BY <1>17, SMTT(20) DEF CancelCallbacks, RejectRecords, Settle
<1>18. ASSUME GoIdle
      PROVE  IInv'
  BY <1>18, SMTT(20) DEF GoIdle
<1>19. ASSUME EndTurn
      PROVE  IInv'
  BY <1>19, SMTT(20) DEF EndTurn
<1>20. ASSUME NEW r \in Requests, NEW c \in Callbacks, NEW a \in Answers, Respond(r, c, a)
      PROVE  IInv'
  BY <1>20, SMTT(20) DEF Respond, Set
<1>21. ASSUME NEW r \in Requests, AnswerAgain(r)
      PROVE  IInv'
  <2>1. /\ MovesToReply(r) /\ req[r].at = "locking"
        /\ UNCHANGED <<turnVars, recordVars, connVars, sentVars, accepted>>
    BY <1>21, AnsweringAgainOnlyReplies, Zenon
  <2> USE <2>1 DEF MovesToReply
  <2>2. Types'
    OBVIOUS
  <2>3. (EntryHasRecord /\ ProjectedRecords /\ HandledIsProjected
         /\ FutureIsShown /\ SavedIsSettled /\ AcceptedIsOutput)'
    OBVIOUS
  <2>4. (RequestedRecords /\ HeldAnswerIsShown)'
    OBVIOUS
  <2>5. (LockHasOneHolder /\ HolderHasNoOutput)'
    OBVIOUS
  <2> QED
    BY <2>2, <2>3, <2>4, <2>5
<1>22. ASSUME NEW r \in Requests, PatchAnswer(r)
      PROVE  IInv'
  BY <1>22, SMTT(20) DEF PatchAnswer, Set, Move, LockFree
<1>23. ASSUME NEW r \in Requests, AnswerFrozen(r)
      PROVE  IInv'
  <2>1. MovesToReply(r)
    BY <1>23, ReplyMovesOneRequest, Zenon DEF AnswerFrozen
  <2> QED
    BY <1>23, <2>1, SMTT(20) DEF AnswerFrozen, MovesToReply
<1>24. ASSUME NEW r \in Requests, EmitRunning(r)
      PROVE  IInv'
  BY <1>24, SMTT(20) DEF EmitRunning, Unprojected, EmitsStatus, Move, LockFree
<1>25. ASSUME NEW r \in Requests, AcceptInactive(r)
      PROVE  IInv'
  <2> DEFINE c == req[r].cb
  <2>1. /\ c \in Callbacks /\ HasRecord(c)
        /\ req[r].out \in Answers /\ output[c] = "none"
        /\ \A q \in Requests \ {r} : ~Holds(q, c)
    BY <1>25 DEF AcceptInactive, Unprojected, LockFree
  <2>2. MovesToReply(r)
    BY <1>25, ReplyMovesOneRequest, Zenon DEF AcceptInactive, Accept
  <2>3. /\ UNCHANGED <<turnVars, entry, coreResolved, tool>>
        /\ output' = [output EXCEPT ![c] = req[r].out]
        /\ future' = [d \in Callbacks |->
                        IF d = c /\ future[d] = "pending" THEN req[r].out ELSE future[d]]
        /\ accepted' = accepted \cup {<<c, req[r].out>>}
    BY <1>25 DEF AcceptInactive, Accept, Set, Settle
  <2>4. c \in projected => entry[c] = req[r].out
    BY <1>25 DEF AcceptInactive, Unprojected, LockFree
  <2> HIDE DEF c
  <2>5. c = req[r].cb
    BY DEF c
  <2> USE <2>1, <2>2, <2>3, <2>4, <2>5 DEF MovesToReply
  <2>6. Types'
    OBVIOUS
  <2>7. (EntryHasRecord /\ ProjectedRecords /\ HandledIsProjected)'
    OBVIOUS
  <2>8. RequestedRecords'
    OBVIOUS
  <2>9. HeldAnswerIsShown'
    OBVIOUS
  <2>10. (FutureIsShown /\ SavedIsSettled)'
    OBVIOUS
  <2>11. LockHasOneHolder'
    OBVIOUS
  <2>12. HolderHasNoOutput'
    OBVIOUS
  <2>13. AcceptedIsOutput'
    OBVIOUS
  <2> QED
    BY <2>6, <2>7, <2>8, <2>9, <2>10, <2>11, <2>12, <2>13
<1>26. ASSUME NEW r \in Requests, AcceptAnswer(r)
      PROVE  IInv'
  <2> DEFINE c == req[r].cb
  <2>1. /\ c \in Callbacks /\ HasRecord(c)
        /\ req[r].out \in Answers /\ output[c] = "none"
        /\ \A q \in Requests \ {r} : ~Holds(q, c)
    BY <1>26 DEF AcceptAnswer
  <2>2. MovesToReply(r)
    BY <1>26, ReplyMovesOneRequest, Zenon DEF AcceptAnswer, Accept
  <2>3. /\ UNCHANGED <<turnVars, entry, coreResolved, tool>>
        /\ output' = [output EXCEPT ![c] = req[r].out]
        /\ future' = [d \in Callbacks |->
                        IF d = c /\ future[d] = "pending" THEN req[r].out ELSE future[d]]
        /\ accepted' = accepted \cup {<<c, req[r].out>>}
    BY <1>26 DEF AcceptAnswer, Accept, Set, Settle
  <2>4. c \in projected => entry[c] = req[r].out
    BY <1>26 DEF AcceptAnswer
  <2> HIDE DEF c
  <2>5. c = req[r].cb
    BY DEF c
  <2> USE <2>1, <2>2, <2>3, <2>4, <2>5 DEF MovesToReply
  <2>6. Types'
    OBVIOUS
  <2>7. (EntryHasRecord /\ ProjectedRecords /\ HandledIsProjected)'
    OBVIOUS
  <2>8. RequestedRecords'
    OBVIOUS
  <2>9. HeldAnswerIsShown'
    OBVIOUS
  <2>10. (FutureIsShown /\ SavedIsSettled)'
    OBVIOUS
  <2>11. LockHasOneHolder'
    OBVIOUS
  <2>12. HolderHasNoOutput'
    OBVIOUS
  <2>13. AcceptedIsOutput'
    OBVIOUS
  <2> QED
    BY <2>6, <2>7, <2>8, <2>9, <2>10, <2>11, <2>12, <2>13
<1>27. ASSUME NEW r \in Requests, Replied(r)
      PROVE  IInv'
  BY <1>27, SMTT(20) DEF Replied, Set
<1>28. ASSUME NEW c \in Callbacks, Acknowledge(c)
      PROVE  IInv'
  BY <1>28, SMTT(20) DEF Acknowledge
<1>29. ASSUME NEW c \in Callbacks, RefuseDelivery(c)
      PROVE  IInv'
  BY <1>29, SMTT(20) DEF RefuseDelivery, RejectRecords, Settle
<1>30. ASSUME NEW s \in BOOLEAN, BeginAttachment(s)
      PROVE  IInv'
  BY <1>30, SMTT(20) DEF BeginAttachment
<1>31. ASSUME ResumeAccepted
      PROVE  IInv'
  BY <1>31, SMTT(20) DEF ResumeAccepted
<1>32. ASSUME ResumeFails
      PROVE  IInv'
  BY <1>32, SMTT(20) DEF ResumeFails
<1>33. ASSUME Attached
      PROVE  IInv'
  BY <1>33, SMTT(20) DEF Attached
<1>34. ASSUME NEW c \in Callbacks, Redeliver(c)
      PROVE  IInv'
  BY <1>34, SMTT(20) DEF Redeliver, Send
<1>35. ASSUME Detach
      PROVE  IInv'
  BY <1>35, SMTT(20) DEF Detach
<1>36. CASE UNCHANGED vars
  BY <1>36
<1> QED
  BY <1>1, <1>2, <1>3, <1>4, <1>5, <1>6, <1>7, <1>8, <1>9, <1>10, <1>11,
     <1>12, <1>13, <1>14, <1>15, <1>16, <1>17, <1>18, <1>19, <1>20, <1>21,
     <1>22, <1>23, <1>24, <1>25, <1>26, <1>27, <1>28, <1>29, <1>30, <1>31,
     <1>32, <1>33, <1>34, <1>35, <1>36 DEF Next, TurnStep, AttachStep,
     RequestStep

\* Every reachable state satisfies the inductive invariant.
THEOREM Invariance == Spec => []IInv
BY InitIsInductive, NextIsInductive, PTL DEF Spec

-----------------------------------------------------------------------------
\* Of all the answers clients give to a callback, one is accepted at most
\* (answer_callback).
THEOREM OneAnswer == Spec => []OneAnswerIsAccepted
<1>1. IInv => OneAnswerIsAccepted
  BY DEF IInv, Types, AcceptedIsOutput, OneAnswerIsAccepted
<1> QED
  BY <1>1, Invariance, PTL

\* A late answer does not bring the running status back (_emit_status).
THEOREM IdleStaysIdle == Spec => []IdleOnceInactive
<1>1. IInv => IdleOnceInactive
  BY DEF IInv
<1> QED
  BY <1>1, Invariance, PTL

-----------------------------------------------------------------------------
\* A step that only tells waiting tools that there is no answer refuses.
LEMMA OnlyRefuses ==
  ASSUME Types', UNCHANGED entry,
         \A c \in Callbacks :
           \/ tool'[c] = tool[c]
           \/ tool[c] = "waiting" /\ tool'[c] \in {"rejected", "cancelled"}
  PROVE  Contract!Refuse
BY DEF Types, Contract!Refuse, Contract!Verdicts

\* A tool that still waits proceeds on the answer the history shows.
LEMMA ResolvingDecides ==
  ASSUME Types, NEW c \in Callbacks, NEW a \in Answers, entry[c] = a,
         ResolveCore(c, a)
  PROVE  [Contract!Next]_(Contract!contractVars)
<1> USE DEF Types, ResolveCore, Settle
<1>1. CASE tool[c] = "waiting"
  <2>1. tool' = [tool EXCEPT ![c] = a]
    BY <1>1
  <2>2. Contract!Decide(c, a)
    BY <1>1, <2>1 DEF Contract!Decide
  <2> QED
    BY <2>2 DEF Contract!Next
<1>2. CASE tool[c] # "waiting"
  <2>1. tool' = tool
    BY <1>2
  <2> QED
    BY <2>1 DEF Contract!contractVars
<1> QED
  BY <1>1, <1>2

\* Every step of the lifecycle is a step of the contract, or changes neither
\* what the history shows nor what a tool was told.
THEOREM StepImplementsContract ==
  IInv /\ [Next]_vars => [Contract!Next]_(Contract!contractVars)
<1> SUFFICES ASSUME IInv, [Next]_vars
             PROVE  [Contract!Next]_(Contract!contractVars)
  OBVIOUS
<1>0. Types /\ Types'
  BY NextIsInductive DEF IInv
<1> USE NoneAssumption, AnswerAssumption DEF vars, recordVars
<1>1. ASSUME NEW c \in Callbacks, AskApproval(c)
      PROVE  Contract!Ask(c)
  BY <1>1 DEF AskApproval, Set, Contract!Ask
<1>2. ASSUME NEW c \in Callbacks, OpenCallback(c)
      PROVE  Contract!Open(c)
  BY <1>2 DEF OpenCallback, Set, IInv, EntryHasRecord, HasRecord, Contract!Open
<1>3. ASSUME NEW r \in Requests, PatchAnswer(r)
      PROVE  \E c \in Callbacks, a \in Answers : Contract!Answer(c, a)
  <2>1. req[r].cb \in Callbacks /\ req[r].out \in Answers
    BY <1>3 DEF PatchAnswer, IInv, RequestedRecords
  <2>2. Contract!Answer(req[r].cb, req[r].out)
    BY <1>3 DEF PatchAnswer, Set, Contract!Answer
  <2> QED
    BY <2>1, <2>2
<1>4. ASSUME CloseEntries
      PROVE  Contract!Cancel
  BY <1>0, <1>4 DEF CloseEntries, Open, Types, Contract!Cancel, Contract!Shown
<1>5. ASSUME TakeAnswer \/ AnswerSaved
      PROVE  [Contract!Next]_(Contract!contractVars)
  <2>1. /\ current \in Callbacks /\ future[current] \in Answers
        /\ entry[current] = future[current]
    BY <1>5 DEF TakeAnswer, AnswerSaved, IInv, Types, HandledIsProjected,
                FutureIsShown, SavedIsSettled, Handling
  <2>2. CASE ResolveCore(current, future[current])
    BY <1>0, <2>1, <2>2, ResolvingDecides
  <2>3. CASE UNCHANGED recordVars
    BY <2>3 DEF Contract!contractVars
  <2> QED
    BY <1>5, <2>2, <2>3 DEF TakeAnswer, AnswerSaved
<1>6. ASSUME DeliveryUnsupported \/ SavingFails
      PROVE  Contract!Refuse
  <2>1. UNCHANGED entry /\ FailTurn
    BY <1>6 DEF DeliveryUnsupported, SavingFails
  <2>2. \A c \in Callbacks :
          \/ tool'[c] = tool[c]
          \/ tool[c] = "waiting" /\ tool'[c] \in {"rejected", "cancelled"}
    BY <2>1 DEF FailTurn, Unwind, Settle
  <2> QED
    BY <1>0, <2>1, <2>2, OnlyRefuses
<1>7. ASSUME TakeRejection \/ LeaveLoop \/ CancelInLoop
      PROVE  Contract!Refuse
  <2>1. UNCHANGED entry /\ Unwind(tool)
    BY <1>7 DEF TakeRejection, LeaveLoop, CancelInLoop
  <2>2. \A c \in Callbacks :
          \/ tool'[c] = tool[c]
          \/ tool[c] = "waiting" /\ tool'[c] \in {"rejected", "cancelled"}
    BY <2>1 DEF Unwind
  <2> QED
    BY <1>0, <2>1, <2>2, OnlyRefuses
<1>8. ASSUME CancelCallbacks \/ \E c \in Callbacks : RefuseDelivery(c)
      PROVE  Contract!Refuse
  <2>1. UNCHANGED entry /\ \E S \in SUBSET Callbacks : RejectRecords(S)
    BY <1>8 DEF CancelCallbacks, RefuseDelivery
  <2>2. \A c \in Callbacks :
          \/ tool'[c] = tool[c]
          \/ tool[c] = "waiting" /\ tool'[c] \in {"rejected", "cancelled"}
    BY <2>1 DEF RejectRecords, Settle
  <2> QED
    BY <1>0, <2>1, <2>2, OnlyRefuses
<1>9. ASSUME \/ StartTurn \/ EmitBlocked \/ DeliverCallback \/ CallbackSent
             \/ Interrupt \/ CancelWhileEnding \/ GoIdle \/ EndTurn
             \/ ResumeAccepted \/ ResumeFails \/ Attached \/ Detach
             \/ UNCHANGED vars
      PROVE  UNCHANGED <<entry, tool>>
  BY <1>9 DEF StartTurn, EmitBlocked, DeliverCallback, CallbackSent, Interrupt,
              CancelWhileEnding, GoIdle, EndTurn, ResumeAccepted, ResumeFails,
              Attached, Detach
<1>10. ASSUME NEW r \in Requests,
              \/ AnswerAgain(r) \/ AnswerFrozen(r) \/ EmitRunning(r)
              \/ AcceptInactive(r) \/ AcceptAnswer(r) \/ Replied(r)
              \/ \E c \in Callbacks, a \in Answers : Respond(r, c, a)
       PROVE  UNCHANGED <<entry, tool>>
  BY <1>10, Zenon DEF AnswerAgain, AnswerFrozen, EmitRunning, AcceptInactive,
                      AcceptAnswer, Replied, Respond
<1>11. ASSUME \/ \E s \in BOOLEAN : BeginAttachment(s)
              \/ \E c \in Callbacks : Acknowledge(c) \/ Redeliver(c)
       PROVE  UNCHANGED <<entry, tool>>
  BY <1>11 DEF BeginAttachment, Acknowledge, Redeliver
<1>12. CASE UNCHANGED <<entry, tool>>
  BY <1>12 DEF Contract!contractVars
<1> QED
  BY <1>1, <1>2, <1>3, <1>4, <1>5, <1>6, <1>7, <1>8, <1>9, <1>10, <1>11, <1>12
     DEF Next, TurnStep, AttachStep, RequestStep, Contract!Next

\* The detailed lifecycle implements the contract: whatever turns, clients,
\* cancellations and disconnections do, a tool proceeds only on the answer
\* the history shows, and that answer never changes.
THEOREM LifecycleImplementsContract == Spec => ImplementsContract
<1>1. Init => Contract!Init
  BY DEF Init, Contract!Init
<1> QED
  BY <1>1, Invariance, StepImplementsContract, PTL
     DEF Spec, ImplementsContract, Contract!Spec

-----------------------------------------------------------------------------
(* What the client was sent.  The turn sends a callback once, and each     *)
(* attachment sends it once more at most.                                  *)

AtMostOnce(P) == IF P THEN 1 ELSE 0

\* The turn has not sent it yet.
Unsent(c) == ~HasRecord(c) \/ (turn \in {"adding", "blocking"} /\ current = c)

SendingsAreCounted ==
  \A c \in Callbacks :
    outstanding[c] + AtMostOnce(c \in redeliver) + AtMostOnce(Unsent(c))
      + AtMostOnce(conn \in {"attaching", "replying"}) <= attaches + 1

\* Once the turn has had its chance to send the callback, a client that
\* attached on a new connection has it or gets it.
ClientIsAsked ==
  conn = "attached" /\ ~wasAttached /\ turn \in {"delivering", "waiting"}
    /\ entry[current] = "open"
  => current \in delivered \cup redeliver

DeliveryTypes ==
  /\ turns \in 0..MaxTurns
  /\ active \in BOOLEAN
  /\ cancelling \in BOOLEAN
  /\ coreResolved \subseteq Callbacks
  /\ status \in {"idle", "running", "blocked"}
  /\ conn \in {"none", "attaching", "replying", "attached"}
  /\ wasAttached \in BOOLEAN
  /\ supports \in BOOLEAN
  /\ attaches \in 0..MaxAttaches
  /\ outstanding \in [Callbacks -> Nat]
  /\ redeliver \subseteq Callbacks
  /\ delivered \subseteq Callbacks

DInv == IInv /\ DeliveryTypes /\ SendingsAreCounted /\ ClientIsAsked

\* What a client was sent, in the first state.
LEMMA NothingSentAtFirst == Init => DInv
<1> SUFFICES ASSUME Init PROVE DInv
  OBVIOUS
<1>1. IInv
  BY InitIsInductive
<1>2. ClientIsAsked
  BY DEF Init, ClientIsAsked
<1>3. active \in BOOLEAN /\ cancelling \in BOOLEAN /\ wasAttached \in BOOLEAN /\ supports \in BOOLEAN
  BY Zenon DEF Init
<1>4. DeliveryTypes
  <2>1. /\ turns = 0 /\ coreResolved = {} /\ status = "idle" /\ conn = "attached"
        /\ attaches = 0 /\ outstanding = [c \in Callbacks |-> 0]
        /\ redeliver = {} /\ delivered = {}
    BY Zenon DEF Init
  <2> QED
    BY <1>3, <2>1, BoundAssumption DEF DeliveryTypes
<1>5. SendingsAreCounted
  <2>1. /\ conn = "attached" /\ attaches = 0 /\ outstanding = [c \in Callbacks |-> 0]
        /\ redeliver = {}
    BY Zenon DEF Init
  <2>2. ASSUME NEW c \in Callbacks
        PROVE  outstanding[c] = 0 /\ AtMostOnce(c \in redeliver) = 0
               /\ AtMostOnce(conn \in {"attaching", "replying"}) = 0
    BY <2>1 DEF AtMostOnce
  <2>3. \A c \in Callbacks : AtMostOnce(Unsent(c)) \in {0, 1}
    BY DEF AtMostOnce
  <2>4. ASSUME NEW c \in Callbacks
        PROVE  outstanding[c] + AtMostOnce(c \in redeliver) + AtMostOnce(Unsent(c))
                 + AtMostOnce(conn \in {"attaching", "replying"}) <= attaches + 1
    <3> DEFINE n == AtMostOnce(Unsent(c))
    <3>1. n \in {0, 1}
      BY <2>3
    <3> HIDE DEF n
    <3>2. 0 + 0 + n + 0 <= 0 + 1
      BY <3>1
    <3> QED
      BY <2>1, <2>2, <3>2, Zenon DEF n
  <2> QED
    BY <2>4, Zenon DEF SendingsAreCounted
<1> QED
  BY <1>1, <1>2, <1>4, <1>5 DEF DInv

\* A step that sends nothing: the connection stays, responses are counted off,
\* and the turn does not get past the sending of a callback.
Quiet ==
  /\ UNCHANGED <<connVars, redeliver, delivered>>
  /\ outstanding' \in [Callbacks -> Nat]
  /\ \A c \in Callbacks : outstanding'[c] <= outstanding[c]
  /\ \A c \in Callbacks : Unsent(c)' => Unsent(c)
  /\ turn' \in {"delivering", "waiting"} /\ entry'[current'] = "open"
       => /\ turn \in {"delivering", "waiting"} /\ current' = current
          /\ entry[current] = "open"

\* A quiet step keeps what was said of the sendings.
LEMMA QuietKeepsTheCount ==
  ASSUME DInv, Quiet
  PROVE  SendingsAreCounted' /\ ClientIsAsked'
<1>0. DeliveryTypes /\ SendingsAreCounted /\ ClientIsAsked
  BY DEF DInv
<1>1. ASSUME NEW c \in Callbacks
      PROVE  outstanding'[c] + AtMostOnce(c \in redeliver)' + AtMostOnce(Unsent(c))'
               + AtMostOnce(conn \in {"attaching", "replying"})' <= attaches' + 1
  <2>1. /\ outstanding[c] \in Nat /\ outstanding'[c] \in Nat /\ attaches \in Nat
        /\ outstanding'[c] <= outstanding[c]
        /\ Unsent(c)' => Unsent(c)
        /\ UNCHANGED <<redeliver, conn, attaches>>
    BY <1>0, BoundAssumption DEF Quiet, DeliveryTypes, connVars
  <2>2. outstanding[c] + AtMostOnce(c \in redeliver) + AtMostOnce(Unsent(c))
          + AtMostOnce(conn \in {"attaching", "replying"}) <= attaches + 1
    BY <1>0 DEF SendingsAreCounted
  <2> QED
    BY <2>1, <2>2 DEF AtMostOnce
<1>2. SendingsAreCounted'
  BY <1>1 DEF SendingsAreCounted
<1>3. ClientIsAsked'
  BY <1>0 DEF Quiet, ClientIsAsked, connVars
<1> QED
  BY <1>2, <1>3

\* The turn's own steps, but for the sending itself.
LEMMA TurnIsQuiet ==
  ASSUME DInv,
         \/ StartTurn \/ EmitBlocked \/ CallbackSent \/ DeliveryUnsupported
         \/ TakeAnswer \/ AnswerSaved \/ SavingFails \/ TakeRejection
         \/ CancelInLoop \/ CloseEntries \/ CancelWhileEnding
         \/ CancelCallbacks \/ GoIdle \/ EndTurn \/ LeaveLoop \/ Interrupt
         \/ \E c \in Callbacks : OpenCallback(c) \/ AskApproval(c)
  PROVE  Quiet
<1> USE DEF DInv, IInv, Types, DeliveryTypes, HandledIsProjected, ProjectedRecords,
            Unsent, HasRecord, Handling, InTheLoop, Ending, Quiet, turnVars, recordVars, connVars, sentVars
<1>1. CASE StartTurn \/ EmitBlocked \/ CallbackSent \/ CancelWhileEnding \/ EndTurn
  BY <1>1, SMTT(20) DEF StartTurn, EmitBlocked, CallbackSent, CancelWhileEnding, EndTurn
<1>2. CASE DeliveryUnsupported \/ SavingFails
  BY <1>2, SMTT(20) DEF DeliveryUnsupported, SavingFails, FailTurn, Unwind, Settle
<1>3. CASE TakeAnswer \/ AnswerSaved
  BY <1>3, SMTT(20) DEF TakeAnswer, AnswerSaved, ResolveCore
<1>4. CASE TakeRejection \/ CancelInLoop \/ LeaveLoop
  BY <1>4, SMTT(20) DEF TakeRejection, CancelInLoop, LeaveLoop, Unwind
<1>5. CASE CloseEntries
  BY <1>5, SMTT(20) DEF CloseEntries, Open
<1>6. CASE CancelCallbacks
  BY <1>6, SMTT(20) DEF CancelCallbacks, RejectRecords, Settle
<1>7. CASE GoIdle
  BY <1>7, SMTT(20) DEF GoIdle
<1>8. CASE Interrupt
  BY <1>8, SMTT(20) DEF Interrupt, Settle
<1>9. ASSUME NEW c \in Callbacks, OpenCallback(c) \/ AskApproval(c) PROVE Quiet
  BY <1>9, SMTT(20) DEF OpenCallback, AskApproval, Set
<1> QED
  BY <1>1, <1>2, <1>3, <1>4, <1>5, <1>6, <1>7, <1>8, <1>9

\* The requests and the responses of clients.
LEMMA RequestsAreQuiet ==
  ASSUME DInv,
         \/ \E r \in Requests : \/ RequestStep(r)
                                \/ \E c \in Callbacks, a \in Answers : Respond(r, c, a)
         \/ \E c \in Callbacks : Acknowledge(c) \/ RefuseDelivery(c)
  PROVE  Quiet
<1> USE AnswerAssumption
    DEF DInv, IInv, Types, DeliveryTypes, RequestedRecords, Unsent, HasRecord,
        Quiet, turnVars, recordVars, connVars, sentVars
<1>1. ASSUME NEW r \in Requests, \/ AnswerAgain(r) \/ AnswerFrozen(r) \/ EmitRunning(r)
                                 \/ \E c \in Callbacks, a \in Answers : Respond(r, c, a)
      PROVE  Quiet
  <2>1. UNCHANGED <<turn, current, entry, future, sentVars, connVars>>
    BY <1>1, Zenon DEF AnswerAgain, AnswerFrozen, EmitRunning, Respond
  <2> QED
    BY <2>1
<1>2. ASSUME NEW r \in Requests, PatchAnswer(r) PROVE Quiet
  <2>1. /\ UNCHANGED <<turn, current, future, sentVars, connVars>>
        /\ \E c \in Callbacks, a \in Answers : entry' = [entry EXCEPT ![c] = a]
    BY <1>2 DEF PatchAnswer, Set
  <2> QED
    BY <2>1
<1>3. ASSUME NEW r \in Requests, AcceptInactive(r) \/ AcceptAnswer(r) PROVE Quiet
  <2>1. /\ UNCHANGED <<turn, current, entry, sentVars, connVars>>
        /\ future' = Settle(future, "pending", {req[r].cb}, req[r].out)
    BY <1>3, Zenon DEF AcceptInactive, AcceptAnswer, Accept
  <2>2. req[r].out \in Answers
    BY <1>3 DEF AcceptInactive, AcceptAnswer, Unprojected
  <2> QED
    BY <2>1, <2>2 DEF Settle
<1>4. ASSUME NEW r \in Requests, Replied(r) PROVE Quiet
  <2>1. UNCHANGED <<turn, current, entry, future, connVars, redeliver, delivered>>
    BY <1>4 DEF Replied
  <2>2. outstanding' \in [Callbacks -> Nat] /\ \A c \in Callbacks : outstanding'[c] <= outstanding[c]
    BY <1>4 DEF Replied, Set
  <2> QED
    BY <2>1, <2>2
<1>5. ASSUME NEW c \in Callbacks, Acknowledge(c) \/ RefuseDelivery(c) PROVE Quiet
  <2>1. /\ UNCHANGED <<turn, current, entry, connVars, redeliver, delivered>>
        /\ future' = future \/ future' = Settle(future, "pending", {c} \ coreResolved, "rejected")
        /\ outstanding[c] > 0 /\ outstanding' = [outstanding EXCEPT ![c] = @ - 1]
    BY <1>5 DEF Acknowledge, RefuseDelivery, RejectRecords
  <2>2. outstanding' \in [Callbacks -> Nat] /\ \A d \in Callbacks : outstanding'[d] <= outstanding[d]
    BY <2>1
  <2> QED
    BY <2>1, <2>2 DEF Settle
<1> QED
  BY <1>1, <1>2, <1>3, <1>4, <1>5 DEF RequestStep

\* One more callback/call for c.
LEMMA SendingSends ==
  ASSUME DInv, NEW c \in Callbacks, Send(c)
  PROVE  /\ outstanding' \in [Callbacks -> Nat]
         /\ outstanding'[c] = outstanding[c] + 1
         /\ \A d \in Callbacks \ {c} : outstanding'[d] = outstanding[d]
         /\ delivered' = delivered \cup {c}
BY DEF DInv, DeliveryTypes, Send

\* The turn sends the callback it handles, for the first time.
LEMMA TurnSendsOnce ==
  ASSUME DInv, DeliverCallback
  PROVE  SendingsAreCounted' /\ ClientIsAsked'
<1>0. DeliveryTypes /\ SendingsAreCounted /\ current \in Callbacks /\ HasRecord(current)
  BY DEF DInv, IInv, HandledIsProjected, Handling, DeliverCallback, Types, ProjectedRecords
<1>1. UNCHANGED <<connVars, redeliver, current, future, entry>> /\ turn = "blocking"
  BY DEF DeliverCallback, recordVars
<1>2. CASE conn = "attached"
  <2>1. Send(current) /\ turn' = "delivering"
    BY <1>2 DEF DeliverCallback
  <2>2. /\ outstanding' \in [Callbacks -> Nat]
        /\ outstanding'[current] = outstanding[current] + 1
        /\ \A d \in Callbacks \ {current} : outstanding'[d] = outstanding[d]
        /\ delivered' = delivered \cup {current}
    BY <1>0, <2>1, SendingSends
  <2>3. ASSUME NEW c \in Callbacks
        PROVE  outstanding'[c] + AtMostOnce(c \in redeliver)' + AtMostOnce(Unsent(c))'
                 + AtMostOnce(conn \in {"attaching", "replying"})' <= attaches' + 1
    <3>1. /\ outstanding[c] \in Nat /\ outstanding'[c] \in Nat /\ attaches \in Nat
          /\ UNCHANGED <<redeliver, conn, attaches>>
      BY <1>0, <1>1, <2>2, BoundAssumption DEF DeliveryTypes, connVars
    <3>2. outstanding[c] + AtMostOnce(c \in redeliver) + AtMostOnce(Unsent(c))
            + AtMostOnce(conn \in {"attaching", "replying"}) <= attaches + 1
      BY <1>0 DEF SendingsAreCounted
    <3>3. CASE c = current
      <4>1. Unsent(c) /\ ~Unsent(c)'
        BY <1>0, <1>1, <2>1, <3>3 DEF Unsent, HasRecord
      <4> QED
        BY <2>2, <3>1, <3>2, <3>3, <4>1 DEF AtMostOnce
    <3>4. CASE c # current
      <4>1. Unsent(c)' => Unsent(c)
        BY <1>1, <2>1 DEF Unsent, HasRecord
      <4> QED
        BY <2>2, <3>1, <3>2, <3>4, <4>1 DEF AtMostOnce
    <3> QED
      BY <3>3, <3>4
  <2>4. SendingsAreCounted'
    BY <2>3 DEF SendingsAreCounted
  <2> QED
    BY <1>1, <2>2, <2>4 DEF ClientIsAsked
<1>3. CASE conn # "attached"
  <2>1. turn' = "waiting" /\ UNCHANGED <<outstanding, delivered>>
    BY <1>3 DEF DeliverCallback
  <2>2. ASSUME NEW c \in Callbacks
        PROVE  outstanding'[c] + AtMostOnce(c \in redeliver)' + AtMostOnce(Unsent(c))'
                 + AtMostOnce(conn \in {"attaching", "replying"})' <= attaches' + 1
    <3>1. /\ outstanding[c] \in Nat /\ attaches \in Nat
          /\ UNCHANGED <<redeliver, conn, attaches, outstanding>>
      BY <1>0, <1>1, <2>1, BoundAssumption DEF DeliveryTypes, connVars
    <3>2. outstanding[c] + AtMostOnce(c \in redeliver) + AtMostOnce(Unsent(c))
            + AtMostOnce(conn \in {"attaching", "replying"}) <= attaches + 1
      BY <1>0 DEF SendingsAreCounted
    <3>3. Unsent(c)' => Unsent(c)
      BY <1>1, <2>1 DEF Unsent, HasRecord
    <3> QED
      BY <3>1, <3>2, <3>3 DEF AtMostOnce
  <2>3. SendingsAreCounted'
    BY <2>2 DEF SendingsAreCounted
  <2> QED
    BY <1>1, <1>3, <2>3 DEF ClientIsAsked, connVars
<1> QED
  BY <1>2, <1>3

\* An attachment is one more chance to send each callback, taken once.
LEMMA AttachingKeepsTheCount ==
  ASSUME DInv,
         \/ ResumeAccepted \/ ResumeFails \/ Attached \/ Detach
         \/ \E s \in BOOLEAN : BeginAttachment(s)
         \/ \E c \in Callbacks : Redeliver(c)
  PROVE  SendingsAreCounted' /\ ClientIsAsked'
<1>0. DeliveryTypes /\ SendingsAreCounted /\ ClientIsAsked
  BY DEF DInv
<1>1. ASSUME NEW c \in Callbacks
      PROVE  /\ outstanding[c] \in Nat /\ attaches \in Nat
             /\ outstanding[c] + AtMostOnce(c \in redeliver) + AtMostOnce(Unsent(c))
                  + AtMostOnce(conn \in {"attaching", "replying"}) <= attaches + 1
  BY <1>0, BoundAssumption DEF DeliveryTypes, SendingsAreCounted
<1>2. UNCHANGED <<turnVars, recordVars>>
  BY DEF ResumeAccepted, ResumeFails, Attached, Detach, BeginAttachment, Redeliver
<1>3. \A c \in Callbacks : Unsent(c)' <=> Unsent(c)
  BY <1>2 DEF turnVars, recordVars, Unsent, HasRecord
<1>4. CASE ResumeAccepted
  <2>1. SendingsAreCounted'
    BY <1>1, <1>3, <1>4 DEF ResumeAccepted, sentVars, SendingsAreCounted, AtMostOnce
  <2> QED
    BY <1>4, <2>1 DEF ResumeAccepted, ClientIsAsked
<1>5. CASE ResumeFails
  <2>1. SendingsAreCounted'
    BY <1>1, <1>3, <1>5 DEF ResumeFails, sentVars, SendingsAreCounted, AtMostOnce
  <2> QED
    BY <1>5, <2>1 DEF ResumeFails, ClientIsAsked
<1>6. CASE Attached
  <2>1. SendingsAreCounted'
    BY <1>1, <1>3, <1>6 DEF Attached, SendingsAreCounted, AtMostOnce
  <2>2. turn \in {"delivering", "waiting"} => current \in projected /\ current \in Callbacks
    BY DEF DInv, IInv, HandledIsProjected, Handling, Types
  <2>3. ClientIsAsked'
    BY <1>2, <1>6, <2>2 DEF Attached, ClientIsAsked, ToRedeliver, OpenCallbacks, Open,
                            turnVars, recordVars
  <2> QED
    BY <2>1, <2>3
<1>7. CASE Detach
  <2>1. SendingsAreCounted'
    <3>1. ASSUME NEW c \in Callbacks
          PROVE  outstanding'[c] + AtMostOnce(c \in redeliver)' + AtMostOnce(Unsent(c))'
                   + AtMostOnce(conn \in {"attaching", "replying"})' <= attaches' + 1
      <4>1. outstanding'[c] = 0 /\ c \notin redeliver' /\ conn' = "none" /\ attaches' = attaches
        BY <1>7 DEF Detach
      <4> QED
        BY <1>1, <4>1 DEF AtMostOnce
    <3> QED
      BY <3>1 DEF SendingsAreCounted
  <2> QED
    BY <1>7, <2>1 DEF Detach, ClientIsAsked
<1>8. ASSUME NEW s \in BOOLEAN, BeginAttachment(s) PROVE SendingsAreCounted' /\ ClientIsAsked'
  <2>1. SendingsAreCounted'
    BY <1>1, <1>3, <1>8 DEF BeginAttachment, sentVars, SendingsAreCounted, AtMostOnce
  <2> QED
    BY <1>8, <2>1 DEF BeginAttachment, ClientIsAsked
<1>9. ASSUME NEW c \in Callbacks, Redeliver(c) PROVE SendingsAreCounted' /\ ClientIsAsked'
  <2>1. /\ outstanding' \in [Callbacks -> Nat]
        /\ outstanding'[c] = outstanding[c] + 1
        /\ \A d \in Callbacks \ {c} : outstanding'[d] = outstanding[d]
        /\ delivered' = delivered \cup {c}
    BY <1>9, SendingSends DEF Redeliver
  <2>2. c \in redeliver /\ redeliver' = redeliver \ {c} /\ UNCHANGED connVars
    BY <1>9 DEF Redeliver
  <2>3. ASSUME NEW d \in Callbacks
        PROVE  outstanding'[d] + AtMostOnce(d \in redeliver)' + AtMostOnce(Unsent(d))'
                 + AtMostOnce(conn \in {"attaching", "replying"})' <= attaches' + 1
    BY <1>1, <1>3, <2>1, <2>2 DEF AtMostOnce, connVars
  <2>4. SendingsAreCounted'
    BY <2>3 DEF SendingsAreCounted
  <2> QED
    BY <1>0, <1>2, <2>1, <2>2, <2>4 DEF ClientIsAsked, turnVars, recordVars, connVars
<1> QED
  BY <1>4, <1>5, <1>6, <1>7, <1>8, <1>9

\* The types the answers do not need.
LEMMA DeliveriesAreTyped ==
  ASSUME DInv, [Next]_vars
  PROVE  DeliveryTypes'
<1> USE BoundAssumption, AnswerAssumption
    DEF DInv, IInv, Types, DeliveryTypes, vars, turnVars, recordVars, connVars, sentVars
<1>0. CASE UNCHANGED vars
  BY <1>0
<1>1. CASE StartTurn
  <2>1. /\ turns < MaxTurns /\ turns' = turns + 1 /\ status' = "running"
        /\ UNCHANGED <<coreResolved, connVars, sentVars>>
    BY <1>1 DEF StartTurn
  <2>2. active' \in BOOLEAN /\ cancelling' \in BOOLEAN
    BY <1>1, Zenon DEF StartTurn
  <2> QED
    BY <2>1, <2>2
<1>12. CASE \/ EmitBlocked \/ CallbackSent \/ CancelWhileEnding \/ GoIdle \/ EndTurn
            \/ Interrupt \/ CloseEntries
  BY <1>12 DEF EmitBlocked, CallbackSent, CancelWhileEnding, GoIdle, EndTurn,
               Interrupt, CloseEntries
<1>2. CASE \/ DeliveryUnsupported \/ SavingFails \/ TakeRejection \/ CancelInLoop
           \/ LeaveLoop \/ TakeAnswer \/ AnswerSaved
  <2>1. /\ UNCHANGED <<turns, active, status, connVars, sentVars>>
        /\ coreResolved' = coreResolved \/ coreResolved' = coreResolved \cup {current}
           \/ coreResolved' = coreResolved \cup ({current} \ coreResolved)
    BY <1>2, Zenon
       DEF DeliveryUnsupported, SavingFails, TakeRejection, CancelInLoop, LeaveLoop,
           TakeAnswer, AnswerSaved, FailTurn, Unwind, ResolveCore
  <2>2. coreResolved' # coreResolved => current \in Callbacks
    BY <1>2, <2>1 DEF DeliveryUnsupported, SavingFails, TakeRejection, CancelInLoop,
      LeaveLoop, TakeAnswer, AnswerSaved, HandledIsProjected, Handling
  <2>3. cancelling' \in BOOLEAN
    BY <1>2, Zenon
       DEF DeliveryUnsupported, SavingFails, TakeRejection, CancelInLoop, LeaveLoop,
           TakeAnswer, AnswerSaved, ResolveCore
  <2> QED
    BY <2>1, <2>2, <2>3
<1>3. CASE DeliverCallback
  <2>1. current \in Callbacks
    BY <1>3 DEF HandledIsProjected, Handling, DeliverCallback
  <2>2. outstanding' \in [Callbacks -> Nat] /\ delivered' \subseteq Callbacks
    BY <1>3, <2>1, SendingSends DEF DeliverCallback
  <2> QED
    BY <1>3, <2>2 DEF DeliverCallback
<1>4. CASE CancelCallbacks
  BY <1>4 DEF CancelCallbacks, RejectRecords, HasRecord
<1>5. ASSUME NEW c \in Callbacks, OpenCallback(c) \/ AskApproval(c) PROVE DeliveryTypes'
  BY <1>5 DEF OpenCallback, AskApproval
<1>6. ASSUME NEW r \in Requests, \/ RequestStep(r)
                                 \/ \E c \in Callbacks, a \in Answers : Respond(r, c, a)
      PROVE  DeliveryTypes'
  <2>1. /\ UNCHANGED <<turns, active, cancelling, coreResolved, connVars, redeliver, delivered>>
        /\ status' = status \/ status' = "running"
    BY <1>6, Zenon DEF RequestStep, AnswerAgain, PatchAnswer, AnswerFrozen, EmitRunning,
                       AcceptInactive, AcceptAnswer, Replied, Respond
  <2>2. outstanding' \in [Callbacks -> Nat]
    BY <1>6, RequestsAreQuiet DEF Quiet
  <2> QED
    BY <2>1, <2>2
<1>7. ASSUME NEW c \in Callbacks, Acknowledge(c) \/ RefuseDelivery(c) PROVE DeliveryTypes'
  <2>1. outstanding' \in [Callbacks -> Nat]
    BY <1>7, RequestsAreQuiet DEF Quiet
  <2> QED
    BY <1>7, <2>1 DEF Acknowledge, RefuseDelivery, RejectRecords
<1>8. CASE ResumeAccepted \/ ResumeFails \/ Attached
  BY <1>8 DEF ResumeAccepted, ResumeFails, Attached, ToRedeliver, OpenCallbacks
<1>9. CASE Detach
  BY <1>9 DEF Detach
<1>10. ASSUME NEW s \in BOOLEAN, BeginAttachment(s) PROVE DeliveryTypes'
  BY <1>10 DEF BeginAttachment
<1>11. ASSUME NEW c \in Callbacks, Redeliver(c) PROVE DeliveryTypes'
  <2>1. outstanding' \in [Callbacks -> Nat] /\ delivered' \subseteq Callbacks
    BY <1>11, SendingSends DEF Redeliver
  <2> QED
    BY <1>11, <2>1 DEF Redeliver
<1> QED
  BY <1>0, <1>1, <1>2, <1>3, <1>4, <1>5, <1>6, <1>7, <1>8, <1>9, <1>10, <1>11, <1>12
     DEF Next, TurnStep, AttachStep

\* Every step keeps the count of what was sent, and what clients were asked.
THEOREM NextKeepsDeliveries == DInv /\ [Next]_vars => DInv'
<1> SUFFICES ASSUME DInv, [Next]_vars PROVE DInv'
  OBVIOUS
<1>1. IInv' /\ DeliveryTypes'
  BY NextIsInductive, DeliveriesAreTyped DEF DInv
<1>2. CASE UNCHANGED vars
  <2>1. Quiet
    BY <1>2 DEF vars, turnVars, recordVars, connVars, sentVars, Quiet, Unsent, HasRecord,
                DInv, DeliveryTypes
  <2> QED
    BY <1>1, <2>1, QuietKeepsTheCount DEF DInv
<1>3. CASE Next
  <2>1. SendingsAreCounted' /\ ClientIsAsked'
    BY <1>3, TurnIsQuiet, RequestsAreQuiet, QuietKeepsTheCount, TurnSendsOnce,
       AttachingKeepsTheCount DEF Next, TurnStep, AttachStep
  <2> QED
    BY <1>1, <2>1 DEF DInv
<1> QED
  BY <1>2, <1>3

\* Every reachable state has its types; no client ever owes more responses to
\* a callback than there were attachments, and one (Connection._outgoing).
THEOREM TypeCorrect == Spec => []TypeOK
<1>1. DInv => TypeOK
  <2> SUFFICES ASSUME DInv PROVE TypeOK
    OBVIOUS
  <2>1. IInv /\ DeliveryTypes /\ SendingsAreCounted
    BY DEF DInv
  <2>2. ASSUME NEW c \in Callbacks
        PROVE  outstanding[c] \in 0..(MaxAttaches + 1)
    BY <2>1, BoundAssumption DEF DeliveryTypes, SendingsAreCounted, AtMostOnce
  <2>3. outstanding \in [Callbacks -> 0..(MaxAttaches + 1)]
    BY <2>1, <2>2 DEF DeliveryTypes
  <2> QED
    BY <2>1, <2>3 DEF IInv, Types, DeliveryTypes, TypeOK, RequestStates
<1> QED
  BY <1>1, NothingSentAtFirst, NextKeepsDeliveries, PTL DEF Spec

\* A client on a new connection is asked what the turn waits for, whether the
\* callback opened before, while or after it attached
\* (_deliver_callback, _redeliver_open_callbacks).
THEOREM NobodyWaitsUnasked == Spec => []AttachedClientWasAsked
<1>1. DInv => AttachedClientWasAsked
  BY DEF DInv, ClientIsAsked, AttachedClientWasAsked
<1> QED
  BY <1>1, NothingSentAtFirst, NextKeepsDeliveries, PTL DEF Spec

=============================================================================
