-------------------------- MODULE AgentTranscript --------------------------
(* The conversation loop of AgentLoop and the transcript it builds: a turn    *)
(* opens on a cleaned history, asks the model, runs the tools it calls at the *)
(* same time, saves, and asks again until nothing is left to answer.          *)
(* Around it: the user interrupts, rewinds, switches the agent, steers; the   *)
(* context overflows and is compacted; an accepted plan clears it; the tools  *)
(* of a turn that was cut off in its consumer work on.                        *)
(*                                                                            *)
(* The system prompt at index 0 never changes the behaviour and is left out.  *)
(* A call is a number, its answer a "tool" message of that number.            *)
EXTENDS Naturals, Sequences, FiniteSets

CONSTANTS MaxActs,         \* turns the user starts
          MaxAsks,         \* answers of the model
          MaxCalls,        \* tool calls, and with them the names of calls
          MaxSwitches,     \* agent switches and reloads asked for from outside
          MaxCompactions

ASSUME BoundsAssumption ==
    {MaxActs, MaxAsks, MaxCalls, MaxSwitches, MaxCompactions} \subseteq Nat

VARIABLES msgs,     \* self.messages
          loop,     \* the generator that runs the turn: where it waits, what it knows
          plan,     \* plan mode: the profile, the middleware's memory, what is pending;
                    \* told: that memory is of this transcript
          late,     \* the batch of a turn cut off in its consumer; astray: an
                    \* answer came when its place was not the transcript's end
          spent     \* what is used of the bounds

vars == <<msgs, loop, plan, late, spent>>

Calls == 1..MaxCalls

Kinds == {"user", "steer", "remind", "exit", "note", "envelope"}

Said(kind) == [kind |-> kind, calls |-> {}, of |-> 0]
Asked(calls) == [kind |-> "assistant", calls |-> calls, of |-> 0]
Answered(c) == [kind |-> "tool", calls |-> {}, of |-> c]

Message ==
    [kind : Kinds, calls : {{}}, of : {0}]
        \union [kind : {"assistant"}, calls : SUBSET Calls, of : {0}]
        \union [kind : {"tool"}, calls : {{}}, of : Calls]

(* Where the turn is suspended. "cancelling" waits for the tools an interrupt *)
(* cancelled, "save" is the save of each answer, "ending" the last one.       *)
(* loop.answered: nothing was left to answer, and the turn ends by itself.    *)
Waits == {"idle", "mention", "before", "ask", "got", "tools", "cancelling",
          "save", "clearing", "seeding", "hooks", "compacting", "resetting",
          "ending"}

TypeOK ==
    /\ msgs \in Seq(Message)
    /\ loop \in [at : Waits, then : {"idle", "before", "ask"},
                 running : SUBSET Calls, recovered : BOOLEAN,
                 cancelled : BOOLEAN, answered : BOOLEAN]
    /\ loop.running # {} <=> loop.at \in {"mention", "tools", "cancelling"}
    /\ plan \in [active : BOOLEAN, was : BOOLEAN, edited : BOOLEAN,
                 clear : BOOLEAN, told : BOOLEAN]
    /\ late \in [left : SUBSET Calls, cancelled : SUBSET Calls,
                 bound : BOOLEAN, astray : BOOLEAN]
    /\ late.left # {} => late.bound
    /\ late.bound => loop.at # "tools"
    /\ (late.left \union late.cancelled) \intersect loop.running = {}
    /\ spent \in [acts : 0..MaxActs, asks : 0..MaxAsks, calls : 0..MaxCalls,
                  switches : 0..MaxSwitches, compactions : 0..MaxCompactions]

Init ==
    /\ msgs = <<>>
    /\ loop = [at |-> "idle", then |-> "idle", running |-> {},
               recovered |-> FALSE, cancelled |-> FALSE, answered |-> FALSE]
    /\ \E planning \in BOOLEAN :
           plan = [active |-> planning, was |-> FALSE, edited |-> FALSE,
                   clear |-> FALSE, told |-> TRUE]
    /\ late = [left |-> {}, cancelled |-> {}, bound |-> FALSE, astray |-> FALSE]
    /\ spent = [acts |-> 0, asks |-> 0, calls |-> 0, switches |-> 0,
                compactions |-> 0]

(* ------------------------------ the history ------------------------------- *)

(* The placeholders of unanswered calls, in the order of the calls.           *)
NoResponses(calls) ==
    LET upTo[c \in 0..MaxCalls] ==
            IF c = 0 THEN <<>>
            ELSE IF c \in calls THEN Append(upTo[c - 1], Answered(c))
            ELSE upTo[c - 1]
    IN  upTo[MaxCalls]

(* The block of answers that the first i messages of s end on: whose they     *)
(* are, and the calls of the message they stand behind.                       *)
RespondedAt(s, i) ==
    {s[j].of : j \in {j \in 1..i : \A k \in j..i : s[k].kind = "tool"}}

CalledAt(s, i) ==
    UNION {s[j].calls :
             j \in {j \in 1..i : \A k \in (j + 1)..i : s[k].kind = "tool"}}

OpenAt(s, i) == CalledAt(s, i) \ RespondedAt(s, i)

(* The open calls that cleaning fills in. It looks into a block only if fewer *)
(* answers are in it than calls were made, whosever answers they are.         *)
ToFill(s, i) ==
    IF Cardinality(RespondedAt(s, i)) < Cardinality(CalledAt(s, i))
    THEN OpenAt(s, i) ELSE {}

(* The first i messages, with a placeholder for each such call at the end of  *)
(* its block, but for the block that may go on after them.                    *)
CleanedTo(s) ==
    LET out[i \in 0..Len(s)] ==
            IF i = 0 THEN <<>>
            ELSE IF s[i].kind = "tool" THEN Append(out[i - 1], s[i])
            ELSE Append(out[i - 1] \o NoResponses(ToFill(s, i - 1)), s[i])
    IN  out

(* Mutant: the block of answers that ends the history is not filled.          *)
CleanedButTheLast(s) == CleanedTo(s)[Len(s)]

Cleaned(s) == CleanedTo(s)[Len(s)] \o NoResponses(ToFill(s, Len(s)))

(* ------------------------------ opening a turn ---------------------------- *)

StartTurn ==
    /\ loop.at = "idle"
    /\ spent.acts < MaxActs
    /\ msgs' = Append(Cleaned(msgs), Said("user"))
    /\ loop' = [loop EXCEPT !.at = "before", !.recovered = FALSE,
                            !.cancelled = FALSE, !.answered = FALSE]
    /\ spent' = [spent EXCEPT !.acts = @ + 1]
    /\ UNCHANGED <<plan, late>>

(* The user's message names a file: the loop answers for the model with a     *)
(* call that reads it, and runs that call before anything else. One file.     *)
MentionFile ==
    /\ loop.at = "before"
    /\ \E i \in DOMAIN msgs :
           /\ msgs[i].kind = "user"
           /\ \A j \in (i + 1)..Len(msgs) : msgs[j].kind = "tool"
    /\ spent.calls < MaxCalls
    /\ LET c == spent.calls + 1
       IN  /\ msgs' = Append(msgs, Asked({c}))
           /\ loop' = [loop EXCEPT !.at = "mention", !.running = {c}]
    /\ spent' = [spent EXCEPT !.calls = @ + 1]
    /\ UNCHANGED <<plan, late>>

(* ------------------------------ before each call -------------------------- *)

LimitReached ==
    /\ loop.at = "before"
    /\ loop' = [loop EXCEPT !.at = "ending", !.answered = FALSE]
    /\ UNCHANGED <<msgs, plan, late, spent>>

(* The read-only agent's middleware tells the model that plan mode began or   *)
(* ended since it last looked; the model is then called.                      *)
AskModel ==
    /\ loop.at = "before"
    /\ spent.asks < MaxAsks
    /\ msgs' = CASE plan.was /\ ~plan.active -> Append(msgs, Said("exit"))
                 [] ~plan.was /\ plan.active -> Append(msgs, Said("remind"))
                 [] OTHER -> msgs
    /\ plan' = [plan EXCEPT !.was = plan.active,
                            !.told = @ \/ plan.was # plan.active]
    /\ loop' = [loop EXCEPT !.at = "ask"]
    /\ UNCHANGED <<late, spent>>

(* A step of a turn that raises: the turn fails, after one more save.         *)
Fails == loop' = [loop EXCEPT !.at = "ending", !.answered = FALSE]

(* ------------------------------ the model's answer ------------------------ *)

(* The next n calls nobody has used.                                          *)
Fresh(n) == (spent.calls + 1)..(spent.calls + n)

Answers ==
    /\ loop.at = "ask"
    /\ \E n \in 0..2 :
           /\ spent.calls + n <= MaxCalls
           /\ msgs' = Append(msgs, Asked(Fresh(n)))
           /\ spent' = [spent EXCEPT !.asks = @ + 1, !.calls = @ + n]
    /\ loop' = [loop EXCEPT !.at = "got"]
    /\ UNCHANGED <<plan, late>>

(* The backend fails, refuses, or breaks off: what it said may be kept.       *)
AskFails ==
    /\ loop.at = "ask"
    /\ \/ UNCHANGED <<msgs, spent>>
       \/ \E n \in 0..1 :
              /\ spent.calls + n <= MaxCalls
              /\ msgs' = Append(msgs, Asked(Fresh(n)))
              /\ spent' = [spent EXCEPT !.calls = @ + n]
    /\ Fails
    /\ UNCHANGED <<plan, late>>

(* What the last message calls is run: all calls at once, each in its task.   *)
(* Calls that cannot be resolved are answered by the same steps as a tool.    *)
RunTools ==
    /\ loop.at = "got"
    /\ LET calls == msgs[Len(msgs)].calls
       IN  /\ calls # {} => ~late.bound
           /\ loop' = [loop EXCEPT !.at = IF calls = {} THEN "save" ELSE "tools",
                                    !.running = calls]
    /\ UNCHANGED <<msgs, plan, late, spent>>

(* While the batch of an earlier turn still holds the queue no other starts,  *)
(* and the turn fails; calls that cannot be resolved are answered before.     *)
BatchRefused ==
    /\ loop.at = "got"
    /\ late.bound
    /\ LET calls == msgs[Len(msgs)].calls
       IN  \E failed \in SUBSET calls :
               /\ calls # {}
               /\ msgs' = msgs \o NoResponses(failed)
               /\ IF failed = calls THEN loop' = [loop EXCEPT !.at = "save"]
                  ELSE Fails
    /\ UNCHANGED <<plan, late, spent>>

(* ------------------------------ tools ------------------------------------- *)

(* Mutant: an interrupted batch is over when its first tool is.               *)
WithoutWaiting(c) ==
    LET left == loop.running \ {c}
    IN  [loop EXCEPT !.running = left,
                     !.at = IF @ = "cancelling" THEN "ending"
                            ELSE IF left # {} THEN @
                            ELSE IF @ = "mention" THEN "before" ELSE "save"]

(* Where the turn goes when the tool c has ended.                             *)
WithoutTool(c) ==
    LET left == loop.running \ {c}
    IN  [loop EXCEPT !.running = left,
                     !.at = IF left # {} THEN @
                            ELSE CASE @ = "mention" -> "before"
                                   [] @ = "tools" -> "save"
                                   [] @ = "cancelling" -> "ending"]

ToolAnswers(c) ==
    /\ c \in loop.running
    /\ msgs' = Append(msgs, Answered(c))
    /\ loop' = WithoutTool(c)
    /\ UNCHANGED <<plan, late, spent>>

(* The user refuses the tool, or a tool reports that the user cancelled it.   *)
UserCancels(c) ==
    /\ loop.at = "tools"
    /\ c \in loop.running
    /\ msgs' = Append(msgs, Answered(c))
    /\ loop' = [WithoutTool(c) EXCEPT !.cancelled = TRUE]
    /\ UNCHANGED <<plan, late, spent>>

(* exit_plan_mode: the user accepts the plan, may ask for a cleared context,  *)
(* and may have edited the plan's file while reviewing it.                    *)
ReviewPlan(c) ==
    /\ loop.at = "tools"
    /\ c \in loop.running
    /\ plan.active
    /\ \/ plan' = [plan EXCEPT !.edited = TRUE]
       \/ \E clear \in {plan.clear, TRUE}, edited \in {plan.edited, TRUE} :
              plan' = [plan EXCEPT !.active = FALSE, !.clear = clear,
                                   !.edited = edited]
    /\ UNCHANGED <<msgs, loop, late, spent>>

(* The user interrupts while the loop awaits: tools that run are cancelled    *)
(* and waited for, unless the user interrupts again.                          *)
Interrupt ==
    /\ loop.at \in {"before", "ask", "got", "tools", "cancelling", "save",
                    "clearing", "seeding", "hooks", "compacting", "ending"}
    /\ loop.then # "idle" \/ loop.at # "compacting"
    /\ loop' = [loop EXCEPT !.at = IF @ = "tools" THEN "cancelling"
                                   ELSE IF @ = "ending" THEN "idle"
                                   ELSE "ending",
                            !.running = IF loop.at = "cancelling" THEN {} ELSE @,
                            !.answered = FALSE]
    /\ late' = IF loop.at = "cancelling"
               THEN [late EXCEPT !.cancelled = @ \union loop.running]
               ELSE late
    /\ UNCHANGED <<msgs, plan, spent>>

(* A tool cancelled before its body began leaves no answer.                   *)
ToolVanishes(c) ==
    /\ loop.at = "cancelling"
    /\ c \in loop.running
    /\ loop' = WithoutTool(c)
    /\ UNCHANGED <<msgs, plan, late, spent>>

(* An interrupt while a mentioned file is read ends the turn unsaved.         *)
InterruptMention ==
    /\ loop.at = "mention"
    /\ \/ UNCHANGED msgs
       \/ \E c \in loop.running : msgs' = Append(msgs, Answered(c))
    /\ loop' = [loop EXCEPT !.at = "idle", !.running = {},
                            !.answered = FALSE]
    /\ UNCHANGED <<plan, late, spent>>

(* ------------------------------ a turn cut off in its consumer ------------ *)

(* The interrupt, or an error, meets the turn's task between two events of    *)
(* the loop. That ends the turn; the generators under it are closed later,    *)
(* one by one, and until then the tools know nothing of it.                   *)
Abandon ==
    /\ loop.at \in {"before", "ask", "got", "tools", "save", "hooks", "ending"}
    /\ loop' = [loop EXCEPT !.at = "idle", !.running = {},
                            !.answered = FALSE]
    /\ late' = [late EXCEPT !.left = @ \union loop.running,
                            !.bound = @ \/ loop.at \in {"tools", "save"}]
    /\ UNCHANGED <<msgs, plan, spent>>

(* Its batch is closed: the tools are cancelled and nobody waits for them.    *)
CloseBatch ==
    /\ late.bound
    /\ late' = [late EXCEPT !.bound = FALSE, !.left = {},
                            !.cancelled = @ \union late.left]
    /\ UNCHANGED <<msgs, loop, plan, spent>>

WithoutLate(c) ==
    [late EXCEPT !.left = @ \ {c}, !.cancelled = @ \ {c}]

(* Done or cancelled, such a tool appends its answer to what is now there.    *)
LateAnswers(c) ==
    /\ c \in late.left \union late.cancelled
    /\ msgs' = Append(msgs, Answered(c))
    /\ late' = [WithoutLate(c) EXCEPT !.astray = @ \/ c \notin OpenAt(msgs, Len(msgs))]
    /\ UNCHANGED <<loop, plan, spent>>

LateVanishes(c) ==
    /\ c \in late.cancelled
    /\ late' = WithoutLate(c)
    /\ UNCHANGED <<msgs, loop, plan, spent>>

(* The plan's review ends for such a tool; nobody looks for an edit any more. *)
LateReview(c) ==
    /\ c \in late.left
    /\ plan.active
    /\ \E clear \in {plan.clear, TRUE} :
           plan' = [plan EXCEPT !.active = FALSE, !.clear = clear]
    /\ UNCHANGED <<msgs, loop, late, spent>>

(* ------------------------------ after each answer ------------------------- *)

(* An accepted plan that asked for it: the context is cleared, and the loop   *)
(* goes on, whatever else the user cancelled in the same batch.               *)
TurnToThePlan ==
    /\ loop.at = "save"
    /\ plan.clear
    /\ plan' = [plan EXCEPT !.clear = FALSE, !.edited = FALSE]
    /\ loop' = [loop EXCEPT !.at = "clearing", !.cancelled = FALSE]
    /\ UNCHANGED <<msgs, late, spent>>

(* Mutant: a drained note does not keep the turn going.                       *)
JudgeDeafToNotes ==
    /\ loop.at = "save"
    /\ ~plan.clear
    /\ LET done == msgs[Len(msgs)].kind # "tool"
       IN  loop' = IF loop.cancelled
                   THEN [loop EXCEPT !.at = "ending", !.answered = FALSE]
                   ELSE [loop EXCEPT !.at = IF done THEN "hooks" ELSE "before"]
    /\ msgs' = IF plan.edited THEN Append(msgs, Said("note")) ELSE msgs
    /\ plan' = [plan EXCEPT !.edited = FALSE]
    /\ UNCHANGED <<late, spent>>

(* Otherwise the last message decides, read before pending notes are added.   *)
Judge ==
    /\ loop.at = "save"
    /\ ~plan.clear
    /\ LET done == msgs[Len(msgs)].kind # "tool" /\ ~plan.edited
       IN  loop' = IF loop.cancelled
                   THEN [loop EXCEPT !.at = "ending", !.answered = FALSE]
                   ELSE [loop EXCEPT !.at = IF done THEN "hooks" ELSE "before"]
    /\ msgs' = IF plan.edited THEN Append(msgs, Said("note")) ELSE msgs
    /\ plan' = [plan EXCEPT !.edited = FALSE]
    /\ UNCHANGED <<late, spent>>

ClearHistory ==
    /\ loop.at = "clearing"
    /\ msgs' = <<>>
    /\ late' = [late EXCEPT !.astray = FALSE]
    /\ plan' = [plan EXCEPT !.was = FALSE, !.told = TRUE]
    /\ loop' = [loop EXCEPT !.at = "seeding"]
    /\ UNCHANGED spent

SeedPlan ==
    /\ loop.at = "seeding"
    /\ \/ msgs' = Append(msgs, Said("note"))
       \/ UNCHANGED msgs
    /\ loop' = [loop EXCEPT !.at = "before"]
    /\ UNCHANGED <<plan, late, spent>>

(* A post-turn hook asks for a retry, or the turn is over.                    *)
HooksRetry ==
    /\ loop.at = "hooks"
    /\ msgs' = Append(msgs, Said("note"))
    /\ loop' = [loop EXCEPT !.at = "before"]
    /\ UNCHANGED <<plan, late, spent>>

HooksPass ==
    /\ loop.at = "hooks"
    /\ loop' = [loop EXCEPT !.at = "ending", !.answered = TRUE]
    /\ UNCHANGED <<msgs, plan, late, spent>>

EndTurn ==
    /\ loop.at = "ending"
    /\ loop' = [loop EXCEPT !.at = "idle"]
    /\ UNCHANGED <<msgs, plan, late, spent>>

(* ------------------------------ compaction -------------------------------- *)

StartCompaction(then, recovered) ==
    /\ spent.compactions < MaxCompactions
    /\ msgs' = Cleaned(msgs)
    /\ loop' = [loop EXCEPT !.at = "compacting", !.then = then,
                            !.recovered = recovered]
    /\ spent' = [spent EXCEPT !.compactions = @ + 1]
    /\ UNCHANGED <<plan, late>>

(* The threshold is reached: the model is called right after the compaction,  *)
(* without another look of the middleware.                                    *)
CompactFull ==
    /\ loop.at = "before"
    /\ spent.asks < MaxAsks
    /\ StartCompaction("ask", loop.recovered)

(* The model finds the context too long: compact and try again, once a turn.  *)
RecoverFromOverflow ==
    /\ loop.at = "ask"
    /\ ~loop.recovered
    /\ StartCompaction("before", TRUE)

(* The user asks for a compaction between turns.                              *)
CompactByHand ==
    /\ loop.at = "idle"
    /\ StartCompaction("idle", loop.recovered)

CompactionFails ==
    /\ loop.at = "compacting"
    /\ IF loop.then = "idle" THEN loop' = [loop EXCEPT !.at = "idle"] ELSE Fails
    /\ UNCHANGED <<msgs, plan, late, spent>>

Summarized ==
    /\ loop.at = "compacting"
    /\ msgs' = <<Said("envelope")>>
    /\ late' = [late EXCEPT !.astray = FALSE]
    /\ loop' = [loop EXCEPT !.at = "resetting"]
    /\ UNCHANGED <<plan, spent>>

(* Mutant: nobody tells the middleware that the transcript was replaced.      *)
CompactionEndsUntold ==
    /\ loop.at = "resetting"
    /\ loop' = [loop EXCEPT !.at = loop.then]
    /\ UNCHANGED <<msgs, plan, late, spent>>

(* An interrupt after that keeps the middleware's memory of the old one.      *)
InterruptReset ==
    /\ loop.at = "resetting"
    /\ loop.then # "idle"
    /\ plan' = [plan EXCEPT !.told = @ /\ ~plan.was]
    /\ loop' = [loop EXCEPT !.at = "ending", !.answered = FALSE]
    /\ UNCHANGED <<msgs, late, spent>>

(* The session has a new id and is saved; the middleware forgets.             *)
CompactionEnds ==
    /\ loop.at = "resetting"
    /\ plan' = [plan EXCEPT !.was = FALSE, !.told = TRUE]
    /\ loop' = [loop EXCEPT !.at = loop.then]
    /\ UNCHANGED <<msgs, late, spent>>

(* ------------------------------ from outside ------------------------------ *)

(* agent/switch is served while a turn runs.                                  *)
SwitchAgent ==
    /\ spent.switches < MaxSwitches
    /\ plan' = [plan EXCEPT !.active = ~@]
    /\ spent' = [spent EXCEPT !.switches = @ + 1]
    /\ UNCHANGED <<msgs, loop, late>>

(* config/reload and config/patch between turns: a new middleware, which has  *)
(* told the model nothing, beside the old transcript.                         *)
ReloadConfig ==
    /\ loop.at = "idle"
    /\ spent.switches < MaxSwitches
    /\ plan' = [plan EXCEPT !.was = FALSE, !.told = @ /\ ~plan.was]
    /\ spent' = [spent EXCEPT !.switches = @ + 1]
    /\ UNCHANGED <<msgs, loop, late>>

(* What the transcript last says of plan mode is what the profile is, or it   *)
(* says nothing and plan mode is off.                                         *)
Notices == {"remind", "exit"}

NoNotice(s) == \A i \in DOMAIN s : s[i].kind \notin Notices

NoticeIsCurrent(s, planning) ==
    \/ ~planning /\ NoNotice(s)
    \/ \E i \in DOMAIN s :
           /\ s[i].kind = IF planning THEN "remind" ELSE "exit"
           /\ \A j \in (i + 1)..Len(s) : s[j].kind \notin Notices

(* session/rewind between turns: what came before one of the user's messages  *)
(* is kept. Nobody tells the middleware, whose memory may now be of another   *)
(* transcript.                                                                *)
Rewind(k) ==
    /\ loop.at = "idle"
    /\ k \in DOMAIN msgs
    /\ msgs[k].kind \in {"user", "steer"}
    /\ msgs' = SubSeq(msgs, 1, k - 1)
    /\ plan' = [plan EXCEPT !.told = NoticeIsCurrent(msgs', plan.was)]
    /\ UNCHANGED <<loop, late, spent>>

Next ==
    \/ StartTurn \/ MentionFile \/ LimitReached \/ AskModel
    \/ Answers \/ AskFails \/ RunTools \/ BatchRefused
    \/ \E c \in Calls : \/ ToolAnswers(c) \/ UserCancels(c)
                        \/ ReviewPlan(c) \/ ToolVanishes(c)
                        \/ LateAnswers(c) \/ LateVanishes(c) \/ LateReview(c)
    \/ Interrupt \/ InterruptMention \/ Abandon \/ CloseBatch
    \/ TurnToThePlan \/ Judge \/ ClearHistory \/ SeedPlan
    \/ HooksRetry \/ HooksPass \/ EndTurn
    \/ CompactFull \/ RecoverFromOverflow \/ CompactByHand
    \/ CompactionFails \/ Summarized \/ CompactionEnds
    \/ InterruptReset
    \/ SwitchAgent \/ ReloadConfig
    \/ \E k \in DOMAIN msgs : Rewind(k)

Spec == Init /\ [][Next]_vars

(* ------------------------------ properties -------------------------------- *)

(* Each call is answered once, directly after the message that makes it.      *)
AllAnswered(s) ==
    /\ \A i \in DOMAIN s :
           LET n == Cardinality(s[i].calls)
           IN  /\ i + n <= Len(s)
               /\ {s[j].of : j \in (i + 1)..(i + n)} = s[i].calls
    /\ \A i, j \in DOMAIN s : s[i].of = s[j].of => i = j \/ s[i].of = 0

(* Whatever was interrupted, refused, rewound or cut off before, the          *)
(* transcript the model is called with, to answer or to summarize, answers    *)
(* each tool call exactly once and where the call was made (providers reject  *)
(* it otherwise): _fill_missing_tool_responses and the cancellation of        *)
(* running tools. Only a tool that outlives its turn can break that, when it  *)
(* answers behind its place and the transcript was not replaced since.        *)
ModelSeesAnsweredCalls ==
    loop.at \in {"ask", "compacting"} => AllAnswered(msgs) \/ late.astray

(* When the model is called, the last notice it reads about plan mode agrees  *)
(* with the profile its tools run under, through agent switches, interrupts,  *)
(* cleared contexts and compactions. The call directly after an automatic     *)
(* compaction may find no notice at all; and once the middleware's memory is  *)
(* of another transcript, lost to a reload or kept through an interrupted     *)
(* compaction or a rewind, it is true again with the next notice given.       *)
PlanNoticeIsCurrent ==
    [][loop.at # "ask" /\ loop'.at = "ask"
         => \/ NoticeIsCurrent(msgs', plan.active)
            \/ ~plan'.told
            \/ loop.at = "resetting" /\ NoNotice(msgs')]_vars

(* A turn that ends by itself ends on an answer of the model that calls no    *)
(* tool, all earlier calls answered in their places unless a tool of a turn   *)
(* cut off before answered elsewhere, and with no edit of the plan still      *)
(* waiting to be told.                                                        *)
EndsOnAnAnswer ==
    [][loop.at = "ending" /\ loop'.at = "idle" /\ loop'.answered
         => /\ \/ /\ msgs # <<>>
                  /\ msgs[Len(msgs)] = Asked({})
                  /\ AllAnswered(msgs)
               \/ late.astray
            /\ ~plan.edited]_vars

(* ------------------------------ with steering ----------------------------- *)

(* turn/steer adds a message at once, wherever the turn is suspended.         *)
Steer ==
    /\ loop.at # "idle"
    /\ loop.at \in {"compacting", "resetting"} => loop.then # "idle"
    /\ \A i \in DOMAIN msgs : msgs[i].kind # "steer"
    /\ msgs' = Append(msgs, Said("steer"))
    /\ UNCHANGED <<loop, plan, late, spent>>

SteerSpec == Init /\ [][Next \/ Steer]_vars
=============================================================================
