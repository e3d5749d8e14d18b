-------------------------- MODULE RunLifecycleProofs --------------------------
(***************************************************************************)
(* Proofs about RunLifecycle, for every set of runs and conversations and  *)
(* every value of MaxSteps, MaxCalls and MaxBoots.                         *)
(***************************************************************************)
EXTENDS RunLifecycle, TLAPS

(* Where a run has calls of the current response left. *)
InCalls == {"tool_check", "tool_requested", "asking", "waiting", "tool", "tool_done"}

(* What makes TypeOK inductive: the counters stay within their bounds      *)
(* because of where the task is when it moves them.                        *)
Counters ==
    \A r \in Runs :
        /\ pc[r] \in InCalls => calls[r] >= 1
        /\ pc[r] \in InCalls \union {"loading", "step", "announcing", "model"}
              => steps[r] < MaxSteps
        /\ pc[r] \in {"unused", "handler", "done"} => steps[r] = 0
        /\ pc[r] \in {"concluding", "finishing"} => outcome[r] \in Terminal

TypeInv == TypeOK /\ Counters

USE DEF RowExists, Cancelled, IsCancelled, AtLimit, Goto, Conclude, Spend,
        Terminal, Publishing, Asking, InTask, Places, InCalls,
        UserMessage, AssistantMessage, stored, loop

LEMMA TypeInit == Init => TypeInv
  BY HomeAssumption, BoundsAssumption DEF Init, TypeInv, TypeOK, Counters

(* What a task leaves behind is well typed. *)
LEMMA TypeEnd ==
    ASSUME TypeInv, NEW R \in SUBSET Runs, EndTasks(R)
    PROVE  /\ token' \in [Runs -> {"none", "live", "cancelled"}]
           /\ pc' \in [Runs -> Places]
           /\ outcome' \in [Runs -> Terminal \union {"none"}]
           /\ steps' \in [Runs -> 0..MaxSteps]
           /\ calls' \in [Runs -> 0..MaxCalls]
           /\ decision' \in [Runs -> {"none", "allow", "deny"}]
           /\ overrun' \in [Runs -> Nat]
           /\ Counters'
  BY BoundsAssumption DEF TypeInv, TypeOK, Counters, EndTasks

LEMMA TypeTask ==
    ASSUME TypeInv, NEW r \in Runs, TaskStep(r)
    PROVE  TypeInv'
  <1> USE HomeAssumption, BoundsAssumption DEF TypeInv, TypeOK, Counters
  <1>1. CASE Load(r)              BY <1>1 DEF Load
  <1>2. CASE StopAtCheckpoint(r)  BY <1>2 DEF StopAtCheckpoint
  <1>3. CASE BeginStep(r)         BY <1>3 DEF BeginStep
  <1>4. CASE ExceedBudget(r)      BY <1>4 DEF ExceedBudget
  <1>5. CASE CallModel(r)         BY <1>5 DEF CallModel
  <1>6. CASE ModelReturns(r)
    <2>1. steps[r] \in 0..MaxSteps /\ steps[r] < MaxSteps BY <1>6 DEF ModelReturns
    <2>2. steps[r] + 1 \in 0..MaxSteps BY <2>1
    <2>3. steps' \in [Runs -> 0..MaxSteps] BY <1>6, <2>2 DEF ModelReturns
    <2> QED BY <1>6, <2>3 DEF ModelReturns
  <1>7. CASE ModelFails(r)
    <2>1. PICK s \in {"cancelled", "failed"} : Conclude(r, s)
      BY <1>7 DEF ModelFails
    <2> QED BY <1>7, <2>1 DEF ModelFails
  <1>8. CASE TakeAnswer(r)        BY <1>8 DEF TakeAnswer
  <1>9. CASE ReachLimit(r)        BY <1>9 DEF ReachLimit
  <1>10. CASE TakeCalls(r)        BY <1>10 DEF TakeCalls
  <1>11. CASE RequestCall(r)      BY <1>11 DEF RequestCall
  <1>12. CASE RefuseCall(r)       BY <1>12 DEF RefuseCall
  <1>13. CASE StartTool(r)        BY <1>13 DEF StartTool
  <1>14. CASE AskApproval(r)      BY <1>14 DEF AskApproval
  <1>15. CASE AwaitDecision(r)    BY <1>15 DEF AwaitDecision
  <1>16. CASE AskingFails(r)      BY <1>16 DEF AskingFails
  <1>17. CASE ResumeAllowed(r)    BY <1>17 DEF ResumeAllowed
  <1>18. CASE ResumeDenied(r)     BY <1>18 DEF ResumeDenied
  <1>19. CASE ToolReturns(r)      BY <1>19 DEF ToolReturns
  <1>20. CASE RecordCall(r)       BY <1>20 DEF RecordCall
  <1>21. CASE PublishTerminal(r)  BY <1>21 DEF PublishTerminal
  <1>22. CASE FailWithoutEvent(r) BY <1>22 DEF FailWithoutEvent
  <1>23. CASE Finish(r)
    <2>1. EndTasks({r}) /\ {r} \in SUBSET Runs BY <1>23 DEF Finish
    <2>2. status' \in [Runs -> Terminal \union {"none", "created"}]
      BY <1>23 DEF Finish
    <2>3. messages' \in
             [Conversations -> Seq([role : {"user", "assistant"}, run : Runs])]
      BY <1>23 DEF Finish
    <2> QED BY <1>23, <2>1, <2>2, <2>3, TypeEnd DEF Finish
  <1>24. CASE FinishRaises(r)
    <2>1. EndTasks({r}) /\ {r} \in SUBSET Runs BY <1>24 DEF FinishRaises
    <2> QED BY <1>24, <2>1, TypeEnd DEF FinishRaises
  <1> QED BY <1>1, <1>2, <1>3, <1>4, <1>5, <1>6, <1>7, <1>8, <1>9, <1>10,
             <1>11, <1>12, <1>13, <1>14, <1>15, <1>16, <1>17, <1>18, <1>19,
             <1>20, <1>21, <1>22, <1>23, <1>24 DEF TaskStep

LEMMA TypeStep == TypeInv /\ [Next]_vars => TypeInv'
  <1> USE HomeAssumption, BoundsAssumption DEF TypeInv, TypeOK, Counters
  <1> SUFFICES ASSUME TypeInv, [Next]_vars PROVE TypeInv'
    OBVIOUS
  <1>1. ASSUME NEW r \in Runs, Submit(r) PROVE TypeInv'
    <2>1. messages' \in
             [Conversations -> Seq([role : {"user", "assistant"}, run : Runs])]
      BY <1>1 DEF Submit
    <2> QED BY <1>1, <2>1 DEF Submit
  <1>2. ASSUME NEW r \in Runs, Cancel(r) PROVE TypeInv'
    BY <1>2 DEF Cancel
  <1>3. ASSUME NEW r \in Runs, Decide(r) PROVE TypeInv'
    BY <1>3 DEF Decide
  <1>4. ASSUME NEW r \in Runs, Dispatch(r) PROVE TypeInv'
    BY <1>4 DEF Dispatch
  <1>5. ASSUME NEW r \in Runs, TaskStep(r) PROVE TypeInv'
    BY <1>5, TypeTask
  <1>6. ASSUME NEW c \in Conversations, DeleteConversation(c) PROVE TypeInv'
    <2> DEFINE M == [role : {"user", "assistant"}, run : Runs]
    <2>1. <<>> \in Seq(M) OBVIOUS
    <2> HIDE DEF M
    <2>2. messages \in [Conversations -> Seq(M)] BY DEF M
    <2>3. messages' \in [Conversations -> Seq(M)]
      BY <1>6, <2>1, <2>2 DEF DeleteConversation
    <2>4. messages' \in
             [Conversations -> Seq([role : {"user", "assistant"}, run : Runs])]
      BY <2>3 DEF M
    <2> QED BY <1>6, <2>4 DEF DeleteConversation
  <1>7. CASE CloseServer     BY <1>7 DEF CloseServer
  <1>8. CASE CloseDispatcher BY <1>8 DEF CloseDispatcher
  <1>9. CASE DropTasks /\ server' = "down" /\ UNCHANGED <<stored, boots>>
    <2>1. PICK R \in SUBSET Runs : EndTasks(R) BY <1>9 DEF DropTasks
    <2> QED BY <1>9, <2>1, TypeEnd
  <1>10. CASE StopProcess \/ Crash BY <1>9, <1>10 DEF StopProcess, Crash
  <1>11. CASE Start
    <2>1. boots' \in 1..MaxBoots BY <1>11 DEF Start
    <2> QED BY <1>11, <2>1 DEF Start
  <1>12. CASE UNCHANGED vars BY <1>12 DEF vars
  <1> QED BY <1>1, <1>2, <1>3, <1>4, <1>5, <1>6, <1>7, <1>8, <1>9, <1>10, <1>11,
             <1>12 DEF Next, Request, Stopping

(* Every variable keeps its type: in particular the step counter never     *)
(* passes max_steps, and no call is recorded that was not asked for.       *)
THEOREM TypeCorrect == Spec => []TypeOK
  <1>1. TypeInv => TypeOK BY DEF TypeInv
  <1> QED BY TypeInit, TypeStep, <1>1, PTL DEF Spec

-------------------------------------------------------------------------------
(* The status and the terminal event of a run *)

(* Why the two never disagree: the status is open while the task lives,    *)
(* the event is stored between the loop and finish, and finish stores the  *)
(* outcome the event was made from.                                        *)
Settling ==
    \A r \in Runs :
        /\ pc[r] = "unused" => status[r] = "none"
        /\ pc[r] \in InTask \union {"handler"} => status[r] \in {"none", "created"}
        /\ terminalEvent[r] # "none" => pc[r] \in {"finishing", "done"}
        /\ pc[r] = "finishing" /\ terminalEvent[r] # "none"
              => terminalEvent[r] = outcome[r]

SettleInv == TypeInv /\ Settling /\ EventAgreesWithStatus

LEMMA SettleInit == Init => SettleInv
  BY TypeInit DEF Init, SettleInv, Settling, EventAgreesWithStatus

LEMMA SettleTask ==
    ASSUME SettleInv, NEW r \in Runs, TaskStep(r)
    PROVE  (Settling /\ EventAgreesWithStatus)'
  <1> USE DEF SettleInv, TypeInv, TypeOK, Settling, EventAgreesWithStatus
  <1>1. CASE Load(r)              BY <1>1 DEF Load
  <1>2. CASE StopAtCheckpoint(r)  BY <1>2 DEF StopAtCheckpoint
  <1>3. CASE BeginStep(r)         BY <1>3 DEF BeginStep
  <1>4. CASE ExceedBudget(r)      BY <1>4 DEF ExceedBudget
  <1>5. CASE CallModel(r)         BY <1>5 DEF CallModel
  <1>6. CASE ModelReturns(r)      BY <1>6 DEF ModelReturns
  <1>7. CASE ModelFails(r)        BY <1>7 DEF ModelFails
  <1>8. CASE TakeAnswer(r)        BY <1>8 DEF TakeAnswer
  <1>9. CASE ReachLimit(r)        BY <1>9 DEF ReachLimit
  <1>10. CASE TakeCalls(r)        BY <1>10 DEF TakeCalls
  <1>11. CASE RequestCall(r)      BY <1>11 DEF RequestCall
  <1>12. CASE RefuseCall(r)       BY <1>12 DEF RefuseCall
  <1>13. CASE StartTool(r)        BY <1>13 DEF StartTool
  <1>14. CASE AskApproval(r)      BY <1>14 DEF AskApproval
  <1>15. CASE AwaitDecision(r)    BY <1>15 DEF AwaitDecision
  <1>16. CASE AskingFails(r)      BY <1>16 DEF AskingFails
  <1>17. CASE ResumeAllowed(r)    BY <1>17 DEF ResumeAllowed
  <1>18. CASE ResumeDenied(r)     BY <1>18 DEF ResumeDenied
  <1>19. CASE ToolReturns(r)      BY <1>19 DEF ToolReturns
  <1>20. CASE RecordCall(r)       BY <1>20 DEF RecordCall
  <1>21. CASE PublishTerminal(r)  BY <1>21 DEF PublishTerminal
  <1>22. CASE FailWithoutEvent(r) BY <1>22 DEF FailWithoutEvent
  <1>23. CASE Finish(r)           BY <1>23 DEF Finish, EndTasks
  <1>24. CASE FinishRaises(r)     BY <1>24 DEF FinishRaises, EndTasks
  <1> QED BY <1>1, <1>2, <1>3, <1>4, <1>5, <1>6, <1>7, <1>8, <1>9, <1>10,
             <1>11, <1>12, <1>13, <1>14, <1>15, <1>16, <1>17, <1>18, <1>19,
             <1>20, <1>21, <1>22, <1>23, <1>24 DEF TaskStep

LEMMA SettleStep == SettleInv /\ [Next]_vars => SettleInv'
  <1> SUFFICES ASSUME SettleInv, [Next]_vars
               PROVE  (Settling /\ EventAgreesWithStatus)'
    BY TypeStep DEF SettleInv
  <1> USE DEF SettleInv, TypeInv, TypeOK, Settling, EventAgreesWithStatus
  <1>1. ASSUME NEW r \in Runs, Submit(r)
        PROVE  (Settling /\ EventAgreesWithStatus)'
    BY <1>1 DEF Submit
  <1>2. ASSUME NEW r \in Runs, Cancel(r) \/ Decide(r) \/ Dispatch(r)
        PROVE  (Settling /\ EventAgreesWithStatus)'
    BY <1>2 DEF Cancel, Decide, Dispatch
  <1>3. ASSUME NEW r \in Runs, TaskStep(r)
        PROVE  (Settling /\ EventAgreesWithStatus)'
    BY <1>3, SettleTask
  <1>4. ASSUME NEW c \in Conversations, DeleteConversation(c)
        PROVE  (Settling /\ EventAgreesWithStatus)'
    BY <1>4 DEF DeleteConversation
  <1>5. CASE CloseServer \/ CloseDispatcher BY <1>5 DEF CloseServer, CloseDispatcher
  <1>6. CASE StopProcess \/ Crash BY <1>6 DEF StopProcess, Crash, DropTasks, EndTasks
  <1>7. CASE Start BY <1>7 DEF Start
  <1>8. CASE UNCHANGED vars BY <1>8 DEF vars
  <1> QED BY <1>1, <1>2, <1>3, <1>4, <1>5, <1>6, <1>7, <1>8 DEF Next, Request, Stopping

(* The terminal event a client has seen is never contradicted by the       *)
(* status in the runs table.                                               *)
THEOREM EventsTellTheStatus == Spec => []EventAgreesWithStatus
  <1>1. SettleInv => EventAgreesWithStatus BY DEF SettleInv
  <1> QED BY SettleInit, SettleStep, <1>1, PTL DEF Spec

(* Of the steps of a task, only Finish writes a status or a transcript. *)
LEMMA OnlyFinishWrites ==
    ASSUME NEW r \in Runs, TaskStep(r), ~Finish(r)
    PROVE  UNCHANGED <<status, messages>>
  BY DEF TaskStep, Load, StopAtCheckpoint, BeginStep, ExceedBudget,
         CallModel, ModelReturns, ModelFails, TakeAnswer, ReachLimit,
         TakeCalls, RequestCall, RefuseCall, StartTool, AskApproval,
         AwaitDecision, AskingFails, ResumeAllowed, ResumeDenied,
         ToolReturns, RecordCall, PublishTerminal, FailWithoutEvent,
         FinishRaises

(* Only Finish writes a status, and only over an open one. *)
LEMMA OnlyFinishSettles ==
    ASSUME SettleInv, [Next]_vars, NEW q \in Runs, status[q] \in Terminal
    PROVE  status'[q] \in {status[q], "none"}
  <1> USE DEF SettleInv, TypeInv, TypeOK, Settling
  <1>1. ASSUME NEW r \in Runs, Submit(r) PROVE status'[q] \in {status[q], "none"}
    BY <1>1 DEF Submit
  <1>2. ASSUME NEW r \in Runs, TaskStep(r) PROVE status'[q] \in {status[q], "none"}
    <2>1. CASE Finish(r) BY <2>1 DEF Finish
    <2>2. CASE ~Finish(r) BY <1>2, <2>2, OnlyFinishWrites
    <2> QED BY <2>1, <2>2
  <1>3. ASSUME NEW c \in Conversations, DeleteConversation(c)
        PROVE  status'[q] \in {status[q], "none"}
    BY <1>3 DEF DeleteConversation
  <1>4. CASE UNCHANGED status BY <1>4
  <1> QED BY <1>1, <1>2, <1>3, <1>4
       DEF Next, Request, Stopping, Cancel, Decide, Dispatch, CloseServer,
           CloseDispatcher, StopProcess, Crash, Start, vars

(* Once settled, a run keeps its status until its conversation is deleted: *)
(* no crash, restart, late finish or failed step changes it.               *)
THEOREM SettledForGood == Spec => SettledStays
  <1>1. SettleInv /\ [Next]_vars
           => [\A r \in Runs : status[r] \in Terminal
                                  => status'[r] \in {status[r], "none"}]_vars
    BY OnlyFinishSettles
  <1> QED BY SettleInit, SettleStep, <1>1, PTL DEF Spec, SettledStays

-------------------------------------------------------------------------------
(* Work after a cancellation *)

(* A run that has started something since it was cancelled is on its way   *)
(* to the next checkpoint.                                                 *)
Overrun ==
    \A r \in Runs :
        /\ overrun[r] <= 1
        /\ overrun[r] = 1 =>
              /\ Cancelled(r)
              /\ pc[r] \in {"model", "answered", "tool", "tool_done", "concluding",
                            "finishing"}

LEMMA OverrunTask ==
    ASSUME TypeInv, Overrun, NEW r \in Runs, TaskStep(r)
    PROVE  Overrun'
  <1> USE DEF TypeInv, TypeOK, Overrun
  <1>1. CASE Load(r)              BY <1>1 DEF Load
  <1>2. CASE StopAtCheckpoint(r)  BY <1>2 DEF StopAtCheckpoint
  <1>3. CASE BeginStep(r)         BY <1>3 DEF BeginStep
  <1>4. CASE ExceedBudget(r)      BY <1>4 DEF ExceedBudget
  <1>5. CASE CallModel(r)         BY <1>5 DEF CallModel
  <1>6. CASE ModelReturns(r)      BY <1>6 DEF ModelReturns
  <1>7. CASE ModelFails(r)        BY <1>7 DEF ModelFails
  <1>8. CASE TakeAnswer(r)        BY <1>8 DEF TakeAnswer
  <1>9. CASE ReachLimit(r)        BY <1>9 DEF ReachLimit
  <1>10. CASE TakeCalls(r)        BY <1>10 DEF TakeCalls
  <1>11. CASE RequestCall(r)      BY <1>11 DEF RequestCall
  <1>12. CASE RefuseCall(r)       BY <1>12 DEF RefuseCall
  <1>13. CASE StartTool(r)        BY <1>13 DEF StartTool
  <1>14. CASE AskApproval(r)      BY <1>14 DEF AskApproval
  <1>15. CASE AwaitDecision(r)    BY <1>15 DEF AwaitDecision
  <1>16. CASE AskingFails(r)      BY <1>16 DEF AskingFails
  <1>17. CASE ResumeAllowed(r)    BY <1>17 DEF ResumeAllowed
  <1>18. CASE ResumeDenied(r)     BY <1>18 DEF ResumeDenied
  <1>19. CASE ToolReturns(r)      BY <1>19 DEF ToolReturns
  <1>20. CASE RecordCall(r)       BY <1>20 DEF RecordCall
  <1>21. CASE PublishTerminal(r)  BY <1>21 DEF PublishTerminal
  <1>22. CASE FailWithoutEvent(r) BY <1>22 DEF FailWithoutEvent
  <1>23. CASE Finish(r)           BY <1>23 DEF Finish, EndTasks
  <1>24. CASE FinishRaises(r)     BY <1>24 DEF FinishRaises, EndTasks
  <1> QED BY <1>1, <1>2, <1>3, <1>4, <1>5, <1>6, <1>7, <1>8, <1>9, <1>10,
             <1>11, <1>12, <1>13, <1>14, <1>15, <1>16, <1>17, <1>18, <1>19,
             <1>20, <1>21, <1>22, <1>23, <1>24 DEF TaskStep

LEMMA OverrunStep == TypeInv /\ Overrun /\ [Next]_vars => Overrun'
  <1> SUFFICES ASSUME TypeInv, Overrun, [Next]_vars PROVE Overrun'
    OBVIOUS
  <1> USE DEF TypeInv, TypeOK, Overrun
  <1>1. ASSUME NEW r \in Runs, Request(r) \/ Dispatch(r) PROVE Overrun'
    <2>1. CASE Submit(r)   BY <2>1 DEF Submit
    <2>2. CASE Cancel(r)   BY <2>2 DEF Cancel
    <2>3. CASE Decide(r)   BY <2>3 DEF Decide
    <2>4. CASE Dispatch(r) BY <2>4 DEF Dispatch
    <2> QED BY <1>1, <2>1, <2>2, <2>3, <2>4 DEF Request
  <1>2. ASSUME NEW r \in Runs, TaskStep(r) PROVE Overrun'
    BY <1>2, OverrunTask
  <1>3. ASSUME NEW c \in Conversations, DeleteConversation(c) PROVE Overrun'
    BY <1>3 DEF DeleteConversation
  <1>4. CASE CloseServer \/ CloseDispatcher \/ Start
    BY <1>4 DEF CloseServer, CloseDispatcher, Start
  <1>5. CASE StopProcess \/ Crash BY <1>5 DEF StopProcess, Crash, DropTasks, EndTasks
  <1>6. CASE UNCHANGED vars BY <1>6 DEF vars
  <1> QED BY <1>1, <1>2, <1>3, <1>4, <1>5, <1>6 DEF Next, Request, Stopping

(* However the cancel request falls, at most one more model call or tool   *)
(* is started for the run.                                                 *)
THEOREM CancelBoundsWork == Spec => []OneStepAfterCancel
  <1>1. Init => Overrun BY DEF Init, Overrun
  <1>2. Overrun => OneStepAfterCancel BY DEF Overrun, OneStepAfterCancel
  <1> QED BY TypeInit, TypeStep, OverrunStep, <1>1, <1>2, PTL DEF Spec

-------------------------------------------------------------------------------
(* The transcript *)

(* A run without a row has left nothing in its conversation's transcript. *)
NoTrace ==
    \A r \in Runs : ~RowExists(r) => Asked(r) = {} /\ Answered(r) = {}

TranscriptInv == SettleInv /\ NoTrace /\ AnswerIffCompleted

LEMMA TranscriptInit == Init => TranscriptInv
  BY SettleInit, HomeAssumption
     DEF Init, TranscriptInv, NoTrace, AnswerIffCompleted, Asked, Answered, Positions

(* Steps that leave the rows and the transcripts alone. *)
LEMMA TranscriptSame ==
    ASSUME TranscriptInv, UNCHANGED <<status, messages>>
    PROVE  (NoTrace /\ AnswerIffCompleted)'
  BY DEF TranscriptInv, NoTrace, AnswerIffCompleted, Asked, Answered, Positions

(* A message appended for r is found at the new end, and no place of       *)
(* another run's messages moves.                                           *)
LEMMA AppendTrace ==
    ASSUME TypeOK, NEW r \in Runs, NEW x \in {UserMessage(r), AssistantMessage(r)},
           messages' = [messages EXCEPT ![Home[r]] = Append(@, x)]
    PROVE  LET end == Len(messages[Home[r]]) + 1
           IN  /\ Asked(r)' = IF x = UserMessage(r) THEN Asked(r) \union {end}
                              ELSE Asked(r)
               /\ Answered(r)' = IF x = AssistantMessage(r)
                                 THEN Answered(r) \union {end} ELSE Answered(r)
               /\ \A q \in Runs \ {r} :
                     Asked(q)' = Asked(q) /\ Answered(q)' = Answered(q)
               /\ \A q \in Runs :
                     DOMAIN messages[Home[q]] \subseteq DOMAIN messages'[Home[q]]
               /\ end \in DOMAIN messages'[Home[r]]
               /\ \A i \in DOMAIN messages[Home[r]] : i < end
  <1> DEFINE M == [role : {"user", "assistant"}, run : Runs]
             c == Home[r]
  <1>1. /\ c \in Conversations /\ messages[c] \in Seq(M) /\ x \in M
        /\ messages'[c] = Append(messages[c], x)
        /\ \A d \in Conversations : d # c => messages'[d] = messages[d]
    <2>1. c \in Conversations BY HomeAssumption
    <2>2. x \in M OBVIOUS
    <2> HIDE DEF M
    <2>3. messages \in [Conversations -> Seq(M)] BY DEF TypeOK, M
    <2> QED BY <2>1, <2>2, <2>3
  <1>2. \A q \in Runs : q # r => /\ UserMessage(q) # x /\ AssistantMessage(q) # x
    OBVIOUS
  <1>3. UserMessage(r) # AssistantMessage(r)
    OBVIOUS
  <1>4. /\ DOMAIN messages[c] = 1..Len(messages[c]) /\ Len(messages[c]) \in Nat
        /\ DOMAIN messages'[c] = 1..(Len(messages[c]) + 1)
    BY <1>1
  <1> HIDE DEF M, UserMessage, AssistantMessage
  <1>5. ASSUME NEW m
        PROVE  Positions(messages'[c], m) =
                 IF x = m THEN Positions(messages[c], m) \union {Len(messages[c]) + 1}
                 ELSE Positions(messages[c], m)
    BY <1>1 DEF Positions
  <1>6. ASSUME NEW q \in Runs, q # r
        PROVE  Asked(q)' = Asked(q) /\ Answered(q)' = Answered(q)
    <2>1. CASE Home[q] = c
      BY <1>2, <1>5, <1>6, <2>1 DEF Asked, Answered
    <2>2. CASE Home[q] # c
      <3>1. messages'[Home[q]] = messages[Home[q]]
        BY <1>1, <2>2, HomeAssumption
      <3> QED BY <3>1 DEF Asked, Answered
    <2> QED BY <2>1, <2>2
  <1>7. \A q \in Runs : DOMAIN messages[Home[q]] \subseteq DOMAIN messages'[Home[q]]
    BY <1>1, <1>4, HomeAssumption
  <1>8. /\ Asked(r)' = IF x = UserMessage(r)
                       THEN Asked(r) \union {Len(messages[c]) + 1} ELSE Asked(r)
        /\ Answered(r)' = IF x = AssistantMessage(r)
                          THEN Answered(r) \union {Len(messages[c]) + 1}
                          ELSE Answered(r)
    BY <1>5 DEF Asked, Answered
  <1> QED BY <1>4, <1>6, <1>7, <1>8

(* What AnswerIffCompleted says of one run. *)
Told(r) ==
    \E i \in DOMAIN messages[Home[r]] :
        /\ Asked(r) = {i}
        /\ IF status[r] = "completed"
           THEN \E j \in DOMAIN messages[Home[r]] : i < j /\ Answered(r) = {j}
           ELSE Answered(r) = {}

LEMMA TranscriptSubmit ==
    ASSUME TranscriptInv, NEW r \in Runs, Submit(r)
    PROVE  (NoTrace /\ AnswerIffCompleted)'
  <1> DEFINE end == Len(messages[Home[r]]) + 1
  <1>1. /\ status[r] = "none" /\ status'[r] = "created"
        /\ \A q \in Runs : q # r => status'[q] = status[q]
    BY DEF TranscriptInv, SettleInv, TypeInv, TypeOK, Settling, Submit
  <1>2. Asked(r) = {} /\ Answered(r) = {}
    BY <1>1 DEF TranscriptInv, NoTrace
  <1>3. /\ TypeOK
        /\ messages' = [messages EXCEPT ![Home[r]] = Append(@, UserMessage(r))]
    BY DEF TranscriptInv, SettleInv, TypeInv, Submit
  <1>4. UserMessage(r) # AssistantMessage(r)
    OBVIOUS
  <1> HIDE DEF UserMessage, AssistantMessage
  <1>5. /\ Asked(r)' = {end} /\ Answered(r)' = {} /\ end \in DOMAIN messages'[Home[r]]
        /\ \A q \in Runs \ {r} : Asked(q)' = Asked(q) /\ Answered(q)' = Answered(q)
        /\ \A q \in Runs :
              DOMAIN messages[Home[q]] \subseteq DOMAIN messages'[Home[q]]
    BY <1>2, <1>3, <1>4, AppendTrace
  <1>6. NoTrace'
    BY <1>1, <1>5 DEF TranscriptInv, NoTrace
  <1>7. Told(r)'
    BY <1>1, <1>5 DEF Told
  <1>8. ASSUME NEW q \in Runs, q # r, RowExists(q)' PROVE Told(q)'
    <2>1. Told(q)
      BY <1>1, <1>8 DEF TranscriptInv, AnswerIffCompleted, Told
    <2> QED BY <1>1, <1>5, <1>8, <2>1 DEF Told
  <1> QED BY <1>6, <1>7, <1>8 DEF AnswerIffCompleted, Told

LEMMA TranscriptFinish ==
    ASSUME TranscriptInv, NEW r \in Runs, Finish(r)
    PROVE  (NoTrace /\ AnswerIffCompleted)'
  <1> DEFINE end == Len(messages[Home[r]]) + 1
  <1>1. /\ status[r] = "created" /\ status'[r] = outcome[r] /\ outcome[r] # "none"
        /\ \A q \in Runs : q # r => status'[q] = status[q]
    BY DEF TranscriptInv, SettleInv, TypeInv, TypeOK, Counters, Settling, Finish
  <1>2. Told(r)
    BY <1>1 DEF TranscriptInv, AnswerIffCompleted, Told
  <1>3. CASE outcome[r] # "completed"
    <2>1. UNCHANGED messages BY <1>3 DEF Finish
    <2>2. \A q \in Runs : UNCHANGED <<Asked(q), Answered(q)>>
      BY <2>1 DEF Asked, Answered
    <2>3. Told(r)' BY <1>1, <1>2, <1>3, <2>1, <2>2 DEF Told
    <2>4. ASSUME NEW q \in Runs, q # r, RowExists(q)' PROVE Told(q)'
      BY <1>1, <2>1, <2>2, <2>4 DEF Told, TranscriptInv, AnswerIffCompleted
    <2>5. NoTrace' BY <1>1, <2>2 DEF TranscriptInv, NoTrace
    <2> QED BY <2>3, <2>4, <2>5 DEF AnswerIffCompleted, Told
  <1>4. CASE outcome[r] = "completed"
    <2>1. /\ TypeOK
          /\ messages' = [messages EXCEPT ![Home[r]] = Append(@, AssistantMessage(r))]
      BY <1>4 DEF TranscriptInv, SettleInv, TypeInv, Finish
    <2>2. UserMessage(r) # AssistantMessage(r)
      OBVIOUS
    <2> HIDE DEF UserMessage, AssistantMessage
    <2>3. /\ Asked(r)' = Asked(r) /\ Answered(r)' = Answered(r) \union {end}
          /\ end \in DOMAIN messages'[Home[r]]
          /\ \A i \in DOMAIN messages[Home[r]] : i < end
          /\ \A q \in Runs \ {r} : Asked(q)' = Asked(q) /\ Answered(q)' = Answered(q)
          /\ \A q \in Runs :
                DOMAIN messages[Home[q]] \subseteq DOMAIN messages'[Home[q]]
      BY <2>1, <2>2, AppendTrace
    <2>4. Told(r)'
      BY <1>1, <1>2, <1>4, <2>3 DEF Told
    <2>5. ASSUME NEW q \in Runs, q # r, RowExists(q)' PROVE Told(q)'
      <3>1. Told(q)
        BY <1>1, <2>5 DEF TranscriptInv, AnswerIffCompleted, Told
      <3> QED BY <1>1, <2>3, <2>5, <3>1 DEF Told
    <2>6. NoTrace' BY <1>1, <2>3 DEF TranscriptInv, NoTrace
    <2> QED BY <2>4, <2>5, <2>6 DEF AnswerIffCompleted, Told
  <1> QED BY <1>3, <1>4

LEMMA TranscriptDelete ==
    ASSUME TranscriptInv, NEW c \in Conversations, DeleteConversation(c)
    PROVE  (NoTrace /\ AnswerIffCompleted)'
  <1>1. /\ messages'[c] = <<>>
        /\ \A d \in Conversations : d # c => messages'[d] = messages[d]
        /\ \A q \in Runs : status'[q] = IF Home[q] = c THEN "none" ELSE status[q]
    BY DEF TranscriptInv, SettleInv, TypeInv, TypeOK, DeleteConversation
  <1>2. ASSUME NEW q \in Runs, Home[q] = c
        PROVE  ~RowExists(q)' /\ Asked(q)' = {} /\ Answered(q)' = {}
    BY <1>1, <1>2 DEF Asked, Answered, Positions
  <1>3. ASSUME NEW q \in Runs, Home[q] # c
        PROVE  UNCHANGED <<status[q], messages[Home[q]], Asked(q), Answered(q)>>
    BY <1>1, <1>3, HomeAssumption DEF Asked, Answered
  <1>4. NoTrace' BY <1>2, <1>3 DEF TranscriptInv, NoTrace
  <1>5. ASSUME NEW q \in Runs, RowExists(q)' PROVE Told(q)'
    BY <1>2, <1>3, <1>5 DEF TranscriptInv, AnswerIffCompleted, Told
  <1> QED BY <1>4, <1>5 DEF AnswerIffCompleted, Told

LEMMA TranscriptStep == TranscriptInv /\ [Next]_vars => TranscriptInv'
  <1> SUFFICES ASSUME TranscriptInv, [Next]_vars
               PROVE  (NoTrace /\ AnswerIffCompleted)'
    BY SettleStep DEF TranscriptInv
  <1>1. ASSUME NEW r \in Runs, Submit(r) PROVE (NoTrace /\ AnswerIffCompleted)'
    BY <1>1, TranscriptSubmit
  <1>2. ASSUME NEW r \in Runs, TaskStep(r) PROVE (NoTrace /\ AnswerIffCompleted)'
    <2>1. CASE Finish(r) BY <2>1, TranscriptFinish
    <2>2. CASE ~Finish(r) BY <1>2, <2>2, OnlyFinishWrites, TranscriptSame
    <2> QED BY <2>1, <2>2
  <1>3. ASSUME NEW c \in Conversations, DeleteConversation(c)
        PROVE  (NoTrace /\ AnswerIffCompleted)'
    BY <1>3, TranscriptDelete
  <1>4. CASE UNCHANGED <<status, messages>> BY <1>4, TranscriptSame
  <1> QED BY <1>1, <1>2, <1>3, <1>4
       DEF Next, Request, Stopping, Cancel, Decide, Dispatch, CloseServer,
           CloseDispatcher, StopProcess, Crash, Start, vars

(* The transcript and the run rows tell the same story: a stored run has   *)
(* its one question, and its one answer exactly when it is completed.      *)
THEOREM TranscriptsAreComplete == Spec => []AnswerIffCompleted
  <1>1. TranscriptInv => AnswerIffCompleted BY DEF TranscriptInv
  <1> QED BY TranscriptInit, TranscriptStep, <1>1, PTL DEF Spec

-------------------------------------------------------------------------------
(* The refinement of RunPromise *)

LEMMA StoreInit == Init => Store!PromiseInit
  BY HomeAssumption
     DEF Init, Store!PromiseInit, PhaseOf, Answered, Positions

(* A step that leaves the rows, the transcripts and the unsubmitted runs   *)
(* alone is a stutter of the promise.                                      *)
LEMMA StoreSame ==
    ASSUME UNCHANGED <<status, messages>>,
           \A q \in Runs : pc'[q] = "unused" <=> pc[q] = "unused"
    PROVE  UNCHANGED Store!promiseVars
  BY DEF Store!promiseVars, PhaseOf, Answered

LEMMA StoreSubmit ==
    ASSUME TranscriptInv, NEW r \in Runs, Submit(r)
    PROVE  Store!Begin(r)
  <1>1. /\ status[r] = "none" /\ status'[r] = "created" /\ pc[r] = "unused"
        /\ \A q \in Runs : q # r => status'[q] = status[q] /\ pc'[q] = pc[q]
    BY DEF TranscriptInv, SettleInv, TypeInv, TypeOK, Settling, Submit
  <1>2. /\ TypeOK
        /\ messages' = [messages EXCEPT ![Home[r]] = Append(@, UserMessage(r))]
    BY DEF TranscriptInv, SettleInv, TypeInv, Submit
  <1>3. UserMessage(r) # AssistantMessage(r)
    OBVIOUS
  <1> HIDE DEF UserMessage, AssistantMessage
  <1>4. \A q \in Runs : Answered(q)' = Answered(q)
    BY <1>2, <1>3, AppendTrace
  <1>5. PhaseOf(r) = "absent" /\ PhaseOf(r)' = "created"
    BY <1>1 DEF PhaseOf
  <1>6. \A q \in Runs : q # r => PhaseOf(q)' = PhaseOf(q)
    BY <1>1 DEF PhaseOf
  <1> QED BY <1>4, <1>5, <1>6 DEF Store!Begin

LEMMA StoreFinish ==
    ASSUME TranscriptInv, NEW r \in Runs, Finish(r)
    PROVE  \E s \in Terminal : Store!Settle(r, s)
  <1>1. /\ status[r] = "created" /\ status'[r] = outcome[r] /\ outcome[r] \in Terminal
        /\ pc[r] = "finishing"
        /\ \A q \in Runs : q # r => status'[q] = status[q] /\ pc'[q] = pc[q]
    BY DEF TranscriptInv, SettleInv, TypeInv, TypeOK, Counters, Settling, Finish, EndTasks
  <1>2. PhaseOf(r) = "created" /\ PhaseOf(r)' = outcome[r]
    BY <1>1 DEF PhaseOf
  <1>3. \A q \in Runs : q # r => PhaseOf(q)' = PhaseOf(q)
    BY <1>1 DEF PhaseOf
  <1>4. \A q \in Runs :
           Answered(q)' # {} <=> Answered(q) # {} \/ (q = r /\ outcome[r] = "completed")
    <2>1. CASE outcome[r] # "completed"
      <3>1. UNCHANGED messages BY <2>1 DEF Finish
      <3> QED BY <2>1, <3>1 DEF Answered
    <2>2. CASE outcome[r] = "completed"
      <3>1. /\ TypeOK
            /\ messages' = [messages EXCEPT ![Home[r]] = Append(@, AssistantMessage(r))]
        BY <2>2 DEF TranscriptInv, SettleInv, TypeInv, Finish
      <3> HIDE DEF UserMessage, AssistantMessage
      <3>2. /\ Answered(r)' = Answered(r) \union {Len(messages[Home[r]]) + 1}
            /\ \A q \in Runs \ {r} : Answered(q)' = Answered(q)
        BY <3>1, AppendTrace
      <3> QED BY <2>2, <3>2
    <2> QED BY <2>1, <2>2
  <1>5. Store!Settle(r, outcome[r])
    BY <1>2, <1>3, <1>4 DEF Store!Settle
  <1> QED BY <1>1, <1>5

LEMMA StoreDelete ==
    ASSUME TranscriptInv, NEW c \in Conversations, DeleteConversation(c)
    PROVE  Store!Erase({q \in Runs : Home[q] = c})
  <1>1. /\ messages'[c] = <<>>
        /\ \A d \in Conversations : d # c => messages'[d] = messages[d]
        /\ \A q \in Runs : status'[q] = IF Home[q] = c THEN "none" ELSE status[q]
        /\ UNCHANGED pc
    BY DEF TranscriptInv, SettleInv, TypeInv, TypeOK, DeleteConversation
  <1>2. ASSUME NEW q \in Runs, Home[q] = c
        PROVE  /\ Answered(q)' = {}
               /\ PhaseOf(q)' = IF PhaseOf(q) # "absent" THEN "deleted" ELSE PhaseOf(q)
    <2>1. Answered(q)' = {} BY <1>1, <1>2 DEF Answered, Positions
    <2>2. status'[q] = "none" BY <1>1, <1>2
    <2>3. pc[q] = "unused" => status[q] = "none"
      BY DEF TranscriptInv, SettleInv, Settling
    <2> QED BY <1>1, <2>1, <2>2, <2>3
         DEF PhaseOf, TranscriptInv, SettleInv, TypeInv, TypeOK
  <1>3. ASSUME NEW q \in Runs, Home[q] # c
        PROVE  UNCHANGED <<Answered(q), PhaseOf(q)>>
    BY <1>1, <1>3, HomeAssumption DEF Answered, PhaseOf
  <1> QED BY <1>2, <1>3 DEF Store!Erase

LEMMA StoreStep == TranscriptInv /\ [Next]_vars => [Store!PromiseNext]_(Store!promiseVars)
  <1> SUFFICES ASSUME TranscriptInv, [Next]_vars
               PROVE  Store!PromiseNext \/ UNCHANGED Store!promiseVars
    OBVIOUS
  <1> USE DEF TranscriptInv, SettleInv, TypeInv, TypeOK
  <1>1. ASSUME NEW r \in Runs, Submit(r) PROVE Store!PromiseNext
    BY <1>1, StoreSubmit DEF Store!PromiseNext
  <1>2. ASSUME NEW r \in Runs, Finish(r) PROVE Store!PromiseNext
    BY <1>2, StoreFinish DEF Store!PromiseNext, Store!Settled
  <1>3. ASSUME NEW r \in Runs, TaskStep(r), ~Finish(r)
        PROVE  UNCHANGED Store!promiseVars
    <2>1. \A q \in Runs : pc'[q] = "unused" <=> pc[q] = "unused"
      BY <1>3 DEF TaskStep, EndTasks, Load, StopAtCheckpoint, BeginStep,
                  ExceedBudget, CallModel, ModelReturns, ModelFails,
                  TakeAnswer, ReachLimit, TakeCalls, RequestCall,
                  RefuseCall, StartTool, AskApproval, AwaitDecision,
                  AskingFails, ResumeAllowed, ResumeDenied, ToolReturns,
                  RecordCall, PublishTerminal, FailWithoutEvent,
                  FinishRaises
    <2> QED BY <1>3, <2>1, OnlyFinishWrites, StoreSame
  <1>4. ASSUME NEW c \in Conversations, DeleteConversation(c) PROVE Store!PromiseNext
    <2>1. {q \in Runs : Home[q] = c} \in SUBSET Runs OBVIOUS
    <2> QED BY <1>4, <2>1, StoreDelete DEF Store!PromiseNext
  <1>5. ASSUME NEW r \in Runs, Cancel(r) \/ Decide(r) \/ Dispatch(r)
        PROVE  UNCHANGED Store!promiseVars
    BY <1>5, StoreSame DEF Cancel, Decide, Dispatch
  <1>6. CASE StopProcess \/ Crash
    BY <1>6, StoreSame DEF StopProcess, Crash, DropTasks, EndTasks
  <1>7. CASE CloseServer \/ CloseDispatcher \/ Start \/ UNCHANGED vars
    BY <1>7, StoreSame DEF CloseServer, CloseDispatcher, Start, vars
  <1> QED BY <1>1, <1>2, <1>3, <1>4, <1>5, <1>6, <1>7 DEF Next, Request, Stopping

(* The machinery implements the promise of the run store: whatever is      *)
(* cancelled, deleted, killed or fails, a run is settled at most once, and *)
(* its answer appears and disappears with its row.                         *)
THEOREM StoreKeepsPromise == Spec => KeepsPromise
  BY TranscriptInit, TranscriptStep, StoreInit, StoreStep, PTL
     DEF Spec, KeepsPromise, Store!Promise
===============================================================================
