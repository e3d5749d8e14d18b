----------------------------- MODULE RunLifecycle -----------------------------
(***************************************************************************)
(* The life of a run, from the HTTP request that submits it to the commit  *)
(* that settles it: run_submission.py, sqlite/run_starter.py,              *)
(* run_dispatcher.py, persistent_runtime.py, the checkpoints of            *)
(* agent/loop.py, the pending approvals of tools/approval.py,              *)
(* sqlite/run_finisher.py, the cancel and delete requests of api/app.py,   *)
(* the shutdown sequence of cli.py, and a crash of the process.            *)
(*                                                                         *)
(* The sidecar is one asyncio process: a step of a task runs from one      *)
(* await to the next, so pc[r] names the await the run's task is stopped   *)
(* at, and everything the code does between two awaits is one action.      *)
(* The database survives a crash; the dispatcher, the tasks and the        *)
(* pending approvals do not.                                               *)
(***************************************************************************)
EXTENDS Naturals, Sequences, FiniteSets

CONSTANTS
    Runs,           \* every run that is ever submitted
    Conversations,  \* the conversations, all stored at the start
    Home,           \* Home[r]: the conversation that r is submitted to
    MaxSteps,       \* AgentLoop._max_steps
    MaxCalls,       \* bound: tool calls in one model response
    MaxBoots        \* bound: how often the sidecar is started

ASSUME HomeAssumption == Home \in [Runs -> Conversations]
ASSUME BoundsAssumption ==
    /\ MaxSteps \in Nat \ {0}
    /\ MaxCalls \in Nat \ {0}
    /\ MaxBoots \in Nat \ {0}

VARIABLES
    (* Stored in SQLite *)
    conversations,  \* the rows of the conversations table
    status,         \* status[r] of the runs table, "none" without a row
    messages,       \* messages[c]: the transcript, in sequence order
    terminalEvent,  \* the terminal row of r in run_events, "none" without one
    referenced,     \* runs that a file change or a citation refers to
    (* The process *)
    server,         \* "up", "closing", "draining", "down"
    boots,          \* how often it was started
    token,          \* token[r]: "none" (not active), "live", "cancelled"
    pc,             \* pc[r]: the await the run's task is stopped at
    outcome,        \* outcome[r]: the status the loop has decided on
    steps,          \* steps[r]: AgentLoop's steps_used
    calls,          \* calls[r]: tool calls of this response still to process
    decision,       \* decision[r]: of r's pending approval, "none" if open
    (* History *)
    overrun         \* model calls and tools that r started once cancelled

stored  == <<conversations, status, messages, terminalEvent, referenced>>
loop    == <<outcome, steps, calls, overrun>>
vars    == <<stored, server, boots, token, pc, loop, decision>>

Terminal == {"completed", "failed", "cancelled", "limit_reached"}

\* Where the loop is stopped while it publishes or records an event.
Publishing == {"announcing", "answered", "tool_requested", "tool_done", "concluding"}

\* Where an approval is registered in PendingToolApprovalPolicy._pending.
Asking == {"asking", "waiting"}

InTask == Publishing \union Asking
              \union {"loading", "step", "model", "tool_check", "tool", "finishing"}

Places == InTask \union {"unused", "handler", "done"}

UserMessage(r)      == [role |-> "user", run |-> r]
AssistantMessage(r) == [role |-> "assistant", run |-> r]

RowExists(r) == status[r] # "none"
Cancelled(r) == token[r] = "cancelled"
NeverCancelled(r) == FALSE                    \* mutant of IsCancelled
IsCancelled(r) == Cancelled(r)                \* AgentLoop._is_cancelled
AtLimit(r) == steps[r] = MaxSteps
Goto(r, place) == pc' = [pc EXCEPT ![r] = place]

(* AgentLoop.result(status, ...): publish the terminal event next. *)
Conclude(r, s) ==
    /\ outcome' = [outcome EXCEPT ![r] = s]
    /\ Goto(r, "concluding")

(* r starts a model call or a tool. *)
Spend(r) == overrun' = [overrun EXCEPT ![r] = IF Cancelled(r) THEN @ + 1 ELSE @]

(* The tasks of R are over: _execute's finally drops the token and the     *)
(* task, and the variables local to the task are gone.                     *)
EndTasks(R) ==
    LET reset(f, v) == [r \in Runs |-> IF r \in R THEN v ELSE f[r]]
    IN  /\ token' = reset(token, "none")
        /\ pc' = reset(pc, "done")
        /\ outcome' = reset(outcome, "none")
        /\ steps' = reset(steps, 0)
        /\ calls' = reset(calls, 0)
        /\ overrun' = reset(overrun, 0)
        /\ decision' = reset(decision, "none")

-------------------------------------------------------------------------------

Init ==
    /\ conversations = Conversations
    /\ status = [r \in Runs |-> "none"]
    /\ messages = [c \in Conversations |-> <<>>]
    /\ terminalEvent = [r \in Runs |-> "none"]
    /\ referenced = {}
    /\ server = "up"
    /\ boots = 1
    /\ token = [r \in Runs |-> "none"]
    /\ pc = [r \in Runs |-> "unused"]
    /\ outcome = [r \in Runs |-> "none"]
    /\ steps = [r \in Runs |-> 0]
    /\ calls = [r \in Runs |-> 0]
    /\ decision = [r \in Runs |-> "none"]
    /\ overrun = [r \in Runs |-> 0]

-------------------------------------------------------------------------------
(* Requests of the desktop *)

(* The transaction of RunStarter.start under RunSubmissionService.submit;   *)
(* a conversation deleted since the handler read it makes start raise.     *)
Submit(r) ==
    /\ server = "up"
    /\ pc[r] = "unused"
    /\ Home[r] \in conversations
    /\ status' = [status EXCEPT ![r] = "created"]
    /\ messages' = [messages EXCEPT ![Home[r]] = Append(@, UserMessage(r))]
    /\ Goto(r, "handler")
    /\ UNCHANGED <<conversations, terminalEvent, referenced, server, boots, token,
                   loop, decision>>

(* The rest of the handler: InProcessRunDispatcher.dispatch.  uvicorn ends *)
(* its handlers before the dispatcher closes, so _closed is false here.    *)
Dispatch(r) ==
    /\ server = "up"
    /\ pc[r] = "handler"
    /\ token' = [token EXCEPT ![r] = "live"]
    /\ Goto(r, "loading")
    /\ UNCHANGED <<stored, server, boots, loop, decision>>

(* cancel_run_request: the row is found, the token set, r's pending        *)
(* approval denied if there is one at this moment.  409 when not active.   *)
Cancel(r) ==
    /\ server = "up"
    /\ RowExists(r)
    /\ token[r] # "none"
    /\ token' = [token EXCEPT ![r] = "cancelled"]
    /\ decision' = IF pc[r] \in Asking /\ decision[r] = "none"
                   THEN [decision EXCEPT ![r] = "deny"] ELSE decision
    /\ UNCHANGED <<stored, server, boots, pc, loop>>

(* decide_tool_approval: PendingToolApprovalPolicy.decide, first one wins. *)
Decide(r) ==
    /\ server = "up"
    /\ pc[r] \in Asking
    /\ decision[r] = "none"
    /\ \E d \in {"allow", "deny"} : decision' = [decision EXCEPT ![r] = d]
    /\ UNCHANGED <<stored, server, boots, token, pc, loop>>

DeleteKeepingMessages(c) ==  \* mutant of DeleteConversation
    /\ server = "up"
    /\ c \in conversations
    /\ conversations' = conversations \ {c}
    /\ status' = [r \in Runs |-> IF Home[r] = c THEN "none" ELSE status[r]]
    /\ UNCHANGED <<messages, terminalEvent, referenced, server, boots, token, pc,
                   loop, decision>>

(* ConversationRepository.delete: one transaction, which the foreign keys  *)
(* of file changes and citations (ON DELETE RESTRICT) roll back.  It does  *)
(* not look at whether a run of the conversation is active.                *)
DeleteConversation(c) ==
    /\ server = "up"
    /\ c \in conversations
    /\ \A r \in referenced : Home[r] # c
    /\ conversations' = conversations \ {c}
    /\ status' = [r \in Runs |-> IF Home[r] = c THEN "none" ELSE status[r]]
    /\ terminalEvent' = [r \in Runs |-> IF Home[r] = c THEN "none" ELSE terminalEvent[r]]
    /\ messages' = [messages EXCEPT ![c] = <<>>]
    /\ UNCHANGED <<referenced, server, boots, token, pc, loop, decision>>

-------------------------------------------------------------------------------
(* The run's task: PersistentAgentRuntime.execute_submitted, AgentLoop.run *)

(* Read the history, build the loop and the system prompt, which may store *)
(* citations of the run, and publish run.started.                          *)
Load(r) ==
    /\ pc[r] = "loading"
    /\ RowExists(r)
    /\ referenced' \in {referenced, referenced \union {r}}
    /\ Goto(r, "step")
    /\ UNCHANGED <<conversations, status, messages, terminalEvent, server, boots,
                   token, loop, decision>>

(* The cancellation checkpoints: at the top of a step, after               *)
(* model.completed, before a tool call, and after one is recorded.         *)
StopAtCheckpoint(r) ==
    /\ pc[r] \in {"step", "answered", "tool_check", "tool_done"}
    /\ IsCancelled(r)
    /\ pc[r] \in Publishing => RowExists(r)
    /\ Conclude(r, "cancelled")
    /\ UNCHANGED <<stored, server, boots, token, steps, calls, overrun, decision>>

(* A step begins: the request fits the budget, publish model.requested. *)
BeginStep(r) ==
    /\ pc[r] = "step"
    /\ ~IsCancelled(r)
    /\ Goto(r, "announcing")
    /\ UNCHANGED <<stored, server, boots, token, loop, decision>>

(* ContextBudgetExceededError. *)
ExceedBudget(r) ==
    /\ pc[r] = "step"
    /\ ~IsCancelled(r)
    /\ Conclude(r, "failed")
    /\ UNCHANGED <<stored, server, boots, token, steps, calls, overrun, decision>>

CallModel(r) ==
    /\ pc[r] = "announcing"
    /\ RowExists(r)
    /\ Spend(r)
    /\ Goto(r, "model")
    /\ UNCHANGED <<stored, server, boots, token, outcome, steps, calls, decision>>

(* model.complete returns; publish model.completed. *)
ModelReturns(r) ==
    /\ pc[r] = "model"
    /\ steps' = [steps EXCEPT ![r] = @ + 1]
    /\ Goto(r, "answered")
    /\ UNCHANGED <<stored, server, boots, token, outcome, calls, overrun, decision>>

(* A ProviderTimeoutError concludes a cancelled run as cancelled; any      *)
(* other ProviderError fails it.                                           *)
ModelFails(r) ==
    /\ pc[r] = "model"
    /\ \E s \in {"cancelled", "failed"} :
          (s = "cancelled" => IsCancelled(r)) /\ Conclude(r, s)
    /\ UNCHANGED <<stored, server, boots, token, steps, calls, overrun, decision>>

(* The response is text, or has neither text nor calls, or bad call ids. *)
TakeAnswer(r) ==
    /\ pc[r] = "answered"
    /\ RowExists(r)
    /\ ~IsCancelled(r)
    /\ \E s \in {"completed", "failed"} : Conclude(r, s)
    /\ UNCHANGED <<stored, server, boots, token, steps, calls, overrun, decision>>

(* The response asks for tools, but this was the last step. *)
ReachLimit(r) ==
    /\ pc[r] = "answered"
    /\ RowExists(r)
    /\ ~IsCancelled(r)
    /\ AtLimit(r)
    /\ Conclude(r, "limit_reached")
    /\ UNCHANGED <<stored, server, boots, token, steps, calls, overrun, decision>>

TakeCalls(r) ==
    /\ pc[r] = "answered"
    /\ RowExists(r)
    /\ ~IsCancelled(r)
    /\ ~AtLimit(r)
    /\ \E n \in 1..MaxCalls : calls' = [calls EXCEPT ![r] = n]
    /\ Goto(r, "tool_check")
    /\ UNCHANGED <<stored, server, boots, token, outcome, steps, overrun, decision>>

(* Publish tool.requested. *)
RequestCall(r) ==
    /\ pc[r] = "tool_check"
    /\ ~IsCancelled(r)
    /\ Goto(r, "tool_requested")
    /\ UNCHANGED <<stored, server, boots, token, loop, decision>>

(* The call is answered without running the tool: deferred, unknown,       *)
(* repeated, invalid, not permitted, or asking a closed approval policy.   *)
RefuseCall(r) ==
    /\ pc[r] = "tool_requested"
    /\ RowExists(r)
    /\ Goto(r, "tool_done")
    /\ UNCHANGED <<stored, server, boots, token, loop, decision>>

(* A tool that needs no approval, or has the conversation's grant. *)
StartTool(r) ==
    /\ pc[r] = "tool_requested"
    /\ RowExists(r)
    /\ Spend(r)
    /\ Goto(r, "tool")
    /\ UNCHANGED <<stored, server, boots, token, outcome, steps, calls, decision>>

(* PendingToolApprovalPolicy.approve registers the request and publishes   *)
(* tool.approval_requested.  It does not look at the cancellation token.   *)
AskApproval(r) ==
    /\ pc[r] = "tool_requested"
    /\ RowExists(r)
    /\ server = "up"
    /\ Goto(r, "asking")
    /\ UNCHANGED <<stored, server, boots, token, loop, decision>>

AwaitDecision(r) ==
    /\ pc[r] = "asking"
    /\ RowExists(r)
    /\ Goto(r, "waiting")
    /\ UNCHANGED <<stored, server, boots, token, loop, decision>>

(* on_requested raised: the pending approval is popped, and _execute_tool  *)
(* swallows the error as a failed call.                                    *)
AskingFails(r) ==
    /\ pc[r] = "asking"
    /\ Goto(r, "tool_done")
    /\ decision' = [decision EXCEPT ![r] = "none"]
    /\ UNCHANGED <<stored, server, boots, token, loop>>

(* The decision future is set: run the tool, or report the denial. *)
ResumeAllowed(r) ==
    /\ pc[r] = "waiting"
    /\ decision[r] = "allow"
    /\ Spend(r)
    /\ Goto(r, "tool")
    /\ decision' = [decision EXCEPT ![r] = "none"]
    /\ UNCHANGED <<stored, server, boots, token, outcome, steps, calls>>

ResumeDenied(r) ==
    /\ pc[r] = "waiting"
    /\ decision[r] = "deny"
    /\ Goto(r, "tool_done")
    /\ decision' = [decision EXCEPT ![r] = "none"]
    /\ UNCHANGED <<stored, server, boots, token, loop>>

(* The tool returns, raises or times out; it may have stored a file change *)
(* of the run.                                                             *)
ToolReturns(r) ==
    /\ pc[r] = "tool"
    /\ referenced' \in
           {referenced, IF RowExists(r) THEN referenced \union {r} ELSE referenced}
    /\ Goto(r, "tool_done")
    /\ UNCHANGED <<conversations, status, messages, terminalEvent, server, boots,
                   token, loop, decision>>

(* The tool's event is published and the call recorded: on to the next     *)
(* call of the response or the next step.                                  *)
RecordCall(r) ==
    /\ pc[r] = "tool_done"
    /\ RowExists(r)
    /\ ~IsCancelled(r)
    /\ calls' = [calls EXCEPT ![r] = @ - 1]
    /\ Goto(r, IF calls[r] = 1 THEN "step" ELSE "tool_check")
    /\ UNCHANGED <<stored, server, boots, token, outcome, steps, overrun, decision>>

(* The terminal event of the run is stored, before its status is. *)
PublishTerminal(r) ==
    /\ pc[r] = "concluding"
    /\ RowExists(r)
    /\ terminalEvent' = [terminalEvent EXCEPT ![r] = outcome[r]]
    /\ Goto(r, "finishing")
    /\ UNCHANGED <<conversations, status, messages, referenced, server, boots,
                   token, loop, decision>>

FailEvenWhenConcluded(r) ==  \* mutant of FailWithoutEvent: except around finish too
    /\ pc[r] \in Publishing \union {"loading", "model", "finishing"}
    /\ outcome' = [outcome EXCEPT ![r] = "failed"]
    /\ Goto(r, "finishing")
    /\ UNCHANGED <<stored, server, boots, token, steps, calls, overrun, decision>>

(* An event or a tool call could not be stored (its run is gone, or the    *)
(* database failed), or something raised out of the loop: the run is       *)
(* finished as failed, without a terminal event.                           *)
FailWithoutEvent(r) ==
    /\ pc[r] \in Publishing \union {"loading", "model"}
    /\ outcome' = [outcome EXCEPT ![r] = "failed"]
    /\ Goto(r, "finishing")
    /\ UNCHANGED <<stored, server, boots, token, steps, calls, overrun, decision>>

(* RunFinisher.finish in one transaction, then _execute's finally.         *)
Finish(r) ==
    /\ pc[r] = "finishing"
    /\ RowExists(r)
    /\ status' = [status EXCEPT ![r] = outcome[r]]
    /\ messages' = IF outcome[r] = "completed"
                   THEN [messages EXCEPT ![Home[r]] = Append(@, AssistantMessage(r))]
                   ELSE messages
    /\ EndTasks({r})
    /\ UNCHANGED <<conversations, terminalEvent, referenced, server, boots>>

FinishInTwoParts(r) ==  \* mutant of FinishRaises: the message is already committed
    /\ pc[r] = "finishing"
    /\ outcome[r] = "completed" /\ RowExists(r)
    /\ messages' = [messages EXCEPT ![Home[r]] = Append(@, AssistantMessage(r))]
    /\ EndTasks({r})
    /\ UNCHANGED <<conversations, status, terminalEvent, referenced, server, boots>>

FinishKeepingToken(r) ==  \* mutant of FinishRaises: no finally in _execute
    /\ pc[r] = "finishing"
    /\ Goto(r, "done")
    /\ UNCHANGED <<stored, server, boots, token, loop, decision>>

(* finish raises: "cannot finish an unknown run", or the database failed.  *)
(* _execute reports the error to nobody and drops the task.                *)
FinishRaises(r) ==
    /\ pc[r] = "finishing"
    /\ EndTasks({r})
    /\ UNCHANGED <<stored, server, boots>>

-------------------------------------------------------------------------------
(* Shutdown, crash and restart *)

(* Whatever is left in memory is gone. *)
DropTasks == EndTasks({r \in Runs : pc[r] # "unused"})

(* The HTTP server is closed, then tool_approvals.aclose denies whatever   *)
(* is pending.                                                             *)
CloseServer ==
    /\ server = "up"
    /\ \A r \in Runs : pc[r] # "handler"
    /\ server' = "closing"
    /\ decision' = [r \in Runs |-> IF pc[r] \in Asking /\ decision[r] = "none"
                                   THEN "deny" ELSE decision[r]]
    /\ UNCHANGED <<stored, boots, token, pc, loop>>

(* dispatcher.aclose: closed, every token cancelled. *)
CloseDispatcher ==
    /\ server = "closing"
    /\ server' = "draining"
    /\ token' = [r \in Runs |-> IF token[r] = "none" THEN "none" ELSE "cancelled"]
    /\ UNCHANGED <<stored, boots, pc, loop, decision>>

StopWhenIdle ==  \* mutant of StopProcess: no timeout
    /\ server = "draining"
    /\ \A r \in Runs : token[r] = "none"
    /\ server' = "down"
    /\ DropTasks
    /\ UNCHANGED <<stored, boots>>

(* Its asyncio.wait ends because every task has, or after timeout_seconds, *)
(* and then the tasks are cancelled: execute_submitted does not catch      *)
(* CancelledError, so nothing settles their runs.  The process exits.      *)
StopProcess ==
    /\ server = "draining"
    /\ server' = "down"
    /\ DropTasks
    /\ UNCHANGED <<stored, boots>>

(* The process is killed (the desktop sends SIGKILL after stopTimeoutMs).  *)
Crash ==
    /\ server # "down"
    /\ server' = "down"
    /\ DropTasks
    /\ UNCHANGED <<stored, boots>>

(* The sidecar starts again; it does not look for runs left unsettled. *)
Start ==
    /\ server = "down"
    /\ boots < MaxBoots
    /\ boots' = boots + 1
    /\ server' = "up"
    /\ UNCHANGED <<stored, token, pc, loop, decision>>

-------------------------------------------------------------------------------

(* The steps of r's task that need nobody but the model, the tool and the  *)
(* database: each ends by itself or by its timeout.                        *)
TaskStep(r) ==
    \/ Load(r) \/ StopAtCheckpoint(r) \/ BeginStep(r) \/ ExceedBudget(r)
    \/ CallModel(r) \/ ModelReturns(r) \/ ModelFails(r)
    \/ TakeAnswer(r) \/ ReachLimit(r) \/ TakeCalls(r) \/ RequestCall(r)
    \/ RefuseCall(r) \/ StartTool(r) \/ AskApproval(r) \/ AwaitDecision(r)
    \/ AskingFails(r) \/ ResumeAllowed(r) \/ ResumeDenied(r)
    \/ ToolReturns(r) \/ RecordCall(r)
    \/ PublishTerminal(r) \/ FailWithoutEvent(r) \/ Finish(r) \/ FinishRaises(r)

Request(r) == Submit(r) \/ Cancel(r) \/ Decide(r)

Stopping == CloseDispatcher \/ StopProcess

Next ==
    \/ \E r \in Runs : Request(r) \/ Dispatch(r) \/ TaskStep(r)
    \/ \E c \in Conversations : DeleteConversation(c)
    \/ CloseServer \/ Stopping \/ Crash \/ Start

Spec == Init /\ [][Next]_vars

(* A shutdown that was begun goes through (cli.py's finally).  Nothing is  *)
(* promised of models, tools, the database, the user or crashes.           *)
LiveSpec == Spec /\ WF_vars(Stopping)

(* Models, tools and the database answer or time out, and the event loop   *)
(* runs every task and handler that can go on.                             *)
TasksGoOn == \A r \in Runs : WF_vars(TaskStep(r)) /\ WF_vars(Dispatch(r))

-------------------------------------------------------------------------------
(* Safety *)

TypeOK ==
    /\ conversations \subseteq Conversations
    /\ status \in [Runs -> Terminal \union {"none", "created"}]
    /\ messages \in [Conversations -> Seq([role : {"user", "assistant"}, run : Runs])]
    /\ terminalEvent \in [Runs -> Terminal \union {"none"}]
    /\ referenced \subseteq Runs
    /\ server \in {"up", "closing", "draining", "down"}
    /\ boots \in 1..MaxBoots
    /\ token \in [Runs -> {"none", "live", "cancelled"}]
    /\ pc \in [Runs -> Places]
    /\ outcome \in [Runs -> Terminal \union {"none"}]
    /\ steps \in [Runs -> 0..MaxSteps]
    /\ calls \in [Runs -> 0..MaxCalls]
    /\ decision \in [Runs -> {"none", "allow", "deny"}]
    /\ overrun \in [Runs -> Nat]

(* Where message m is in transcript t. *)
Positions(t, m) == {i \in DOMAIN t : t[i] = m}

Asked(r)    == Positions(messages[Home[r]], UserMessage(r))
Answered(r) == Positions(messages[Home[r]], AssistantMessage(r))

(* The transcript and the run rows tell the same story, whatever was       *)
(* deleted, killed or failed in between: a stored run has its one user     *)
(* message; it has one answer, after the question, if it is completed and  *)
(* none otherwise (run_starter.py, run_finisher.py, _assistant_message).   *)
AnswerIffCompleted ==
    \A r \in Runs : RowExists(r) =>
        \E i \in DOMAIN messages[Home[r]] :
            /\ Asked(r) = {i}
            /\ IF status[r] = "completed"
               THEN \E j \in DOMAIN messages[Home[r]] : i < j /\ Answered(r) = {j}
               ELSE Answered(r) = {}

(* The terminal event, which is stored first and is what the desktop       *)
(* believes, is never contradicted by the status that is stored later.     *)
EventAgreesWithStatus ==
    \A r \in Runs :
        terminalEvent[r] # "none" => status[r] \in {"created", terminalEvent[r]}

(* A cancelled run starts at most one more model call or tool: the one it  *)
(* had passed the checkpoint for (the _is_cancelled checks of loop.py).    *)
OneStepAfterCancel == \A r \in Runs : overrun[r] <= 1

(* A settled run never gets another status: run_finisher.py has no guard,  *)
(* so this rests on the dispatcher running a submission once.              *)
SettledStays ==
    [][\A r \in Runs :
          status[r] \in Terminal => status'[r] \in {status[r], "none"}]_vars

-------------------------------------------------------------------------------
(* The abstract specification *)

PhaseOf(r) == IF RowExists(r) THEN status[r]
              ELSE IF pc[r] = "unused" THEN "absent" ELSE "deleted"

Store == INSTANCE RunPromise
            WITH phase    <- [r \in Runs |-> PhaseOf(r)],
                 answered <- {r \in Runs : Answered(r) # {}}

(* The run store keeps the promise of RunPromise: every step of the        *)
(* machinery is one of its steps or leaves the promise alone.              *)
KeepsPromise == Store!Promise

-------------------------------------------------------------------------------
(* Liveness *)

(* If models and tools answer, every dispatched run leaves the dispatcher, *)
(* unless it waits for a decision that only the user of a running sidecar  *)
(* can make.                                                               *)
TaskEnds ==
    TasksGoOn => \A r \in Runs :
        token[r] # "none" ~>
            \/ token[r] = "none"
            \/ server = "up" /\ pc[r] = "waiting" /\ decision[r] = "none"

(* A shutdown that was begun ends, even if the model or a tool never       *)
(* returns (the timeout of InProcessRunDispatcher.aclose).                 *)
ShutdownEnds == server \in {"closing", "draining"} ~> server = "down"

===============================================================================
