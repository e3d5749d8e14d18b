------------------------------ MODULE AgentLoop -------------------------------
(***************************************************************************)
(* One run of AgentLoop.run (agent/loop.py): the steps of the loop, the    *)
(* message history it builds for the model provider, the run events it     *)
(* publishes, the tool calls it records, the limits on repeated and        *)
(* surplus tool calls, and the cancellation checkpoints.                   *)
(*                                                                         *)
(* RunLifecycle has many runs and none of these; this module has one run   *)
(* and all of them.  The model, the tools, the approvals and the store are *)
(* the environment: each may answer in any way the loop has to handle.     *)
(***************************************************************************)
EXTENDS Naturals, Sequences, FiniteSets

CONSTANTS
    Inputs,          \* the (tool_id, canonical arguments) pairs a call may have
    Unknown,         \* the input of a call whose tool is not in the snapshot
    MaxSteps,        \* _max_steps
    MaxSame,         \* _max_calls_per_tool_input
    MaxPerResponse,  \* _max_tool_calls_per_model_response
    MaxCalls         \* bound: tool calls in one model response

ASSUME LoopAssumption ==
    /\ Unknown \notin Inputs
    /\ MaxSteps \in Nat \ {0}
    /\ MaxSame \in Nat \ {0}
    /\ MaxPerResponse \in Nat \ {0}
    /\ MaxCalls \in Nat \ {0}

VARIABLES
    pc,         \* the await the loop is stopped at
    step,       \* next_step, and steps_used once the model has answered
    calls,      \* response.tool_calls, as their inputs
    index,      \* the call being processed, from 1
    execution,  \* the event that will report it, "none" before it is known
    streak,     \* identical_call_streak
    cancelled,  \* the cancellation token
    history,    \* the messages after the run's own user message
    sequence,   \* event_sequence
    result,     \* the status of the AgentLoopResult, "none" before it is known
    (* Stored, or done to the world *)
    events,     \* the run_events rows
    recorded,   \* the tool_calls rows, as call ids
    attempted   \* the calls handed to the tool executor, in order

vars == <<pc, step, calls, index, execution, streak, cancelled, history, sequence,
          result, events, recorded, attempted>>

Statuses == {"completed", "failed", "cancelled", "limit_reached"}

EventTypes == {"run.started", "model.requested", "model.completed", "tool.requested",
               "tool.approval_requested", "tool.completed", "tool.failed",
               "tool.deferred"} \union Statuses

\* Call ids: the place of a call in the response of its step.
CallIds == (1..MaxSteps) \X (1..MaxCalls)
NoCall  == <<>>

Call == <<step, index>>

\* The ids of the calls of the current response from place i on.
IdsFrom(i) == [j \in 1..(Len(calls) - i + 1) |-> <<step, i + j - 1>>]

Assistant(ids) == [role |-> "assistant", ids |-> ids]
ToolResult(id) == [role |-> "tool", ids |-> <<id>>]

\* Mutant of CancelledResults: the call the loop stopped at is forgotten.
CancelledButFirst(i) == [j \in 1..(Len(calls) - i) |-> ToolResult(IdsFrom(i)[j + 1])]

\* _append_cancelled_tool_results
CancelledResults(i) == [j \in 1..(Len(calls) - i + 1) |-> ToolResult(IdsFrom(i)[j])]

TypeOK ==
    /\ pc \in {"start", "step", "model", "answered", "call", "execute", "asking",
               "approve", "report", "record", "concluding", "done"}
    /\ step \in 0..MaxSteps
    /\ calls \in Seq(Inputs \union {Unknown})
    /\ index \in 1..(MaxCalls + 1)
    /\ execution \in {"none", "tool.completed", "tool.failed", "tool.deferred"}
    /\ streak \in [key : Inputs \union {Unknown}, count : Nat]
    /\ cancelled \in BOOLEAN
    /\ history \in Seq([role : {"assistant", "tool"}, ids : Seq(CallIds)])
    /\ sequence \in Nat
    /\ result \in Statuses \union {"none"}
    /\ events \in Seq([sequence : Nat, type : EventTypes, call : CallIds \union {NoCall}])
    /\ recorded \in Seq(CallIds)
    /\ attempted \in Seq([call : CallIds, input : Inputs])

Init ==
    /\ pc = "start"
    /\ step = 0
    /\ calls = <<>>
    /\ index = 1
    /\ execution = "none"
    /\ streak = [key |-> Unknown, count |-> 0]
    /\ cancelled = FALSE
    /\ history = <<>>
    /\ sequence = 0
    /\ result = "none"
    /\ events = <<>>
    /\ recorded = <<>>
    /\ attempted = <<>>

-------------------------------------------------------------------------------
(* Events and results *)

(* publish: the number is taken first, then the row is stored. *)
Publish(type, call) ==
    /\ sequence' = sequence + 1
    /\ events' = Append(events,
                        [sequence |-> sequence + 1, type |-> type, call |-> call])

(* result(status): its event is published next. *)
Conclude(s) ==
    /\ result' = s
    /\ pc' = "concluding"

PublishResult ==
    /\ pc = "concluding"
    /\ Publish(result, NoCall)
    /\ pc' = "done"
    /\ UNCHANGED <<step, calls, index, execution, streak, cancelled, history, result,
                   recorded, attempted>>

(* _EventPublishError or _ToolCallRecordError: the loop ends as failed,    *)
(* with no terminal event.                                                 *)
StoreFails ==
    /\ pc \in {"start", "step", "model", "call", "report", "record", "concluding"}
    /\ sequence' = IF pc = "record" THEN sequence ELSE sequence + 1
    /\ step' = IF pc = "model" THEN step + 1 ELSE step
    /\ result' = "failed"
    /\ pc' = "done"
    /\ UNCHANGED <<calls, index, execution, streak, cancelled, history, events,
                   recorded, attempted>>

(* RunCancellationToken.cancel, from another task, between any two steps. *)
Cancel ==
    /\ pc # "done"
    /\ ~cancelled
    /\ cancelled' = TRUE
    /\ UNCHANGED <<pc, step, calls, index, execution, streak, history, sequence,
                   result, events, recorded, attempted>>

-------------------------------------------------------------------------------
(* The steps of the loop *)

Start ==
    /\ pc = "start"
    /\ Publish("run.started", NoCall)
    /\ pc' = "step"
    /\ UNCHANGED <<step, calls, index, execution, streak, cancelled, history, result,
                   recorded, attempted>>

(* The checkpoint at the top of a step, or ContextBudgetExceededError. *)
StopStep ==
    /\ pc = "step"
    /\ Conclude(IF cancelled THEN "cancelled" ELSE "failed")
    /\ UNCHANGED <<step, calls, index, execution, streak, cancelled, history, sequence,
                   events, recorded, attempted>>

BeginStep ==
    /\ pc = "step"
    /\ ~cancelled
    /\ Publish("model.requested", NoCall)
    /\ pc' = "model"
    /\ UNCHANGED <<step, calls, index, execution, streak, cancelled, history, result,
                   recorded, attempted>>

(* model.complete raises; a timeout of a cancelled run is a cancellation. *)
ModelFails ==
    /\ pc = "model"
    /\ \E s \in {"cancelled", "failed"} : (s = "cancelled" => cancelled) /\ Conclude(s)
    /\ UNCHANGED <<step, calls, index, execution, streak, cancelled, history, sequence,
                   events, recorded, attempted>>

(* model.complete raises what is not a ProviderError: run raises it too,   *)
(* and PersistentAgentRuntime settles the run as failed.                   *)
ModelRaises ==
    /\ pc = "model"
    /\ result' = "failed"
    /\ pc' = "done"
    /\ UNCHANGED <<step, calls, index, execution, streak, cancelled, history, sequence,
                   events, recorded, attempted>>

ModelReturns ==
    /\ pc = "model"
    /\ step' = step + 1
    /\ \E n \in 0..MaxCalls : calls' \in [1..n -> Inputs \union {Unknown}]
    /\ Publish("model.completed", NoCall)
    /\ pc' = "answered"
    /\ UNCHANGED <<index, execution, streak, cancelled, history, result, recorded,
                   attempted>>

(* Cancelled, or empty or duplicate call ids: the answer is dropped. *)
DropAnswer ==
    /\ pc = "answered"
    /\ cancelled \/ calls # <<>>
    /\ Conclude(IF cancelled THEN "cancelled" ELSE "failed")
    /\ UNCHANGED <<step, calls, index, execution, streak, cancelled, history, sequence,
                   events, recorded, attempted>>

(* An answer without calls ends the run, as failed if it has no text. *)
TakeAnswer ==
    /\ pc = "answered"
    /\ ~cancelled
    /\ calls = <<>>
    /\ history' = Append(history, Assistant(<<>>))
    /\ \E s \in {"completed", "failed"} : Conclude(s)
    /\ UNCHANGED <<step, calls, index, execution, streak, cancelled, sequence, events,
                   recorded, attempted>>

AtLimit == step = MaxSteps

(* The last step asked for tools: they stay unanswered in the history. *)
ReachLimit ==
    /\ pc = "answered"
    /\ ~cancelled
    /\ calls # <<>>
    /\ AtLimit
    /\ history' = Append(history, Assistant(IdsFrom(1)))
    /\ Conclude("limit_reached")
    /\ UNCHANGED <<step, calls, index, execution, streak, cancelled, sequence, events,
                   recorded, attempted>>

TakeCalls ==
    /\ pc = "answered"
    /\ ~cancelled
    /\ calls # <<>>
    /\ ~AtLimit
    /\ history' = Append(history, Assistant(IdsFrom(1)))
    /\ index' = 1
    /\ pc' = "call"
    /\ UNCHANGED <<step, calls, execution, streak, cancelled, sequence, result, events,
                   recorded, attempted>>

-------------------------------------------------------------------------------
(* The tool calls of a response *)

(* The checkpoint before a call: this call and the rest are answered as    *)
(* cancelled.                                                              *)
StopCalls ==
    /\ pc = "call"
    /\ cancelled
    /\ history' = history \o CancelledResults(index)
    /\ Conclude("cancelled")
    /\ UNCHANGED <<step, calls, index, execution, streak, cancelled, sequence, events,
                   recorded, attempted>>

RequestCall ==
    /\ pc = "call"
    /\ ~cancelled
    /\ Publish("tool.requested", Call)
    /\ pc' = "execute"
    /\ UNCHANGED <<step, calls, index, execution, streak, cancelled, history, result,
                   recorded, attempted>>

Input == calls[index]

LateSurplus == index > MaxPerResponse + 1  \* mutant of Surplus
Surplus == index > MaxPerResponse

(* _deferred_tool_call: surplus calls of a response are not run. *)
DeferCall ==
    /\ pc = "execute"
    /\ Surplus
    /\ execution' = "tool.deferred"
    /\ pc' = "report"
    /\ UNCHANGED <<step, calls, index, streak, cancelled, history, sequence, result,
                   events, recorded, attempted>>

(* The tool is not in the snapshot, or the arguments are not JSON: refused *)
(* before the streak is looked at.                                         *)
RefuseCall ==
    /\ pc = "execute"
    /\ ~Surplus
    /\ execution' = "tool.failed"
    /\ pc' = "report"
    /\ UNCHANGED <<step, calls, index, streak, cancelled, history, sequence, result,
                   events, recorded, attempted>>

NextCount == IF streak.key = Input THEN streak.count + 1 ELSE 1
CountTo(n) == streak' = [key |-> Input, count |-> n]

RefuseRepeated ==
    /\ pc = "execute"
    /\ ~Surplus
    /\ Input # Unknown
    /\ NextCount > MaxSame
    /\ CountTo(NextCount)
    /\ execution' = "tool.failed"
    /\ pc' = "report"
    /\ UNCHANGED <<step, calls, index, cancelled, history, sequence, result, events,
                   recorded, attempted>>

(* The executor is called: the tool runs, the call fails (arguments,       *)
(* permission, timeout, an error of the tool), or asks for approval.       *)
CallExecutor ==
    /\ pc = "execute"
    /\ ~Surplus
    /\ Input # Unknown
    /\ NextCount <= MaxSame
    /\ CountTo(NextCount)
    /\ attempted' = Append(attempted, [call |-> Call, input |-> Input])
    /\ \/ execution' \in {"tool.completed", "tool.failed"} /\ pc' = "report"
       \/ pc' = "asking" /\ UNCHANGED execution
    /\ UNCHANGED <<step, calls, index, cancelled, history, sequence, result, events,
                   recorded>>

(* approval_requested publishes; what it raises, _execute_tool takes for a *)
(* failure of the tool, and the loop goes on with the number spent.        *)
AskApproval ==
    /\ pc = "asking"
    /\ \/ /\ Publish("tool.approval_requested", Call)
          /\ pc' = "approve"
          /\ UNCHANGED execution
       \/ /\ sequence' = sequence + 1
          /\ execution' = "tool.failed"
          /\ pc' = "report"
          /\ UNCHANGED events
    /\ UNCHANGED <<step, calls, index, streak, cancelled, history, result, recorded,
                   attempted>>

(* The decision: the tool runs, with its result, or the call is refused. *)
AwaitDecision ==
    /\ pc = "approve"
    /\ execution' \in {"tool.completed", "tool.failed"}
    /\ pc' = "report"
    /\ UNCHANGED <<step, calls, index, streak, cancelled, history, sequence, result,
                   events, recorded, attempted>>

(* tool.completed, tool.failed or tool.warning; tool.deferred. *)
ReportCall ==
    /\ pc = "report"
    /\ Publish(execution, Call)
    /\ pc' = "record"
    /\ UNCHANGED <<step, calls, index, execution, streak, cancelled, history, result,
                   recorded, attempted>>

(* _record_tool_call: a call of an unknown tool is not recorded. *)
RecordedUnlessCancelled ==  \* mutant of Recorded: the checkpoint comes first
    IF Input = Unknown \/ cancelled THEN recorded ELSE Append(recorded, Call)
Recorded == IF Input = Unknown THEN recorded ELSE Append(recorded, Call)

(* The record, the result in the history, the checkpoint after the call. *)
RecordCall ==
    /\ pc = "record"
    /\ recorded' = Recorded
    /\ IF cancelled
       THEN /\ history' = Append(history, ToolResult(Call)) \o CancelledResults(index + 1)
            /\ Conclude("cancelled")
            /\ UNCHANGED index
       ELSE /\ history' = Append(history, ToolResult(Call))
            /\ index' = index + 1
            /\ pc' = IF index = Len(calls) THEN "step" ELSE "call"
            /\ UNCHANGED result
    /\ execution' = "none"
    /\ UNCHANGED <<step, calls, streak, cancelled, sequence, events, attempted>>

-------------------------------------------------------------------------------

LoopStep ==
    \/ PublishResult \/ StoreFails \/ Start \/ StopStep \/ BeginStep \/ ModelFails
    \/ ModelRaises \/ ModelReturns \/ DropAnswer \/ TakeAnswer \/ ReachLimit \/ TakeCalls
    \/ StopCalls \/ RequestCall \/ DeferCall \/ RefuseCall \/ RefuseRepeated
    \/ CallExecutor \/ AskApproval \/ AwaitDecision \/ ReportCall \/ RecordCall

Next == LoopStep \/ Cancel

Spec == Init /\ [][Next]_vars

-------------------------------------------------------------------------------
(* Safety *)

(* Every call of an assistant message is answered by the tool messages     *)
(* that follow it, in order, and no tool message answers anything else.    *)
WellFormed(h) ==
    /\ \A i \in DOMAIN h : h[i].role = "assistant" =>
          \A j \in DOMAIN h[i].ids :
              i + j \in DOMAIN h /\ h[i + j] = ToolResult(h[i].ids[j])
    /\ \A k \in DOMAIN h : h[k].role = "tool" =>
          \E i \in 1..(k - 1) :
              /\ h[i].role = "assistant"
              /\ k - i \in DOMAIN h[i].ids
              /\ h[i].ids[k - i] = h[k].ids[1]

(* The provider is never sent a conversation with an unanswered or a twice *)
(* answered tool call, and neither a completed nor a cancelled run returns *)
(* one, wherever the cancellation fell (the checkpoints of run and         *)
(* _append_cancelled_tool_results).                                        *)
CallsAreAnswered ==
    (pc = "model" \/ result \in {"completed", "cancelled"}) => WellFormed(history)

(* The rows of run_events are in the order of their numbers, whichever of  *)
(* them could not be stored, and the terminal event is the last, only at   *)
(* the end, and the one of the result.                                     *)
EventsInOrder ==
    /\ \A i, j \in DOMAIN events : i < j => events[i].sequence < events[j].sequence
    /\ \A i \in DOMAIN events :
          events[i].type \in Statuses =>
              i = Len(events) /\ pc = "done" /\ events[i].type = result

IsEnd(e) == e.type \in {"tool.completed", "tool.failed", "tool.deferred"}

(* Between the request of a call and its report there is no event but its  *)
(* question for approval; a call is in tool_calls only after its report.   *)
CallsAreReported ==
    /\ \A i \in DOMAIN events : events[i].type = "tool.requested" =>
          \A j \in (i + 1)..Len(events) :
              \/ events[j].type = "tool.approval_requested"
              \/ \E k \in (i + 1)..j : IsEnd(events[k]) /\ events[k].call = events[i].call
    /\ \A i \in DOMAIN recorded :
          \E j \in DOMAIN events : IsEnd(events[j]) /\ events[j].call = recorded[i]

(* A call that the executor was given is recorded, as long as no row is    *)
(* refused: only the last may be missing, while the loop is at it, or if   *)
(* the run ended there, without an event for its end.                      *)
CallsAreRecorded ==
    \A i \in DOMAIN attempted :
        \/ \E j \in DOMAIN recorded : recorded[j] = attempted[i].call
        \/ /\ i = Len(attempted) /\ attempted[i].call = Call
           /\ \/ pc \in {"asking", "approve", "report", "record"}
              \/ pc = "done" /\ \A j \in DOMAIN events : events[j].type \notin Statuses

(* The executor is not given the same tool with the same arguments more    *)
(* than MaxSame times in a row, however the calls are spread over the      *)
(* responses and whatever repeated, deferred or unknown calls lie between. *)
NoLongStreak ==
    \A i \in 1..(Len(attempted) - MaxSame) :
        \E j \in i..(i + MaxSame) : attempted[j].input # attempted[i].input

(* No more than MaxPerResponse calls of one response reach the executor. *)
FewPerResponse ==
    \A s \in 1..MaxSteps :
        Cardinality({i \in DOMAIN attempted : attempted[i].call[1] = s}) <= MaxPerResponse

(* The stored rows tell what the run has done: its events are in order,    *)
(* and of the calls that its tools may have run for, at most the last      *)
(* lacks a report and a record, and only if a row was refused or the loop  *)
(* is at it.  A call that a cancellation skips has neither (publish, run,  *)
(* _record_tool_call).                                                     *)
EventsTellTheCalls == EventsInOrder /\ CallsAreReported /\ CallsAreRecorded

(* The limits of AgentLimits hold together: the steps (TypeOK bounds       *)
(* them), the calls of a response, and the identical calls in a row.       *)
CallsAreLimited == TypeOK /\ FewPerResponse /\ NoLongStreak

===============================================================================
