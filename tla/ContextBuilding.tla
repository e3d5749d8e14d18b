---------------------------- MODULE ContextBuilding -----------------------------
(***************************************************************************)
(* The request of each model call (agent/context_builder.py with           *)
(* context_history.py and context_budget.py): the messages of a run are    *)
(* grouped into units, each a user message with all that follows it, and   *)
(* the newest units that fit the budget are sent, never a part of one.     *)
(*                                                                         *)
(* A conversation keeps the user's messages and the final answers; the     *)
(* tool calls and results of a run are in its own history only.  Text is   *)
(* its length in tokens, and the ids of calls are numbers.                 *)
(***************************************************************************)
EXTENDS Integers, SequencesExt, FiniteSetsExt

CONSTANTS
    Window,        \* context_window_tokens of the model
    MaxInput,      \* max_input_tokens of the user's policy
    Reserved,      \* reserved_output_tokens
    FixedCosts,    \* what the system prompt and the tools of a run may cost
    Sizes,         \* lengths of a text or a tool's result
    CallLists,     \* the call ids of a response, sequences of numbers
    MaxMessages    \* bound: messages in a history

ASSUME ContextAssumption ==
    /\ {Window, MaxInput, Reserved} \subseteq Nat \ {0} /\ Reserved < Window
    /\ FixedCosts \cup Sizes \subseteq Nat /\ MaxMessages \in Nat
    /\ CallLists \subseteq Seq(Nat) /\ <<>> \notin CallLists

VARIABLES
    stored,   \* the messages of the conversation
    history,  \* history of the run that is executing, <<>> when there is none
    fixed     \* the fixed tokens of that run's requests

contextVars == <<stored, history, fixed>>

MessageOverhead == 4
CallOverhead == 8

UserText(size) == [role |-> "user", calls |-> <<>>, id |-> 0, size |-> size]
Answer(size) == [role |-> "assistant", calls |-> <<>>, id |-> 0, size |-> size]
CallsOf(ids, size) == [role |-> "assistant", calls |-> ids, id |-> 0, size |-> size]
Result(id, size) == [role |-> "tool", calls |-> <<>>, id |-> id, size |-> size]

\* estimate_message; a call's id, name and arguments are in the overhead.
EstimateMessage(m) == MessageOverhead + m.size + CallOverhead * Len(m.calls)

MessageTokens(messages) ==
    FoldLeft(LAMBDA sum, m : sum + EstimateMessage(m), 0, messages)

\* ContextBudget.resolve
InputBudget == IF MaxInput <= Window - Reserved THEN MaxInput ELSE Window - Reserved

-------------------------------------------------------------------------------

\* One message of _validate_context_history.  expected: ids still unanswered.
Validate(state, m) ==
    IF state.expected # <<>>
    THEN [valid |-> state.valid /\ m.role = "tool" /\ m.id = Head(state.expected),
          expected |-> Tail(state.expected)]
    ELSE [valid |-> state.valid /\ m.role # "tool" /\ IsInjective(m.calls),
          expected |-> m.calls]

ValidHistory(messages) ==
    LET end == FoldLeft(Validate, [valid |-> TRUE, expected |-> <<>>], messages)
    IN  messages # <<>> =>
            messages[1].role = "user" /\ end.valid /\ end.expected = <<>>

\* Mutant of UnitStarts: a unit also begins with an assistant's message.
TurnStarts(messages) ==
    {i \in DOMAIN messages : i = 1 \/ messages[i].role \in {"user", "assistant"}}

\* Where group_context_history begins a unit.
UnitStarts(messages) == {i \in DOMAIN messages : i = 1 \/ messages[i].role = "user"}

GroupHistory(messages) ==
    LET starts == SetToSortSeq(UnitStarts(messages), <)
        end(u) == IF u = Len(starts) THEN Len(messages) ELSE starts[u + 1] - 1
    IN  [u \in DOMAIN starts |-> SubSeq(messages, starts[u], end(u))]

\* One unit of select_recent_context_history, newest first, until one is too large.
AddUnit(unit, selection, limit) ==
    IF selection.full \/ selection.tokens + MessageTokens(unit) > limit
    THEN [selection EXCEPT !.full = TRUE]
    ELSE [selection EXCEPT !.messages = unit \o @, !.tokens = @ + MessageTokens(unit)]

SelectRecent(units, limit) ==
    FoldRight(LAMBDA unit, selection : AddUnit(unit, selection, limit), units,
              [messages |-> <<>>, tokens |-> 0, full |-> FALSE])

\* ContextBuilder.build; errors in the order in which they are raised.
Request(messages) ==
    LET limit     == IF fixed < InputBudget THEN InputBudget - fixed ELSE 0
        selection == SelectRecent(GroupHistory(messages), limit)
        tokens    == fixed + MessageTokens(selection.messages)
    IN  [messages |-> selection.messages,
         tokens   |-> tokens,
         error    |-> IF ~ValidHistory(messages) THEN "invalid"
                      ELSE IF fixed > InputBudget THEN "fixed"
                      ELSE IF selection.messages = <<>> THEN "latest"
                      ELSE IF tokens > InputBudget THEN "selected"
                      ELSE "none"]

-------------------------------------------------------------------------------

ContextInit == stored = <<>> /\ history = <<>> /\ fixed = 0

\* submit, and execute_submitted reads the messages of the conversation.
StartRun ==
    /\ history = <<>> /\ Len(stored) < MaxMessages
    /\ \E size \in Sizes : stored' = Append(stored, UserText(size))
    /\ history' = stored'
    /\ fixed' \in FixedCosts

ModelAnswers ==
    /\ history # <<>> /\ Request(history).error = "none"
    /\ \E size \in Sizes : stored' = Append(stored, Answer(size))
    /\ history' = <<>> /\ fixed' = 0

\* The model may use an id twice; the results come in the order of the calls.
ModelCalls ==
    /\ history # <<>> /\ Request(history).error = "none"
    /\ \E ids \in CallLists, size \in Sizes :
          /\ Len(history) + 1 + Len(ids) <= MaxMessages
          /\ history' = Append(history, CallsOf(ids, 0))
                            \o [i \in DOMAIN ids |-> Result(ids[i], size)]
    /\ UNCHANGED <<stored, fixed>>

\* The run fails, is cancelled or cannot build its request: no answer is stored.
RunStops ==
    /\ history # <<>>
    /\ history' = <<>> /\ fixed' = 0 /\ UNCHANGED stored

ContextNext == StartRun \/ ModelAnswers \/ ModelCalls \/ RunStops

-------------------------------------------------------------------------------

IsMessage(m) ==
    /\ m.role \in {"user", "assistant", "tool"} /\ m.size \in Sizes \cup {0}
    /\ m.calls \in CallLists \cup {<<>>}

ContextTypeOK ==
    /\ \A i \in DOMAIN stored : IsMessage(stored[i])
    /\ \A i \in DOMAIN history : IsMessage(history[i])
    /\ fixed \in FixedCosts \cup {0}
    /\ history = <<>> \/ IsPrefix(stored, history)

(* A request fits what the user allows and leaves room in the model's      *)
(* window for the answer (resolve and the checks of build).                *)
RequestFits ==
    LET sent == Request(history)
    IN  history # <<>> /\ sent.error = "none" =>
            sent.tokens <= MaxInput /\ sent.tokens + Reserved <= Window

(* A request begins with a question, holds the run's own question with all *)
(* that came after it, and every call in it has its result and every       *)
(* result its call: trimming never takes a unit apart.                     *)
RequestIsWhole ==
    LET sent == Request(history)
    IN  history # <<>> /\ sent.error = "none" =>
            /\ ValidHistory(sent.messages) /\ IsSuffix(sent.messages, history)
            /\ Len(sent.messages) > Len(history) - Max(UnitStarts(history))

(* Nothing is left out that would have fitted: with the next older unit    *)
(* the request is larger than the budget.                                  *)
NothingLeftOut ==
    LET sent == Request(history)
    IN  history # <<>> /\ sent.error = "none" =>
            \A i \in UnitStarts(history) :
                i <= Len(history) - Len(sent.messages) =>
                    fixed + MessageTokens(SubSeq(history, i, Len(history))) > InputBudget

(* A request is refused only because the fixed part or the run's own unit  *)
(* is too large, or the model has used a call id twice; the last check of  *)
(* build never fires.                                                      *)
RefusedForSize ==
    LET error == Request(history).error
    IN  history # <<>> =>
        /\ error # "selected"
        /\ error = "latest" =>
               fixed + MessageTokens(SubSeq(history, Max(UnitStarts(history)),
                                            Len(history))) > InputBudget
        /\ error = "invalid" => \E i \in DOMAIN history : ~IsInjective(history[i].calls)

\* A request is one that the provider accepts, fits the budget, and has as much of the
\* history as it can; it is refused only for its size (context_builder.py).
RequestIsRight ==
    ContextTypeOK /\ RequestFits /\ RequestIsWhole /\ NothingLeftOut /\ RefusedForSize

===============================================================================
