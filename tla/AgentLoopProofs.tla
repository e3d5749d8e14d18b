---------------------------- MODULE AgentLoopProofs ----------------------------
(***************************************************************************)
(* A conversation that is sent or returned has every call answered, the    *)
(* events tell the calls of the run, and the limits hold: for any tools    *)
(* and inputs, any answers of the model, and any limits.  At the end, the  *)
(* approval policy that its calls of tools have to pass.                   *)
(***************************************************************************)
EXTENDS AgentLoop, ToolApproval, SequenceTheorems, FunctionTheorems, FiniteSetTheorems, TLAPS

\* The loop is at a call of a response; and where another step may follow.
Working == {"call", "execute", "asking", "approve", "report", "record"}
Looping == {"start", "step", "model"} \union Working

\* Where the loop is.
Placed ==
    /\ pc \in Looping => step < MaxSteps
    /\ pc \in Working \union {"answered"} => step # 0
    /\ pc \in Working => index <= Len(calls)
    /\ Len(calls) <= MaxCalls
    /\ pc \in {"report", "record"} => execution # "none"
    /\ result # "none" <=> pc \in {"concluding", "done"}

\* The calls of the messages of h but the p-th are answered.
AnsweredBut(h, p) ==
    \A i \in 1..Len(h) : (h[i].role = "assistant" /\ i # p) =>
        \A j \in 1..Len(h[i].ids) :
            i + j \in 1..Len(h) /\ h[i + j] = ToolResult(h[i].ids[j])

\* No tool message of h answers what was not asked.
Asked(h) ==
    \A k \in 1..Len(h) : h[k].role = "tool" =>
        \E i \in 1..(k - 1) :
            /\ h[i].role = "assistant"
            /\ k - i \in 1..Len(h[i].ids)
            /\ h[i].ids[k - i] = h[k].ids[1]

\* The p-th message of h asks for ids, and what follows it answers the first of them.
Answering(h, p, ids) ==
    /\ p \in 1..Len(h) /\ h[p] = Assistant(ids)
    /\ Len(h) - p <= Len(ids)
    /\ \A j \in 1..(Len(h) - p) : h[p + j] = ToolResult(ids[j])
    /\ AnsweredBut(h, p)
    /\ Asked(h)

HistoryInv ==
    /\ pc \in {"start", "step", "model", "answered"} => WellFormed(history)
    /\ pc \in Working => Answering(history, Len(history) - index + 1, IdsFrom(1))
    /\ result \in {"completed", "cancelled"} => WellFormed(history)

\* A call is requested and not yet reported.
Requested == {"execute", "asking", "approve", "report"}

\* The requested call of events[i] has not been reported.
Unreported(i) ==
    /\ events[i].type = "tool.requested"
    /\ \A k \in (i + 1)..Len(events) : ~(IsEnd(events[k]) /\ events[k].call = events[i].call)

EventsInv ==
    /\ \A i \in DOMAIN events : events[i].sequence <= sequence
    /\ EventsInOrder
    /\ CallsAreReported
    /\ \A i \in DOMAIN events : Unreported(i) =>
          pc = "done" \/ (pc \in Requested /\ events[i].call = Call)
    /\ pc = "record" => \E j \in DOMAIN events : IsEnd(events[j]) /\ events[j].call = Call

\* The calls the executor was given are behind the one the loop is at.
Behind(a) ==
    /\ a[1] <= step /\ a[2] <= MaxPerResponse
    /\ pc = "answered" => a[1] < step
    /\ pc \in {"call", "execute"} => a[1] < step \/ a[2] < index
    /\ pc \in {"asking", "approve", "report", "record"} => a[1] < step \/ a[2] <= index

\* The streak counts the identical calls the executor was given last.
Counted ==
    /\ attempted # <<>> => streak.key = attempted[Len(attempted)].input
    /\ attempted = <<>> => streak.count = 0
    /\ \A i \in 1..Len(attempted) :
          (\A j \in i..Len(attempted) : attempted[j].input = attempted[i].input) =>
              Len(attempted) - i + 1 <= streak.count

CallsInv ==
    /\ \A i \in 1..Len(attempted) : Behind(attempted[i].call)
    /\ \A i, j \in 1..Len(attempted) : i # j => attempted[i].call # attempted[j].call
    /\ Counted
    /\ NoLongStreak

\* The loop has a call that it has given to the executor, or could have.
AtCall == {"asking", "approve", "report", "record"}

\* What was given is recorded, or is what the loop is at: a call of a tool that is known.
RecordsInv ==
    /\ CallsAreRecorded
    /\ pc \in AtCall => \A i \in 1..Len(attempted) : attempted[i].call = Call => Input # Unknown

LoopInv == TypeOK /\ Placed /\ HistoryInv /\ EventsInv /\ CallsInv /\ RecordsInv

-------------------------------------------------------------------------------
(* Histories: how they grow. *)

Message == [role : {"assistant", "tool"}, ids : Seq(CallIds)]

LEMMA MessageTypes ==
    /\ \A ids \in Seq(CallIds) : Assistant(ids) \in Message
    /\ \A id \in CallIds : /\ ToolResult(id) \in Message
                           /\ ToolResult(id).role = "tool" /\ ToolResult(id).ids[1] = id
BY DEF Message, Assistant, ToolResult

LEMMA ConcatFacts ==
    ASSUME NEW h \in Seq(Message), NEW t \in Seq(Message)
    PROVE  /\ h \o t \in Seq(Message)
           /\ Len(h \o t) = Len(h) + Len(t) /\ Len(h) \in Nat /\ Len(t) \in Nat
           /\ \A i \in 1..Len(h) : (h \o t)[i] = h[i]
           /\ \A i \in 1..Len(t) : (h \o t)[Len(h) + i] = t[i]
BY ConcatProperties, LenProperties

LEMMA HistoryFacts ==
    ASSUME NEW h \in Seq(Message)
    PROVE  /\ DOMAIN h = 1..Len(h) /\ Len(h) \in Nat
           /\ \A i \in 1..Len(h) :
                 /\ h[i].ids \in Seq(CallIds)
                 /\ DOMAIN h[i].ids = 1..Len(h[i].ids) /\ Len(h[i].ids) \in Nat
<1>1. DOMAIN h = 1..Len(h) /\ Len(h) \in Nat
    BY LenProperties
<1>2. ASSUME NEW i \in 1..Len(h) PROVE h[i].ids \in Seq(CallIds)
  <2>1. h[i] \in Message
      BY ElementOfSeq
  <2> QED
      BY <2>1 DEF Message
<1>3. \A ids \in Seq(CallIds) : DOMAIN ids = 1..Len(ids) /\ Len(ids) \in Nat
    BY LenProperties
<1> QED
    BY <1>1, <1>2, <1>3

\* More of the calls that are open are answered.
LEMMA AnswerMore ==
    ASSUME NEW h \in Seq(Message), NEW t \in Seq(Message), NEW ids \in Seq(CallIds),
           NEW p, Answering(h, p, ids),
           Len(h) - p + Len(t) <= Len(ids),
           \A j \in 1..Len(t) : t[j] = ToolResult(ids[Len(h) - p + j])
    PROVE  Answering(h \o t, p, ids)
<1> DEFINE g == h \o t
           m == Len(h)
           n == Len(t)
<1>1. /\ g \in Seq(Message) /\ Len(g) = m + n /\ m \in Nat /\ n \in Nat
      /\ \A i \in 1..m : g[i] = h[i]
      /\ \A i \in 1..n : g[m + i] = t[i]
    BY ConcatFacts
<1>2. p \in 1..m /\ h[p] = Assistant(ids) /\ Len(ids) \in Nat
    BY LenProperties DEF Answering
<1>3. \A j \in 1..n : /\ m - p + j \in 1..Len(ids) /\ ids[m - p + j] \in CallIds
                      /\ g[m + j] = ToolResult(ids[m - p + j])
                      /\ g[m + j].role = "tool" /\ g[m + j].ids[1] = ids[m - p + j]
  <2> SUFFICES ASSUME NEW j \in 1..n
               PROVE  /\ m - p + j \in 1..Len(ids) /\ ids[m - p + j] \in CallIds
                      /\ g[m + j] = ToolResult(ids[m - p + j])
                      /\ g[m + j].role = "tool" /\ g[m + j].ids[1] = ids[m - p + j]
      OBVIOUS
  <2> DEFINE k == m - p + j
  <2>1. g[m + j] = ToolResult(ids[k]) /\ m - p + n <= Len(ids)
      BY <1>1
  <2> HIDE DEF g, m, n
  <2>2. k \in 1..Len(ids)
      BY <1>1, <1>2, <2>1 DEF m
  <2> HIDE DEF k
  <2>3. ids[k] \in CallIds
      BY <2>2, ElementOfSeq
  <2>4. g[m + j].role = "tool" /\ g[m + j].ids[1] = ids[k]
      BY <2>1, <2>3, MessageTypes
  <2> QED
      BY <2>1, <2>2, <2>3, <2>4 DEF k
<1> HIDE DEF g, m, n
<1>4. p \in 1..Len(g) /\ g[p] = Assistant(ids) /\ Len(g) - p <= Len(ids)
    BY <1>1, <1>2 DEF m, n
<1>5. ASSUME NEW j \in 1..(Len(g) - p) PROVE g[p + j] = ToolResult(ids[j])
  <2>1. CASE j <= m - p
      BY <1>1, <1>2, <2>1 DEF m, Answering
  <2>2. CASE j > m - p
    <3>1. p \in 1..m /\ j \in 1..(m + n - p)
        BY <1>1, <1>2 DEF m
    <3>2. p + j - m \in 1..n /\ m + (p + j - m) = p + j /\ m - p + (p + j - m) = j
        BY <1>1, <2>2, <3>1
    <3> QED
        BY <1>3, <3>2
  <2> QED
      BY <1>1, <1>2, <2>1, <2>2 DEF m
<1>6. \A i \in 1..Len(g) : i \in 1..m \/ (i - m \in 1..n /\ m + (i - m) = i)
    BY <1>1
<1>7. AnsweredBut(g, p)
  <2> SUFFICES ASSUME NEW i \in 1..Len(g), g[i].role = "assistant", i # p,
                      NEW j \in 1..Len(g[i].ids)
               PROVE  i + j \in 1..Len(g) /\ g[i + j] = ToolResult(g[i].ids[j])
      BY DEF AnsweredBut
  <2>1. i \in 1..m
      BY <1>3, <1>6
  <2>2. h[i].role = "assistant" /\ g[i] = h[i] /\ i + j \in 1..m
        /\ h[i + j] = ToolResult(h[i].ids[j])
      BY <1>1, <2>1 DEF m, Answering, AnsweredBut
  <2> QED
      BY <1>1, <2>1, <2>2
<1>8. Asked(g)
  <2> SUFFICES ASSUME NEW k \in 1..Len(g), g[k].role = "tool"
               PROVE  \E i \in 1..(k - 1) :
                         /\ g[i].role = "assistant"
                         /\ k - i \in 1..Len(g[i].ids)
                         /\ g[i].ids[k - i] = g[k].ids[1]
      BY DEF Asked
  <2>1. CASE k \in 1..m
    <3>1. PICK i \in 1..(k - 1) : /\ h[i].role = "assistant"
                                  /\ k - i \in 1..Len(h[i].ids)
                                  /\ h[i].ids[k - i] = h[k].ids[1]
        BY <1>1, <2>1 DEF m, Answering, Asked
    <3>2. i \in 1..m
        BY <1>1, <2>1
    <3> QED
        BY <1>1, <2>1, <3>1, <3>2
  <2>2. CASE k - m \in 1..n /\ m + (k - m) = k
    <3>1. p \in 1..(k - 1) /\ m - p + (k - m) = k - p
        BY <1>1, <1>2, <2>2
    <3>2. k - p \in 1..Len(ids) /\ g[k].ids[1] = ids[k - p]
        BY <1>3, <2>2, <3>1
    <3>3. g[p].role = "assistant" /\ g[p].ids = ids
        BY <1>4 DEF Assistant
    <3> QED
        BY <3>1, <3>2, <3>3
  <2> QED
      BY <1>6, <2>1, <2>2
<1> QED
    BY <1>4, <1>5, <1>7, <1>8 DEF Answering, g

LEMMA AnsweredIsWellFormed ==
    ASSUME NEW h \in Seq(Message), NEW ids \in Seq(CallIds), NEW p,
           Answering(h, p, ids), Len(h) - p = Len(ids)
    PROVE  WellFormed(h)
<1>1. /\ DOMAIN h = 1..Len(h) /\ Len(h) \in Nat
      /\ \A i \in 1..Len(h) : DOMAIN h[i].ids = 1..Len(h[i].ids)
    BY HistoryFacts
<1>2. p \in 1..Len(h) /\ h[p].ids = ids
    BY DEF Answering, Assistant
<1>3. \A i \in 1..Len(h) : h[i].role = "assistant" =>
          \A j \in 1..Len(h[i].ids) : i + j \in 1..Len(h) /\ h[i + j] = ToolResult(h[i].ids[j])
  <2>1. \A j \in 1..Len(ids) : p + j \in 1..Len(h) /\ h[p + j] = ToolResult(ids[j])
      BY <1>1, <1>2 DEF Answering
  <2> QED
      BY <1>2, <2>1 DEF Answering, AnsweredBut
<1>4. \A k \in 1..Len(h) : \A i \in 1..(k - 1) : i \in 1..Len(h)
    BY <1>1
<1> QED
    BY <1>1, <1>3, <1>4 DEF WellFormed, Answering, Asked

LEMMA AskedIsAnswering ==
    ASSUME NEW h \in Seq(Message), NEW ids \in Seq(CallIds), WellFormed(h)
    PROVE  /\ Append(h, Assistant(ids)) \in Seq(Message)
           /\ Len(Append(h, Assistant(ids))) = Len(h) + 1
           /\ Answering(Append(h, Assistant(ids)), Len(h) + 1, ids)
<1> DEFINE a == Assistant(ids)
           g == Append(h, a)
<1>1. a \in Message /\ a.role = "assistant"
    BY MessageTypes DEF Assistant
<1>2. /\ g \in Seq(Message) /\ Len(g) = Len(h) + 1 /\ Len(h) \in Nat /\ Len(ids) \in Nat
      /\ g[Len(h) + 1] = a
      /\ \A i \in 1..Len(h) : g[i] = h[i]
    BY <1>1, AppendProperties, LenProperties
<1>3. /\ DOMAIN h = 1..Len(h)
      /\ \A i \in 1..Len(h) : DOMAIN h[i].ids = 1..Len(h[i].ids) /\ Len(h[i].ids) \in Nat
    BY HistoryFacts
<1> HIDE DEF g, a
<1>4. AnsweredBut(g, Len(h) + 1)
  <2> SUFFICES ASSUME NEW i \in 1..Len(g), g[i].role = "assistant", i # Len(h) + 1,
                      NEW j \in 1..Len(g[i].ids)
               PROVE  i + j \in 1..Len(g) /\ g[i + j] = ToolResult(g[i].ids[j])
      BY DEF AnsweredBut
  <2>1. i \in 1..Len(h)
      BY <1>2
  <2>2. i + j \in 1..Len(h) /\ h[i + j] = ToolResult(h[i].ids[j])
      BY <1>2, <1>3, <2>1 DEF WellFormed
  <2> QED
      BY <1>2, <2>1, <2>2
<1>5. Asked(g)
  <2> SUFFICES ASSUME NEW k \in 1..Len(g), g[k].role = "tool"
               PROVE  \E i \in 1..(k - 1) :
                         /\ g[i].role = "assistant"
                         /\ k - i \in 1..Len(g[i].ids)
                         /\ g[i].ids[k - i] = g[k].ids[1]
      BY DEF Asked
  <2>1. k \in 1..Len(h)
      BY <1>1, <1>2
  <2>2. PICK i \in 1..(k - 1) : /\ h[i].role = "assistant"
                                /\ k - i \in DOMAIN h[i].ids
                                /\ h[i].ids[k - i] = h[k].ids[1]
      BY <1>2, <1>3, <2>1 DEF WellFormed
  <2>3. i \in 1..Len(h)
      BY <1>2, <2>1
  <2> QED
      BY <1>2, <1>3, <2>1, <2>2, <2>3
<1>6. Len(h) + 1 \in 1..Len(g) /\ Len(g) - (Len(h) + 1) = 0
    BY <1>2
<1> QED
    BY <1>2, <1>4, <1>5, <1>6 DEF Answering, g, a

-------------------------------------------------------------------------------
(* Types, and where the loop is. *)

Event   == [sequence : Nat, type : EventTypes, call : CallIds \union {NoCall}]
Attempt == [call : CallIds, input : Inputs]

LEMMA CallFacts ==
    ASSUME LoopAssumption, TypeOK, Placed, pc \in Working
    PROVE  /\ Call \in CallIds /\ Call[1] = step /\ Call[2] = index
           /\ Input \in Inputs \union {Unknown}
           /\ index \in Nat /\ index <= Len(calls) /\ Len(calls) \in Nat /\ step \in Nat
<1>1. Len(calls) \in Nat /\ \A i \in 1..Len(calls) : calls[i] \in Inputs \union {Unknown}
    BY LenProperties, ElementOfSeq DEF TypeOK
<1>2. index \in 1..Len(calls) /\ index \in 1..MaxCalls /\ step \in 1..MaxSteps
    BY <1>1 DEF LoopAssumption, TypeOK, Placed, Working
<1> QED
    BY <1>1, <1>2 DEF Call, CallIds, Input

LEMMA PublishFacts ==
    ASSUME TypeOK, NEW type \in EventTypes, NEW call \in CallIds \union {NoCall},
           Publish(type, call)
    PROVE  /\ sequence' = sequence + 1 /\ sequence' \in Nat
           /\ events' \in Seq(Event)
           /\ Len(events) \in Nat /\ Len(events') = Len(events) + 1
           /\ DOMAIN events = 1..Len(events) /\ DOMAIN events' = 1..Len(events')
           /\ \A i \in 1..Len(events) : events'[i] = events[i]
           /\ events'[Len(events) + 1].sequence = sequence + 1
           /\ events'[Len(events) + 1].type = type
           /\ events'[Len(events) + 1].call = call
<1> DEFINE e == [sequence |-> sequence + 1, type |-> type, call |-> call]
<1>1. /\ e \in Event /\ e.sequence = sequence + 1 /\ e.type = type /\ e.call = call
      /\ sequence \in Nat /\ events \in Seq(Event)
    BY DEF TypeOK, Event
<1>2. events' = Append(events, e) /\ sequence' = sequence + 1
    BY DEF Publish
<1> HIDE DEF e
<1>3. /\ events' \in Seq(Event) /\ Len(events') = Len(events) + 1
      /\ \A i \in 1..Len(events) : events'[i] = events[i]
      /\ events'[Len(events) + 1] = e
    BY <1>1, <1>2, AppendProperties
<1>4. DOMAIN events = 1..Len(events) /\ DOMAIN events' = 1..Len(events') /\ Len(events) \in Nat
    BY <1>1, <1>3, LenProperties
<1> QED
    BY <1>1, <1>2, <1>3, <1>4

\* TypeOK, one conjunct for each variable, with the sets above.
LEMMA Types ==
    TypeOK <=>
    /\ pc \in {"start", "step", "model", "answered", "call", "execute", "asking",
               "approve", "report", "record", "concluding", "done"}
    /\ step \in 0..MaxSteps
    /\ calls \in Seq(Inputs \union {Unknown})
    /\ index \in 1..(MaxCalls + 1)
    /\ execution \in {"none", "tool.completed", "tool.failed", "tool.deferred"}
    /\ streak \in [key : Inputs \union {Unknown}, count : Nat]
    /\ cancelled \in BOOLEAN
    /\ history \in Seq(Message)
    /\ sequence \in Nat
    /\ result \in Statuses \union {"none"}
    /\ events \in Seq(Event)
    /\ recorded \in Seq(CallIds)
    /\ attempted \in Seq(Attempt)
BY DEF TypeOK, Message, Event, Attempt

\* IdsFrom(1), the ids of the calls of the response.
LEMMA IdsFacts ==
    ASSUME LoopAssumption, TypeOK, Len(calls) <= MaxCalls, step # 0
    PROVE  /\ IdsFrom(1) \in Seq(CallIds) /\ Len(IdsFrom(1)) = Len(calls)
           /\ Len(calls) \in Nat
           /\ \A j \in 1..Len(calls) : IdsFrom(1)[j] = <<step, j>>
<1>1. Len(calls) \in Nat
    BY LenProperties DEF TypeOK
<1>2. \A j \in 1..Len(calls) : <<step, j>> \in CallIds
    BY <1>1 DEF TypeOK, CallIds, LoopAssumption
<1>3. /\ IdsFrom(1) \in [1..Len(calls) -> CallIds]
      /\ \A j \in 1..Len(calls) : IdsFrom(1)[j] = <<step, j>>
    BY <1>1, <1>2 DEF IdsFrom
<1>4. IdsFrom(1) \in Seq(CallIds)
    BY <1>1, <1>3, SeqDef
<1>5. DOMAIN IdsFrom(1) = 1..Len(calls) /\ DOMAIN IdsFrom(1) = 1..Len(IdsFrom(1))
      /\ Len(IdsFrom(1)) \in Nat
    BY <1>3, <1>4, LenProperties
<1> QED
    BY <1>1, <1>3, <1>4, <1>5

\* CancelledResults(i), one tool message for each call from place i on.
LEMMA CancelledFacts ==
    ASSUME LoopAssumption, TypeOK, Len(calls) <= MaxCalls, step # 0,
           NEW i \in 1..(Len(calls) + 1)
    PROVE  /\ CancelledResults(i) \in Seq(Message)
           /\ Len(CancelledResults(i)) = Len(calls) - i + 1
           /\ \A j \in 1..(Len(calls) - i + 1) :
                 CancelledResults(i)[j] = ToolResult(IdsFrom(1)[i - 1 + j])
<1> DEFINE n == Len(calls) - i + 1
           s == CancelledResults(i)
<1>1. /\ Len(calls) \in Nat /\ n \in Nat
      /\ \A j \in 1..n : i - 1 + j \in 1..Len(calls) /\ i + j - 1 = i - 1 + j
    BY IdsFacts
<1>2. \A j \in 1..n : IdsFrom(i)[j] = <<step, i + j - 1>>
    BY DEF IdsFrom
<1>3. \A j \in 1..n : IdsFrom(i)[j] = IdsFrom(1)[i - 1 + j] /\ IdsFrom(i)[j] \in CallIds
  <2>1. \A k \in 1..Len(calls) : IdsFrom(1)[k] = <<step, k>> /\ IdsFrom(1)[k] \in CallIds
      BY IdsFacts, ElementOfSeq
  <2> HIDE DEF n
  <2>2. \A j \in 1..n : IdsFrom(i)[j] = <<step, i - 1 + j>>
      BY <1>1, <1>2
  <2> QED
      BY <1>1, <2>1, <2>2
<1>4. DOMAIN s = 1..n /\ s = [j \in 1..n |-> ToolResult(IdsFrom(i)[j])]
    BY DEF CancelledResults
<1>5. \A j \in 1..n : s[j] = ToolResult(IdsFrom(i)[j])
    BY DEF CancelledResults
<1>6. s \in [1..n -> Message]
    BY <1>3, <1>4, MessageTypes
<1> HIDE DEF n, s
<1>7. s \in Seq(Message)
    BY <1>1, <1>6, SeqDef
<1>8. Len(s) = n
    BY <1>1, <1>4, <1>7, LenProperties
<1> QED
    BY <1>3, <1>5, <1>7, <1>8 DEF n, s

LEMMA PublishedTypes ==
    ASSUME TypeOK, NEW type \in EventTypes, NEW call \in CallIds \union {NoCall},
           Publish(type, call)
    PROVE  /\ sequence' \in Nat
           /\ events' \in Seq([sequence : Nat, type : EventTypes, call : CallIds \union {NoCall}])
BY PublishFacts DEF Event

LEMMA PlacedNext ==
    ASSUME LoopAssumption, TypeOK, Placed, Next
    PROVE  TypeOK' /\ Placed'
<1> USE DEF Working, Looping, Conclude, Statuses, EventTypes
<1>0. /\ MaxSteps \in Nat \ {0} /\ step \in 0..MaxSteps /\ MaxCalls \in Nat \ {0}
      /\ NoCall \in CallIds \union {NoCall}
      /\ Len(calls) \in Nat /\ index \in 1..(MaxCalls + 1)
    BY LenProperties DEF LoopAssumption, TypeOK
<1>1. CASE PublishResult
  <2>1. result \in EventTypes
      BY <1>1 DEF PublishResult, TypeOK, Placed
  <2>2. /\ sequence' \in Nat
        /\ events' \in Seq([sequence : Nat, type : EventTypes, call : CallIds \union {NoCall}])
      BY <1>1, <2>1, PublishedTypes DEF PublishResult
  <2> QED
      BY <1>1, <2>2 DEF PublishResult, TypeOK, Placed
<1>2. CASE StoreFails
    BY <1>0, <1>2 DEF StoreFails, TypeOK, Placed
<1>3. CASE Start
  <2>1. /\ sequence' \in Nat
        /\ events' \in Seq([sequence : Nat, type : EventTypes, call : CallIds \union {NoCall}])
      BY <1>3, PublishedTypes DEF Start
  <2> QED
      BY <1>3, <2>1 DEF Start, TypeOK, Placed
<1>4. CASE StopStep \/ ModelFails \/ ModelRaises \/ DropAnswer
    BY <1>4 DEF StopStep, ModelFails, ModelRaises, DropAnswer, TypeOK, Placed
<1>5. CASE BeginStep
  <2>1. /\ sequence' \in Nat
        /\ events' \in Seq([sequence : Nat, type : EventTypes, call : CallIds \union {NoCall}])
      BY <1>5, PublishedTypes DEF BeginStep
  <2> QED
      BY <1>5, <2>1 DEF BeginStep, TypeOK, Placed
<1>6. CASE ModelReturns
  <2>1. /\ sequence' \in Nat
        /\ events' \in Seq([sequence : Nat, type : EventTypes, call : CallIds \union {NoCall}])
      BY <1>6, PublishedTypes DEF ModelReturns
  <2>2. PICK n \in 0..MaxCalls : calls' \in [1..n -> Inputs \union {Unknown}]
      BY <1>6 DEF ModelReturns
  <2>3. calls' \in Seq(Inputs \union {Unknown}) /\ Len(calls') = n
    <3>1. calls' \in Seq(Inputs \union {Unknown})
        BY <1>0, <2>2, SeqDef
    <3>2. DOMAIN calls' = 1..n /\ DOMAIN calls' = 1..Len(calls') /\ Len(calls') \in Nat
        BY <2>2, <3>1, LenProperties
    <3> QED
        BY <1>0, <3>1, <3>2
  <2>4. step' = step + 1 /\ step < MaxSteps /\ pc' = "answered" /\ result = "none"
      BY <1>6 DEF ModelReturns, Placed
  <2> QED
      BY <1>0, <1>6, <2>1, <2>3, <2>4 DEF ModelReturns, TypeOK, Placed
<1>7. CASE TakeAnswer
  <2>1. <<>> \in Seq(CallIds)
      OBVIOUS
  <2>2. Append(history, Assistant(<<>>)) \in Seq(Message)
      BY <2>1, MessageTypes, AppendProperties DEF TypeOK, Message
  <2> QED
      BY <1>7, <2>2 DEF TakeAnswer, TypeOK, Placed, Message
<1>8. CASE ReachLimit \/ TakeCalls
  <2>1. IdsFrom(1) \in Seq(CallIds)
      BY <1>8, IdsFacts DEF ReachLimit, TakeCalls, Placed
  <2>2. Append(history, Assistant(IdsFrom(1))) \in Seq(Message)
      BY <2>1, MessageTypes, AppendProperties DEF TypeOK, Message
  <2>3. calls # <<>> => Len(calls) > 0
      BY EmptySeq DEF TypeOK
  <2>4. CASE ReachLimit
      BY <1>0, <2>2, <2>4 DEF ReachLimit, TypeOK, Placed, Message
  <2>5. CASE TakeCalls
    <3>1. index' = 1 /\ pc' = "call" /\ step < MaxSteps /\ Len(calls) > 0
        BY <1>0, <2>3, <2>5 DEF TakeCalls, AtLimit
    <3> QED
        BY <1>0, <2>2, <2>5, <3>1 DEF TakeCalls, TypeOK, Placed, Message
  <2> QED
      BY <1>8, <2>4, <2>5
<1>9. CASE StopCalls
  <2>1. CancelledResults(index) \in Seq(Message)
      BY <1>0, <1>9, CancelledFacts DEF StopCalls, Placed
  <2>2. history \o CancelledResults(index) \in Seq(Message)
      BY <2>1, ConcatProperties DEF TypeOK, Message
  <2> QED
      BY <1>9, <2>2 DEF StopCalls, TypeOK, Placed, Message
<1>10. CASE RequestCall
  <2>1. /\ sequence' \in Nat
        /\ events' \in Seq([sequence : Nat, type : EventTypes, call : CallIds \union {NoCall}])
      BY <1>10, CallFacts, PublishedTypes DEF RequestCall
  <2> QED
      BY <1>10, <2>1 DEF RequestCall, TypeOK, Placed
<1>11. CASE DeferCall \/ RefuseCall
    BY <1>11 DEF DeferCall, RefuseCall, TypeOK, Placed
<1>12. ASSUME pc = "execute", Input # Unknown, CountTo(NextCount)
       PROVE  streak' \in [key : Inputs \union {Unknown}, count : Nat]
    BY <1>12, CallFacts DEF CountTo, NextCount, TypeOK
<1>13. CASE RefuseRepeated
    BY <1>12, <1>13 DEF RefuseRepeated, TypeOK, Placed
<1>14. CASE CallExecutor
  <2>1. [call |-> Call, input |-> Input] \in Attempt
      BY <1>14, CallFacts DEF CallExecutor, Attempt
  <2>2. attempted' \in Seq(Attempt)
      BY <1>14, <2>1, AppendProperties DEF CallExecutor, TypeOK, Attempt
  <2>3. streak' \in [key : Inputs \union {Unknown}, count : Nat]
      BY <1>12, <1>14 DEF CallExecutor
  <2> QED
      BY <1>14, <2>2, <2>3 DEF CallExecutor, TypeOK, Placed, Attempt
<1>15. CASE AskApproval
  <2>1. /\ sequence' \in Nat
        /\ events' \in Seq([sequence : Nat, type : EventTypes, call : CallIds \union {NoCall}])
    <3>1. CASE Publish("tool.approval_requested", Call)
        BY <1>15, <3>1, CallFacts, PublishedTypes DEF AskApproval
    <3>2. CASE sequence' = sequence + 1 /\ UNCHANGED events
        BY <3>2 DEF TypeOK
    <3> QED
        BY <1>15, <3>1, <3>2 DEF AskApproval
  <2> QED
      BY <1>15, <2>1 DEF AskApproval, TypeOK, Placed
<1>16. CASE AwaitDecision
    BY <1>16 DEF AwaitDecision, TypeOK, Placed
<1>17. CASE ReportCall
  <2>1. execution \in EventTypes
      BY <1>17 DEF ReportCall, TypeOK, Placed
  <2>2. /\ sequence' \in Nat
        /\ events' \in Seq([sequence : Nat, type : EventTypes, call : CallIds \union {NoCall}])
      BY <1>17, <2>1, CallFacts, PublishedTypes DEF ReportCall
  <2> QED
      BY <1>17, <2>2 DEF ReportCall, TypeOK, Placed
<1>18. CASE RecordCall
  <2>1. recorded' \in Seq(CallIds)
      BY <1>18, CallFacts, AppendProperties DEF RecordCall, Recorded, TypeOK
  <2>2. index \in 1..Len(calls) /\ Len(calls) <= MaxCalls
      BY <1>0, <1>18 DEF RecordCall, Placed
  <2>3. Append(history, ToolResult(Call)) \in Seq(Message)
      BY <1>18, CallFacts, MessageTypes, AppendProperties DEF RecordCall, TypeOK, Message
  <2>4. CancelledResults(index + 1) \in Seq(Message)
    <3>1. index + 1 \in 1..(Len(calls) + 1) /\ step # 0
        BY <1>0, <1>18, <2>2 DEF RecordCall, Placed
    <3> QED
        BY <2>2, <3>1, CancelledFacts
  <2>5. history' \in Seq(Message)
      BY <1>18, <2>3, <2>4, ConcatProperties DEF RecordCall
  <2>6. CASE cancelled
      BY <1>18, <2>1, <2>5, <2>6 DEF RecordCall, TypeOK, Placed, Message
  <2>7. CASE ~cancelled
    <3>1. /\ index' = index + 1 /\ index' \in 1..(MaxCalls + 1)
          /\ pc' \in {"step", "call"} /\ (pc' = "call" => index' <= Len(calls))
        BY <1>0, <1>18, <2>2, <2>7 DEF RecordCall
    <3> QED
        BY <1>18, <2>1, <2>5, <2>7, <3>1 DEF RecordCall, TypeOK, Placed, Message
  <2> QED
      BY <2>6, <2>7
<1>19. CASE Cancel
    BY <1>19 DEF Cancel, TypeOK, Placed
<1> QED
    BY <1>1, <1>2, <1>3, <1>4, <1>5, <1>6, <1>7, <1>8, <1>9, <1>10, <1>11, <1>13, <1>14,
       <1>15, <1>16, <1>17, <1>18, <1>19 DEF Next, LoopStep

-------------------------------------------------------------------------------
(* The conversation *)

LEMMA HistoryNext ==
    ASSUME LoopAssumption, TypeOK, Placed, HistoryInv, Next
    PROVE  HistoryInv'
<1> USE DEF Working
<1> DEFINE h == history
           ids == IdsFrom(1)
           p == Len(history) - index + 1
<1>0. /\ h \in Seq(Message) /\ Len(h) \in Nat /\ Len(calls) \in Nat
      /\ Len(calls) <= MaxCalls /\ index \in Nat \ {0} /\ result \in Statuses \union {"none"}
    BY LenProperties DEF LoopAssumption, TypeOK, Message, Placed
<1>1. pc \in Working =>
         /\ ids \in Seq(CallIds) /\ Len(ids) = Len(calls) /\ step # 0
         /\ index \in 1..Len(calls) /\ Answering(h, p, ids) /\ Len(h) - p = index - 1
    BY <1>0, IdsFacts DEF Placed, HistoryInv
<1>2. ASSUME UNCHANGED <<history, index, calls, step, result>>,
             pc \in Working /\ pc' \in Working
      PROVE  HistoryInv'
  <2>1. IdsFrom(1)' = IdsFrom(1)
      BY <1>2 DEF IdsFrom
  <2> HIDE DEF h, ids, p
  <2> QED
      BY <1>2, <2>1 DEF HistoryInv
<1>3. ASSUME UNCHANGED history, WellFormed(history), pc' \notin Working
      PROVE  HistoryInv'
    BY <1>3 DEF HistoryInv
<1>4. ASSUME pc' \in {"concluding", "done"}, result' \notin {"completed", "cancelled"}
      PROVE  HistoryInv'
    BY <1>4 DEF HistoryInv
<1>5. ASSUME WellFormed(history'), pc' \notin Working
      PROVE  HistoryInv'
    BY <1>5 DEF HistoryInv
<1>6. CASE PublishResult
    BY <1>6 DEF PublishResult, HistoryInv
<1>7. CASE StoreFails \/ ModelRaises
    BY <1>4, <1>7 DEF StoreFails, ModelRaises
<1>8. CASE Start \/ StopStep \/ BeginStep \/ ModelFails \/ ModelReturns \/ DropAnswer
    BY <1>3, <1>8
    DEF Start, StopStep, BeginStep, ModelFails, ModelReturns, DropAnswer, Conclude, HistoryInv
<1>9. CASE TakeAnswer
  <2>1. WellFormed(h) /\ h' = Append(h, Assistant(<<>>)) /\ pc' = "concluding"
      BY <1>9 DEF TakeAnswer, Conclude, HistoryInv
  <2>2. <<>> \in Seq(CallIds) /\ Len(<<>>) = 0
      OBVIOUS
  <2> HIDE DEF h, p, ids
  <2>3. h' \in Seq(Message) /\ Len(h') = Len(h) + 1 /\ Answering(h', Len(h) + 1, <<>>)
      BY <1>0, <2>1, <2>2, AskedIsAnswering
  <2>4. Len(h') - (Len(h) + 1) = 0
      BY <1>0, <2>3
  <2>5. WellFormed(h')
      BY <2>2, <2>3, <2>4, AnsweredIsWellFormed
  <2> QED
      BY <1>5, <2>1, <2>5 DEF h
<1>10. CASE ReachLimit
    BY <1>4, <1>10 DEF ReachLimit, Conclude
<1>11. CASE TakeCalls
  <2>1. /\ WellFormed(h) /\ h' = Append(h, Assistant(ids)) /\ pc' = "call" /\ index' = 1
        /\ UNCHANGED <<calls, step, result>> /\ step # 0 /\ result = "none"
      BY <1>11 DEF TakeCalls, HistoryInv, Placed
  <2>2. ids \in Seq(CallIds) /\ ids' = ids
      BY <1>0, <2>1, IdsFacts DEF IdsFrom
  <2>3. Len(h') = Len(h) + 1 /\ Answering(h', Len(h) + 1, ids)
      BY <1>0, <2>1, <2>2, AskedIsAnswering
  <2> HIDE DEF h, ids
  <2>4. Len(h') - index' + 1 = Len(h) + 1
      BY <1>0, <2>1, <2>3
  <2> QED
      BY <2>1, <2>2, <2>3, <2>4 DEF HistoryInv, h, ids
<1>12. CASE StopCalls
  <2> DEFINE t == CancelledResults(index)
  <2>1. pc \in Working /\ pc' = "concluding" /\ h' = h \o t
      BY <1>12 DEF StopCalls, Conclude
  <2>2. /\ t \in Seq(Message) /\ Len(t) = Len(calls) - index + 1
        /\ \A j \in 1..(Len(calls) - index + 1) : t[j] = ToolResult(ids[index - 1 + j])
      BY <1>0, <1>1, <2>1, CancelledFacts
  <2> HIDE DEF t, h, ids, p
  <2>3. Len(h) - p + Len(t) <= Len(ids)
        /\ \A j \in 1..Len(t) : t[j] = ToolResult(ids[Len(h) - p + j])
      BY <1>0, <1>1, <2>1, <2>2
  <2>4. Answering(h \o t, p, ids)
      BY <1>0, <1>1, <2>1, <2>2, <2>3, AnswerMore
  <2>5. h \o t \in Seq(Message) /\ Len(h \o t) = Len(h) + Len(t)
      BY <1>0, <2>2, ConcatFacts
  <2>6. Len(h \o t) - p = Len(ids)
      BY <1>0, <1>1, <2>1, <2>2, <2>5, CancelledFacts DEF p, h
  <2>7. WellFormed(h \o t)
      BY <1>1, <2>1, <2>4, <2>5, <2>6, AnsweredIsWellFormed
  <2> QED
      BY <1>5, <2>1, <2>7 DEF h
<1>13. CASE RequestCall \/ DeferCall \/ RefuseCall \/ RefuseRepeated \/ CallExecutor
            \/ AskApproval \/ AwaitDecision \/ ReportCall
    BY <1>2, <1>13 DEF RequestCall, DeferCall, RefuseCall, RefuseRepeated, CallExecutor,
       AskApproval, AwaitDecision, ReportCall
<1>14. CASE RecordCall
  <2> DEFINE t == <<ToolResult(Call)>>
             g == h \o t
  <2>1. pc \in Working /\ Call = ids[index] /\ ToolResult(Call) \in Message
      BY <1>0, <1>1, <1>14, CallFacts, IdsFacts, MessageTypes DEF RecordCall, Call
  <2>2. t \in Seq(Message) /\ Len(t) = 1 /\ t[1] = ToolResult(Call)
      BY <2>1
  <2>3. Append(h, ToolResult(Call)) = g
      BY <1>0, <2>1, AppendIsConcat
  <2>4. /\ \/ cancelled /\ pc' = "concluding" /\ h' = g \o CancelledResults(index + 1)
           \/ /\ ~cancelled /\ h' = g /\ index' = index + 1 /\ UNCHANGED result
              /\ pc' = IF index = Len(calls) THEN "step" ELSE "call"
        /\ UNCHANGED <<calls, step>> /\ result = "none"
      BY <1>14, <2>3 DEF RecordCall, Conclude, Placed
  <2>5. ids' = ids
      BY <2>4 DEF IdsFrom
  <2> HIDE DEF t, h, ids, p
  <2>6. Len(h) - p + Len(t) <= Len(ids)
        /\ \A j \in 1..Len(t) : t[j] = ToolResult(ids[Len(h) - p + j])
      BY <1>0, <1>1, <2>1, <2>2
  <2>7. Answering(g, p, ids)
      BY <1>0, <1>1, <2>1, <2>2, <2>6, AnswerMore
  <2>8. g \in Seq(Message) /\ Len(g) = Len(h) + 1
    <3>1. g \in Seq(Message) /\ Len(g) = Len(h) + Len(t)
        BY <1>0, <2>2, ConcatFacts
    <3> QED
        BY <2>2, <3>1
  <2>9. Len(g) - p = index /\ p = Len(g) - (index + 1) + 1
      BY <1>0, <1>1, <2>1, <2>8 DEF p, h
  <2> HIDE DEF g
  <2>10. CASE cancelled
    <3> DEFINE s == CancelledResults(index + 1)
    <3>1. /\ s \in Seq(Message) /\ Len(s) = Len(calls) - index
          /\ \A j \in 1..Len(s) : s[j] = ToolResult(ids[index + j])
      <4>1. index + 1 \in 1..(Len(calls) + 1)
          BY <1>0, <1>1, <2>1
      <4>2. /\ s \in Seq(Message) /\ Len(s) = Len(calls) - (index + 1) + 1
            /\ \A j \in 1..(Len(calls) - (index + 1) + 1) :
                  s[j] = ToolResult(ids[(index + 1) - 1 + j])
          BY <1>0, <1>1, <2>1, <4>1, CancelledFacts DEF ids
      <4> HIDE DEF s
      <4>3. Len(calls) - (index + 1) + 1 = Len(calls) - index
          BY <1>0
      <4>4. \A j \in 1..(Len(calls) - index) : (index + 1) - 1 + j = index + j
          BY <1>0
      <4> QED
          BY <4>2, <4>3, <4>4
    <3> HIDE DEF s
    <3>2. Len(g) - p + Len(s) = Len(ids) /\ Len(g) - p + Len(s) <= Len(ids)
        BY <1>0, <1>1, <2>1, <2>9, <3>1
    <3>3. \A j \in 1..Len(s) : s[j] = ToolResult(ids[Len(g) - p + j])
        BY <2>9, <3>1
    <3>4. Answering(g \o s, p, ids)
        BY <1>1, <2>1, <2>7, <2>8, <3>1, <3>2, <3>3, AnswerMore
    <3>5. g \o s \in Seq(Message) /\ Len(g \o s) = Len(g) + Len(s) /\ Len(s) \in Nat
        BY <2>8, <3>1, ConcatFacts
    <3>6. Len(g \o s) - p = Len(ids)
        BY <1>0, <1>1, <2>1, <2>8, <2>9, <3>1, <3>5
    <3>7. WellFormed(g \o s)
        BY <1>1, <2>1, <3>4, <3>5, <3>6, AnsweredIsWellFormed
    <3> QED
        BY <1>5, <2>4, <2>10, <3>7 DEF h, s
  <2>11. CASE ~cancelled /\ index = Len(calls)
    <3>1. WellFormed(g)
        BY <1>1, <2>1, <2>7, <2>8, <2>9, <2>11, AnsweredIsWellFormed
    <3> QED
        BY <1>5, <2>4, <2>11, <3>1 DEF h
  <2>12. CASE ~cancelled /\ index # Len(calls)
    <3>1. h' = g /\ index' = index + 1 /\ pc' = "call" /\ result' = "none"
        BY <2>4, <2>12
    <3>2. Answering(h', Len(h') - index' + 1, ids')
        BY <2>5, <2>7, <2>9, <3>1
    <3> QED
        BY <3>1, <3>2 DEF HistoryInv, h, ids
  <2> QED
      BY <2>10, <2>11, <2>12
<1>15. CASE Cancel
  <2>1. UNCHANGED <<history, index, calls, step, result, pc>>
      BY <1>15 DEF Cancel
  <2>2. IdsFrom(1)' = IdsFrom(1)
      BY <2>1 DEF IdsFrom
  <2> HIDE DEF h, ids, p
  <2> QED
      BY <2>1, <2>2 DEF HistoryInv
<1> QED
    BY <1>6, <1>7, <1>8, <1>9, <1>10, <1>11, <1>12, <1>13, <1>14, <1>15 DEF Next, LoopStep

-------------------------------------------------------------------------------
(* The events *)

\* A step that stores no event.
LEMMA QuietStep ==
    ASSUME TypeOK, EventsInv, pc # "done", UNCHANGED events,
           sequence' \in Nat, sequence <= sequence',
           \A i \in DOMAIN recorded' :
              \/ \E k \in DOMAIN recorded : recorded'[i] = recorded[k]
              \/ pc = "record" /\ recorded'[i] = Call,
           pc \in Requested =>
              pc' = "done" \/ (pc' \in Requested /\ UNCHANGED <<step, index>>),
           pc' = "record" => pc = "record" /\ UNCHANGED <<step, index>>
    PROVE  EventsInv'
<1>1. /\ \A i \in DOMAIN events : events[i].sequence \in Nat /\ events[i].type \notin Statuses
      /\ sequence \in Nat
  <2>1. events \in Seq(Event) /\ sequence \in Nat
      BY DEF TypeOK, Event
  <2>2. \A i \in DOMAIN events : events[i] \in Event
      BY <2>1, ElementOfSeq, LenProperties
  <2> QED
      BY <2>1, <2>2 DEF Event, EventsInv, EventsInOrder
<1>2. \A i \in DOMAIN events : events[i].sequence <= sequence'
    BY <1>1 DEF EventsInv
<1>3. EventsInOrder'
    BY <1>1 DEF EventsInv, EventsInOrder
<1>4. CallsAreReported'
  <2>1. \A i \in DOMAIN recorded' :
           \E j \in DOMAIN events : IsEnd(events[j]) /\ events[j].call = recorded'[i]
      BY DEF EventsInv, CallsAreReported
  <2> QED
      BY <2>1 DEF EventsInv, CallsAreReported, IsEnd
<1>5. \A i \in DOMAIN events : Unreported(i)' => Unreported(i)
    BY DEF Unreported, IsEnd
<1>6. \A i \in DOMAIN events : Unreported(i)' =>
         pc' = "done" \/ (pc' \in Requested /\ events[i].call = Call')
    BY <1>5 DEF EventsInv, Call
<1>7. pc' = "record" => \E j \in DOMAIN events : IsEnd(events[j])' /\ events[j].call = Call'
    BY DEF EventsInv, Call, IsEnd
<1> QED
    BY <1>2, <1>3, <1>4, <1>6, <1>7 DEF EventsInv

\* A step that stores one.
LEMMA PublishStep ==
    ASSUME TypeOK, EventsInv, pc # "done", NEW type \in EventTypes,
           NEW call \in CallIds \union {NoCall}, Publish(type, call), UNCHANGED recorded,
           type \in Statuses => pc' = "done" /\ result' = type,
           \/ /\ pc \notin Requested /\ pc' # "record"
              /\ type = "tool.requested" => pc' = "execute" /\ Call' = call
           \/ /\ type = "tool.approval_requested"
              /\ pc \in Requested /\ pc' \in Requested /\ Call' = Call
           \/ /\ type \in {"tool.completed", "tool.failed", "tool.deferred"}
              /\ call = Call /\ pc' = "record" /\ Call' = Call
    PROVE  EventsInv'
<1> DEFINE n == Len(events)
<1>1. /\ sequence' = sequence + 1 /\ sequence' \in Nat /\ sequence \in Nat
      /\ n \in Nat /\ DOMAIN events = 1..n /\ DOMAIN events' = 1..(n + 1) /\ Len(events') = n + 1
      /\ \A i \in 1..n : events'[i] = events[i]
      /\ events'[n + 1].sequence = sequence + 1
      /\ events'[n + 1].type = type /\ events'[n + 1].call = call
    BY PublishFacts DEF TypeOK
<1>2. \A i \in 1..n : events[i].sequence \in Nat /\ events[i].type \notin Statuses
                     /\ events[i].sequence <= sequence
  <2>1. events \in Seq(Event)
      BY DEF TypeOK, Event
  <2>2. \A i \in 1..n : events[i] \in Event
      BY <1>1, <2>1, ElementOfSeq
  <2> QED
      BY <1>1, <2>2 DEF Event, EventsInv, EventsInOrder
<1> HIDE DEF n
<1>3. \A i \in 1..(n + 1) : i \in 1..n \/ i = n + 1
    BY <1>1
<1>4. \A i \in DOMAIN events' : events'[i].sequence <= sequence'
    BY <1>1, <1>2, <1>3
<1>5. EventsInOrder'
  <2>1. \A i, j \in 1..(n + 1) : i < j => events'[i].sequence < events'[j].sequence
    <3> SUFFICES ASSUME NEW i \in 1..(n + 1), NEW j \in 1..(n + 1), i < j
                 PROVE  events'[i].sequence < events'[j].sequence
        OBVIOUS
    <3>1. i \in 1..n
        BY <1>1
    <3>2. CASE j \in 1..n
        BY <1>1, <3>1, <3>2 DEF EventsInv, EventsInOrder
    <3>3. CASE j = n + 1
        BY <1>1, <1>2, <3>1, <3>3
    <3> QED
        BY <1>3, <3>2, <3>3
  <2>2. \A i \in 1..(n + 1) : events'[i].type \in Statuses =>
           i = n + 1 /\ pc' = "done" /\ events'[i].type = result'
      BY <1>1, <1>2, <1>3
  <2> QED
      BY <1>1, <2>1, <2>2 DEF EventsInOrder
<1>6. \A i \in 1..n : events[i].type = "tool.requested" =>
          \/ pc \in Requested /\ events[i].call = Call
          \/ \E k \in (i + 1)..n : IsEnd(events[k]) /\ events[k].call = events[i].call
    BY <1>1 DEF EventsInv, Unreported, n
<1>7. \A i \in 1..n : \A k \in (i + 1)..n : k \in 1..n
    BY <1>1
<1>8. \A i \in 1..n : events[i].type = "tool.requested" =>
          \/ type = "tool.approval_requested"
          \/ \E k \in (i + 1)..(n + 1) : IsEnd(events'[k]) /\ events'[k].call = events[i].call
  <2> SUFFICES ASSUME NEW i \in 1..n, events[i].type = "tool.requested",
                      type # "tool.approval_requested"
               PROVE  \E k \in (i + 1)..(n + 1) :
                         IsEnd(events'[k]) /\ events'[k].call = events[i].call
      OBVIOUS
  <2>1. CASE \E k \in (i + 1)..n : IsEnd(events[k]) /\ events[k].call = events[i].call
    <3>1. PICK k \in (i + 1)..n : IsEnd(events[k]) /\ events[k].call = events[i].call
        BY <2>1
    <3>2. k \in (i + 1)..(n + 1) /\ events'[k] = events[k]
        BY <1>1, <1>7
    <3> QED
        BY <3>1, <3>2 DEF IsEnd
  <2>2. CASE pc \in Requested /\ events[i].call = Call
    <3>1. n + 1 \in (i + 1)..(n + 1)
        BY <1>1
    <3> QED
        BY <1>1, <2>2, <3>1 DEF IsEnd
  <2> QED
      BY <1>6, <2>1, <2>2
<1>9. CallsAreReported'
  <2>1. ASSUME NEW i \in 1..(n + 1), events'[i].type = "tool.requested",
               NEW j \in (i + 1)..(n + 1)
        PROVE  \/ events'[j].type = "tool.approval_requested"
               \/ \E k \in (i + 1)..j : IsEnd(events'[k]) /\ events'[k].call = events'[i].call
    <3>1. i \in 1..n /\ events'[i] = events[i]
        BY <1>1, <1>3
    <3>2. CASE j = n + 1
        BY <1>1, <1>8, <2>1, <3>1, <3>2
    <3>3. CASE j \in (i + 1)..n
      <4>1. \/ events[j].type = "tool.approval_requested"
            \/ \E k \in (i + 1)..j : IsEnd(events[k]) /\ events[k].call = events[i].call
          BY <1>1, <2>1, <3>1, <3>3 DEF EventsInv, CallsAreReported, n
      <4>2. \A k \in (i + 1)..j : k \in 1..n
          BY <1>1, <3>1, <3>3
      <4>3. j \in 1..n
          BY <1>7, <3>1, <3>3
      <4> QED
          BY <1>1, <3>1, <4>1, <4>2, <4>3 DEF IsEnd
    <3> QED
        BY <1>1, <3>1, <3>2, <3>3
  <2>2. \A i \in DOMAIN recorded :
           \E j \in 1..(n + 1) : IsEnd(events'[j]) /\ events'[j].call = recorded[i]
    <3>1. \A i \in DOMAIN recorded :
             \E j \in 1..n : IsEnd(events[j]) /\ events[j].call = recorded[i]
        BY <1>1 DEF EventsInv, CallsAreReported
    <3>2. \A j \in 1..n : j \in 1..(n + 1) /\ events'[j] = events[j]
        BY <1>1
    <3> QED
        BY <3>1, <3>2 DEF IsEnd
  <2> QED
      BY <1>1, <2>1, <2>2 DEF CallsAreReported, IsEnd
<1>10. \A i \in DOMAIN events' : Unreported(i)' =>
          pc' = "done" \/ (pc' \in Requested /\ events'[i].call = Call')
  <2> SUFFICES ASSUME NEW i \in 1..(n + 1), events'[i].type = "tool.requested",
                      \A k \in (i + 1)..(n + 1) :
                         ~(IsEnd(events'[k]) /\ events'[k].call = events'[i].call)
               PROVE  pc' = "done" \/ (pc' \in Requested /\ events'[i].call = Call')
      BY <1>1 DEF Unreported, IsEnd
  <2>1. CASE i = n + 1
      BY <1>1, <2>1 DEF Requested
  <2>2. CASE i \in 1..n
    <3>1. events'[i] = events[i]
        BY <1>1, <2>2
    <3>2. type = "tool.approval_requested"
        BY <1>8, <2>2, <3>1
    <3>3. \A k \in (i + 1)..n : k \in (i + 1)..(n + 1) /\ events'[k] = events[k]
        BY <1>1, <1>7, <2>2
    <3>4. pc \in Requested /\ events[i].call = Call
        BY <1>6, <2>2, <3>1, <3>3 DEF IsEnd
    <3> QED
        BY <3>1, <3>2, <3>4
  <2> QED
      BY <1>3, <2>1, <2>2
<1>11. pc' = "record" => \E j \in DOMAIN events' : IsEnd(events'[j]) /\ events'[j].call = Call'
    BY <1>1 DEF IsEnd, Requested
<1> QED
    BY <1>4, <1>5, <1>9, <1>10, <1>11 DEF EventsInv, IsEnd

LEMMA EventsNext ==
    ASSUME LoopAssumption, TypeOK, Placed, EventsInv, Next
    PROVE  EventsInv'
<1> USE DEF Requested, Conclude
<1>1. /\ sequence \in Nat /\ sequence <= sequence /\ sequence + 1 \in Nat
      /\ sequence <= sequence + 1 /\ NoCall \in CallIds \union {NoCall}
    BY DEF TypeOK
<1>2. pc \in Working => Call \in CallIds
    BY CallFacts
<1>3. CASE PublishResult
  <2>1. result \in Statuses
      BY <1>3 DEF PublishResult, TypeOK, Placed
  <2> QED
      BY <1>1, <1>3, <2>1, PublishStep DEF PublishResult, EventTypes, Statuses
<1>4. CASE StoreFails
    BY <1>1, <1>4, QuietStep DEF StoreFails
<1>5. CASE Start
    BY <1>1, <1>5, PublishStep DEF Start, EventTypes, Statuses
<1>6. CASE BeginStep
    BY <1>1, <1>6, PublishStep DEF BeginStep, EventTypes, Statuses
<1>7. CASE ModelReturns
    BY <1>1, <1>7, PublishStep DEF ModelReturns, EventTypes, Statuses
<1>8. CASE StopStep \/ ModelFails \/ ModelRaises \/ DropAnswer \/ TakeAnswer \/ ReachLimit
           \/ TakeCalls \/ StopCalls
    BY <1>1, <1>8, QuietStep
    DEF StopStep, ModelFails, ModelRaises, DropAnswer, TakeAnswer, ReachLimit, TakeCalls,
        StopCalls
<1>9. CASE RequestCall
  <2>1. Call \in CallIds /\ Call' = Call
      BY <1>2, <1>9 DEF RequestCall, Working, Call
  <2> QED
      BY <1>1, <1>9, <2>1, PublishStep DEF RequestCall, EventTypes, Statuses
<1>10. CASE DeferCall \/ RefuseCall \/ RefuseRepeated \/ CallExecutor \/ AwaitDecision
    BY <1>1, <1>10, QuietStep DEF DeferCall, RefuseCall, RefuseRepeated, CallExecutor, AwaitDecision
<1>11. CASE AskApproval
  <2>1. Call \in CallIds /\ Call' = Call
      BY <1>2, <1>11 DEF AskApproval, Working, Call
  <2>2. CASE Publish("tool.approval_requested", Call) /\ pc' = "approve"
      BY <1>1, <1>11, <2>1, <2>2, PublishStep DEF AskApproval, EventTypes, Statuses
  <2>3. CASE sequence' = sequence + 1 /\ pc' = "report" /\ UNCHANGED events
      BY <1>1, <1>11, <2>3, QuietStep DEF AskApproval
  <2> QED
      BY <1>11, <2>2, <2>3 DEF AskApproval
<1>12. CASE ReportCall
  <2>1. Call \in CallIds /\ Call' = Call
      BY <1>2, <1>12 DEF ReportCall, Working, Call
  <2>2. execution \in {"tool.completed", "tool.failed", "tool.deferred"}
      BY <1>12 DEF ReportCall, TypeOK, Placed
  <2> QED
      BY <1>1, <1>12, <2>1, <2>2, PublishStep DEF ReportCall, EventTypes, Statuses
<1>13. CASE RecordCall
  <2>1. recorded \in Seq(CallIds) /\ Call \in CallIds
      BY <1>2, <1>13 DEF RecordCall, Working, TypeOK
  <2>2. \A i \in DOMAIN recorded' :
           (\E k \in DOMAIN recorded : recorded'[i] = recorded[k]) \/ recorded'[i] = Call
    <3>1. CASE recorded' = recorded
        BY <3>1
    <3>2. CASE recorded' = Append(recorded, Call)
      <4>1. /\ recorded' \in Seq(CallIds) /\ Len(recorded') = Len(recorded) + 1
            /\ \A i \in 1..Len(recorded) : recorded'[i] = recorded[i]
            /\ recorded'[Len(recorded) + 1] = Call
          BY <2>1, <3>2, AppendProperties
      <4>2. /\ DOMAIN recorded' = 1..Len(recorded') /\ DOMAIN recorded = 1..Len(recorded)
            /\ Len(recorded) \in Nat
          BY <2>1, <4>1, LenProperties
      <4>3. \A i \in 1..(Len(recorded) + 1) : i \in 1..Len(recorded) \/ i = Len(recorded) + 1
          BY <4>2
      <4> QED
          BY <4>1, <4>2, <4>3
    <3> QED
        BY <1>13, <3>1, <3>2 DEF RecordCall, Recorded
  <2>3. pc' \in {"concluding", "step", "call"}
      BY <1>13 DEF RecordCall
  <2> QED
      BY <1>1, <1>13, <2>2, <2>3, QuietStep DEF RecordCall
<1>14. CASE Cancel
    BY <1>1, <1>14, QuietStep DEF Cancel
<1> QED
    BY <1>3, <1>4, <1>5, <1>6, <1>7, <1>8, <1>9, <1>10, <1>11, <1>12, <1>13, <1>14
    DEF Next, LoopStep

-------------------------------------------------------------------------------
(* The calls the executor is given *)

\* A step that gives it none: the loop does not go back, and the streak of the input
\* that was given last only grows.
LEMMA NoAttempt ==
    ASSUME LoopAssumption, TypeOK, CallsInv, UNCHANGED attempted,
           \A a \in CallIds : Behind(a) => Behind(a)',
           \/ UNCHANGED streak
           \/ /\ streak' \in [key : Inputs \union {Unknown}, count : Nat] /\ attempted # <<>>
              /\ streak'.key = streak.key /\ streak'.count = streak.count + 1
    PROVE  CallsInv'
<1>1. attempted \in Seq(Attempt) /\ Len(attempted) \in Nat
    BY LenProperties DEF TypeOK, Attempt
<1>2. \A i \in 1..Len(attempted) : attempted[i].call \in CallIds
  <2>1. \A i \in 1..Len(attempted) : attempted[i] \in Attempt
      BY <1>1, ElementOfSeq
  <2> QED
      BY <2>1 DEF Attempt
<1>3. Counted'
  <2>1. streak.count \in Nat
      BY DEF TypeOK
  <2> QED
      BY <1>1, <2>1 DEF CallsInv, Counted
<1>4. NoLongStreak'
    BY DEF CallsInv, NoLongStreak
<1> QED
    BY <1>2, <1>3, <1>4 DEF CallsInv

LEMMA CallsNext ==
    ASSUME LoopAssumption, TypeOK, Placed, CallsInv, Next
    PROVE  CallsInv'
<1>1. /\ step \in Nat /\ index \in Nat \ {0} /\ MaxPerResponse \in Nat /\ MaxSame \in Nat \ {0}
      /\ \A a \in CallIds : a[1] \in Nat /\ a[2] \in Nat
    BY DEF LoopAssumption, TypeOK, CallIds
<1>2. CASE \/ PublishResult \/ StoreFails \/ Start \/ StopStep \/ BeginStep \/ ModelFails
           \/ ModelRaises \/ ModelReturns \/ DropAnswer \/ TakeAnswer \/ ReachLimit
  <2>1. \A a \in CallIds : Behind(a) => Behind(a)'
      BY <1>1, <1>2
      DEF Behind, Conclude, PublishResult, StoreFails, Start, StopStep, BeginStep, ModelFails,
          ModelRaises, ModelReturns, DropAnswer, TakeAnswer, ReachLimit
  <2>2. UNCHANGED <<attempted, streak>>
      BY <1>2
      DEF PublishResult, StoreFails, Start, StopStep, BeginStep, ModelFails, ModelRaises,
          ModelReturns, DropAnswer, TakeAnswer, ReachLimit
  <2> QED
      BY <2>1, <2>2, NoAttempt
<1>3. CASE \/ TakeCalls \/ StopCalls \/ RequestCall \/ DeferCall \/ RefuseCall \/ AskApproval
           \/ AwaitDecision \/ ReportCall \/ RecordCall \/ Cancel
  <2>1. \A a \in CallIds : Behind(a) => Behind(a)'
      BY <1>1, <1>3
      DEF Behind, Conclude, TakeCalls, StopCalls, RequestCall, DeferCall, RefuseCall,
          AskApproval, AwaitDecision, ReportCall, RecordCall, Cancel
  <2>2. UNCHANGED <<attempted, streak>>
      BY <1>3
      DEF TakeCalls, StopCalls, RequestCall, DeferCall, RefuseCall, AskApproval, AwaitDecision,
          ReportCall, RecordCall, Cancel
  <2> QED
      BY <2>1, <2>2, NoAttempt
<1>4. CASE RefuseRepeated
  <2>1. /\ streak.count \in Nat /\ NextCount > MaxSame /\ Input \in Inputs \union {Unknown}
        /\ CountTo(NextCount)
      BY <1>4, CallFacts DEF RefuseRepeated, TypeOK, Working
  <2>2. streak.key = Input /\ NextCount = streak.count + 1 /\ streak.count # 0
      BY <1>1, <2>1 DEF NextCount
  <2>3. /\ streak' \in [key : Inputs \union {Unknown}, count : Nat]
        /\ streak'.key = streak.key /\ streak'.count = streak.count + 1
      BY <2>1, <2>2 DEF CountTo
  <2>4. attempted # <<>>
      BY <2>2 DEF CallsInv, Counted
  <2>5. \A a \in CallIds : Behind(a) => Behind(a)'
      BY <1>1, <1>4 DEF Behind, RefuseRepeated
  <2> QED
      BY <1>4, <2>3, <2>4, <2>5, NoAttempt DEF RefuseRepeated
<1>5. CASE CallExecutor
  <2> DEFINE n == Len(attempted)
             e == [call |-> Call, input |-> Input]
  <2>1. /\ pc = "execute" /\ pc' \in {"report", "asking"} /\ UNCHANGED <<step, index>>
        /\ ~Surplus /\ Input # Unknown /\ NextCount <= MaxSame /\ CountTo(NextCount)
        /\ attempted' = Append(attempted, e)
      BY <1>5 DEF CallExecutor
  <2>2. /\ e \in Attempt /\ e.call = Call /\ e.input = Input
        /\ Call \in CallIds /\ Call[1] = step /\ Call[2] = index
      BY <2>1, CallFacts DEF Attempt, Working
  <2>3. attempted \in Seq(Attempt) /\ n \in Nat /\ streak.count \in Nat
      BY LenProperties DEF TypeOK, Attempt
  <2> HIDE DEF e
  <2>4. /\ attempted' \in Seq(Attempt) /\ Len(attempted') = n + 1
        /\ \A i \in 1..n : attempted'[i] = attempted[i]
        /\ attempted'[n + 1] = e
      BY <2>1, <2>2, <2>3, AppendProperties
  <2>5. \A i \in 1..n : attempted[i].call \in CallIds
    <3>1. \A i \in 1..n : attempted[i] \in Attempt
        BY <2>3, ElementOfSeq
    <3> QED
        BY <3>1 DEF Attempt
  <2>6. \A i \in 1..(n + 1) : i \in 1..n \/ i = n + 1
      BY <2>3
  <2>7. \A i \in 1..n : Behind(attempted[i].call)
      BY DEF CallsInv
  <2> HIDE DEF n
  <2>8. (\A i \in 1..Len(attempted) : Behind(attempted[i].call))'
    <3>1. ASSUME NEW a \in CallIds, Behind(a) PROVE Behind(a)'
        BY <1>1, <2>1, <3>1 DEF Behind
    <3>2. Behind(<<step, index>>)'
        BY <1>1, <2>1, <2>2 DEF Behind, Surplus
    <3>3. \A i \in 1..(n + 1) : /\ attempted'[i].call \in CallIds
                               /\ \/ Behind(attempted'[i].call)
                                  \/ attempted'[i].call = <<step, index>>
        BY <2>2, <2>4, <2>5, <2>6, <2>7 DEF Call
    <3>4. \A a \in CallIds : Behind(a) \/ a = <<step, index>> => Behind(a)'
        BY <2>1, <3>1, <3>2
    <3> QED
        BY <2>4, <3>3, <3>4 DEF Behind
  <2>9. \A i, j \in 1..(n + 1) : i # j => attempted'[i].call # attempted'[j].call
    <3>1. \A i \in 1..n : attempted[i].call # Call
        BY <1>1, <2>1, <2>2, <2>5, <2>7 DEF Behind
    <3> QED
        BY <2>2, <2>4, <2>6, <3>1 DEF CallsInv, n
  <2>10. /\ streak'.key = Input /\ streak'.count = NextCount /\ NextCount \in Nat
         /\ NextCount >= 1
      BY <2>1, <2>3 DEF CountTo, NextCount
  <2>11. ASSUME NEW i \in 1..(n + 1),
                \A j \in i..(n + 1) : attempted'[j].input = attempted'[i].input
         PROVE  n + 1 - i + 1 <= NextCount
    <3>1. CASE i = n + 1
        BY <2>3, <2>10, <3>1
    <3>2. CASE i \in 1..n
      <4>1. n \in i..(n + 1) /\ n + 1 \in i..(n + 1) /\ n \in 1..n
          BY <2>3, <3>2
      <4>2. attempted[n].input = attempted[i].input /\ attempted[n].input = Input
          BY <2>2, <2>4, <2>11, <3>2, <4>1
      <4>3. attempted # <<>>
          BY <2>3, <3>2 DEF n
      <4>4. streak.key = Input
          BY <4>2, <4>3 DEF CallsInv, Counted, n
      <4>5. \A j \in i..n : j \in 1..n /\ j \in i..(n + 1)
          BY <2>3, <3>2
      <4>6. \A j \in i..n : attempted[j].input = attempted[i].input
          BY <2>4, <2>11, <3>2, <4>5
      <4>7. n - i + 1 <= streak.count
          BY <3>2, <4>6 DEF CallsInv, Counted, n
      <4> QED
          BY <2>3, <3>2, <4>4, <4>7 DEF NextCount
    <3> QED
        BY <2>6, <3>1, <3>2
  <2>12. Counted'
    <3>1. attempted'[n + 1].input = Input /\ attempted' # <<>>
        BY <2>2, <2>3, <2>4
    <3>2. ASSUME NEW i \in 1..(n + 1),
                 \A j \in i..(n + 1) : attempted'[j].input = attempted'[i].input
          PROVE  n + 1 - i + 1 <= streak'.count
        BY <2>10, <2>11, <3>2
    <3> QED
        BY <2>3, <2>4, <2>10, <3>1, <3>2 DEF Counted
  <2>13. ASSUME NEW i \in 1..(n + 1 - MaxSame)
         PROVE  \E j \in i..(i + MaxSame) : attempted'[j].input # attempted'[i].input
    <3>1. CASE i \in 1..(n - MaxSame)
      <4>1. PICK j \in i..(i + MaxSame) : attempted[j].input # attempted[i].input
          BY <3>1 DEF CallsInv, NoLongStreak, n
      <4>2. j \in 1..n /\ i \in 1..n
          BY <1>1, <2>3, <3>1
      <4> QED
          BY <2>4, <4>1, <4>2
    <3>2. CASE i = n + 1 - MaxSame
      <4>1. i \in 1..(n + 1) /\ i + MaxSame = n + 1 /\ n + 1 - i + 1 = MaxSame + 1
          BY <1>1, <2>3, <3>2
      <4>2. ~(n + 1 - i + 1 <= NextCount)
          BY <1>1, <2>1, <2>10, <4>1
      <4> QED
          BY <2>11, <4>1, <4>2
    <3>3. i \in 1..(n - MaxSame) \/ i = n + 1 - MaxSame
        BY <1>1, <2>3
    <3> QED
        BY <3>1, <3>2, <3>3
  <2>14. NoLongStreak'
    <3>1. Len(attempted') - MaxSame = n + 1 - MaxSame
        BY <1>1, <2>3, <2>4
    <3> QED
        BY <2>13, <3>1 DEF NoLongStreak
  <2> QED
      BY <2>4, <2>8, <2>9, <2>12, <2>14 DEF CallsInv
<1> QED
    BY <1>2, <1>3, <1>4, <1>5 DEF Next, LoopStep

-------------------------------------------------------------------------------
(* The calls that are recorded *)

\* A step that gives the executor no call and records none.
LEMMA NoRecord ==
    ASSUME TypeOK, EventsInv, RecordsInv, UNCHANGED <<attempted, recorded>>,
           pc \in AtCall => UNCHANGED <<step, index, calls>>,
           pc \in AtCall /\ pc' \notin AtCall => pc' = "done" /\ UNCHANGED events,
           pc = "done" => pc' = "done" /\ UNCHANGED <<step, index, events>>,
           pc' \in AtCall /\ pc \notin AtCall =>
               \A i \in 1..Len(attempted) : attempted[i].call # Call'
    PROVE  RecordsInv'
<1>1. DOMAIN attempted = 1..Len(attempted)
    BY LenProperties DEF TypeOK
<1>2. ASSUME NEW i \in DOMAIN attempted,
             ~ \E j \in DOMAIN recorded : recorded[j] = attempted[i].call
      PROVE  /\ i = Len(attempted) /\ attempted[i].call = Call'
             /\ \/ pc' \in AtCall
                \/ pc' = "done" /\ \A j \in DOMAIN events' : events'[j].type \notin Statuses
  <2>1. /\ i = Len(attempted) /\ attempted[i].call = Call
        /\ \/ pc \in AtCall
           \/ pc = "done" /\ \A j \in DOMAIN events : events[j].type \notin Statuses
      BY <1>2 DEF RecordsInv, CallsAreRecorded, AtCall
  <2>2. CASE pc \in AtCall
    <3>1. pc # "done"
        BY <2>2 DEF AtCall
    <3>2. \A j \in DOMAIN events : events[j].type \notin Statuses
        BY <3>1 DEF EventsInv, EventsInOrder
    <3> QED
        BY <2>1, <2>2, <3>2 DEF Call
  <2>3. CASE pc = "done"
      BY <2>1, <2>3 DEF Call, AtCall
  <2> QED
      BY <2>1, <2>2, <2>3
<1>3. ASSUME pc' \in AtCall, NEW i \in 1..Len(attempted), attempted[i].call = Call'
      PROVE  Input' # Unknown
  <2>1. pc \in AtCall
      BY <1>3
  <2> QED
      BY <1>3, <2>1 DEF RecordsInv, Call, Input
<1> QED
    BY <1>2, <1>3 DEF RecordsInv, CallsAreRecorded, AtCall

LEMMA RecordsNext ==
    ASSUME LoopAssumption, TypeOK, Placed, EventsInv, CallsInv, RecordsInv, Next
    PROVE  RecordsInv'
<1>1. /\ attempted \in Seq(Attempt) /\ Len(attempted) \in Nat
      /\ DOMAIN attempted = 1..Len(attempted)
      /\ step \in Nat /\ index \in Nat
    BY LenProperties DEF TypeOK, Attempt, LoopAssumption
<1>2. \A i \in 1..Len(attempted) : attempted[i].call \in CallIds
  <2>1. \A i \in 1..Len(attempted) : attempted[i] \in Attempt
      BY <1>1, ElementOfSeq
  <2> QED
      BY <2>1 DEF Attempt
<1>3. pc = "execute" => \A i \in 1..Len(attempted) : attempted[i].call # Call
    BY <1>1, <1>2 DEF CallsInv, Behind, Call, CallIds
<1>4. CASE \/ PublishResult \/ StoreFails \/ Start \/ StopStep \/ BeginStep \/ ModelFails
           \/ ModelRaises \/ ModelReturns \/ DropAnswer \/ TakeAnswer \/ ReachLimit
           \/ TakeCalls \/ StopCalls \/ RequestCall \/ Cancel
  <2>1. /\ UNCHANGED <<attempted, recorded>>
        /\ pc = "done" => pc' = "done" /\ UNCHANGED <<step, index, events>>
        /\ pc' \in AtCall => pc \in AtCall
        /\ pc \in AtCall => UNCHANGED <<step, index, calls>>
        /\ pc \in AtCall /\ pc' \notin AtCall => pc' = "done" /\ UNCHANGED events
      BY <1>4
      DEF AtCall, Conclude, PublishResult, StoreFails, Start, StopStep, BeginStep, ModelFails,
          ModelRaises, ModelReturns, DropAnswer, TakeAnswer, ReachLimit, TakeCalls, StopCalls,
          RequestCall, Cancel
  <2> QED
      BY <2>1, NoRecord
<1>5. CASE \/ DeferCall \/ RefuseCall \/ RefuseRepeated \/ AskApproval \/ AwaitDecision
           \/ ReportCall
  <2>1. /\ UNCHANGED <<attempted, recorded, step, index, calls>>
        /\ pc' \in AtCall /\ pc # "done" /\ (pc = "execute" \/ pc \in AtCall)
      BY <1>5
      DEF AtCall, DeferCall, RefuseCall, RefuseRepeated, AskApproval, AwaitDecision, ReportCall
  <2>2. Call' = Call
      BY <2>1 DEF Call
  <2> QED
      BY <1>3, <2>1, <2>2, NoRecord
<1>6. CASE CallExecutor
  <2> DEFINE n == Len(attempted)
             e == [call |-> Call, input |-> Input]
  <2>1. /\ pc = "execute" /\ pc' \in AtCall /\ UNCHANGED <<step, index, calls, recorded>>
        /\ Input # Unknown /\ attempted' = Append(attempted, e)
      BY <1>6 DEF CallExecutor, AtCall
  <2>2. e \in Attempt /\ e.call = Call /\ Call' = Call /\ Input' = Input
      BY <2>1, CallFacts DEF Attempt, Working, Call, Input
  <2> HIDE DEF e
  <2>3. /\ attempted' \in Seq(Attempt) /\ Len(attempted') = n + 1
        /\ \A i \in 1..n : attempted'[i] = attempted[i]
        /\ attempted'[n + 1] = e
      BY <1>1, <2>1, <2>2, AppendProperties
  <2>4. DOMAIN attempted' = 1..(n + 1) /\ \A i \in 1..(n + 1) : i \in 1..n \/ i = n + 1
      BY <1>1, <2>3, LenProperties
  <2>5. \A i \in 1..n : \E j \in DOMAIN recorded : recorded[j] = attempted[i].call
      BY <1>1, <2>1 DEF RecordsInv, CallsAreRecorded
  <2> HIDE DEF n
  <2> QED
      BY <2>1, <2>2, <2>3, <2>4, <2>5 DEF RecordsInv, CallsAreRecorded, AtCall
<1>7. CASE RecordCall
  <2>1. /\ pc = "record" /\ pc' \notin AtCall /\ UNCHANGED attempted
        /\ recorded' = Recorded
      BY <1>7 DEF RecordCall, Conclude, AtCall
  <2>2. recorded \in Seq(CallIds) /\ Call \in CallIds
      BY <2>1, CallFacts DEF Working, TypeOK
  <2>3. /\ DOMAIN recorded \subseteq DOMAIN recorded'
        /\ \A j \in DOMAIN recorded : recorded'[j] = recorded[j]
        /\ Input # Unknown => \E j \in DOMAIN recorded' : recorded'[j] = Call
    <3>1. CASE Input = Unknown
        BY <2>1, <3>1 DEF Recorded
    <3>2. CASE Input # Unknown
      <4>1. recorded' = Append(recorded, Call)
          BY <2>1, <3>2 DEF Recorded
      <4>2. /\ recorded' \in Seq(CallIds) /\ Len(recorded') = Len(recorded) + 1
            /\ \A i \in 1..Len(recorded) : recorded'[i] = recorded[i]
            /\ recorded'[Len(recorded) + 1] = Call
          BY <2>2, <4>1, AppendProperties
      <4>3. /\ DOMAIN recorded' = 1..Len(recorded') /\ DOMAIN recorded = 1..Len(recorded)
            /\ Len(recorded) \in Nat
          BY <2>2, <4>2, LenProperties
      <4> QED
          BY <4>2, <4>3
    <3> QED
        BY <3>1, <3>2
  <2>4. ASSUME NEW i \in DOMAIN attempted
        PROVE  \E j \in DOMAIN recorded' : recorded'[j] = attempted[i].call
    <3>1. CASE \E j \in DOMAIN recorded : recorded[j] = attempted[i].call
        BY <2>3, <3>1
    <3>2. CASE attempted[i].call = Call
      <4>1. Input # Unknown
          BY <1>1, <2>1, <3>2 DEF RecordsInv, AtCall
      <4> QED
          BY <2>3, <3>2, <4>1
    <3> QED
        BY <3>1, <3>2 DEF RecordsInv, CallsAreRecorded
  <2> QED
      BY <2>1, <2>4 DEF RecordsInv, CallsAreRecorded
<1> QED
    BY <1>4, <1>5, <1>6, <1>7 DEF Next, LoopStep

-------------------------------------------------------------------------------

LEMMA InitInv == LoopAssumption /\ Init => LoopInv
<1> SUFFICES ASSUME LoopAssumption, Init PROVE LoopInv
    OBVIOUS
<1>1. TypeOK
  <2>1. \A S : <<>> \in Seq(S)
      BY EmptySeq
  <2>2. step \in 0..MaxSteps /\ index \in 1..(MaxCalls + 1)
      BY DEF LoopAssumption, Init
  <2>3. streak \in [key : Inputs \union {Unknown}, count : Nat]
      BY DEF Init
  <2> QED
      BY <2>1, <2>2, <2>3 DEF Init, TypeOK, Statuses
<1>2. Placed
    BY DEF LoopAssumption, Init, Placed, Looping, Working
<1>3. HistoryInv
    BY DEF Init, HistoryInv, WellFormed, Working
<1>4. EventsInv
    BY DEF Init, EventsInv, EventsInOrder, CallsAreReported
<1>5. CallsInv
    BY DEF LoopAssumption, Init, CallsInv, Counted, NoLongStreak
<1>6. RecordsInv
    BY DEF Init, RecordsInv, CallsAreRecorded, AtCall
<1> QED
    BY <1>1, <1>2, <1>3, <1>4, <1>5, <1>6 DEF LoopInv

LEMMA NextInv == LoopAssumption /\ LoopInv /\ [Next]_vars => LoopInv'
<1> SUFFICES ASSUME LoopAssumption, LoopInv, [Next]_vars PROVE LoopInv'
    OBVIOUS
<1>1. CASE Next
    BY <1>1, PlacedNext, HistoryNext, EventsNext, CallsNext, RecordsNext DEF LoopInv
<1>2. CASE UNCHANGED vars
  <2>1. TypeOK' /\ Placed'
      BY <1>2 DEF LoopInv, TypeOK, Placed, vars
  <2>2. IdsFrom(1)' = IdsFrom(1)
      BY <1>2 DEF IdsFrom, vars
  <2>3. HistoryInv'
      BY <1>2, <2>2 DEF LoopInv, HistoryInv, vars
  <2>4. EventsInv'
      BY <1>2 DEF LoopInv, EventsInv, EventsInOrder, CallsAreReported, Unreported, Call, IsEnd, vars
  <2>5. CallsInv'
      BY <1>2 DEF LoopInv, CallsInv, Behind, Counted, NoLongStreak, vars
  <2>6. RecordsInv'
      BY <1>2 DEF LoopInv, RecordsInv, CallsAreRecorded, Call, Input, vars
  <2> QED
      BY <2>1, <2>3, <2>4, <2>5, <2>6 DEF LoopInv
<1> QED
    BY <1>1, <1>2

LEMMA InvHolds == Spec => []LoopInv
BY LoopAssumption, InitInv, NextInv, PTL DEF Spec

\* The calls of one response that were given to the executor have different places,
\* none of them past the limit.
LEMMA Limited == LoopAssumption /\ LoopInv => FewPerResponse
<1> SUFFICES ASSUME LoopAssumption, LoopInv, NEW s \in 1..MaxSteps
             PROVE  Cardinality({i \in DOMAIN attempted : attempted[i].call[1] = s})
                       <= MaxPerResponse
    BY DEF FewPerResponse
<1> DEFINE S == {i \in DOMAIN attempted : attempted[i].call[1] = s}
           f == [i \in S |-> attempted[i].call[2]]
           T == 1..MaxPerResponse
<1>1. attempted \in Seq(Attempt) /\ DOMAIN attempted = 1..Len(attempted)
    BY LenProperties DEF LoopInv, TypeOK, Attempt
<1>2. \A i \in 1..Len(attempted) : attempted[i] \in Attempt
    BY <1>1, ElementOfSeq
<1>3. \A i \in 1..Len(attempted) : attempted[i].call \in CallIds
    BY <1>2 DEF Attempt
<1>4. \A a \in CallIds : a[2] \in Nat \ {0} /\ a = <<a[1], a[2]>>
    BY DEF CallIds, LoopAssumption
<1>5. \A i \in S : attempted[i].call[2] \in T
    BY <1>1, <1>3, <1>4 DEF LoopInv, CallsInv, Behind, LoopAssumption
<1>6. ASSUME NEW i \in S, NEW j \in S, attempted[i].call[2] = attempted[j].call[2]
      PROVE  i = j
  <2>1. i \in 1..Len(attempted) /\ j \in 1..Len(attempted)
      BY <1>1
  <2>2. attempted[i].call[1] = s /\ attempted[j].call[1] = s
      OBVIOUS
  <2>3. attempted[i].call = <<s, attempted[i].call[2]>>
        /\ attempted[j].call = <<s, attempted[j].call[2]>>
      BY <1>3, <1>4, <2>1, <2>2
  <2>4. attempted[i].call = attempted[j].call
      BY <1>6, <2>3
  <2> QED
      BY <2>1, <2>4 DEF LoopInv, CallsInv
<1>7. f \in [S -> T] /\ \A i, j \in S : f[i] = f[j] => i = j
    BY <1>5, <1>6
<1> HIDE DEF S, f, T
<1>8. f \in Injection(S, T)
    BY <1>7, Fun_IsInj
<1>9. IsFiniteSet(T) /\ Cardinality(T) = MaxPerResponse
    BY FS_Interval DEF T, LoopAssumption
<1>10. Cardinality(S) <= MaxPerResponse
    BY <1>8, <1>9, FS_Injection
<1> QED
    BY <1>10 DEF S

(* Wherever the run is cancelled or stopped, the provider is sent, and a   *)
(* completed or a cancelled run returns, a conversation in which every     *)
(* call is answered once and in order (the checkpoints of AgentLoop.run    *)
(* and _append_cancelled_tool_results).                                    *)
THEOREM Answered == Spec => []CallsAreAnswered
<1>1. LoopInv => CallsAreAnswered
    BY DEF LoopInv, HistoryInv, CallsAreAnswered
<1> QED
    BY <1>1, InvHolds, PTL

(* The stored events are in order and the terminal one is the last; of the *)
(* calls that the executor was given all are reported and recorded, except *)
(* the last while the loop is at it, or if a row was refused there         *)
(* (publish, run, _record_tool_call).                                      *)
THEOREM EventsTold == Spec => []EventsTellTheCalls
<1>1. LoopInv => EventsTellTheCalls
    BY DEF LoopInv, EventsInv, RecordsInv, EventsTellTheCalls
<1> QED
    BY <1>1, InvHolds, PTL

(* The executor is given no more than _max_tool_calls_per_model_response   *)
(* calls of a response, and an input no more than                          *)
(* _max_calls_per_tool_input times in a row.                               *)
THEOREM CallsLimited == Spec => []CallsAreLimited
<1>1. LoopInv => CallsAreLimited
    BY LoopAssumption, Limited DEF LoopInv, CallsInv, CallsAreLimited
<1> QED
    BY <1>1, InvHolds, PTL

-------------------------------------------------------------------------------
(***************************************************************************)
(* The executor, which the loop hands a call to, asks the approval policy  *)
(* before it runs the tool.  What the policy promises the loop and the     *)
(* user, for any requests, runs and grant keys:                            *)
(***************************************************************************)

(* Every grant goes back to a decision of the user, a future is done as    *)
(* soon as a decision is taken, what was never asked is undecided, and     *)
(* what is approved is not denied.                                         *)
GrantsAreGiven ==
    \A g \in grants : \E p \in Requests :
        GrantKey[p] = g /\ said[p] = "allow_conversation"

Decided ==
    \A q \in Requests :
        /\ decision[q] = "allow" => said[q] \in {"allow_once", "allow_conversation"}
        /\ said[q] # "none" => decision[q] # "none"
        /\ place[q] = "unused" => decision[q] = "none"
        /\ place[q] = "approved" => decision[q] # "deny"

Consent == PolicyTypeOK /\ GrantsAreGiven /\ Decided /\ OnlyWithConsent

-------------------------------------------------------------------------------

(* The values of the variables stay in their types. *)
LEMMA PolicyTypeStep == PolicyTypeOK /\ [PolicyNext]_policyVars => PolicyTypeOK'
<1> SUFFICES ASSUME PolicyTypeOK, [PolicyNext]_policyVars PROVE PolicyTypeOK'
    OBVIOUS
<1> USE DEF PolicyTypeOK
<1>1. ASSUME NEW q \in Requests, Approve(q) PROVE PolicyTypeOK'
    BY <1>1 DEF Approve, Goto
<1>2. ASSUME NEW q \in Requests, Announced(q) PROVE PolicyTypeOK'
    BY <1>2 DEF Announced, Goto
<1>3. ASSUME NEW q \in Requests, AnnouncingFails(q) PROVE PolicyTypeOK'
    BY <1>3 DEF AnnouncingFails, Goto
<1>4. ASSUME NEW q \in Requests, Return(q) PROVE PolicyTypeOK'
    BY <1>4 DEF Return, Goto
<1>5. ASSUME NEW q \in Requests, CancelTask(q) PROVE PolicyTypeOK'
    BY <1>5 DEF CancelTask, Goto, Deny
<1>6. ASSUME NEW q \in Requests, NEW d \in ToolApprovalDecision, Decide(q, d)
      PROVE  PolicyTypeOK'
    BY <1>6 DEF Decide, SetDecision, NewGrants
<1>7. ASSUME NEW r \in Runs, DenyRun(r) PROVE PolicyTypeOK'
    BY <1>7 DEF DenyRun, Deny
<1>8. ASSUME Close PROVE PolicyTypeOK'
    BY <1>8 DEF Close, Deny
<1>9. ASSUME UNCHANGED policyVars PROVE PolicyTypeOK'
    BY <1>9 DEF policyVars
<1>10. QED
    BY <1>1, <1>2, <1>3, <1>4, <1>5, <1>6, <1>7, <1>8, <1>9 DEF PolicyNext, Proceed

(* TypeOK holds, whatever the requests. *)
THEOREM PolicyTypeCorrect == PolicySpec => []PolicyTypeOK
<1>1. PolicyInit => PolicyTypeOK
    BY DEF PolicyInit, PolicyTypeOK
<1>2. QED
    BY <1>1, PolicyTypeStep, PTL DEF PolicySpec

-------------------------------------------------------------------------------
(* Consent *)

(* The decisions that were taken stay taken, so consent is not withdrawn. *)
LEMMA ConsentIsKept ==
    ASSUME \A p \in Requests : said[p] # "none" => said'[p] = said[p],
           NEW q \in Requests, Consented(q)
    PROVE  Consented(q)'
BY DEF Consented

(* A step that takes no decision. *)
LEMMA ConsentWithoutDecision ==
    ASSUME Consent, PolicyTypeOK', UNCHANGED said,
           grants' \subseteq grants,
           \A q \in Requests :
               /\ decision'[q] = "allow" => decision[q] = "allow"
               /\ decision[q] # "none" => decision'[q] # "none"
               /\ place'[q] = "unused" =>
                      place[q] = "unused" /\ decision'[q] = decision[q]
               /\ place'[q] = "approved" =>
                      /\ decision'[q] = decision[q]
                      /\ \/ place[q] = "approved" \/ decision[q] = "allow"
                         \/ place[q] = "unused" /\ IsGranted(q)
    PROVE  Consent'
<1>1. GrantsAreGiven'
    BY DEF Consent, GrantsAreGiven
<1>2. Decided'
    BY DEF Consent, Decided
<1>3. ASSUME NEW q \in Requests, place'[q] = "approved" PROVE Consented(q)'
    <2>1. CASE place[q] = "approved"
        BY <2>1 DEF Consent, OnlyWithConsent, Consented
    <2>2. CASE decision[q] = "allow"
        BY <2>2 DEF Consent, Decided, Consented
    <2>3. CASE IsGranted(q)
        BY <2>3
        DEF Consent, GrantsAreGiven, IsGranted, Consented
    <2>4. QED
        BY <1>3, <2>1, <2>2, <2>3
<1>4. QED
    BY <1>1, <1>2, <1>3 DEF Consent, OnlyWithConsent

LEMMA ConsentStep == Consent /\ [PolicyNext]_policyVars => Consent'
<1> SUFFICES ASSUME Consent, [PolicyNext]_policyVars PROVE Consent'
    OBVIOUS
<1> PolicyTypeOK /\ PolicyTypeOK'
    BY PolicyTypeStep DEF Consent
<1> USE DEF PolicyTypeOK
<1>1. ASSUME NEW q \in Requests, Approve(q) PROVE Consent'
    BY <1>1, ConsentWithoutDecision DEF Approve, Goto
<1>2. ASSUME NEW q \in Requests, Announced(q) PROVE Consent'
    BY <1>2, ConsentWithoutDecision DEF Announced, Goto
<1>3. ASSUME NEW q \in Requests, AnnouncingFails(q) PROVE Consent'
    BY <1>3, ConsentWithoutDecision DEF AnnouncingFails, Goto
<1>4. ASSUME NEW q \in Requests, Return(q) PROVE Consent'
    BY <1>4, ConsentWithoutDecision DEF Return, Goto
<1>5. ASSUME NEW q \in Requests, CancelTask(q) PROVE Consent'
    BY <1>5, ConsentWithoutDecision DEF CancelTask, Goto, Deny, Open, Pending
<1>6. ASSUME NEW q \in Requests, NEW d \in ToolApprovalDecision, Decide(q, d)
      PROVE  Consent'
    <2>1. /\ q \in Requests /\ place[q] \in {"announcing", "waiting"}
          /\ decision[q] = "none" /\ said[q] = "none"
          /\ d = "allow_conversation" => q \in Lasting
          /\ UNCHANGED place
        BY <1>6 DEF Decide, Open, Pending, Consent, Decided
    <2>2. said' = [said EXCEPT ![q] = d]
        BY <1>6 DEF Decide, SetDecision
    <2>3. decision' = [decision EXCEPT ![q] = IF d = "deny" THEN "deny" ELSE "allow"]
        BY <1>6 DEF Decide, SetDecision
    <2>4. \A p \in Requests : said[p] # "none" => said'[p] = said[p]
        BY <2>1, <2>2
    <2>5. GrantsAreGiven'
        <3> SUFFICES ASSUME NEW g \in grants'
                     PROVE  \E p \in Requests :
                                GrantKey[p] = g /\ said'[p] = "allow_conversation"
            BY DEF GrantsAreGiven
        <3>1. CASE g \in grants
            BY <3>1, <2>4 DEF Consent, GrantsAreGiven
        <3>2. CASE d = "allow_conversation" /\ g = GrantKey[q]
            BY <3>2, <2>1, <2>2
        <3>3. QED
            BY <1>6, <3>1, <3>2 DEF Decide, NewGrants
    <2>6. Decided'
        BY <2>1, <2>2, <2>3 DEF Consent, Decided, ToolApprovalDecision
    <2>7. OnlyWithConsent'
        BY <2>1, <2>4, ConsentIsKept DEF Consent, OnlyWithConsent
    <2>8. QED
        BY <2>5, <2>6, <2>7 DEF Consent
<1>7. ASSUME NEW r \in Runs, DenyRun(r) PROVE Consent'
    <2>1. \A q \in Requests :
              decision'[q] = IF q \in Open /\ RunOf[q] = r THEN "deny" ELSE decision[q]
        BY <1>7 DEF DenyRun, Deny
    <2>2. UNCHANGED <<place, grants, said>>
        BY <1>7 DEF DenyRun
    <2>3. QED
        BY <2>1, <2>2, ConsentWithoutDecision DEF Open, Pending
<1>8. ASSUME Close PROVE Consent'
    <2>1. \A q \in Requests :
              decision'[q] = IF q \in Open THEN "deny" ELSE decision[q]
        BY <1>8 DEF Close, Deny
    <2>2. grants' = {} /\ UNCHANGED <<place, said>>
        BY <1>8 DEF Close
    <2>3. QED
        BY <2>1, <2>2, ConsentWithoutDecision DEF Open, Pending
<1>9. ASSUME UNCHANGED policyVars PROVE Consent'
    BY <1>9, ConsentWithoutDecision DEF policyVars
<1>10. QED
    BY <1>1, <1>2, <1>3, <1>4, <1>5, <1>6, <1>7, <1>8, <1>9 DEF PolicyNext, Proceed

LEMMA ConsentInvariant == PolicySpec => []Consent
<1>1. PolicyInit => Consent
    BY DEF PolicyInit, Consent, PolicyTypeOK, GrantsAreGiven, Decided, OnlyWithConsent
<1>2. QED
    BY <1>1, ConsentStep, PTL DEF PolicySpec

(* No tool that needs approval runs without the user's consent. *)
THEOREM ToolsNeedConsent == PolicySpec => []OnlyWithConsent
<1>1. Consent => OnlyWithConsent
    BY DEF Consent
<1>2. QED
    BY <1>1, ConsentInvariant, PTL

-------------------------------------------------------------------------------
(* Denial and closing *)

(* A denied request stays denied, whatever comes after. *)
THEOREM DeniedForGood == PolicySpec => DenialStands
<1> DEFINE Stands(q) ==
        decision[q] = "deny" => decision'[q] = "deny" /\ place'[q] # "approved"
<1>1. ASSUME Consent, [PolicyNext]_policyVars, NEW q \in Requests PROVE Stands(q)
    <2> USE <1>1 DEF Consent, Decided, PolicyTypeOK
    <2>1. ASSUME NEW p \in Requests, Approve(p) PROVE Stands(q)
        BY <2>1 DEF Approve, Goto
    <2>2. ASSUME NEW p \in Requests, Announced(p) PROVE Stands(q)
        BY <2>2 DEF Announced, Goto
    <2>3. ASSUME NEW p \in Requests, AnnouncingFails(p) PROVE Stands(q)
        BY <2>3 DEF AnnouncingFails, Goto
    <2>4. ASSUME NEW p \in Requests, Return(p) PROVE Stands(q)
        BY <2>4 DEF Return, Goto
    <2>5. ASSUME NEW p \in Requests, CancelTask(p) PROVE Stands(q)
        BY <2>5 DEF CancelTask, Goto, Deny
    <2>6. ASSUME NEW p \in Requests, NEW d \in ToolApprovalDecision, Decide(p, d)
          PROVE  Stands(q)
        BY <2>6 DEF Decide, SetDecision, Open
    <2>7. ASSUME NEW r \in Runs, DenyRun(r) PROVE Stands(q)
        BY <2>7 DEF DenyRun, Deny
    <2>8. ASSUME Close PROVE Stands(q)
        BY <2>8 DEF Close, Deny
    <2>9. CASE UNCHANGED policyVars
        BY <2>9 DEF policyVars
    <2>10. QED
        BY <2>1, <2>2, <2>3, <2>4, <2>5, <2>6, <2>7, <2>8, <2>9 DEF PolicyNext, Proceed
<1>2. Consent /\ [PolicyNext]_policyVars => [\A q \in Requests : Stands(q)]_policyVars
    BY <1>1
<1>3. QED
    BY <1>2, ConsentInvariant, PTL DEF PolicySpec, DenialStands

LEMMA ClosedStep ==
    PolicyTypeOK /\ ClosedIsEmpty /\ [PolicyNext]_policyVars => ClosedIsEmpty'
<1> SUFFICES ASSUME PolicyTypeOK, ClosedIsEmpty, [PolicyNext]_policyVars, closed'
             PROVE  grants' = {} /\ \A q \in Requests : q \notin Open'
    BY DEF ClosedIsEmpty, Open, Pending
<1> USE DEF PolicyTypeOK, ClosedIsEmpty, Open, Pending
<1>1. ASSUME NEW p \in Requests, Approve(p) PROVE grants' = {} /\ Open' = {}
    BY <1>1 DEF Approve, Goto
<1>2. ASSUME NEW p \in Requests, Announced(p) PROVE grants' = {} /\ Open' = {}
    BY <1>2 DEF Announced, Goto
<1>3. ASSUME NEW p \in Requests, AnnouncingFails(p) PROVE grants' = {} /\ Open' = {}
    BY <1>3 DEF AnnouncingFails, Goto
<1>4. ASSUME NEW p \in Requests, Return(p) PROVE grants' = {} /\ Open' = {}
    BY <1>4 DEF Return, Goto
<1>5. ASSUME NEW p \in Requests, CancelTask(p) PROVE grants' = {} /\ Open' = {}
    BY <1>5 DEF CancelTask, Goto, Deny
<1>6. ASSUME NEW p \in Requests, NEW d \in ToolApprovalDecision, Decide(p, d)
      PROVE  grants' = {} /\ Open' = {}
    BY <1>6 DEF Decide
<1>7. ASSUME NEW r \in Runs, DenyRun(r) PROVE grants' = {} /\ Open' = {}
    BY <1>7 DEF DenyRun
<1>8. ASSUME Close PROVE grants' = {} /\ Open' = {}
    BY <1>8 DEF Close, Deny
<1>9. ASSUME UNCHANGED policyVars PROVE grants' = {} /\ Open' = {}
    BY <1>9 DEF policyVars
<1>10. QED
    BY <1>1, <1>2, <1>3, <1>4, <1>5, <1>6, <1>7, <1>8, <1>9 DEF PolicyNext, Proceed

(* A closed policy has no grants and no undecided request. *)
THEOREM ClosingLeavesNothing == PolicySpec => []ClosedIsEmpty
<1>1. PolicyInit => ClosedIsEmpty
    BY DEF PolicyInit, ClosedIsEmpty
<1>2. QED
    BY <1>1, ClosedStep, PolicyTypeCorrect, PTL DEF PolicySpec

===============================================================================
