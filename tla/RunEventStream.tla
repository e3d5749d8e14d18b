---------------------------- MODULE RunEventStream ----------------------------
(***************************************************************************)
(* One run followed by the desktop: the rows of run_events that the run    *)
(* writes, stream_events of api/app.py which polls them and serves them as *)
(* server-sent events, the watcher in the desktop's main process           *)
(* (backend_launcher.ts, watchRun in main/index.ts) and the refresh of the *)
(* transcript that the terminal event makes the renderer do (App.tsx).     *)
(*                                                                         *)
(* The run is the one of RunLifecycle, seen from its store.  Writer, HTTP  *)
(* handler and desktop are concurrent: list_events and the get after it    *)
(* are two reads of the database, and the desktop's refresh is a request   *)
(* of its own.                                                             *)
(***************************************************************************)
EXTENDS Naturals, Sequences, SequencesExt

CONSTANT MaxEvents  \* bound: events of the run, numbered from 1

ASSUME EventsAssumption == MaxEvents \in Nat \ {0}

VARIABLES
    (* Stored, and the run that writes it *)
    rows,       \* the run_events rows of the run, by sequence
    status,     \* its status: "created", a terminal one, "none" once deleted
    answered,   \* the assistant message is in the transcript
    sequence,   \* event_sequence: the last number the run has taken
    writer,     \* the run's task: "running", "finishing", "done"
    published,  \* history: every row that was ever stored
    (* stream_events *)
    stream,     \* "opening", "refused", "listing", "sending", "closed", "lost"
    cursor,     \* current_sequence
    batch,      \* the listed events that are still to be sent
    wire,       \* frames sent and not yet read by the desktop
    (* The desktop *)
    watcher,    \* "watching", "stopped", "ended", "failed"
    forwarded,  \* the events sent on to the renderer
    active,     \* activeRun: the renderer shows the run as running
    refresh,    \* "none", "asked", "done", "failed"
    shown       \* the answer is among the messages shown

store   == <<rows, status, answered, sequence, writer, published>>
server  == <<stream, cursor, batch, wire>>
desktop == <<watcher, forwarded, active, refresh, shown>>
vars    == <<store, server, desktop>>

Terminal == {"completed", "failed"}
Event    == [sequence : 1..MaxEvents, type : Terminal \union {"progress"}]

IsTerminal(e) == e.type \in Terminal
Settled == status \in Terminal

TypeOK ==
    /\ rows \in Seq(Event) /\ published \in Seq(Event) /\ batch \in Seq(Event)
    /\ wire \in Seq(Event) /\ forwarded \in Seq(Event)
    /\ status \in Terminal \union {"created", "none"}
    /\ answered \in BOOLEAN /\ active \in BOOLEAN /\ shown \in BOOLEAN
    /\ sequence \in 0..MaxEvents /\ cursor \in 0..MaxEvents
    /\ writer \in {"running", "finishing", "done"}
    /\ stream \in {"opening", "refused", "listing", "sending", "closed", "lost"}
    /\ watcher \in {"watching", "stopped", "ended", "failed"}
    /\ refresh \in {"none", "asked", "done", "failed"}

(* The submission is stored and answered, and the desktop starts to watch. *)
Init ==
    /\ rows = <<>> /\ published = <<>>
    /\ status = "created" /\ answered = FALSE
    /\ sequence = 0 /\ writer = "running"
    /\ stream = "opening" /\ cursor = 0 /\ batch = <<>> /\ wire = <<>>
    /\ watcher = "watching" /\ forwarded = <<>> /\ active = TRUE
    /\ refresh = "none" /\ shown = FALSE

-------------------------------------------------------------------------------
(* The run.  Once the sidecar is lost, so is the run. *)

Alive == stream # "lost"

Store(type) ==
    LET e == [sequence |-> sequence + 1, type |-> type]
    IN  /\ sequence < MaxEvents
        /\ status # "none"
        /\ sequence' = sequence + 1
        /\ rows' = Append(rows, e)
        /\ published' = Append(published, e)

PublishProgress ==
    /\ Alive /\ writer = "running"
    /\ Store("progress")
    /\ UNCHANGED <<status, answered, writer, server, desktop>>

(* An approval event that could not be stored: its number is not used. *)
SkipNumber ==
    /\ Alive /\ writer = "running"
    /\ sequence < MaxEvents
    /\ sequence' = sequence + 1
    /\ UNCHANGED <<rows, status, answered, writer, published, server, desktop>>

PublishTerminal ==
    /\ Alive /\ writer = "running"
    /\ \E type \in Terminal : Store(type)
    /\ writer' = "finishing"
    /\ UNCHANGED <<status, answered, server, desktop>>

(* The loop fails without a terminal event. *)
FailWithoutEvent ==
    /\ Alive /\ writer = "running"
    /\ writer' = "finishing"
    /\ UNCHANGED <<rows, status, answered, sequence, published, server, desktop>>

Outcome == IF rows # <<>> /\ IsTerminal(Last(rows)) THEN Last(rows).type ELSE "failed"

(* RunFinisher.finish: the status and the answer, in one transaction. *)
Finish ==
    /\ Alive /\ writer = "finishing"
    /\ status # "none"
    /\ status' = Outcome
    /\ answered' = (Outcome = "completed")
    /\ writer' = "done"
    /\ UNCHANGED <<rows, sequence, published, server, desktop>>

(* finish raises, and the run stays as it is. *)
FinishRaises ==
    /\ Alive /\ writer = "finishing"
    /\ writer' = "done"
    /\ UNCHANGED <<rows, status, answered, sequence, published, server, desktop>>

(* The conversation is deleted, and the run with it. *)
Delete ==
    /\ Alive /\ status # "none"
    /\ status' = "none"
    /\ rows' = <<>>
    /\ answered' = FALSE
    /\ UNCHANGED <<sequence, writer, published, server, desktop>>

-------------------------------------------------------------------------------
(* stream_events *)

(* The request: get_local_run finds the run, or answers 404. *)
Open ==
    /\ stream = "opening"
    /\ stream' = IF status = "none" THEN "refused" ELSE "listing"
    /\ UNCHANGED <<store, cursor, batch, wire, desktop>>

(* list_events(run_id, after_sequence=current_sequence): the rows are in    *)
(* the order of their numbers, and those after the n-th are after cursor.  *)
List ==
    /\ stream = "listing"
    /\ \E n \in 0..Len(rows) :
          /\ \A i \in 1..Len(rows) : rows[i].sequence > cursor <=> i > n
          /\ batch' = SubSeq(rows, n + 1, Len(rows))
    /\ stream' = "sending"
    /\ UNCHANGED <<store, cursor, wire, desktop>>

SendForgetting ==  \* mutant of Send: current_sequence stays
    /\ stream = "sending"
    /\ batch # <<>>
    /\ wire' = Append(wire, Head(batch))
    /\ batch' = Tail(batch)
    /\ UNCHANGED <<store, stream, cursor, desktop>>

Send ==
    /\ stream = "sending"
    /\ batch # <<>>
    /\ cursor' = Head(batch).sequence
    /\ wire' = Append(wire, Head(batch))
    /\ batch' = Tail(batch)
    /\ UNCHANGED <<store, stream, desktop>>

CheckLastEvent ==  \* mutant of Check: only a terminal event ends the stream
    /\ stream = "sending"
    /\ batch = <<>>
    /\ stream' = IF \E i \in DOMAIN published : /\ published[i].sequence <= cursor
                                                /\ IsTerminal(published[i])
                 THEN "closed" ELSE "listing"
    /\ UNCHANGED <<store, cursor, batch, wire, desktop>>

(* runs.get: a settled or deleted run ends the stream.  Otherwise sleep.   *)
Check ==
    /\ stream = "sending"
    /\ batch = <<>>
    /\ stream' = IF Settled \/ status = "none" THEN "closed" ELSE "listing"
    /\ UNCHANGED <<store, cursor, batch, wire, desktop>>

(* is_disconnected, or the response is cancelled: the desktop has gone. *)
Disconnect ==
    /\ stream \in {"listing", "sending"}
    /\ watcher # "watching"
    /\ stream' = "closed"
    /\ batch' = <<>>
    /\ UNCHANGED <<store, cursor, wire, desktop>>

(* The sidecar dies, with what it has not got through to the desktop. *)
Die ==
    /\ Alive
    /\ stream' = "lost"
    /\ batch' = <<>>
    /\ \E n \in 0..Len(wire) : wire' = SubSeq(wire, 1, n)
    /\ UNCHANGED <<store, cursor, desktop>>

-------------------------------------------------------------------------------
(* The desktop *)

(* readRunEvents hands a frame to watchRun, which forwards it and stops at *)
(* a terminal event; the renderer clears activeRun and asks for the        *)
(* messages.  The conversation stays the selected one.                     *)
Receive ==
    /\ watcher = "watching"
    /\ wire # <<>>
    /\ forwarded' = Append(forwarded, Head(wire))
    /\ wire' = Tail(wire)
    /\ IF IsTerminal(Head(wire))
       THEN watcher' = "stopped" /\ active' = FALSE /\ refresh' = "asked"
       ELSE UNCHANGED <<watcher, active, refresh>>
    /\ UNCHANGED <<store, stream, cursor, batch, shown>>

(* reader.read() is done: readRunEvents returns, and tells nobody. *)
ReachEnd ==
    /\ watcher = "watching"
    /\ wire = <<>>
    /\ stream = "closed"
    /\ watcher' = "ended"
    /\ UNCHANGED <<store, server, forwarded, active, refresh, shown>>

(* The request or the connection fails: onError, run-stream-error. *)
LoseConnection ==
    /\ watcher = "watching"
    /\ wire = <<>>
    /\ stream \in {"refused", "lost"}
    /\ watcher' = "failed"
    /\ active' = FALSE
    /\ UNCHANGED <<store, server, forwarded, refresh, shown>>

(* listConversationMessages, once. *)
Refresh ==
    /\ refresh = "asked"
    /\ \/ Alive /\ refresh' = "done" /\ shown' = answered
       \/ refresh' = "failed" /\ UNCHANGED shown
    /\ UNCHANGED <<store, server, watcher, forwarded, active>>

-------------------------------------------------------------------------------

Write == PublishProgress \/ SkipNumber \/ PublishTerminal \/ FailWithoutEvent
            \/ Finish \/ FinishRaises

Serve == Open \/ List \/ Send \/ Check

Watch == Receive \/ ReachEnd \/ LoseConnection \/ Refresh

Next == Write \/ Delete \/ Serve \/ Disconnect \/ Die \/ Watch

Spec == Init /\ [][Next]_vars

(* The handler of the request goes on while it can, and every              *)
(* round of the poll asks whether the client is still there.               *)
FairSpec == Spec /\ WF_vars(Serve) /\ WF_vars(Disconnect)

-------------------------------------------------------------------------------

(* The renderer is told the events of the run in their order, each once    *)
(* and none left out on the way, however listing, sending and reading      *)
(* interleave with the writer and whatever numbers were skipped            *)
(* (current_sequence in stream_events, readRunEvents).                     *)
NothingSkipped == IsPrefix(forwarded \o wire, published)

(* An answer is only shown of a run that was announced as completed, and   *)
(* never one of a run whose event says otherwise: event, settlement and    *)
(* messages are three transactions, read in three requests (loop.py:187,   *)
(* persistent_runtime.py:120-138, App.tsx:2105-2118).                      *)
ShownIsAnnounced == shown => Last(forwarded).type = "completed"

(* What the renderer shows is what was stored: the events in their order,  *)
(* and messages that agree with them.                                      *)
ShownInOrder == TypeOK /\ NothingSkipped /\ ShownIsAnnounced

(* The poll ends: once the run is settled or deleted, or the desktop has   *)
(* gone, the generator returns, with or without a terminal event.          *)
StreamEnds ==
    Settled \/ status = "none" \/ watcher # "watching"
        ~> stream \in {"refused", "closed", "lost"}

===============================================================================
