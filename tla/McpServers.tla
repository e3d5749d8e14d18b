------------------------------- MODULE McpServers -------------------------------
(***************************************************************************)
(* The MCP servers of the sidecar (tools/mcp.py, tools/mcp_manager.py): a  *)
(* child process per configured server, the client that talks to it over   *)
(* stdio, the session that keeps the list of its tools, the manager that   *)
(* puts the tools of all sessions into the registry, and the runs that     *)
(* call them.                                                              *)
(*                                                                         *)
(* Every part is a coroutine of one event loop; an action is what one of   *)
(* them does between two awaits.  A client is used by many at once: the    *)
(* runs, the manager while it starts and stops it, and the worker that     *)
(* lists the tools again when the server says that they changed.  Whoever  *)
(* sees a request fail closes the client for all of them.                  *)
(*                                                                         *)
(* The wire and the server are one: an answer is read when it is given.    *)
(* A tool list has two pages.                                              *)
(***************************************************************************)
EXTENDS Naturals, FiniteSets

CONSTANTS
    Servers,     \* the configured servers
    Notifying,   \* those that announce changes of their tools
    Legacy,      \* those that only know the old protocol
    Runs,        \* interchangeable runs; each makes one call
    Called,      \* bound: the servers they call
    Tools,       \* names of tools
    FirstPage,   \* the tools listed on the first page
    Restricted,  \* the servers with allowed_tools,
    Allowed,     \* and those tools
    MaxEvents    \* bound: changes of the tools offered, crashes, bad messages,
                 \* lost answers, refusals

ASSUME McpAssumption ==
    /\ Notifying \subseteq Servers /\ Legacy \subseteq Servers \ Notifying
    /\ Called \subseteq Servers /\ FirstPage \subseteq Tools /\ Allowed \subseteq Tools
    /\ Restricted \subseteq Servers

VARIABLES
    client,   \* the McpClient of each server
    session,  \* how far each McpServerSession is
    registry, \* the tools in the registry of each session
    manager,  \* how far the McpServerManager is
    target,   \* the tools of each server in the registry the runs use
    call,     \* the tool call of each run
    up,       \* the child process of each server runs
    offers,   \* the tools each server offers
    events,   \* counter, for the bound
    told,     \* history: a change was announced and not looked up yet
    missed    \* history: the tools changed and nobody was told

vars == <<client, session, registry, manager, target, call, up, offers,
          events, told, missed>>

Tasks   == {"worker", "listener"}
Callers == Runs \union {"starter", "worker"}
Closers == Callers \union {"manager"}
Futures == Callers \union {"listener"}
Waiters == Closers \union {"listener"}

Waiting == {"wait", "stalled"}   \* a future in _pending_requests
Failure == {"error", "timeout"}

TypeOK ==
    /\ client \in [Servers -> [
           process : BOOLEAN, info : {"none", "plain", "notifies"},
           broken : BOOLEAN, reader : BOOLEAN,
           future : [Futures -> {"none", "answer", "refusal", "cancelled"}
                                    \union Waiting \union Failure],
           subscribed : BOOLEAN, ack : {"none", "ok", "error", "timeout"} \union Waiting,
           queued : BOOLEAN, unfinished : 0 .. 2,
           worker : {"none", "get", "sleep", "list", "closing", "done"},
           listener : {"none", "waiting", "join", "finish", "done"},
           workerField : BOOLEAN, listenerField : BOOLEAN,
           cancelled : SUBSET (Tasks \union Runs), dying : BOOLEAN,
           closing : [Closers -> {"no", "tasks", "process", "ended"}],
           awaits : [Waiters -> SUBSET Tasks],
           page : 0 .. 2, listed : SUBSET Tools]]
    /\ session \in [Servers -> {"new", "discover", "initialize", "list", "subscribe",
                                "started", "failed"}]
    /\ registry \in [Servers -> SUBSET Tools]
    /\ manager \in {"starting", "up", "stopping", "cancelling", "closing", "closed"}
    /\ target \in [Servers -> SUBSET Tools]
    /\ call \in [Runs -> [step : {"idle", "asking", "closing", "returned", "killed"},
                          server : Servers, end : {"returned", "killed"}]]
    /\ up \in [Servers -> BOOLEAN] /\ offers \in [Servers -> SUBSET Tools]
    /\ told \in [Servers -> BOOLEAN] /\ missed \in [Servers -> BOOLEAN]

NewClient ==
    [process |-> FALSE, info |-> "none", broken |-> FALSE, reader |-> FALSE,
     future |-> [f \in Futures |-> "none"], subscribed |-> FALSE, ack |-> "none",
     queued |-> FALSE, unfinished |-> 0, worker |-> "none", listener |-> "none",
     workerField |-> FALSE, listenerField |-> FALSE, cancelled |-> {}, dying |-> FALSE,
     closing |-> [c \in Closers |-> "no"], awaits |-> [w \in Waiters |-> {}],
     page |-> 0, listed |-> {}]

Init ==
    /\ client = [s \in Servers |-> NewClient]
    /\ session = [s \in Servers |-> "new"]
    /\ registry = [s \in Servers |-> {}] /\ target = [s \in Servers |-> {}]
    /\ manager = "starting"
    /\ call = [r \in Runs |-> [step |-> "idle", server |-> CHOOSE s \in Servers : TRUE,
                               end |-> "returned"]]
    /\ up = [s \in Servers |-> FALSE]
    /\ offers = [s \in Servers |-> Tools]
    /\ events = 0
    /\ told = [s \in Servers |-> FALSE] /\ missed = [s \in Servers |-> FALSE]

-----------------------------------------------------------------------------
(* What the client does, on its state k.                                    *)

Spawned(k) == [k EXCEPT !.process = TRUE, !.broken = FALSE, !.reader = TRUE,
                        !.ack = "none"]

CanAsk(k)   == k.process /\ ~k.broken
Asked(k, c) == [k EXCEPT !.future[c] = "wait"]

\* list_tools asks for the first page.
Listing(k, c) == [Asked(k, c) EXCEPT !.page = 1, !.listed = {}]

\* The reader's error reaches everyone who waits.
Broken(k) ==
    [k EXCEPT !.broken = TRUE, !.reader = FALSE,
              !.ack = IF @ \in Waiting THEN "error" ELSE @,
              !.future = [f \in Futures |-> IF @[f] \in Waiting THEN "error" ELSE @[f]]]

\* Mutant: a change that arrives while the worker lists is dropped.
QueuedWhenIdle(k) == IF k.unfinished > 0 THEN k
                     ELSE [k EXCEPT !.queued = TRUE, !.unfinished = @ + 1]

\* put_nowait on a queue of one.
Queued(k) == IF k.queued THEN k
             ELSE [k EXCEPT !.queued = TRUE, !.unfinished = @ + 1]

Discarded(k) == IF k.queued THEN [k EXCEPT !.queued = FALSE, !.unfinished = @ - 1]
                ELSE k

Live(k, t) == IF t = "worker" THEN k.workerField /\ k.worker \notin {"none", "done"}
              ELSE k.listenerField /\ k.listener # "done"
Done(k, t) == IF t = "worker" THEN k.worker = "done" ELSE k.listener = "done"

\* Cancelling a task that gathers others cancels those as well.
Reached(k, T) ==
    LET Next1(S) == S \union UNION {k.awaits[t] : t \in S}
    IN  Next1(Next1(T))

\* The first half of aclose, up to _cancel_and_wait.
CloseBegun(k, c) ==
    LET captured == {t \in Tasks \ {c} : Live(k, t)}
    IN  [k EXCEPT
           !.ack = IF @ \in Waiting THEN "error" ELSE @,
           !.workerField = FALSE, !.listenerField = FALSE, !.reader = FALSE,
           !.future = [f \in Futures |-> IF f = c THEN "none"
                                         ELSE IF @[f] \in Waiting THEN "cancelled"
                                         ELSE @[f]],
           !.cancelled = @ \union Reached(k, captured),
           !.closing[c] = "tasks", !.awaits[c] = captured]

\* The second half, up to the wait for the process.
CloseContinued(k, c) ==
    [Discarded(k) EXCEPT !.process = FALSE, !.info = "none", !.subscribed = FALSE,
                         !.closing[c] = IF k.process THEN "process" ELSE "ended",
                         !.awaits[c] = {}]

\* The end of the listener: it takes the worker with it.
FinishBegun(k) ==
    LET captured == {t \in {"worker"} : Live(k, t)}
    IN  [Discarded(k) EXCEPT
           !.workerField = FALSE, !.subscribed = FALSE, !.ack = "none",
           !.listener = "finish", !.awaits["listener"] = captured,
           !.cancelled = (@ \ {"listener"}) \union Reached(k, captured)]

\* The worker's finally, and its look at the process.
Looped(k) == [k EXCEPT !.unfinished = @ - 1, !.future["worker"] = "none",
                       !.worker = IF k.process THEN "get" ELSE "done"]

\* register_mcp_tools: the tools taken of the listed ones, if none is missing.
Wanted(s, o)   == IF s \in Restricted THEN Allowed ELSE o
Listable(s, o) == s \in Restricted => Allowed \subseteq o

-----------------------------------------------------------------------------
(* The servers.                                                             *)

\* A request is answered; a page is what the server offers at that moment.
Answer(s, c) ==
    LET k == client[s]
        listing == c = "worker" \/ (c = "starter" /\ session[s] = "list")
        rest == offers[s] \ FirstPage
    IN  /\ up[s] /\ k.reader /\ k.future[c] = "wait"
        /\ ~(c = "starter" /\ session[s] = "discover" /\ s \in Legacy)
        /\ client' = [client EXCEPT ![s] =
             IF ~listing THEN [k EXCEPT !.future[c] = "answer"]
             ELSE IF k.page = 1
             THEN [k EXCEPT !.future[c] = "answer", !.listed = offers[s] \intersect FirstPage,
                            !.page = IF rest = {} THEN 0 ELSE 2]
             ELSE [k EXCEPT !.future[c] = "answer", !.listed = @ \union rest, !.page = 0]]
        /\ UNCHANGED <<session, registry, manager, target, call, up, offers, events, told, missed>>

\* An error answer, or one that does not parse.
Refuse(s, c) ==
    LET old == c = "starter" /\ session[s] = "discover" /\ s \in Legacy
    IN  /\ up[s] /\ client[s].reader /\ client[s].future[c] = "wait"
        /\ old \/ events < MaxEvents
        /\ client' = [client EXCEPT ![s].future[c] = "refusal"]
        /\ events' = IF old THEN events ELSE events + 1
        /\ missed' = [missed EXCEPT ![s] = @ \/ c = "worker"]
        /\ UNCHANGED <<session, registry, manager, target, call, up, offers, told>>

Acknowledge(s) ==
    /\ up[s] /\ client[s].reader /\ client[s].ack = "wait"
    /\ client' = [client EXCEPT ![s].ack = "ok"]
    /\ UNCHANGED <<session, registry, manager, target, call, up, offers, events,
                   told, missed>>

\* The answer to one request never comes.
Stall(s, c) ==
    /\ events < MaxEvents
    /\ IF c = "listener"
       THEN client[s].ack = "wait" /\ client' = [client EXCEPT ![s].ack = "stalled"]
       ELSE /\ client[s].future[c] = "wait"
            /\ client' = [client EXCEPT ![s].future[c] = "stalled"]
    /\ events' = events + 1
    /\ UNCHANGED <<session, registry, manager, target, call, up, offers, told, missed>>

\* The final response to subscriptions/listen.
EndSubscription(s) ==
    /\ up[s] /\ client[s].reader /\ client[s].ack = "ok"
    /\ client[s].future["listener"] = "wait" /\ events < MaxEvents
    /\ client' = [client EXCEPT ![s].future["listener"] = "answer"]
    /\ events' = events + 1
    /\ UNCHANGED <<session, registry, manager, target, call, up, offers, told, missed>>

\* The server ends, or sends what the reader takes for an error.
Break(s, ends) ==
    /\ up[s] /\ client[s].reader /\ events < MaxEvents
    /\ client' = [client EXCEPT ![s] = Broken(@)]
    /\ up' = [up EXCEPT ![s] = ~ends]
    /\ events' = events + 1
    /\ UNCHANGED <<session, registry, manager, target, call, offers, told, missed>>

\* The tools change; a subscriber is told.  (What nobody is told of matters only
\* while the tools are listed.)
Change(s) ==
    LET k == client[s]
        announced == k.reader /\ k.ack = "ok" /\ k.future["listener"] = "wait"
    IN  /\ up[s] /\ events < MaxEvents
        /\ s \in Notifying \/ session[s] = "list"
        /\ \E o \in {Tools, FirstPage} : offers' = [offers EXCEPT ![s] = o]
        /\ client' = [client EXCEPT ![s] = IF announced THEN Queued(k) ELSE k]
        /\ told' = [told EXCEPT ![s] = @ \/ announced]
        /\ missed' = [missed EXCEPT ![s] = @ \/ ~announced]
        /\ events' = events + 1
        /\ UNCHANGED <<session, registry, manager, target, call, up>>

\* Mutant: the calls of runs wait without a limit.
TimeoutOfOthers(s, c) ==
    LET k == client[s]
        late(state) == state = "stalled" \/ (state = "wait" /\ ~k.reader)
    IN  /\ c \notin Runs
        /\ IF c = "listener"
           THEN late(k.ack) /\ client' = [client EXCEPT ![s].ack = "timeout"]
           ELSE late(k.future[c]) /\ client' = [client EXCEPT ![s].future[c] = "timeout"]
        /\ UNCHANGED <<session, registry, manager, target, call, up, offers, events, told, missed>>

\* wait_for gives up.
Timeout(s, c) ==
    LET k == client[s]
        late(state) == state = "stalled" \/ (state = "wait" /\ ~k.reader)
    IN  /\ IF c = "listener"
           THEN late(k.ack) /\ client' = [client EXCEPT ![s].ack = "timeout"]
           ELSE late(k.future[c]) /\ client' = [client EXCEPT ![s].future[c] = "timeout"]
        /\ UNCHANGED <<session, registry, manager, target, call, up, offers, events, told, missed>>

-----------------------------------------------------------------------------
(* aclose, for whoever called it.                                           *)

TasksEnd(s, c) ==
    LET k == client[s]
    IN  /\ k.closing[c] = "tasks" /\ \A t \in k.awaits[c] : Done(k, t)
        /\ client' = [client EXCEPT ![s] =
             IF c \in k.cancelled   \* cancelled while it waited
             THEN [k EXCEPT !.closing[c] = "ended", !.awaits[c] = {},
                            !.cancelled = IF c = "worker" THEN @ ELSE @ \ {c},
                            !.dying = @ \/ c = "worker"]
             ELSE CloseContinued(k, c)]
        /\ UNCHANGED <<session, registry, manager, target, call, up, offers, events, told, missed>>

\* Its stdin is closed; it ends, is terminated or is killed.
ProcessEnds(s, c) ==
    /\ client[s].closing[c] = "process"
    /\ client' = [client EXCEPT ![s].closing[c] = "ended"]
    /\ up' = [up EXCEPT ![s] = FALSE]
    /\ UNCHANGED <<session, registry, manager, target, call, offers, events,
                   told, missed>>

-----------------------------------------------------------------------------
(* The start of a session, one server after the other.                      *)

\* Mutant: a server that failed ends the loop.
IsNextIfNoneFailed(s) ==
    /\ manager = "starting" /\ \A o \in Servers : session[o] \in {"new", "started"}
    /\ session[s] = "new" /\ s = CHOOSE o \in Servers : session[o] = "new"

\* The next in the order of the configuration.
IsNext(s) ==
    /\ manager = "starting" /\ \A o \in Servers : session[o] \in {"new", "started", "failed"}
    /\ session[s] = "new" /\ s = CHOOSE o \in Servers : session[o] = "new"

\* No credential, or no such program.
CannotStart(s) ==
    /\ IsNext(s)
    /\ events < MaxEvents /\ events' = events + 1
    /\ session' = [session EXCEPT ![s] = "failed"]
    /\ UNCHANGED <<client, registry, manager, target, call, up, offers, told, missed>>

StartSession(s) ==
    /\ IsNext(s)
    /\ client' = [client EXCEPT ![s] = Asked(Spawned(@), "starter")]
    /\ up' = [up EXCEPT ![s] = TRUE]
    /\ session' = [session EXCEPT ![s] = "discover"]
    /\ UNCHANGED <<registry, manager, target, call, offers, events, told, missed>>

\* The server has answered server/discover, or initialize.
Discovered(s) ==
    LET k == client[s]
        known == [k EXCEPT !.info = IF s \in Notifying /\ session[s] = "discover"
                                    THEN "notifies" ELSE "plain"]
    IN  /\ session[s] \in {"discover", "initialize"} /\ k.future["starter"] = "answer"
        /\ IF CanAsk(k)
           THEN /\ client' = [client EXCEPT ![s] = Listing(known, "starter")]
                /\ session' = [session EXCEPT ![s] = "list"]
           ELSE /\ client' = [client EXCEPT ![s] = CloseBegun(known, "starter")]
                /\ session' = [session EXCEPT ![s] = "list"]
        /\ missed' = [missed EXCEPT ![s] = FALSE]
        /\ UNCHANGED <<registry, manager, target, call, up, offers, events, told>>

\* A page has come: the next is asked for, or the tools are taken.
Listed(s) ==
    LET k == client[s]
        subscribing == [k EXCEPT !.future["starter"] = "none", !.subscribed = TRUE,
                                 !.ack = "wait", !.worker = "get", !.workerField = TRUE,
                                 !.future["listener"] = "wait"]
    IN  /\ session[s] = "list" /\ k.future["starter"] = "answer"
        /\ \/ /\ k.page = 2 /\ CanAsk(k)
              /\ client' = [client EXCEPT ![s] = Asked(k, "starter")]
              /\ UNCHANGED <<session, registry>>
           \/ /\ IF k.page = 2 THEN ~CanAsk(k) ELSE ~Listable(s, k.listed)
              /\ client' = [client EXCEPT ![s] = CloseBegun(k, "starter")]
              /\ UNCHANGED <<session, registry>>
           \/ /\ k.page = 0 /\ Listable(s, k.listed)
              /\ registry' = [registry EXCEPT ![s] = Wanted(s, k.listed)]
              /\ IF k.info = "notifies"
                 THEN /\ client' = [client EXCEPT ![s] = subscribing]
                      /\ session' = [session EXCEPT ![s] = "subscribe"]
                 ELSE /\ client' = [client EXCEPT ![s].future["starter"] = "none"]
                      /\ session' = [session EXCEPT ![s] = "started"]
        /\ UNCHANGED <<manager, target, call, up, offers, events, told, missed>>

Subscribed(s) ==
    /\ session[s] = "subscribe" /\ client[s].ack = "ok"
    /\ client' = [client EXCEPT ![s].listener = "waiting", ![s].listenerField = TRUE]
    /\ session' = [session EXCEPT ![s] = "started"]
    /\ UNCHANGED <<registry, manager, target, call, up, offers, events, told, missed>>

\* Mutant: the session gives up without closing its client.
StartFailsOpen(s) ==
    LET k == client[s]
    IN  /\ k.closing["starter"] = "no"
        /\ \/ session[s] \in {"discover", "initialize", "list"}
              /\ k.future["starter"] \in Failure \union {"refusal"}
           \/ session[s] = "subscribe" /\ k.ack \in Failure
        /\ session' = [session EXCEPT ![s] = "failed"]
        /\ UNCHANGED <<client, registry, manager, target, call, up, offers, events, told, missed>>

\* A step of the start failed: the client is closed.
StartFails(s) ==
    LET k == client[s]
    IN  /\ k.closing["starter"] = "no"
        /\ \/ session[s] \in {"discover", "initialize", "list"}
              /\ k.future["starter"] \in Failure \union {"refusal"}
           \/ session[s] = "subscribe" /\ k.ack \in Failure
        /\ client' = [client EXCEPT ![s] = CloseBegun(k, "starter")]
        /\ UNCHANGED <<session, registry, manager, target, call, up, offers, events, told, missed>>

\* ... and tried again in the old protocol, or given up.
StartClosed(s) ==
    LET k == [client[s] EXCEPT !.closing["starter"] = "no"]
    IN  /\ client[s].closing["starter"] = "ended"
        /\ IF session[s] = "discover"
           THEN /\ client' = [client EXCEPT ![s] = Asked(Spawned(k), "starter")]
                /\ up' = [up EXCEPT ![s] = TRUE]
                /\ session' = [session EXCEPT ![s] = "initialize"]
           ELSE /\ client' = [client EXCEPT ![s] = k]
                /\ session' = [session EXCEPT ![s] = "failed"]
                /\ UNCHANGED up
        /\ UNCHANGED <<registry, manager, target, call, offers, events, told, missed>>

-----------------------------------------------------------------------------
(* The manager and its registry.                                            *)

\* Mutant: the tools are added to the registry, which is not replaced.
CompositeAdded(r) == [s \in Servers |-> IF session[s] = "started"
                                           /\ manager \notin {"closing", "closed"}
                                        THEN target[s] \union r[s] ELSE {}]

\* _recompose_registry, with the sessions' registries r.
Composite(r) == [s \in Servers |-> IF session[s] = "started"
                                      /\ manager \notin {"closing", "closed"}
                                   THEN r[s] ELSE {}]

ManagerStarted ==
    /\ manager = "starting"
    /\ \A s \in Servers : session[s] \in {"started", "failed"}
    /\ manager' = "up" /\ target' = Composite(registry)
    /\ UNCHANGED <<client, session, registry, call, up, offers, events, told, missed>>

Stop ==
    /\ manager = "up" /\ manager' = "stopping"
    /\ UNCHANGED <<client, session, registry, target, call, up, offers, events,
                   told, missed>>

Active(r) == call[r].step \in {"asking", "closing"}

\* The manager's aclose, once the dispatcher has ended the runs.
ManagerCloses ==
    /\ manager \in {"stopping", "cancelling"} /\ \A r \in Runs : ~Active(r)
    /\ manager' = "closing"
    /\ client' = [s \in Servers |-> IF session[s] = "started"
                                    THEN CloseBegun(client[s], "manager")
                                    ELSE client[s]]
    /\ UNCHANGED <<session, registry, target, call, up, offers, events, told, missed>>

ManagerClosed ==
    /\ manager = "closing"
    /\ \A s \in Servers : client[s].closing["manager"] \in {"no", "ended"}
    /\ manager' = "closed"
    /\ UNCHANGED <<client, session, registry, target, call, up, offers, events,
                   told, missed>>

-----------------------------------------------------------------------------
(* The worker that lists the tools again, and the listener.                 *)

WorkerTakes(s) ==
    LET k == client[s]
    IN  /\ k.worker = "get" /\ k.queued /\ "worker" \notin k.cancelled
        /\ client' = [client EXCEPT ![s].queued = FALSE, ![s].worker = "sleep"]
        /\ UNCHANGED <<session, registry, manager, target, call, up, offers, events, told, missed>>

\* The coalescing window is over: what came in it is dropped, the list begins.
WorkerLists(s) ==
    LET k == Discarded(client[s])
    IN  /\ k.worker = "sleep" /\ "worker" \notin k.cancelled
        /\ client' = [client EXCEPT ![s] =
             IF CanAsk(k) THEN [Listing(k, "worker") EXCEPT !.worker = "list"]
             ELSE Looped(k)]
        /\ told' = [told EXCEPT ![s] = FALSE]
        /\ missed' = [missed EXCEPT ![s] = FALSE]
        /\ UNCHANGED <<session, registry, manager, target, call, up, offers, events>>

\* A page has come, or an error that leaves the client open.
WorkerGoesOn(s) ==
    LET k == client[s]
    IN  /\ k.worker = "list" /\ "worker" \notin k.cancelled
        /\ \/ /\ k.future["worker"] = "answer" /\ k.page = 2 /\ CanAsk(k)
              /\ client' = [client EXCEPT ![s] = Asked(k, "worker")]
              /\ UNCHANGED <<registry, target>>
           \/ /\ \/ k.future["worker"] = "refusal"
                 \/ /\ k.future["worker"] = "answer"
                    /\ IF k.page = 2 THEN ~CanAsk(k) ELSE ~Listable(s, k.listed)
              /\ client' = [client EXCEPT ![s] = Looped(k)]
              /\ UNCHANGED <<registry, target>>
           \/ /\ k.future["worker"] = "answer" /\ k.page = 0 /\ Listable(s, k.listed)
              /\ registry' = [registry EXCEPT ![s] = Wanted(s, k.listed)]
              /\ target' = IF manager = "starting" THEN target ELSE Composite(registry')
              /\ client' = [client EXCEPT ![s] = Looped(k)]
        /\ UNCHANGED <<session, manager, call, up, offers, events, told, missed>>

\* The request failed: the worker closes the client.
WorkerFails(s) ==
    LET k == client[s]
    IN  /\ k.worker = "list" /\ "worker" \notin k.cancelled
        /\ k.future["worker"] \in Failure
        /\ client' = [client EXCEPT ![s] = [CloseBegun(k, "worker") EXCEPT
                                                !.worker = "closing"]]
        /\ UNCHANGED <<session, registry, manager, target, call, up, offers, events, told, missed>>

\* CancelledError: nothing catches it, and a request closes the client first.
WorkerCancelled(s) ==
    LET k == [client[s] EXCEPT !.cancelled = @ \ {"worker"}, !.dying = TRUE]
    IN  /\ \/ "worker" \in client[s].cancelled
           \/ client[s].worker = "list" /\ k.future["worker"] = "cancelled"
        /\ \/ k.worker = "get" /\ client' = [client EXCEPT ![s] = [k EXCEPT !.worker = "done"]]
           \/ k.worker = "sleep"
              /\ client' = [client EXCEPT ![s] = [k EXCEPT !.worker = "done",
                                                          !.unfinished = @ - 1]]
           \/ k.worker = "list"
              /\ client' = [client EXCEPT ![s] = [CloseBegun(k, "worker") EXCEPT
                                                      !.worker = "closing"]]
           \/ k.worker = "closing" /\ k.closing["worker"] = "process"
              /\ client' = [client EXCEPT ![s] = [k EXCEPT !.closing["worker"] = "ended"]]
        /\ UNCHANGED <<session, registry, manager, target, call, up, offers, events, told, missed>>

\* The worker has closed the client.
WorkerClosed(s) ==
    LET k == [client[s] EXCEPT !.closing["worker"] = "no"]
    IN  /\ client[s].closing["worker"] = "ended" /\ k.worker = "closing"
        /\ client' = [client EXCEPT ![s] =
             IF k.dying THEN [k EXCEPT !.worker = "done", !.unfinished = @ - 1,
                                       !.future["worker"] = "none"]
             ELSE Looped(k)]
        /\ UNCHANGED <<session, registry, manager, target, call, up, offers, events, told, missed>>

ListenerResumes(s) ==
    LET k == client[s]
        ended == k.future["listener"]
    IN  /\ \/ /\ k.listener = "waiting" /\ ended = "answer"
              /\ "listener" \notin k.cancelled
              /\ client' = [client EXCEPT ![s].listener = "join"]
           \/ /\ \/ /\ k.listener = "waiting"
                    /\ ended \in {"error", "cancelled"} \/ "listener" \in k.cancelled
                 \/ /\ k.listener = "join"
                    /\ k.unfinished = 0 \/ "listener" \in k.cancelled
              /\ client' = [client EXCEPT ![s] = FinishBegun(k)]
        /\ UNCHANGED <<session, registry, manager, target, call, up, offers, events, told, missed>>

ListenerEnds(s) ==
    LET k == client[s]
    IN  /\ k.listener = "finish" /\ \A t \in k.awaits["listener"] : Done(k, t)
        /\ client' = [client EXCEPT ![s].listener = "done",
                                    ![s].awaits["listener"] = {},
                                    ![s].cancelled = @ \ {"listener"}]
        /\ UNCHANGED <<session, registry, manager, target, call, up, offers, events, told, missed>>

-----------------------------------------------------------------------------
(* The runs.                                                                *)

\* McpTool.execute.
CallTool(r, s) ==
    LET k == client[s]
        asks == CanAsk(k) /\ k.info # "none"
    IN  /\ manager = "up" /\ s \in Called /\ target[s] # {}
        /\ call[r].step = "idle" /\ r = CHOOSE q \in Runs : call[q].step = "idle"
        /\ call' = [call EXCEPT ![r].step = IF asks THEN "asking" ELSE "returned",
                                ![r].server = s]
        /\ client' = [client EXCEPT ![s] = IF asks THEN Asked(k, r) ELSE k]
        /\ UNCHANGED <<session, registry, manager, target, up, offers, events,
                       told, missed>>

\* The result is given to the model, an error as one.
CallReturns(r) ==
    LET s == call[r].server
        state == client[s].future[r]
    IN  /\ call[r].step = "asking" /\ state \in {"answer", "refusal"}
        /\ client' = [client EXCEPT ![s].future[r] = "none"]
        /\ call' = [call EXCEPT ![r].step = "returned"]
        /\ UNCHANGED <<session, registry, manager, target, up, offers, events,
                       told, missed>>

\* The request raised: the run closes the client before it goes on.  What the
\* cancelled future raises is a CancelledError, which ends the run's task.
CallFails(r) ==
    LET s == call[r].server
        state == client[s].future[r]
    IN  /\ call[r].step = "asking" /\ state \in Failure \union {"cancelled"}
        /\ client' = [client EXCEPT ![s] = CloseBegun(@, r)]
        /\ call' = [call EXCEPT ![r].step = "closing",
                                ![r].end = IF state = "cancelled" THEN "killed" ELSE "returned"]
        /\ UNCHANGED <<session, registry, manager, target, up, offers, events,
                       told, missed>>

CallEnds(r) ==
    /\ call[r].step = "closing" /\ client[call[r].server].closing[r] = "ended"
    /\ call' = [call EXCEPT ![r].step = call[r].end]
    /\ client' = [client EXCEPT ![call[r].server].closing[r] = "no"]
    /\ UNCHANGED <<session, registry, manager, target, up, offers, events,
                   told, missed>>

\* The dispatcher cancels, once, the tasks that have not ended in its five seconds,
\* wherever they are: an answer that has come is lost, and a close is cut short,
\* after the tasks it awaits, which are cancelled with it, have ended.
CancelRuns ==
    LET pending == {r \in Runs : Active(r)}
        asking(s) == {r \in pending : call[r].server = s /\ call[r].step = "asking"}
        closing(s) == {r \in pending : call[r].server = s /\ call[r].step = "closing"}
        waiting(s) == {r \in closing(s) : client[s].closing[r] = "tasks"}
    IN  /\ manager = "stopping" /\ pending # {}
        /\ manager' = "cancelling"
        /\ client' = [s \in Servers |-> [client[s] EXCEPT
             !.future = [f \in Futures |-> IF f \in asking(s) THEN "cancelled" ELSE @[f]],
             !.cancelled = @ \union Reached(client[s], waiting(s)),
             !.closing = [c \in Closers |-> IF c \in closing(s) \ waiting(s) THEN "ended"
                                            ELSE @[c]]]]
        /\ call' = [r \in Runs |-> IF call[r].step = "closing"
                                   THEN [call[r] EXCEPT !.end = "killed"] ELSE call[r]]
        /\ UNCHANGED <<session, registry, target, up, offers, events, told, missed>>
-----------------------------------------------------------------------------

ServerNext ==
    \E s \in Servers :
        \/ \E c \in Callers : Answer(s, c) \/ Refuse(s, c)
        \/ \E c \in Futures : Stall(s, c) \/ Timeout(s, c)
        \/ \E ends \in BOOLEAN : Break(s, ends)
        \/ Acknowledge(s) \/ EndSubscription(s) \/ Change(s)

ClientNext ==
    \E s \in Servers :
        \/ \E c \in Closers : TasksEnd(s, c) \/ ProcessEnds(s, c)
        \/ CannotStart(s) \/ StartSession(s) \/ Discovered(s) \/ Listed(s)
        \/ Subscribed(s) \/ StartFails(s) \/ StartClosed(s)
        \/ WorkerTakes(s) \/ WorkerLists(s) \/ WorkerGoesOn(s) \/ WorkerFails(s)
        \/ WorkerCancelled(s) \/ WorkerClosed(s)
        \/ ListenerResumes(s) \/ ListenerEnds(s)

RunNext ==
    \E r \in Runs :
        \/ \E s \in Servers : CallTool(r, s)
        \/ CallReturns(r) \/ CallFails(r) \/ CallEnds(r)

Next ==
    \/ ServerNext \/ ClientNext \/ RunNext
    \/ ManagerStarted \/ Stop \/ CancelRuns \/ ManagerCloses \/ ManagerClosed

Spec == Init /\ [][Next]_vars

\* The loop resumes every task that can go on, a live server answers what it has not
\* lost (an old one refuses what it does not know), a timeout strikes, and a process
\* without stdin is ended.
Progress(s) ==
    \/ \E c \in Callers : Answer(s, c)
    \/ s \in Legacy /\ session[s] = "discover" /\ Refuse(s, "starter")
    \/ \E c \in Futures : Timeout(s, c)
    \/ \E c \in Closers : TasksEnd(s, c) \/ ProcessEnds(s, c)
    \/ Acknowledge(s) \/ StartSession(s) \/ Discovered(s) \/ Listed(s)
    \/ Subscribed(s) \/ StartFails(s) \/ StartClosed(s)
    \/ WorkerTakes(s) \/ WorkerLists(s) \/ WorkerGoesOn(s) \/ WorkerFails(s)
    \/ WorkerCancelled(s) \/ WorkerClosed(s)
    \/ ListenerResumes(s) \/ ListenerEnds(s)

Advance ==
    \/ \E s \in Servers : Progress(s)
    \/ \E r \in Runs : CallReturns(r) \/ CallFails(r) \/ CallEnds(r)
    \/ ManagerStarted \/ ManagerCloses \/ ManagerClosed

FairSpec == Spec /\ WF_vars(Advance)
-----------------------------------------------------------------------------

Watching(s) == LET k == client[s] IN k.workerField /\ k.subscribed /\ ~k.broken
                                       /\ "worker" \notin k.cancelled /\ ~k.dying

\* A change that was announced is looked up after it was announced: it is in the
\* queue, or in the window that is dropped before the list begins (mcp.py:247-275).
NoChangeLost ==
    \A s \in Servers : told[s] /\ Watching(s) => client[s].queued
                                                  \/ client[s].worker = "sleep"

\* The queue's count is what is in it and what the worker holds, whoever empties
\* the queue: a wrong one makes task_done raise or join wait forever
\* (mcp.py:255-275, 331-334, 482-487).
QueueIsCounted ==
    \A s \in Servers :
        client[s].unfinished = (IF client[s].queued THEN 1 ELSE 0)
            + (IF client[s].worker \in {"sleep", "list", "closing"} THEN 1 ELSE 0)

\* A server that could not be started leaves no process, no task and no tool
\* behind (mcp.py:750-752, mcp_manager.py:75-81).
FailedAreGone ==
    \A s \in Servers : session[s] = "failed" =>
        /\ ~up[s] /\ ~client[s].process /\ ~client[s].reader
        /\ client[s].worker \in {"none", "done"}
        /\ client[s].listener \in {"none", "done"} /\ target[s] = {}

\* A server that fails, falls silent or breaks does not keep the others out: each in its
\* turn is started, or fails itself (mcp_manager.py:55-81).
AllAreTried == <>(\A s \in Servers : session[s] \in {"started", "failed"})

\* Every call of a run ends, however the client goes down under it (mcp.py:652-682).
CallsEnd == \A r \in Runs : Active(r) ~> ~Active(r)

\* The runs get the tools the server offers, as long as it is heard of its
\* changes (mcp.py:731-745, mcp_manager.py:90-110).
CatchesUp ==
    \A s \in Notifying :
        []<>(\/ ~Watching(s) \/ missed[s] \/ manager # "up" \/ ~Listable(s, offers[s])
             \/ target[s] = Wanted(s, offers[s]))

\* The sidecar can always stop the servers (mcp_manager.py:112-119).
CloseEnds == manager = "stopping" ~> manager = "closed"

\* An announced change is pending somewhere until a listing is asked for, and the queue
\* that holds it counts right (mcp.py:241-275).  The listing consumes the announcement
\* whatever becomes of it: one that is refused is not asked for again.
ChangesAreKept == TypeOK /\ NoChangeLost /\ QueueIsCounted

\* Whatever breaks, nobody waits for ever: neither a run that calls nor the shutdown.
NobodyWaits == CallsEnd /\ CloseEnds

=============================================================================
