# asAgent in TLA+

asAgent is a desktop assistant: an Electron shell starts a Python sidecar
(FastAPI under uvicorn, asyncio, SQLite), which runs an agent loop against a
model provider and tools. This directory holds TLA+ models of its core, the TLC
configurations that check them, and proofs for TLAPS.

    tlasany M.tla                      parse
    tlc -config X.cfg M.tla            check (PROJECT.json lists module and cfg of every run)
    tlapm RunLifecycleProofs.tla       prove
    tlapm AutomationSchedulerProofs.tla
    tlapm KnowledgeIndexerProofs.tla   (about five minutes, the others less)
    tlapm ReversibleFilesProofs.tla
    tlapm AgentLoopProofs.tla
    tlapm RunEventStreamProofs.tla
    tlapm KnowledgeLibrariesProofs.tla (about five minutes)
    tlapm BrowserPagesProofs.tla

Paths below are relative to the repository; `agent/…`, `tools/…`, `storage/…`
and `api/…` are under `src/asagent/`.

## 1. Inventory

### The path of a run

| Component | State | Operations | Talks to |
|---|---|---|---|
| run submission (`agent/run_submission.py`, `storage/sqlite/run_starter.py`) | rows of `runs`, `messages` | submit: run and user message in one transaction | API, dispatcher |
| dispatcher (`agent/run_dispatcher.py`) | `_tasks`, `_tokens`, `_closed` in memory | dispatch, cancel, is_active, wait, aclose with a timeout | the runtime, one asyncio task a run |
| runtime (`agent/persistent_runtime.py`) | variables of the task | execute_submitted: load, run the loop, settle | loop, stores |
| agent loop (`agent/loop.py`) | step counter, history, streak, event number | run, _execute_tool | provider, executor, event publisher, call recorder |
| tool approval (`tools/approval.py`) | `_pending` futures, `_conversation_grants`, `_closed` | approve, decide, deny_run, aclose | executor, API |
| tool executor and registry (`tools/executor.py`, `tools/registry.py`, `tools/snapshot.py`) | immutable tables | execute with validation, permission, timeout | approval, the tools |
| run store (`storage/sqlite/run_*.py`, `conversation_repository.py`, `event_publisher.py`, `tool_call_recorder.py`) | SQLite | start, append_event, finish, list_events, delete | everything above |
| event stream (`api/app.py` stream_events) | a cursor for each request | poll, send, stop | run store, desktop |
| run watcher (`desktop/src/main`, `renderer/src/App.tsx`) | activeRun, messages shown | readRunEvents, watchRun, refresh | event stream, API |
| shutdown (`cli.py`) | – | close server, then approvals, then dispatcher | all of the sidecar |

What is hard here: the loop awaits dozens of times a run, and a cancel request,
a decision, a deletion, a shutdown or a kill may come in at each of them. A run is
described in four places that are not written together (status row,
transcript, event rows, memory of the dispatcher). Its terminal event is stored
one transaction before its status and answer. The stream reads events and status in
two reads. What makes it correct: a run is settled at most once and its answer
is in the transcript exactly if it is completed; its event and its status agree; a
cancelled run stops at its next checkpoint; every tool call of a response is
answered exactly once; no tool that needs consent runs without it; a task ends, a
shutdown ends, a stream ends.

### Around it

| Component | State | Hard behaviour | What makes it correct |
|---|---|---|---|
| automation scheduler (`automation/scheduler.py`, `storage/sqlite/automation_repository.py`, `core/automation.py`) | triggers, executions | claim, submission and link are separate commits; edits race with ticks; missed runs after a restart; clocks that are set back or forward | a due trigger is executed once, in time or not at all; an execution records the outcome of its run; no run of a schedule is lost |
| reversible file changes (`storage/reversible_files.py`, `file_change_snapshots.py`) | file, snapshot file, row, saved scope | three writes and a crash or a cancellation between any two; two undos; outside edits; pruning | a change that happened is recorded or taken back; one shown as undoable can be undone; a text of the user's is on disk or in a snapshot, but for the instants in which nobody looks |
| knowledge indexing (`knowledge/indexer.py`, `source_watcher.py`) | documents, chunks, points, jobs, the watcher's signatures | document, chunks and points in two stores, written one after another; cancellation; removing the folder while it is indexed; restart | one job a folder; a query finds each file as the last clean job saw it, and nothing of a folder that was removed |
| knowledge libraries (`knowledge/service.py`, handlers in `api/app.py`) | libraries, folders, bindings, citations | each handler reads, awaits and writes; deletions under the others | checks of the handlers agree with the keys of the tables, but for races; deleted means deleted; the progress stream ends up right |
| knowledge retrieval, parsing (`knowledge/retriever.py`, `chunker.py`, …) | – | limits and overlap; rows that change under a query | every word is in a chunk, chunks are bounded, nothing is cited that was removed before the question |
| browser pages (`tools/browser_*.py`, `bootstrap/browser_page_bridge.py`, `desktop/src/main/browser_view.ts`) | tabs, labelled elements, snapshots, document tokens, bindings of runs | scripts and delays in a page that goes on; calls that are given up and go on in Main; navigation by the user, the page and the tools | a click lands on the page that was looked at; the refs of a snapshot are of the page that is there; a PDF read in parts is one PDF; text goes to the page that was named |
| MCP servers (`tools/mcp.py`, `mcp_manager.py`) | process, reader, pending requests, subscription worker and listener, registry | everybody who sees a request fail closes the client for all; announcements during a listing; start and stop under both | calls end, announced changes are listed, a failed server leaves nothing and the others start all the same, the stop ends |
| context building (`agent/context_history.py`, `context_builder.py`, `context_budget.py`) | – | trimming between a call and its result | the request is a history that a provider accepts, within the budget, and as much of it as fits |
| paged reading (`tools/pdf_text.py`, `tools/builtin/filesystem_*.py`) | – | limits of pages, characters, entries and matches that meet | parts join to the whole and advance; a search says when it stopped |
| automation browser, desktop shell, renderer | processes, tabs, selection | start and health check, stale selection | the view shows the conversation that is selected |
| other built-in tools, model providers, settings, migrations, build scripts | files, keychain, network | input and output | – |

`PROJECT.json` lists each of them with its files and status, and, under
`hazards`, what can go wrong in the code at the line where it would.

## 2. Modules

    RunPromise            what the run store promises, abstractly
      ^ implements
    RunLifecycle          submission … settlement, shutdown, crash, restart
      MCRunLifecycle      instances for TLC
      RunLifecycleProofs  theorems

    AgentLoop             one run of the loop in detail: history, events, limits
      AgentLoopProofs     theorems

    ToolApproval          PendingToolApprovalPolicy
      MCToolApproval      instance for TLC
      AgentLoopProofs     theorems, after those of the loop

    RunEventStream        writer, stream_events, desktop
      RunEventStreamProofs  theorem

    AutomationScheduler   ticks, claims, submissions, edits, run-now, deletion
      AutomationSchedulerProofs  theorems

    ReversibleFiles       a file, the changes of it and their undoing
      MCReversibleFiles   instance for TLC
      ReversibleFilesProofs  theorems

    KnowledgeIndexer      jobs and watcher of one folder, and what a query finds
      MCKnowledgeIndexer  instance for TLC
      KnowledgeIndexerProofs  theorems
    KnowledgeLibraries    requests on libraries, folders and bindings; questions
      KnowledgeLibrariesProofs  theorems

    McpServers            clients, sessions, manager and callers

    BrowserPages          page tools, the bridge and the tabs
      MCBrowserPages      instance for TLC
      BrowserPagesProofs  theorems

    NextRun               next_run_after                     \
    ContextBuilding       the request within a budget         \  algorithms without
    Chunking              chunks, selection of candidates     /  state of their own
    PagedReading          PDFs, directories, searches        /
      MCFunctions         every small input of each, for TLC

**RunLifecycle.** An asyncio task runs undisturbed from one await to the next,
so `pc[r]` names the await the task of run `r` is stopped at and each action is
what the code does from there to its next await. `status`, `messages`,
`terminalEvent`, `conversations` and `referenced` are in SQLite and survive
`Crash`; `token` and `pc` are the dispatcher's maps and tasks, `decision` the
future of the run's pending approval, and none of them survives. `Submit`
and `Dispatch` are the two halves of the handler; `Cancel`, `Decide` and
`DeleteConversation` are the requests; `Load` … `RecordCall` the loop as far as the life of
the run depends on it; `PublishTerminal`, `Finish`, `FinishRaises` and
`FailWithoutEvent` its end; `CloseServer`, `CloseDispatcher`, `StopProcess` the
`finally` of `cli.py`. A tool call is only counted here; AgentLoop has the calls
themselves. `overrun` is a history variable. The handler of a cancel request is one action
although it awaits the run's row in between: the row is all that is read there, and
a run that ends in between gives the 409 that is also given when it ended before.
An event that cannot be stored because its conversation is gone is a failure of
the foreign key: this is the guard `RowExists`, and `FailWithoutEvent` the other
outcome.

**RunPromise** is the specification a client of the store would like to read: begin,
settle once together with the answer, erase. `RunLifecycle!Store` is the refinement
mapping: the phase of a run is its status, "absent" before its submission and
"deleted" once its row is gone; it has answered if its answer is in the transcript.

**AgentLoop** is `AgentLoop.run` for one run: the message history as roles and call
ids, the event rows with their numbers, the recorded calls, the calls that reach the
executor, the streak. A call is its `(tool_id, canonical arguments)` pair, as the
streak compares it. The model returns any list of calls, the store may
refuse any write, the token may be set between any two steps. Calls that a cancellation skips have
a result for the model (`CancelledResults`), and neither event nor record.

**ToolApproval** is the whole of `PendingToolApprovalPolicy` with any number of
requests. Approval ids are fresh (`approval_id_factory`, a `uuid4` in `cli.py`), so the check of a duplicate id
is not met. `CancelTask` is the `asyncio` cancellation that `dispatcher.aclose`
sends after its timeout. Its `PolicyInit` and their like are named so because AgentLoopProofs, whose calls of tools the policy stands before, extends both
modules.

**RunEventStream** is one run as its store shows it, `stream_events`, and the
desktop's watcher. `List` and `Check` are the two reads of a round. The desktop
asks with `after_sequence = 0` and does not reconnect, as `watchRun` does. The
renderer's conversation stays the selected one; changing it is planned (section 6).

**AutomationScheduler.** Each transaction is a step. `status`, `kind` and `nextRun` are the rows of
an automation and its one trigger, `state` and `linked` its executions, `run` the status of
an execution's run, which RunLifecycle describes: here it ends in any status, or stays created
as after RunLifecycle's `FinishRaises`. `claim_due` is two steps, its SELECT and the transaction that its
first UPDATE begins, because the SQLite driver begins none for a SELECT; `tick` says where `tick()` is,
`job[e]` where the submission or completion of execution `e` is. A start is a tick that ends
before the server listens, so a tick that raises then ends the process. The store may refuse any read or write of a submission
or a completion: `SubmitRaises` where the code catches it, `Refused` where it does not. Handlers of edits and status
changes and the tool of the runs read the whole automation (`Read`, `held`) and save all of it later.
`Crash` also stands for an orderly shutdown, which cancels the tick where it is. `lost` and `edits`
are history. Automations begin active: what comes before, a draft, is never claimed.

**NextRun** is `next_run_after` as Python computes it: `Wall` and `Instant` are the two
directions of `astimezone` with `fold = 0`, and `Candidate` compares wall times, as
`datetime` does for two values of one zone. The reference is the earliest of the instants
of the schedule that is later than the instant asked from.

**ReversibleFiles** follows one file through any number of runs that change it and requests that
undo. `file` is the path on disk, `rows` the table, `snapshots` the store, `work[c]` and `undo[u]` say where
each is. Between two awaits no other coroutine runs (`Free`), but `Edit`, the user's programs, may write at any time, so each look at the file and
each write is an action of its own: `Prepare` reads it and saves the snapshot, `CheckDeleted` looks again, `Apply` writes, `Verify` looks at what was
written, and an undo does the same in `Look`, `Compare`, `Revert` and `VerifyReverted`. A save that fails goes on at `Compensate` and `TakeBack`, or at
`RestoreApplied` and `Restore`. `CancelSave` is a `CancelledError` at the save, `Crash` the end of the sidecar, `Restart` prunes old
snapshots, `Clear` is the handler that removes all of them, and `Drop` is `FileChangeSnapshotStore.delete`. The Trash is not modelled.
`Large` is a text beyond the limit, `Torn` what is left by a kill inside `_exclusive_create`. `others`, `purged`, `mine` and `risked` are history.

**KnowledgeIndexer** is one folder. A version of a file is its text and its hash; what a job saves for
a file is one chunk, named by the job, with the status of its row, of its embedding and of its point in Qdrant.
The steps in `work[j].step` are the writes that last: what a job only reads in between nobody else observes.
`Served` is what a query finds: the points filtered by their payload, then checked against the rows.
`SetPayload` is the second half of `Detach` and `Attach`. `raced`, `torn`, `hollow`, `overlapped` and `unscanned` are history:
files that changed while a job looked at them, files that a job left half done (`Leave`), those of them left with a document and without its
chunks, a removal that met the other half of another, and a change since the last scan.

**KnowledgeLibraries** has the handlers around it, each as its reads and writes in order
(`req[q].step`), and a question of a conversation from the search to the stored citations. A folder has one
point, and a job only begins and ends. The two reads of a watch (library, then folders) are one step, because
what the second finds after a deletion is nothing either way. Exceptions that no handler expects are collected in `unhandled`.

**McpServers** has for each server the process, the client (reader, pending requests, queue with its
count of unfinished items, subscription worker, listener), the session and the registry the runs use. The wire
and the server are one: an answer is read when it is given. `Looped`, `CloseBegun` and their like are
what several paths of the code share. A tool list has two pages, so that it may change between them.
`CancelRuns` is the dispatcher's one round of `task.cancel()`: wherever a run awaits in its request (the write, the answer) the request is given up and
the client closed, and a close it awaits is cut off. How a call ends (`returned`, `killed`) matters to the run only.

**BrowserPages** has the calls of two layers in `call[i]`: the tool in the sidecar that may give up, and Main's
work that goes on. A label is the number of the labelling that gave it (`mark`), since refs are
numbered anew by each; `snapshot[t].mark` is the one that refs are looked up in. `going[t]` is
a navigation under way. Answers of one page's scripts come in their order. Fill and select are one
kind ("edit"), and so are the tools that only look ("read"). An element that has gone, is covered or
loses the focus is the script's choice to refuse. The dispatch of a text is an await of its own: `Dispatch` hands it over,
`Typed` puts it into the page, which has moved by that for everyone else, and `Dispatched` voids the refs afterwards, or
`Undispatched` answers that it failed, with the text typed or not, and leaves them. What a call answers is left out.

**ContextBuilding, Chunking, PagedReading** are functions of an input. ContextBuilding appends any message to a
history and asks for its units and the request; Chunking cuts documents into lines and lines into words, with
`Carried` as the overlap; PagedReading reads a PDF part after part, as a model does that follows
`next_offset`, and `ListDirectory` and `SearchFiles` count entries, files and matches.
The reference definitions are beside them: a history whose calls are answered, the words in order, the text
from the beginning to the end. MCFunctions chooses a part and an input of it (`part`, `input`); the parts share nothing.

## 3. Runs

| Run | Instance | Shows |
|---|---|---|
| lifecycle_safety | two runs in one conversation, 2 steps, 1 call a response, 2 starts; runs symmetric | `AnswerIffCompleted`, `EventAgreesWithStatus`, `OneStepAfterCancel`, and `KeepsPromise`: RunLifecycle implements RunPromise |
| lifecycle_live | one run, 3 steps, 2 calls, 2 starts | `TaskEnds`, `ShutdownEnds` |
| loop | 3 steps, up to 2 calls a response of which 1 may run, no repeats, 2 known inputs | `CallsAreAnswered`, `EventsTellTheCalls` (events in order; of the calls that ran only the last may lack a report and a record, if a row was refused), `CallsAreLimited` (steps, calls a response, repeats) |
| stream | 4 event numbers | `ShownInOrder` (events in order, messages that agree with them), `StreamEnds` |
| scheduler | one automation, 4 instants, 2 starts, one edit that may give back time 1, one run-now, pauses and plan changes, errors of the store | `ExecutionsAgree` (linked, no orphans, none forgotten but by a crash or an uncaught error, outcomes are the runs'), `ClaimsAreSound` (in time, of what is there, once) |
| approval | four requests, three runs, two conversations, one tool that is never granted lastingly | `OnlyWithConsent`, `ClosedIsEmpty`, `DenialStands`, `EveryoneReturns` |
| files | two changes, two undos, two texts, of these at most three begun, room for two snapshots, one outside edit, one crash; undos and texts symmetric | `NoSilentChange`, `RowsAreTrue` (applied can be undone, reverted is restored, a conflict is one), `TextsAreKept` (what the user wrote last is on disk or in a snapshot, with the exceptions it lists) |
| knowledge | one file of two texts, three jobs, two edits, one mishap (a failing step, a kill or a removal); texts symmetric | `OneJob`, `ServesWhatIsThere` (current text, nothing stale, nothing of a removed folder), `NothingLeftBehind` (points, scan status), `KeepsServing` |
| libraries | two libraries, two names, two folders, one conversation, three requests of any kind, two at a time | `DeletionsAreWhole` (a library remains, deleted stays deleted, no orphans, bound is active), `NothingDetachedCited`, `OnlyRacesRaise`, `StreamCatchesUp` |
| mcp | two servers, one that announces changes and one of the old protocol, two runs, two tools, two mishaps or changes | `ChangesAreKept` (no announcement lost, the queue is counted), `FailedAreGone`, `AllAreTried` (a failed server does not keep the other out), `CatchesUp`, `NobodyWaits` (calls and the shutdown end) |
| bridge | two runs, two tabs, two addresses, three calls of which two at a time, one move of the user or of a page; addresses symmetric | `PagesAreCurrent` (refs, PDF), `ActsWhereItLooked` (clicks, typed text) |
| functions | histories of up to six messages; documents of small lines, 4 words a chunk and overlap 1; PDFs of up to three pages; eight zones with every trigger and instant of two weeks | `NextRunIsRight`, `RequestIsRight` (whole, within the budget, nothing left out that fits), `ReadingIsRight` and `ReadingAdvances` (PDFs and directories in parts), `RetrievalIsRight` (chunks, candidates, searches) |

Most of these are conjunctions of named parts, which are defined before them in the module and are what the text
below and section 4 refer to. The types (`TypeOK`) are such a part, or, in RunLifecycle and ToolApproval (`PolicyTypeOK`), are proved.

**Bounds.** Runs meet only in a conversation's transcript, its deletion and
the shutdown, so two runs of one conversation have every pairwise interaction; the
proofs cover any number. Two steps have a first step that continues and a last that
may reach the limit; a second start is what follows a crash. The loop needs three steps to
repeat a call across two responses with something between, and a response of two calls
for a cancellation between calls with some left to answer. Four requests are two that share a grant from different runs,
one of another kind in the same run, and one of another conversation. Four event
numbers leave a skipped number, a batch of two and a terminal event.
Times up to 3 with `Period = 2` and `Late = 1` have a run in time, one that is late but in time, one that an
edit puts more than `Late` into the past, and one that was slept through at a restart.
An execution is its automation and time; run-now has time 0, which no schedule has, and one
request an automation (`Manual`); one handler at a time reads and saves an automation. `MaySave` keeps a handler from inserting a deleted automation again
while an old execution of it is still under way: the unique constraint and ids of
rows would then matter. Days of six units leave room for a shift of two, which is all
that next_run_after can tell of a change; fourteen days have every weekday before and after it.
A run of an execution ends completed, cancelled or left created (`Ends`); to the scheduler failed is as cancelled.
`MaxCalls`, `MaxBoots`, `MaxEvents`, `MaxTime`, `MaxEdits`, `Asked`, `Manual`, `Ends` and `Horizon` bound the environment; the other constants are parameters of the
code.

*files*: at most three changes and undos begin (`FewBegun`). So a change meets another change, an undo and an edit, and two changes can fail in
either order; and two undos of one change overlap, or follow one another, with an edit before, between or after them. *knowledge*: files of a job are worked on one after another and share
nothing but the job's failure, so one file suffices; two texts and a missing file have every comparison of hashes, and a
third job is one that finds what a second left after a first. The mishaps share one bound
(`MaxMishaps`), since a second one mostly hides the first. *libraries*: a race needs two requests, and its effect is seen by a
third; ids that are used up block creations. *mcp*: `MaxEvents` is shared by mishaps and changes of tools: a change during the
listing of a change, and a breakdown during either. Calls go to one server (`Called`), since the second only shares the manager.
Which pending request is failed first does not matter, and one order is taken. *bridge*: two call slots are a call and one given up
earlier that still runs; navigations that calls ask for count as moves of their own besides the one of the user. Each
of the three orders look, move, act is then there. What is queued or posted between tasks is taken up before the next move.
*functions*: pages of a few characters around a limit of 3, entries around a batch of 2, lines around the target of 4.
Symmetry is used where values are only compared for equality, and no liveness is checked under it.

**Deadlock** is not checked: every module describes something that ends (all runs
settled and no start left, a loop that has returned, a closed stream, all
requests answered, a process that is down for good).

**Fairness.** `LiveSpec` of RunLifecycle has weak fairness of a shutdown that began and of nothing
else: a model or a tool may hang, and `aclose`'s timeout has to do. `TaskEnds` supposes also `TasksGoOn`, weak
fairness of each task and of the handler's second half, since the event loop resumes what can go on, and model
calls, tools and database calls have timeouts. The user is not fair, so `TaskEnds` allows a run to
wait for a decision while the sidecar is up. RunEventStream has the
handler's rounds and its disconnect check fair, and nothing of the run, the desktop or
the user. AutomationScheduler has the tick and the steps of submissions and
completions fair, neither the runs nor the clock nor the requests: `_run` goes on after a tick that raised. ToolApproval has publishing and waking fair: nobody has to decide.
McpServers has the coroutines of the sidecar and the timeouts of its requests fair; a server may lose an answer, which is then silence that the
timeout ends. An old server refuses what it does not know. KnowledgeLibraries has each request's next step fair, so that a stream polls on; no request has to come.

## 4. Behaviours found

The models do what the code does, so the following are behaviours of theirs. Properties state what holds besides, and
name the exception; no run asserts the opposite.

*Runs*

1. The loop checks the token, publishes `tool.requested`, and then asks for approval. A
   cancellation that falls while it publishes finds no pending approval to deny
   (`tools/approval.py:104`), `approve` does not look at the token, and the cancelled run waits for the user. The unit test
   `test_pending_approval_denies_when_run_is_cancelled_or_policy_closes` has the other order.
2. `stream_events` (`api/app.py:1148`) lists the events, then reads the status, and ends if it is settled. A run that
   concludes and settles between the two ends its stream without its terminal event; the desktop treats
   the end of the stream as nothing, and keeps the run as active.
3. `run.completed` is stored before the answer (`agent/loop.py:187`, `persistent_runtime.py:120`); the renderer fetches the messages once
   when it sees the event, and a fetch in between shows none.

*Automations*

4. `next_run_after` (`core/automation.py:133`) compares two local times of one zone, which Python does by the wall clock.
   Asked within a repeated hour it may answer with an instant that has passed, though its docstring says "strictly after"; asked between a change that leaves hours out and
   a run that the change delays, it skips that run. Asked from a run of the trigger, as `claim_due` does in time, it is right (`NoRunIsLost`).
5. A trigger that an edit gives back a time it was executed for makes `claim_due` fail on the unique constraint
   (`automation_repository.py:249`). That rolls back the claims of all, on every tick, and makes every start fail.
6. An execution that was claimed when its process died stays claimed for ever, and so does one whose task is ended by an error of the
   store that nobody catches: reading the automation, which is before the `try` (`scheduler.py:176`), saving the failure
   (`_finish`, 219), reading the run or saving the outcome (204 and 219, in a task whose error nobody sees). In a tick the same
   error leaves the executions behind that were claimed and not submitted, and it may come of the deletion of one automation.
   `NoneForgotten` says that these, and no others, are left behind. `_record_completion` takes a run that is still created for
   completed (`OutcomeIsTheRuns` excepts it). Edits, status changes and plan changes save the status they have read:
   a pause or a deletion in between is undone, and a deleted automation may be back without a trigger.

*Knowledge*

7. A change that the watcher reports while a job of the folder is active is dropped, and its signature is remembered
   (`source_watcher.py:68`): it is indexed only when something else changes, by hand, or after a restart.
8. A job cut between a document and its chunks leaves a document that every later job takes for
   unchanged (`hollow` in `CurrentIsServed`). A second cut makes it worse: a job
that is cut before it replaces the hash of that document leaves a chunk of the new text beside the old hash, and when the old text comes back the file counts as unchanged and
only the other text is found. A file is hashed and parsed in two reads, so that one that changes between
   them keeps the hash of one text and the chunks of another.
9. A job whose folder is removed before it begins leaves its row queued (`indexer.py:204`): the folder, added again, cannot be indexed until
   a restart (409). A stop between the row of a cancelled job and that of its folder leaves the folder "scanning" (`ScanEnds` excepts it).
10. Two deletions at a time leave no library; a rename that read a library before it was deleted saves it as active again; a folder added, or a
    conversation bound, while the library is deleted stays active, or bound (the exceptions of `LibraryRemains`, `DeletedStaysDeleted`,
    `NoOrphans` and `BoundIsActive`).
11. `conversation_repository.delete` deletes neither retrieval hits nor file changes nor executions, whose foreign keys restrict it
    (`schema.py:497`). Deleting such a conversation unbinds its library, raises, and never succeeds (`OnlyRacesRaise` excepts it).

*MCP*

12. A client that breaks while its worker lists the tools: the worker closes the subscription and awaits the listener, which awaits the worker
    (`tools/mcp.py:337` and `450` on). The two stay for the life of the sidecar; calls and the shutdown end all the same (`CallsEnd`, `CloseEnds`).
13. A timeout closes the client for everybody. The calls of other runs end in `CancelledError`, which neither the executor nor
    the loop nor the dispatcher catches: the run's task ends as if it had been cancelled itself, its call has neither result nor record, and
    its row stays created. The client is not started again. A listing that is refused consumes the announcement it answers (`ChangesAreKept`,
    `missed`).
14. A change between the first listing and the subscription is not heard of (`missed` in `CatchesUp`). README.md:90 and :238 say that
    notifications and pagination are not implemented; the code has both.

*Browser*

15. A tab that is closed in the 120 ms after an input was sent makes `getTitle` raise (`browser_view.ts:2021`), and the input is reported as failed,
    which the comment at :2002 means to exclude. So does the sidecar whenever its 10 s are over
    (`browser_page_bridge.py:192`, `:277`), whatever Main does meanwhile. Nothing is stated of the answers.
    The refs of a page stay usable while Main waits for a text that it has typed into the page already
    (`browser_view.ts:2000`), and after a dispatch that raised: line 2001, which voids them, is not reached.
    `RefsAreCurrent` excepts both.
16. A page that is replaced between the last look and `sendInputEvent` gets the click; a tab that is hidden in the 150 ms before it is still acted on
    (`ActsOnInspected`). A call that timed out in the sidecar goes on in Main, so a retry acts twice.

*Files*

17. A replacement is written without another look at what it replaces (`reversible_files.py:115`), and taken back, if its save fails, without a look
    at what is there (124), as is the undo of one (265). What the user's program saves in between, which for the last two is as long as the
    database takes, is gone; so is what it saves in the instant between a look and the write that follows (159 and 164, 228 and 231). `Blind` names these
    stretches, and `TextsAreKept` excepts what is written in them.
18. Two replacements whose saves fail in their order lose the text before them: the first one puts it back, and the second one then replaces it with the
    text of the first (124); both drop their snapshots (the last exception of `TextsAreKept`). A deletion whose file is
    there again at the verification drops its snapshot (169) though the deleted text is then only in the Trash; an undo that is cut off by a
    crash leaves the row "applied" (the step `"cut"` in `CanBeUndone`).

## 5. Proofs

The eight proof modules hold for any sets of runs, conversations, requests, automations, files, jobs, changes, undos, texts, tabs, addresses and tool
inputs and any limits, from assumptions that only type the constants (`HomeAssumption`, `BoundsAssumption`,
`SchedulerAssumption`, `EventsAssumption`, `LoopAssumption`) and from `FilesAssumption` (a folder has a path that can hold a file, and no text
is the value that stands for none), `JobsAssumption` (jobs are numbered as they are created, without a gap) and `ChangesAssumption` (there is a
change, none is numbered 0, no text is one of the values that stand for other contents, and undo requests are finitely many) and `LibrariesAssumption` (of libraries, paths and conversations there is one to begin with, the first library is the one that
is made when there is none, and there is a name besides the default one: each is a free choice of the user or the first row of a table)
and `BrowserAssumption` (runs, tabs and calls are finitely many and numbered, there is a run and the tab that the window opens with, no
page has the address of an empty tab, and the bounds are numbers). The approval policy needs none:

| Theorem | Property | Inductive invariant |
|---|---|---|
| RunLifecycleProofs!TypeCorrect | `TypeOK` | `TypeInv`: with `Counters`, which places have calls left, a step left and an outcome |
| SettledForGood | `SettledStays` | `SettleInv`: a run with a task or a handler is unsettled or deleted, so `Finish`, which has no guard in the code, never meets a settled row |
| EventsTellTheStatus | `EventAgreesWithStatus` | `SettleInv`: a terminal event is stored only by a task about to finish with that outcome, or gone |
| CancelBoundsWork | `OneStepAfterCancel` | `Overrun`: the one extra call leaves the task at places that lead to a checkpoint first |
| TranscriptsAreComplete | `AnswerIffCompleted` | `TranscriptInv`: also, a run without a row left no message (`NoTrace`), so that a submission adds the only question and `Finish` the only answer |
| StoreKeepsPromise | `KeepsPromise` | `TranscriptInv`: each step is a `Begin`, `Settle`, `Erase` or stutter of RunPromise |
| AutomationSchedulerProofs!HistoryIsTrue | `ExecutionsAgree` | `IInv`: itself with `Agree`, of which `Works` carries it: who works on an execution has it claimed, or its automation was deleted and is not back, so a claim never meets a task of its own time, and what an uncaught error ends is claimed or deleted (`Ended`) |
| ClaimsHold | `ClaimsAreSound` | `IInv`: what was found is due (`FoundDue`), and nobody who works on an execution finds an outcome in its row (`Works`) |
| KnowledgeIndexerProofs!OneJobAtATime | `OneJob` | `JobInv`: a job at work has an active row and the sidecar is up, and one row is active; so the lookup under the lock is enough, also after a restart |
| ScanningEnds | `ScanEnds`, a part of `NothingLeftBehind` | `ScanInv` with `JobInv`: "scanning" has an active job, or a cancelled one whose last write is to come or was cut |
| NothingStays | `NothingLeftBehind` | `KInv`: a superseded chunk has a point only while a job is about to delete it (`Dying`), and points of a folder say what its row says once nobody is about to set them (`PointsInv`) |
| QueriesFindWhatIsThere | `ServesWhatIsThere` | `KInv`: below |
| ServingGoesOn | `KeepsServing` | `KInv`: before the old chunks are superseded the new one has an active point if any has (`Leads`) |
| ReversibleFilesProofs!SilentChange | `NoSilentChange` | `FilesInv`: below |
| Rows | `RowsAreTrue` | `FilesInv` |
| AgentLoopProofs!Answered | `CallsAreAnswered` | `LoopInv`: while the calls of a response are worked on, the history is whole up to it and has answers to the calls before `index`, and to no other (`Answering`) |
| EventsTold | `EventsTellTheCalls` | `LoopInv`: a requested call without an end is the one the loop is at, or the run is over (`EventsInv`), and so is a call that the executor was given and that has no record (`RecordsInv`) |
| CallsLimited | `CallsAreLimited` | `LoopInv`: the calls the executor was given are behind the loop's place (`Behind`), and the streak counts at least the equal ones at their end (`Counted`) |
| PolicyTypeCorrect (of ToolApproval) | `PolicyTypeOK` | itself |
| ToolsNeedConsent | `OnlyWithConsent` | `Consent`: a grant in force and an allowing decision each come from the user |
| DeniedForGood | `DenialStands` | `Consent`: what is approved is not denied (`Decided`) |
| ClosingLeavesNothing | `ClosedIsEmpty` | itself with `PolicyTypeOK` |
| RunEventStreamProofs!Shown | `ShownInOrder` | `ShowInv`: what was forwarded, what is on the wire and what is listed are consecutive pieces of what was published (`Piece`), and the cursor is the number of the last sent |
| KnowledgeLibrariesProofs!CitationsHold | `NothingDetachedCited` | `LibrariesInv`: what a question remembers (`since`) has every folder that is active now (`Remembers`), so it has what a query finds whenever it looks |
| AloneIsAnswered | `OnlyRacesRaise` | `LibrariesInv`: what the handler of a request has checked still holds while no other one runs (`StillChecked`) |
| DeletedStays | `DeletedStaysDeleted` | `LibrariesInv`: below |
| DeletionsHold | `DeletionsAreWhole` | `LibrariesInv`: below |
| BrowserPagesProofs!KeptIsCurrent | `PagesAreCurrent` | `PagesInv`: below |
| ActsInPlace | `ActsWhereItLooked` | `PagesInv`: what a call looked up is not later than the labels of the page (`NotLater`), and what it confirmed or noted is so yet or it has noticed (`StillThere`) |

**KnowledgeIndexer.** The promise is about the end of a job, the invariant about every step before it. For each file `Good` says what its rows and points
are (`Stored`, `Dying`, `Agreed`) and, for each job, what the job knows of it: it has stored no chunk of a file it has not taken (`Fresh`); what it saw is what is on
disk unless the file was raced (`Planned`); at each step of a file the new chunk stands beside exactly the old ones it will supersede (`InFileInv`,
`Beside`). `Finished` carries that over the end of the job to the next: the latest job, if it completed without a failed file, left each
file searchable. Jobs follow one another (`OrderInv`), so that "the latest" is the one that saw the folder as it is. One lemma an action
shows that it keeps `Good` of the file it is at, and `Elsewhere` that it leaves the others alone. The first attempt failed for a good reason, which
takes one mishap more than the run allows: `CurrentIsServed` excepted files that have a document and no chunks now, and one that was so before may lack
its text later (section 4, 8). `hollow` is since then a history, which a job that replaces the document (`ReplaceDocument`) clears.

**ReversibleFiles.** `FilesInv` is about one change at a time: what its step and row say the file holds as long as nobody else wrote it
(`Untouched`), what its snapshot holds (`Copies`), and what the undos of it have read and are about to save (`Undoing`). Two undos of one change can both be at their save only
if the change changed nothing, since between the comparison of one and its write no other coroutine runs (`Alone`) and a program that writes is another writer.
`MoveInv` and `UndoMove` say once what is left to show of a step of a change and of a step of an undo.
A write of the file by one change sets `others` of every other one, so that no change has to be compared with another.

**AgentLoop.** `WellFormed` is said of histories at rest; while calls are answered it is false, and the invariant is about the split of
the history at the last response. Everything else follows the loop's place: `Placed` says for each `pc` where `step` and `index` are.

**RunEventStream.** That the events are sent in order with none left out is a fact about three readers of one growing sequence; an
event that is stored later extends it behind all of them (`Extended`).

**KnowledgeLibraries.** Every handler looks a library up and writes later, with other handlers in between, so each exception in the properties is a pair of requests.
`Overlapping` says that `overlapped` has them all: whoever runs beside a deletion is remembered from the moment both run, and neither is `alone`.
`StillFound` then carries what a handler found: the library is active yet, or this kind of request ran beside a deletion; so the row
that it writes is of an active library or the exception applies. `Leaves` is the same for the count before a deletion, and needs two deletions
to fail. `StillChecked` is about the tables' keys: names are unique, folders are new, conversations are there. `DeletedStaysDeleted` is of a step, and holds
since only the save of a rename makes a row active that was deleted.

**BrowserPages.** Marks of labellings and numbers of tokens only grow, so that "of the page that is there" is a comparison of numbers. For the refs: what
is kept of a page is not later than its labels (`NoneIsLater`); the labels a call has put stand unless the page moved, which it has noticed, or
a later call labels the page too (`LabelsStand`), and since the answers of a page's scripts come in order, `Keep` is of the earliest of these calls, so that one that
is not the last leaves a labelling under way (`RefsStand`). A page that was typed into has moved, and the call that typed has yet to void the refs (`Typing`), or
has marked them as late. For the PDF: a token that is still there is of the page it was taken of (`SamePage`), as every
new page voids it, and what a run has cached is of its token's page (`Given`); only a valid token lets bytes through, so all text is of that page
load until an error, after which nothing is read (`load` is 0). A run reads one document at a time (`OneReader`), since a read that is given up is aborted.
The two action properties are about one call at a time: `Rightly` is shown of the call that takes the step, and `StaysRightly` of the others.

Only model-checked: liveness (`TaskEnds`, `ShutdownEnds`, `StreamEnds`, `EveryoneReturns`, `AllAreTried`, `CallsEnd`, `CatchesUp`, `CloseEnds`,
`StreamCatchesUp`), which the prover does not reach, nor does it ENABLED or induction
over data (so what the algorithms of MCFunctions compute is checked over small inputs). Of the
safety properties of modules with state, `TextsAreKept` (ReversibleFiles), `ChangesAreKept` and `FailedAreGone` (McpServers) are so far only checked.

## 6. What is not modelled, and the plan

Not modelled because there is nothing to interleave or it is plain input and output: model providers, settings and credentials,
migrations, build scripts, paging and renaming, authentication, path resolution, commands, file formats, scores and
embeddings, reading of MCP configurations, screenshots, downloads, updates. Texts, arguments, titles and truncation are abstracted
everywhere. The automation browser drives a Chromium process over CDP; its session is opened and closed by one task, and what
it does there is the page's. The renderer's views are modelled only as far as they follow a run (RunEventStream).

Left out because it cannot happen: `filesystem.write_file` is not registered with the tools that run, the branch of `revert` that
would take a file from the Trash is not reached, and the deletion of a file beyond the snapshot limit is always refused.
ContextBuilder is used by tests only (`agent/loop.py:403` takes the request as it is when none is given), and is modelled as its tests use it.

What is left, in order:

1. Proofs: McpServers (`QueueIsCounted`, `NoChangeLost`, `FailedAreGone`).
2. The conversation view (selection, refresh, activeRun), composed with RunEventStream; the start and health check of the sidecar by the desktop.
3. An abstract promise for AutomationScheduler, one execution for each due time, with the liveness that what is due is claimed unless a
   trigger was given back a time.
