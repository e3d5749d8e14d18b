------------------------- MODULE AutomationScheduler --------------------------
(***************************************************************************)
(* Scheduled tasks: AutomationScheduler with its submissions               *)
(* (automation/scheduler.py), claim_due and save_execution                 *)
(* (sqlite/automation_repository.py), and the requests and tools that      *)
(* change an automation meanwhile (api/app.py, tools/automation_save.py).  *)
(*                                                                         *)
(* The scheduler, the handlers of run-now, edit and status requests, and   *)
(* the runs' own tool for their plan are concurrent; each transaction is a *)
(* step.  The database survives a crash, all else does not.  Every         *)
(* automation has one trigger.                                             *)
(*                                                                         *)
(* An execution is identified by its automation and its scheduled time,    *)
(* which the table keeps unique; time 0 stands for the microsecond of a    *)
(* run-now request, which is taken to be nobody's scheduled time.          *)
(***************************************************************************)
EXTENDS Naturals, FiniteSets

CONSTANTS
    Automations,  \* the automations, one trigger each
    MaxTime,      \* bound: the clock
    Period,       \* the time between two runs of a recurring trigger
    Late,         \* how late a run is still in time, an hour in the code
    MaxBoots,     \* bound: how often the sidecar is started
    Asked,        \* bound: the times that edits ask for
    MaxEdits,     \* bound: edits that are saved
    Ends,         \* bound: the statuses that a run's task leaves its run with
    Manual,       \* bound: the automations that run-now requests are made for
    Handlers      \* bound: which of "edit", "status" and "plan" are at work

ASSUME SchedulerAssumption ==
    /\ MaxTime \in Nat \ {0} /\ Period \in Nat \ {0} /\ Late \in Nat
    /\ MaxBoots \in Nat \ {0}
    /\ Asked \subseteq 1..MaxTime /\ MaxEdits \in Nat /\ Manual \subseteq Automations
    /\ Ends \subseteq {"completed", "failed", "cancelled", "created"}
    /\ Handlers \subseteq {"edit", "status", "plan"}

Times      == 1..MaxTime
Executions == Automations \X (0..MaxTime)
Owner(e)   == e[1]
Time(e)    == e[2]
ScheduledOf(a) == {e \in Executions : Owner(e) = a /\ Time(e) # 0}

VARIABLES
    (* Stored *)
    status,   \* status[a] in the automations table, "absent" without a row
    kind,     \* kind[a] of its trigger, "none" without a row
    nextRun,  \* next_run_at[a] of its trigger, 0 for NULL
    state,    \* state[e] in the automation_executions table, "none" without a row
    linked,   \* linked[e]: its run_id is set
    run,      \* run[e]: the status of e's run, "none" without one or once e is forgotten
    (* The process *)
    now,      \* the clock
    server,   \* "starting", "up", "down"
    boots,    \* how often it was started
    tick,     \* the place of tick(): "asleep", "claiming", "submitting"
    found,    \* the due triggers that claim_due has read
    tickNow,  \* now, as tick() has read it
    job,      \* job[e]: the step of _submit_and_dispatch or _record_completion
    held,     \* held[a]: the status of a that a handler has read, "none" without one
    (* History *)
    edits,    \* how many edits were saved
    lost      \* executions whose task was ended by a crash or an error of the store

tables   == <<status, kind, nextRun, state, linked, run>>
ticking  == <<tick, found, tickNow>>
vars     == <<tables, now, server, boots, ticking, job, held, edits, lost>>

Kinds    == {"once", "recurring"}
Finished == {"completed", "failed", "cancelled"}

\* next_run_after; see NextRun
NextAfter(k, t) == IF k = "once" THEN 0 ELSE ((t \div Period) + 1) * Period

Exists(a)    == status[a] # "absent"
Submitting(e) == job[e] \in {"loading", "submit", "link", "failing"}
Alive        == server # "down"

Init ==
    /\ status = [a \in Automations |-> "active"]
    /\ kind = [a \in Automations |-> "recurring"]
    /\ nextRun = [a \in Automations |-> NextAfter("recurring", 0)]
    /\ state = [e \in Executions |-> "none"]
    /\ linked = [e \in Executions |-> FALSE]
    /\ run = [e \in Executions |-> "none"]
    /\ now = 0
    /\ server = "starting" /\ boots = 1
    /\ tick = "asleep" /\ found = {} /\ tickNow = 0
    /\ job = [e \in Executions |-> "none"]
    /\ held = [a \in Automations |-> "none"]
    /\ edits = 0 /\ lost = {}

SetJob(e, place) == job' = [job EXCEPT ![e] = place]

-------------------------------------------------------------------------------
(* claim_due *)

Due(a) == status[a] = "active" /\ nextRun[a] \in 1..now

(* tick reads the clock and claim_due the due triggers, before the         *)
(* transaction that its first UPDATE begins.                               *)
SelectDue ==
    /\ Alive
    /\ tick = "asleep"
    /\ tick' = "claiming"
    /\ tickNow' = now
    /\ found' = {[automation |-> a, time |-> nextRun[a], kind |-> kind[a]] :
                    a \in {b \in Automations : Due(b)}}
    /\ UNCHANGED <<tables, now, server, boots, job, held, lost, edits>>

\* The UPDATE's WHERE: the trigger still has the time that was read.
Claimable ==
    {f \in found : kind[f.automation] # "none" /\ nextRun[f.automation] = f.time}

ExecutionOf(f) == <<f.automation, f.time>>

\* The unique constraint refuses a second execution of a time.
Taken == \E f \in Claimable : state[ExecutionOf(f)] # "none"

MissedByAnHour(t) == t + Late < tickNow  \* mutant of IsMissed: none at a start

\* missed_before, which only the tick of a start passes.
MissedAtStart(t) == server = "starting" /\ t < tickNow
IsMissed(t) == t + Late < tickNow \/ MissedAtStart(t)

Claim ==
    /\ tick = "claiming"
    /\ ~Taken
    /\ LET missed  == {ExecutionOf(f) : f \in {g \in Claimable : IsMissed(g.time)}}
           claimed == {ExecutionOf(f) : f \in Claimable} \ missed
           after(f) == NextAfter(f.kind, IF IsMissed(f.time) THEN tickNow ELSE f.time)
       IN  /\ state' = [e \in Executions |-> IF e \in missed THEN "missed"
                                             ELSE IF e \in claimed THEN "claimed"
                                             ELSE state[e]]
           /\ job' = [e \in Executions |-> IF e \in claimed THEN "queued" ELSE job[e]]
           /\ nextRun' = [a \in Automations |->
                 IF \E f \in Claimable : f.automation = a
                 THEN after(CHOOSE f \in Claimable : f.automation = a)
                 ELSE nextRun[a]]
    /\ tick' = "submitting"
    /\ found' = {} /\ tickNow' = 0
    /\ UNCHANGED <<status, kind, linked, run, now, server, boots, held, lost,
                   edits>>

\* Executions whose tasks are over while the table has them as claimed.
Loses(over) == lost' = lost \union {e \in over : state[e] = "claimed"}

\* What dies with the process, or with a start that fails.
DropAll ==
    /\ server' = "down"
    /\ tick' = "asleep"
    /\ found' = {} /\ tickNow' = 0
    /\ job' = [e \in Executions |-> "none"]
    /\ held' = [a \in Automations |-> "none"]
    /\ Loses({e \in Executions : job[e] # "none"})

\* tick raises: start passes it on, the loop of _run goes to sleep again.  Over
\* are the executions that the tick had claimed and not dispatched.
TickRaises(over) ==
    IF server = "starting" THEN DropAll
    ELSE /\ tick' = "asleep"
         /\ found' = {} /\ tickNow' = 0
         /\ job' = [e \in Executions |-> IF e \in over THEN "none" ELSE job[e]]
         /\ Loses(over)
         /\ UNCHANGED <<server, held>>

(* A conflict, as any error of the store, rolls back the whole transaction. *)
ClaimRaises ==
    /\ tick = "claiming"
    /\ TickRaises({})
    /\ UNCHANGED <<tables, now, boots, edits>>

(* The claimed executions are submitted one by one. *)
SubmitNext ==
    /\ tick = "submitting"
    /\ \A e \in Executions : Time(e) # 0 => ~Submitting(e)
    /\ \E e \in Executions :
          /\ job[e] = "queued"
          /\ \A d \in Executions : job[d] = "queued" => Time(e) <= Time(d)
          /\ SetJob(e, "loading")
    /\ UNCHANGED <<tables, now, server, boots, ticking, held, lost, edits>>

(* A start is over when its tick is, and the server listens. *)
EndTick ==
    /\ tick = "submitting"
    /\ \A e \in Executions : Time(e) # 0 => job[e] # "queued" /\ ~Submitting(e)
    /\ tick' = "asleep"
    /\ server' = "up"
    /\ UNCHANGED <<tables, now, boots, found, tickNow, job, held, lost, edits>>

-------------------------------------------------------------------------------
(* _submit_and_dispatch and _record_completion *)

\* The foreign keys of the execution's row.
CanSave(e) == Exists(Owner(e)) /\ kind[Owner(e)] # "none"

Save(e, s, link) ==
    /\ state' = [state EXCEPT ![e] = s]
    /\ linked' = [linked EXCEPT ![e] = link]

\* The last that was known of e, whose row is gone.
Forget(e) == run' = [run EXCEPT ![e] = "none"] /\ UNCHANGED <<state, linked>>

\* An error of the store that nobody catches ends what works on e: a run-now
\* request, the task that records the outcome, or the tick with all it had yet
\* to submit.
Abandons(e) ==
    IF Time(e) = 0 \/ job[e] = "recording"
    THEN SetJob(e, "none") /\ Loses({e}) /\ UNCHANGED <<server, ticking, held>>
    ELSE TickRaises({e} \union {d \in Executions : job[d] = "queued"})

Refused(e) ==
    /\ IF CanSave(e) THEN UNCHANGED <<state, linked, run>> ELSE Forget(e)
    /\ Abandons(e)

(* The automation is read before the try. *)
Load(e) ==
    /\ job[e] = "loading"
    /\ \/ /\ SetJob(e, IF Exists(Owner(e)) THEN "submit" ELSE "failing")
          /\ UNCHANGED <<state, linked, run, server, ticking, held, lost>>
       \/ Refused(e)
    /\ UNCHANGED <<status, kind, nextRun, now, boots, edits>>

(* A conversation of its own and the run, or neither. *)
Submit(e) ==
    /\ job[e] = "submit"
    /\ run' = [run EXCEPT ![e] = "created"]
    /\ SetJob(e, "link")
    /\ UNCHANGED <<status, kind, nextRun, state, linked, now, server, boots,
                   ticking, held, lost, edits>>

(* The store refuses the submission or the link.  A run that was submitted *)
(* stays, and nobody dispatches it.                                        *)
SubmitRaises(e) ==
    /\ job[e] \in {"submit", "link"}
    /\ SetJob(e, "failing")
    /\ UNCHANGED <<tables, now, server, boots, ticking, held, lost, edits>>

(* save_execution(linked), which raises when the automation was deleted,   *)
(* and dispatch.                                                           *)
Link(e) ==
    /\ job[e] = "link"
    /\ IF CanSave(e)
       THEN Save(e, "claimed", TRUE) /\ SetJob(e, "running")
       ELSE UNCHANGED <<state, linked>> /\ SetJob(e, "failing")
    /\ UNCHANGED <<status, kind, nextRun, run, now, server, boots, ticking,
                   held, lost, edits>>

GiveUp(e) ==  \* mutant of Fail: nothing is saved
    /\ job[e] = "failing"
    /\ SetJob(e, "none")
    /\ UNCHANGED <<tables, now, server, boots, ticking, held, lost, edits>>

(* _finish(FAILED); when that raises as well, the tick or the request does. *)
Fail(e) ==
    /\ job[e] = "failing"
    /\ \/ /\ CanSave(e)
          /\ Save(e, "failed", FALSE)
          /\ SetJob(e, "none")
          /\ UNCHANGED <<run, server, ticking, held, lost>>
       \/ Refused(e)
    /\ UNCHANGED <<status, kind, nextRun, now, boots, edits>>

(* The dispatched run is over: settled, or left as it was when finish      *)
(* raised (RunLifecycle's FinishRaises).                                   *)
RunEnds(e) ==
    /\ job[e] = "running"
    /\ \E s \in Ends : run' = [run EXCEPT ![e] = s]
    /\ SetJob(e, "recording")
    /\ UNCHANGED <<status, kind, nextRun, state, linked, now, server, boots,
                   ticking, held, lost, edits>>

\* The status of an execution whose run has status s.
Verdict(s) == IF s \in {"failed", "cancelled"} THEN s ELSE "completed"

(* _record_completion, whose task ends in silence if the run cannot be     *)
(* read or the row cannot be kept.                                         *)
Record(e) ==
    /\ job[e] = "recording"
    /\ \/ /\ CanSave(e)
          /\ Save(e, Verdict(run[e]), TRUE)
          /\ SetJob(e, "none")
          /\ UNCHANGED <<run, server, ticking, held, lost>>
       \/ Refused(e)
    /\ UNCHANGED <<status, kind, nextRun, now, boots, edits>>

-------------------------------------------------------------------------------
(* Requests and tools *)

(* run_now, once at a time for each automation. *)
RunNow(a) ==
    /\ server = "up"
    /\ a \in Manual
    /\ state[<<a, 0>>] = "none" /\ job[<<a, 0>>] = "none"
    /\ CanSave(<<a, 0>>)
    /\ Save(<<a, 0>>, "claimed", FALSE)
    /\ SetJob(<<a, 0>>, "loading")
    /\ UNCHANGED <<status, kind, nextRun, run, now, server, boots, ticking,
                   held, lost, edits>>

(* Each handler reads the automation first and saves all of it later.      *)
(* Bound: one handler at a time for each automation.                       *)
Read(a) ==
    /\ server = "up"
    /\ Exists(a)
    /\ held[a] = "none"
    /\ held' = [held EXCEPT ![a] = status[a]]
    /\ UNCHANGED <<tables, now, server, boots, ticking, job, lost, edits>>

Holds(h, a) == h \in Handlers /\ held[a] # "none"
Release(a)  == held' = [held EXCEPT ![a] = "none"]

(* Bound: an automation that was deleted is saved again only when nothing  *)
(* remembers it.                                                           *)
MaySave(a) == Exists(a) \/ \A e \in Executions : Owner(e) = a => job[e] = "none"

(* update_automation and automation.save_draft: save_with_trigger, with a  *)
(* time that was asked for or the next one of the schedule.                *)
SaveEdit(a) ==
    /\ server = "up"
    /\ Holds("edit", a)
    /\ MaySave(a)
    /\ edits < MaxEdits
    /\ edits' = edits + 1
    /\ status' = [status EXCEPT ![a] = held[a]]
    /\ \E k \in Kinds, t \in Asked \union {NextAfter("recurring", now)} :
          kind' = [kind EXCEPT ![a] = k] /\ nextRun' = [nextRun EXCEPT ![a] = t]
    /\ Release(a)
    /\ UNCHANGED <<state, linked, run, now, server, boots, ticking, job, lost>>

(* update_automation_status *)
SaveStatus(a) ==
    /\ server = "up"
    /\ Holds("status", a)
    /\ MaySave(a)
    /\ \E s \in {"active", "paused"} :
          status' = [status EXCEPT ![a] = s]
    /\ Release(a)
    /\ UNCHANGED <<kind, nextRun, state, linked, run, now, server, boots,
                   ticking, job, lost, edits>>

(* AutomationPlanUpdateTool, a tool that a run of the automation calls. *)
SavePlan(a) ==
    /\ server = "up"
    /\ Holds("plan", a)
    /\ \E e \in Executions : Owner(e) = a /\ job[e] = "running"
    /\ MaySave(a)
    /\ status' = [status EXCEPT ![a] = held[a]]
    /\ Release(a)
    /\ UNCHANGED <<kind, nextRun, state, linked, run, now, server, boots,
                   ticking, job, lost, edits>>

(* delete_automation *)
Delete(a) ==
    /\ server = "up"
    /\ Exists(a)
    /\ status' = [status EXCEPT ![a] = "absent"]
    /\ kind' = [kind EXCEPT ![a] = "none"]
    /\ nextRun' = [nextRun EXCEPT ![a] = 0]
    /\ state' = [e \in Executions |-> IF Owner(e) = a THEN "none" ELSE state[e]]
    /\ linked' = [e \in Executions |-> linked[e] /\ Owner(e) # a]
    /\ run' = [e \in Executions |-> IF Owner(e) = a /\ job[e] = "none" THEN "none"
                                                                    ELSE run[e]]
    /\ lost' = {e \in lost : Owner(e) # a}
    /\ UNCHANGED <<now, server, boots, ticking, job, held, edits>>

-------------------------------------------------------------------------------
(* Time, crash and restart *)

Advance ==
    /\ now < MaxTime
    /\ now' = now + 1
    /\ UNCHANGED <<tables, server, boots, ticking, job, held, lost, edits>>

Crash ==
    /\ Alive
    /\ DropAll
    /\ UNCHANGED <<tables, now, boots, edits>>

Start ==
    /\ server = "down"
    /\ boots < MaxBoots
    /\ boots' = boots + 1
    /\ server' = "starting"
    /\ UNCHANGED <<tables, now, ticking, job, held, lost, edits>>

-------------------------------------------------------------------------------

TickStep == SelectDue \/ Claim \/ ClaimRaises \/ SubmitNext \/ EndTick

JobStep(e) ==
    \/ Load(e) \/ Submit(e) \/ SubmitRaises(e) \/ Link(e) \/ Fail(e)
    \/ Record(e)

Next ==
    \/ TickStep
    \/ \E e \in Executions : JobStep(e) \/ RunEnds(e)
    \/ \E a \in Automations :
          \/ RunNow(a) \/ Read(a) \/ SaveEdit(a) \/ SaveStatus(a) \/ SavePlan(a)
          \/ Delete(a)
    \/ Advance \/ Crash \/ Start

Spec == Init /\ [][Next]_vars

(* The tick comes round, and a submission goes on.  Runs may last.         *)
FairSpec == Spec /\ WF_vars(TickStep) /\ \A e \in Executions : WF_vars(JobStep(e))

-------------------------------------------------------------------------------

TypeOK ==
    /\ status \in [Automations -> {"active", "paused", "absent"}]
    /\ kind \in [Automations -> Kinds \union {"none"}]
    /\ nextRun \in [Automations -> 0..(MaxTime + Period)]
    /\ state \in [Executions -> Finished \union {"none", "claimed", "missed"}]
    /\ linked \in [Executions -> BOOLEAN]
    /\ run \in [Executions -> Finished \union {"none", "created"}]
    /\ now \in 0..MaxTime /\ tickNow \in 0..MaxTime
    /\ server \in {"starting", "up", "down"}
    /\ boots \in 1..MaxBoots
    /\ tick \in {"asleep", "claiming", "submitting"}
    /\ found \subseteq [automation : Automations, time : Times, kind : Kinds]
    /\ job \in [Executions -> {"none", "queued", "loading", "submit", "link",
                               "failing", "running", "recording"}]
    /\ held \in [Automations -> {"none", "active", "paused"}]
    /\ edits \in 0..MaxEdits
    /\ lost \subseteq Executions

(* An outcome is final: no edit that gives a time back, no late tick, no   *)
(* restart and no task that saves its own copy turns a finished or missed  *)
(* execution into another one, and so no time is run a second time once it *)
(* is over (claim_due, save_execution, the unique constraint).             *)
OutcomesStay ==
    [][\A e \in Executions :
          state[e] \in Finished \union {"missed"} =>
              state'[e] \in {state[e], "none"}]_vars

(* Only a time that is due, and at most Late over, is claimed for a run,   *)
(* and at a start none that is over: no catch-up storm (README.md,         *)
(* "Missed-run protection").                                               *)
ClaimedInTime ==
    [][\A e \in Executions :
          Time(e) # 0 /\ job[e] # "queued" /\ job'[e] = "queued" =>
              /\ Time(e) <= tickNow
              /\ tickNow <= Time(e) + (IF server = "starting" THEN 0 ELSE Late)]_vars

(* A claim takes the time the trigger has at that moment: an edit or a     *)
(* deletion that came in after the triggers were read is respected.        *)
ClaimsWhatIsThere ==
    [][\A e \in Executions :
          job[e] # "queued" /\ job'[e] = "queued" =>
              nextRun[Owner(e)] = Time(e)]_vars

(* A run that the dispatcher has is one the history leads to, unless the   *)
(* automation was deleted meanwhile.                                       *)
RunsAreLinked ==
    \A e \in Executions : job[e] = "running" => linked[e] \/ state[e] = "none"

(* A deleted automation leaves no execution, although the tasks of its     *)
(* executions go on and save them.                                         *)
NoOrphans == \A e \in Executions : state[e] # "none" => Exists(Owner(e))

(* A claimed execution has somebody who will finish it until a crash, or   *)
(* an error of the store that nobody catches, ends its task: of its own    *)
(* reading, failing or recording, or of an earlier execution of its tick.  *)
(* An edit, a deletion, a late tick, or a refused submission or link       *)
(* leaves none behind.  One that was left behind is not taken up again.    *)
NoneForgotten ==
    {e \in Executions : state[e] = "claimed" /\ job[e] = "none"} = lost

(* A recorded outcome is the one of the run, or the run has none.          *)
OutcomeIsTheRuns ==
    \A e \in Executions :
        state[e] \in Finished /\ linked[e] => run[e] \in {state[e], "created"}

(* The rows of executions agree with what there is besides them: their     *)
(* automation, their run, and somebody who finishes them.                  *)
ExecutionsAgree ==
    TypeOK /\ RunsAreLinked /\ NoOrphans /\ NoneForgotten /\ OutcomeIsTheRuns

(* Steps of claiming: in time or not at all, a trigger that is there as it *)
(* was read, and never over an outcome that is recorded.                   *)
ClaimsAreSound == ClaimedInTime /\ ClaimsWhatIsThere /\ OutcomesStay

===============================================================================
