----------------------- MODULE AutomationSchedulerProofs -----------------------
(***************************************************************************)
(* What is stored about scheduled runs agrees, for any automations, times  *)
(* and bounds, and claims are in time and never twice.                     *)
(***************************************************************************)
EXTENDS AutomationScheduler, TLAPS

\* A trigger has an automation, and a time only as long as it is there.
Triggers ==
    \A a \in Automations : /\ kind[a] # "none" => Exists(a)
                           /\ kind[a] = "none" => nextRun[a] = 0

\* A stored execution has a trigger: its row can be saved again.
Rows == \A e \in Executions : state[e] # "none" => kind[Owner(e)] # "none"

\* Whoever works on an execution has it as claimed in the table, or it was
\* deleted and its automation has not come back since.
Works ==
    \A e \in Executions : job[e] # "none" =>
        \/ state[e] = "claimed"
        \/ state[e] = "none" /\ ~Exists(Owner(e))

\* From the submission on there is a run.
Submitted == \A e \in Executions : job[e] \in {"link", "running", "recording"} => run[e] # "none"

\* Nothing works while the sidecar is down.
Stopped == server = "down" => tick = "asleep" /\ \A e \in Executions : job[e] = "none"

\* What is found was due when it was read.
FoundDue == \A f \in found : f.time <= tickNow

Agree == Triggers /\ Rows /\ Works /\ Submitted /\ Stopped /\ FoundDue
IInv  == ExecutionsAgree /\ Agree

-------------------------------------------------------------------------------
(* Times and executions *)

LEMMA ExecutionsAre ==
    /\ \A e \in Executions : Owner(e) \in Automations /\ Time(e) \in 0..MaxTime
    /\ \A a \in Automations, t \in 0..MaxTime :
           <<a, t>> \in Executions /\ Owner(<<a, t>>) = a /\ Time(<<a, t>>) = t
    /\ \A e \in Executions : e = <<Owner(e), Time(e)>>
BY DEF Executions, Owner, Time

LEMMA NextAfterType ==
    ASSUME NEW k \in Kinds, NEW t \in 0..MaxTime
    PROVE  NextAfter(k, t) \in 0..(MaxTime + Period)
<1>1. MaxTime \in Nat /\ Period \in Nat /\ Period > 0 /\ t \in Nat /\ t <= MaxTime
    BY SchedulerAssumption
<1>2. t \div Period \in Nat
    BY <1>1
<1>3. (t \div Period) * Period <= t
    BY <1>1
<1>4. ((t \div Period) + 1) * Period = (t \div Period) * Period + Period
    BY <1>1, <1>2
<1>5. ((t \div Period) + 1) * Period \in Nat
    BY <1>1, <1>2
<1> HIDE DEF Kinds
<1> QED
    BY <1>1, <1>3, <1>4, <1>5 DEF NextAfter

\* What is found names executions.
LEMMA FoundIsExecution ==
    ASSUME TypeOK, NEW f \in found
    PROVE  /\ f.automation \in Automations /\ f.time \in 1..MaxTime /\ f.kind \in Kinds
           /\ ExecutionOf(f) \in Executions
           /\ Owner(ExecutionOf(f)) = f.automation /\ Time(ExecutionOf(f)) = f.time
<1>1. f \in [automation : Automations, time : Times, kind : Kinds]
    BY DEF TypeOK
<1>2. f.automation \in Automations /\ f.time \in 1..MaxTime /\ f.kind \in Kinds
    BY <1>1 DEF Times
<1>3. f.time \in 0..MaxTime
    BY <1>2, SchedulerAssumption
<1> QED
    BY <1>2, <1>3, ExecutionsAre DEF ExecutionOf

-------------------------------------------------------------------------------

LEMMA InitInv == Init => IInv
<1> SUFFICES ASSUME Init PROVE IInv
    OBVIOUS
<1>1. NextAfter("recurring", 0) \in 0..(MaxTime + Period)
    BY NextAfterType, SchedulerAssumption DEF Kinds
<1>2. TypeOK
    BY <1>1, SchedulerAssumption DEF Init, TypeOK, Kinds
<1>3. ExecutionsAgree
    BY <1>2 DEF Init, ExecutionsAgree, RunsAreLinked, NoOrphans, NoneForgotten, OutcomeIsTheRuns,
                Finished
<1>4. Agree
    BY DEF Init, Agree, Triggers, Rows, Works, Submitted, Stopped, FoundDue, Exists, Kinds
<1> QED
    BY <1>3, <1>4 DEF IInv

-------------------------------------------------------------------------------
(* Types *)

\* The end of everything that runs keeps the types, and what the jobs had was
\* remembered as lost.
LEMMA DropType ==
    ASSUME TypeOK, DropAll
    PROVE  /\ server' \in {"starting", "up", "down"}
           /\ tick' \in {"asleep", "claiming", "submitting"}
           /\ found' \subseteq [automation : Automations, time : Times, kind : Kinds]
           /\ tickNow' \in 0..MaxTime
           /\ job' \in [Executions -> {"none", "queued", "loading", "submit", "link",
                                       "failing", "running", "recording"}]
           /\ held' \in [Automations -> {"none", "active", "paused"}]
           /\ lost' \subseteq Executions
BY SchedulerAssumption DEF DropAll, Loses, TypeOK

\* So does the end of a tick by an error.
LEMMA RaiseType ==
    ASSUME IInv, NEW over \in SUBSET Executions, TickRaises(over), server # "down"
    PROVE  /\ server' \in {"starting", "up", "down"}
           /\ tick' \in {"asleep", "claiming", "submitting"}
           /\ found' \subseteq [automation : Automations, time : Times, kind : Kinds]
           /\ tickNow' \in 0..MaxTime
           /\ job' \in [Executions -> {"none", "queued", "loading", "submit", "link",
                                       "failing", "running", "recording"}]
           /\ held' \in [Automations -> {"none", "active", "paused"}]
           /\ lost' \subseteq Executions
<1>0. TypeOK
    BY DEF IInv, ExecutionsAgree
<1>1. CASE server = "starting"
    BY <1>0, <1>1, DropType DEF TickRaises
<1>2. CASE server # "starting"
    BY <1>0, <1>2, SchedulerAssumption DEF TickRaises, Loses, TypeOK
<1> QED
    BY <1>1, <1>2

\* An error of the store in the work on an execution.
LEMMA RefusedType ==
    ASSUME IInv, NEW e \in Executions, Refused(e), job[e] # "none",
           UNCHANGED <<status, kind, nextRun, now, boots, edits>>
    PROVE  TypeOK'
<1> USE DEF ticking
<1>0. TypeOK /\ server # "down"
    BY DEF IInv, ExecutionsAgree, Agree, Stopped
<1>1. /\ state' \in [Executions -> Finished \union {"none", "claimed", "missed"}]
      /\ linked' \in [Executions -> BOOLEAN]
      /\ run' \in [Executions -> Finished \union {"none", "created"}]
    BY <1>0 DEF Refused, Forget, TypeOK
<1>2. CASE Time(e) = 0 \/ job[e] = "recording"
    <2>1. SetJob(e, "none") /\ Loses({e}) /\ UNCHANGED <<server, ticking, held>>
        BY <1>2 DEF Refused, Abandons
    <2> QED
        BY <1>0, <1>1, <2>1 DEF SetJob, Loses, TypeOK
<1>3. CASE ~(Time(e) = 0 \/ job[e] = "recording")
    <2>1. TickRaises({e} \union {d \in Executions : job[d] = "queued"})
        BY <1>3 DEF Refused, Abandons
    <2>2. {e} \union {d \in Executions : job[d] = "queued"} \in SUBSET Executions
        OBVIOUS
    <2> QED
        BY <1>0, <1>1, <2>1, <2>2, RaiseType DEF TypeOK
<1> QED
    BY <1>2, <1>3

LEMMA ClaimType ==
    ASSUME TypeOK, Claim
    PROVE  TypeOK'
<1>1. nextRun' \in [Automations -> 0..(MaxTime + Period)]
    <2>1. ASSUME NEW a \in Automations
          PROVE  nextRun'[a] \in 0..(MaxTime + Period)
        <3>1. CASE \E f \in Claimable : f.automation = a
            <4> DEFINE g == CHOOSE f \in Claimable : f.automation = a
            <4>1. g \in found
                BY <3>1 DEF Claimable
            <4>2. g.kind \in Kinds /\ g.time \in 0..MaxTime /\ tickNow \in 0..MaxTime
                BY <4>1, FoundIsExecution, SchedulerAssumption DEF TypeOK
            <4>3. nextRun'[a] = NextAfter(g.kind, IF IsMissed(g.time) THEN tickNow ELSE g.time)
                BY <3>1 DEF Claim
            <4> HIDE DEF g
            <4>4. (IF IsMissed(g.time) THEN tickNow ELSE g.time) \in 0..MaxTime
                BY <4>2
            <4> QED
                BY <4>2, <4>3, <4>4, NextAfterType
        <3>2. CASE ~\E f \in Claimable : f.automation = a
            BY <3>2 DEF Claim, TypeOK
        <3> QED
            BY <3>1, <3>2
    <2>2. \E w : nextRun' = [a \in Automations |-> w[a]]
        <3>1. nextRun' = [a \in Automations |-> nextRun'[a]]
            BY DEF Claim
        <3> QED
            BY <3>1
    <2> QED
        BY <2>1, <2>2
<1>2. state' \in [Executions -> Finished \union {"none", "claimed", "missed"}]
    BY DEF Claim, TypeOK
<1>3. job' \in [Executions -> {"none", "queued", "loading", "submit", "link",
                              "failing", "running", "recording"}]
    BY DEF Claim, TypeOK
<1> QED
    BY <1>1, <1>2, <1>3, SchedulerAssumption DEF Claim, TypeOK

LEMMA JobType ==
    ASSUME IInv, NEW e \in Executions, JobStep(e) \/ RunEnds(e)
    PROVE  TypeOK'
<1> USE DEF tables, ticking
<1>0. TypeOK
    BY DEF IInv, ExecutionsAgree
<1>1. CASE Load(e)
    <2>1. CASE Refused(e)
        BY <1>1, <2>1, RefusedType DEF Load
    <2>2. CASE ~Refused(e)
        BY <1>0, <1>1, <2>2 DEF Load, SetJob, TypeOK
    <2> QED
        BY <2>1, <2>2
<1>2. CASE Submit(e)
    BY <1>0, <1>2 DEF Submit, SetJob, TypeOK
<1>3. CASE SubmitRaises(e)
    BY <1>0, <1>3 DEF SubmitRaises, SetJob, TypeOK
<1>4. CASE Link(e)
    <2>1. state' \in [Executions -> Finished \union {"none", "claimed", "missed"}]
        BY <1>0, <1>4 DEF Link, Save, TypeOK
    <2>2. linked' \in [Executions -> BOOLEAN]
        BY <1>0, <1>4 DEF Link, Save, TypeOK
    <2>3. job' \in [Executions -> {"none", "queued", "loading", "submit", "link",
                                  "failing", "running", "recording"}]
        <3>1. job' = [job EXCEPT ![e] = "running"] \/ job' = [job EXCEPT ![e] = "failing"]
            BY <1>4 DEF Link, SetJob
        <3> QED
            BY <1>0, <3>1 DEF TypeOK
    <2> QED
        BY <1>0, <1>4, <2>1, <2>2, <2>3 DEF Link, TypeOK
<1>5. CASE Fail(e)
    <2>1. CASE Refused(e)
        BY <1>5, <2>1, RefusedType DEF Fail
    <2>2. CASE ~Refused(e)
        BY <1>0, <1>5, <2>2 DEF Fail, Save, SetJob, TypeOK, Finished
    <2> QED
        BY <2>1, <2>2
<1>6. CASE Record(e)
    <2>1. CASE Refused(e)
        BY <1>6, <2>1, RefusedType DEF Record
    <2>2. CASE ~Refused(e)
        <3>1. Verdict(run[e]) \in Finished
            BY DEF Verdict, Finished
        <3> QED
            BY <1>0, <1>6, <2>2, <3>1 DEF Record, Save, SetJob, TypeOK
    <2> QED
        BY <2>1, <2>2
<1>7. CASE RunEnds(e)
    BY <1>0, <1>7, SchedulerAssumption DEF RunEnds, SetJob, TypeOK, Finished
<1> QED
    BY <1>1, <1>2, <1>3, <1>4, <1>5, <1>6, <1>7 DEF JobStep

LEMMA RequestType ==
    ASSUME TypeOK, NEW a \in Automations,
           \/ RunNow(a) \/ Read(a) \/ SaveEdit(a) \/ SaveStatus(a) \/ SavePlan(a)
           \/ Delete(a)
    PROVE  TypeOK'
<1> USE DEF tables, ticking
<1>1. CASE RunNow(a)
    BY <1>1 DEF RunNow, Save, SetJob, TypeOK
<1>2. CASE Read(a)
    BY <1>2 DEF Read, Exists, TypeOK
<1>3. CASE SaveEdit(a)
    <2>1. held[a] \in {"active", "paused"}
        BY <1>3 DEF SaveEdit, Holds, TypeOK
    <2>2. \A t \in Asked \union {NextAfter("recurring", now)} : t \in 0..(MaxTime + Period)
        BY NextAfterType, SchedulerAssumption DEF TypeOK, Kinds
    <2>3. /\ kind' \in [Automations -> Kinds \union {"none"}]
          /\ nextRun' \in [Automations -> 0..(MaxTime + Period)]
        BY <1>3, <2>2 DEF SaveEdit, TypeOK
    <2>4. edits' \in 0..MaxEdits
        BY <1>3, SchedulerAssumption DEF SaveEdit, TypeOK
    <2> QED
        BY <1>3, <2>1, <2>3, <2>4 DEF SaveEdit, Release, TypeOK
<1>4. CASE SaveStatus(a)
    BY <1>4 DEF SaveStatus, Release, TypeOK
<1>5. CASE SavePlan(a)
    BY <1>5 DEF SavePlan, Holds, Release, TypeOK
<1>6. CASE Delete(a)
    <2>1. /\ status' \in [Automations -> {"active", "paused", "absent"}]
          /\ kind' \in [Automations -> Kinds \union {"none"}]
          /\ nextRun' \in [Automations -> 0..(MaxTime + Period)]
        BY <1>6, SchedulerAssumption DEF Delete, TypeOK
    <2>2. /\ state' \in [Executions -> Finished \union {"none", "claimed", "missed"}]
          /\ linked' \in [Executions -> BOOLEAN]
          /\ run' \in [Executions -> Finished \union {"none", "created"}]
          /\ lost' \subseteq Executions
        BY <1>6 DEF Delete, TypeOK
    <2> QED
        BY <1>6, <2>1, <2>2 DEF Delete, TypeOK
<1> QED
    BY <1>1, <1>2, <1>3, <1>4, <1>5, <1>6

LEMMA TypeNext == IInv /\ [Next]_vars => TypeOK'
<1> SUFFICES ASSUME IInv, [Next]_vars PROVE TypeOK'
    OBVIOUS
<1> USE DEF tables, ticking
<1>0. TypeOK
    BY DEF IInv, ExecutionsAgree
<1>1. CASE UNCHANGED vars
    BY <1>0, <1>1 DEF vars, TypeOK
<1>2. CASE SelectDue
    <2>1. found' \subseteq [automation : Automations, time : Times, kind : Kinds]
        <3>1. \A a \in Automations : Due(a) => nextRun[a] \in Times /\ kind[a] \in Kinds
            BY <1>0, SchedulerAssumption DEF Due, TypeOK, Times, IInv, Agree, Triggers
        <3> QED
            BY <1>2, <3>1 DEF SelectDue
    <2> QED
        BY <1>0, <1>2, <2>1 DEF SelectDue, TypeOK
<1>3. CASE Claim
    BY <1>0, <1>3, ClaimType
<1>4. CASE ClaimRaises
    <2>1. server # "down" /\ TickRaises({}) /\ {} \in SUBSET Executions
        BY <1>4 DEF ClaimRaises, IInv, Agree, Stopped
    <2> QED
        BY <1>0, <1>4, <2>1, RaiseType DEF ClaimRaises, TypeOK
<1>5. CASE SubmitNext
    BY <1>0, <1>5 DEF SubmitNext, SetJob, TypeOK
<1>6. CASE EndTick
    BY <1>0, <1>6 DEF EndTick, TypeOK
<1>7. CASE \E e \in Executions : JobStep(e) \/ RunEnds(e)
    BY <1>7, JobType
<1>8. CASE \E a \in Automations :
              \/ RunNow(a) \/ Read(a) \/ SaveEdit(a) \/ SaveStatus(a) \/ SavePlan(a)
              \/ Delete(a)
    BY <1>0, <1>8, RequestType
<1>9. CASE Advance
    BY <1>0, <1>9, SchedulerAssumption DEF Advance, TypeOK
<1>10. CASE Crash
    BY <1>0, <1>10, DropType DEF Crash, TypeOK
<1>11. CASE Start
    BY <1>0, <1>11, SchedulerAssumption DEF Start, TypeOK
<1> QED
    BY <1>1, <1>2, <1>3, <1>4, <1>5, <1>6, <1>7, <1>8, <1>9, <1>10, <1>11 DEF Next, TickStep

-------------------------------------------------------------------------------
(* The tables agree *)

\* NoneForgotten, execution by execution.
Left == \A e \in Executions : state[e] = "claimed" /\ job[e] = "none" <=> e \in lost

Facts == RunsAreLinked /\ NoOrphans /\ Left /\ OutcomeIsTheRuns /\ Agree

\* A process that ends takes its jobs with it and leaves the tables.
LEMMA DropFacts ==
    ASSUME IInv, DropAll, UNCHANGED <<status, kind, nextRun, state, linked>>,
           \A e \in Executions : run'[e] = run[e] \/ job[e] # "none"
    PROVE  Facts'
<1>1. \A e \in Executions : job'[e] = "none"
    BY DEF DropAll
<1>2. RunsAreLinked' /\ NoOrphans' /\ OutcomeIsTheRuns'
    BY <1>1 DEF IInv, ExecutionsAgree, Agree, RunsAreLinked, NoOrphans, OutcomeIsTheRuns, Works,
                Exists, Finished
<1>3. Left'
    BY <1>1 DEF IInv, ExecutionsAgree, NoneForgotten, Left, Loses, DropAll
<1>4. Triggers' /\ Rows'
    BY DEF IInv, Agree, Triggers, Rows, Exists
<1>5. Works' /\ Submitted' /\ Stopped' /\ FoundDue'
    BY <1>1 DEF Works, Submitted, Stopped, FoundDue, DropAll
<1> QED
    BY <1>2, <1>3, <1>4, <1>5 DEF Facts, Agree

\* A step that leaves the tables, the jobs and what was lost.
LEMMA Aside ==
    ASSUME IInv, UNCHANGED <<tables, job, lost>>, Stopped', FoundDue'
    PROVE  Facts'
BY DEF tables, IInv, ExecutionsAgree, Facts, Agree, RunsAreLinked, NoOrphans, NoneForgotten, Left,
       OutcomeIsTheRuns, Triggers, Rows, Works, Submitted, Exists

\* What a claim does to an execution.  One that it marks had no row and nobody
\* who worked on it, because its trigger is there.
LEMMA Claimed ==
    ASSUME IInv, Claim, NEW e \in Executions
    PROVE  \/ state'[e] = state[e] /\ job'[e] = job[e]
           \/ /\ state[e] = "none" /\ job[e] = "none"
              /\ kind[Owner(e)] # "none" /\ Exists(Owner(e))
              /\ \/ state'[e] = "missed" /\ job'[e] = "none"
                 \/ state'[e] = "claimed" /\ job'[e] = "queued"
<1>0. TypeOK
    BY DEF IInv, ExecutionsAgree
<1> DEFINE missed  == {ExecutionOf(f) : f \in {g \in Claimable : IsMissed(g.time)}}
           claimed == {ExecutionOf(f) : f \in Claimable} \ missed
<1>1. /\ state'[e] = IF e \in missed THEN "missed" ELSE IF e \in claimed THEN "claimed"
                                                    ELSE state[e]
      /\ job'[e] = IF e \in claimed THEN "queued" ELSE job[e]
    BY DEF Claim
<1>2. ASSUME NEW f \in Claimable, e = ExecutionOf(f)
      PROVE  /\ state[e] = "none" /\ job[e] = "none"
             /\ kind[Owner(e)] # "none" /\ Exists(Owner(e))
    <2>1. state[e] = "none"
        BY <1>2 DEF Claim, Taken
    <2>2. kind[Owner(e)] # "none" /\ Owner(e) \in Automations
        BY <1>0, <1>2, FoundIsExecution DEF Claimable
    <2>3. Exists(Owner(e))
        BY <2>2 DEF IInv, Agree, Triggers
    <2>4. job[e] = "none"
        BY <2>1, <2>3 DEF IInv, Agree, Works
    <2> QED
        BY <2>1, <2>2, <2>3, <2>4
<1>3. CASE e \in missed
    BY <1>1, <1>2, <1>3
<1>4. CASE e \in claimed
    BY <1>1, <1>2, <1>4
<1>5. CASE e \notin missed /\ e \notin claimed
    BY <1>1, <1>5
<1> QED
    BY <1>3, <1>4, <1>5

LEMMA ClaimFacts ==
    ASSUME IInv, Claim
    PROVE  Facts'
<1>1. UNCHANGED <<status, kind, linked, run, server, lost>>
    BY DEF Claim
<1>2. RunsAreLinked' /\ NoOrphans' /\ Left' /\ OutcomeIsTheRuns'
    BY <1>1, Claimed DEF IInv, ExecutionsAgree, RunsAreLinked, NoOrphans, NoneForgotten, Left,
                         OutcomeIsTheRuns, Exists, Finished
<1>3. Triggers'
    <2>1. ASSUME NEW a \in Automations, kind[a] = "none"
          PROVE  nextRun'[a] = nextRun[a]
        BY <2>1 DEF Claim, Claimable
    <2> QED
        BY <1>1, <2>1 DEF IInv, Agree, Triggers, Exists
<1>4. Rows' /\ Works' /\ Submitted'
    BY <1>1, Claimed DEF IInv, Agree, Rows, Works, Submitted, Exists
<1>5. Stopped' /\ FoundDue'
    BY DEF IInv, Agree, Stopped, FoundDue, Claim
<1> QED
    BY <1>2, <1>3, <1>4, <1>5 DEF Facts, Agree

\* A step of an execution that saves nothing.
LEMMA Goes ==
    ASSUME IInv, NEW e \in Executions, job[e] # "none",
           NEW p \in {"loading", "submit", "link", "failing", "recording"}, SetJob(e, p),
           UNCHANGED <<status, kind, nextRun, state, linked, server, tick, found, tickNow, lost>>,
           \A d \in Executions \ {e} : run'[d] = run[d],
           p \in {"link", "recording"} => run'[e] # "none"
    PROVE  Facts'
<1>0. TypeOK
    BY DEF IInv, ExecutionsAgree
<1>1. job'[e] = p /\ \A d \in Executions \ {e} : job'[d] = job[d]
    BY <1>0 DEF SetJob, TypeOK
<1>2. RunsAreLinked' /\ NoOrphans' /\ Left'
    BY <1>1 DEF IInv, ExecutionsAgree, RunsAreLinked, NoOrphans, NoneForgotten, Left, Exists
<1>3. OutcomeIsTheRuns'
    BY DEF IInv, ExecutionsAgree, Agree, OutcomeIsTheRuns, Works, Finished
<1>4. Triggers' /\ Rows' /\ FoundDue'
    BY DEF IInv, Agree, Triggers, Rows, FoundDue, Exists
<1>5. Works' /\ Submitted' /\ Stopped'
    BY <1>1 DEF IInv, Agree, Works, Submitted, Stopped, Exists
<1> QED
    BY <1>2, <1>3, <1>4, <1>5 DEF Facts, Agree

\* A step that saves the row of an execution, whose automation is there.
LEMMA Saves ==
    ASSUME IInv, NEW e \in Executions, CanSave(e),
           NEW s, NEW link \in BOOLEAN, NEW p, Save(e, s, link), SetJob(e, p),
           \/ s = "claimed" /\ p = "running" /\ link /\ job[e] = "link"
           \/ s = "claimed" /\ p = "loading" /\ server = "up"
           \/ s = "failed" /\ p = "none" /\ ~link
           \/ s = Verdict(run[e]) /\ p = "none" /\ job[e] = "recording",
           state[e] = "none" \/ job[e] # "none",
           UNCHANGED <<status, kind, nextRun, run, server, tick, found, tickNow, lost>>
    PROVE  Facts'
<1>0. TypeOK
    BY DEF IInv, ExecutionsAgree
<1>1. /\ job'[e] = p /\ state'[e] = s /\ linked'[e] = link
      /\ \A d \in Executions \ {e} : /\ job'[d] = job[d] /\ state'[d] = state[d]
                                     /\ linked'[d] = linked[d]
    BY <1>0 DEF SetJob, Save, TypeOK
<1>2. Exists(Owner(e)) /\ kind[Owner(e)] # "none"
    BY DEF CanSave
<1>3. job[e] = "recording" => run[e] \in {Verdict(run[e]), "created"}
    BY <1>0 DEF IInv, Agree, Submitted, Verdict, TypeOK, Finished
<1>4. s # "none" /\ (s = "claimed" => p # "none") /\ (p = "running" => link)
    BY DEF Verdict
<1>5. RunsAreLinked' /\ NoOrphans' /\ Left'
    <2>1. /\ e \notin lost
          /\ \A d \in Executions : state[d] = "claimed" /\ job[d] = "none" <=> d \in lost
        BY DEF IInv, ExecutionsAgree, NoneForgotten
    <2>2. Left'
        BY <1>1, <1>4, <2>1 DEF Left
    <2> QED
        BY <1>1, <1>2, <1>4, <2>2 DEF IInv, ExecutionsAgree, RunsAreLinked, NoOrphans, Exists
<1>6. OutcomeIsTheRuns'
    BY <1>1, <1>3 DEF IInv, ExecutionsAgree, OutcomeIsTheRuns, Finished
<1>7. Triggers' /\ Rows' /\ FoundDue'
    BY <1>1, <1>2 DEF IInv, Agree, Triggers, Rows, FoundDue, Exists
<1>8. Works' /\ Submitted'
    BY <1>1 DEF IInv, Agree, Works, Submitted, Exists
<1>9. Stopped'
    BY <1>1 DEF IInv, Agree, Stopped
<1> QED
    BY <1>5, <1>6, <1>7, <1>8, <1>9 DEF Facts, Agree

\* An execution whose row cannot be saved has none.
LEMMA NoRow ==
    ASSUME IInv, NEW e \in Executions, ~CanSave(e)
    PROVE  state[e] = "none"
BY DEF IInv, ExecutionsAgree, Agree, NoOrphans, Rows, CanSave

\* A step that ends the work on some executions and remembers those among them
\* that the table has as claimed.
LEMMA Ended ==
    ASSUME IInv, NEW over \in SUBSET Executions, Loses(over), server # "down",
           \A d \in over : job[d] # "none",
           \A d \in Executions : job'[d] = IF d \in over THEN "none" ELSE job[d],
           \A d \in Executions : \/ run'[d] = run[d]
                                 \/ d \in over /\ state[d] = "none",
           UNCHANGED <<status, kind, nextRun, state, linked, server>>, FoundDue'
    PROVE  Facts'
<1>1. RunsAreLinked' /\ NoOrphans'
    BY DEF IInv, ExecutionsAgree, RunsAreLinked, NoOrphans, Exists
<1>2. Left'
    BY DEF IInv, ExecutionsAgree, NoneForgotten, Left, Loses
<1>3. OutcomeIsTheRuns'
    BY DEF IInv, ExecutionsAgree, OutcomeIsTheRuns, Finished
<1>4. Triggers' /\ Rows'
    BY DEF IInv, Agree, Triggers, Rows, Exists
<1>5. Works' /\ Submitted' /\ Stopped'
    BY DEF IInv, Agree, Works, Submitted, Stopped, Exists
<1> QED
    BY <1>1, <1>2, <1>3, <1>4, <1>5 DEF Facts, Agree

\* So does a tick that raises, and so does an error of the store in the work on
\* an execution.
LEMMA RaiseFacts ==
    ASSUME IInv, NEW over \in SUBSET Executions, TickRaises(over), server # "down",
           \A d \in over : job[d] # "none",
           \A d \in Executions : \/ run'[d] = run[d]
                                 \/ d \in over /\ state[d] = "none",
           UNCHANGED <<status, kind, nextRun, state, linked>>
    PROVE  Facts'
<1>1. CASE server = "starting"
    <2>1. DropAll
        BY <1>1 DEF TickRaises
    <2> QED
        BY <2>1, DropFacts
<1>2. CASE server # "starting"
    <2>1. /\ Loses(over) /\ server' = server /\ found' = {}
          /\ \A d \in Executions : job'[d] = IF d \in over THEN "none" ELSE job[d]
        BY <1>2 DEF TickRaises
    <2>2. FoundDue'
        BY <2>1 DEF FoundDue
    <2> QED
        BY <2>1, <2>2, Ended
<1> QED
    BY <1>1, <1>2

LEMMA RefusedFacts ==
    ASSUME IInv, NEW e \in Executions, Refused(e), job[e] # "none",
           UNCHANGED <<status, kind, nextRun>>
    PROVE  Facts'
<1> USE DEF ticking
<1>0. TypeOK /\ server # "down"
    BY DEF IInv, ExecutionsAgree, Agree, Stopped
<1>1. state' = state /\ linked' = linked
    BY DEF Refused, Forget
<1>2. \A d \in Executions : run'[d] = run[d] \/ (d = e /\ state[e] = "none")
    <2>1. CASE CanSave(e)
        BY <2>1 DEF Refused
    <2>2. CASE ~CanSave(e)
        BY <1>0, <2>2, NoRow DEF Refused, Forget, TypeOK
    <2> QED
        BY <2>1, <2>2
<1>3. CASE Time(e) = 0 \/ job[e] = "recording"
    <2>1. SetJob(e, "none") /\ Loses({e}) /\ UNCHANGED <<server, ticking>>
        BY <1>3 DEF Refused, Abandons
    <2>2. \A d \in Executions : job'[d] = IF d \in {e} THEN "none" ELSE job[d]
        BY <1>0, <2>1 DEF SetJob, TypeOK
    <2>3. FoundDue'
        BY <2>1 DEF IInv, Agree, FoundDue
    <2>4. {e} \in SUBSET Executions
        OBVIOUS
    <2> QED
        BY <1>0, <1>1, <1>2, <2>1, <2>2, <2>3, <2>4, Ended
<1>4. CASE ~(Time(e) = 0 \/ job[e] = "recording")
    <2> DEFINE over == {e} \union {d \in Executions : job[d] = "queued"}
    <2>1. TickRaises(over)
        BY <1>4 DEF Refused, Abandons
    <2>2. over \in SUBSET Executions /\ e \in over /\ \A d \in over : job[d] # "none"
        OBVIOUS
    <2> HIDE DEF over
    <2>3. \A d \in Executions : run'[d] = run[d] \/ (d \in over /\ state[d] = "none")
        BY <1>2, <2>2
    <2> QED
        BY <1>0, <1>1, <2>1, <2>2, <2>3, RaiseFacts
<1> QED
    BY <1>3, <1>4

LEMMA JobFacts ==
    ASSUME IInv, NEW e \in Executions, JobStep(e) \/ RunEnds(e)
    PROVE  Facts'
<1> USE DEF tables, ticking
<1>0. TypeOK
    BY DEF IInv, ExecutionsAgree
<1>1. CASE Load(e)
    <2>1. CASE Refused(e)
        BY <1>1, <2>1, RefusedFacts DEF Load
    <2>2. CASE ~Refused(e)
        <3>1. SetJob(e, "submit") \/ SetJob(e, "failing")
            BY <1>1, <2>2 DEF Load
        <3> QED
            BY <1>1, <2>2, <3>1, Goes DEF Load
    <2> QED
        BY <2>1, <2>2
<1>2. CASE Submit(e)
    <2>1. run'[e] = "created" /\ \A d \in Executions \ {e} : run'[d] = run[d]
        BY <1>0, <1>2 DEF Submit, TypeOK
    <2> QED
        BY <1>2, <2>1, Goes DEF Submit
<1>3. CASE SubmitRaises(e)
    BY <1>3, Goes DEF SubmitRaises
<1>4. CASE Link(e)
    <2>1. CASE CanSave(e)
        BY <1>4, <2>1, Saves DEF Link
    <2>2. CASE ~CanSave(e)
        BY <1>4, <2>2, Goes DEF Link
    <2> QED
        BY <2>1, <2>2
<1>5. CASE Fail(e)
    <2>1. CASE Refused(e)
        BY <1>5, <2>1, RefusedFacts DEF Fail
    <2>2. CASE ~Refused(e)
        BY <1>5, <2>2, Saves DEF Fail
    <2> QED
        BY <2>1, <2>2
<1>6. CASE Record(e)
    <2>1. CASE Refused(e)
        BY <1>6, <2>1, RefusedFacts DEF Record
    <2>2. CASE ~Refused(e)
        BY <1>6, <2>2, Saves DEF Record
    <2> QED
        BY <2>1, <2>2
<1>7. CASE RunEnds(e)
    <2>1. run'[e] # "none" /\ \A d \in Executions \ {e} : run'[d] = run[d]
        BY <1>0, <1>7, SchedulerAssumption DEF RunEnds, TypeOK, Finished
    <2> QED
        BY <1>7, <2>1, Goes DEF RunEnds
<1> QED
    BY <1>1, <1>2, <1>3, <1>4, <1>5, <1>6, <1>7 DEF JobStep

\* A step that saves an automation's row: one that is there, or one that was
\* deleted and that nobody works for any more.
LEMMA SavesAutomation ==
    ASSUME IInv, NEW a \in Automations, MaySave(a), NEW s \in {"active", "paused"},
           status' = [status EXCEPT ![a] = s],
           \/ UNCHANGED <<kind, nextRun>>
           \/ \E k \in Kinds, t \in Nat : /\ kind' = [kind EXCEPT ![a] = k]
                                         /\ nextRun' = [nextRun EXCEPT ![a] = t],
           UNCHANGED <<state, linked, run, server, tick, found, tickNow, job, lost>>
    PROVE  Facts'
<1>0. TypeOK
    BY DEF IInv, ExecutionsAgree
<1>1. Exists(a)' /\ \A b \in Automations \ {a} : Exists(b)' = Exists(b)
    BY <1>0 DEF Exists, TypeOK
<1>2. \A b \in Automations : Exists(b) => Exists(b)'
    BY <1>1
<1>3. \A b \in Automations : /\ kind[b] # "none" => kind'[b] # "none"
                             /\ b # a => kind'[b] = kind[b] /\ nextRun'[b] = nextRun[b]
    BY <1>0 DEF TypeOK, Kinds
<1>4. kind'[a] = "none" => nextRun'[a] = 0
    BY <1>0 DEF IInv, Agree, Triggers, TypeOK, Kinds
<1>5. RunsAreLinked' /\ NoOrphans' /\ Left' /\ OutcomeIsTheRuns'
    BY <1>2, ExecutionsAre DEF IInv, ExecutionsAgree, RunsAreLinked, NoOrphans, NoneForgotten, Left,
                               OutcomeIsTheRuns
<1>6. Triggers'
    BY <1>1, <1>3, <1>4 DEF IInv, Agree, Triggers
<1>7. Rows' /\ Submitted' /\ Stopped' /\ FoundDue'
    BY <1>3, ExecutionsAre DEF IInv, Agree, Rows, Submitted, Stopped, FoundDue
<1>8. Works'
    <2>1. ASSUME NEW e \in Executions, job[e] # "none", Owner(e) = a, ~Exists(a)
          PROVE  FALSE
        BY <2>1 DEF MaySave
    <2> QED
        BY <1>1, <2>1, ExecutionsAre DEF IInv, Agree, Works
<1> QED
    BY <1>5, <1>6, <1>7, <1>8 DEF Facts, Agree

LEMMA DeleteFacts ==
    ASSUME IInv, NEW a \in Automations, Delete(a)
    PROVE  Facts'
<1>0. TypeOK
    BY DEF IInv, ExecutionsAgree
<1>1. /\ ~Exists(a)' /\ kind'[a] = "none" /\ nextRun'[a] = 0
      /\ \A b \in Automations \ {a} : /\ Exists(b)' = Exists(b)
                                      /\ kind'[b] = kind[b] /\ nextRun'[b] = nextRun[b]
    BY <1>0 DEF Delete, Exists, TypeOK
<1>2. /\ \A e \in Executions : Owner(e) = a => state'[e] = "none"
      /\ \A e \in Executions : Owner(e) # a => state'[e] = state[e] /\ run'[e] = run[e]
      /\ \A e \in Executions : job[e] # "none" => run'[e] = run[e]
      /\ \A e \in Executions : e \in lost' <=> e \in lost /\ Owner(e) # a
      /\ UNCHANGED <<server, tick, found, tickNow, job>>
    BY <1>0 DEF Delete, ticking, TypeOK
<1>3. ASSUME NEW e \in Executions, Owner(e) # a
      PROVE  linked'[e] <=> linked[e]
    BY <1>3 DEF Delete
<1>4. RunsAreLinked' /\ NoOrphans' /\ Left' /\ OutcomeIsTheRuns'
    BY <1>1, <1>2, <1>3, ExecutionsAre DEF IInv, ExecutionsAgree, RunsAreLinked, NoOrphans,
                                           NoneForgotten, Left, OutcomeIsTheRuns, Finished
<1>5. Triggers'
    BY <1>1 DEF IInv, Agree, Triggers
<1>6. Rows' /\ Works' /\ Submitted' /\ Stopped' /\ FoundDue'
    BY <1>1, <1>2, ExecutionsAre DEF IInv, Agree, Rows, Works, Submitted, Stopped, FoundDue
<1> QED
    BY <1>4, <1>5, <1>6 DEF Facts, Agree

LEMMA RequestFacts ==
    ASSUME IInv, NEW a \in Automations,
           \/ RunNow(a) \/ Read(a) \/ SaveEdit(a) \/ SaveStatus(a) \/ SavePlan(a)
           \/ Delete(a)
    PROVE  Facts'
<1> USE DEF tables, ticking
<1>0. TypeOK
    BY DEF IInv, ExecutionsAgree
<1>1. CASE RunNow(a)
    <2>1. <<a, 0>> \in Executions
        BY ExecutionsAre, SchedulerAssumption
    <2> QED
        BY <1>1, <2>1, Saves DEF RunNow
<1>2. CASE Read(a)
    BY <1>2, Aside DEF Read, IInv, Agree, Stopped, FoundDue
<1>3. CASE SaveEdit(a)
    <2>1. held[a] \in {"active", "paused"}
        BY <1>0, <1>3 DEF SaveEdit, Holds, TypeOK
    <2>2. \A t \in Asked \union {NextAfter("recurring", now)} : t \in Nat
        BY <1>0, NextAfterType, SchedulerAssumption DEF TypeOK, Kinds
    <2> QED
        BY <1>3, <2>1, <2>2, SavesAutomation DEF SaveEdit
<1>4. CASE SaveStatus(a)
    BY <1>4, SavesAutomation DEF SaveStatus
<1>5. CASE SavePlan(a)
    <2>1. held[a] \in {"active", "paused"}
        BY <1>0, <1>5 DEF SavePlan, Holds, TypeOK
    <2> QED
        BY <1>5, <2>1, SavesAutomation DEF SavePlan
<1>6. CASE Delete(a)
    BY <1>6, DeleteFacts
<1> QED
    BY <1>1, <1>2, <1>3, <1>4, <1>5, <1>6

LEMMA FactsNext == IInv /\ [Next]_vars => Facts'
<1> SUFFICES ASSUME IInv, [Next]_vars PROVE Facts'
    OBVIOUS
<1> USE DEF tables, ticking
<1>0. TypeOK
    BY DEF IInv, ExecutionsAgree
<1>1. CASE UNCHANGED vars
    BY <1>1, Aside DEF vars, IInv, Agree, Stopped, FoundDue
<1>2. CASE SelectDue
    <2>1. FoundDue'
        BY <1>0, <1>2, SchedulerAssumption DEF SelectDue, FoundDue, Due, TypeOK
    <2> QED
        BY <1>2, <2>1, Aside DEF SelectDue, Alive, Stopped
<1>3. CASE Claim
    BY <1>3, ClaimFacts
<1>4. CASE ClaimRaises
    <2>1. server # "down" /\ TickRaises({}) /\ {} \in SUBSET Executions
        BY <1>4 DEF ClaimRaises, IInv, Agree, Stopped
    <2> QED
        BY <1>4, <2>1, RaiseFacts DEF ClaimRaises
<1>5. CASE SubmitNext
    BY <1>5, Goes DEF SubmitNext
<1>6. CASE EndTick
    BY <1>6, Aside DEF EndTick, IInv, Agree, Stopped, FoundDue
<1>7. CASE \E e \in Executions : JobStep(e) \/ RunEnds(e)
    BY <1>7, JobFacts
<1>8. CASE \E a \in Automations :
              \/ RunNow(a) \/ Read(a) \/ SaveEdit(a) \/ SaveStatus(a) \/ SavePlan(a)
              \/ Delete(a)
    BY <1>8, RequestFacts
<1>9. CASE Advance
    BY <1>9, Aside DEF Advance, IInv, Agree, Stopped, FoundDue
<1>10. CASE Crash
    BY <1>10, DropFacts DEF Crash
<1>11. CASE Start
    BY <1>11, Aside DEF Start, IInv, Agree, Stopped, FoundDue
<1> QED
    BY <1>1, <1>2, <1>3, <1>4, <1>5, <1>6, <1>7, <1>8, <1>9, <1>10, <1>11 DEF Next, TickStep

LEMMA AllAgree == Spec => []IInv
<1>1. IInv /\ [Next]_vars => IInv'
    <2> SUFFICES ASSUME IInv, [Next]_vars PROVE IInv'
        OBVIOUS
    <2>1. TypeOK' /\ Facts'
        BY TypeNext, FactsNext
    <2>2. NoneForgotten'
        BY <2>1 DEF TypeOK, Facts, Left, NoneForgotten
    <2> QED
        BY <2>1, <2>2 DEF Facts, IInv, ExecutionsAgree
<1> QED
    BY InitInv, <1>1, PTL DEF Spec

-------------------------------------------------------------------------------
(* Theorems *)

\* The rows of executions agree with what there is besides them, whatever is
\* edited, deleted, late or cut by a crash: no execution without its automation,
\* none forgotten as claimed, no outcome but the run's, no run that is not linked.
THEOREM HistoryIsTrue == Spec => []ExecutionsAgree
<1>1. IInv => ExecutionsAgree
    BY DEF IInv
<1> QED
    BY <1>1, AllAgree, PTL

\* What may happen to an execution in any step but a claim: nobody queues it, and
\* an outcome stays or is deleted.
Kept(e) ==
    /\ job'[e] = "queued" => job[e] = "queued"
    /\ state[e] \in Finished \union {"missed"} => state'[e] \in {state[e], "none"}

LEMMA JobKeeps ==
    ASSUME IInv, NEW d \in Executions, JobStep(d) \/ RunEnds(d), NEW e \in Executions
    PROVE  Kept(e)
<1> USE DEF tables, ticking
<1>0. TypeOK
    BY DEF IInv, ExecutionsAgree
<1>1. job[d] \notin {"none", "queued"}
    BY DEF JobStep, Load, Submit, SubmitRaises, Link, Fail, Record, RunEnds
<1>2. state[d] \in {"claimed", "none"}
    BY <1>1 DEF IInv, Agree, Works
<1>3. state[e] \in Finished \union {"missed"} => e # d
    BY <1>2 DEF Finished
<1>4. CASE Refused(d)
    <2>1. state' = state
        BY <1>4 DEF Refused, Forget
    <2>2. job'[e] = "queued" => job[e] = "queued"
        <3>1. CASE SetJob(d, "none")
            BY <1>0, <3>1 DEF SetJob, TypeOK
        <3>2. CASE \E over : TickRaises(over)
            BY <3>2 DEF TickRaises, DropAll
        <3> QED
            BY <1>4, <3>1, <3>2 DEF Refused, Abandons
    <2> QED
        BY <2>1, <2>2 DEF Kept
<1>5. CASE ~Refused(d)
    <2>1. \E p \in {"submit", "link", "failing", "running", "recording", "none"} : SetJob(d, p)
        BY <1>5 DEF JobStep, Load, Submit, SubmitRaises, Link, Fail, Record, RunEnds
    <2>2. job'[e] = "queued" => job[e] = "queued"
        BY <1>0, <2>1 DEF SetJob, TypeOK
    <2>3. state' = state \/ \E s : state' = [state EXCEPT ![d] = s]
        <3>1. CASE Fail(d)
            BY <1>5, <3>1 DEF Fail, Save
        <3>2. CASE Record(d)
            BY <1>5, <3>2 DEF Record, Save
        <3>3. CASE Link(d)
            BY <3>3 DEF Link, Save
        <3>4. CASE Load(d)
            BY <1>5, <3>4 DEF Load
        <3>5. CASE Submit(d) \/ SubmitRaises(d) \/ RunEnds(d)
            BY <3>5 DEF Submit, SubmitRaises, RunEnds
        <3> QED
            BY <3>1, <3>2, <3>3, <3>4, <3>5 DEF JobStep
    <2> QED
        BY <1>0, <1>3, <2>2, <2>3 DEF Kept, TypeOK
<1> QED
    BY <1>4, <1>5

LEMMA AllKeep ==
    ASSUME IInv, [Next]_vars, ~Claim, NEW e \in Executions
    PROVE  Kept(e)
<1> USE DEF tables, ticking
<1>0. TypeOK
    BY DEF IInv, ExecutionsAgree
<1>1. CASE UNCHANGED vars
    BY <1>1 DEF vars, Kept
<1>2. CASE SelectDue \/ EndTick \/ Advance \/ Start
    BY <1>2 DEF SelectDue, EndTick, Advance, Start, Kept
<1>3. CASE SubmitNext
    BY <1>0, <1>3 DEF SubmitNext, SetJob, TypeOK, Kept
<1>4. CASE ClaimRaises
    BY <1>4 DEF ClaimRaises, TickRaises, DropAll, Kept
<1>5. CASE Crash
    BY <1>5 DEF Crash, DropAll, Kept
<1>6. CASE \E d \in Executions : JobStep(d) \/ RunEnds(d)
    BY <1>6, JobKeeps
<1>7. ASSUME NEW a \in Automations, RunNow(a)
      PROVE  Kept(e)
    <2>1. <<a, 0>> \in Executions /\ state[<<a, 0>>] = "none"
        BY <1>7, ExecutionsAre, SchedulerAssumption DEF RunNow
    <2>2. job'[e] = "queued" => job[e] = "queued"
        BY <1>0, <1>7 DEF RunNow, SetJob, TypeOK
    <2>3. e # <<a, 0>> => state'[e] = state[e]
        BY <1>0, <1>7 DEF RunNow, Save, TypeOK
    <2> QED
        BY <2>1, <2>2, <2>3 DEF Kept, Finished
<1>8. CASE \E a \in Automations :
              Read(a) \/ SaveEdit(a) \/ SaveStatus(a) \/ SavePlan(a) \/ Delete(a)
    BY <1>8 DEF Read, SaveEdit, SaveStatus, SavePlan, Delete, Kept
<1> QED
    BY <1>1, <1>2, <1>3, <1>4, <1>5, <1>6, <1>7, <1>8 DEF Next, TickStep

\* What a claim queues is due, in time, and the time the trigger has.
LEMMA ClaimsInTime ==
    ASSUME IInv, Claim, NEW e \in Executions, job[e] # "queued", job'[e] = "queued"
    PROVE  /\ Time(e) <= tickNow
           /\ tickNow <= Time(e) + (IF server = "starting" THEN 0 ELSE Late)
           /\ nextRun[Owner(e)] = Time(e)
<1>0. TypeOK
    BY DEF IInv, ExecutionsAgree
<1>1. PICK f \in Claimable : e = ExecutionOf(f) /\ ~IsMissed(f.time)
    BY DEF Claim
<1>2. /\ f \in found /\ nextRun[f.automation] = f.time
      /\ Time(e) = f.time /\ Owner(e) = f.automation /\ f.time \in 1..MaxTime
    BY <1>0, <1>1, FoundIsExecution DEF Claimable
<1>3. f.time <= tickNow
    BY <1>2 DEF IInv, Agree, FoundDue
<1>4. f.time \in Nat /\ tickNow \in Nat /\ Late \in Nat
    BY <1>0, <1>2, SchedulerAssumption DEF TypeOK
<1>5. tickNow <= f.time + (IF server = "starting" THEN 0 ELSE Late)
    BY <1>1, <1>4 DEF IsMissed, MissedAtStart
<1> QED
    BY <1>2, <1>3, <1>5

\* Claims are in time, of a trigger as it is at that moment, and never of a time
\* whose outcome is recorded; nor does a task that comes late change an outcome.
THEOREM ClaimsHold == Spec => ClaimsAreSound
<1>1. ASSUME IInv, [Next]_vars, NEW e \in Executions
      PROVE  /\ Time(e) # 0 /\ job[e] # "queued" /\ job'[e] = "queued" =>
                    /\ Time(e) <= tickNow
                    /\ tickNow <= Time(e) + (IF server = "starting" THEN 0 ELSE Late)
             /\ job[e] # "queued" /\ job'[e] = "queued" => nextRun[Owner(e)] = Time(e)
             /\ state[e] \in Finished \union {"missed"} => state'[e] \in {state[e], "none"}
    <2>1. CASE Claim
        <3>1. state[e] # "none" => state'[e] = state[e]
            BY <1>1, <2>1, Claimed
        <3>2. "none" \notin Finished \union {"missed"}
            BY DEF Finished
        <3> QED
            BY <1>1, <2>1, <3>1, <3>2, ClaimsInTime
    <2>2. CASE ~Claim
        BY <1>1, <2>2, AllKeep DEF Kept
    <2> QED
        BY <2>1, <2>2
<1>2. IInv /\ [Next]_vars =>
        /\ \A e \in Executions :
              Time(e) # 0 /\ job[e] # "queued" /\ job'[e] = "queued" =>
                  /\ Time(e) <= tickNow
                  /\ tickNow <= Time(e) + (IF server = "starting" THEN 0 ELSE Late)
        /\ \A e \in Executions :
              job[e] # "queued" /\ job'[e] = "queued" => nextRun[Owner(e)] = Time(e)
        /\ \A e \in Executions :
              state[e] \in Finished \union {"missed"} => state'[e] \in {state[e], "none"}
    BY <1>1
<1> QED
    BY <1>2, AllAgree, PTL DEF Spec, ClaimsAreSound, ClaimedInTime, ClaimsWhatIsThere, OutcomesStay

===============================================================================
