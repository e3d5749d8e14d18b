------------------------- MODULE KnowledgeIndexerProofs -------------------------
(***************************************************************************)
(* One job works on the index of a folder at a time, a query finds what is *)
(* on disk and goes on finding it, and nothing stored is left behind: for  *)
(* any files, texts and number of jobs, and whatever is edited, cancelled, *)
(* removed or killed meanwhile.                                            *)
(***************************************************************************)
EXTENDS KnowledgeIndexer, TLAPS

Row  == [status : {"none", "queued", "running"} \union Ended, cancel : BOOLEAN, failed : BOOLEAN]
Doc  == [status : {"none", "active", "missing"}, hash : Disk]
Task == [step : Steps, file : Files, todo : SUBSET Files,
         seen : [Files -> Disk], known : [Files -> Disk],
         old : SUBSET Jobs, text : Disk, cancel : BOOLEAN]

\* The part of TypeOK the argument needs.
Typed ==
    /\ disk \in [Files -> Disk]
    /\ docs \in [Files -> Doc]
    /\ jobs \in [Jobs -> Row]
    /\ work \in [Jobs -> Task]

\* The steps of a job that has not ended.
Busy == InFile \union {"task", "read", "scan", "loop", "tidy"}

Active(j) == jobs[j].status \in {"queued", "running"}

\* A job at work has an active row, there is one active row, and none is at
\* work while the sidecar is down.
OneActive ==
    /\ \A j \in Jobs : work[j].step \in Busy => up /\ Active(j)
    /\ \A j, k \in Jobs : Active(j) /\ Active(k) => j = k

JobInv == Typed /\ OneActive

\* What a step of job j does to the jobs.
StepOf(j) ==
    /\ \A k \in Jobs \ {j} : work'[k] = work[k] /\ jobs'[k] = jobs[k]
    /\ work'[j].step \in Busy => Active(j)'
    /\ Active(j)' => Active(j)
    /\ up' /\ up

-------------------------------------------------------------------------------
(* Types *)

LEMMA IdleType == \A s \in Steps : [Idle EXCEPT !.step = s] \in Task
<1>1. (CHOOSE f \in Files : TRUE) \in Files
    BY FilesAssumption
<1>2. Absent \in Disk /\ "none" \in Steps
    BY DEF Disk, Steps
<1>3. Idle \in Task
    BY <1>1, <1>2 DEF Idle, Task
<1> QED
    BY <1>3 DEF Task

LEMMA StepsAre ==
    /\ \A s \in {"none", "task", "read", "scan", "loop", "tidy", "cancelling", "done", "dead",
                 "chunks", "embed", "upsert", "mark", "replace", "supersede", "unpoint"}
               : s \in Steps
    /\ Steps \subseteq {"none", "task", "read", "scan", "loop", "tidy", "cancelling", "done",
                       "dead", "chunks", "embed", "upsert", "mark", "replace",
                       "supersede", "unpoint"}
BY DEF Steps, InFile

\* A task with another step, and with the fields that a file sets.
LEMMA TaskType ==
    ASSUME NEW w \in Task
    PROVE  /\ \A s \in Steps : [w EXCEPT !.step = s] \in Task
           /\ \A s \in Steps, c \in BOOLEAN : [w EXCEPT !.step = s, !.cancel = c] \in Task
           /\ \A s \in Steps, f \in Files, o \in SUBSET Jobs :
                  [w EXCEPT !.step = s, !.file = f, !.old = o] \in Task
BY DEF Task

-------------------------------------------------------------------------------

LEMMA InitInv == Init => JobInv
<1> SUFFICES ASSUME Init PROVE JobInv
    OBVIOUS
<1>1. Idle \in Task
    <2>1. (CHOOSE f \in Files : TRUE) \in Files
        BY FilesAssumption
    <2>2. Absent \in Disk /\ "none" \in Steps
        BY DEF Disk, Steps
    <2> QED
        BY <2>1, <2>2 DEF Idle, Task
<1>2. work \in [Jobs -> Task]
    BY <1>1 DEF Init
<1>3. jobs \in [Jobs -> Row]
    BY DEF Init, Row
<1>4. docs \in [Files -> Doc]
    BY DEF Init, Doc, NoDoc, Disk
<1>5. \A j \in Jobs : work[j].step = "none" /\ jobs[j].status = "none"
    BY DEF Init, Idle
<1> QED
    BY <1>2, <1>3, <1>4, <1>5 DEF Init, JobInv, Typed, OneActive, Active, Busy, InFile

\* A step that only moves job j to another step.
LEMMA Moved ==
    ASSUME JobInv, NEW j \in Jobs, NEW s \in Steps, To(j, s), jobs' = jobs, up, up' = up,
           work[j].step \in Busy, disk' = disk, docs' \in [Files -> Doc]
    PROVE  Typed' /\ StepOf(j) /\ Active(j)'
<1>1. work' \in [Jobs -> Task]
    BY TaskType DEF JobInv, Typed, To
<1>2. \A k \in Jobs \ {j} : work'[k] = work[k]
    BY DEF JobInv, Typed, To
<1>3. Active(j) /\ Active(j)'
    BY DEF JobInv, OneActive, Active
<1> QED
    BY <1>1, <1>2, <1>3 DEF JobInv, Typed, StepOf

\* A step that ends job j, or lets it end.
LEMMA EndedJob ==
    ASSUME JobInv, NEW j \in Jobs, NEW s \in {"cancelling", "done"}, End(j, s), up, up' = up,
           jobs' \in [Jobs -> Row],
           \A k \in Jobs \ {j} : jobs'[k] = jobs[k],
           Active(j)' => Active(j), disk' = disk, docs' = docs
    PROVE  Typed' /\ StepOf(j)
<1>1. [Idle EXCEPT !.step = s] \in Task
    BY IdleType, StepsAre
<1>2. work' \in [Jobs -> Task] /\ work'[j] = [Idle EXCEPT !.step = s]
    BY <1>1 DEF JobInv, Typed, End
<1>3. work'[j].step = s
    BY <1>2 DEF Idle
<1>4. \A k \in Jobs \ {j} : work'[k] = work[k]
    BY DEF JobInv, Typed, End
<1> QED
    BY <1>2, <1>3, <1>4 DEF JobInv, Typed, StepOf, Busy, InFile

\* A step that fails or refuses a file, and goes on with the job.
LEMMA Counted ==
    ASSUME JobInv, NEW j \in Jobs, work[j].step \in Busy, up, up' = up,
           jobs' = [jobs EXCEPT ![j].failed = TRUE],
           disk' = disk, docs' = docs, NEW w \in Task, work' = [work EXCEPT ![j] = w]
    PROVE  Typed' /\ StepOf(j) /\ Active(j)'
<1>1. /\ [jobs[j] EXCEPT !.failed = TRUE] \in Row
      /\ [jobs[j] EXCEPT !.failed = TRUE].status = jobs[j].status
    BY DEF JobInv, Typed, Row
<1>2. /\ jobs' \in [Jobs -> Row] /\ jobs'[j].status = jobs[j].status
      /\ \A k \in Jobs \ {j} : work'[k] = work[k] /\ jobs'[k] = jobs[k]
    BY <1>1 DEF JobInv, Typed
<1>4. Active(j)' /\ Active(j)
    BY <1>2 DEF JobInv, OneActive, Active
<1>3. work' \in [Jobs -> Task]
    BY DEF JobInv, Typed
<1> QED
    BY <1>2, <1>3, <1>4 DEF JobInv, Typed, StepOf

\* A step that takes a file: the job goes on, and its row stays.
LEMMA Took ==
    ASSUME JobInv, NEW j \in Jobs, work[j].step \in Busy, up, up' = up, jobs' = jobs,
           disk' = disk, docs' \in [Files -> Doc], NEW w \in Task, work' = [work EXCEPT ![j] = w]
    PROVE  Typed' /\ StepOf(j) /\ Active(j)'
<1>1. Active(j)' /\ Active(j)
    BY DEF JobInv, OneActive, Active
<1>2. \A k \in Jobs \ {j} : work'[k] = work[k]
    BY DEF JobInv, Typed
<1>3. work' \in [Jobs -> Task]
    BY DEF JobInv, Typed
<1> QED
    BY <1>1, <1>2, <1>3 DEF JobInv, Typed, StepOf

\* The first steps of a job, and how it ends.
LEMMA RunStep ==
    ASSUME JobInv, NEW j \in Jobs,
           \/ Begin(j) \/ SaveRunning(j) \/ Scan(j) \/ Fail(j) \/ StopCancelled(j)
           \/ EndCancelled(j) \/ Complete(j)
    PROVE  Typed' /\ StepOf(j)
<1> USE DEF counters, index
<1>1. CASE Begin(j)
    <2> DEFINE w == [work[j] EXCEPT !.step = IF source.status = "active" THEN "read" ELSE "dead",
                                    !.cancel = jobs[j].cancel]
    <2>1. work[j] \in Task /\ jobs[j].cancel \in BOOLEAN
        BY DEF JobInv, Typed, Row
    <2>2. w \in Task
        BY <2>1, TaskType, StepsAre
    <2>3. work' = [work EXCEPT ![j] = w]
        BY <1>1 DEF Begin, JobInv, Typed
    <2>4. /\ work[j].step \in Busy /\ up /\ up' = up /\ jobs' = jobs /\ disk' = disk
          /\ docs' \in [Files -> Doc]
        BY <1>1 DEF Begin, Busy, JobInv, Typed
    <2> HIDE DEF w
    <2> QED
        BY <2>2, <2>3, <2>4, Took
<1>2. CASE SaveRunning(j)
    <2> DEFINE r == [jobs[j] EXCEPT !.status = "running", !.cancel = work[j].cancel]
    <2>0. r \in Row /\ r.status = "running"
        BY DEF JobInv, Typed, Row, Task
    <2>4. jobs' = [jobs EXCEPT ![j] = r]
        BY <1>2 DEF SaveRunning, JobInv, Typed
    <2>1. jobs' \in [Jobs -> Row] /\ Active(j)' /\ \A k \in Jobs \ {j} : jobs'[k] = jobs[k]
        BY <2>0, <2>4 DEF JobInv, Typed, Active
    <2>2. Active(j)
        BY <1>2 DEF SaveRunning, JobInv, OneActive, Busy
    <2>3. work' \in [Jobs -> Task] /\ \A k \in Jobs \ {j} : work'[k] = work[k]
        BY <1>2, TaskType, StepsAre DEF SaveRunning, To, JobInv, Typed
    <2> QED
        BY <1>2, <2>1, <2>2, <2>3 DEF SaveRunning, JobInv, Typed, StepOf
<1>3. CASE Scan(j)
    <2> DEFINE known == [f \in Files |-> IF docs[f].status = "active" THEN docs[f].hash
                                                                      ELSE Absent]
               w == [work[j] EXCEPT !.step = "loop", !.seen = disk,
                                    !.todo = {f \in Files : disk[f] # Absent}, !.known = known]
    <2>1. known \in [Files -> Disk]
        BY DEF JobInv, Typed, Doc, Disk
    <2>2. work[j] \in Task /\ disk \in [Files -> Disk] /\ "loop" \in Steps
        BY StepsAre DEF JobInv, Typed
    <2>3. w \in Task
        BY <2>1, <2>2 DEF Task
    <2>4. work' = [work EXCEPT ![j] = w]
        BY <1>3 DEF Scan, JobInv, Typed
    <2> QED
        BY <1>3, <2>3, <2>4, Took DEF Scan, Busy, JobInv, Typed
<1>4. CASE Fail(j)
    <2>1. /\ jobs' \in [Jobs -> Row] /\ ~Active(j)'
          /\ \A k \in Jobs \ {j} : jobs'[k] = jobs[k]
        BY <1>4 DEF Fail, JobInv, Typed, Row, Active, Ended
    <2> QED
        BY <1>4, <2>1, EndedJob DEF Fail
<1>5. CASE StopCancelled(j)
    <2>1. /\ jobs' \in [Jobs -> Row] /\ ~Active(j)'
          /\ \A k \in Jobs \ {j} : jobs'[k] = jobs[k]
        BY <1>5 DEF StopCancelled, JobInv, Typed, Row, Active, Ended
    <2> QED
        BY <1>5, <2>1, EndedJob DEF StopCancelled
<1>6. CASE EndCancelled(j)
    BY <1>6, EndedJob DEF EndCancelled, JobInv, Typed, Active
<1>7. CASE Complete(j)
    <2>1. /\ jobs' \in [Jobs -> Row] /\ ~Active(j)'
          /\ \A k \in Jobs \ {j} : jobs'[k] = jobs[k]
        BY <1>7 DEF Complete, JobInv, Typed, Row, Active, Ended
    <2> QED
        BY <1>7, <2>1, EndedJob DEF Complete
<1> QED
    BY <1>1, <1>2, <1>3, <1>4, <1>5, <1>6, <1>7

\* The steps of a job on a file.
LEMMA FileStep ==
    ASSUME JobInv, NEW j \in Jobs,
           \/ SaveChunks(j) \/ SavePending(j) \/ Upsert(j) \/ EmbedFails(j) \/ MarkIndexed(j)
           \/ ReplaceDocument(j) \/ SupersedeOld(j) \/ DeletePoints(j) \/ FileFails(j)
           \/ MarkMissing(j)
    PROVE  Typed' /\ StepOf(j) /\ Active(j)'
<1> USE DEF counters, index
<1>0. /\ work[j] \in Task /\ docs \in [Files -> Doc]
      /\ {"embed", "upsert", "mark", "replace", "supersede", "unpoint", "loop"} \subseteq Steps
      /\ {"chunks", "embed", "upsert", "mark", "replace", "supersede", "unpoint", "tidy"}
             \subseteq Busy
    BY StepsAre DEF JobInv, Typed, Busy, InFile
<1>1. CASE SaveChunks(j)
    BY <1>0, <1>1, Moved DEF SaveChunks
<1>2. CASE SavePending(j)
    BY <1>0, <1>2, Moved DEF SavePending
<1>3. CASE Upsert(j)
    BY <1>0, <1>3, Moved DEF Upsert
<1>4. CASE EmbedFails(j)
    <2>1. [work[j] EXCEPT !.step = "loop"] \in Task
        BY <1>0, TaskType
    <2> QED
        BY <1>0, <1>4, <2>1, Counted DEF EmbedFails, To, JobInv, Typed
<1>5. CASE MarkIndexed(j)
    BY <1>0, <1>5, Moved DEF MarkIndexed
<1>6. CASE ReplaceDocument(j)
    <2>1. work[j].file \in Files /\ work[j].seen[work[j].file] \in Disk
        BY <1>0 DEF Task
    <2>2. docs' \in [Files -> Doc]
        BY <1>0, <1>6, <2>1 DEF ReplaceDocument, Doc
    <2> QED
        BY <1>0, <1>6, <2>2, Moved DEF ReplaceDocument
<1>7. CASE SupersedeOld(j)
    BY <1>0, <1>7, Moved DEF SupersedeOld
<1>8. CASE DeletePoints(j)
    BY <1>0, <1>8, Moved DEF DeletePoints
<1>9. CASE FileFails(j)
    <2>1. [work[j] EXCEPT !.step = "loop"] \in Task
        BY <1>0, TaskType
    <2> QED
        BY <1>0, <1>9, <2>1, Counted DEF FileFails, To, JobInv, Typed, Busy
<1>10. CASE MarkMissing(j)
    <2>1. work[j].file \in Files
        BY <1>0 DEF Task
    <2>2. docs' \in [Files -> Doc]
        BY <1>0, <1>10, <2>1 DEF MarkMissing, Doc
    <2> QED
        BY <1>0, <1>10, <2>2, Moved DEF MarkMissing
<1> QED
    BY <1>1, <1>2, <1>3, <1>4, <1>5, <1>6, <1>7, <1>8, <1>9, <1>10

\* The steps with which a job takes a file.
LEMMA TakeStep ==
    ASSUME JobInv, NEW j \in Jobs, NEW f \in Files,
           \/ TakeUnchanged(j, f) \/ TakeModified(j, f) \/ TakeNew(j, f) \/ RefuseFile(j, f)
           \/ SupersedeGone(j, f)
    PROVE  Typed' /\ StepOf(j) /\ Active(j)'
<1> USE DEF counters, index
<1>0. /\ work[j] \in Task /\ docs \in [Files -> Doc] /\ disk[f] \in Disk
      /\ {"embed", "chunks", "loop", "tidy"} \subseteq Steps
      /\ "loop" \in Busy
      /\ ActiveChunks(f) \in SUBSET Jobs
    BY StepsAre DEF JobInv, Typed, Busy, ActiveChunks
<1>1. CASE TakeUnchanged(j, f)
    <2> DEFINE w == [work[j] EXCEPT !.todo = @ \ {f}, !.file = f,
                                    !.step = IF NeedEmbedding(f) = {} THEN "loop" ELSE "embed"]
    <2>1. w \in Task
        BY <1>0 DEF Task
    <2>2. /\ work' = [work EXCEPT ![j] = w]
          /\ work[j].step \in Busy /\ up /\ up' = up /\ jobs' = jobs /\ disk' = disk
          /\ docs' \in [Files -> Doc]
        BY <1>0, <1>1 DEF TakeUnchanged, Takes, JobInv, Typed
    <2> HIDE DEF w
    <2> QED
        BY <2>1, <2>2, Took
<1>2. CASE TakeModified(j, f)
    <2> DEFINE w == [work[j] EXCEPT !.todo = @ \ {f}, !.file = f, !.step = "embed",
                                    !.old = ActiveChunks(f)]
    <2>1. w \in Task
        BY <1>0 DEF Task
    <2>2. /\ work' = [work EXCEPT ![j] = w]
          /\ work[j].step \in Busy /\ up /\ up' = up /\ jobs' = jobs /\ disk' = disk
          /\ docs' \in [Files -> Doc]
        BY <1>0, <1>2 DEF TakeModified, Takes, JobInv, Typed
    <2> HIDE DEF w
    <2> QED
        BY <2>1, <2>2, Took
<1>3. CASE TakeNew(j, f)
    <2> DEFINE w == [work[j] EXCEPT !.todo = @ \ {f}, !.file = f, !.step = "chunks",
                                    !.text = disk[f], !.old = {}]
    <2>1. w \in Task
        BY <1>0 DEF Task
    <2>2. work[j].seen[f] \in Disk
        BY <1>0 DEF Task
    <2>3. docs' \in [Files -> Doc]
        BY <1>0, <1>3, <2>2 DEF TakeNew, Doc
    <2>4. /\ work' = [work EXCEPT ![j] = w]
          /\ work[j].step \in Busy /\ up /\ up' = up /\ jobs' = jobs /\ disk' = disk
        BY <1>0, <1>3 DEF TakeNew, Takes, JobInv, Typed
    <2> HIDE DEF w
    <2> QED
        BY <2>1, <2>3, <2>4, Took
<1>4. CASE RefuseFile(j, f)
    <2> DEFINE w == [work[j] EXCEPT !.todo = @ \ {f}]
    <2>1. w \in Task
        BY <1>0 DEF Task
    <2>2. /\ work' = [work EXCEPT ![j] = w]
          /\ work[j].step \in Busy /\ up /\ up' = up /\ disk' = disk /\ docs' = docs
          /\ jobs' = [jobs EXCEPT ![j].failed = TRUE]
        BY <1>0, <1>4 DEF RefuseFile, Takes, JobInv, Typed
    <2> HIDE DEF w
    <2> QED
        BY <2>1, <2>2, Counted
<1>5. CASE SupersedeGone(j, f)
    <2> DEFINE w == [work[j] EXCEPT !.step = "tidy", !.file = f, !.old = ActiveChunks(f)]
    <2>1. w \in Task
        BY <1>0, TaskType
    <2>2. /\ work' = [work EXCEPT ![j] = w]
          /\ work[j].step \in Busy /\ up /\ up' = up /\ jobs' = jobs /\ disk' = disk
          /\ docs' \in [Files -> Doc]
        BY <1>0, <1>5 DEF SupersedeGone, JobInv, Typed
    <2> HIDE DEF w
    <2> QED
        BY <2>1, <2>2, Took
<1> QED
    BY <1>1, <1>2, <1>3, <1>4, <1>5

-------------------------------------------------------------------------------
(* Who works *)

LEMMA JobStep ==
    ASSUME JobInv, NEW j \in Jobs, OfJob(j)
    PROVE  Typed' /\ StepOf(j)
BY RunStep, FileStep, TakeStep DEF OfJob

\* A job is created when no other is active: none is at work then.
LEMMA Queued ==
    ASSUME JobInv, up, up' = up, disk' = disk, docs' = docs,
           Available, NEW j \in NextId, Queue(j)
    PROVE  JobInv'
<1>1. j \in Jobs /\ \A k \in Jobs : ~Active(k)
    BY DEF Available, ActiveJobs, NextId, Active
<1>2. [jobs[j] EXCEPT !.status = "queued"] \in Row
    BY <1>1 DEF JobInv, Typed, Row
<1>3. [work[j] EXCEPT !.step = "task"] \in Task
    BY <1>1, TaskType, StepsAre DEF JobInv, Typed
<1>4. /\ jobs' \in [Jobs -> Row] /\ work' \in [Jobs -> Task]
      /\ \A k \in Jobs \ {j} : work'[k] = work[k] /\ jobs'[k] = jobs[k]
    BY <1>1, <1>2, <1>3 DEF JobInv, Typed, Queue
<1>5. Active(j)'
    BY <1>1, <1>2 DEF JobInv, Typed, Queue, Active, Row
<1>6. \A k \in Jobs \ {j} : ~Active(k)' /\ work'[k].step \notin Busy
    BY <1>1, <1>4 DEF JobInv, OneActive, Active
<1> QED
    BY <1>4, <1>5, <1>6 DEF JobInv, Typed, OneActive

\* Every step keeps one active job.
LEMMA NextInv == JobInv /\ [Next]_vars => JobInv'
<1> SUFFICES ASSUME JobInv, [Next]_vars PROVE JobInv'
    OBVIOUS
<1> USE DEF counters, index
<1>1. CASE UNCHANGED vars
    BY <1>1 DEF vars, JobInv, Typed, OneActive, Active
<1>2. CASE IndexNow
    BY <1>2, Queued DEF IndexNow
<1>3. CASE Poll
    <2>1. CASE UNCHANGED <<jobs, work>>
        BY <1>3, <2>1 DEF Poll, JobInv, Typed, OneActive, Active
    <2>2. CASE ~UNCHANGED <<jobs, work>>
        <3>1. Available /\ \E j \in NextId : Queue(j)
            BY <1>3, <2>2 DEF Poll, Notify
        <3> QED
            BY <1>3, <3>1, Queued DEF Poll
    <2> QED
        BY <2>1, <2>2
<1>4. CASE Detach \/ Attach \/ \E s \in {"active", "detached"} : SetPayload(s)
    BY <1>4 DEF Detach, Attach, SetPayload, JobInv, Typed, OneActive, Active
<1>5. CASE Crash
    <2>1. [Idle EXCEPT !.step = "dead"] \in Task
        BY IdleType, StepsAre
    <2>2. [Idle EXCEPT !.step = "dead"].step = "dead"
        BY DEF Idle
    <2>3. work' \in [Jobs -> Task]
        BY <1>5, <2>1 DEF Crash, JobInv, Typed
    <2>4. \A j \in Jobs : work'[j].step \in {"none", "done", "dead"}
        BY <1>5, <2>2 DEF Crash
    <2>5. \A j \in Jobs : Active(j)' = Active(j)
        BY <1>5 DEF Crash, Active
    <2> QED
        BY <1>5, <2>3, <2>4, <2>5 DEF Crash, JobInv, Typed, OneActive, Busy, InFile
<1>6. CASE Restart
    <2>1. \A j \in Jobs : work'[j].step \notin Busy
        BY <1>6 DEF Restart, JobInv, OneActive
    <2>2. \A j \in Jobs : jobs'[j] = [jobs[j] EXCEPT !.status =
                                          IF j \in ActiveJobs THEN "interrupted" ELSE @]
        BY <1>6 DEF Restart
    <2>3. ASSUME NEW j \in Jobs
          PROVE  jobs'[j] \in Row /\ ~Active(j)'
        <3>1. jobs[j] \in Row
            BY DEF JobInv, Typed
        <3>2. CASE j \in ActiveJobs
            <4>1. jobs'[j] = [jobs[j] EXCEPT !.status = "interrupted"]
                BY <2>2, <3>2
            <4> QED
                BY <3>1, <4>1 DEF Row, Ended, Active
        <3>3. CASE j \notin ActiveJobs
            <4>1. jobs'[j] = [jobs[j] EXCEPT !.status = @]
                BY <2>2, <3>3
            <4> QED
                BY <3>1, <3>3, <4>1 DEF Row, Active, ActiveJobs
        <3> QED
            BY <3>2, <3>3
    <2>4. jobs' \in [Jobs -> Row]
        BY <1>6, <2>3 DEF Restart
    <2> QED
        BY <1>6, <2>1, <2>3, <2>4 DEF Restart, JobInv, Typed, OneActive
<1>7. ASSUME NEW j \in Jobs, Cancel(j)
      PROVE  JobInv'
    <2>1. [jobs[j] EXCEPT !.cancel = TRUE] \in Row
        BY DEF JobInv, Typed, Row
    <2>2. jobs' \in [Jobs -> Row] /\ \A k \in Jobs : jobs'[k].status = jobs[k].status
        BY <1>7, <2>1 DEF Cancel, JobInv, Typed, Row
    <2>3. \A k \in Jobs : Active(k)' = Active(k)
        BY <2>2 DEF Active
    <2> QED
        BY <1>7, <2>2, <2>3 DEF Cancel, JobInv, Typed, OneActive
<1>8. ASSUME NEW j \in Jobs, OfJob(j)
      PROVE  JobInv'
    <2>1. Typed' /\ StepOf(j)
        BY <1>8, JobStep
    <2>2. \A k \in Jobs : Active(k)' => Active(k)
        BY <2>1 DEF StepOf, Active
    <2>3. \A k \in Jobs : work'[k].step \in Busy => up' /\ Active(k)'
        BY <2>1 DEF StepOf, JobInv, OneActive, Active
    <2> QED
        BY <2>1, <2>2, <2>3 DEF JobInv, OneActive
<1>9. ASSUME NEW f \in Files, NEW v \in Disk, Edit(f, v)
      PROVE  JobInv'
    BY <1>9 DEF Edit, JobInv, Typed, OneActive, Active
<1> QED
    BY <1>1, <1>2, <1>3, <1>4, <1>5, <1>6, <1>7, <1>8, <1>9 DEF Next

LEMMA JobsAreSound == Spec => []JobInv
BY InitInv, NextInv, PTL DEF Spec

\* No two jobs work on the index of a folder at a time, whoever queued them: the
\* handler of POST sources/{id}/index or the watcher's poll.  The active row that
\* each looks for under the lock is there for as long as a job works, also after a
\* cancel request, a job that fails and a restart of the sidecar.
THEOREM OneJobAtATime == Spec => []OneJob
<1>1. JobInv => OneJob
    BY DEF JobInv, OneActive, OneJob, Busy
<1> QED
    BY <1>1, JobsAreSound, PTL

-------------------------------------------------------------------------------
(* How the folder is shown *)

Source == [status : {"active", "detached"}, scan : {"queued", "scanning", "ready", "error"}]

Unreported(j) == jobs[j].status = "cancelled" /\ work[j].step # "done"

\* A folder that is shown as being scanned has a job that will say otherwise,
\* or one that was cancelled and has not said so yet.
Scanned == source.scan = "scanning" => \E j \in Jobs : Active(j) \/ Unreported(j)

ScanInv == source \in Source /\ Scanned

\* A step of a job leaves it active, or unreported, or the folder as not scanned.
LEMMA ScanStep ==
    ASSUME JobInv, source \in Source, NEW j \in Jobs, OfJob(j)
    PROVE  /\ source' \in Source
           /\ Active(j)' \/ source'.scan # "scanning"
                         \/ (source' = source /\ Unreported(j)')
<1>1. CASE \/ SaveChunks(j) \/ SavePending(j) \/ Upsert(j) \/ EmbedFails(j) \/ MarkIndexed(j)
           \/ ReplaceDocument(j) \/ SupersedeOld(j) \/ DeletePoints(j) \/ FileFails(j)
           \/ MarkMissing(j)
    <2>1. source' = source
        BY <1>1 DEF SaveChunks, SavePending, Upsert, EmbedFails, MarkIndexed, ReplaceDocument,
                    SupersedeOld, DeletePoints, FileFails, MarkMissing
    <2> QED
        BY <1>1, <2>1, FileStep
<1>2. ASSUME NEW f \in Files,
             \/ TakeUnchanged(j, f) \/ TakeModified(j, f) \/ TakeNew(j, f) \/ RefuseFile(j, f)
             \/ SupersedeGone(j, f)
      PROVE  source' = source /\ Active(j)'
    <2>1. source' = source
        BY <1>2 DEF TakeUnchanged, TakeModified, TakeNew, RefuseFile, SupersedeGone
    <2> QED
        BY <1>2, <2>1, TakeStep
<1>3. CASE Begin(j) \/ Scan(j)
    <2>1. Active(j)' = Active(j) /\ source' = source
        BY <1>3 DEF Begin, Scan, Active
    <2>2. Active(j)
        BY <1>3 DEF Begin, Scan, JobInv, OneActive, Busy
    <2> QED
        BY <2>1, <2>2
<1>4. CASE SaveRunning(j)
    <2>1. source' \in Source
        BY <1>4 DEF SaveRunning, Source
    <2>2. work'[j].step = "scan"
        BY <1>4 DEF SaveRunning, To, JobInv, Typed, Task
    <2>3. StepOf(j)
        BY <1>4, RunStep
    <2> QED
        BY <2>1, <2>2, <2>3 DEF StepOf, Busy
<1>5. CASE Fail(j) \/ Complete(j) \/ EndCancelled(j)
    BY <1>5 DEF Fail, Complete, EndCancelled, Source
<1>6. CASE StopCancelled(j)
    <2>1. source' = source
        BY <1>6 DEF StopCancelled
    <2>2. jobs'[j].status = "cancelled"
        BY <1>6 DEF StopCancelled, JobInv, Typed, Row
    <2>3. work'[j] = [Idle EXCEPT !.step = "cancelling"]
        BY <1>6 DEF StopCancelled, End, JobInv, Typed
    <2>4. work'[j].step = "cancelling"
        BY <2>3 DEF Idle
    <2> QED
        BY <2>1, <2>2, <2>4 DEF Unreported
<1> QED
    BY <1>1, <1>2, <1>3, <1>4, <1>5, <1>6 DEF OfJob

LEMMA ScanNext == JobInv /\ ScanInv /\ [Next]_vars => ScanInv'
<1> SUFFICES ASSUME JobInv, ScanInv, [Next]_vars PROVE ScanInv'
    OBVIOUS
<1> USE DEF counters, index, ScanInv
<1>1. ASSUME UNCHANGED <<source, jobs, work>>
      PROVE  ScanInv'
    BY <1>1 DEF Scanned, Active, Unreported
<1>2. ASSUME Available, NEW j \in NextId, Queue(j), source' = source
      PROVE  ScanInv'
    <2>1. j \in Jobs /\ jobs[j] \in Row
        BY DEF NextId, JobInv, Typed
    <2>2. jobs'[j] = [jobs[j] EXCEPT !.status = "queued"]
        BY <1>2, <2>1 DEF Queue, JobInv, Typed
    <2>3. Active(j)'
        BY <2>1, <2>2 DEF Active, Row
    <2> QED
        BY <1>2, <2>1, <2>3 DEF Scanned
<1>3. CASE UNCHANGED vars
    BY <1>1, <1>3 DEF vars
<1>4. CASE IndexNow
    BY <1>2, <1>4 DEF IndexNow
<1>5. CASE Poll
    <2>1. source' = source /\ (UNCHANGED <<jobs, work>> \/ Notify)
        BY <1>5 DEF Poll
    <2> QED
        BY <1>1, <1>2, <2>1 DEF Notify
<1>6. CASE Detach
    <2>1. source' \in Source /\ source'.scan = source.scan /\ UNCHANGED <<jobs, work>>
        BY <1>6 DEF Detach, SetSource, Source
    <2> QED
        BY <2>1 DEF Scanned, Active, Unreported
<1>7. CASE Attach
    BY <1>7 DEF Attach, SetSource, Source, Scanned
<1>8. CASE \E s \in {"active", "detached"} : SetPayload(s)
    BY <1>1, <1>8 DEF SetPayload
<1>9. CASE Crash
    <2>1. source' = source /\ \A j \in Jobs : Active(j)' = Active(j)
        BY <1>9 DEF Crash, Active
    <2>2. ASSUME NEW j \in Jobs, Unreported(j)
          PROVE  Unreported(j)'
        <3>1. work'[j] = work[j] \/ work'[j] = [Idle EXCEPT !.step = "dead"]
            BY <1>9 DEF Crash
        <3>2. work'[j].step # "done"
            BY <2>2, <3>1 DEF Idle, Unreported
        <3> QED
            BY <1>9, <2>2, <3>2 DEF Crash, Unreported
    <2> QED
        BY <2>1, <2>2 DEF Scanned
<1>10. CASE Restart
    <2>1. CASE ActiveJobs = {}
        <3>1. \A j \in Jobs : jobs'[j] = [jobs[j] EXCEPT !.status = @] /\ ~Active(j)
            BY <1>10, <2>1 DEF Restart, ActiveJobs, Active
        <3>2. \A j \in Jobs : jobs[j] \in Row
            BY DEF JobInv, Typed
        <3>3. \A j \in Jobs : jobs'[j].status = jobs[j].status
            BY <3>1, <3>2 DEF Row
        <3>4. source' = [source EXCEPT !.scan = @] /\ work' = work
            BY <1>10, <2>1 DEF Restart
        <3>5. source' = source
            BY <3>4 DEF Source
        <3> QED
            BY <3>3, <3>4, <3>5 DEF Scanned, Active, Unreported
    <2>2. CASE ActiveJobs # {}
        <3>1. source' = [source EXCEPT !.scan = "error"]
            BY <1>10, <2>2 DEF Restart
        <3> QED
            BY <3>1 DEF Source, Scanned
    <2> QED
        BY <2>1, <2>2
<1>11. ASSUME NEW j \in Jobs, Cancel(j)
       PROVE  ScanInv'
    <2>1. \A k \in Jobs : jobs'[k].status = jobs[k].status
        BY <1>11 DEF Cancel, JobInv, Typed, Row
    <2> QED
        BY <1>11, <2>1 DEF Cancel, Scanned, Active, Unreported
<1>12. ASSUME NEW j \in Jobs, OfJob(j)
       PROVE  ScanInv'
    <2>1. source' \in Source
        BY <1>12, ScanStep
    <2>2. CASE Active(j)' \/ source'.scan # "scanning" \/ Unreported(j)'
        BY <2>1, <2>2 DEF Scanned
    <2> QED
        BY <1>12, <2>2, ScanStep
<1>13. ASSUME NEW f \in Files, NEW v \in Disk, Edit(f, v)
       PROVE  ScanInv'
    BY <1>1, <1>13 DEF Edit
<1> QED
    BY <1>3, <1>4, <1>5, <1>6, <1>7, <1>8, <1>9, <1>10, <1>11, <1>12, <1>13 DEF Next

\* When no job is left, the folder is not shown as being scanned: however its last
\* job ended, the end, the restart that interrupted it or the folder's return says so.
THEOREM ScanningEnds == Spec => []ScanEnds
<1>1. Init => ScanInv
    BY DEF Init, ScanInv, Source, Scanned
<1>2. JobInv /\ ScanInv => ScanEnds
    BY DEF ScanInv, Scanned, ScanEnds, ActiveJobs, Active, Unreported
<1> QED
    BY <1>1, <1>2, JobsAreSound, ScanNext, PTL DEF Spec

-------------------------------------------------------------------------------
(* The index of each file: the invariant *)

Chunk == [text : Disk, status : {"none", "active", "superseded"},
          embedding : {"none", "pending", "indexed", "error"},
          point : {"none", "active", "detached"}]

\* The rest of TypeOK.
RestTyped ==
    /\ chunks \in [Jobs -> [Files -> Chunk]]
    /\ watcher \in [signature : {"unknown", "same", "differs"}, pending : BOOLEAN, polled : BOOLEAN]
    /\ payload \subseteq {"active", "detached"}
    /\ up \in BOOLEAN /\ unscanned \in BOOLEAN /\ overlapped \in BOOLEAN
    /\ raced \subseteq Files /\ torn \subseteq Files /\ hollow \subseteq Files

\* The steps after the folder was scanned.
Looking == InFile \union {"loop", "tidy"}

\* The jobs are created one after the other, and the active one is the latest.
Latest(j) == \A k \in Jobs : k > j => jobs[k].status = "none"
OrderInv ==
    /\ \A j \in Jobs : jobs[j].status = "none" => work[j].step = "none"
    /\ \A j, k \in Jobs : j < k /\ jobs[k].status # "none" => jobs[j].status # "none"
    /\ \A j \in Jobs : Active(j) => Latest(j)

\* Who is to set the payload sets it to what the folder is; and so it has been set.
PointsInv ==
    ~overlapped => /\ payload \subseteq {source.status}
                   /\ source.status = "active" /\ payload = {} =>
                         \A j \in Jobs, f \in Files : chunks[j][f].point # "detached"

\* Where job j is; and what f is to it.
At(j, f, steps) == work[j].step \in steps /\ work[j].file = f
IsNew(j, f)      == work[j].known[f] = Absent
IsModified(j, f) == Known(j, f) /\ ~Unchanged(j, f)

\* The document of f is that of text v, and searchable.
Searchable(f, v) ==
    /\ docs[f].status = "active" /\ docs[f].hash = v
    /\ \A k \in Jobs : chunks[k][f].status = "active" => chunks[k][f].embedding = "indexed"

HasText(f) == \E k \in Jobs : chunks[k][f].status = "active" /\ chunks[k][f].text = docs[f].hash

\* The rows of a file, and its points.
Stored(f) ==
    /\ docs[f].status = "active" => docs[f].hash # Absent
    /\ docs[f].status = "none" => \A k \in Jobs : chunks[k][f].status = "none"
    /\ \A k \in Jobs : chunks[k][f].status = "active" /\ chunks[k][f].embedding = "indexed"
                          => chunks[k][f].point # "none"
    /\ f \notin raced \union hollow /\ docs[f].status = "active"
          /\ (\A j \in Jobs : ~At(j, f, {"chunks", "tidy"})) => HasText(f)

\* Superseded chunks keep their points for as long as a job is about to delete them.
Dying(f) ==
    \A k \in Jobs : chunks[k][f].status = "superseded" /\ chunks[k][f].point # "none" =>
        \/ f \in torn
        \/ \E j \in Jobs : At(j, f, {"unpoint", "tidy"}) /\ k \in work[j].old

\* The active chunks are of the document's text but those of the version that a job is
\* putting in its place.
Agreed(f) ==
    f \notin raced \union torn => \A k \in Jobs : chunks[k][f].status = "active" =>
        \/ chunks[k][f].text = docs[f].hash
        \/ \E j \in Jobs : \/ k = j /\ At(j, f, {"embed", "upsert", "mark", "replace"})
                                    /\ IsModified(j, f)
                           \/ k \in work[j].old /\ At(j, f, {"supersede"})

\* Job j has not stored a chunk of f yet.
Fresh(j, f) ==
    \/ work[j].step \in {"none", "task", "read", "scan"}
    \/ At(j, f, {"chunks"})
    \/ work[j].step \in Looking /\ f \in work[j].todo
    => chunks[j][f].status = "none"

\* What job j knows of f after its scan.
Planned(j, f) == work[j].step \in Looking =>
    /\ f \notin raced \/ ~unscanned => work[j].seen[f] = disk[f]
    /\ f \in work[j].todo =>
          /\ work[j].seen[f] # Absent
          /\ work[j].known[f] = IF docs[f].status = "active" THEN docs[f].hash ELSE Absent
    /\ work[j].seen[f] = Absent /\ work[j].known[f] = Absent => docs[f].status # "active"
    /\ f \notin work[j].todo /\ work[j].seen[f] # Absent /\ ~At(j, f, InFile)
          /\ ~jobs[j].failed => Searchable(f, work[j].seen[f])

\* The chunk of job j is the new version, beside those in old.
Beside(j, f, old) ==
    /\ \A k \in Jobs : chunks[k][f].status = "active" <=> k \in old \union {j}
    /\ j \notin old
    /\ f \notin raced => chunks[j][f].text = work[j].seen[f]

\* The new version is found if an older one is.
Leads(j, f) == (\E k \in Jobs : chunks[k][f].point = "active") => chunks[j][f].point = "active"

InFileInv(j, f) == At(j, f, InFile) =>
    /\ f \notin work[j].todo /\ work[j].seen[f] # Absent /\ docs[f].status = "active"
    /\ work[j].step = "chunks" =>
          /\ IsNew(j, f) /\ docs[f].hash = work[j].seen[f]
          /\ \A k \in Jobs : chunks[k][f].status # "active"
          /\ f \notin raced => work[j].text = work[j].seen[f]
    /\ work[j].step \in {"embed", "upsert", "mark"} =>
          /\ docs[f].hash = IF IsNew(j, f) THEN work[j].seen[f] ELSE work[j].known[f]
          /\ IsNew(j, f) => Beside(j, f, {})
          /\ IsModified(j, f) => Beside(j, f, work[j].old)
    /\ work[j].step = "mark" =>
          /\ \A k \in Batch(j, f) : chunks[k][f].point # "none"
          /\ IsModified(j, f) => Leads(j, f)
    /\ work[j].step \in {"replace", "supersede", "unpoint"} =>
          /\ IsModified(j, f)
          /\ chunks[j][f].embedding = "indexed"
          /\ docs[f].hash = IF work[j].step = "replace" THEN work[j].known[f] ELSE work[j].seen[f]
    /\ work[j].step \in {"replace", "supersede"} => Beside(j, f, work[j].old) /\ Leads(j, f)
    /\ work[j].step = "unpoint" => Beside(j, f, {}) /\ j \notin work[j].old

TidyInv(j, f) == At(j, f, {"tidy"}) =>
    /\ work[j].todo = {} /\ work[j].seen[f] = Absent /\ docs[f].status = "active"
    /\ \A k \in Jobs : chunks[k][f].status # "active"

\* The latest job, when it completed without a failed file, left f searchable.
Finished(j, f) ==
    jobs[j].status = "completed" /\ ~jobs[j].failed /\ Latest(j) /\ ~unscanned =>
        IF disk[f] = Absent THEN docs[f].status # "active" ELSE Searchable(f, disk[f])

JobGood(j, f) ==
    Fresh(j, f) /\ Planned(j, f) /\ InFileInv(j, f) /\ TidyInv(j, f) /\ Finished(j, f)

Good(f) == Stored(f) /\ Dying(f) /\ Agreed(f) /\ \A j \in Jobs : JobGood(j, f)

KInv == JobInv /\ ScanInv /\ RestTyped /\ OrderInv /\ PointsInv /\ \A f \in Files : Good(f)

-------------------------------------------------------------------------------
(* What the writes do to the chunks *)

Statuses   == {"none", "active", "superseded"}
Embeddings == {"none", "pending", "indexed", "error"}
Points     == {"none", "active", "detached"}

\* The fields of a chunk that is changed in one of them.
LEMMA ChunkFields ==
    ASSUME NEW c \in Chunk
    PROVE  /\ c.text \in Disk /\ c.status \in Statuses
           /\ c.embedding \in Embeddings /\ c.point \in Points
           /\ \A e \in Embeddings : LET d == [c EXCEPT !.embedding = e] IN
                 d \in Chunk /\ d.text = c.text /\ d.status = c.status /\ d.embedding = e
                     /\ d.point = c.point
           /\ \A s \in Statuses : LET d == [c EXCEPT !.status = s] IN
                 d \in Chunk /\ d.text = c.text /\ d.status = s /\ d.embedding = c.embedding
                     /\ d.point = c.point
           /\ \A p \in Points : LET d == [c EXCEPT !.point = p] IN
                 d \in Chunk /\ d.text = c.text /\ d.status = c.status
                     /\ d.embedding = c.embedding /\ d.point = p
BY DEF Chunk, Statuses, Embeddings, Points

\* Two chunks that differ at most in the fields named.
SameBut(c, d, fields) ==
    /\ "text" \in fields \/ c.text = d.text
    /\ "status" \in fields \/ c.status = d.status
    /\ "embedding" \in fields \/ c.embedding = d.embedding
    /\ "point" \in fields \/ c.point = d.point

\* Only the chunks of f change, and they only in the fields named.
ChangesIn(f, fields) ==
    /\ chunks' \in [Jobs -> [Files -> Chunk]]
    /\ \A k \in Jobs, g \in Files \ {f} : chunks'[k][g] = chunks[k][g]
    /\ \A k \in Jobs : SameBut(chunks[k][f], chunks'[k][f], fields)

LEMMA EmbeddingFacts ==
    ASSUME RestTyped, NEW j \in Jobs, NEW f \in Files, NEW e \in Embeddings,
           chunks' = WithEmbedding(j, f, e)
    PROVE  /\ ChangesIn(f, {"embedding"})
           /\ \A k \in Jobs : chunks'[k][f].embedding =
                                  IF k \in Batch(j, f) THEN e ELSE chunks[k][f].embedding
<1> DEFINE new(k) == IF k \in Batch(j, f) THEN e ELSE chunks[k][f].embedding
           row(k) == [chunks[k] EXCEPT ![f] = [chunks[k][f] EXCEPT !.embedding = new(k)]]
<1>1. \A k \in Jobs : chunks[k] \in [Files -> Chunk] /\ chunks[k][f] \in Chunk
    BY DEF RestTyped
<1>2. \A k \in Jobs : new(k) \in Embeddings
    BY <1>1, ChunkFields
<1>3. chunks' = [k \in Jobs |-> row(k)]
    BY <1>1 DEF WithEmbedding
<1> HIDE DEF new
<1>4. \A k \in Jobs : /\ [chunks[k][f] EXCEPT !.embedding = new(k)] \in Chunk
                      /\ chunks'[k][f] = [chunks[k][f] EXCEPT !.embedding = new(k)]
                      /\ chunks'[k] \in [Files -> Chunk]
                      /\ \A g \in Files \ {f} : chunks'[k][g] = chunks[k][g]
    BY <1>1, <1>2, <1>3, ChunkFields
<1>5. ASSUME NEW k \in Jobs
      PROVE  SameBut(chunks[k][f], chunks'[k][f], {"embedding"}) /\ chunks'[k][f].embedding = new(k)
    <2> DEFINE d == [chunks[k][f] EXCEPT !.embedding = new(k)]
    <2>1. /\ d.text = chunks[k][f].text
          /\ d.status = chunks[k][f].status
          /\ d.point = chunks[k][f].point
          /\ d.embedding = new(k)
        BY <1>1, <1>2, ChunkFields
    <2>2. chunks'[k][f] = d
        BY <1>4
    <2> HIDE DEF d
    <2> QED
        BY <2>1, <2>2 DEF SameBut
<1>6. chunks' \in [Jobs -> [Files -> Chunk]]
    BY <1>3, <1>4
<1> QED
    BY <1>4, <1>5, <1>6 DEF ChangesIn, new

\* The chunks with point p for those of f that the jobs of ks saved.
Pointed(f, ks, p) ==
    [k \in Jobs |-> [chunks[k] EXCEPT ![f].point = IF k \in ks THEN p ELSE @]]

LEMMA PointsFacts ==
    ASSUME RestTyped, NEW f \in Files, NEW ks, NEW p \in Points, chunks' = Pointed(f, ks, p)
    PROVE  /\ ChangesIn(f, {"point"})
           /\ \A k \in Jobs : chunks'[k][f].point = IF k \in ks THEN p ELSE chunks[k][f].point
<1> DEFINE new(k) == IF k \in ks THEN p ELSE chunks[k][f].point
           row(k) == [chunks[k] EXCEPT ![f] = [chunks[k][f] EXCEPT !.point = new(k)]]
<1>1. \A k \in Jobs : chunks[k] \in [Files -> Chunk] /\ chunks[k][f] \in Chunk
    BY DEF RestTyped
<1>2. \A k \in Jobs : new(k) \in Points
    BY <1>1, ChunkFields
<1>3. chunks' = [k \in Jobs |-> row(k)]
    BY <1>1 DEF Pointed
<1> HIDE DEF new
<1>4. \A k \in Jobs : /\ [chunks[k][f] EXCEPT !.point = new(k)] \in Chunk
                      /\ chunks'[k][f] = [chunks[k][f] EXCEPT !.point = new(k)]
                      /\ chunks'[k] \in [Files -> Chunk]
                      /\ \A g \in Files \ {f} : chunks'[k][g] = chunks[k][g]
    BY <1>1, <1>2, <1>3, ChunkFields
<1>5. ASSUME NEW k \in Jobs
      PROVE  SameBut(chunks[k][f], chunks'[k][f], {"point"}) /\ chunks'[k][f].point = new(k)
    <2> DEFINE d == [chunks[k][f] EXCEPT !.point = new(k)]
    <2>1. /\ d.text = chunks[k][f].text
          /\ d.status = chunks[k][f].status
          /\ d.embedding = chunks[k][f].embedding
          /\ d.point = new(k)
        BY <1>1, <1>2, ChunkFields
    <2>2. chunks'[k][f] = d
        BY <1>4
    <2> HIDE DEF d
    <2> QED
        BY <2>1, <2>2 DEF SameBut
<1>6. chunks' \in [Jobs -> [Files -> Chunk]]
    BY <1>3, <1>4
<1> QED
    BY <1>4, <1>5, <1>6 DEF ChangesIn, new

LEMMA SupersedeFacts ==
    ASSUME RestTyped, NEW f \in Files, NEW old, chunks' = Superseded(old, f)
    PROVE  /\ ChangesIn(f, {"status"})
           /\ \A k \in Jobs : chunks'[k][f].status =
                                  IF k \in old THEN "superseded" ELSE chunks[k][f].status
<1> DEFINE new(k) == IF k \in old THEN "superseded" ELSE chunks[k][f].status
           row(k) == [chunks[k] EXCEPT ![f] = [chunks[k][f] EXCEPT !.status = new(k)]]
<1>1. \A k \in Jobs : chunks[k] \in [Files -> Chunk] /\ chunks[k][f] \in Chunk
    BY DEF RestTyped
<1>2. \A k \in Jobs : new(k) \in Statuses
    BY <1>1, ChunkFields DEF Statuses
<1>3. chunks' = [k \in Jobs |-> row(k)]
    BY <1>1 DEF Superseded
<1> HIDE DEF new
<1>4. \A k \in Jobs : /\ [chunks[k][f] EXCEPT !.status = new(k)] \in Chunk
                      /\ chunks'[k][f] = [chunks[k][f] EXCEPT !.status = new(k)]
                      /\ chunks'[k] \in [Files -> Chunk]
                      /\ \A g \in Files \ {f} : chunks'[k][g] = chunks[k][g]
    BY <1>1, <1>2, <1>3, ChunkFields
<1>5. ASSUME NEW k \in Jobs
      PROVE  SameBut(chunks[k][f], chunks'[k][f], {"status"}) /\ chunks'[k][f].status = new(k)
    <2> DEFINE d == [chunks[k][f] EXCEPT !.status = new(k)]
    <2>1. /\ d.text = chunks[k][f].text
          /\ d.embedding = chunks[k][f].embedding
          /\ d.point = chunks[k][f].point
          /\ d.status = new(k)
        BY <1>1, <1>2, ChunkFields
    <2>2. chunks'[k][f] = d
        BY <1>4
    <2> HIDE DEF d
    <2> QED
        BY <2>1, <2>2 DEF SameBut
<1>6. chunks' \in [Jobs -> [Files -> Chunk]]
    BY <1>3, <1>4
<1> QED
    BY <1>4, <1>5, <1>6 DEF ChangesIn, new

\* The chunk that a job saves.
LEMMA SavedFacts ==
    ASSUME RestTyped, NEW j \in Jobs, NEW f \in Files, NEW text \in Disk,
           chunks' = [chunks EXCEPT ![j][f] = NewChunk(text)]
    PROVE  /\ chunks' \in [Jobs -> [Files -> Chunk]]
           /\ \A k \in Jobs, g \in Files : k # j \/ g # f => chunks'[k][g] = chunks[k][g]
           /\ chunks'[j][f].text = text /\ chunks'[j][f].status = "active"
           /\ chunks'[j][f].embedding = "none" /\ chunks'[j][f].point = "none"
<1>1. /\ NewChunk(text) \in Chunk /\ NewChunk(text).text = text
      /\ NewChunk(text).status = "active" /\ NewChunk(text).embedding = "none"
      /\ NewChunk(text).point = "none"
    BY DEF NewChunk, NoChunk, Chunk, Disk
<1> QED
    BY <1>1 DEF RestTyped

\* set_source_active
LEMMA PayloadFacts ==
    ASSUME RestTyped, NEW status \in {"active", "detached"},
           chunks' = [k \in Jobs |-> [f \in Files |->
                        [chunks[k][f] EXCEPT !.point = IF @ = "none" THEN @ ELSE status]]]
    PROVE  /\ chunks' \in [Jobs -> [Files -> Chunk]]
           /\ \A k \in Jobs, f \in Files :
                 /\ SameBut(chunks[k][f], chunks'[k][f], {"point"})
                 /\ chunks'[k][f].point =
                        IF chunks[k][f].point = "none" THEN "none" ELSE status
<1> DEFINE new(k, f) == IF chunks[k][f].point = "none" THEN "none" ELSE status
<1>1. \A k \in Jobs, f \in Files : chunks[k][f] \in Chunk
    BY DEF RestTyped
<1>2. \A k \in Jobs, f \in Files : new(k, f) \in Points
    BY DEF Points
<1>3. chunks' = [k \in Jobs |-> [f \in Files |-> [chunks[k][f] EXCEPT !.point = new(k, f)]]]
    BY <1>1
<1> HIDE DEF new
<1>4. \A k \in Jobs, f \in Files :
          /\ chunks'[k][f] = [chunks[k][f] EXCEPT !.point = new(k, f)]
          /\ [chunks[k][f] EXCEPT !.point = new(k, f)] \in Chunk
    BY <1>1, <1>2, <1>3, ChunkFields
<1>5. ASSUME NEW k \in Jobs, NEW f \in Files
      PROVE  SameBut(chunks[k][f], chunks'[k][f], {"point"}) /\ chunks'[k][f].point = new(k, f)
    <2> DEFINE d == [chunks[k][f] EXCEPT !.point = new(k, f)]
    <2>1. /\ d.text = chunks[k][f].text /\ d.status = chunks[k][f].status
          /\ d.embedding = chunks[k][f].embedding /\ d.point = new(k, f)
        BY <1>1, <1>2, ChunkFields
    <2>2. chunks'[k][f] = d
        BY <1>4
    <2> HIDE DEF d
    <2> QED
        BY <2>1, <2>2 DEF SameBut
<1>6. chunks' \in [Jobs -> [Files -> Chunk]]
    BY <1>3, <1>4
<1> QED
    BY <1>5, <1>6 DEF new

-------------------------------------------------------------------------------
(* Types *)

LEMMA LeftType == ASSUME JobInv, NEW js \in SUBSET Jobs, NEW steps
     PROVE Left(js, steps) \subseteq Files
BY DEF Left, JobInv, Typed, Task

LEMMA TaskFields ==
    ASSUME JobInv, NEW j \in Jobs
    PROVE  /\ work[j].file \in Files /\ work[j].old \subseteq Jobs /\ work[j].text \in Disk
           /\ work[j].step \in Steps /\ work[j].todo \subseteq Files
           /\ work[j].seen \in [Files -> Disk] /\ work[j].known \in [Files -> Disk]
BY DEF JobInv, Typed, Task

\* Every write of a job keeps the chunks' type.
LEMMA ChunksTyped ==
    ASSUME JobInv, RestTyped, NEW j \in Jobs, OfJob(j)
    PROVE  chunks' \in [Jobs -> [Files -> Chunk]]
<1> DEFINE f == work[j].file
<1>0. f \in Files /\ chunks \in [Jobs -> [Files -> Chunk]]
    BY TaskFields DEF RestTyped
<1> HIDE DEF f
<1>1. CASE SaveChunks(j)
    <2>1. chunks' = [chunks EXCEPT ![j][f] = NewChunk(work[j].text)]
        BY <1>1 DEF SaveChunks, f
    <2> QED
        BY <1>0, <2>1, TaskFields, SavedFacts
<1>2. CASE SavePending(j) \/ EmbedFails(j) \/ MarkIndexed(j)
    <2>1. \E e \in Embeddings : chunks' = WithEmbedding(j, f, e)
        BY <1>2 DEF SavePending, EmbedFails, MarkIndexed, f, Embeddings
    <2> QED
        BY <1>0, <2>1, EmbeddingFacts DEF ChangesIn
<1>3. CASE Upsert(j)
    <2>1. chunks' = Pointed(f, Batch(j, f), "active")
        BY <1>3 DEF Upsert, WithPoints, Pointed, f
    <2> QED
        BY <1>0, <2>1, PointsFacts DEF ChangesIn, Points
<1>4. CASE SupersedeOld(j)
    <2>1. chunks' = Superseded(work[j].old, f)
        BY <1>4 DEF SupersedeOld, f
    <2> QED
        BY <1>0, <2>1, SupersedeFacts DEF ChangesIn
<1>5. CASE DeletePoints(j) \/ MarkMissing(j)
    <2>1. chunks' = chunks \/ \E ks : chunks' = Pointed(f, ks, "none")
        BY <1>5 DEF DeletePoints, MarkMissing, WithoutPoints, Pointed, f
    <2> QED
        BY <1>0, <2>1, PointsFacts DEF ChangesIn, Points
<1>6. ASSUME NEW g \in Files, TakeModified(j, g)
      PROVE  chunks' \in [Jobs -> [Files -> Chunk]]
    <2>1. disk[g] \in Disk /\ chunks' = [chunks EXCEPT ![j][g] = NewChunk(disk[g])]
        BY <1>6 DEF TakeModified, JobInv, Typed
    <2> QED
        BY <2>1, SavedFacts
<1>7. ASSUME NEW g \in Files, SupersedeGone(j, g)
      PROVE  chunks' \in [Jobs -> [Files -> Chunk]]
    BY <1>7, SupersedeFacts DEF SupersedeGone, ChangesIn
<1>8. CASE UNCHANGED chunks
    BY <1>0, <1>8
<1>9. \/ SaveChunks(j) \/ SavePending(j) \/ EmbedFails(j) \/ MarkIndexed(j) \/ Upsert(j)
      \/ SupersedeOld(j) \/ DeletePoints(j) \/ MarkMissing(j) \/ UNCHANGED chunks
      \/ \E g \in Files : TakeModified(j, g) \/ SupersedeGone(j, g)
    BY DEF OfJob, Begin, SaveRunning, Scan, Fail, StopCancelled, EndCancelled, Complete,
           ReplaceDocument, FileFails, TakeUnchanged, TakeNew, RefuseFile, index
<1> QED
    BY <1>1, <1>2, <1>3, <1>4, <1>5, <1>6, <1>7, <1>8, <1>9

LEMMA RestStep == JobInv /\ RestTyped /\ [Next]_vars => RestTyped'
<1> SUFFICES ASSUME JobInv, RestTyped, [Next]_vars PROVE RestTyped'
    OBVIOUS
<1> USE DEF counters, index, history
<1>0. /\ Left(Jobs, InFile \union {"tidy"}) \subseteq Files
      /\ Left(Jobs, {"chunks", "tidy"}) \subseteq Files
    BY LeftType
<1>1. CASE UNCHANGED vars
    BY <1>1 DEF vars, RestTyped
<1>2. CASE IndexNow \/ \E j \in Jobs : Cancel(j)
    BY <1>2 DEF IndexNow, Cancel, RestTyped
<1>3. CASE Poll
    <2>0. (watcher.signature = "differs") \in BOOLEAN
        OBVIOUS
    <2>1. watcher' \in [signature : {"unknown", "same", "differs"}, pending : BOOLEAN,
                        polled : BOOLEAN]
        <3>1. CASE source.status # "active"
            BY <1>3, <3>1 DEF Poll, Unpolled
        <3>2. CASE source.status = "active"
            <4> DEFINE differs == watcher.signature = "differs"
            <4>1. watcher' = [signature |-> "same", pending |-> differs, polled |-> TRUE]
                BY <1>3, <3>2 DEF Poll
            <4>2. differs \in BOOLEAN
                BY <2>0
            <4> HIDE DEF differs
            <4> QED
                BY <4>1, <4>2
        <3> QED
            BY <3>1, <3>2
    <2> QED
        BY <1>3, <2>1 DEF Poll, RestTyped
<1>4. CASE Detach \/ Attach
    <2>1. payload' \subseteq {"active", "detached"}
        BY <1>4 DEF Detach, Attach, SetSource, RestTyped
    <2>2. overlapped' \in BOOLEAN
        BY <1>4 DEF Detach, Attach, SetSource
    <2> QED
        BY <1>4, <2>1, <2>2 DEF Detach, Attach, RestTyped
<1>5. ASSUME NEW s \in {"active", "detached"}, SetPayload(s)
      PROVE  RestTyped'
    <2>1. chunks' \in [Jobs -> [Files -> Chunk]] /\ payload' \subseteq {"active", "detached"}
        BY <1>5, PayloadFacts DEF SetPayload, RestTyped
    <2> QED
        BY <1>5, <2>1 DEF SetPayload, RestTyped
<1>6. CASE Crash
    <2>1. watcher' \in [signature : {"unknown", "same", "differs"}, pending : BOOLEAN,
                        polled : BOOLEAN]
        BY <1>6 DEF Crash, Unpolled
    <2>2. torn' \subseteq Files /\ hollow' \subseteq Files
        BY <1>0, <1>6 DEF Crash, Leave, RestTyped
    <2>3. up' \in BOOLEAN /\ overlapped' \in BOOLEAN
        BY <1>6 DEF Crash
    <2> QED
        BY <1>6, <2>1, <2>2, <2>3 DEF Crash, RestTyped
<1>7. CASE Restart
    <2>1. up' \in BOOLEAN
        BY <1>7 DEF Restart
    <2> QED
        BY <1>7, <2>1 DEF Restart, RestTyped
<1>8. ASSUME NEW f \in Files, NEW v \in Disk, Edit(f, v)
      PROVE  RestTyped'
    <2>1. watcher' \in [signature : {"unknown", "same", "differs"}, pending : BOOLEAN,
                        polled : BOOLEAN]
        BY <1>8 DEF Edit, RestTyped
    <2>2. raced' \subseteq Files /\ unscanned' \in BOOLEAN
        BY <1>8 DEF Edit, RestTyped
    <2> QED
        BY <1>8, <2>1, <2>2 DEF Edit, RestTyped
<1>9. ASSUME NEW j \in Jobs, OfJob(j)
      PROVE  RestTyped'
    <2>1. chunks' \in [Jobs -> [Files -> Chunk]]
        BY <1>9, ChunksTyped
    <2>2. UNCHANGED <<watcher, payload, up, overlapped, raced>>
        BY <1>9 DEF OfJob, Begin, SaveRunning, Scan, Fail, StopCancelled, EndCancelled, Complete,
           SaveChunks, SavePending, Upsert, EmbedFails, MarkIndexed, ReplaceDocument, SupersedeOld,
           DeletePoints, FileFails, MarkMissing, TakeUnchanged, TakeModified, TakeNew, RefuseFile,
           SupersedeGone
    <2>3. unscanned' \in BOOLEAN
        BY <1>9 DEF RestTyped, OfJob, Begin, SaveRunning, Scan, Fail, StopCancelled, EndCancelled,
           Complete, SaveChunks, SavePending, Upsert, EmbedFails, MarkIndexed, ReplaceDocument,
           SupersedeOld, DeletePoints, FileFails, MarkMissing, TakeUnchanged, TakeModified, TakeNew,
           RefuseFile, SupersedeGone
    <2>4. /\ Left({j}, InFile \union {"tidy"}) \subseteq Files
          /\ Left({j}, {"chunks", "tidy"}) \subseteq Files
        BY LeftType
    <2>5. Leave({j}) \/ (torn' = torn /\ hollow' \subseteq hollow)
        BY <1>9 DEF OfJob, Begin, SaveRunning, Scan, Fail, StopCancelled, EndCancelled,
           Complete, SaveChunks, SavePending, Upsert, EmbedFails, MarkIndexed, ReplaceDocument,
           SupersedeOld, DeletePoints, FileFails, MarkMissing, TakeUnchanged, TakeModified, TakeNew,
           RefuseFile, SupersedeGone
    <2>6. torn' \subseteq Files /\ hollow' \subseteq Files
        BY <2>4, <2>5 DEF Leave, RestTyped
    <2> QED
        BY <2>1, <2>2, <2>3, <2>6 DEF RestTyped
<1> QED
    BY <1>1, <1>2, <1>3, <1>4, <1>5, <1>6, <1>7, <1>8, <1>9 DEF Next

-------------------------------------------------------------------------------
(* The order of the jobs *)

\* A step of a job leaves the others as they are, and its own row is there.
LEMMA OrderOfStep ==
    ASSUME JobInv, OrderInv, NEW j \in Jobs, StepOf(j), jobs[j].status # "none",
           jobs'[j].status # "none"
    PROVE  OrderInv'
<1>1. \A k \in Jobs \ {j} : work'[k] = work[k] /\ jobs'[k] = jobs[k]
    BY DEF StepOf
<1>2. \A k \in Jobs : jobs'[k].status = "none" <=> jobs[k].status = "none"
    BY <1>1
<1>3. \A k \in Jobs : Active(k)' => Active(k)
    BY <1>1 DEF StepOf, Active
<1> QED
    BY <1>1, <1>2, <1>3 DEF OrderInv, Latest

\* A step of a job finds its row and leaves it.
LEMMA RowStays ==
    ASSUME JobInv, OrderInv, NEW j \in Jobs, OfJob(j)
    PROVE  jobs[j].status # "none" /\ jobs'[j].status # "none"
<1>1. work[j].step # "none"
    BY DEF OfJob, Begin, SaveRunning, Scan, Fail, StopCancelled, EndCancelled, Complete,
           SaveChunks, SavePending, Upsert, EmbedFails, MarkIndexed, ReplaceDocument, SupersedeOld,
           DeletePoints, FileFails, MarkMissing, TakeUnchanged, TakeModified, TakeNew, RefuseFile,
           SupersedeGone, Takes, InFile
<1>2. jobs[j].status # "none"
    BY <1>1 DEF OrderInv
<1>3. jobs[j] \in Row
    BY DEF JobInv, Typed
<1>4. \/ jobs' = jobs
      \/ jobs' = [jobs EXCEPT ![j].failed = TRUE]
      \/ jobs' = [jobs EXCEPT ![j].status = "running", ![j].cancel = work[j].cancel]
      \/ jobs' = [jobs EXCEPT ![j].status = "failed", ![j].cancel = FALSE]
      \/ jobs' = [jobs EXCEPT ![j].status = "completed", ![j].cancel = FALSE]
      \/ jobs' = [jobs EXCEPT ![j].status = "cancelled"]
    BY DEF OfJob, Begin, SaveRunning, Scan, Fail, StopCancelled, EndCancelled, Complete,
           SaveChunks, SavePending, Upsert, EmbedFails, MarkIndexed, ReplaceDocument, SupersedeOld,
           DeletePoints, FileFails, MarkMissing, TakeUnchanged, TakeModified, TakeNew, RefuseFile,
           SupersedeGone
<1>5. jobs'[j].status # "none"
    BY <1>2, <1>3, <1>4 DEF JobInv, Typed, Row
<1> QED
    BY <1>2, <1>5

LEMMA OrderOfQueue ==
    ASSUME JobInv, OrderInv, Available, NEW j \in NextId, Queue(j)
    PROVE  OrderInv'
<1>1. j \in Jobs /\ jobs[j].status = "none" /\ \A k \in 1..(j - 1) : jobs[k].status # "none"
    BY DEF NextId
<1>2. \A k \in Jobs : ~Active(k)
    BY DEF Available, ActiveJobs, Active
<1>3. jobs[j] \in Row /\ work[j] \in Task
    BY <1>1 DEF JobInv, Typed
<1>4. /\ \A k \in Jobs \ {j} : work'[k] = work[k] /\ jobs'[k] = jobs[k]
      /\ jobs'[j].status = "queued"
    BY <1>1, <1>3 DEF Queue, JobInv, Typed, Row
<1>5. \A k \in Jobs : k \in Nat /\ k > 0
    BY JobsAssumption
<1>6. \A k \in Jobs : k < j => jobs[k].status # "none"
    BY <1>1, <1>5
<1>7. \A k \in Jobs : k > j => jobs[k].status = "none"
    BY <1>1 DEF OrderInv
<1>8. \A k \in Jobs : Active(k)' => k = j
    BY <1>2, <1>4 DEF Active
<1>9. \A i, k \in Jobs : i < k /\ jobs'[k].status # "none" => jobs'[i].status # "none"
    <2> SUFFICES ASSUME NEW i \in Jobs, NEW k \in Jobs, i < k, jobs'[k].status # "none", i # j
                 PROVE  jobs'[i].status # "none"
        BY <1>4
    <2>1. CASE k = j
        BY <1>4, <1>6, <2>1
    <2>2. CASE k # j
        BY <1>4, <2>2 DEF OrderInv
    <2> QED
        BY <2>1, <2>2
<1>10. Latest(j)'
    BY <1>4, <1>5, <1>7 DEF Latest
<1>11. \A k \in Jobs : jobs'[k].status = "none" => work'[k].step = "none"
    BY <1>4 DEF OrderInv
<1> QED
    BY <1>8, <1>9, <1>10, <1>11 DEF OrderInv

LEMMA OrderStep == JobInv /\ OrderInv /\ [Next]_vars => OrderInv'
<1> SUFFICES ASSUME JobInv, OrderInv, [Next]_vars PROVE OrderInv'
    OBVIOUS
<1> USE DEF counters, index, history
<1>1. ASSUME UNCHANGED work, \A k \in Jobs : /\ jobs'[k].status = "none" <=> jobs[k].status = "none"
                                             /\ Active(k)' => Active(k)
      PROVE  OrderInv'
    BY <1>1 DEF OrderInv, Latest
<1>2. CASE UNCHANGED <<jobs, work>>
    BY <1>1, <1>2 DEF Active
<1>3. CASE IndexNow \/ Poll
    <2>1. UNCHANGED <<jobs, work>> \/ (Available /\ \E j \in NextId : Queue(j))
        BY <1>3 DEF IndexNow, Poll, Notify
    <2> QED
        BY <1>2, <2>1, OrderOfQueue
<1>4. CASE Crash
    <2>1. \A k \in Jobs : jobs'[k] = jobs[k] /\ (work[k].step = "none" => work'[k] = work[k])
        BY <1>4 DEF Crash
    <2>2. \A k \in Jobs : Active(k)' => Active(k)
        BY <2>1 DEF Active
    <2> QED
        BY <2>1, <2>2 DEF OrderInv, Latest
<1>5. CASE Restart
    <2>1. \A k \in Jobs : jobs'[k] = [jobs[k] EXCEPT !.status =
                                          IF k \in ActiveJobs THEN "interrupted" ELSE @]
        BY <1>5 DEF Restart
    <2>2. \A k \in Jobs : jobs[k] \in Row
        BY DEF JobInv, Typed
    <2>3. \A k \in Jobs : jobs'[k].status =
             IF k \in ActiveJobs THEN "interrupted" ELSE jobs[k].status
        BY <2>1, <2>2 DEF Row
    <2>4. \A k \in Jobs : /\ jobs'[k].status = "none" <=> jobs[k].status = "none"
                          /\ ~Active(k)'
        BY <2>3 DEF ActiveJobs, Active
    <2> QED
        BY <1>1, <1>5, <2>4 DEF Restart
<1>6. ASSUME NEW j \in Jobs, Cancel(j)
      PROVE  OrderInv'
    <2>1. \A k \in Jobs : jobs'[k].status = jobs[k].status
        BY <1>6 DEF Cancel, JobInv, Typed, Row
    <2> QED
        BY <1>1, <1>6, <2>1 DEF Cancel, Active
<1>7. ASSUME NEW j \in Jobs, OfJob(j)
      PROVE  OrderInv'
    BY <1>7, JobStep, RowStays, OrderOfStep
<1>8. \/ UNCHANGED <<jobs, work>> \/ IndexNow \/ Poll \/ Crash \/ Restart
      \/ \E j \in Jobs : Cancel(j) \/ OfJob(j)
    BY DEF Next, vars, Detach, Attach, SetPayload, Edit
<1> QED
    BY <1>2, <1>3, <1>4, <1>5, <1>6, <1>7, <1>8

-------------------------------------------------------------------------------
(* What the points say of the folder *)

\* A job gives a chunk no point that says "detached".
LEMMA PointOfStep ==
    ASSUME JobInv, RestTyped, NEW j \in Jobs, OfJob(j), NEW k \in Jobs, NEW g \in Files
    PROVE  chunks'[k][g].point = chunks[k][g].point \/ chunks'[k][g].point # "detached"
<1> DEFINE f == work[j].file
<1>0. f \in Files
    BY TaskFields
<1> HIDE DEF f
<1>1. CASE SaveChunks(j)
    <2>1. chunks' = [chunks EXCEPT ![j][f] = NewChunk(work[j].text)] /\ work[j].text \in Disk
        BY <1>1, TaskFields DEF SaveChunks, f
    <2> DEFINE text == work[j].text
    <2>2. text \in Disk /\ chunks' = [chunks EXCEPT ![j][f] = NewChunk(text)]
        BY <2>1
    <2> HIDE DEF text
    <2>3. /\ \A i \in Jobs, h \in Files : i # j \/ h # f => chunks'[i][h] = chunks[i][h]
          /\ chunks'[j][f].point = "none"
        BY <1>0, <2>2 DEF RestTyped, NewChunk, NoChunk
    <2> QED
        BY <2>3
<1>2. CASE SavePending(j) \/ EmbedFails(j) \/ MarkIndexed(j)
    <2>1. \E e \in Embeddings : chunks' = WithEmbedding(j, f, e)
        BY <1>2 DEF SavePending, EmbedFails, MarkIndexed, f, Embeddings
    <2>2. ChangesIn(f, {"embedding"})
        BY <1>0, <2>1, EmbeddingFacts
    <2> QED
        BY <2>2 DEF ChangesIn, SameBut
<1>3. CASE Upsert(j)
    <2>1. chunks' = Pointed(f, Batch(j, f), "active")
        BY <1>3 DEF Upsert, WithPoints, Pointed, f
    <2> QED
        BY <1>0, <2>1, PointsFacts DEF ChangesIn, Points
<1>4. CASE SupersedeOld(j)
    <2>1. ChangesIn(f, {"status"})
        BY <1>0, <1>4, SupersedeFacts DEF SupersedeOld, f
    <2> QED
        BY <2>1 DEF ChangesIn, SameBut
<1>5. CASE DeletePoints(j) \/ MarkMissing(j)
    <2>1. chunks' = chunks \/ \E ks : chunks' = Pointed(f, ks, "none")
        BY <1>5 DEF DeletePoints, MarkMissing, WithoutPoints, Pointed, f
    <2>2. ASSUME NEW ks, chunks' = Pointed(f, ks, "none")
          PROVE  /\ \A h \in Files \ {f} : chunks'[k][h] = chunks[k][h]
                 /\ chunks'[k][f].point \in {"none", chunks[k][f].point}
        BY <1>0, <2>2, PointsFacts DEF ChangesIn, Points
    <2> QED
        BY <2>1, <2>2
<1>6. ASSUME NEW h \in Files, TakeModified(j, h)
      PROVE  chunks'[k][g].point = chunks[k][g].point \/ chunks'[k][g].point # "detached"
    <2>1. disk[h] \in Disk /\ chunks' = [chunks EXCEPT ![j][h] = NewChunk(disk[h])]
        BY <1>6 DEF TakeModified, JobInv, Typed
    <2> DEFINE text == disk[h]
    <2>2. text \in Disk /\ chunks' = [chunks EXCEPT ![j][h] = NewChunk(text)]
        BY <2>1
    <2> HIDE DEF text
    <2>3. /\ \A i \in Jobs, e \in Files : i # j \/ e # h => chunks'[i][e] = chunks[i][e]
          /\ chunks'[j][h].point = "none"
        BY <2>2 DEF RestTyped, NewChunk, NoChunk
    <2> QED
        BY <2>3
<1>7. ASSUME NEW h \in Files, SupersedeGone(j, h)
      PROVE  chunks'[k][g].point = chunks[k][g].point
    <2>1. ChangesIn(h, {"status"})
        BY <1>7, SupersedeFacts DEF SupersedeGone
    <2> QED
        BY <2>1 DEF ChangesIn, SameBut
<1>8. CASE UNCHANGED chunks
    BY <1>8
<1>9. \/ SaveChunks(j) \/ SavePending(j) \/ EmbedFails(j) \/ MarkIndexed(j) \/ Upsert(j)
      \/ SupersedeOld(j) \/ DeletePoints(j) \/ MarkMissing(j) \/ UNCHANGED chunks
      \/ \E h \in Files : TakeModified(j, h) \/ SupersedeGone(j, h)
    BY DEF OfJob, Begin, SaveRunning, Scan, Fail, StopCancelled, EndCancelled, Complete,
           ReplaceDocument, FileFails, TakeUnchanged, TakeNew, RefuseFile, index
<1> QED
    BY <1>1, <1>2, <1>3, <1>4, <1>5, <1>6, <1>7, <1>8, <1>9

LEMMA PointsStep ==
    JobInv /\ ScanInv /\ RestTyped /\ PointsInv /\ [Next]_vars => PointsInv'
<1> SUFFICES ASSUME JobInv, ScanInv, RestTyped, PointsInv, [Next]_vars PROVE PointsInv'
    OBVIOUS
<1> USE DEF counters, index, history
<1>1. ASSUME UNCHANGED <<overlapped, payload>>, source'.status = source.status,
             \A k \in Jobs, g \in Files :
                 chunks'[k][g].point = chunks[k][g].point \/ chunks'[k][g].point # "detached"
      PROVE  PointsInv'
    BY <1>1 DEF PointsInv
<1>2. CASE UNCHANGED <<overlapped, payload, source, chunks>>
    BY <1>1, <1>2
<1>3. CASE Detach
    <2>1. source'.status = "detached" /\ payload' = payload \union {"detached"}
        BY <1>3 DEF Detach, SetSource
    <2>2. overlapped' = (overlapped \/ payload # {})
        BY <1>3 DEF Detach, SetSource
    <2>3. ~overlapped' => ~overlapped /\ payload = {}
        BY <2>2, Zenon
    <2> QED
        BY <2>1, <2>3 DEF PointsInv
<1>4. CASE Attach
    <2>1. source'.status = "active" /\ payload' = payload \union {"active"}
        BY <1>4 DEF Attach, SetSource
    <2>2. overlapped' = (overlapped \/ payload # {})
        BY <1>4 DEF Attach, SetSource
    <2>3. ~overlapped' => ~overlapped /\ payload = {}
        BY <2>2, Zenon
    <2> QED
        BY <2>1, <2>3 DEF PointsInv
<1>5. ASSUME NEW s \in {"active", "detached"}, SetPayload(s)
      PROVE  PointsInv'
    <2>1. /\ s \in payload /\ payload' = payload \ {s} /\ UNCHANGED <<source, overlapped>>
          /\ \A k \in Jobs, g \in Files : chunks'[k][g].point =
                 IF chunks[k][g].point = "none" THEN "none" ELSE s
        BY <1>5, PayloadFacts DEF SetPayload
    <2>2. ~overlapped => s = source.status
        BY <2>1 DEF PointsInv
    <2> QED
        BY <2>1, <2>2 DEF PointsInv
<1>6. CASE Crash
    <2>1. payload' = {} /\ UNCHANGED <<source, chunks>>
        BY <1>6 DEF Crash
    <2>2. overlapped' = (overlapped \/ payload # {})
        BY <1>6 DEF Crash
    <2>3. ~overlapped' => ~overlapped /\ payload = {}
        BY <2>2, Zenon
    <2> QED
        BY <2>1, <2>3 DEF PointsInv
<1>7. CASE Restart
    <2>1. source'.status = source.status
        BY <1>7 DEF Restart, ScanInv, Source
    <2> QED
        BY <1>1, <1>7, <2>1 DEF Restart
<1>8. ASSUME NEW j \in Jobs, OfJob(j)
      PROVE  PointsInv'
    <2>1. UNCHANGED <<payload, overlapped>>
        BY <1>8 DEF OfJob, Begin, SaveRunning, Scan, Fail, StopCancelled, EndCancelled, Complete,
           SaveChunks, SavePending, Upsert, EmbedFails, MarkIndexed, ReplaceDocument, SupersedeOld,
           DeletePoints, FileFails, MarkMissing, TakeUnchanged, TakeModified, TakeNew, RefuseFile,
           SupersedeGone
    <2>2. \/ source' = source
          \/ \E scan : source' = [source EXCEPT !.scan = scan]
        BY <1>8 DEF OfJob, Begin, SaveRunning, Scan, Fail, StopCancelled, EndCancelled, Complete,
           SaveChunks, SavePending, Upsert, EmbedFails, MarkIndexed, ReplaceDocument, SupersedeOld,
           DeletePoints, FileFails, MarkMissing, TakeUnchanged, TakeModified, TakeNew, RefuseFile,
           SupersedeGone
    <2>3. source'.status = source.status
        BY <2>2 DEF ScanInv, Source
    <2>4. ASSUME NEW k \in Jobs, NEW g \in Files
          PROVE  chunks'[k][g].point = chunks[k][g].point \/ chunks'[k][g].point # "detached"
        BY <1>8, PointOfStep
    <2> QED
        BY <1>1, <2>1, <2>3, <2>4
<1>9. \/ UNCHANGED <<overlapped, payload, source, chunks>> \/ Detach \/ Attach \/ Crash \/ Restart
      \/ \E s \in {"active", "detached"} : SetPayload(s)
      \/ \E j \in Jobs : OfJob(j)
    BY DEF Next, vars, IndexNow, Poll, Cancel, Edit
<1> QED
    BY <1>2, <1>3, <1>4, <1>5, <1>6, <1>7, <1>8, <1>9


-------------------------------------------------------------------------------
(* What a step leaves alone *)

AtFile == InFile \union {"tidy"}

\* No job but j is at work.
Alone(j) == \A k \in Jobs \ {j} : work[k].step \notin Busy

LEMMA JobAlone ==
    ASSUME JobInv, NEW j \in Jobs, work[j].step \in Busy, StepOf(j)
    PROVE  Alone(j) /\ Alone(j)' /\ Active(j)
BY DEF Alone, JobInv, OneActive, StepOf

LEMMA StepSets ==
    /\ Looking \subseteq Busy /\ InFile \subseteq Looking /\ AtFile \subseteq Looking
    /\ InFile \subseteq AtFile /\ "tidy" \in AtFile /\ "loop" \in Looking
    /\ "loop" \notin AtFile /\ {"none", "done", "dead", "cancelling"} \intersect Busy = {}
    /\ {"none", "task", "read", "scan"} \intersect Looking = {}
    /\ {"task", "read", "scan"} \subseteq Busy
BY DEF Looking, Busy, InFile, AtFile

\* A job at work is the latest: what the others know of a file is past.
LEMMA OthersKeep ==
    ASSUME JobInv, OrderInv, NEW j \in Jobs, work[j].step \in Busy, StepOf(j),
           jobs'[j].status # "none", NEW f \in Files, NEW k \in Jobs \ {j},
           JobGood(k, f), chunks[k][f].status = "none" => chunks'[k][f].status = "none"
    PROVE  JobGood(k, f)'
<1>1. work'[k] = work[k] /\ jobs'[k] = jobs[k] /\ work[k].step \notin Busy /\ Active(j)
    BY JobAlone DEF Alone, StepOf
<1>2. Fresh(k, f)'
    BY <1>1, StepSets DEF JobGood, Fresh, At
<1>3. Planned(k, f)' /\ InFileInv(k, f)' /\ TidyInv(k, f)'
    BY <1>1, StepSets DEF Planned, InFileInv, TidyInv, At
<1>4. Latest(j)
    BY <1>1 DEF OrderInv
<1>5. j \in Nat /\ k \in Nat /\ j # k
    BY JobsAssumption
<1>6. CASE k > j
    <2>1. jobs[k].status = "none"
        BY <1>4, <1>6 DEF Latest
    <2> QED
        BY <1>1, <1>2, <1>3, <2>1 DEF JobGood, Finished
<1>7. CASE k < j
    <2>1. ~Latest(k)'
        BY <1>7 DEF Latest
    <2> QED
        BY <1>2, <1>3, <2>1 DEF JobGood, Finished
<1> QED
    BY <1>5, <1>6, <1>7

\* A step of job j touches no file but f.
OnFile(j, f) ==
    /\ work[j].step \in Looking /\ work'[j].step \in Looking
    /\ StepOf(j) /\ Active(j)'
    /\ work'[j].seen = work[j].seen /\ work'[j].known = work[j].known
    /\ disk' = disk /\ raced' = raced /\ unscanned' = unscanned
    /\ jobs[j].failed => jobs'[j].failed
    /\ \A g \in Files \ {f} :
          /\ g \in work'[j].todo <=> g \in work[j].todo
          /\ docs'[g] = docs[g]
          /\ \A k \in Jobs : chunks'[k][g] = chunks[k][g]
          /\ g \in torn' <=> g \in torn
          /\ g \in hollow' <=> g \in hollow
          /\ ~At(j, g, AtFile)
          /\ ~At(j, g, AtFile)'

LEMMA Elsewhere ==
    ASSUME KInv, NEW j \in Jobs, NEW f \in Files, OnFile(j, f), NEW g \in Files \ {f}
    PROVE  Good(g)'
<1>1. /\ work[j].step \in Busy /\ StepOf(j) /\ jobs'[j].status # "none"
      /\ JobInv /\ OrderInv /\ Good(g)
    BY StepSets DEF OnFile, Active, KInv
<1>2. Alone(j) /\ Alone(j)'
    BY <1>1, JobAlone
<1>3. \A k \in Jobs : ~At(k, g, AtFile) /\ ~At(k, g, AtFile)'
    BY <1>2, StepSets DEF OnFile, Alone, At
<1>4. /\ docs'[g] = docs[g] /\ \A k \in Jobs : chunks'[k][g] = chunks[k][g]
      /\ g \in torn' <=> g \in torn
      /\ g \in hollow' <=> g \in hollow
      /\ raced' = raced /\ disk' = disk /\ unscanned' = unscanned
      /\ g \in work'[j].todo <=> g \in work[j].todo
      /\ work'[j].seen = work[j].seen /\ work'[j].known = work[j].known
      /\ work[j].step \in Looking /\ work'[j].step \in Looking
      /\ jobs[j].failed => jobs'[j].failed
    BY DEF OnFile
<1>5. \A k \in Jobs : ~At(k, g, {"chunks", "tidy"}) /\ ~At(k, g, {"chunks", "tidy"})'
                      /\ ~At(k, g, {"unpoint", "tidy"}) /\ ~At(k, g, {"supersede"})
                      /\ ~At(k, g, {"embed", "upsert", "mark", "replace"})
                      /\ ~At(k, g, {"chunks"}) /\ ~At(k, g, {"chunks"})'
                      /\ ~At(k, g, InFile) /\ ~At(k, g, InFile)' /\ ~At(k, g, {"tidy"})'
    BY <1>3 DEF At, AtFile, InFile
<1>6. Stored(g)'
    BY <1>1, <1>4, <1>5 DEF Good, Stored, HasText
<1>7. Dying(g)'
    BY <1>1, <1>4, <1>5 DEF Good, Dying
<1>8. Agreed(g)'
    BY <1>1, <1>4, <1>5 DEF Good, Agreed
<1>9. JobGood(j, g)'
    <2>1. JobGood(j, g)
        BY <1>1 DEF Good
    <2>2. Fresh(j, g)'
        BY <1>4, <1>5, <2>1, StepSets DEF JobGood, Fresh
    <2>3. Planned(j, g)'
        BY <1>4, <1>5, <2>1 DEF JobGood, Planned, Searchable
    <2>4. InFileInv(j, g)' /\ TidyInv(j, g)'
        BY <1>5 DEF InFileInv, TidyInv
    <2>5. Finished(j, g)'
        BY DEF OnFile, Active, Finished
    <2> QED
        BY <2>2, <2>3, <2>4, <2>5 DEF JobGood
<1>10. ASSUME NEW k \in Jobs \ {j} PROVE JobGood(k, g)'
    BY <1>1, <1>4, OthersKeep DEF Good
<1> QED
    BY <1>6, <1>7, <1>8, <1>9, <1>10 DEF Good

\* What is left to show of a step of job j on file f.
LEMMA GoodOfStep ==
    ASSUME KInv, NEW j \in Jobs, NEW f \in Files, OnFile(j, f),
           \A k \in Jobs \ {j} : chunks[k][f].status = "none" => chunks'[k][f].status = "none",
           Stored(f)', Dying(f)', Agreed(f)',
           Fresh(j, f)', Planned(j, f)', InFileInv(j, f)', TidyInv(j, f)'
    PROVE  \A g \in Files : Good(g)'
<1>1. /\ work[j].step \in Busy /\ StepOf(j) /\ jobs'[j].status # "none"
      /\ JobInv /\ OrderInv /\ Good(f)
    BY StepSets DEF OnFile, Active, KInv
<1>2. ASSUME NEW k \in Jobs \ {j} PROVE JobGood(k, f)'
    BY <1>1, <1>2, OthersKeep DEF Good
<1>3. Finished(j, f)'
    BY DEF OnFile, Active, Finished
<1>4. Good(f)'
    BY <1>2, <1>3 DEF Good, JobGood
<1> QED
    BY <1>4, Elsewhere

-------------------------------------------------------------------------------
(* The steps of a job on a file *)

\* The job goes on to step s, and nothing else of its state changes.
Goes(j, s) ==
    /\ work'[j].step = s
    /\ work'[j].file = work[j].file /\ work'[j].todo = work[j].todo
    /\ work'[j].seen = work[j].seen /\ work'[j].known = work[j].known
    /\ work'[j].old = work[j].old /\ work'[j].text = work[j].text

LEMMA GoesTo ==
    ASSUME JobInv, NEW j \in Jobs, NEW s \in Steps, To(j, s)
    PROVE  Goes(j, s)
<1>1. work[j] \in Task /\ work' = [work EXCEPT ![j].step = s]
    BY DEF JobInv, Typed, To
<1>2. work'[j] = [work[j] EXCEPT !.step = s]
    BY <1>1 DEF JobInv, Typed
<1> QED
    BY <1>1, <1>2 DEF Goes, Task

\* What holds of a job that is at a file.
LEMMA WhereAt ==
    ASSUME KInv, NEW j \in Jobs, work[j].step \in Looking, OfJob(j), NEW f \in Files
    PROVE  /\ JobInv /\ RestTyped /\ Good(f) /\ JobGood(j, f)
           /\ StepOf(j) /\ Alone(j) /\ Alone(j)'
           /\ \A k \in Jobs \ {j} : ~At(k, f, AtFile) /\ ~At(k, f, AtFile)'
<1>1. JobInv /\ RestTyped /\ StepOf(j)
    BY JobStep DEF KInv
<1>2. Alone(j) /\ Alone(j)'
    BY <1>1, JobAlone, StepSets
<1>3. Good(f) /\ JobGood(j, f)
    BY DEF KInv, Good
<1> QED
    BY <1>1, <1>2, <1>3, StepSets DEF Alone, At

\* The frame of a step on the file the job is at.
LEMMA FileFrame ==
    ASSUME KInv, NEW j \in Jobs, work[j].step \in AtFile, OfJob(j), Active(j)',
           NEW s \in Looking, Goes(j, s),
           NEW f \in Files, work[j].file = f, jobs[j].failed => jobs'[j].failed,
           disk' = disk, raced' = raced, unscanned' = unscanned,
           \A g \in Files \ {f} :
               /\ docs'[g] = docs[g]
               /\ \A k \in Jobs : chunks'[k][g] = chunks[k][g]
               /\ g \in torn' <=> g \in torn
               /\ g \in hollow' <=> g \in hollow
    PROVE  OnFile(j, f)
<1>1. StepOf(j) /\ work[j].step \in Looking
    BY JobStep, StepSets DEF KInv
<1>2. \A g \in Files \ {f} : ~At(j, g, AtFile) /\ ~At(j, g, AtFile)'
    BY DEF At, Goes
<1> QED
    BY <1>1, <1>2 DEF OnFile, Goes

LEMMA SavePendingKeeps ==
    ASSUME KInv, NEW j \in Jobs, SavePending(j), NEW f \in Files, work[j].file = f
    PROVE  \A g \in Files : Good(g)'
<1> USE DEF counters, history
<1>1. work[j].step = "embed" /\ work[j].step \in AtFile /\ work[j].step \in Looking /\ OfJob(j)
    BY DEF SavePending, OfJob, AtFile, Looking, InFile
<1>2. /\ JobInv /\ RestTyped /\ Good(f) /\ JobGood(j, f)
      /\ \A k \in Jobs \ {j} : ~At(k, f, AtFile) /\ ~At(k, f, AtFile)'
    BY <1>1, WhereAt
<1>3. Goes(j, "upsert") /\ "upsert" \in Looking
    BY <1>2, GoesTo, StepsAre DEF SavePending, Looking, InFile
<1>4. chunks' = WithEmbedding(j, f, "pending") /\ docs' = docs
    BY DEF SavePending
<1>5. UNCHANGED <<disk, raced, torn, hollow, unscanned, jobs>>
    BY DEF SavePending
<1>6. /\ ChangesIn(f, {"embedding"})
      /\ \A k \in Jobs : chunks'[k][f].embedding =
                             IF k \in Batch(j, f) THEN "pending" ELSE chunks[k][f].embedding
    BY <1>2, <1>4, EmbeddingFacts DEF Embeddings
<1>7. OnFile(j, f)
    <2>1. Active(j)'
        BY <1>2, FileStep
    <2> QED
        BY <1>1, <1>3, <1>4, <1>5, <1>6, <2>1, FileFrame DEF ChangesIn
<1>8. \A k \in Jobs : /\ chunks'[k][f].text = chunks[k][f].text
                      /\ chunks'[k][f].status = chunks[k][f].status
                      /\ chunks'[k][f].point = chunks[k][f].point
    BY <1>6 DEF ChangesIn, SameBut
<1>9. At(j, f, {"embed"}) /\ At(j, f, {"upsert"})'
    BY <1>1, <1>3 DEF At, Goes
<1>10. /\ \A k \in Jobs : ~At(k, f, {"chunks", "tidy"}) /\ ~At(k, f, {"unpoint", "tidy"})
                          /\ ~At(k, f, {"supersede"})
       /\ \A k \in Jobs \ {j} : ~At(k, f, {"embed", "upsert", "mark", "replace"})
    BY <1>2, <1>9 DEF At, AtFile, InFile
<1>11. Stored(f)'
    BY <1>2, <1>4, <1>5, <1>6, <1>8, <1>10 DEF Good, Stored, HasText
<1>12. Dying(f)'
    BY <1>2, <1>5, <1>8, <1>10 DEF Good, Dying
<1>13. Agreed(f)'
    BY <1>2, <1>3, <1>4, <1>5, <1>8, <1>9, <1>10
    DEF Good, Agreed, At, IsModified, Known, Unchanged, Goes
<1>14. f \notin work[j].todo /\ work[j].seen[f] # Absent
    BY <1>2, <1>9 DEF JobGood, InFileInv, At, InFile
<1>15. Fresh(j, f)' /\ TidyInv(j, f)'
    BY <1>3, <1>14 DEF Fresh, TidyInv, At, Goes
<1>16. Planned(j, f)'
    BY <1>1, <1>2, <1>3, <1>4, <1>5, <1>9, <1>14, StepSets DEF JobGood, Planned, At, Goes, InFile
<1>17. InFileInv(j, f)'
    BY <1>1, <1>2, <1>3, <1>4, <1>5, <1>8, <1>9
    DEF JobGood, InFileInv, At, Goes, InFile, IsNew, IsModified, Known, Unchanged, Beside
<1> QED
    BY <1>7, <1>8, <1>11, <1>12, <1>13, <1>15, <1>16, <1>17, GoodOfStep DEF KInv

\* A job that is cut leaves its file to the histories.
LEMMA LeaveFacts ==
    ASSUME NEW j \in Jobs, Leave({j})
    PROVE  /\ torn' = torn \union IF work[j].step \in AtFile THEN {work[j].file} ELSE {}
           /\ hollow' = hollow \union
                            IF work[j].step \in {"chunks", "tidy"} THEN {work[j].file} ELSE {}
<1>1. ASSUME NEW steps
      PROVE  Left({j}, steps) = IF work[j].step \in steps THEN {work[j].file} ELSE {}
    BY DEF Left
<1> QED
    BY <1>1 DEF Leave, AtFile

LEMMA EmbedFailsKeeps ==
    ASSUME KInv, NEW j \in Jobs, EmbedFails(j), NEW f \in Files, work[j].file = f
    PROVE  \A g \in Files : Good(g)'
<1> USE DEF counters, history
<1>1. /\ work[j].step = "upsert" /\ work[j].step \in AtFile /\ work[j].step \in Looking /\ OfJob(j)
      /\ work[j].step \notin {"chunks", "tidy"}
    BY DEF EmbedFails, OfJob, AtFile, Looking, InFile
<1>2. /\ JobInv /\ RestTyped /\ Good(f) /\ JobGood(j, f)
      /\ \A k \in Jobs \ {j} : ~At(k, f, AtFile) /\ ~At(k, f, AtFile)'
    BY <1>1, WhereAt
<1>3. Goes(j, "loop") /\ "loop" \in Looking
    BY <1>2, GoesTo, StepsAre DEF EmbedFails, Looking, InFile
<1>4. chunks' = WithEmbedding(j, f, "error") /\ docs' = docs
    BY DEF EmbedFails
<1>5. UNCHANGED <<disk, raced, unscanned>> /\ hollow' = hollow /\ torn' = torn \union {f}
      /\ jobs'[j].failed
    <2>1. /\ Leave({j}) /\ jobs' = [jobs EXCEPT ![j].failed = TRUE]
          /\ UNCHANGED <<disk, raced, unscanned>>
        BY DEF EmbedFails
    <2>2. jobs'[j].failed
        BY <1>2, <2>1 DEF JobInv, Typed, Row
    <2> QED
        BY <1>1, <2>1, <2>2, LeaveFacts
<1>6. /\ ChangesIn(f, {"embedding"})
      /\ \A k \in Jobs : chunks'[k][f].embedding =
                             IF k \in Batch(j, f) THEN "error" ELSE chunks[k][f].embedding
    BY <1>2, <1>4, EmbeddingFacts DEF Embeddings
<1>7. OnFile(j, f)
    <2>1. Active(j)'
        BY <1>2, FileStep
    <2> QED
        BY <1>1, <1>3, <1>4, <1>5, <1>6, <2>1, FileFrame DEF ChangesIn
<1>8. \A k \in Jobs : /\ chunks'[k][f].text = chunks[k][f].text
                      /\ chunks'[k][f].status = chunks[k][f].status
                      /\ chunks'[k][f].point = chunks[k][f].point
    BY <1>6 DEF ChangesIn, SameBut
<1>9. At(j, f, {"upsert"}) /\ ~At(j, f, AtFile)'
    BY <1>1, <1>3, StepSets DEF At, Goes
<1>10. \A k \in Jobs : ~At(k, f, {"chunks", "tidy"})
    BY <1>2, <1>9 DEF At, AtFile, InFile
<1>11. Stored(f)'
    BY <1>2, <1>4, <1>5, <1>6, <1>8, <1>10 DEF Good, Stored, HasText
<1>12. Dying(f)' /\ Agreed(f)'
    BY <1>5 DEF Dying, Agreed
<1>13. f \notin work[j].todo /\ work[j].seen[f] # Absent
    BY <1>2, <1>9 DEF JobGood, InFileInv, At, InFile
<1>14. Fresh(j, f)' /\ TidyInv(j, f)' /\ InFileInv(j, f)'
    BY <1>3, <1>9, <1>13, StepSets DEF Fresh, TidyInv, InFileInv, At, Goes
<1>15. Planned(j, f)'
    BY <1>1, <1>2, <1>3, <1>4, <1>5, <1>13, StepSets DEF JobGood, Planned, At, Goes
<1> QED
    BY <1>7, <1>8, <1>11, <1>12, <1>14, <1>15, GoodOfStep

LEMMA MarkIndexedKeeps ==
    ASSUME KInv, NEW j \in Jobs, MarkIndexed(j), NEW f \in Files, work[j].file = f
    PROVE  \A g \in Files : Good(g)'
<1> DEFINE s == IF IsModified(j, f) THEN "replace" ELSE "loop"
<1> USE DEF counters, history
<1>1. work[j].step = "mark" /\ work[j].step \in AtFile /\ work[j].step \in Looking /\ OfJob(j)
    BY DEF MarkIndexed, OfJob, AtFile, Looking, InFile
<1>2. /\ JobInv /\ RestTyped /\ Good(f) /\ JobGood(j, f)
      /\ \A k \in Jobs \ {j} : ~At(k, f, AtFile) /\ ~At(k, f, AtFile)'
    BY <1>1, WhereAt
<1>3. PICK t \in {"replace", "loop"} : t = s
    OBVIOUS
<1>4. /\ Goes(j, t) /\ t \in Looking
      /\ IsModified(j, f) => t = "replace"
      /\ ~IsModified(j, f) => t = "loop"
    <2>1. To(j, t) /\ t \in Steps
        BY <1>3, StepsAre DEF MarkIndexed, IsModified
    <2> QED
        BY <1>2, <1>3, <2>1, GoesTo DEF Looking, InFile
<1> HIDE DEF s
<1>5. chunks' = WithEmbedding(j, f, "indexed") /\ docs' = docs
    BY DEF MarkIndexed
<1>6. UNCHANGED <<disk, raced, torn, hollow, unscanned, jobs>>
    BY DEF MarkIndexed
<1>7. /\ ChangesIn(f, {"embedding"})
      /\ \A k \in Jobs : chunks'[k][f].embedding =
                             IF k \in Batch(j, f) THEN "indexed" ELSE chunks[k][f].embedding
    BY <1>2, <1>5, EmbeddingFacts DEF Embeddings
<1>8. OnFile(j, f)
    <2>1. Active(j)'
        BY <1>2, FileStep
    <2> QED
        BY <1>1, <1>4, <1>5, <1>6, <1>7, <2>1, FileFrame DEF ChangesIn
<1>9. \A k \in Jobs : /\ chunks'[k][f].text = chunks[k][f].text
                      /\ chunks'[k][f].status = chunks[k][f].status
                      /\ chunks'[k][f].point = chunks[k][f].point
    BY <1>7 DEF ChangesIn, SameBut
<1>10. /\ At(j, f, {"mark"})
       /\ IsModified(j, f) => At(j, f, {"embed", "upsert", "mark", "replace"})'
       /\ ~IsModified(j, f) => ~At(j, f, AtFile)'
       /\ IsModified(j, f)' <=> IsModified(j, f)
    BY <1>1, <1>4, StepSets DEF At, Goes, IsModified, Known, Unchanged
<1>11. /\ \A k \in Jobs : ~At(k, f, {"chunks", "tidy"}) /\ ~At(k, f, {"unpoint", "tidy"})
                          /\ ~At(k, f, {"supersede"})
       /\ \A k \in Jobs \ {j} : ~At(k, f, {"embed", "upsert", "mark", "replace"})
    BY <1>2, <1>10 DEF At, AtFile, InFile
<1>12. /\ f \notin work[j].todo /\ work[j].seen[f] # Absent /\ docs[f].status = "active"
       /\ docs[f].hash = IF IsNew(j, f) THEN work[j].seen[f] ELSE work[j].known[f]
       /\ IsNew(j, f) => Beside(j, f, {})
       /\ IsModified(j, f) => Beside(j, f, work[j].old)
       /\ \A k \in Batch(j, f) : chunks[k][f].point # "none"
       /\ IsModified(j, f) => Leads(j, f)
    BY <1>1, <1>2, <1>10 DEF JobGood, InFileInv, At, InFile
<1>13. Stored(f)'
    BY <1>2, <1>5, <1>6, <1>7, <1>9, <1>11, <1>12 DEF Good, Stored, HasText
<1>14. Dying(f)'
    BY <1>2, <1>6, <1>9, <1>11 DEF Good, Dying
<1>15. Agreed(f)'
    BY <1>2, <1>5, <1>6, <1>9, <1>10, <1>11 DEF Good, Agreed
<1>16. Fresh(j, f)' /\ TidyInv(j, f)'
    BY <1>4, <1>12 DEF Fresh, TidyInv, At, Goes
<1>17. Planned(j, f)'
    <2>1. CASE IsModified(j, f)
        <3>1. At(j, f, InFile)'
            BY <1>10, <2>1 DEF At, InFile
        <3> QED
            BY <1>1, <1>2, <1>4, <1>5, <1>6, <1>12, <3>1, StepSets DEF JobGood, Planned, Goes
    <2>2. CASE ~IsModified(j, f)
        <3>1. \A k \in Jobs : chunks[k][f].status = "active" =>
                                  k \in Batch(j, f) \/ chunks[k][f].embedding = "indexed"
            BY <1>12, <2>2
            DEF Batch, NeedEmbedding, ActiveChunks, IsModified, IsNew, Known, Unchanged, Beside
        <3>2. docs[f].hash = work[j].seen[f]
            BY <1>12, <2>2 DEF IsModified, IsNew, Known, Unchanged
        <3>3. Searchable(f, work[j].seen[f])'
            BY <1>4, <1>5, <1>7, <1>9, <1>12, <3>1, <3>2 DEF Searchable, Goes
        <3> QED
            BY <1>1, <1>2, <1>4, <1>5, <1>6, <1>12, <3>3, StepSets DEF JobGood, Planned, Goes
    <2> QED
        BY <2>1, <2>2
<1>18. InFileInv(j, f)'
    <2>1. CASE IsModified(j, f)
        <3>1. chunks'[j][f].embedding = "indexed"
            BY <1>7, <2>1 DEF Batch, IsModified
        <3>2. work'[j].step = "replace"
            BY <1>4, <2>1 DEF Goes
        <3>3. Beside(j, f, work[j].old)' /\ Leads(j, f)'
            BY <1>4, <1>6, <1>9, <1>12, <2>1 DEF Beside, Leads, Goes
        <3>4. docs'[f].hash = work'[j].known[f]
            BY <1>4, <1>5, <1>12, <2>1 DEF Goes, IsNew, IsModified, Known
        <3> QED
            BY <1>4, <1>5, <1>10, <1>12, <2>1, <3>1, <3>2, <3>3, <3>4 DEF InFileInv, Goes
    <2>2. CASE ~IsModified(j, f)
        BY <1>10, <2>2 DEF InFileInv, At, AtFile, InFile
    <2> QED
        BY <2>1, <2>2
<1> QED
    BY <1>8, <1>9, <1>13, <1>14, <1>15, <1>16, <1>17, <1>18, GoodOfStep

LEMMA UpsertKeeps ==
    ASSUME KInv, NEW j \in Jobs, Upsert(j), NEW f \in Files, work[j].file = f
    PROVE  \A g \in Files : Good(g)'
<1> USE DEF counters, history
<1>1. work[j].step = "upsert" /\ work[j].step \in AtFile /\ work[j].step \in Looking /\ OfJob(j)
    BY DEF Upsert, OfJob, AtFile, Looking, InFile
<1>2. /\ JobInv /\ RestTyped /\ Good(f) /\ JobGood(j, f)
      /\ \A k \in Jobs \ {j} : ~At(k, f, AtFile) /\ ~At(k, f, AtFile)'
    BY <1>1, WhereAt
<1>3. Goes(j, "mark") /\ "mark" \in Looking
    BY <1>2, GoesTo, StepsAre DEF Upsert, Looking, InFile
<1>4. docs' = docs
    BY DEF Upsert
<1>5. UNCHANGED <<disk, raced, torn, hollow, unscanned, jobs>>
    BY DEF Upsert
<1>6. /\ ChangesIn(f, {"point"})
      /\ \A k \in Jobs : chunks'[k][f].point =
                             IF k \in Batch(j, f) THEN "active" ELSE chunks[k][f].point
    <2>1. chunks' = Pointed(f, Batch(j, f), "active")
        BY DEF Upsert, WithPoints, Pointed
    <2> QED
        BY <1>2, <2>1, PointsFacts DEF Points
<1>7. OnFile(j, f)
    <2>1. Active(j)'
        BY <1>2, FileStep
    <2> QED
        BY <1>1, <1>3, <1>4, <1>5, <1>6, <2>1, FileFrame DEF ChangesIn
<1>8. \A k \in Jobs : /\ chunks'[k][f].text = chunks[k][f].text
                      /\ chunks'[k][f].status = chunks[k][f].status
                      /\ chunks'[k][f].embedding = chunks[k][f].embedding
    BY <1>6 DEF ChangesIn, SameBut
<1>9. At(j, f, {"upsert"}) /\ At(j, f, {"mark"})'
    BY <1>1, <1>3 DEF At, Goes
<1>10. /\ \A k \in Jobs : ~At(k, f, {"chunks", "tidy"}) /\ ~At(k, f, {"unpoint", "tidy"})
                          /\ ~At(k, f, {"supersede"})
       /\ \A k \in Jobs \ {j} : ~At(k, f, {"embed", "upsert", "mark", "replace"})
    BY <1>2, <1>9 DEF At, AtFile, InFile
<1>11. /\ f \notin work[j].todo /\ work[j].seen[f] # Absent /\ docs[f].status = "active"
       /\ docs[f].hash = IF IsNew(j, f) THEN work[j].seen[f] ELSE work[j].known[f]
       /\ IsNew(j, f) => Beside(j, f, {})
       /\ IsModified(j, f) => Beside(j, f, work[j].old)
    BY <1>1, <1>2, <1>9 DEF JobGood, InFileInv, At, InFile
<1>12. \A k \in Batch(j, f) : k \in Jobs /\ chunks[k][f].status = "active"
    BY <1>11 DEF Batch, NeedEmbedding, ActiveChunks, IsModified, IsNew, Known, Unchanged, Beside
<1>13. Stored(f)'
    BY <1>2, <1>4, <1>5, <1>6, <1>8, <1>10, <1>11 DEF Good, Stored, HasText
<1>14. Dying(f)'
    BY <1>2, <1>5, <1>6, <1>8, <1>10, <1>12 DEF Good, Dying
<1>15. Agreed(f)'
    BY <1>2, <1>3, <1>4, <1>5, <1>8, <1>9, <1>10
    DEF Good, Agreed, At, IsModified, Known, Unchanged, Goes
<1>16. Fresh(j, f)' /\ TidyInv(j, f)'
    BY <1>3, <1>11 DEF Fresh, TidyInv, At, Goes
<1>17. Planned(j, f)'
    BY <1>1, <1>2, <1>3, <1>4, <1>5, <1>9, <1>11, StepSets DEF JobGood, Planned, At, Goes, InFile
<1>18. InFileInv(j, f)'
    <2>1. \A k \in Batch(j, f)' : k \in Batch(j, f)
        BY <1>3, <1>8 DEF Batch, NeedEmbedding, ActiveChunks, Known, Unchanged, Goes
    <2>2. \A k \in Batch(j, f)' : chunks'[k][f].point # "none"
        BY <1>6, <1>12, <2>1
    <2>3. IsModified(j, f)' => Leads(j, f)'
        BY <1>3, <1>6 DEF Batch, Leads, IsModified, Known, Unchanged, Goes
    <2>4. /\ IsNew(j, f)' <=> IsNew(j, f)
          /\ IsModified(j, f)' <=> IsModified(j, f)
        BY <1>3 DEF IsNew, IsModified, Known, Unchanged, Goes
    <2>5. /\ IsNew(j, f) => Beside(j, f, {})'
          /\ IsModified(j, f) => Beside(j, f, work[j].old)'
        BY <1>3, <1>5, <1>8, <1>11 DEF Beside, Goes
    <2>6. docs'[f].hash = IF IsNew(j, f)' THEN work'[j].seen[f] ELSE work'[j].known[f]
        BY <1>3, <1>4, <1>11, <2>4 DEF Goes
    <2>7. /\ work'[j].step = "mark" /\ f \notin work'[j].todo /\ work'[j].seen[f] # Absent
          /\ docs'[f].status = "active"
        BY <1>3, <1>4, <1>11 DEF Goes
    <2> QED
        BY <2>2, <2>3, <2>4, <2>5, <2>6, <2>7 DEF InFileInv
<1> QED
    BY <1>7, <1>8, <1>13, <1>14, <1>15, <1>16, <1>17, <1>18, GoodOfStep

LEMMA SaveChunksKeeps ==
    ASSUME KInv, NEW j \in Jobs, SaveChunks(j), NEW f \in Files, work[j].file = f
    PROVE  \A g \in Files : Good(g)'
<1> USE DEF counters, history
<1>1. work[j].step = "chunks" /\ work[j].step \in AtFile /\ work[j].step \in Looking /\ OfJob(j)
    BY DEF SaveChunks, OfJob, AtFile, Looking, InFile
<1>2. /\ JobInv /\ RestTyped /\ Good(f) /\ JobGood(j, f)
      /\ \A k \in Jobs \ {j} : ~At(k, f, AtFile) /\ ~At(k, f, AtFile)'
    BY <1>1, WhereAt
<1>3. Goes(j, "embed") /\ "embed" \in Looking
    BY <1>2, GoesTo, StepsAre DEF SaveChunks, Looking, InFile
<1>4. docs' = docs
    BY DEF SaveChunks
<1>5. UNCHANGED <<disk, raced, torn, hollow, unscanned, jobs>>
    BY DEF SaveChunks
<1>6. /\ \A k \in Jobs, g \in Files : k # j \/ g # f => chunks'[k][g] = chunks[k][g]
      /\ chunks'[j][f].text = work[j].text /\ chunks'[j][f].status = "active"
      /\ chunks'[j][f].embedding = "none" /\ chunks'[j][f].point = "none"
    <2>1. work[j].text \in Disk
        BY <1>2, TaskFields
    <2>2. chunks' = [chunks EXCEPT ![j][f] = NewChunk(work[j].text)]
        BY DEF SaveChunks
    <2> QED
        BY <1>2, <2>1, <2>2 DEF RestTyped, NewChunk, NoChunk
<1>7. OnFile(j, f)
    <2>1. Active(j)'
        BY <1>2, FileStep
    <2> QED
        BY <1>1, <1>3, <1>4, <1>5, <1>6, <2>1, FileFrame
<1>8. At(j, f, {"chunks"}) /\ At(j, f, {"embed"})'
    BY <1>1, <1>3 DEF At, Goes
<1>9. \A k \in Jobs : /\ ~At(k, f, {"unpoint", "tidy"}) /\ ~At(k, f, {"supersede"})
                      /\ ~At(k, f, {"embed", "upsert", "mark", "replace"})
    BY <1>2, <1>8 DEF At, AtFile, InFile
<1>10. /\ f \notin work[j].todo /\ work[j].seen[f] # Absent /\ docs[f].status = "active"
       /\ IsNew(j, f) /\ docs[f].hash = work[j].seen[f]
       /\ \A k \in Jobs : chunks[k][f].status # "active"
       /\ f \notin raced => work[j].text = work[j].seen[f]
    BY <1>1, <1>2, <1>8 DEF JobGood, InFileInv, At, InFile
<1>11. Stored(f)'
    BY <1>2, <1>4, <1>5, <1>6, <1>10 DEF Good, Stored, HasText
<1>12. Dying(f)'
    BY <1>2, <1>5, <1>6, <1>9 DEF Good, Dying
<1>13. Agreed(f)'
    BY <1>4, <1>5, <1>6, <1>10 DEF Agreed
<1>14. Fresh(j, f)' /\ TidyInv(j, f)'
    BY <1>3, <1>10 DEF Fresh, TidyInv, At, Goes
<1>15. Planned(j, f)'
    BY <1>1, <1>2, <1>3, <1>4, <1>5, <1>8, <1>10, StepSets DEF JobGood, Planned, At, Goes, InFile
<1>16. InFileInv(j, f)'
    <2>1. IsNew(j, f)' /\ ~IsModified(j, f)'
        BY <1>3, <1>10 DEF IsNew, IsModified, Known, Goes
    <2>2. Beside(j, f, {})'
        BY <1>3, <1>5, <1>6, <1>10 DEF Beside, Goes
    <2>3. /\ work'[j].step = "embed" /\ f \notin work'[j].todo /\ work'[j].seen[f] # Absent
          /\ docs'[f].status = "active" /\ docs'[f].hash = work'[j].seen[f]
        BY <1>3, <1>4, <1>10 DEF Goes
    <2> QED
        BY <2>1, <2>2, <2>3 DEF InFileInv
<1> QED
    BY <1>6, <1>7, <1>11, <1>12, <1>13, <1>14, <1>15, <1>16, GoodOfStep

LEMMA ReplaceDocumentKeeps ==
    ASSUME KInv, NEW j \in Jobs, ReplaceDocument(j), NEW f \in Files, work[j].file = f
    PROVE  \A g \in Files : Good(g)'
<1> USE DEF counters, history
<1>1. work[j].step = "replace" /\ work[j].step \in AtFile /\ work[j].step \in Looking /\ OfJob(j)
    BY DEF ReplaceDocument, OfJob, AtFile, Looking, InFile
<1>2. /\ JobInv /\ RestTyped /\ Good(f) /\ JobGood(j, f)
      /\ \A k \in Jobs \ {j} : ~At(k, f, AtFile) /\ ~At(k, f, AtFile)'
    BY <1>1, WhereAt
<1>3. PICK t \in {"supersede", "loop"} : t = IF work[j].old = {} THEN "loop" ELSE "supersede"
    OBVIOUS
<1>4. /\ Goes(j, t) /\ t \in Looking
      /\ work[j].old = {} => t = "loop"
      /\ work[j].old # {} => t = "supersede"
    <2>1. To(j, t) /\ t \in Steps
        BY <1>3, StepsAre DEF ReplaceDocument
    <2> QED
        BY <1>2, <1>3, <2>1, GoesTo DEF Looking, InFile
<1>5. /\ docs'[f].status = docs[f].status /\ docs'[f].hash = work[j].seen[f]
      /\ \A g \in Files \ {f} : docs'[g] = docs[g]
    <2>1. docs \in [Files -> Doc] /\ docs' = [docs EXCEPT ![f].hash = work[j].seen[f]]
        BY <1>2 DEF ReplaceDocument, JobInv, Typed
    <2> QED
        BY <2>1 DEF Doc
<1>6. UNCHANGED <<chunks, disk, raced, torn, unscanned, jobs>> /\ hollow' = hollow \ {f}
    BY DEF ReplaceDocument
<1>7. OnFile(j, f)
    <2>1. Active(j)'
        BY <1>2, FileStep
    <2> QED
        BY <1>1, <1>4, <1>5, <1>6, <2>1, FileFrame
<1>8. /\ At(j, f, {"replace"})
      /\ work[j].old # {} => At(j, f, {"supersede"})'
      /\ work[j].old = {} => ~At(j, f, AtFile)'
    BY <1>1, <1>4, StepSets DEF At, Goes
<1>9. \A k \in Jobs : ~At(k, f, {"unpoint", "tidy"})
    BY <1>2, <1>8 DEF At, AtFile, InFile
<1>10. /\ f \notin work[j].todo /\ work[j].seen[f] # Absent /\ docs[f].status = "active"
       /\ IsModified(j, f) /\ chunks[j][f].embedding = "indexed"
       /\ Beside(j, f, work[j].old) /\ Leads(j, f)
    BY <1>1, <1>2, <1>8 DEF JobGood, InFileInv, At, InFile
<1>11. Stored(f)'
    BY <1>2, <1>5, <1>6, <1>10 DEF Good, Stored, HasText, Beside
<1>12. Dying(f)'
    BY <1>2, <1>6, <1>9 DEF Good, Dying
<1>13. Agreed(f)'
    BY <1>4, <1>5, <1>6, <1>8, <1>10 DEF Agreed, Beside, Goes
<1>14. Fresh(j, f)' /\ TidyInv(j, f)'
    BY <1>4, <1>10 DEF Fresh, TidyInv, At, Goes
<1>15. Planned(j, f)'
    <2>1. work[j].old = {} => Searchable(f, work[j].seen[f])'
        BY <1>4, <1>5, <1>6, <1>10 DEF Searchable, Beside, Goes
    <2>2. work[j].old # {} => At(j, f, InFile)'
        BY <1>8 DEF At, InFile
    <2> QED
        BY <1>1, <1>2, <1>4, <1>5, <1>6, <1>10, <2>1, <2>2, StepSets DEF JobGood, Planned, Goes
<1>16. InFileInv(j, f)'
    <2>1. CASE work[j].old = {}
        BY <1>8, <2>1 DEF InFileInv, At, AtFile, InFile
    <2>2. CASE work[j].old # {}
        <3>1. IsModified(j, f)' /\ Beside(j, f, work[j].old)' /\ Leads(j, f)'
            BY <1>4, <1>6, <1>10 DEF IsModified, Known, Unchanged, Beside, Leads, Goes
        <3>2. /\ work'[j].step = "supersede" /\ f \notin work'[j].todo /\ work'[j].seen[f] # Absent
              /\ docs'[f].status = "active" /\ docs'[f].hash = work'[j].seen[f]
              /\ chunks'[j][f].embedding = "indexed"
            BY <1>4, <1>5, <1>6, <1>10, <2>2 DEF Goes
        <3> QED
            BY <3>1, <3>2 DEF InFileInv
    <2> QED
        BY <2>1, <2>2
<1> QED
    BY <1>6, <1>7, <1>11, <1>12, <1>13, <1>14, <1>15, <1>16, GoodOfStep

LEMMA SupersedeOldKeeps ==
    ASSUME KInv, NEW j \in Jobs, SupersedeOld(j), NEW f \in Files, work[j].file = f
    PROVE  \A g \in Files : Good(g)'
<1> USE DEF counters, history
<1>1. work[j].step = "supersede" /\ work[j].step \in AtFile /\ work[j].step \in Looking /\ OfJob(j)
    BY DEF SupersedeOld, OfJob, AtFile, Looking, InFile
<1>2. /\ JobInv /\ RestTyped /\ Good(f) /\ JobGood(j, f)
      /\ \A k \in Jobs \ {j} : ~At(k, f, AtFile) /\ ~At(k, f, AtFile)'
    BY <1>1, WhereAt
<1>3. Goes(j, "unpoint") /\ "unpoint" \in Looking
    BY <1>2, GoesTo, StepsAre DEF SupersedeOld, Looking, InFile
<1>4. docs' = docs
    BY DEF SupersedeOld
<1>5. UNCHANGED <<disk, raced, torn, hollow, unscanned, jobs>>
    BY DEF SupersedeOld
<1>6. /\ ChangesIn(f, {"status"})
      /\ \A k \in Jobs : chunks'[k][f].status =
                             IF k \in work[j].old THEN "superseded" ELSE chunks[k][f].status
    BY <1>2, SupersedeFacts DEF SupersedeOld
<1>7. OnFile(j, f)
    <2>1. Active(j)'
        BY <1>2, FileStep
    <2> QED
        BY <1>1, <1>3, <1>4, <1>5, <1>6, <2>1, FileFrame DEF ChangesIn
<1>8. \A k \in Jobs : /\ chunks'[k][f].text = chunks[k][f].text
                      /\ chunks'[k][f].embedding = chunks[k][f].embedding
                      /\ chunks'[k][f].point = chunks[k][f].point
    BY <1>6 DEF ChangesIn, SameBut
<1>9. At(j, f, {"supersede"}) /\ At(j, f, {"unpoint", "tidy"})'
    BY <1>1, <1>3 DEF At, Goes
<1>10. \A k \in Jobs : ~At(k, f, {"unpoint", "tidy"})
    BY <1>2, <1>9 DEF At, AtFile, InFile
<1>11. /\ f \notin work[j].todo /\ work[j].seen[f] # Absent /\ docs[f].status = "active"
       /\ IsModified(j, f) /\ chunks[j][f].embedding = "indexed"
       /\ docs[f].hash = work[j].seen[f]
       /\ Beside(j, f, work[j].old)
    BY <1>1, <1>2, <1>9 DEF JobGood, InFileInv, At, InFile
<1>12. \A k \in Jobs : chunks'[k][f].status = "active" <=> k = j
    BY <1>6, <1>11 DEF Beside
<1>13. Stored(f)'
    BY <1>2, <1>4, <1>5, <1>6, <1>8, <1>11, <1>12 DEF Good, Stored, HasText, Beside
<1>14. Dying(f)'
    BY <1>2, <1>3, <1>5, <1>6, <1>8, <1>9, <1>10 DEF Good, Dying, Goes
<1>15. Agreed(f)'
    BY <1>4, <1>5, <1>8, <1>11, <1>12 DEF Agreed, Beside
<1>16. Fresh(j, f)' /\ TidyInv(j, f)'
    BY <1>3, <1>11 DEF Fresh, TidyInv, At, Goes
<1>17. Planned(j, f)'
    BY <1>1, <1>2, <1>3, <1>4, <1>5, <1>9, <1>11, StepSets DEF JobGood, Planned, At, Goes, InFile
<1>18. InFileInv(j, f)'
    <2>1. IsModified(j, f)' /\ Beside(j, f, {})' /\ j \notin work'[j].old
        BY <1>3, <1>5, <1>8, <1>11, <1>12 DEF IsModified, Known, Unchanged, Beside, Goes
    <2>2. /\ work'[j].step = "unpoint" /\ f \notin work'[j].todo /\ work'[j].seen[f] # Absent
          /\ docs'[f].status = "active" /\ docs'[f].hash = work'[j].seen[f]
          /\ chunks'[j][f].embedding = "indexed"
        BY <1>3, <1>4, <1>8, <1>11 DEF Goes
    <2> QED
        BY <2>1, <2>2 DEF InFileInv
<1>19. \A k \in Jobs : chunks[k][f].status = "none" => chunks'[k][f].status = "none"
    BY <1>6, <1>11 DEF Beside
<1> QED
    BY <1>7, <1>13, <1>14, <1>15, <1>16, <1>17, <1>18, <1>19, GoodOfStep

LEMMA DeletePointsKeeps ==
    ASSUME KInv, NEW j \in Jobs, DeletePoints(j), NEW f \in Files, work[j].file = f
    PROVE  \A g \in Files : Good(g)'
<1> USE DEF counters, history
<1>1. work[j].step = "unpoint" /\ work[j].step \in AtFile /\ work[j].step \in Looking /\ OfJob(j)
    BY DEF DeletePoints, OfJob, AtFile, Looking, InFile
<1>2. /\ JobInv /\ RestTyped /\ Good(f) /\ JobGood(j, f)
      /\ \A k \in Jobs \ {j} : ~At(k, f, AtFile) /\ ~At(k, f, AtFile)'
    BY <1>1, WhereAt
<1>3. Goes(j, "loop") /\ "loop" \in Looking
    BY <1>2, GoesTo, StepsAre DEF DeletePoints, Looking, InFile
<1>4. docs' = docs
    BY DEF DeletePoints
<1>5. UNCHANGED <<disk, raced, torn, hollow, unscanned, jobs>>
    BY DEF DeletePoints
<1>6. /\ ChangesIn(f, {"point"})
      /\ \A k \in Jobs : chunks'[k][f].point =
                             IF k \in work[j].old THEN "none" ELSE chunks[k][f].point
    <2>1. chunks' = Pointed(f, work[j].old, "none")
        BY DEF DeletePoints, WithoutPoints, Pointed
    <2> QED
        BY <1>2, <2>1, PointsFacts DEF Points
<1>7. OnFile(j, f)
    <2>1. Active(j)'
        BY <1>2, FileStep
    <2> QED
        BY <1>1, <1>3, <1>4, <1>5, <1>6, <2>1, FileFrame DEF ChangesIn
<1>8. \A k \in Jobs : /\ chunks'[k][f].text = chunks[k][f].text
                      /\ chunks'[k][f].embedding = chunks[k][f].embedding
                      /\ chunks'[k][f].status = chunks[k][f].status
    BY <1>6 DEF ChangesIn, SameBut
<1>9. At(j, f, {"unpoint"}) /\ ~At(j, f, AtFile)'
    BY <1>1, <1>3, StepSets DEF At, Goes
<1>10. /\ \A k \in Jobs : ~At(k, f, {"chunks", "tidy"})
                          /\ ~At(k, f, {"supersede"})
                          /\ ~At(k, f, {"embed", "upsert", "mark", "replace"})
       /\ \A k \in Jobs \ {j} : ~At(k, f, {"unpoint", "tidy"})
    BY <1>2, <1>9 DEF At, AtFile, InFile
<1>11. /\ f \notin work[j].todo /\ work[j].seen[f] # Absent /\ docs[f].status = "active"
       /\ chunks[j][f].embedding = "indexed"
       /\ docs[f].hash = work[j].seen[f]
       /\ Beside(j, f, {}) /\ j \notin work[j].old
    BY <1>1, <1>2, <1>9 DEF JobGood, InFileInv, At, InFile
<1>12. \A k \in Jobs : chunks'[k][f].status = "active" <=> k = j
    BY <1>8, <1>11 DEF Beside
<1>13. Stored(f)'
    BY <1>2, <1>4, <1>5, <1>6, <1>8, <1>10, <1>11, <1>12 DEF Good, Stored, HasText
<1>14. Dying(f)'
    BY <1>2, <1>5, <1>6, <1>8, <1>10 DEF Good, Dying
<1>15. Agreed(f)'
    BY <1>4, <1>5, <1>8, <1>11, <1>12 DEF Agreed, Beside
<1>16. Fresh(j, f)' /\ TidyInv(j, f)' /\ InFileInv(j, f)'
    BY <1>3, <1>9, <1>11, StepSets DEF Fresh, TidyInv, InFileInv, At, Goes
<1>17. Planned(j, f)'
    <2>1. Searchable(f, work[j].seen[f])'
        BY <1>3, <1>4, <1>8, <1>11, <1>12 DEF Searchable, Goes
    <2> QED
        BY <1>1, <1>2, <1>3, <1>4, <1>5, <1>11, <2>1, StepSets DEF JobGood, Planned, Goes
<1> QED
    BY <1>7, <1>8, <1>13, <1>14, <1>15, <1>16, <1>17, GoodOfStep

LEMMA FileFailsKeeps ==
    ASSUME KInv, NEW j \in Jobs, FileFails(j), NEW f \in Files, work[j].file = f
    PROVE  \A g \in Files : Good(g)'
<1> USE DEF counters, index
<1>1. work[j].step \in InFile /\ work[j].step \in AtFile /\ work[j].step \in Looking /\ OfJob(j)
    BY DEF FileFails, OfJob, AtFile, Looking, InFile
<1>2. /\ JobInv /\ RestTyped /\ Good(f) /\ JobGood(j, f)
      /\ \A k \in Jobs \ {j} : ~At(k, f, AtFile) /\ ~At(k, f, AtFile)'
    BY <1>1, WhereAt
<1>3. Goes(j, "loop") /\ "loop" \in Looking
    BY <1>2, GoesTo, StepsAre DEF FileFails, Looking, InFile
<1>4. UNCHANGED <<chunks, docs, disk, raced, unscanned>>
    BY DEF FileFails
<1>5. /\ hollow' = hollow \union IF work[j].step \in {"chunks", "tidy"} THEN {f} ELSE {}
      /\ torn' = torn \union {f} /\ jobs'[j].failed
    <2>1. Leave({j}) /\ jobs' = [jobs EXCEPT ![j].failed = TRUE]
        BY DEF FileFails
    <2>2. jobs'[j].failed
        BY <1>2, <2>1 DEF JobInv, Typed, Row
    <2> QED
        BY <1>1, <2>1, <2>2, LeaveFacts
<1>6. OnFile(j, f)
    <2>1. Active(j)'
        BY <1>2, FileStep
    <2> QED
        BY <1>1, <1>3, <1>4, <1>5, <2>1, FileFrame
<1>7. At(j, f, InFile) /\ ~At(j, f, AtFile)'
    BY <1>1, <1>3, StepSets DEF At, Goes
<1>8. \/ f \in hollow'
      \/ f \notin hollow' /\ f \notin hollow /\ \A k \in Jobs : ~At(k, f, {"chunks", "tidy"})
    BY <1>2, <1>5, <1>7 DEF At, AtFile, InFile
<1>9. Stored(f)'
    BY <1>2, <1>4, <1>8 DEF Good, Stored, HasText
<1>10. Dying(f)' /\ Agreed(f)'
    BY <1>5 DEF Dying, Agreed
<1>11. f \notin work[j].todo /\ work[j].seen[f] # Absent
    BY <1>2, <1>7 DEF JobGood, InFileInv
<1>12. Fresh(j, f)' /\ TidyInv(j, f)' /\ InFileInv(j, f)'
    BY <1>3, <1>7, <1>11, StepSets DEF Fresh, TidyInv, InFileInv, At, Goes
<1>13. Planned(j, f)'
    BY <1>1, <1>2, <1>3, <1>4, <1>5, <1>11, StepSets DEF JobGood, Planned, At, Goes
<1> QED
    BY <1>4, <1>6, <1>9, <1>10, <1>12, <1>13, GoodOfStep

LEMMA MarkMissingKeeps ==
    ASSUME KInv, NEW j \in Jobs, MarkMissing(j), NEW f \in Files, work[j].file = f
    PROVE  \A g \in Files : Good(g)'
<1> USE DEF counters, history
<1>1. work[j].step = "tidy" /\ work[j].step \in AtFile /\ work[j].step \in Looking /\ OfJob(j)
    BY DEF MarkMissing, OfJob, AtFile, Looking, InFile
<1>2. /\ JobInv /\ RestTyped /\ Good(f) /\ JobGood(j, f)
      /\ \A k \in Jobs \ {j} : ~At(k, f, AtFile) /\ ~At(k, f, AtFile)'
    BY <1>1, WhereAt
<1>3. Goes(j, "loop") /\ "loop" \in Looking
    BY <1>2, GoesTo, StepsAre DEF MarkMissing, Looking, InFile
<1>4. docs'[f].status = "missing" /\ \A g \in Files \ {f} : docs'[g] = docs[g]
    <2>1. docs \in [Files -> Doc] /\ docs' = [docs EXCEPT ![f].status = "missing"]
        BY <1>2 DEF MarkMissing, JobInv, Typed
    <2> QED
        BY <2>1 DEF Doc
<1>5. UNCHANGED <<disk, raced, torn, hollow, unscanned, jobs>>
    BY DEF MarkMissing
<1>6. /\ ChangesIn(f, {"point"})
      /\ work[j].old # {} => \A k \in Jobs : chunks'[k][f].point = "none"
      /\ work[j].old = {} => \A k \in Jobs : chunks'[k][f].point = chunks[k][f].point
    <2>1. CASE work[j].old = {}
        <3>1. chunks' = chunks
            BY <2>1 DEF MarkMissing
        <3> QED
            BY <1>2, <2>1, <3>1 DEF ChangesIn, SameBut, RestTyped
    <2>2. CASE work[j].old # {}
        <3>1. chunks' = Pointed(f, Jobs, "none")
            BY <2>2 DEF MarkMissing, WithoutPoints, Pointed
        <3> QED
            BY <1>2, <2>2, <3>1, PointsFacts DEF Points
    <2> QED
        BY <2>1, <2>2
<1>7. OnFile(j, f)
    <2>1. Active(j)'
        BY <1>2, FileStep
    <2> QED
        BY <1>1, <1>3, <1>4, <1>5, <1>6, <2>1, FileFrame DEF ChangesIn
<1>8. \A k \in Jobs : /\ chunks'[k][f].text = chunks[k][f].text
                      /\ chunks'[k][f].embedding = chunks[k][f].embedding
                      /\ chunks'[k][f].status = chunks[k][f].status
    BY <1>6 DEF ChangesIn, SameBut
<1>9. At(j, f, {"tidy"}) /\ ~At(j, f, AtFile)'
    BY <1>1, <1>3, StepSets DEF At, Goes
<1>10. \A k \in Jobs \ {j} : ~At(k, f, {"unpoint", "tidy"})
    BY <1>2 DEF At, AtFile, InFile
<1>11. /\ work[j].todo = {} /\ work[j].seen[f] = Absent
       /\ \A k \in Jobs : chunks[k][f].status # "active"
    BY <1>2, <1>9 DEF JobGood, TidyInv
<1>12. Stored(f)'
    BY <1>4, <1>8, <1>11 DEF Stored
<1>13. Dying(f)'
    BY <1>2, <1>5, <1>6, <1>8, <1>10 DEF Good, Dying
<1>14. Agreed(f)'
    BY <1>8, <1>11 DEF Agreed
<1>15. Fresh(j, f)' /\ TidyInv(j, f)' /\ InFileInv(j, f)'
    BY <1>3, <1>9, <1>11, StepSets DEF Fresh, TidyInv, InFileInv, At, AtFile, Goes
<1>16. Planned(j, f)'
    BY <1>1, <1>2, <1>3, <1>4, <1>5, <1>11, StepSets DEF JobGood, Planned, Goes
<1> QED
    BY <1>7, <1>8, <1>12, <1>13, <1>14, <1>15, <1>16, GoodOfStep

-------------------------------------------------------------------------------
(* A job takes a file *)

\* The job goes from its loop to step s of file f.
Comes(j, f, s) ==
    /\ work'[j].step = s /\ work'[j].file = f /\ work'[j].todo = work[j].todo \ {f}
    /\ work'[j].seen = work[j].seen /\ work'[j].known = work[j].known

\* The frame of a step that takes a file.
LEMMA TakeFrame ==
    ASSUME KInv, NEW j \in Jobs, work[j].step = "loop", OfJob(j), Active(j)',
           NEW f \in Files, NEW s \in Looking, Comes(j, f, s),
           jobs[j].failed => jobs'[j].failed,
           disk' = disk, raced' = raced, unscanned' = unscanned, torn' = torn, hollow' = hollow,
           \A g \in Files \ {f} :
               /\ docs'[g] = docs[g]
               /\ \A k \in Jobs : chunks'[k][g] = chunks[k][g]
    PROVE  OnFile(j, f)
<1>1. StepOf(j) /\ work[j].step \in Looking
    BY JobStep, StepSets DEF KInv
<1>2. \A g \in Files \ {f} : ~At(j, g, AtFile) /\ ~At(j, g, AtFile)'
    BY StepSets DEF At, Comes
<1> QED
    BY <1>1, <1>2 DEF OnFile, Comes

\* What a job at its loop knows of a file it takes.
LEMMA WhereLoop ==
    ASSUME KInv, NEW j \in Jobs, work[j].step = "loop", OfJob(j), NEW f \in Files
    PROVE  /\ JobInv /\ RestTyped /\ Good(f) /\ JobGood(j, f)
           /\ \A k \in Jobs : ~At(k, f, AtFile)
           /\ \A k \in Jobs \ {j} : ~At(k, f, AtFile)'
           /\ \A k \in Jobs :
                  /\ ~At(k, f, {"chunks", "tidy"}) /\ ~At(k, f, {"unpoint", "tidy"})
                  /\ ~At(k, f, {"supersede"}) /\ ~At(k, f, {"embed", "upsert", "mark", "replace"})
<1>1. /\ JobInv /\ RestTyped /\ Good(f) /\ JobGood(j, f)
      /\ \A k \in Jobs \ {j} : ~At(k, f, AtFile) /\ ~At(k, f, AtFile)'
    BY WhereAt, StepSets
<1>2. ~At(j, f, AtFile)
    BY StepSets DEF At
<1>3. \A k \in Jobs : ~At(k, f, AtFile)
    BY <1>1, <1>2
<1> QED
    BY <1>1, <1>3 DEF At, AtFile, InFile

LEMMA TakeUnchangedKeeps ==
    ASSUME KInv, NEW j \in Jobs, NEW f \in Files, TakeUnchanged(j, f)
    PROVE  \A g \in Files : Good(g)'
<1> USE DEF counters, index, history
<1>1. work[j].step = "loop" /\ f \in work[j].todo /\ OfJob(j)
      /\ work[j].known[f] # Absent /\ work[j].known[f] = work[j].seen[f]
    BY DEF TakeUnchanged, Takes, OfJob, Known, Unchanged
<1>2. /\ JobInv /\ RestTyped /\ Good(f) /\ JobGood(j, f)
      /\ \A k \in Jobs : ~At(k, f, AtFile)
      /\ \A k \in Jobs \ {j} : ~At(k, f, AtFile)'
      /\ \A k \in Jobs :
            /\ ~At(k, f, {"chunks", "tidy"}) /\ ~At(k, f, {"unpoint", "tidy"})
            /\ ~At(k, f, {"supersede"}) /\ ~At(k, f, {"embed", "upsert", "mark", "replace"})
    BY <1>1, WhereLoop
<1>3. PICK s \in {"loop", "embed"} : s = IF NeedEmbedding(f) = {} THEN "loop" ELSE "embed"
    OBVIOUS
<1>4. /\ Comes(j, f, s) /\ s \in Looking
      /\ NeedEmbedding(f) = {} => s = "loop"
      /\ NeedEmbedding(f) # {} => s = "embed"
    <2>1. work[j] \in Task /\ work \in [Jobs -> Task]
        BY <1>2 DEF JobInv, Typed
    <2>2. work'[j] = [work[j] EXCEPT !.todo = @ \ {f}, !.file = f, !.step = s]
        BY <1>3, <2>1 DEF TakeUnchanged
    <2> QED
        BY <1>3, <2>1, <2>2 DEF Comes, Task, Looking, InFile
<1>5. UNCHANGED <<disk, chunks, docs, jobs, raced, torn, hollow, unscanned>>
    BY DEF TakeUnchanged
<1>6. OnFile(j, f)
    <2>1. Active(j)'
        BY <1>2, TakeStep
    <2> QED
        BY <1>1, <1>4, <1>5, <2>1, TakeFrame
<1>7. /\ work[j].seen[f] # Absent /\ docs[f].status = "active" /\ docs[f].hash = work[j].seen[f]
    BY <1>1, <1>2, StepSets DEF JobGood, Planned
<1>8. Stored(f)'
    BY <1>2, <1>5 DEF Good, Stored, HasText
<1>9. Dying(f)'
    BY <1>2, <1>5 DEF Good, Dying
<1>10. Agreed(f)'
    BY <1>2, <1>5 DEF Good, Agreed
<1>11. Fresh(j, f)' /\ TidyInv(j, f)'
    BY <1>4 DEF Fresh, TidyInv, At, Comes
<1>12. s = "embed" => At(j, f, InFile)'
    BY <1>4 DEF At, Comes, InFile
<1>13. Planned(j, f)'
    <2>1. s = "loop" => Searchable(f, work[j].seen[f])'
        BY <1>4, <1>5, <1>7 DEF Searchable, NeedEmbedding, ActiveChunks, Comes
    <2> QED
        BY <1>1, <1>2, <1>4, <1>5, <1>7, <1>12, <2>1, StepSets DEF JobGood, Planned, Comes
<1>14. InFileInv(j, f)'
    <2>1. ~IsNew(j, f)' /\ ~IsModified(j, f)'
        BY <1>1, <1>4 DEF IsNew, IsModified, Known, Unchanged, Comes
    <2>2. /\ f \notin work'[j].todo /\ work'[j].seen[f] # Absent /\ docs'[f].status = "active"
          /\ docs'[f].hash = work'[j].known[f]
        BY <1>1, <1>4, <1>5, <1>7 DEF Comes
    <2>3. work'[j].step \in {"loop", "embed"}
        BY <1>4 DEF Comes
    <2> QED
        BY <2>1, <2>2, <2>3 DEF InFileInv
<1> QED
    BY <1>5, <1>6, <1>8, <1>9, <1>10, <1>11, <1>13, <1>14, GoodOfStep

LEMMA TakeModifiedKeeps ==
    ASSUME KInv, NEW j \in Jobs, NEW f \in Files, TakeModified(j, f)
    PROVE  \A g \in Files : Good(g)'
<1> USE DEF counters, index, history
<1>1. work[j].step = "loop" /\ f \in work[j].todo /\ OfJob(j)
      /\ work[j].known[f] # Absent /\ work[j].known[f] # work[j].seen[f]
    BY DEF TakeModified, Takes, OfJob, Known, Unchanged
<1>2. /\ JobInv /\ RestTyped /\ Good(f) /\ JobGood(j, f)
      /\ \A k \in Jobs : ~At(k, f, AtFile)
      /\ \A k \in Jobs \ {j} : ~At(k, f, AtFile)'
      /\ \A k \in Jobs :
            /\ ~At(k, f, {"chunks", "tidy"}) /\ ~At(k, f, {"unpoint", "tidy"})
            /\ ~At(k, f, {"supersede"}) /\ ~At(k, f, {"embed", "upsert", "mark", "replace"})
    BY <1>1, WhereLoop
<1>3. Comes(j, f, "embed") /\ "embed" \in Looking /\ work'[j].old = ActiveChunks(f)
    <2>1. work[j] \in Task /\ work \in [Jobs -> Task]
        BY <1>2 DEF JobInv, Typed
    <2>2. work'[j] = [work[j] EXCEPT !.todo = @ \ {f}, !.file = f, !.step = "embed",
                                     !.old = ActiveChunks(f)]
        BY <2>1 DEF TakeModified
    <2> QED
        BY <2>1, <2>2 DEF Comes, Task, Looking, InFile
<1>4. UNCHANGED <<disk, docs, jobs, raced, torn, hollow, unscanned>>
    BY DEF TakeModified
<1>5. /\ \A k \in Jobs, g \in Files : k # j \/ g # f => chunks'[k][g] = chunks[k][g]
      /\ chunks'[j][f].text = disk[f] /\ chunks'[j][f].status = "active"
      /\ chunks'[j][f].embedding = "none" /\ chunks'[j][f].point = "none"
    <2>1. chunks' = [chunks EXCEPT ![j][f] = NewChunk(disk[f])]
        BY DEF TakeModified
    <2> QED
        BY <1>2, <2>1 DEF RestTyped, NewChunk, NoChunk
<1>6. OnFile(j, f)
    <2>1. Active(j)'
        BY <1>2, TakeStep
    <2> QED
        BY <1>1, <1>3, <1>4, <1>5, <2>1, TakeFrame
<1>7. /\ work[j].seen[f] # Absent /\ docs[f].status = "active" /\ docs[f].hash = work[j].known[f]
      /\ f \notin raced => disk[f] = work[j].seen[f]
    BY <1>1, <1>2, StepSets DEF JobGood, Planned
<1>8. chunks[j][f].status = "none"
    BY <1>1, <1>2, StepSets DEF JobGood, Fresh
<1>9. At(j, f, {"embed", "upsert", "mark", "replace"})' /\ IsModified(j, f)'
    BY <1>1, <1>3 DEF At, Comes, IsModified, Known, Unchanged
<1>10. Stored(f)'
    BY <1>2, <1>4, <1>5, <1>7, <1>8 DEF Good, Stored, HasText
<1>11. Dying(f)'
    BY <1>2, <1>4, <1>5 DEF Good, Dying
<1>12. Agreed(f)'
    BY <1>2, <1>4, <1>5, <1>9 DEF Good, Agreed
<1>13. Fresh(j, f)' /\ TidyInv(j, f)'
    BY <1>3 DEF Fresh, TidyInv, At, Comes
<1>14. Planned(j, f)'
    <2>1. At(j, f, InFile)'
        BY <1>3 DEF At, Comes, InFile
    <2> QED
        BY <1>1, <1>2, <1>3, <1>4, <1>7, <2>1, StepSets DEF JobGood, Planned, Comes
<1>15. InFileInv(j, f)'
    <2>1. ~IsNew(j, f)'
        BY <1>1, <1>3 DEF IsNew, Comes
    <2>2. Beside(j, f, work[j].old)'
        BY <1>3, <1>4, <1>5, <1>7, <1>8 DEF Beside, ActiveChunks, Comes
    <2>3. /\ f \notin work'[j].todo /\ work'[j].seen[f] # Absent /\ docs'[f].status = "active"
          /\ docs'[f].hash = work'[j].known[f] /\ work'[j].step = "embed"
        BY <1>1, <1>3, <1>4, <1>7 DEF Comes
    <2> QED
        BY <2>1, <2>2, <2>3 DEF InFileInv
<1> QED
    BY <1>5, <1>6, <1>10, <1>11, <1>12, <1>13, <1>14, <1>15, GoodOfStep

LEMMA TakeNewKeeps ==
    ASSUME KInv, NEW j \in Jobs, NEW f \in Files, TakeNew(j, f)
    PROVE  \A g \in Files : Good(g)'
<1> USE DEF counters, index, history
<1>1. /\ work[j].step = "loop" /\ f \in work[j].todo /\ OfJob(j)
      /\ work[j].known[f] = Absent /\ docs[f].status = "none"
    BY DEF TakeNew, Takes, OfJob, Known
<1>2. /\ JobInv /\ RestTyped /\ Good(f) /\ JobGood(j, f)
      /\ \A k \in Jobs : ~At(k, f, AtFile)
      /\ \A k \in Jobs \ {j} : ~At(k, f, AtFile)'
    BY <1>1, WhereLoop
<1>3. /\ Comes(j, f, "chunks") /\ "chunks" \in Looking
      /\ work'[j].text = disk[f] /\ work'[j].old = {}
    <2>1. work[j] \in Task /\ work \in [Jobs -> Task]
        BY <1>2 DEF JobInv, Typed
    <2>2. work'[j] = [work[j] EXCEPT !.todo = @ \ {f}, !.file = f, !.step = "chunks",
                                     !.text = disk[f], !.old = {}]
        BY <2>1 DEF TakeNew
    <2> QED
        BY <2>1, <2>2 DEF Comes, Task, Looking, InFile
<1>4. UNCHANGED <<disk, chunks, jobs, raced, torn, hollow, unscanned>>
    BY DEF TakeNew
<1>5. /\ docs'[f].status = "active" /\ docs'[f].hash = work[j].seen[f]
      /\ \A g \in Files \ {f} : docs'[g] = docs[g]
    BY <1>2 DEF TakeNew, JobInv, Typed
<1>6. OnFile(j, f)
    <2>1. Active(j)'
        BY <1>2, TakeStep
    <2> QED
        BY <1>1, <1>3, <1>4, <1>5, <2>1, TakeFrame
<1>7. work[j].seen[f] # Absent /\ (f \notin raced => disk[f] = work[j].seen[f])
    BY <1>1, <1>2, StepSets DEF JobGood, Planned
<1>8. \A k \in Jobs : chunks[k][f].status = "none"
    BY <1>1, <1>2 DEF Good, Stored
<1>9. At(j, f, {"chunks", "tidy"})' /\ At(j, f, InFile)'
    BY <1>3 DEF At, Comes, InFile
<1>10. Stored(f)'
    BY <1>4, <1>5, <1>7, <1>8, <1>9 DEF Stored
<1>11. Dying(f)' /\ Agreed(f)'
    BY <1>4, <1>8 DEF Dying, Agreed
<1>12. Fresh(j, f)' /\ TidyInv(j, f)'
    BY <1>3, <1>4, <1>8 DEF Fresh, TidyInv, At, Comes
<1>13. Planned(j, f)'
    BY <1>1, <1>2, <1>3, <1>4, <1>7, <1>9, StepSets DEF JobGood, Planned, Comes
<1>14. InFileInv(j, f)'
    BY <1>1, <1>3, <1>4, <1>5, <1>7, <1>8 DEF InFileInv, IsNew, Comes
<1> QED
    BY <1>4, <1>6, <1>10, <1>11, <1>12, <1>13, <1>14, GoodOfStep

LEMMA RefuseFileKeeps ==
    ASSUME KInv, NEW j \in Jobs, NEW f \in Files, RefuseFile(j, f)
    PROVE  \A g \in Files : Good(g)'
<1> USE DEF counters, index, history
<1>1. work[j].step = "loop" /\ f \in work[j].todo /\ OfJob(j)
    BY DEF RefuseFile, Takes, OfJob
<1>2. /\ JobInv /\ RestTyped /\ Good(f) /\ JobGood(j, f)
      /\ \A k \in Jobs : ~At(k, f, AtFile)
      /\ \A k \in Jobs \ {j} : ~At(k, f, AtFile)'
      /\ \A k \in Jobs :
            /\ ~At(k, f, {"chunks", "tidy"}) /\ ~At(k, f, {"unpoint", "tidy"})
            /\ ~At(k, f, {"supersede"}) /\ ~At(k, f, {"embed", "upsert", "mark", "replace"})
    BY <1>1, WhereLoop
<1>3. /\ work'[j].step = "loop" /\ work'[j].todo = work[j].todo \ {f}
      /\ work'[j].seen = work[j].seen /\ work'[j].known = work[j].known
    <2>1. work[j] \in Task /\ work' = [work EXCEPT ![j].todo = @ \ {f}]
        BY <1>2 DEF JobInv, Typed, RefuseFile
    <2>2. work'[j] = [work[j] EXCEPT !.todo = @ \ {f}]
        BY <1>2, <2>1 DEF JobInv, Typed
    <2> QED
        BY <1>1, <2>1, <2>2 DEF Task
<1>4. UNCHANGED <<disk, chunks, docs, raced, torn, hollow, unscanned>> /\ jobs'[j].failed
    BY <1>2 DEF RefuseFile, JobInv, Typed, Row
<1>5. \A g \in Files : ~At(j, g, AtFile) /\ ~At(j, g, AtFile)'
    BY <1>1, <1>3, StepSets DEF At
<1>6. OnFile(j, f)
    <2>1. StepOf(j) /\ Active(j)'
        BY <1>2, TakeStep
    <2> QED
        BY <1>1, <1>3, <1>4, <1>5, <2>1, StepSets DEF OnFile
<1>7. work[j].seen[f] # Absent
    BY <1>1, <1>2, StepSets DEF JobGood, Planned
<1>8. Stored(f)'
    BY <1>2, <1>4 DEF Good, Stored, HasText
<1>9. Dying(f)' /\ Agreed(f)'
    BY <1>2, <1>4 DEF Good, Dying, Agreed
<1>10. Fresh(j, f)' /\ TidyInv(j, f)' /\ InFileInv(j, f)'
    BY <1>3 DEF Fresh, TidyInv, InFileInv, At, InFile
<1>11. Planned(j, f)'
    BY <1>1, <1>2, <1>3, <1>4, <1>7, StepSets DEF JobGood, Planned
<1> QED
    BY <1>4, <1>6, <1>8, <1>9, <1>10, <1>11, GoodOfStep

LEMMA SupersedeGoneKeeps ==
    ASSUME KInv, NEW j \in Jobs, NEW f \in Files, SupersedeGone(j, f)
    PROVE  \A g \in Files : Good(g)'
<1> USE DEF counters, index, history
<1>1. /\ work[j].step = "loop" /\ work[j].todo = {} /\ OfJob(j)
      /\ work[j].known[f] # Absent /\ work[j].seen[f] = Absent /\ docs[f].status = "active"
    BY DEF SupersedeGone, Gone, OfJob
<1>2. /\ JobInv /\ RestTyped /\ Good(f) /\ JobGood(j, f)
      /\ \A k \in Jobs : ~At(k, f, AtFile)
      /\ \A k \in Jobs \ {j} : ~At(k, f, AtFile)'
      /\ \A k \in Jobs :
            /\ ~At(k, f, {"chunks", "tidy"}) /\ ~At(k, f, {"unpoint", "tidy"})
            /\ ~At(k, f, {"supersede"}) /\ ~At(k, f, {"embed", "upsert", "mark", "replace"})
    BY <1>1, WhereLoop
<1>3. Comes(j, f, "tidy") /\ "tidy" \in Looking /\ work'[j].old = ActiveChunks(f)
    <2>1. work[j] \in Task /\ work \in [Jobs -> Task]
        BY <1>2 DEF JobInv, Typed
    <2>2. work'[j] = [work[j] EXCEPT !.step = "tidy", !.file = f, !.old = ActiveChunks(f)]
        BY <2>1 DEF SupersedeGone
    <2> QED
        BY <1>1, <2>1, <2>2 DEF Comes, Task, Looking
<1>4. UNCHANGED <<disk, docs, jobs, raced, torn, hollow, unscanned>>
    BY DEF SupersedeGone
<1>5. /\ ChangesIn(f, {"status"})
      /\ \A k \in Jobs : chunks'[k][f].status = IF k \in ActiveChunks(f) THEN "superseded"
                                                                         ELSE chunks[k][f].status
    BY <1>2, SupersedeFacts DEF SupersedeGone
<1>6. OnFile(j, f)
    <2>1. Active(j)'
        BY <1>2, TakeStep
    <2> QED
        BY <1>1, <1>3, <1>4, <1>5, <2>1, TakeFrame DEF ChangesIn
<1>7. \A k \in Jobs : /\ chunks'[k][f].status # "active"
                      /\ chunks[k][f].status = "none" => chunks'[k][f].status = "none"
                      /\ chunks[k][f].status # "active"
                            => chunks'[k][f].status = chunks[k][f].status
                      /\ chunks'[k][f].point = chunks[k][f].point
                      /\ k \in ActiveChunks(f) <=> chunks[k][f].status = "active"
    BY <1>5 DEF ChangesIn, SameBut, ActiveChunks
<1>8. At(j, f, {"chunks", "tidy"})' /\ At(j, f, {"unpoint", "tidy"})'
    BY <1>3 DEF At, Comes
<1>9. Stored(f)'
    BY <1>1, <1>2, <1>4, <1>7, <1>8 DEF Good, Stored
<1>10. Dying(f)'
    BY <1>2, <1>3, <1>4, <1>7, <1>8 DEF Good, Dying
<1>11. Agreed(f)'
    BY <1>7 DEF Agreed
<1>12. Fresh(j, f)' /\ TidyInv(j, f)' /\ InFileInv(j, f)'
    BY <1>1, <1>3, <1>4, <1>7 DEF Fresh, TidyInv, InFileInv, InFile, At, Comes
<1>13. Planned(j, f)'
    BY <1>1, <1>2, <1>3, <1>4, StepSets DEF JobGood, Planned, Comes
<1> QED
    BY <1>6, <1>7, <1>9, <1>10, <1>11, <1>12, <1>13, GoodOfStep

-------------------------------------------------------------------------------
(* How a job begins and ends *)

\* A job that is at f stays there, or leaves f to the histories.
Settles(k, f) ==
    \/ ~At(k, f, AtFile)
    \/ f \in torn' /\ (At(k, f, {"chunks", "tidy"}) => f \in hollow')
    \/ work'[k] = work[k]

LEMMA RowsSettle ==
    ASSUME NEW f \in Files, Good(f), UNCHANGED <<chunks, docs>>,
           raced \subseteq raced', torn \subseteq torn', hollow \subseteq hollow',
           \A k \in Jobs : Settles(k, f)
    PROVE  Stored(f)' /\ Dying(f)' /\ Agreed(f)'
<1>1. \A k \in Jobs : \/ work'[k] = work[k]
                      \/ ~At(k, f, {"chunks", "tidy"}) \/ f \in hollow'
    BY DEF Settles, At, AtFile, InFile
<1>2. \A k \in Jobs : \/ work'[k] = work[k] \/ f \in torn'
                      \/ /\ ~At(k, f, {"unpoint", "tidy"}) /\ ~At(k, f, {"supersede"})
                         /\ ~At(k, f, {"embed", "upsert", "mark", "replace"})
    BY DEF Settles, At, AtFile, InFile
<1>3. Stored(f)'
    <2>1. f \notin hollow' /\ (\A k \in Jobs : ~At(k, f, {"chunks", "tidy"})') =>
              \A k \in Jobs : ~At(k, f, {"chunks", "tidy"})
        BY <1>1 DEF At
    <2> QED
        BY <2>1 DEF Good, Stored, HasText
<1>4. Dying(f)'
    BY <1>2 DEF Good, Dying, At
<1>5. Agreed(f)'
    BY <1>2 DEF Good, Agreed, At, IsModified, Known, Unchanged
<1> QED
    BY <1>3, <1>4, <1>5

\* A step of a job that begins or ends leaves the other jobs to what they know.
LEMMA GoodOfRun ==
    ASSUME KInv, NEW j \in Jobs, work[j].step \in Busy, OfJob(j), NEW f \in Files,
           UNCHANGED <<chunks, docs, raced>>, torn \subseteq torn', hollow \subseteq hollow',
           Settles(j, f), JobGood(j, f)'
    PROVE  Good(f)'
<1>1. JobInv /\ OrderInv /\ Good(f) /\ StepOf(j) /\ jobs'[j].status # "none"
    BY JobStep, RowStays DEF KInv
<1>2. \A k \in Jobs \ {j} : work'[k] = work[k] /\ JobGood(k, f)'
    BY <1>1, OthersKeep DEF Good, StepOf
<1>3. Stored(f)' /\ Dying(f)' /\ Agreed(f)'
    BY <1>1, <1>2, RowsSettle DEF Settles
<1> QED
    BY <1>2, <1>3 DEF Good

LEMMA BeginKeeps ==
    ASSUME KInv, NEW j \in Jobs, NEW f \in Files, Begin(j) \/ SaveRunning(j)
    PROVE  Good(f)'
<1> USE DEF counters, index, history
<1>1. /\ work[j].step \in {"task", "read"} /\ OfJob(j) /\ JobInv /\ Good(f)
      /\ UNCHANGED <<chunks, docs, raced, torn, hollow, disk, unscanned>>
    BY DEF Begin, SaveRunning, OfJob, KInv
<1>2. work'[j].step \in {"read", "dead", "scan"}
    <2>1. work[j] \in Task /\ work \in [Jobs -> Task]
        BY <1>1 DEF JobInv, Typed
    <2>2. CASE Begin(j)
        <3>1. PICK s \in {"read", "dead"} : s = IF source.status = "active" THEN "read" ELSE "dead"
            OBVIOUS
        <3>2. work' = [work EXCEPT ![j].step = s, ![j].cancel = jobs[j].cancel]
            BY <2>2, <3>1 DEF Begin
        <3> QED
            BY <2>1, <3>1, <3>2 DEF Task
    <2>3. CASE SaveRunning(j)
        BY <2>1, <2>3 DEF SaveRunning, To, Task
    <2> QED
        BY <1>1, <2>2, <2>3
<1>3. ~At(j, f, AtFile)
    BY <1>1 DEF At, AtFile, InFile
<1>4. JobGood(j, f)'
    <2>1. Fresh(j, f)'
        BY <1>1, <1>2 DEF Good, JobGood, Fresh, At, Looking, InFile
    <2>2. Planned(j, f)' /\ InFileInv(j, f)' /\ TidyInv(j, f)'
        BY <1>2 DEF Planned, InFileInv, TidyInv, At, Looking, InFile
    <2>3. jobs'[j].status # "completed"
        <3>1. Active(j) /\ jobs \in [Jobs -> Row]
            BY <1>1 DEF JobInv, Typed, OneActive, Busy
        <3> QED
            BY <3>1 DEF Begin, SaveRunning, Active, Row
    <2> QED
        BY <2>1, <2>2, <2>3 DEF JobGood, Finished
<1> QED
    BY <1>1, <1>3, <1>4, GoodOfRun DEF Settles, Busy

LEMMA ScanKeeps ==
    ASSUME KInv, NEW j \in Jobs, NEW f \in Files, Scan(j)
    PROVE  Good(f)'
<1> USE DEF counters, index, history
<1>1. /\ work[j].step = "scan" /\ OfJob(j) /\ JobInv /\ Good(f)
      /\ UNCHANGED <<chunks, docs, raced, torn, hollow, disk, jobs>>
    BY DEF Scan, OfJob, KInv
<1>2. /\ work'[j].step = "loop" /\ work'[j].seen = disk
      /\ work'[j].todo = {g \in Files : disk[g] # Absent}
      /\ work'[j].known[f] = IF docs[f].status = "active" THEN docs[f].hash ELSE Absent
    <2> DEFINE known == [g \in Files |-> IF docs[g].status = "active" THEN docs[g].hash ELSE Absent]
               todo == {g \in Files : disk[g] # Absent}
    <2>1. work[j] \in Task /\ work \in [Jobs -> Task]
        BY <1>1 DEF JobInv, Typed
    <2>2. known[f] = IF docs[f].status = "active" THEN docs[f].hash ELSE Absent
        OBVIOUS
    <2>3. work' = [work EXCEPT ![j].step = "loop", ![j].seen = disk, ![j].todo = todo,
                               ![j].known = known]
        BY DEF Scan
    <2> HIDE DEF known, todo
    <2>4. /\ work'[j].step = "loop" /\ work'[j].seen = disk
          /\ work'[j].todo = todo /\ work'[j].known = known
        BY <2>1, <2>3 DEF Task
    <2> QED
        BY <2>2, <2>4 DEF todo
<1>3. ~At(j, f, AtFile)
    BY <1>1 DEF At, AtFile, InFile
<1>4. JobGood(j, f)'
    <2>1. Fresh(j, f)'
        BY <1>1, <1>2 DEF Good, JobGood, Fresh, At
    <2>2. Planned(j, f)'
        BY <1>1, <1>2 DEF Planned, Good, Stored
    <2>3. InFileInv(j, f)' /\ TidyInv(j, f)'
        BY <1>2 DEF InFileInv, TidyInv, At, InFile
    <2>4. Active(j)
        BY <1>1 DEF JobInv, OneActive, Busy
    <2> QED
        BY <1>1, <2>1, <2>2, <2>3, <2>4 DEF JobGood, Finished, Active
<1> QED
    BY <1>1, <1>3, <1>4, GoodOfRun DEF Settles, Busy

\* A job that has ended knows nothing of a file.
LEMMA EndedGood ==
    ASSUME NEW j \in Jobs, NEW f \in Files, work'[j].step \in {"done", "cancelling", "dead"},
           Finished(j, f)'
    PROVE  JobGood(j, f)'
BY DEF JobGood, Fresh, Planned, InFileInv, TidyInv, At, Looking, InFile

LEMMA EndStep ==
    ASSUME JobInv, NEW j \in Jobs, NEW s \in Steps, End(j, s)
    PROVE  work'[j].step = s
<1>1. work' = [work EXCEPT ![j] = [Idle EXCEPT !.step = s]] /\ work \in [Jobs -> Task]
    BY DEF End, JobInv, Typed
<1>2. work'[j] = [Idle EXCEPT !.step = s]
    BY <1>1
<1> QED
    BY <1>2 DEF Idle

LEMMA FailKeeps ==
    ASSUME KInv, NEW j \in Jobs, NEW f \in Files, Fail(j)
    PROVE  Good(f)'
<1> USE DEF counters, index, history
<1>1. /\ work[j].step \in {"scan", "tidy"} /\ OfJob(j) /\ JobInv
      /\ UNCHANGED <<chunks, docs, raced>> /\ Leave({j}) /\ End(j, "done")
      /\ jobs' = [jobs EXCEPT ![j].status = "failed", ![j].cancel = FALSE]
    BY DEF Fail, OfJob, KInv
<1>2. work'[j].step = "done"
    BY <1>1, EndStep, StepsAre
<1>3. /\ torn \subseteq torn' /\ hollow \subseteq hollow'
      /\ At(j, f, AtFile) => f \in torn' /\ f \in hollow'
    BY <1>1, LeaveFacts DEF At, AtFile, InFile
<1>4. jobs'[j].status # "completed"
    BY <1>1 DEF JobInv, Typed, Row
<1> QED
    BY <1>1, <1>2, <1>3, <1>4, EndedGood, GoodOfRun DEF Settles, Finished, Busy

LEMMA CompleteKeeps ==
    ASSUME KInv, NEW j \in Jobs, NEW f \in Files, StopCancelled(j) \/ Complete(j)
    PROVE  Good(f)'
<1> USE DEF counters, index, history
<1>1. /\ work[j].step = "loop" /\ OfJob(j) /\ JobInv /\ Good(f)
      /\ UNCHANGED <<chunks, docs, raced, torn, hollow, disk, unscanned>>
    BY DEF StopCancelled, Complete, OfJob, KInv
<1>2. work'[j].step \in {"done", "cancelling"}
    BY <1>1, EndStep, StepsAre DEF StopCancelled, Complete
<1>3. ~At(j, f, AtFile) /\ ~At(j, f, InFile)
    BY <1>1 DEF At, AtFile, InFile
<1>4. Finished(j, f)'
    <2>1. CASE StopCancelled(j)
        <3>1. jobs'[j].status # "completed"
            BY <1>1, <2>1 DEF StopCancelled, JobInv, Typed, Row
        <3> QED
            BY <3>1 DEF Finished
    <2>2. CASE Complete(j)
        <3>1. work[j].todo = {} /\ f \notin Gone(j)
            BY <2>2 DEF Complete
        <3>2. jobs'[j].failed = jobs[j].failed
            BY <1>1, <2>2 DEF Complete, JobInv, Typed, Row
        <3>3. Planned(j, f)
            BY <1>1 DEF Good, JobGood
        <3>4. ASSUME ~jobs[j].failed, ~unscanned
              PROVE  IF disk[f] = Absent THEN docs[f].status # "active" ELSE Searchable(f, disk[f])
            <4>1. work[j].seen[f] = disk[f]
                BY <1>1, <3>3, <3>4, StepSets DEF Planned
            <4>2. CASE disk[f] = Absent
                BY <1>1, <3>1, <3>3, <4>1, <4>2, StepSets DEF Planned, Gone
            <4>3. CASE disk[f] # Absent
                BY <1>1, <1>3, <3>1, <3>3, <3>4, <4>1, <4>3, StepSets DEF Planned
            <4> QED
                BY <4>2, <4>3
        <3> QED
            BY <1>1, <3>2, <3>4 DEF Finished, Searchable
    <2> QED
        BY <2>1, <2>2
<1> QED
    BY <1>1, <1>2, <1>3, <1>4, EndedGood, GoodOfRun, StepSets DEF Settles

\* Nothing changes of what job k knows of f.
LEMMA JobStays ==
    ASSUME NEW k \in Jobs, NEW f \in Files, JobGood(k, f), work'[k] = work[k],
           UNCHANGED <<chunks, docs, disk, raced, unscanned>>,
           jobs'[k].failed = jobs[k].failed,
           jobs'[k].status = "completed" <=> jobs[k].status = "completed",
           Latest(k)' <=> Latest(k)
    PROVE  JobGood(k, f)'
<1>1. Fresh(k, f)' /\ TidyInv(k, f)'
    BY DEF JobGood, Fresh, TidyInv, At
<1>2. Planned(k, f)'
    BY DEF JobGood, Planned, Searchable, At
<1>3. InFileInv(k, f)'
    BY DEF JobGood, InFileInv, At, IsNew, IsModified, Known, Unchanged, Beside, Leads,
           Batch, NeedEmbedding, ActiveChunks
<1>4. Finished(k, f)'
    BY DEF JobGood, Finished, Searchable
<1> QED
    BY <1>1, <1>2, <1>3, <1>4 DEF JobGood

\* Nothing changes of what a file's rows depend on.
LEMMA GoodStays ==
    ASSUME NEW f \in Files, Good(f),
           UNCHANGED <<chunks, docs, disk, raced, torn, hollow, unscanned>>,
           \A k \in Jobs : /\ work'[k] = work[k]
                           /\ jobs'[k].failed = jobs[k].failed
                           /\ jobs'[k].status = "completed" <=> jobs[k].status = "completed"
                           /\ jobs'[k].status = "none" <=> jobs[k].status = "none"
    PROVE  Good(f)'
<1>1. Stored(f)' /\ Dying(f)' /\ Agreed(f)'
    BY RowsSettle DEF Settles
<1>2. \A k \in Jobs : Latest(k)' <=> Latest(k)
    BY DEF Latest
<1>3. ASSUME NEW k \in Jobs PROVE JobGood(k, f)'
    BY <1>2, JobStays DEF Good
<1> QED
    BY <1>1, <1>3 DEF Good

LEMMA EndCancelledKeeps ==
    ASSUME KInv, NEW j \in Jobs, NEW f \in Files, EndCancelled(j)
    PROVE  Good(f)'
<1> USE DEF counters, index, history
<1>1. /\ work[j].step = "cancelling" /\ JobInv /\ Good(f)
      /\ UNCHANGED <<chunks, docs, raced, torn, hollow, disk, unscanned, jobs>>
      /\ End(j, "done")
    BY DEF EndCancelled, KInv
<1>2. work'[j].step = "done"
    BY <1>1, EndStep, StepsAre
<1>3. \A k \in Jobs \ {j} : work'[k] = work[k]
    BY <1>1 DEF End, JobInv, Typed
<1>4. Stored(f)' /\ Dying(f)' /\ Agreed(f)'
    <2>1. \A k \in Jobs : Settles(k, f)
        BY <1>1, <1>3 DEF Settles, At, AtFile, InFile
    <2> QED
        BY <1>1, <2>1, RowsSettle
<1>5. JobGood(j, f)'
    <2>1. Finished(j, f)'
        BY <1>1 DEF Good, JobGood, Finished, Searchable, Latest
    <2> QED
        BY <1>2, <2>1, EndedGood
<1>6. ASSUME NEW k \in Jobs \ {j} PROVE JobGood(k, f)'
    BY <1>1, <1>3, JobStays DEF Good, Latest
<1> QED
    BY <1>4, <1>5, <1>6 DEF Good

-------------------------------------------------------------------------------
(* The handlers, the folder and the sidecar *)

LEMMA QueueKeeps ==
    ASSUME KInv, NEW f \in Files, Available, NEW j \in NextId, Queue(j),
           UNCHANGED <<chunks, docs, disk, raced, torn, hollow, unscanned>>
    PROVE  Good(f)'
<1>1. /\ j \in Jobs /\ jobs[j].status = "none" /\ \A k \in 1..(j - 1) : jobs[k].status # "none"
      /\ Good(f) /\ JobInv /\ OrderInv
    BY DEF NextId, KInv
<1>2. jobs[j] \in Row /\ work[j] \in Task /\ work[j].step = "none"
    BY <1>1 DEF JobInv, Typed, OrderInv
<1>3. /\ \A k \in Jobs \ {j} : work'[k] = work[k] /\ jobs'[k] = jobs[k]
      /\ jobs'[j].status = "queued" /\ work'[j].step = "task"
    BY <1>1, <1>2 DEF Queue, JobInv, Typed, Row, Task
<1>4. Stored(f)' /\ Dying(f)' /\ Agreed(f)'
    <2>1. \A k \in Jobs : Settles(k, f)
        BY <1>2, <1>3 DEF Settles, At, AtFile, InFile
    <2> QED
        BY <1>1, <2>1, RowsSettle
<1>5. JobGood(j, f)'
    <2>1. Fresh(j, f)'
        BY <1>1, <1>2 DEF Good, JobGood, Fresh
    <2>2. Planned(j, f)' /\ InFileInv(j, f)' /\ TidyInv(j, f)' /\ Finished(j, f)'
        BY <1>3 DEF Planned, InFileInv, TidyInv, Finished, At, Looking, InFile
    <2> QED
        BY <2>1, <2>2 DEF JobGood
<1>6. ASSUME NEW k \in Jobs \ {j} PROVE JobGood(k, f)'
    <2>1. JobGood(k, f) /\ work'[k] = work[k] /\ jobs'[k] = jobs[k]
        BY <1>1, <1>3 DEF Good
    <2>2. k \in Nat /\ j \in Nat /\ k # j
        BY <1>1, JobsAssumption
    <2>3. CASE k < j
        <3>1. ~Latest(k)' /\ ~Latest(k)'
            BY <1>1, <1>3, <2>3 DEF Latest
        <3>2. Finished(k, f)'
            BY <3>1 DEF Finished
        <3>3. Fresh(k, f)' /\ TidyInv(k, f)'
            BY <2>1 DEF JobGood, Fresh, TidyInv, At
        <3>4. Planned(k, f)'
            <4>1. work[k].step \notin Looking
                BY <1>1, StepSets DEF JobInv, OneActive, Available, ActiveJobs, Active
            <4> QED
                BY <2>1, <4>1 DEF Planned
        <3>5. InFileInv(k, f)'
            <4>1. work[k].step \notin InFile
                BY <1>1, StepSets DEF JobInv, OneActive, Available, ActiveJobs, Active
            <4> QED
                BY <2>1, <4>1 DEF InFileInv, At
        <3> QED
            BY <3>2, <3>3, <3>4, <3>5 DEF JobGood
    <2>4. CASE k > j
        <3>1. jobs[k].status = "none"
            BY <1>1, <2>4 DEF OrderInv
        <3>2. Finished(k, f)'
            BY <2>1, <3>1 DEF Finished
        <3>3. work[k].step = "none"
            BY <1>1, <3>1 DEF OrderInv
        <3>4. Fresh(k, f)'
            BY <2>1, <3>3 DEF JobGood, Fresh
        <3>5. Planned(k, f)' /\ InFileInv(k, f)' /\ TidyInv(k, f)'
            BY <2>1, <3>3 DEF Planned, InFileInv, TidyInv, At, Looking, InFile
        <3> QED
            BY <3>2, <3>4, <3>5 DEF JobGood
    <2> QED
        BY <2>2, <2>3, <2>4
<1> QED
    BY <1>4, <1>5, <1>6 DEF Good

\* set_source_active changes what all points say, and leaves those there are.
LEMMA SetPayloadKeeps ==
    ASSUME KInv, NEW f \in Files, NEW s \in {"active", "detached"}, SetPayload(s)
    PROVE  Good(f)'
<1> USE DEF counters, index, history
<1>1. /\ RestTyped /\ Good(f)
      /\ UNCHANGED <<docs, disk, jobs, work, raced, torn, hollow, unscanned>>
    BY DEF SetPayload, KInv
<1>2. \A k \in Jobs : /\ SameBut(chunks[k][f], chunks'[k][f], {"point"})
                      /\ chunks'[k][f].point = IF chunks[k][f].point = "none" THEN "none" ELSE s
    BY <1>1, PayloadFacts DEF SetPayload
<1>3. \A k \in Jobs : /\ chunks'[k][f].text = chunks[k][f].text
                      /\ chunks'[k][f].status = chunks[k][f].status
                      /\ chunks'[k][f].embedding = chunks[k][f].embedding
                      /\ chunks'[k][f].point = "none" <=> chunks[k][f].point = "none"
                      /\ chunks'[k][f].point # "none" => chunks'[k][f].point = s
    BY <1>2 DEF SameBut
<1>4. Stored(f)'
    BY <1>1, <1>3 DEF Good, Stored, HasText, At
<1>5. Dying(f)'
    BY <1>1, <1>3 DEF Good, Dying, At
<1>6. Agreed(f)'
    BY <1>1, <1>3 DEF Good, Agreed, At, IsModified, Known, Unchanged
<1>7. ASSUME NEW j \in Jobs PROVE JobGood(j, f)'
    <2>1. JobGood(j, f)
        BY <1>1 DEF Good
    <2>2. Fresh(j, f)' /\ TidyInv(j, f)'
        BY <1>1, <1>3, <2>1 DEF JobGood, Fresh, TidyInv, At
    <2>3. Planned(j, f)'
        BY <1>1, <1>3, <2>1 DEF JobGood, Planned, Searchable, At
    <2>4. Finished(j, f)'
        BY <1>1, <1>3, <2>1 DEF JobGood, Finished, Searchable, Latest
    <2>5. InFileInv(j, f)'
        <3> SUFFICES ASSUME At(j, f, InFile) PROVE InFileInv(j, f)'
            BY <1>1 DEF InFileInv, At
        <3>1. InFileInv(j, f)
            BY <2>1 DEF JobGood
        <3>2. chunks[j][f].point # "none" => Leads(j, f)'
            BY <1>3 DEF Leads
        <3>3. work[j].step = "mark" /\ IsModified(j, f) => Leads(j, f)'
            <4>1. IsModified(j, f) => j \in Batch(j, f)
                BY DEF IsModified, Batch
            <4> QED
                BY <3>1, <3>2, <4>1 DEF InFileInv
        <3>4. work[j].step \in {"replace", "supersede"} => Leads(j, f)'
            BY <1>1, <3>1, <3>2 DEF InFileInv, Good, Stored, Beside
        <3>5. \A old : Beside(j, f, old) => Beside(j, f, old)'
            BY <1>1, <1>3 DEF Beside
        <3>6. /\ IsNew(j, f)' <=> IsNew(j, f)
              /\ IsModified(j, f)' <=> IsModified(j, f)
            BY <1>1 DEF IsNew, IsModified, Known, Unchanged
        <3>7. work[j].step = "mark" => \A k \in Batch(j, f)' : chunks'[k][f].point # "none"
            <4>1. NeedEmbedding(f)' = NeedEmbedding(f)
                BY <1>3 DEF NeedEmbedding, ActiveChunks
            <4>2. Batch(j, f)' = Batch(j, f)
                BY <1>1, <4>1 DEF Batch, Known, Unchanged
            <4>3. Batch(j, f) \subseteq Jobs
                BY DEF Batch, NeedEmbedding, ActiveChunks
            <4> QED
                BY <1>3, <3>1, <4>2, <4>3 DEF InFileInv
        <3>8. chunks'[j][f].embedding = chunks[j][f].embedding
            BY <1>3
        <3> QED
            BY <1>1, <1>3, <3>1, <3>3, <3>4, <3>5, <3>6, <3>7, <3>8 DEF InFileInv
    <2> QED
        BY <2>2, <2>3, <2>4, <2>5 DEF JobGood
<1> QED
    BY <1>4, <1>5, <1>6, <1>7 DEF Good

\* A kill cuts the jobs at work.
LEMMA CrashKeeps ==
    ASSUME KInv, NEW f \in Files, Crash
    PROVE  Good(f)'
<1> USE DEF counters, index, history
<1>1. /\ JobInv /\ Good(f) /\ UNCHANGED <<chunks, docs, disk, jobs, raced, unscanned>>
    BY DEF Crash, KInv
<1>2. \A k \in Jobs : IF work[k].step \in {"none", "done", "dead"} THEN work'[k] = work[k]
                      ELSE work'[k].step = "dead"
    <2>1. [Idle EXCEPT !.step = "dead"].step = "dead"
        BY DEF Idle
    <2> QED
        BY <2>1 DEF Crash
<1>3. /\ torn' = torn \union Left(Jobs, InFile \union {"tidy"})
      /\ hollow' = hollow \union Left(Jobs, {"chunks", "tidy"})
    BY DEF Crash, Leave
<1>4. Stored(f)' /\ Dying(f)' /\ Agreed(f)'
    <2>1. ASSUME NEW k \in Jobs, At(k, f, AtFile)
          PROVE  f \in torn' /\ (At(k, f, {"chunks", "tidy"}) => f \in hollow')
        BY <1>3, <2>1 DEF At, AtFile, Left
    <2>2. \A k \in Jobs : Settles(k, f)
        BY <2>1 DEF Settles
    <2> QED
        BY <1>1, <1>3, <2>2, RowsSettle
<1>5. ASSUME NEW k \in Jobs PROVE JobGood(k, f)'
    <2>1. JobGood(k, f)
        BY <1>1 DEF Good
    <2>2. Finished(k, f)'
        BY <1>1, <2>1 DEF JobGood, Finished, Searchable, Latest
    <2>3. CASE work[k].step \in {"none", "done", "dead"}
        BY <1>1, <1>2, <2>1, <2>3, JobStays DEF Latest
    <2>4. CASE work[k].step \notin {"none", "done", "dead"}
        BY <1>2, <2>2, <2>4, EndedGood
    <2> QED
        BY <2>3, <2>4
<1> QED
    BY <1>4, <1>5 DEF Good

LEMMA RestartKeeps ==
    ASSUME KInv, NEW f \in Files, Restart
    PROVE  Good(f)'
<1> USE DEF counters, index, history
<1>1. /\ JobInv /\ Good(f)
      /\ UNCHANGED <<chunks, docs, disk, work, raced, torn, hollow, unscanned>>
    BY DEF Restart, KInv
<1>2. ASSUME NEW k \in Jobs
      PROVE  /\ jobs'[k].failed = jobs[k].failed
             /\ jobs'[k].status = "completed" <=> jobs[k].status = "completed"
             /\ jobs'[k].status = "none" <=> jobs[k].status = "none"
    <2>1. jobs[k] \in Row
        BY <1>1 DEF JobInv, Typed
    <2>2. jobs'[k] = [jobs[k] EXCEPT !.status = IF k \in ActiveJobs THEN "interrupted" ELSE @]
        BY DEF Restart
    <2>3. CASE k \in ActiveJobs
        BY <2>1, <2>2, <2>3 DEF Row, ActiveJobs
    <2>4. CASE k \notin ActiveJobs
        BY <2>1, <2>2, <2>4 DEF Row
    <2> QED
        BY <2>3, <2>4
<1> QED
    BY <1>1, <1>2, GoodStays

\* What changes on disk after a job has looked is raced or unscanned.
LEMMA EditKeeps ==
    ASSUME KInv, NEW f \in Files, NEW h \in Files, NEW v \in Disk, Edit(h, v)
    PROVE  Good(f)'
<1> USE DEF counters, index, history
<1>1. /\ JobInv /\ Good(f) /\ UNCHANGED <<chunks, docs, jobs, work, torn, hollow>>
      /\ unscanned' = TRUE /\ raced' = raced \union ({h} \intersect Reading)
    BY DEF Edit, KInv
<1>2. f # h => disk'[f] = disk[f]
    BY <1>1 DEF Edit, JobInv, Typed
<1>3. Stored(f)' /\ Dying(f)' /\ Agreed(f)'
    BY <1>1, RowsSettle DEF Settles
<1>4. ASSUME NEW k \in Jobs PROVE JobGood(k, f)'
    <2>1. JobGood(k, f)
        BY <1>1 DEF Good
    <2>2. Fresh(k, f)' /\ TidyInv(k, f)' /\ Finished(k, f)'
        BY <1>1, <2>1 DEF JobGood, Fresh, TidyInv, Finished, At
    <2>3. work[k].step \in Looking /\ f = h => f \in raced'
        BY <1>1 DEF Reading, Looking, InFile
    <2>4. Planned(k, f)'
        BY <1>1, <1>2, <2>1, <2>3 DEF JobGood, Planned, Searchable, At
    <2>5. InFileInv(k, f)'
        BY <1>1, <2>1 DEF JobGood, InFileInv, At, IsNew, IsModified, Known, Unchanged, Beside,
           Leads,
                          Batch, NeedEmbedding, ActiveChunks
    <2> QED
        BY <2>2, <2>4, <2>5 DEF JobGood
<1> QED
    BY <1>3, <1>4 DEF Good

-------------------------------------------------------------------------------
(* Every step keeps the files good *)

LEMMA JobKeeps ==
    ASSUME KInv, NEW j \in Jobs, OfJob(j), NEW f \in Files
    PROVE  Good(f)'
<1>1. work[j].file \in Files
    BY TaskFields DEF KInv
<1>2. CASE \/ Begin(j) \/ SaveRunning(j) \/ Scan(j) \/ Fail(j) \/ StopCancelled(j)
           \/ EndCancelled(j) \/ Complete(j)
    BY <1>2, BeginKeeps, ScanKeeps, FailKeeps, CompleteKeeps, EndCancelledKeeps
<1>3. CASE \/ SaveChunks(j) \/ SavePending(j) \/ Upsert(j) \/ EmbedFails(j) \/ MarkIndexed(j)
    BY <1>1, <1>3, SaveChunksKeeps, SavePendingKeeps, UpsertKeeps, EmbedFailsKeeps,
       MarkIndexedKeeps
<1>4. CASE \/ ReplaceDocument(j) \/ SupersedeOld(j) \/ DeletePoints(j) \/ FileFails(j)
           \/ MarkMissing(j)
    BY <1>1, <1>4, ReplaceDocumentKeeps, SupersedeOldKeeps, DeletePointsKeeps, FileFailsKeeps,
       MarkMissingKeeps
<1>5. ASSUME NEW h \in Files,
             \/ TakeUnchanged(j, h) \/ TakeModified(j, h) \/ TakeNew(j, h) \/ RefuseFile(j, h)
             \/ SupersedeGone(j, h)
      PROVE  Good(f)'
    BY <1>5, TakeUnchangedKeeps, TakeModifiedKeeps, TakeNewKeeps, RefuseFileKeeps,
       SupersedeGoneKeeps
<1> QED
    BY <1>2, <1>3, <1>4, <1>5 DEF OfJob

LEMMA GoodStep ==
    ASSUME KInv, [Next]_vars, NEW f \in Files
    PROVE  Good(f)'
<1> USE DEF counters, index, history
<1>0. Good(f) /\ JobInv
    BY DEF KInv
<1>1. CASE UNCHANGED vars \/ Detach \/ Attach
    BY <1>0, <1>1, GoodStays DEF vars, Detach, Attach
<1>2. CASE IndexNow \/ Poll
    <2>1. /\ UNCHANGED <<jobs, work>> \/ (Available /\ \E j \in NextId : Queue(j))
          /\ UNCHANGED <<chunks, docs, disk, raced, torn, hollow, unscanned>>
        BY <1>2 DEF IndexNow, Poll, Notify
    <2>2. CASE UNCHANGED <<jobs, work>>
        BY <1>0, <2>1, <2>2, GoodStays
    <2>3. CASE Available /\ \E j \in NextId : Queue(j)
        BY <2>1, <2>3, QueueKeeps
    <2> QED
        BY <2>1, <2>2, <2>3
<1>3. ASSUME NEW j \in Jobs, Cancel(j) PROVE Good(f)'
    <2>1. \A k \in Jobs : jobs'[k].status = jobs[k].status /\ jobs'[k].failed = jobs[k].failed
        BY <1>0, <1>3 DEF Cancel, JobInv, Typed, Row
    <2> QED
        BY <1>0, <1>3, <2>1, GoodStays DEF Cancel
<1>4. \/ UNCHANGED vars \/ IndexNow \/ Poll \/ Detach \/ Attach \/ Crash \/ Restart
      \/ \E j \in Jobs : Cancel(j) \/ OfJob(j)
      \/ \E h \in Files, v \in Disk : Edit(h, v)
      \/ \E s \in {"active", "detached"} : SetPayload(s)
    BY DEF Next
<1> QED
    BY <1>1, <1>2, <1>3, <1>4, CrashKeeps, RestartKeeps, EditKeeps, SetPayloadKeeps, JobKeeps

LEMMA InitGood == Init => KInv
<1> SUFFICES ASSUME Init PROVE KInv
    OBVIOUS
<1>1. JobInv
    BY InitInv
<1>2. ScanInv
    BY DEF Init, ScanInv, Source, Scanned
<1>3. /\ \A j \in Jobs : jobs[j].status = "none" /\ work[j].step = "none"
      /\ \A j \in Jobs, f \in Files : chunks[j][f] = NoChunk
      /\ \A f \in Files : docs[f].status = "none"
    BY DEF Init, Idle, NoDoc
<1>4. NoChunk \in Chunk /\ NoChunk.status = "none" /\ NoChunk.point = "none"
    BY DEF NoChunk, Chunk, Disk
<1>5. RestTyped
    <2>1. chunks \in [Jobs -> [Files -> Chunk]]
        BY <1>4 DEF Init
    <2>2. watcher \in [signature : {"unknown", "same", "differs"}, pending : BOOLEAN,
                       polled : BOOLEAN]
        BY DEF Init, Unpolled
    <2> QED
        BY <2>1, <2>2 DEF Init, RestTyped
<1>6. OrderInv
    BY <1>3 DEF OrderInv, Active
<1>7. PointsInv
    BY <1>3, <1>4 DEF PointsInv, Init
<1>8. ASSUME NEW f \in Files PROVE Good(f)
    <2>1. Stored(f) /\ Dying(f) /\ Agreed(f)
        BY <1>3, <1>4 DEF Stored, Dying, Agreed
    <2>2. ASSUME NEW j \in Jobs PROVE JobGood(j, f)
        BY <1>3, <1>4
        DEF JobGood, Fresh, Planned, InFileInv, TidyInv, Finished, At, Looking, InFile
    <2> QED
        BY <2>1, <2>2 DEF Good
<1> QED
    BY <1>1, <1>2, <1>5, <1>6, <1>7, <1>8 DEF KInv

LEMMA KNext == KInv /\ [Next]_vars => KInv'
<1> SUFFICES ASSUME KInv, [Next]_vars PROVE KInv'
    OBVIOUS
<1>1. JobInv' /\ ScanInv'
    BY NextInv, ScanNext DEF KInv
<1>2. RestTyped' /\ OrderInv' /\ PointsInv'
    BY RestStep, OrderStep, PointsStep DEF KInv
<1>3. \A f \in Files : Good(f)'
    BY GoodStep
<1> QED
    BY <1>1, <1>2, <1>3 DEF KInv

LEMMA FilesAreGood == Spec => []KInv
BY InitGood, KNext, PTL DEF Spec

-------------------------------------------------------------------------------
(* What is promised *)

\* Nothing that is stored about a folder outlasts its cause: the points of text that was
\* replaced go unless the job that replaced it was cut, a folder that is added again has
\* no point that says otherwise, and no folder is shown as being scanned for ever.
THEOREM NothingStays == Spec => []NothingLeftBehind
<1>1. KInv => TypeOK
    BY DEF KInv, JobInv, Typed, ScanInv, Source, RestTyped, Chunk, Row, Doc, Task, TypeOK
<1>2. KInv => NoDeadPoints
    <2> SUFFICES ASSUME KInv, ActiveJobs = {}, NEW f \in Files \ torn, NEW j \in Jobs,
                        chunks[j][f].status = "superseded"
                 PROVE  chunks[j][f].point = "none"
        BY DEF NoDeadPoints
    <2>1. \A k \in Jobs : work[k].step \notin Busy
        BY DEF KInv, JobInv, OneActive, ActiveJobs, Active
    <2>2. \A k \in Jobs : ~At(k, f, {"unpoint", "tidy"})
        BY <2>1 DEF At, Busy, InFile
    <2> QED
        BY <2>2 DEF KInv, Good, Dying
<1>3. KInv => ReattachServes
    BY DEF KInv, PointsInv, ReattachServes
<1>4. KInv => ScanEnds
    BY DEF KInv, ScanInv, Scanned, ScanEnds, ActiveJobs, Active, Unreported
<1>5. KInv => NothingLeftBehind
    BY <1>1, <1>2, <1>3, <1>4 DEF NothingLeftBehind
<1> QED
    BY <1>5, FilesAreGood, PTL

\* When the folder is indexed its last job is the one that saw it as it is, and no other is
\* at work.
LEMMA LastJob ==
    ASSUME KInv, Indexed, NEW f \in Files
    PROVE  /\ IF disk[f] = Absent THEN docs[f].status # "active" ELSE Searchable(f, disk[f])
           /\ \A k \in Jobs : ~At(k, f, AtFile)
<1>1. PICK j \in Jobs : jobs[j].status = "completed" /\ ~jobs[j].failed /\ Latest(j)
    BY DEF Indexed, Latest
<1>2. Finished(j, f) /\ ~unscanned
    BY DEF KInv, Good, JobGood, Indexed
<1>3. \A k \in Jobs : ~Active(k)
    <2> SUFFICES ASSUME NEW k \in Jobs, Active(k) PROVE FALSE
        OBVIOUS
    <2>1. Latest(k) /\ jobs[k].status # "none"
        BY DEF KInv, OrderInv, Active
    <2>2. j \in Nat /\ k \in Nat
        BY JobsAssumption
    <2>3. k # j
        BY <1>1 DEF Active
    <2> QED
        BY <1>1, <2>1, <2>2, <2>3 DEF Latest
<1>4. \A k \in Jobs : ~At(k, f, AtFile)
    BY <1>3, StepSets DEF KInv, JobInv, OneActive, At
<1> QED
    BY <1>1, <1>2, <1>4 DEF Finished

\* A query finds what is there.  After a clean job of the folder as it is, every file is
\* found with its text and with no other, however many jobs before it failed, were
\* cancelled or were killed half way; and a folder that was removed is silent, also when
\* its job goes on.
THEOREM QueriesFindWhatIsThere == Spec => []ServesWhatIsThere
<1>1. KInv => CurrentIsServed
    <2> SUFFICES ASSUME KInv, Indexed, NEW f \in Files \ (raced \union hollow), disk[f] # Absent
                 PROVE  disk[f] \in Served(f)
        BY DEF CurrentIsServed
    <2>1. Searchable(f, disk[f]) /\ \A k \in Jobs : ~At(k, f, {"chunks", "tidy"})
        BY LastJob DEF At, AtFile, InFile
    <2>2. Stored(f) /\ RestTyped /\ PointsInv
        BY DEF KInv, Good
    <2>3. PICK k \in Jobs : chunks[k][f].status = "active" /\ chunks[k][f].text = disk[f]
        BY <2>1, <2>2 DEF Stored, HasText, Searchable
    <2>4. chunks[k][f].point # "none" /\ chunks[k][f].point # "detached"
        BY <2>1, <2>2, <2>3 DEF Searchable, Stored, PointsInv, Indexed
    <2>5. chunks[k][f].point = "active"
        BY <2>2, <2>4 DEF RestTyped, Chunk
    <2>6. Hydrated(k, f)
        BY <2>1, <2>3 DEF Hydrated, Searchable, Indexed
    <2> QED
        BY <2>3, <2>5, <2>6 DEF Served
<1>2. KInv => NothingStale
    <2> SUFFICES ASSUME KInv, Indexed, NEW f \in Files \ (raced \union torn),
                        NEW k \in Jobs, Hydrated(k, f)
                 PROVE  chunks[k][f].text = disk[f]
        BY DEF NothingStale, Served
    <2>1. disk[f] # Absent /\ Searchable(f, disk[f])
        BY LastJob DEF Hydrated
    <2>2. \A j \in Jobs : /\ ~At(j, f, {"embed", "upsert", "mark", "replace"})
                          /\ ~At(j, f, {"supersede"})
        BY LastJob DEF At, AtFile, InFile
    <2>3. Agreed(f) /\ chunks[k][f].status = "active"
        BY DEF KInv, Good, Hydrated
    <2> QED
        BY <2>1, <2>2, <2>3 DEF Agreed, Searchable
<1>3. DetachedIsSilent
    BY DEF DetachedIsSilent, Served, Hydrated
<1>4. KInv => ServesWhatIsThere
    BY <1>1, <1>2, <1>3 DEF ServesWhatIsThere
<1> QED
    BY <1>4, FilesAreGood, PTL

-------------------------------------------------------------------------------
(* What is found stays found *)

\* A chunk of f that a query finds, when the folder and the document are there.
Finds(f) == \E k \in Jobs : chunks[k][f].status = "active" /\ chunks[k][f].point = "active"

LEMMA ServedIff ==
    ASSUME NEW f \in Files
    PROVE  /\ Served(f) # {} <=> Finds(f) /\ docs[f].status = "active" /\ source.status = "active"
           /\ Served(f)' # {} <=> /\ Finds(f)' /\ docs'[f].status = "active"
                                  /\ source'.status = "active"
BY DEF Served, Hydrated, Finds

\* The writes of a job on the file it is at.
LEMMA FileServes ==
    ASSUME KInv, NEW j \in Jobs, NEW f \in Files, Finds(f), docs[f].status = "active",
           \/ SaveChunks(j) \/ SavePending(j) \/ Upsert(j) \/ EmbedFails(j) \/ MarkIndexed(j)
           \/ ReplaceDocument(j) \/ SupersedeOld(j) \/ DeletePoints(j) \/ MarkMissing(j)
    PROVE  Finds(f)' /\ docs'[f].status = "active"
<1> DEFINE h == work[j].file
<1>1. h \in Files /\ JobInv /\ RestTyped /\ JobGood(j, f)
    BY TaskFields DEF KInv, Good
<1>2. docs \in [Files -> Doc] /\ \A k \in Jobs, g \in Files : chunks[k][g] \in Chunk
    BY <1>1 DEF JobInv, Typed, RestTyped
<1>3. PICK c \in Jobs : chunks[c][f].status = "active" /\ chunks[c][f].point = "active"
    BY DEF Finds
<1>4. h = f => At(j, f, {work[j].step})
    BY DEF At
<1> HIDE DEF h
<1>5. CASE SaveChunks(j)
    <2>1. /\ docs' = docs /\ work[j].step = "chunks" /\ work[j].text \in Disk
          /\ chunks' = [chunks EXCEPT ![j][h] = NewChunk(work[j].text)]
        BY <1>1, <1>5, TaskFields DEF SaveChunks, h
    <2>2. h # f
        BY <1>1, <1>3, <1>4, <2>1 DEF JobGood, InFileInv, At, InFile
    <2>3. chunks'[c][f] = chunks[c][f]
        BY <1>1, <2>1, <2>2 DEF RestTyped
    <2> QED
        BY <1>3, <2>1, <2>3 DEF Finds
<1>6. CASE SavePending(j) \/ EmbedFails(j) \/ MarkIndexed(j)
    <2>1. docs' = docs /\ \E e \in Embeddings : chunks' = WithEmbedding(j, h, e)
        BY <1>6 DEF SavePending, EmbedFails, MarkIndexed, h, Embeddings
    <2>2. ChangesIn(h, {"embedding"})
        BY <1>1, <2>1, EmbeddingFacts
    <2>3. chunks'[c][f].status = "active" /\ chunks'[c][f].point = "active"
        BY <1>3, <2>2 DEF ChangesIn, SameBut
    <2> QED
        BY <2>1, <2>3 DEF Finds
<1>7. CASE Upsert(j)
    <2>1. docs' = docs /\ chunks' = Pointed(h, Batch(j, h), "active")
        BY <1>7 DEF Upsert, WithPoints, Pointed, h
    <2>2. /\ ChangesIn(h, {"point"})
          /\ \A k \in Jobs : chunks'[k][h].point =
                                 IF k \in Batch(j, h) THEN "active" ELSE chunks[k][h].point
        BY <1>1, <2>1, PointsFacts DEF Points
    <2>3. chunks'[c][f].status = "active" /\ chunks'[c][f].point = "active"
        BY <1>3, <2>2 DEF ChangesIn, SameBut
    <2> QED
        BY <2>1, <2>3 DEF Finds
<1>8. CASE ReplaceDocument(j)
    <2>1. chunks' = chunks /\ docs' = [docs EXCEPT ![h].hash = work[j].seen[h]]
        BY <1>8 DEF ReplaceDocument, h
    <2>2. docs'[f].status = "active"
        BY <1>1, <1>2, <2>1 DEF Doc
    <2> QED
        BY <1>3, <2>1, <2>2 DEF Finds
<1>9. CASE SupersedeOld(j)
    <2>1. docs' = docs /\ work[j].step = "supersede" /\ chunks' = Superseded(work[j].old, h)
        BY <1>9 DEF SupersedeOld, h
    <2>2. /\ ChangesIn(h, {"status"})
          /\ \A k \in Jobs : chunks'[k][h].status =
                                 IF k \in work[j].old THEN "superseded" ELSE chunks[k][h].status
        BY <1>1, <2>1, SupersedeFacts
    <2>3. CASE h # f
        BY <1>3, <2>1, <2>2, <2>3 DEF ChangesIn, Finds
    <2>4. CASE h = f
        <3>1. Beside(j, f, work[j].old) /\ Leads(j, f)
            BY <1>1, <1>4, <2>1, <2>4 DEF JobGood, InFileInv, At, InFile
        <3>2. chunks'[j][f].status = "active" /\ chunks'[j][f].point = "active"
            BY <1>3, <2>2, <2>4, <3>1 DEF Beside, Leads, ChangesIn, SameBut
        <3> QED
            BY <2>1, <3>2 DEF Finds
    <2> QED
        BY <2>3, <2>4
<1>10. CASE DeletePoints(j)
    <2>1. docs' = docs /\ work[j].step = "unpoint" /\ chunks' = Pointed(h, work[j].old, "none")
        BY <1>10 DEF DeletePoints, WithoutPoints, Pointed, h
    <2>2. /\ ChangesIn(h, {"point"})
          /\ \A k \in Jobs : chunks'[k][h].point =
                                 IF k \in work[j].old THEN "none" ELSE chunks[k][h].point
        BY <1>1, <2>1, PointsFacts DEF Points
    <2>3. CASE h # f
        BY <1>3, <2>1, <2>2, <2>3 DEF ChangesIn, Finds
    <2>4. CASE h = f
        <3>1. Beside(j, f, {}) /\ j \notin work[j].old
            BY <1>1, <1>4, <2>1, <2>4 DEF JobGood, InFileInv, At, InFile
        <3>2. c = j
            BY <1>3, <3>1 DEF Beside
        <3>3. chunks'[c][f].status = "active" /\ chunks'[c][f].point = "active"
            BY <1>3, <2>2, <2>4, <3>1, <3>2 DEF ChangesIn, SameBut
        <3> QED
            BY <2>1, <3>3 DEF Finds
    <2> QED
        BY <2>3, <2>4
<1>11. CASE MarkMissing(j)
    <2>1. /\ docs' = [docs EXCEPT ![h].status = "missing"] /\ work[j].step = "tidy"
          /\ chunks' = chunks \/ chunks' = Pointed(h, Jobs, "none")
        BY <1>11 DEF MarkMissing, WithoutPoints, Pointed, h
    <2>2. h # f
        BY <1>1, <1>3, <1>4, <2>1 DEF JobGood, TidyInv, At
    <2>3. chunks'[c][f] = chunks[c][f]
        BY <1>1, <2>1, <2>2, PointsFacts DEF ChangesIn, Points
    <2> QED
        BY <1>1, <1>2, <1>3, <2>1, <2>2, <2>3 DEF Finds
<1> QED
    BY <1>5, <1>6, <1>7, <1>8, <1>9, <1>10, <1>11

\* The writes of a job that takes a file.
LEMMA TakeServes ==
    ASSUME KInv, NEW j \in Jobs, NEW f \in Files, Finds(f), docs[f].status = "active",
           NEW h \in Files,
           \/ TakeModified(j, h) \/ TakeNew(j, h)
           \/ SupersedeGone(j, h) /\ h # f
    PROVE  Finds(f)' /\ docs'[f].status = "active"
<1>1. JobInv /\ RestTyped /\ JobGood(j, f)
    BY DEF KInv, Good
<1>2. PICK c \in Jobs : chunks[c][f].status = "active" /\ chunks[c][f].point = "active"
    BY DEF Finds
<1>3. CASE TakeModified(j, h)
    <2>1. /\ docs' = docs /\ work[j].step = "loop" /\ h \in work[j].todo
          /\ chunks' = [chunks EXCEPT ![j][h] = NewChunk(disk[h])]
        BY <1>3 DEF TakeModified, Takes
    <2>2. h # f \/ j # c
        BY <1>1, <1>2, <2>1, StepSets DEF JobGood, Fresh
    <2>3. chunks'[c][f] = chunks[c][f]
        BY <1>1, <2>1, <2>2 DEF RestTyped
    <2> QED
        BY <1>2, <2>1, <2>3 DEF Finds
<1>4. CASE TakeNew(j, h)
    <2>1. /\ chunks' = chunks /\ docs[h].status = "none"
          /\ docs' = [docs EXCEPT ![h] = [status |-> "active", hash |-> work[j].seen[h]]]
        BY <1>4 DEF TakeNew
    <2>2. docs'[f] = docs[f]
        BY <1>1, <2>1 DEF JobInv, Typed
    <2> QED
        BY <1>2, <2>1, <2>2 DEF Finds
<1>5. CASE SupersedeGone(j, h) /\ h # f
    <2>1. docs' = docs /\ chunks' = Superseded(ActiveChunks(h), h)
        BY <1>5 DEF SupersedeGone
    <2>2. ChangesIn(h, {"status"})
        BY <1>1, <2>1, SupersedeFacts
    <2>3. chunks'[c][f] = chunks[c][f]
        BY <1>5, <2>2 DEF ChangesIn
    <2> QED
        BY <1>2, <2>1, <2>3 DEF Finds
<1> QED
    BY <1>3, <1>4, <1>5

LEMMA ServesStep ==
    ASSUME KInv, [Next]_vars, NEW f \in Files, Served(f) # {}, source'.status = "active",
           payload' = payload, ~\E j \in Jobs : work[j].step = "loop" /\ f \in Gone(j)
    PROVE  Served(f)' # {}
<1> USE DEF counters, index, history
<1>1. Finds(f) /\ docs[f].status = "active"
    BY ServedIff
<1>2. SUFFICES Finds(f)' /\ docs'[f].status = "active"
    BY ServedIff
<1>3. CASE UNCHANGED <<chunks, docs>>
    BY <1>1, <1>3 DEF Finds
<1>4. ASSUME NEW s \in {"active", "detached"}, SetPayload(s) PROVE FALSE
    BY <1>4 DEF SetPayload
<1>5. ASSUME NEW j \in Jobs, NEW h \in Files, SupersedeGone(j, h)
      PROVE  h # f
    BY <1>5 DEF SupersedeGone
<1>6. ASSUME NEW j \in Jobs, OfJob(j)
      PROVE  \/ UNCHANGED <<chunks, docs>>
             \/ SaveChunks(j) \/ SavePending(j) \/ Upsert(j) \/ EmbedFails(j) \/ MarkIndexed(j)
             \/ ReplaceDocument(j) \/ SupersedeOld(j) \/ DeletePoints(j) \/ MarkMissing(j)
             \/ \E h \in Files : TakeModified(j, h) \/ TakeNew(j, h) \/ SupersedeGone(j, h)
    BY <1>6 DEF OfJob, Begin, SaveRunning, Scan, Fail, StopCancelled, EndCancelled, Complete,
                FileFails, TakeUnchanged, RefuseFile
<1>7. \/ UNCHANGED <<chunks, docs>>
      \/ \E s \in {"active", "detached"} : SetPayload(s)
      \/ \E j \in Jobs : OfJob(j)
    BY DEF Next, vars, IndexNow, Poll, Detach, Attach, Crash, Restart, Cancel, Edit
<1> QED
    BY <1>1, <1>3, <1>4, <1>5, <1>6, <1>7, FileServes, TakeServes

\* "Build the replacement before changing the active version": what a query finds of a file
\* stays found while its new version is built, and whatever fails, is cancelled or is killed
\* meanwhile: before the old chunks are superseded the new one has a point that is active
\* if any is.
THEOREM ServingGoesOn == Spec => KeepsServing
<1>1. KInv /\ [Next]_vars =>
          [\A f \in Files :
              /\ Served(f) # {}
              /\ source'.status = "active"
              /\ payload' = payload
              /\ ~\E j \in Jobs : work[j].step = "loop" /\ f \in Gone(j)
              => Served(f)' # {}]_vars
    BY ServesStep
<1> QED
    BY <1>1, FilesAreGood, PTL DEF Spec, KeepsServing

===============================================================================
