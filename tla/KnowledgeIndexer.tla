---------------------------- MODULE KnowledgeIndexer ----------------------------
(***************************************************************************)
(* One folder of a knowledge library: the jobs that index it               *)
(* (knowledge/indexer.py), the watcher that starts them                    *)
(* (knowledge/source_watcher.py), the handlers that start, cancel and      *)
(* detach, and what a query finds (knowledge/retriever.py).                *)
(*                                                                         *)
(* A version of a file is its text, and its hash.  The chunks that one job *)
(* saves for one file are one chunk, named by the job.  An action goes     *)
(* from one write that lasts to the next: what a job only reads in between *)
(* nobody else can observe.                                                *)
(***************************************************************************)
EXTENDS Integers, FiniteSets

CONSTANTS
    Files,      \* relative paths
    Versions,   \* texts a file can have
    Jobs,       \* job ids, 1..n in the order of their creation
    MaxEdits,   \* bound: changes of the folder on disk
    MaxMishaps  \* bound: steps that raise, kills of the sidecar, and removals
                \* of the folder from the library, together

ASSUME FilesAssumption == Files # {} /\ "absent" \notin Versions
ASSUME JobsAssumption  == Jobs \subseteq Nat \ {0} /\ \A j \in Jobs : 1..j \subseteq Jobs

Absent == "absent"
Disk   == Versions \union {Absent}

VARIABLES
    disk,      \* the text of each file
    source,    \* the status and the scan_status of the source row
    docs,      \* the document row of each path
    chunks,    \* the chunk of each file that each job saved
    jobs,      \* the job rows
    work,      \* where index_source is, for each job
    watcher,   \* the watcher: signature, pending_since, has_polled
    payload,   \* set_source_active calls that the handlers still have to make
    up,        \* the sidecar is running
    edits, mishaps, \* counters, for the bounds
    unscanned, \* history: the folder changed since a job looked at it
    raced,     \* history: files that changed after a job hashed them and before it ended
    torn,      \* history: files a job left half done
    hollow,    \* history: those it left with a document row and not its chunks
    overlapped \* history: two handlers set the payload at a time

vars == <<disk, source, docs, chunks, jobs, work, watcher, payload, up, edits,
          mishaps, unscanned, raced, torn, hollow, overlapped>>

Ended  == {"completed", "cancelled", "failed", "interrupted"}
InFile == {"chunks", "embed", "upsert", "mark", "replace", "supersede", "unpoint"}
Steps  == {"none", "task", "read", "scan", "loop", "tidy", "cancelling", "done", "dead"}
              \union InFile

TypeOK ==
    /\ disk \in [Files -> Disk]
    /\ source \in [status : {"active", "detached"},
                   scan : {"queued", "scanning", "ready", "error"}]
    /\ docs \in [Files -> [status : {"none", "active", "missing"}, hash : Disk]]
    /\ chunks \in [Jobs -> [Files -> [text : Disk,
                                      status : {"none", "active", "superseded"},
                                      embedding : {"none", "pending", "indexed", "error"},
                                      point : {"none", "active", "detached"}]]]
    /\ jobs \in [Jobs -> [status : {"none", "queued", "running"} \union Ended,
                          cancel : BOOLEAN, failed : BOOLEAN]]
    /\ work \in [Jobs -> [step : Steps, file : Files, todo : SUBSET Files,
                          seen : [Files -> Disk], known : [Files -> Disk],
                          old : SUBSET Jobs, text : Disk, cancel : BOOLEAN]]
    /\ watcher \in [signature : {"unknown", "same", "differs"}, pending : BOOLEAN, polled : BOOLEAN]
    /\ payload \subseteq {"active", "detached"}
    /\ up \in BOOLEAN /\ unscanned \in BOOLEAN /\ overlapped \in BOOLEAN
    /\ raced \subseteq Files /\ torn \subseteq Files /\ hollow \subseteq Files

NoChunk == [text |-> Absent, status |-> "none", embedding |-> "none", point |-> "none"]
NoDoc   == [status |-> "none", hash |-> Absent]
Idle    == [step |-> "none", file |-> CHOOSE f \in Files : TRUE, todo |-> {},
            seen |-> [f \in Files |-> Absent], known |-> [f \in Files |-> Absent],
            old |-> {}, text |-> Absent, cancel |-> FALSE]
Unpolled == [signature |-> "unknown", pending |-> FALSE, polled |-> FALSE]

\* The folder was just added and nothing is indexed.
Init ==
    /\ disk \in [Files -> Disk]
    /\ source = [status |-> "active", scan |-> "queued"]
    /\ docs = [f \in Files |-> NoDoc]
    /\ chunks = [j \in Jobs |-> [f \in Files |-> NoChunk]]
    /\ jobs = [j \in Jobs |-> [status |-> "none", cancel |-> FALSE, failed |-> FALSE]]
    /\ work = [j \in Jobs |-> Idle]
    /\ watcher = Unpolled
    /\ payload = {}
    /\ up = TRUE
    /\ edits = 0 /\ mishaps = 0
    /\ unscanned = TRUE /\ raced = {} /\ torn = {} /\ hollow = {} /\ overlapped = FALSE

counters == <<up, edits, mishaps>>
index    == <<docs, chunks>>
history  == <<unscanned, raced, torn, hollow, overlapped>>

Mishap == mishaps < MaxMishaps /\ mishaps' = mishaps + 1

\* The files that the jobs of js are at when their step is one of steps.
Left(js, steps) == {work[j].file : j \in {k \in js : work[k].step \in steps}}

\* The jobs of js stop where they are.  A document row is saved before its chunks,
\* and outlasts them.
Leave(js) ==
    /\ torn' = torn \union Left(js, InFile \union {"tidy"})
    /\ hollow' = hollow \union Left(js, {"chunks", "tidy"})

-------------------------------------------------------------------------------
(* Jobs: queue, cancel, recover *)

\* get_active_index_job_for_source
ActiveJobs == {j \in Jobs : jobs[j].status \in {"queued", "running"}}

\* Mutant of Available: the source's active job is not looked up.
AvailableAlways == TRUE
Available == ActiveJobs = {}

\* The job id that is created next; none is left when the bound is reached.
NextId == {j \in Jobs : jobs[j].status = "none" /\ \A k \in 1..(j - 1) : jobs[k].status # "none"}

\* queue_knowledge_index_job, under its lock, and the background task.
Queue(j) ==
    /\ jobs' = [jobs EXCEPT ![j].status = "queued"]
    /\ work' = [work EXCEPT ![j].step = "task"]

(* POST sources/{id}/index *)
IndexNow ==
    /\ up
    /\ source.status = "active"
    /\ Available
    /\ \E j \in NextId : Queue(j)
    /\ UNCHANGED <<disk, source, index, watcher, payload, counters, history>>

(* POST jobs/{id}/cancel *)
Cancel(j) ==
    /\ up
    /\ j \in ActiveJobs
    /\ ~jobs[j].cancel
    /\ jobs' = [jobs EXCEPT ![j].cancel = TRUE]
    /\ UNCHANGED <<disk, source, index, work, watcher, payload, counters, history>>

\* The watcher's _notify: a source that is being indexed is skipped.
Notify ==
    IF Available /\ NextId # {}
    THEN \E j \in NextId : Queue(j)
    ELSE UNCHANGED <<jobs, work>>

(* poll_once.  The signature remembered is that of the folder as it is, or  *)
(* not.  Two polls are further apart than the debounce time.               *)
Poll ==
    /\ up
    /\ IF source.status # "active"
       THEN /\ watcher' = [Unpolled EXCEPT !.polled = TRUE]
            /\ UNCHANGED <<jobs, work>>
       ELSE /\ watcher' = [signature |-> "same", pending |-> watcher.signature = "differs",
                           polled |-> TRUE]
            /\ IF \/ watcher.signature = "unknown" /\ ~watcher.polled
                  \/ watcher.signature = "same" /\ watcher.pending
               THEN Notify
               ELSE UNCHANGED <<jobs, work>>
    /\ UNCHANGED <<disk, source, index, payload, counters, history>>

-------------------------------------------------------------------------------
(* index_source: the job *)

To(j, step) == work' = [work EXCEPT ![j].step = step]

End(j, step) == work' = [work EXCEPT ![j] = [Idle EXCEPT !.step = step]]

(* The source is read.  A source that was detached since fails the task,   *)
(* and the job row stays as it is.                                         *)
Begin(j) ==
    /\ up
    /\ work[j].step = "task"
    /\ work' = [work EXCEPT ![j].step = IF source.status = "active" THEN "read" ELSE "dead",
                            ![j].cancel = jobs[j].cancel]
    /\ UNCHANGED <<disk, source, index, jobs, watcher, payload, counters, history>>

(* The job is saved as it was read, with the status it has now.            *)
SaveRunning(j) ==
    /\ up
    /\ work[j].step = "read"
    /\ jobs' = [jobs EXCEPT ![j].status = "running", ![j].cancel = work[j].cancel]
    /\ source' = [source EXCEPT !.scan = "scanning"]
    /\ To(j, "scan")
    /\ UNCHANGED <<disk, index, watcher, payload, counters, history>>

(* scan_directory hashes every file, and the active documents are listed.  *)
Scan(j) ==
    /\ up
    /\ work[j].step = "scan"
    /\ work' = [work EXCEPT
          ![j].step = "loop", ![j].seen = disk,
          ![j].todo = {f \in Files : disk[f] # Absent},
          ![j].known = [f \in Files |-> IF docs[f].status = "active" THEN docs[f].hash
                                                                    ELSE Absent]]
    /\ unscanned' = FALSE
    /\ UNCHANGED <<disk, source, index, jobs, watcher, payload, counters, raced, torn, hollow,
                   overlapped>>

(* The handler of the job's exceptions: the folder is gone, or the storage *)
(* fails outside of a file.                                                *)
Fail(j) ==
    /\ up
    /\ work[j].step \in {"scan", "tidy"}
    /\ Mishap
    /\ source' = [source EXCEPT !.scan = "error"]
    /\ jobs' = [jobs EXCEPT ![j].status = "failed", ![j].cancel = FALSE]
    /\ End(j, "done")
    /\ Leave({j})
    /\ UNCHANGED <<disk, index, watcher, payload, up, edits, unscanned, raced, overlapped>>

(* The cancel request is seen before a file is taken.                      *)
StopCancelled(j) ==
    /\ up
    /\ work[j].step = "loop"
    /\ work[j].todo # {}
    /\ jobs[j].cancel
    /\ jobs' = [jobs EXCEPT ![j].status = "cancelled"]
    /\ End(j, "cancelling")
    /\ UNCHANGED <<disk, source, index, watcher, payload, counters, history>>

(* The source is marked after its job ended: the next job may have begun.  *)
EndCancelled(j) ==
    /\ up
    /\ work[j].step = "cancelling"
    /\ source' = [source EXCEPT !.scan = "ready"]
    /\ End(j, "done")
    /\ UNCHANGED <<disk, index, jobs, watcher, payload, counters, history>>

\* Files of active documents that the scan did not find.
Gone(j) == {f \in Files : /\ work[j].known[f] # Absent
                          /\ work[j].seen[f] = Absent
                          /\ docs[f].status = "active"}

(* All files are done.  A cancel request that came after the last of them  *)
(* is overwritten.                                                         *)
Complete(j) ==
    /\ up
    /\ work[j].step = "loop"
    /\ work[j].todo = {}
    /\ Gone(j) = {}
    /\ source' = [source EXCEPT !.scan = "ready"]
    /\ jobs' = [jobs EXCEPT ![j].status = "completed", ![j].cancel = FALSE]
    /\ End(j, "done")
    /\ UNCHANGED <<disk, index, watcher, payload, counters, history>>

-------------------------------------------------------------------------------
(* index_source: a file *)

Takes(j, f) ==
    /\ up
    /\ work[j].step = "loop"
    /\ f \in work[j].todo
    /\ ~jobs[j].cancel

Known(j, f)     == work[j].known[f] # Absent
Unchanged(j, f) == work[j].known[f] = work[j].seen[f]

\* list_active_chunks_for_document
ActiveChunks(f) == {k \in Jobs : chunks[k][f].status = "active"}

\* Mutant of NeedEmbedding: only chunks that were never tried.
NeedEmbeddingNew(f) == {k \in ActiveChunks(f) : chunks[k][f].embedding = "none"}
\* _chunks_needing_embedding
NeedEmbedding(f) == {k \in ActiveChunks(f) : chunks[k][f].embedding # "indexed"}

\* The chunks that are embedded: those to retry, or the new one.
Batch(j, f) == IF Known(j, f) /\ Unchanged(j, f) THEN NeedEmbedding(f) ELSE {j}

TakeUnchanged(j, f) ==
    /\ Takes(j, f)
    /\ Known(j, f) /\ Unchanged(j, f)
    /\ work' = [work EXCEPT ![j].todo = @ \ {f}, ![j].file = f,
                            ![j].step = IF NeedEmbedding(f) = {} THEN "loop" ELSE "embed"]
    /\ UNCHANGED <<disk, source, index, jobs, watcher, payload, counters, history>>

NewChunk(text) == [NoChunk EXCEPT !.text = text, !.status = "active"]

(* A modified file is parsed, and its new chunk saved beside the old ones. *)
\* Mutant of TakeModified: the old version goes first.
TakeModifiedFirst(j, f) ==
    /\ Takes(j, f)
    /\ Known(j, f) /\ ~Unchanged(j, f)
    /\ disk[f] # Absent
    /\ chunks' = [k \in Jobs |-> [chunks[k] EXCEPT ![f] =
                     IF k = j THEN NewChunk(disk[f])
                     ELSE IF @.status = "active" THEN [@ EXCEPT !.status = "superseded"] ELSE @]]
    /\ work' = [work EXCEPT ![j].todo = @ \ {f}, ![j].file = f, ![j].step = "embed",
                            ![j].old = ActiveChunks(f)]
    /\ UNCHANGED <<disk, source, docs, jobs, watcher, payload, counters, history>>
TakeModified(j, f) ==
    /\ Takes(j, f)
    /\ Known(j, f) /\ ~Unchanged(j, f)
    /\ disk[f] # Absent
    /\ chunks' = [chunks EXCEPT ![j][f] = NewChunk(disk[f])]
    /\ work' = [work EXCEPT ![j].todo = @ \ {f}, ![j].file = f, ![j].step = "embed",
                            ![j].old = ActiveChunks(f)]
    /\ UNCHANGED <<disk, source, docs, jobs, watcher, payload, counters, history>>

(* A new file is parsed and its document saved; the path must have no row. *)
TakeNew(j, f) ==
    /\ Takes(j, f)
    /\ ~Known(j, f)
    /\ disk[f] # Absent
    /\ docs[f].status = "none"
    /\ docs' = [docs EXCEPT ![f] = [status |-> "active", hash |-> work[j].seen[f]]]
    /\ work' = [work EXCEPT ![j].todo = @ \ {f}, ![j].file = f, ![j].step = "chunks",
                            ![j].text = disk[f], ![j].old = {}]
    /\ UNCHANGED <<disk, source, chunks, jobs, watcher, payload, counters, history>>

(* The file is gone when it is parsed, or its path has the row of a        *)
(* document that went missing (uq_knowledge_documents_source_path).        *)
RefuseFile(j, f) ==
    /\ Takes(j, f)
    /\ ~(Known(j, f) /\ Unchanged(j, f))
    /\ disk[f] = Absent \/ (~Known(j, f) /\ docs[f].status = "missing")
    /\ jobs' = [jobs EXCEPT ![j].failed = TRUE]
    /\ work' = [work EXCEPT ![j].todo = @ \ {f}]
    /\ UNCHANGED <<disk, source, index, watcher, payload, counters, history>>

SaveChunks(j) ==
    /\ up
    /\ work[j].step = "chunks"
    /\ chunks' = [chunks EXCEPT ![j][work[j].file] = NewChunk(work[j].text)]
    /\ To(j, "embed")
    /\ UNCHANGED <<disk, source, docs, jobs, watcher, payload, counters, history>>

\* The batch of job j with its embeddings' status, and with its points.
WithEmbedding(j, f, status) ==
    [k \in Jobs |-> [chunks[k] EXCEPT ![f].embedding = IF k \in Batch(j, f) THEN status ELSE @]]
WithPoints(j, f) ==
    [k \in Jobs |-> [chunks[k] EXCEPT ![f].point = IF k \in Batch(j, f) THEN "active" ELSE @]]

SavePending(j) ==
    /\ up
    /\ work[j].step = "embed"
    /\ chunks' = WithEmbedding(j, work[j].file, "pending")
    /\ To(j, "upsert")
    /\ UNCHANGED <<disk, source, docs, jobs, watcher, payload, counters, history>>

(* The points are active whatever the source is by now.                    *)
Upsert(j) ==
    /\ up
    /\ work[j].step = "upsert"
    /\ chunks' = WithPoints(j, work[j].file)
    /\ To(j, "mark")
    /\ UNCHANGED <<disk, source, docs, jobs, watcher, payload, counters, history>>

EmbedFails(j) ==
    /\ up
    /\ work[j].step = "upsert"
    /\ Mishap
    /\ chunks' = WithEmbedding(j, work[j].file, "error")
    /\ jobs' = [jobs EXCEPT ![j].failed = TRUE]
    /\ To(j, "loop")
    /\ Leave({j})
    /\ UNCHANGED <<disk, source, docs, watcher, payload, up, edits, unscanned, raced, overlapped>>

MarkIndexed(j) ==
    /\ up
    /\ work[j].step = "mark"
    /\ LET f == work[j].file IN
       /\ chunks' = WithEmbedding(j, f, "indexed")
       /\ To(j, IF Known(j, f) /\ ~Unchanged(j, f) THEN "replace" ELSE "loop")
    /\ UNCHANGED <<disk, source, docs, jobs, watcher, payload, counters, history>>

ReplaceDocument(j) ==
    /\ up
    /\ work[j].step = "replace"
    /\ LET f == work[j].file IN /\ docs' = [docs EXCEPT ![f].hash = work[j].seen[f]]
                                /\ hollow' = hollow \ {f}
    /\ To(j, IF work[j].old = {} THEN "loop" ELSE "supersede")
    /\ UNCHANGED <<disk, source, chunks, jobs, watcher, payload, counters, unscanned, raced,
                   torn, overlapped>>

\* supersede_chunks
Superseded(old, f) ==
    [k \in Jobs |-> [chunks[k] EXCEPT ![f].status = IF k \in old THEN "superseded" ELSE @]]

SupersedeOld(j) ==
    /\ up
    /\ work[j].step = "supersede"
    /\ chunks' = Superseded(work[j].old, work[j].file)
    /\ To(j, "unpoint")
    /\ UNCHANGED <<disk, source, docs, jobs, watcher, payload, counters, history>>

\* delete_points, delete_by_document
\* Mutant of WithoutPoints: the points stay.
WithoutPointsOf(ks, f) == chunks
WithoutPoints(ks, f) ==
    [k \in Jobs |-> [chunks[k] EXCEPT ![f].point = IF k \in ks THEN "none" ELSE @]]

DeletePoints(j) ==
    /\ up
    /\ work[j].step = "unpoint"
    /\ chunks' = WithoutPoints(work[j].old, work[j].file)
    /\ To(j, "loop")
    /\ UNCHANGED <<disk, source, docs, jobs, watcher, payload, counters, history>>

(* A step of a file raises: the file is counted and the next one taken.    *)
FileFails(j) ==
    /\ up
    /\ work[j].step \in InFile \ {"upsert"}
    /\ Mishap
    /\ jobs' = [jobs EXCEPT ![j].failed = TRUE]
    /\ To(j, "loop")
    /\ Leave({j})
    /\ UNCHANGED <<disk, source, index, watcher, payload, up, edits, unscanned, raced, overlapped>>

(* A document whose file is gone: first its chunks, then the points and    *)
(* the row.                                                                *)
SupersedeGone(j, f) ==
    /\ up
    /\ work[j].step = "loop"
    /\ work[j].todo = {}
    /\ f \in Gone(j)
    /\ chunks' = Superseded(ActiveChunks(f), f)
    /\ work' = [work EXCEPT ![j].step = "tidy", ![j].file = f, ![j].old = ActiveChunks(f)]
    /\ UNCHANGED <<disk, source, docs, jobs, watcher, payload, counters, history>>

MarkMissing(j) ==
    /\ up
    /\ work[j].step = "tidy"
    /\ LET f == work[j].file IN
       /\ chunks' = IF work[j].old = {} THEN chunks ELSE WithoutPoints(Jobs, f)
       /\ docs' = [docs EXCEPT ![f].status = "missing"]
    /\ To(j, "loop")
    /\ UNCHANGED <<disk, source, jobs, watcher, payload, counters, history>>

-------------------------------------------------------------------------------
(* The folder, the handlers of the source and the sidecar *)

\* Files some job has hashed and may still parse.
Reading == {f \in Files : \E j \in Jobs : work[j].step \in InFile \union {"loop", "tidy"}}

(* A file is written, added or removed.  The watcher starts its debounce   *)
(* again when it sees that.                                                *)
Edit(f, v) ==
    /\ edits < MaxEdits /\ edits' = edits + 1
    /\ disk[f] # v
    /\ disk' = [disk EXCEPT ![f] = v]
    /\ raced' = raced \union ({f} \intersect Reading)
    /\ watcher' = IF watcher.signature = "unknown" THEN watcher
                  ELSE [watcher EXCEPT !.signature = "differs", !.pending = FALSE]
    /\ unscanned' = TRUE
    /\ UNCHANGED <<source, index, jobs, work, payload, up, mishaps, torn, hollow, overlapped>>

(* The row of the source is written, and set_source_active is to be called.*)
SetSource(status, scan) ==
    /\ source' = [status |-> status, scan |-> scan]
    /\ payload' = payload \union {status}
    /\ overlapped' = (overlapped \/ payload # {})

(* DELETE sources/{id} *)
Detach ==
    /\ up
    /\ source.status = "active"
    /\ Mishap
    /\ SetSource("detached", source.scan)
    /\ UNCHANGED <<disk, index, jobs, work, watcher, up, edits, unscanned, raced, torn, hollow>>

(* POST libraries/{id}/sources, of the same folder again *)
Attach ==
    /\ up
    /\ source.status = "detached"
    /\ SetSource("active", "queued")
    /\ UNCHANGED <<disk, index, jobs, work, watcher, counters, unscanned, raced, torn, hollow>>

(* set_source_active *)
SetPayload(status) ==
    /\ up
    /\ status \in payload
    /\ payload' = payload \ {status}
    /\ chunks' = [k \in Jobs |-> [f \in Files |->
                    [chunks[k][f] EXCEPT !.point = IF @ = "none" THEN @ ELSE status]]]
    /\ UNCHANGED <<disk, source, docs, jobs, work, watcher, counters, history>>

(* The sidecar is stopped: stop_knowledge_jobs cancels the tasks, or it is *)
(* killed.  A task that is cancelled writes nothing any more.              *)
Crash ==
    /\ up
    /\ Mishap
    /\ up' = FALSE
    /\ work' = [j \in Jobs |-> IF work[j].step \in {"none", "done", "dead"} THEN work[j]
                            ELSE [Idle EXCEPT !.step = "dead"]]
    /\ Leave(Jobs)
    /\ payload' = {}
    /\ overlapped' = (overlapped \/ payload # {})
    /\ watcher' = Unpolled
    /\ UNCHANGED <<disk, source, index, jobs, edits, unscanned, raced>>

(* recover_knowledge_jobs *)
Restart ==
    /\ ~up
    /\ up' = TRUE
    /\ jobs' = [j \in Jobs |-> [jobs[j] EXCEPT !.status =
                                  IF j \in ActiveJobs THEN "interrupted" ELSE @]]
    /\ source' = [source EXCEPT !.scan = IF ActiveJobs = {} THEN @ ELSE "error"]
    /\ UNCHANGED <<disk, index, work, watcher, payload, edits, mishaps, history>>

OfJob(j) ==
    \/ Begin(j) \/ SaveRunning(j) \/ Scan(j) \/ Fail(j) \/ StopCancelled(j)
    \/ EndCancelled(j) \/ Complete(j) \/ SaveChunks(j) \/ SavePending(j) \/ Upsert(j)
    \/ EmbedFails(j) \/ MarkIndexed(j) \/ ReplaceDocument(j) \/ SupersedeOld(j)
    \/ DeletePoints(j) \/ FileFails(j) \/ MarkMissing(j)
    \/ \E f \in Files : \/ TakeUnchanged(j, f) \/ TakeModified(j, f) \/ TakeNew(j, f)
                        \/ RefuseFile(j, f) \/ SupersedeGone(j, f)

Next ==
    \/ IndexNow \/ Poll \/ Detach \/ Attach \/ Crash \/ Restart
    \/ \E j \in Jobs : Cancel(j) \/ OfJob(j)
    \/ \E f \in Files, v \in Disk : Edit(f, v)
    \/ \E s \in {"active", "detached"} : SetPayload(s)

Spec == Init /\ [][Next]_vars

-------------------------------------------------------------------------------
(* What a query finds *)

\* retrieve: the rows behind a point.
Hydrated(k, f) ==
    /\ chunks[k][f].status = "active"
    /\ docs[f].status = "active"
    /\ source.status = "active"

\* search, which filters by the payload, and retrieve.
Served(f) == {chunks[k][f].text : k \in {c \in Jobs : /\ chunks[c][f].point = "active"
                                                      /\ Hydrated(c, f)}}

-------------------------------------------------------------------------------
(* Properties *)

\* No two jobs work on the index of a folder at a time, whoever started them:
\* the handler, or the watcher while the handler's job is still queued.
OneJob ==
    \A j, k \in Jobs :
        /\ work[j].step \in InFile \union {"read", "scan", "loop", "tidy"}
        /\ work[k].step \in InFile \union {"read", "scan", "loop", "tidy"}
        => j = k

\* The job that is the last one, ended without a failed file, and saw the
\* folder as it is now.
Indexed ==
    /\ payload = {} /\ ~overlapped
    /\ source.status = "active"
    /\ ~unscanned
    /\ \E j \in Jobs : /\ jobs[j].status = "completed"
                       /\ ~jobs[j].failed
                       /\ \A k \in Jobs : k > j => jobs[k].status = "none"

\* After a clean job a query finds every file as it is on disk, however many
\* earlier jobs failed, were cancelled or were killed half way.  (Not a file
\* that changed while a job read it, which can keep the hash of one text and
\* the chunks of another; nor a hollow one, which only a job that replaces its
\* document repairs.)
CurrentIsServed ==
    Indexed => \A f \in Files \ (raced \union hollow) :
                   disk[f] # Absent => disk[f] \in Served(f)

\* After a clean job no query finds a text that is not on disk any more.  (A
\* file a job left half done is left out: the chunks of a version that never
\* became the document's are served when the old version comes back.)
NothingStale ==
    Indexed => \A f \in Files \ (raced \union torn) : Served(f) \subseteq {disk[f]}

\* Vectors of replaced or missing text do not stay behind, where they would
\* take the places of a search, unless a job was cut between its steps.
NoDeadPoints ==
    ActiveJobs = {} =>
        \A f \in Files \ torn, j \in Jobs :
            chunks[j][f].status = "superseded" => chunks[j][f].point = "none"

\* A folder that was removed is silent, also when a job that was running goes
\* on to store points that say "active".
DetachedIsSilent == source.status = "detached" => \A f \in Files : Served(f) = {}

\* A folder that is added again is found again without being indexed again.
ReattachServes ==
    source.status = "active" /\ payload = {} /\ ~overlapped =>
        \A f \in Files, j \in Jobs : chunks[j][f].point # "detached"

\* When no job is left the folder is not shown as being scanned, whether the
\* last one completed, failed, was cancelled or was cut by a restart.  (Not one
\* that was cut after its job was saved as cancelled and before its source was.)
ScanEnds ==
    up /\ ActiveJobs = {}
       /\ (\A j \in Jobs : jobs[j].status = "cancelled" => work[j].step = "done")
        => source.scan # "scanning"

\* "Build the replacement before changing the active version": a file that a
\* query finds stays found while its new version is indexed, whatever fails.
KeepsServing ==
    [][\A f \in Files :
          /\ Served(f) # {}
          /\ source'.status = "active"
          /\ payload' = payload
          /\ ~\E j \in Jobs : work[j].step = "loop" /\ f \in Gone(j)
          => Served(f)' # {}]_vars

\* A query finds what is there: the files as they are, no text that has gone, and
\* nothing of a folder that was removed.
ServesWhatIsThere == CurrentIsServed /\ NothingStale /\ DetachedIsSilent

\* What is stored about a folder does not outlast its cause: points of text that was
\* replaced, points of a folder that was removed and added again, and "scanning".
NothingLeftBehind == TypeOK /\ NoDeadPoints /\ ReattachServes /\ ScanEnds

===============================================================================
