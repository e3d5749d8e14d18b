---------------------------- MODULE KnowledgeLibraries ----------------------------
(***************************************************************************)
(* The libraries of the knowledge base: the handlers of api/app.py that    *)
(* list, create, rename and delete libraries, add and remove folders, bind *)
(* conversations, search and report the progress of the indexing; the      *)
(* service under them (knowledge/service.py), and the retrieval for a      *)
(* question of a conversation (knowledge/augmenter.py, retriever.py).      *)
(*                                                                         *)
(* A handler awaits each call of the repository and of the vector store:   *)
(* such a call is one atomic step, and requests interleave between them.   *)
(* KnowledgeIndexer has one folder in detail; here an index job only       *)
(* begins and ends, and a folder has one point.                            *)
(***************************************************************************)
EXTENDS Integers, FiniteSets

CONSTANTS
    Libs,          \* library ids, 1..n in the order of their creation
    Names,         \* normalized names
    Default,       \* the name of the library that is made when there is none
    Paths,         \* canonical paths of folders
    Conversations, \* ids of knowledge conversations
    Requests,      \* 1..n, the requests that can be handled at a time
    MaxRequests    \* bound: requests in all

ASSUME LibrariesAssumption ==
    /\ Default \in Names /\ "deleted" \notin Names
    /\ Libs \subseteq Nat \ {0} /\ Requests \subseteq Nat \ {0}
    \* There is one of each to begin with, and a name to give to the second library.
    /\ 1 \in Libs /\ Names # {Default} /\ Paths # {} /\ Conversations # {}

VARIABLES
    libs,      \* rows of knowledge_libraries
    sources,   \* rows of knowledge_sources, by library and path
    points,    \* the status in the payload of each folder's points
    indexing,  \* folders that a job is indexing
    convs,     \* rows of conversations
    bound,     \* rows of knowledge_conversations: the library of each, 0 for none
    cited,     \* conversations with rows in knowledge_retrieval_hits
    req,       \* where the handler of each request is
    started,   \* requests so far, for the bound
    overlapped,\* history: the kinds of requests that ran while a library was deleted
    unhandled  \* history: exceptions that no handler expects

vars == <<libs, sources, points, indexing, convs, bound, cited, req, started,
          overlapped, unhandled>>

Folders == Libs \X Paths

Ops   == {"list", "create", "rename", "delete", "add", "remove", "bind", "unbind",
          "new", "close", "ask", "search", "watch"}
Steps == {"idle", "start", "default", "names", "save", "libraries", "sources", "count",
          "delete", "path", "insert", "reactivate", "queue", "payload", "library",
          "detach", "bind", "unbind", "open", "retrieve", "vectors", "hydrate", "cite", "jobs"}

Request == [op : Ops, step : Steps, lib : Libs, name : Names, path : Paths,
            conv : Conversations, todo : SUBSET Libs, found : SUBSET Folders,
            since : SUBSET Folders, alone : BOOLEAN,
            seen : [Paths -> {"none", "idle", "queued", "ready", "error"}],
            sent : [status : {"none", "indexing", "error", "empty", "ready"},
                    documents : SUBSET Paths]]

TypeOK ==
    /\ libs \in [Libs -> [status : {"none", "active", "deleting"}, name : Names \union {"deleted"}]]
    /\ sources \in [Folders -> [status : {"none", "active", "detached"},
                                scan : {"idle", "queued", "ready", "error"}]]
    /\ points \in [Folders -> {"none", "active", "detached"}]
    /\ indexing \subseteq Folders
    /\ convs \in [Conversations -> {"none", "there", "gone"}]
    /\ bound \in [Conversations -> Libs \union {0}]
    /\ cited \subseteq Conversations
    /\ req \in [Requests -> Request]
    /\ overlapped \subseteq Ops
    /\ unhandled \subseteq [op : Ops, alone : BOOLEAN]
    \* The rows agree with their keys.
    /\ \A f \in Folders : sources[f].status # "none" => libs[f[1]].status # "none"
    /\ \A f \in Folders : points[f] # "none" => sources[f].status # "none"
    /\ \A c \in Conversations : bound[c] # 0 => convs[c] = "there" /\ libs[bound[c]].status # "none"
    /\ \A c \in cited : convs[c] = "there"
    /\ \A l, k \in Libs : l # k /\ libs[l].status = "active" /\ libs[k].status = "active"
                             => libs[l].name # libs[k].name

-------------------------------------------------------------------------------
(* Rows *)

Row(s) == {l \in Libs : libs[l].status = s}
Active == Row("active")

\* Mutant of Found: a deleted library is found too.
FoundAny(l) == libs[l].status # "none"
\* get_library, and the handlers' look at the status.
Found(l) == l \in Active

\* Names that list_libraries_for_user finds, and those the unique key knows.
Listed == {libs[l].name : l \in Active}
Keyed(others) == {libs[l].name : l \in {k \in others : libs[k].status # "none"}} \ {"deleted"}

NextLib == {l \in Libs : libs[l].status = "none" /\ \A k \in Libs : k < l => libs[k].status # "none"}

Shown(l) == {f \in Folders : f[1] = l /\ sources[f].status = "active"}

NoFolder == [status |-> "none", scan |-> "idle"]
Idle == [op |-> "list", step |-> "idle", lib |-> 1, name |-> Default,
         path |-> CHOOSE p \in Paths : TRUE, conv |-> CHOOSE c \in Conversations : TRUE,
         todo |-> {}, found |-> {}, since |-> {}, alone |-> TRUE,
         seen |-> [p \in Paths |-> "none"], sent |-> [status |-> "none", documents |-> {}]]

\* None, one or two libraries, each with an indexed folder, and conversations.
Init ==
    /\ \E n \in 0..2 :
          /\ libs = [l \in Libs |-> IF l > n THEN [status |-> "none", name |-> Default]
                       ELSE [status |-> "active",
                             name |-> IF l = 1 THEN Default ELSE CHOOSE m \in Names : m # Default]]
          /\ LET p == Idle.path IN
                /\ sources = [f \in Folders |-> IF f[1] <= n /\ f[2] = p
                                THEN [status |-> "active", scan |-> "ready"] ELSE NoFolder]
                /\ points = [f \in Folders |-> IF f[1] <= n /\ f[2] = p THEN "active" ELSE "none"]
          /\ \E there \in SUBSET Conversations :
                /\ n = 0 => there = {}
                /\ convs = [c \in Conversations |-> IF c \in there THEN "there" ELSE "none"]
                /\ bound = [c \in Conversations |-> IF c \in there THEN 1 ELSE 0]
    /\ indexing = {} /\ cited = {}
    /\ req = [q \in Requests |-> Idle]
    /\ started = 0 /\ overlapped = {} /\ unhandled = {}

history == <<started, overlapped>>

-------------------------------------------------------------------------------
(* Requests *)

Call(op) == [Idle EXCEPT !.op = op, !.step = "start"]
CallTo(op, l) == [Call(op) EXCEPT !.lib = l]

\* Ids come from earlier answers.
Known == {l \in Libs : libs[l].status # "none"}
Calls ==
    {Call("list")}
    \union {[Call("create") EXCEPT !.name = n] : n \in Names}
    \union {[CallTo("rename", l) EXCEPT !.name = n] : l \in Known, n \in Names}
    \union {[CallTo("add", l) EXCEPT !.path = p] : l \in Known, p \in Paths}
    \union {[CallTo("remove", f[1]) EXCEPT !.path = f[2]] :
               f \in {g \in Folders : sources[g].status # "none"}}
    \union {[CallTo("bind", l) EXCEPT !.conv = c] : l \in Known, c \in Conversations}
    \union {CallTo(op, l) : op \in {"delete", "new", "search", "watch"}, l \in Known}
    \union {[Call(op) EXCEPT !.conv = c] : op \in {"unbind", "close", "ask"},
               c \in {d \in Conversations : convs[d] # "none"}}

Free == {q \in Requests : req[q].step = "idle"}
Busy == {q \in Requests \ Free : req[q].op # "watch"}

Receive(q) ==
    /\ started < MaxRequests
    /\ q \in Free /\ \A k \in Free : q <= k
    /\ started' = started + 1
    /\ \E call \in Calls :
          /\ req' = [k \in Requests |->
                IF k = q THEN [call EXCEPT !.alone = Busy = {},
                                           !.since = IF call.op \in {"ask", "search"}
                                                     THEN UNION {Shown(l) : l \in Libs} ELSE {}]
                ELSE IF call.op = "watch" THEN req[k]
                ELSE [req[k] EXCEPT !.alone = k \notin Busy]]
          /\ overlapped' = overlapped \union
                (IF call.op = "delete" THEN {req[k].op : k \in Busy} ELSE {}) \union
                (IF \E k \in Busy : req[k].op = "delete" THEN {call.op} ELSE {})
    /\ UNCHANGED <<libs, sources, points, indexing, convs, bound, cited, unhandled>>

At(q, op, step) == req[q].op = op /\ req[q].step = step

Go(q, step) == req' = [req EXCEPT ![q].step = step] /\ UNCHANGED unhandled

\* The handler answers, with what it was asked for or with the error it expects.
Answer(q) == req' = [req EXCEPT ![q] = Idle] /\ UNCHANGED unhandled

\* An exception that the handler does not catch: 500, or the run fails.
Raise(q) ==
    /\ req' = [req EXCEPT ![q] = Idle]
    /\ unhandled' = unhandled \union {[op |-> req[q].op, alone |-> req[q].alone]}

\* A folder becomes active: remembered by the questions that are being answered.
GoActive(q, after, f) ==
    /\ req' = [k \in Requests |->
          IF k = q THEN after
          ELSE IF req[k].step # "idle" /\ req[k].op \in {"ask", "search"}
          THEN [req[k] EXCEPT !.since = @ \union {f}] ELSE req[k]]
    /\ UNCHANGED unhandled

-------------------------------------------------------------------------------
(* Libraries *)

\* save_library of a new one.  The key (user_id, normalized_name) refuses a name.
SaveNew(q, n, next) ==
    IF n \in Keyed(Libs) THEN Raise(q) /\ UNCHANGED libs
    ELSE /\ \E l \in NextLib : libs' = [libs EXCEPT ![l] = [status |-> "active", name |-> n]]
         /\ IF next = "answer" THEN Answer(q) ELSE Go(q, next)

(* create_library: the names are read, and the row is inserted later.      *)
Create(q) ==
    /\ \/ /\ At(q, "create", "start")
          /\ IF req[q].name \in Listed THEN Answer(q) ELSE Go(q, "save")
          /\ UNCHANGED libs
       \/ /\ At(q, "create", "save")
          /\ SaveNew(q, req[q].name, "answer")
    /\ UNCHANGED <<sources, points, indexing, convs, bound, cited, history>>

(* ensure_default_library, which list_knowledge_libraries calls first.     *)
EnsureDefault(q) ==
    /\ \/ /\ At(q, "list", "start")
          /\ Go(q, IF Active = {} THEN "default" ELSE "libraries")
          /\ UNCHANGED libs
       \/ /\ At(q, "list", "default")
          /\ IF Default \in Listed THEN Raise(q) ELSE Go(q, "save")
          /\ UNCHANGED libs
       \/ /\ At(q, "list", "save")
          /\ SaveNew(q, Default, "libraries")
    /\ UNCHANGED <<sources, points, indexing, convs, bound, cited, history>>

(* list_knowledge_libraries reads the libraries and, one by one, their     *)
(* folders.                                                                *)
List(q) ==
    /\ \/ /\ At(q, "list", "libraries")
          /\ req' = [req EXCEPT ![q].step = "sources", ![q].todo = Active]
          /\ UNCHANGED unhandled
       \/ /\ At(q, "list", "sources")
          /\ \/ req[q].todo = {} /\ Answer(q)
             \/ \E l \in req[q].todo :
                   /\ \A k \in req[q].todo : l <= k
                   /\ \/ /\ Found(l)
                         /\ req' = [req EXCEPT ![q].todo = @ \ {l}] /\ UNCHANGED unhandled
                      \/ ~Found(l) /\ Raise(q)
    /\ UNCHANGED <<libs, sources, points, indexing, convs, bound, cited, history>>

\* The row as it was read, with the new name: the status is the one of then.
Renamed(row, n) == [status |-> "active", name |-> n]

(* rename_library *)
Rename(q) ==
    LET l == req[q].lib
        n == req[q].name
    IN  /\ \/ /\ At(q, "rename", "start")
              /\ IF ~Found(l) THEN Answer(q)
                 ELSE Go(q, IF libs[l].name = n THEN "save" ELSE "names")
              /\ UNCHANGED libs
           \/ /\ At(q, "rename", "names")
              /\ IF \E k \in Active \ {l} : libs[k].name = n THEN Answer(q) ELSE Go(q, "save")
              /\ UNCHANGED libs
           \/ /\ At(q, "rename", "save")
              /\ IF n \in Keyed(Libs \ {l}) THEN Raise(q) /\ UNCHANGED libs
                 ELSE Answer(q) /\ libs' = [libs EXCEPT ![l] = Renamed(@, n)]
        /\ UNCHANGED <<sources, points, indexing, convs, bound, cited, history>>

IsLast(k) == k <= 1

\* Mutant of DeletedName: the deleted library keeps its name.
SameName(n) == n
\* The id is in the name of a deleted library, so that its name is free again.
DeletedName(n) == "deleted"

Unbound(l) == [c \in Conversations |-> IF bound[c] = l THEN 0 ELSE bound[c]]

AllDetached(l) ==
    [f \in Folders |-> IF f[1] = l /\ sources[f].status # "none"
                       THEN [status |-> "detached", scan |-> "idle"] ELSE sources[f]]

\* set_library_status, set_source_status
WithLibrary(l, s) ==
    [f \in Folders |-> IF f[1] = l /\ points[f] # "none" THEN s ELSE points[f]]
WithFolder(f, s) == [points EXCEPT ![f] = IF @ # "none" THEN s ELSE @]

(* delete_library of the repository, one transaction.  The bindings and the *)
(* folders are let go of even when the library is no longer active.        *)
DeleteRows(q, l) ==
    /\ bound' = Unbound(l)
    /\ sources' = AllDetached(l)
    /\ IF Found(l)
       THEN /\ libs' = [libs EXCEPT ![l] = [status |-> "deleting", name |-> DeletedName(@.name)]]
            /\ Go(q, "payload")
       ELSE Answer(q) /\ UNCHANGED libs

(* delete_library of the service: looked up, counted, deleted.             *)
Delete(q) ==
    LET l == req[q].lib
    IN  /\ \/ /\ At(q, "delete", "start")
              /\ IF Found(l) THEN Go(q, "count") ELSE Answer(q)
              /\ UNCHANGED <<libs, sources, bound>>
           \/ /\ At(q, "delete", "count")
              /\ IF IsLast(Cardinality(Active)) THEN Answer(q) ELSE Go(q, "delete")
              /\ UNCHANGED <<libs, sources, bound>>
           \/ At(q, "delete", "delete") /\ DeleteRows(q, l)
        /\ UNCHANGED <<points, indexing, convs, cited, history>>

(* delete_knowledge_library then marks the points of the library.          *)
DeletePoints(q) ==
    /\ At(q, "delete", "payload")
    /\ points' = WithLibrary(req[q].lib, "detached")
    /\ Answer(q)
    /\ UNCHANGED <<libs, sources, indexing, convs, bound, cited, history>>

-------------------------------------------------------------------------------
(* Folders *)

\* save_source of a new one.  The key (library_id, canonical_path) refuses it.
Insert(q, f) ==
    IF sources[f].status # "none" THEN Raise(q) /\ UNCHANGED sources
    ELSE /\ sources' = [sources EXCEPT ![f] = [status |-> "active", scan |-> "queued"]]
         /\ GoActive(q, Idle, f)

\* get_source_by_canonical_path
ByPath(f) == sources[f].status

(* add_source: a new row, or the detached one is used again.               *)
AddSource(q) ==
    LET f == <<req[q].lib, req[q].path>>
    IN  /\ \/ /\ At(q, "add", "start")
              /\ IF Found(f[1]) THEN Go(q, "path") ELSE Answer(q)
              /\ UNCHANGED sources
           \/ /\ At(q, "add", "path")
              /\ CASE ByPath(f) = "none"     -> Go(q, "insert")
                   [] ByPath(f) = "active"   -> Answer(q)
                   [] ByPath(f) = "detached" -> Go(q, "reactivate")
              /\ UNCHANGED sources
           \/ At(q, "add", "insert") /\ Insert(q, f)
           \/ /\ At(q, "add", "reactivate")
              /\ sources' = [sources EXCEPT ![f].status = "active"]
              /\ GoActive(q, [req[q] EXCEPT !.step = "queue"], f)
           \/ /\ At(q, "add", "queue")
              /\ sources' = [sources EXCEPT ![f].scan = "queued"]
              /\ Go(q, "payload")
        /\ UNCHANGED <<libs, points, indexing, convs, bound, cited, history>>

(* add_knowledge_source marks the points of a folder that was there before. *)
AddPoints(q) ==
    /\ At(q, "add", "payload")
    /\ points' = WithFolder(<<req[q].lib, req[q].path>>, "active")
    /\ Answer(q)
    /\ UNCHANGED <<libs, sources, indexing, convs, bound, cited, history>>

(* detach_source *)
RemoveSource(q) ==
    LET f == <<req[q].lib, req[q].path>>
    IN  /\ \/ /\ At(q, "remove", "start")
              /\ IF Found(f[1]) THEN Go(q, "detach") ELSE Answer(q)
              /\ UNCHANGED sources
           \/ /\ At(q, "remove", "detach")
              /\ sources' = [sources EXCEPT ![f].status = "detached"]
              /\ Go(q, "payload")
        /\ UNCHANGED <<libs, points, indexing, convs, bound, cited, history>>

(* delete_knowledge_source then marks the points of the folder.            *)
RemovePoints(q) ==
    /\ At(q, "remove", "payload")
    /\ points' = WithFolder(<<req[q].lib, req[q].path>>, "detached")
    /\ Answer(q)
    /\ UNCHANGED <<libs, sources, indexing, convs, bound, cited, history>>

(* An index job takes the folder, and ends later whatever happened to it.  *)
(* Bound: one job each time the folder is added.                           *)
IndexBegins(f) ==
    /\ sources[f].status = "active" /\ sources[f].scan = "queued"
    /\ f \notin indexing
    /\ indexing' = indexing \union {f}
    /\ UNCHANGED <<libs, sources, points, convs, bound, cited, req, history, unhandled>>

IndexEnds(f) ==
    /\ f \in indexing
    /\ indexing' = indexing \ {f}
    /\ \/ sources' = [sources EXCEPT ![f].scan = "ready"] /\ points' = [points EXCEPT ![f] = "active"]
       \/ sources' = [sources EXCEPT ![f].scan = "error"] /\ UNCHANGED points
    /\ UNCHANGED <<libs, convs, bound, cited, req, history, unhandled>>

-------------------------------------------------------------------------------
(* Conversations *)

\* Rows of knowledge_conversations.
BindTo(q, c, l) ==
    IF convs[c] # "there" THEN Raise(q) /\ UNCHANGED bound
    ELSE Answer(q) /\ bound' = [bound EXCEPT ![c] = l]
Unbinds(c) == bound' = [bound EXCEPT ![c] = 0]
LibraryOf(c) == bound[c]

(* PUT conversations/{id}/library *)
Bind(q) ==
    LET l == req[q].lib
        c == req[q].conv
    IN  /\ \/ /\ At(q, "bind", "start")
              /\ IF convs[c] = "there" THEN Go(q, "library") ELSE Answer(q)
              /\ UNCHANGED bound
           \/ /\ At(q, "bind", "library")
              /\ IF Found(l) THEN Go(q, "bind") ELSE Answer(q)
              /\ UNCHANGED bound
           \/ At(q, "bind", "bind") /\ BindTo(q, c, l)
        /\ UNCHANGED <<libs, sources, points, indexing, convs, cited, history>>

(* DELETE conversations/{id}/library *)
Unbind(q) ==
    /\ \/ /\ At(q, "unbind", "start")
          /\ IF convs[req[q].conv] = "there" THEN Go(q, "unbind") ELSE Answer(q)
          /\ UNCHANGED bound
       \/ /\ At(q, "unbind", "unbind")
          /\ Unbinds(req[q].conv)
          /\ Answer(q)
    /\ UNCHANGED <<libs, sources, points, indexing, convs, cited, history>>

(* create_knowledge_conversation: the conversation is stored, and bound    *)
(* afterwards.                                                             *)
NewConversation(q) ==
    /\ \/ /\ At(q, "new", "start")
          /\ IF Found(req[q].lib) THEN Go(q, "open") ELSE Answer(q)
          /\ UNCHANGED <<convs, bound>>
       \/ /\ At(q, "new", "open")
          /\ \E c \in Conversations :
                /\ convs[c] = "none"
                /\ convs' = [convs EXCEPT ![c] = "there"]
                /\ req' = [req EXCEPT ![q].step = "bind", ![q].conv = c]
          /\ UNCHANGED <<bound, unhandled>>
       \/ /\ At(q, "new", "bind")
          /\ BindTo(q, req[q].conv, req[q].lib)
          /\ UNCHANGED convs
    /\ UNCHANGED <<libs, sources, points, indexing, cited, history>>

\* Rows that delete of conversation_repository leaves, and that refer to the
\* conversation or to its runs with ON DELETE RESTRICT.
Kept(c) == bound[c] # 0 \/ c \in cited

(* delete_knowledge_conversation: the binding is gone before it is known   *)
(* whether the conversation can be deleted.                                *)
CloseConversation(q) ==
    LET c == req[q].conv
    IN  /\ \/ /\ At(q, "close", "start")
              /\ IF convs[c] = "there" THEN Go(q, "unbind") ELSE Answer(q)
              /\ UNCHANGED <<convs, bound>>
           \/ /\ At(q, "close", "unbind")
              /\ Unbinds(c)
              /\ Go(q, "delete")
              /\ UNCHANGED convs
           \/ /\ At(q, "close", "delete")
              /\ CASE convs[c] = "gone" -> Answer(q) /\ UNCHANGED convs
                   [] convs[c] # "gone" /\ Kept(c) -> Raise(q) /\ UNCHANGED convs
                   [] OTHER -> Answer(q) /\ convs' = [convs EXCEPT ![c] = "gone"]
              /\ UNCHANGED bound
        /\ UNCHANGED <<libs, sources, points, indexing, cited, history>>

-------------------------------------------------------------------------------
(* Questions *)

\* _filename_candidates: the documents of the active folders.
ByName(l) == {f \in Shown(l) : points[f] # "none"}

\* KnowledgeVectorStore.search
ByVector(l) == {f \in Folders : f[1] = l /\ points[f] = "active"}

\* Mutant of Hydrated: what the vectors say is believed.
HydratedAll(fs) == fs
\* What retrieve keeps of the vectors' hits: the row of each folder is read.
Hydrated(fs) == {f \in fs : sources[f].status = "active"}

Find(q, step, fs) ==
    /\ req' = [req EXCEPT ![q].step = step, ![q].found = fs]
    /\ UNCHANGED unhandled

(* augment_system_prompt reads the binding, then the library.              *)
Ask(q) ==
    /\ \/ /\ At(q, "ask", "start")
          /\ IF LibraryOf(req[q].conv) = 0 THEN Answer(q)
             ELSE /\ req' = [req EXCEPT ![q].step = "library", ![q].lib = LibraryOf(req[q].conv)]
                  /\ UNCHANGED unhandled
       \/ /\ At(q, "ask", "library")
          /\ IF Found(req[q].lib) THEN Go(q, "retrieve") ELSE Answer(q)
    /\ UNCHANGED <<libs, sources, points, indexing, convs, bound, cited, history>>

(* search_knowledge_library *)
Search(q) ==
    /\ At(q, "search", "start")
    /\ IF Found(req[q].lib) THEN Go(q, "retrieve") ELSE Answer(q)
    /\ UNCHANGED <<libs, sources, points, indexing, convs, bound, cited, history>>

(* retrieve: passages of the files that the question names, or those near  *)
(* to it.                                                                  *)
Retrieve(q) ==
    LET l == req[q].lib
    IN  /\ \/ /\ req[q].step = "retrieve"
              /\ \/ ByName(l) # {} /\ Find(q, "cite", ByName(l))
                 \/ Go(q, "vectors")
           \/ req[q].step = "vectors" /\ Find(q, "hydrate", ByVector(l))
           \/ req[q].step = "hydrate" /\ Find(q, "cite", Hydrated(req[q].found))
        /\ UNCHANGED <<libs, sources, points, indexing, convs, bound, cited, history>>

(* save_retrieval_hits, which refers to the run of the conversation.       *)
Cite(q) ==
    /\ req[q].step = "cite"
    /\ IF req[q].op = "search" \/ req[q].found = {} THEN Answer(q) /\ UNCHANGED cited
       ELSE IF convs[req[q].conv] # "there" THEN Raise(q) /\ UNCHANGED cited
       ELSE Answer(q) /\ cited' = cited \union {req[q].conv}
    /\ UNCHANGED <<libs, sources, points, indexing, convs, bound, history>>

-------------------------------------------------------------------------------
(* The progress of a library *)

\* get_source_content_counts
Documents(l, ps) == {p \in ps : points[<<l, p>>] # "none"}

\* get_library_index_progress: the folders were read before the jobs and counts.
Report(l, seen) ==
    LET shown == {p \in Paths : seen[p] # "none"}
    IN  [status |-> IF \E p \in shown : <<l, p>> \in indexing THEN "indexing"
                    ELSE IF \E p \in shown : seen[p] = "error" THEN "error"
                    ELSE IF shown = {} THEN "empty" ELSE "ready",
         documents |-> Documents(l, shown)]

\* The folders of a library as the report reads them.
Seen(l) == [p \in Paths |-> IF sources[<<l, p>>].status = "active" THEN sources[<<l, p>>].scan
                                                                   ELSE "none"]

\* Mutant of Sends: an event is sent when the status changed.
SendsStatus(r, payload) == payload.status # r.sent.status
Sends(r, payload) == payload # r.sent

IsPolling(q) == At(q, "watch", "start") \/ At(q, "watch", "library")

(* stream_library_index_events: the library and its folders are read, then *)
(* the jobs and the counts, until the library or the subscriber is gone.   *)
Watch(q) ==
    LET r == req[q]
        payload == Report(r.lib, r.seen)
    IN  /\ \/ /\ IsPolling(q) /\ Found(r.lib)
              /\ req' = [req EXCEPT ![q].step = "jobs", ![q].seen = Seen(r.lib)]
              /\ UNCHANGED unhandled
           \/ IsPolling(q) /\ ~Found(r.lib) /\ Answer(q)
           \/ /\ At(q, "watch", "jobs")
              /\ req' = [req EXCEPT ![q].step = "library", ![q].seen = Idle.seen,
                                    ![q].sent = IF Sends(r, payload) THEN payload ELSE @]
              /\ UNCHANGED unhandled
        /\ UNCHANGED <<libs, sources, points, indexing, convs, bound, cited, history>>

Disconnect(q) ==
    /\ At(q, "watch", "library")
    /\ Answer(q)
    /\ UNCHANGED <<libs, sources, points, indexing, convs, bound, cited, history>>

-------------------------------------------------------------------------------
Handle(q) ==
    \/ Create(q) \/ EnsureDefault(q) \/ List(q) \/ Rename(q) \/ Delete(q) \/ DeletePoints(q)
    \/ AddSource(q) \/ AddPoints(q) \/ RemoveSource(q) \/ RemovePoints(q)
    \/ Bind(q) \/ Unbind(q) \/ NewConversation(q) \/ CloseConversation(q)
    \/ Ask(q) \/ Search(q) \/ Retrieve(q) \/ Cite(q) \/ Watch(q)

\* A request counts as received when its handler reads something.
Fresh == \E q \in Requests : req[q].step = "start"

Next ==
    \/ \E q \in Requests : Handle(q) /\ (Fresh => req[q].step = "start")
    \/ ~Fresh /\ \E q \in Requests : Receive(q)
    \/ ~Fresh /\ \E f \in Folders : IndexBegins(f) \/ IndexEnds(f)
    \/ ~Fresh /\ \E q \in Requests : Disconnect(q)

\* The server goes on with each request and with the jobs it has.
Fairness ==
    /\ \A q \in Requests : WF_vars(Handle(q) /\ (Fresh => req[q].step = "start"))
    /\ WF_vars(~Fresh /\ \E f \in Folders : IndexEnds(f))

Spec == Init /\ [][Next]_vars /\ Fairness

-------------------------------------------------------------------------------
(* Properties *)

(* There is a library as long as there ever was one: the count is read     *)
(* before the library is deleted, so that only two deletions at a time     *)
(* leave none.                                                             *)
LibraryRemains == Known # {} /\ "delete" \notin overlapped => Active # {}

(* A deleted library stays deleted: only a rename that read it before      *)
(* saves it as active again.                                               *)
DeletedStaysDeleted ==
    [][\A l \in Row("deleting") : "rename" \notin overlapped => l \in Row("deleting")']_libs

(* Deleting a library takes its folders along: a folder of a deleted       *)
(* library, which nobody sees and the watcher does not scan, is active     *)
(* only when it was added meanwhile.                                       *)
NoOrphans ==
    \A f \in Folders : sources[f].status = "active" /\ f[1] \in Row("deleting")
                           => "add" \in overlapped

(* A conversation is bound to a deleted library only when it was bound     *)
(* meanwhile.                                                              *)
BoundIsActive ==
    \A c \in Conversations : bound[c] \in Row("deleting") => overlapped \cap {"bind", "new"} # {}

(* What a question cites is in the library that it asked, in a folder that *)
(* was active at some time since the question: not in one that was removed *)
(* before.                                                                 *)
NothingDetachedCited ==
    \A q \in Requests : req[q].step = "cite" =>
        req[q].found \subseteq req[q].since \cap ({req[q].lib} \X Paths)

(* A request that nothing overlaps is answered or refused: the checks of   *)
(* the handlers are those of the tables' keys.  The deletion of a          *)
(* conversation that cited something is the exception.                     *)
OnlyRacesRaise == \A u \in unhandled : u.alone => u.op = "close"

(* A subscriber sees the progress as it finally is, or the stream ends     *)
(* with the library.                                                       *)
StreamCatchesUp ==
    \A q \in Requests :
        <>[](req[q].step # "idle" /\ req[q].op = "watch"
                => /\ req[q].lib \in Active
                   /\ req[q].sent = Report(req[q].lib, Seen(req[q].lib)))

(* A deletion of a library is whole, but for the requests that overlap it: *)
(* nothing is left in it or bound to it, it does not come back, and it is  *)
(* not the last one.                                                       *)
DeletionsAreWhole ==
    [](TypeOK /\ LibraryRemains /\ NoOrphans /\ BoundIsActive) /\ DeletedStaysDeleted

===============================================================================
