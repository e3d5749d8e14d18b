------------------------ MODULE KnowledgeLibrariesProofs ------------------------
(***************************************************************************)
(* What a question cites, what a request that nothing overlaps may raise,  *)
(* and what the deletion of a library leaves: for any libraries, folders,  *)
(* conversations and requests, any number of them at a time.               *)
(***************************************************************************)
EXTENDS KnowledgeLibraries, FiniteSetTheorems, TLAPS

\* A deleted library has lost its name, and no other has; a job is of a folder that
\* has a row.
RowsAgree ==
    /\ \A l \in Libs : libs[l].status = "deleting" <=> libs[l].name = "deleted"
    /\ \A f \in indexing : sources[f].status # "none"

-------------------------------------------------------------------------------
(* Pairs of requests *)

\* What runs beside a deletion is remembered, and a request that has been alone is.
Overlapping ==
    \A q, k \in Busy : q # k =>
        /\ req[q].op = "delete" => req[k].op \in overlapped
        /\ ~req[q].alone

-------------------------------------------------------------------------------
(* Each request *)

\* The id of the library is one that was given out.
Addressed(q) ==
    req[q].step # "idle" /\ req[q].op \in {"rename", "delete", "add", "remove", "bind", "new"}
        => req[q].lib \in Known

\* The library that the handler has looked up is active, or was deleted beside it.
LookedUp(q) ==
    \/ req[q].op \in {"rename", "add", "new"} /\ req[q].step \notin {"idle", "start"}
    \/ At(q, "bind", "bind")
StillFound(q) == LookedUp(q) => req[q].lib \in Active \/ req[q].op \in overlapped

\* A deletion that has counted leaves a library, unless another one runs.
Leaves(q) ==
    At(q, "delete", "delete") =>
        "delete" \in overlapped \/ \E l \in Active : l # req[q].lib

\* A question remembers the active folders, and has found folders of its library.
Remembers(q) ==
    /\ req[q].step \in {"retrieve", "vectors", "hydrate", "cite"} => req[q].op \in {"ask", "search"}
    /\ req[q].step # "idle" /\ req[q].op \in {"ask", "search"} =>
          \A f \in Folders : sources[f].status = "active" => f \in req[q].since
    /\ req[q].step \in {"hydrate", "cite"} => req[q].found \subseteq {req[q].lib} \X Paths
    /\ req[q].step = "cite" => req[q].found \subseteq req[q].since

\* What the handler of q has checked.
Checked(q) ==
    /\ At(q, "create", "save") => req[q].name \notin Listed
    /\ At(q, "list", "default") \/ At(q, "list", "save") => Active = {}
    /\ At(q, "list", "sources") => req[q].todo \subseteq Active
    /\ At(q, "rename", "save") =>
          \A l \in Active \ {req[q].lib} : libs[l].name # req[q].name
    /\ At(q, "add", "insert") => sources[<<req[q].lib, req[q].path>>].status = "none"
    /\ At(q, "bind", "library") \/ At(q, "bind", "bind") \/ At(q, "new", "bind")
          => convs[req[q].conv] = "there"
    /\ req[q].op = "ask" /\ req[q].step \notin {"idle", "start"} => convs[req[q].conv] = "there"

\* It still holds as long as no other request runs.
StillChecked(q) == q \in Busy /\ req[q].alone => Checked(q)

Good(q) ==
    Addressed(q) /\ StillFound(q) /\ Leaves(q) /\ Remembers(q) /\ StillChecked(q)

LibrariesInv ==
    /\ TypeOK /\ RowsAgree /\ Overlapping
    /\ \A q \in Requests : Good(q)
    /\ LibraryRemains /\ NoOrphans /\ BoundIsActive /\ OnlyRacesRaise

-------------------------------------------------------------------------------
(* How a step changes the requests *)

\* The request k goes on as it was; at most it remembers more folders.
Continues(k) ==
    /\ req'[k].op = req[k].op /\ req'[k].step = req[k].step /\ req'[k].lib = req[k].lib
    /\ req'[k].name = req[k].name /\ req'[k].path = req[k].path
    /\ req'[k].conv = req[k].conv /\ req'[k].todo = req[k].todo
    /\ req'[k].found = req[k].found /\ req'[k].alone = req[k].alone
    /\ req[k].since \subseteq req'[k].since

\* The handler of q takes its next step or ends, and the others wait.
Moves(q) ==
    /\ req' \in [Requests -> Request]
    /\ \A k \in Requests : k # q => Continues(k)
    /\ req'[q].step = "idle" \/ (req'[q].op = req[q].op /\ req'[q].alone = req[q].alone)

\* Its arguments stay as they were.
Advances(q, step) ==
    /\ Moves(q)
    /\ req'[q].step = step
    /\ req'[q].op = req[q].op /\ req'[q].lib = req[q].lib /\ req'[q].name = req[q].name
    /\ req'[q].path = req[q].path /\ req'[q].conv = req[q].conv
    /\ req'[q].todo = req[q].todo /\ req'[q].found = req[q].found
    /\ req'[q].alone = req[q].alone /\ req'[q].since = req[q].since

Ends(q) == Moves(q) /\ req'[q].step = "idle"

LEMMA IdleFacts == Idle \in Request /\ Idle.step = "idle" /\ Idle.op = "list"
<1>1. (CHOOSE p \in Paths : TRUE) \in Paths
    BY LibrariesAssumption
<1>2. (CHOOSE c \in Conversations : TRUE) \in Conversations
    BY LibrariesAssumption
<1>3. Idle.op \in Ops /\ Idle.step \in Steps /\ Idle.lib \in Libs /\ Idle.name \in Names
    BY LibrariesAssumption DEF Idle, Ops, Steps
<1>4. Idle.seen \in [Paths -> {"none", "idle", "queued", "ready", "error"}]
    BY DEF Idle
<1>5. Idle.path \in Paths /\ Idle.conv \in Conversations
    BY <1>1, <1>2 DEF Idle
<1> DEFINE r == [op |-> Idle.op, step |-> Idle.step, lib |-> Idle.lib, name |-> Idle.name,
                 path |-> Idle.path, conv |-> Idle.conv, todo |-> {}, found |-> {},
                 since |-> {}, alone |-> TRUE, seen |-> Idle.seen,
                 sent |-> [status |-> "none", documents |-> {}]]
<1>6. Idle = r
    BY DEF Idle
<1>7. r \in Request
    <2>1. [status |-> "none", documents |-> {}]
              \in [status : {"none", "indexing", "error", "empty", "ready"},
                   documents : SUBSET Paths]
        OBVIOUS
    <2>2. ASSUME NEW o \in Ops, NEW s \in Steps, NEW l \in Libs, NEW n \in Names,
                 NEW p \in Paths, NEW c \in Conversations,
                 NEW seen \in [Paths -> {"none", "idle", "queued", "ready", "error"}],
                 NEW sent \in [status : {"none", "indexing", "error", "empty", "ready"},
                               documents : SUBSET Paths]
          PROVE  [op |-> o, step |-> s, lib |-> l, name |-> n, path |-> p, conv |-> c,
                  todo |-> {}, found |-> {}, since |-> {}, alone |-> TRUE,
                  seen |-> seen, sent |-> sent] \in Request
        BY DEF Request
    <2> QED
        BY <1>3, <1>4, <1>5, <2>1, <2>2
<1> HIDE DEF r
<1>8. Idle.step = "idle" /\ Idle.op = "list"
    BY DEF Idle
<1> QED
    BY <1>6, <1>7, <1>8

LEMMA OneMoves ==
    ASSUME req \in [Requests -> Request], NEW q \in Requests, NEW r \in Request,
           req' = [req EXCEPT ![q] = r],
           r.step = "idle" \/ (r.op = req[q].op /\ r.alone = req[q].alone)
    PROVE  Moves(q) /\ req'[q] = r
BY DEF Moves, Continues

LEMMA GoFacts ==
    ASSUME req \in [Requests -> Request], NEW q \in Requests, NEW s \in Steps, Go(q, s)
    PROVE  Advances(q, s) /\ unhandled' = unhandled
<1> DEFINE r == [req[q] EXCEPT !.step = s]
<1>1. req[q] \in Request
    OBVIOUS
<1>2. /\ r \in Request /\ r.step = s /\ r.op = req[q].op /\ r.lib = req[q].lib
      /\ r.name = req[q].name /\ r.path = req[q].path /\ r.conv = req[q].conv
      /\ r.todo = req[q].todo /\ r.found = req[q].found /\ r.alone = req[q].alone
      /\ r.since = req[q].since
    BY <1>1 DEF Request
<1>3. req' = [req EXCEPT ![q] = r] /\ unhandled' = unhandled
    BY DEF Go
<1> HIDE DEF r
<1>4. Moves(q) /\ req'[q] = r
    BY <1>2, <1>3, OneMoves
<1> QED
    BY <1>2, <1>3, <1>4 DEF Advances

LEMMA AnswerFacts ==
    ASSUME req \in [Requests -> Request], NEW q \in Requests, Answer(q)
    PROVE  Ends(q) /\ unhandled' = unhandled
BY IdleFacts, OneMoves DEF Answer, Ends

LEMMA RaiseFacts ==
    ASSUME TypeOK, NEW q \in Requests, Raise(q)
    PROVE  /\ Ends(q)
           /\ unhandled' \subseteq [op : Ops, alone : BOOLEAN]
           /\ OnlyRacesRaise /\ (req[q].alone => req[q].op = "close") => OnlyRacesRaise'
<1>1. Ends(q)
    BY IdleFacts, OneMoves DEF TypeOK, Raise, Ends
<1>2. req[q].op \in Ops /\ req[q].alone \in BOOLEAN
    BY DEF TypeOK, Request
<1>3. unhandled' = unhandled \union {[op |-> req[q].op, alone |-> req[q].alone]}
    BY DEF Raise
<1>4. unhandled' \subseteq [op : Ops, alone : BOOLEAN]
    BY <1>2, <1>3 DEF TypeOK
<1>5. OnlyRacesRaise /\ (req[q].alone => req[q].op = "close") => OnlyRacesRaise'
    BY <1>3 DEF OnlyRacesRaise
<1> QED
    BY <1>1, <1>4, <1>5

\* A folder becomes active, and the questions remember it.
LEMMA GoActiveFacts ==
    ASSUME req \in [Requests -> Request], NEW q \in Requests, NEW r \in Request,
           NEW f \in Folders, GoActive(q, r, f),
           r.step = "idle" \/ (r.op = req[q].op /\ r.alone = req[q].alone)
    PROVE  /\ Moves(q) /\ req'[q] = r /\ unhandled' = unhandled
           /\ \A k \in Requests :
                 k # q /\ req[k].step # "idle" /\ req[k].op \in {"ask", "search"}
                     => f \in req'[k].since
<1> DEFINE Remembering(k) == [req[k] EXCEPT !.since = @ \union {f}]
<1>1. ASSUME NEW k \in Requests
      PROVE  /\ Remembering(k) \in Request /\ f \in Remembering(k).since
             /\ req'[k] = Remembering(k) => Continues(k)
    <2>1. req[k] \in Request
        OBVIOUS
    <2>2. req[k].since \union {f} \in SUBSET Folders
        BY <2>1 DEF Request
    <2>3. /\ Remembering(k) \in Request
          /\ Remembering(k).since = req[k].since \union {f}
        BY <2>1, <2>2 DEF Request
    <2>4. req'[k] = Remembering(k) => Continues(k)
        BY <2>1, <2>3 DEF Request, Continues
    <2> QED
        BY <2>3, <2>4
<1>2. req' = [k \in Requests |->
                IF k = q THEN r
                ELSE IF req[k].step # "idle" /\ req[k].op \in {"ask", "search"}
                THEN Remembering(k) ELSE req[k]]
      /\ unhandled' = unhandled
    BY DEF GoActive
<1> HIDE DEF Remembering
<1>3. req' \in [Requests -> Request] /\ req'[q] = r
    BY <1>1, <1>2
<1>4. ASSUME NEW k \in Requests, k # q
      PROVE  /\ Continues(k)
             /\ req[k].step # "idle" /\ req[k].op \in {"ask", "search"} => f \in req'[k].since
    <2>1. req'[k] = IF req[k].step # "idle" /\ req[k].op \in {"ask", "search"}
                    THEN Remembering(k) ELSE req[k]
        BY <1>2, <1>4
    <2>2. req'[k] = req[k] => Continues(k)
        BY DEF Continues
    <2> QED
        BY <1>1, <2>1, <2>2
<1> QED
    BY <1>2, <1>3, <1>4 DEF Moves

-------------------------------------------------------------------------------
(* What the other requests know stays so. *)

\* The rows that the handlers check are the same.
SameRows ==
    /\ libs' = libs /\ convs' = convs
    /\ \A f \in Folders : sources'[f].status = sources[f].status

\* What a step of q leaves of them.  Only a deletion takes a library away, and a folder
\* that becomes active is remembered by every question but q.
Keeps(q) ==
    /\ Moves(q) /\ overlapped' = overlapped
    /\ Known \subseteq Known'
    /\ Active \subseteq Active' \/ (q \in Busy /\ req[q].op = "delete")
    /\ SameRows \/ q \in Busy
    /\ \A f \in Folders : sources'[f].status = "active" =>
          \/ sources[f].status = "active"
          \/ \A k \in Requests :
                k # q /\ req[k].step # "idle" /\ req[k].op \in {"ask", "search"}
                    => f \in req'[k].since

LEMMA OverlappingStays ==
    ASSUME LibrariesInv, NEW q \in Requests, req[q].step # "idle", Moves(q),
           overlapped' = overlapped
    PROVE  Overlapping'
<1>1. ASSUME NEW k \in Requests, k \in Busy'
      PROVE  k \in Busy /\ req'[k].op = req[k].op /\ req'[k].alone = req[k].alone
    BY <1>1 DEF Moves, Continues, Busy, Free
<1>2. Busy' \subseteq Requests
    BY DEF Busy
<1> QED
    BY <1>1, <1>2 DEF LibrariesInv, Overlapping

LEMMA OtherGood ==
    ASSUME LibrariesInv, TypeOK', NEW q \in Requests, Keeps(q), NEW k \in Requests, k # q
    PROVE  Good(k)'
<1> USE DEF LibrariesInv
<1>1. Continues(k) /\ Good(k) /\ overlapped' = overlapped
    BY DEF Keeps, Moves
<1>2. req[k] \in Request /\ req'[k] \in Request
    BY DEF TypeOK
<1>3. Addressed(k)'
    BY <1>1 DEF Good, Addressed, Keeps, Continues
<1>4. k \in Busy /\ q \in Busy /\ req[q].op = "delete" => req[k].op \in overlapped
    BY DEF Overlapping
<1>5. StillFound(k)'
    <2>1. SUFFICES ASSUME LookedUp(k)' PROVE req'[k].lib \in Active' \/ req'[k].op \in overlapped'
        BY DEF StillFound
    <2>2. LookedUp(k) /\ k \in Busy
        BY <1>1, <2>1 DEF LookedUp, At, Continues, Busy, Free
    <2>3. req[k].lib \in Active \/ req[k].op \in overlapped
        BY <1>1, <2>2 DEF Good, StillFound
    <2> QED
        BY <1>1, <1>4, <2>2, <2>3 DEF Keeps, Continues
<1>6. Leaves(k)'
    <2>1. SUFFICES ASSUME At(k, "delete", "delete")'
                   PROVE  "delete" \in overlapped' \/ \E l \in Active' : l # req'[k].lib
        BY DEF Leaves
    <2>2. At(k, "delete", "delete") /\ k \in Busy
        BY <1>1, <2>1 DEF At, Continues, Busy, Free
    <2>3. "delete" \in overlapped \/ \E l \in Active : l # req[k].lib
        BY <1>1, <2>2 DEF Good, Leaves
    <2> QED
        BY <1>1, <1>4, <2>2, <2>3 DEF Keeps, Continues, At
<1>7. Remembers(k)'
    BY <1>1, <1>2 DEF Good, Remembers, Keeps, Continues
<1>8. StillChecked(k)'
    <2>1. SUFFICES ASSUME k \in Busy', req'[k].alone PROVE Checked(k)'
        BY DEF StillChecked
    <2>2. k \in Busy /\ req[k].alone /\ q \notin Busy
        BY <1>1, <2>1 DEF Continues, Busy, Free, Overlapping
    <2>3. Checked(k) /\ SameRows
        BY <1>1, <2>2 DEF Good, StillChecked, Keeps
    <2>4. Active' = Active /\ Listed' = Listed
        BY <2>3 DEF SameRows, Active, Row, Listed
    <2>5. <<req[k].lib, req[k].path>> \in Folders
        BY <1>2 DEF Request, Folders
    <2> QED
        BY <1>1, <2>3, <2>4, <2>5 DEF Checked, SameRows, Continues, At
<1> QED
    BY <1>3, <1>5, <1>6, <1>7, <1>8 DEF Good

LEMMA AllGood ==
    ASSUME LibrariesInv, TypeOK', NEW q \in Requests, req[q].step # "idle", Keeps(q), Good(q)'
    PROVE  Overlapping' /\ \A k \in Requests : Good(k)'
BY OtherGood, OverlappingStays DEF Keeps

\* A handler that has ended knows nothing.
LEMMA IdleGood ==
    ASSUME NEW q \in Requests, req'[q].step = "idle"
    PROVE  Good(q)'
BY DEF Good, Addressed, StillFound, LookedUp, Leaves, Remembers, StillChecked, Checked, At,
       Busy, Free

\* The types follow when only the requests change.
LEMMA ReadTypes ==
    ASSUME TypeOK, UNCHANGED <<libs, sources, points, indexing, convs, bound, cited, overlapped>>,
           req' \in [Requests -> Request], unhandled' \subseteq [op : Ops, alone : BOOLEAN]
    PROVE  TypeOK'
BY DEF TypeOK, Folders

\* A step that reads changes what its handler knows and nothing else.
LEMMA ReadStep ==
    ASSUME LibrariesInv, NEW q \in Requests, req[q].step # "idle", Moves(q),
           UNCHANGED <<libs, sources, points, indexing, convs, bound, cited, history>>,
           unhandled' \subseteq [op : Ops, alone : BOOLEAN], OnlyRacesRaise',
           TypeOK' => Good(q)'
    PROVE  LibrariesInv'
<1>1. TypeOK'
    BY ReadTypes DEF LibrariesInv, Moves, history
<1>2. Known' = Known /\ Active' = Active /\ Row("deleting")' = Row("deleting")
    BY DEF Known, Active, Row
<1>3. Keeps(q)
    BY <1>2 DEF Keeps, SameRows, history
<1>4. Overlapping' /\ \A k \in Requests : Good(k)'
    BY <1>1, <1>3, AllGood
<1>5. RowsAgree'
    BY DEF LibrariesInv, RowsAgree
<1>6. LibraryRemains' /\ NoOrphans' /\ BoundIsActive'
    BY <1>2 DEF LibrariesInv, LibraryRemains, NoOrphans, BoundIsActive, history, Folders
<1> QED
    BY <1>1, <1>4, <1>5, <1>6 DEF LibrariesInv

LEMMA GoStep ==
    ASSUME LibrariesInv, NEW q \in Requests, req[q].step # "idle", NEW s \in Steps, Go(q, s),
           UNCHANGED <<libs, sources, points, indexing, convs, bound, cited, history>>,
           TypeOK' /\ Advances(q, s) => Good(q)'
    PROVE  LibrariesInv'
<1>1. Advances(q, s) /\ unhandled' = unhandled
    BY GoFacts DEF LibrariesInv, TypeOK
<1> QED
    BY <1>1, ReadStep DEF Advances, LibrariesInv, TypeOK, OnlyRacesRaise

LEMMA AnswerStep ==
    ASSUME LibrariesInv, NEW q \in Requests, req[q].step # "idle", Answer(q),
           UNCHANGED <<libs, sources, points, indexing, convs, bound, cited, history>>
    PROVE  LibrariesInv'
<1>1. Ends(q) /\ unhandled' = unhandled
    BY AnswerFacts DEF LibrariesInv, TypeOK
<1>2. Good(q)'
    BY <1>1, IdleGood DEF Ends
<1> QED
    BY <1>1, <1>2, ReadStep DEF Ends, LibrariesInv, TypeOK, OnlyRacesRaise

LEMMA RaiseStep ==
    ASSUME LibrariesInv, NEW q \in Requests, req[q].step # "idle", Raise(q),
           UNCHANGED <<libs, sources, points, indexing, convs, bound, cited, history>>,
           req[q].alone => req[q].op = "close"
    PROVE  LibrariesInv'
<1>1. /\ Ends(q) /\ unhandled' \subseteq [op : Ops, alone : BOOLEAN]
      /\ OnlyRacesRaise'
    BY RaiseFacts DEF LibrariesInv
<1>2. Good(q)'
    BY <1>1, IdleGood DEF Ends
<1> QED
    BY <1>1, <1>2, ReadStep DEF Ends

-------------------------------------------------------------------------------
(* The handlers' steps, one lemma for each action *)

USE DEF At

\* What q has checked, seen from its operation and its next step.
LEMMA GoodAfter ==
    ASSUME LibrariesInv, NEW q \in Requests, NEW s \in Steps \ {"idle"}, Advances(q, s),
           Addressed(q)', StillFound(q)', Leaves(q)', Remembers(q)', Checked(q)'
    PROVE  Good(q)'
BY DEF Good, StillChecked

LEMMA SameLibraries ==
    ASSUME UNCHANGED libs
    PROVE  /\ Active' = Active /\ Known' = Known /\ Listed' = Listed
           /\ \A s : Row(s)' = Row(s)
BY DEF Active, Known, Listed, Row

LEMMA CreateStart ==
    ASSUME LibrariesInv, NEW q \in Requests, At(q, "create", "start"), Create(q)
    PROVE  LibrariesInv'
<1>1. UNCHANGED <<libs, sources, points, indexing, convs, bound, cited, history>>
    BY DEF Create
<1>2. CASE req[q].name \in Listed
    BY <1>1, <1>2, AnswerStep DEF Create
<1>3. CASE req[q].name \notin Listed
    <2>1. Go(q, "save")
        BY <1>3 DEF Create
    <2>2. ASSUME Advances(q, "save") PROVE Good(q)'
        BY <1>1, <1>3, <2>2, SameLibraries
           DEF Advances, Good, Addressed, StillFound, LookedUp, Leaves, Remembers,
               StillChecked, Checked
    <2> QED
        BY <1>1, <2>1, <2>2, GoStep DEF Steps
<1> QED
    BY <1>2, <1>3

LEMMA EnsureDefaultReads ==
    ASSUME LibrariesInv, NEW q \in Requests, EnsureDefault(q),
           At(q, "list", "start") \/ At(q, "list", "default")
    PROVE  LibrariesInv'
<1>1. UNCHANGED <<libs, sources, points, indexing, convs, bound, cited, history>>
    BY DEF EnsureDefault
<1>2. CASE At(q, "list", "start") /\ Active = {}
    <2>1. Go(q, "default")
        BY <1>2 DEF EnsureDefault
    <2>2. ASSUME Advances(q, "default") PROVE Good(q)'
        BY <1>1, <1>2, <2>2, SameLibraries
           DEF Advances, Good, Addressed, StillFound, LookedUp, Leaves, Remembers,
               StillChecked, Checked
    <2> QED
        BY <1>1, <1>2, <2>1, <2>2, GoStep DEF Steps
<1>3. CASE At(q, "list", "start") /\ Active # {}
    <2>1. Go(q, "libraries")
        BY <1>3 DEF EnsureDefault
    <2>2. ASSUME Advances(q, "libraries") PROVE Good(q)'
        BY <1>1, <1>3, <2>2, SameLibraries
           DEF Advances, Good, Addressed, StillFound, LookedUp, Leaves, Remembers,
               StillChecked, Checked
    <2> QED
        BY <1>1, <1>3, <2>1, <2>2, GoStep DEF Steps
<1>4. At(q, "list", "default") /\ req[q].alone => Active = {} /\ Default \notin Listed
    BY DEF LibrariesInv, Good, StillChecked, Checked, Busy, Free, Listed
<1>5. CASE At(q, "list", "default") /\ Default \in Listed
    <2>1. Raise(q) /\ ~req[q].alone
        BY <1>4, <1>5 DEF EnsureDefault
    <2> QED
        BY <1>1, <1>5, <2>1, RaiseStep
<1>6. CASE At(q, "list", "default") /\ Default \notin Listed
    <2>1. Go(q, "save")
        BY <1>6 DEF EnsureDefault
    <2>2. ASSUME Advances(q, "save") PROVE Good(q)'
        BY <1>1, <1>4, <1>6, <2>2, SameLibraries
           DEF Advances, Good, Addressed, StillFound, LookedUp, Leaves, Remembers,
               StillChecked, Checked
    <2> QED
        BY <1>1, <1>6, <2>1, <2>2, GoStep DEF Steps
<1> QED
    BY <1>2, <1>3, <1>5, <1>6

LEMMA ListInv ==
    ASSUME LibrariesInv, NEW q \in Requests, List(q)
    PROVE  LibrariesInv'
<1>1. UNCHANGED <<libs, sources, points, indexing, convs, bound, cited, history>>
    BY DEF List
<1>2. req[q] \in Request
    BY DEF LibrariesInv, TypeOK
<1>3. CASE At(q, "list", "libraries")
    <2> DEFINE r == [req[q] EXCEPT !.step = "sources", !.todo = Active]
    <2>1. Active \subseteq Libs
        BY DEF Active, Row
    <2>2. /\ r \in Request /\ r.step = "sources" /\ r.todo = Active
          /\ r.op = "list" /\ r.op = req[q].op /\ r.alone = req[q].alone
        BY <1>2, <1>3, <2>1 DEF Request, Steps
    <2>3. req' = [req EXCEPT ![q] = r] /\ unhandled' = unhandled
        BY <1>3 DEF List
    <2> HIDE DEF r
    <2>4. Moves(q) /\ req'[q] = r
        BY <2>2, <2>3, OneMoves DEF LibrariesInv, TypeOK
    <2>5. Good(q)'
        BY <1>1, <2>2, <2>4, SameLibraries
           DEF Good, Addressed, StillFound, LookedUp, Leaves, Remembers, StillChecked, Checked
    <2> QED
        BY <1>1, <1>3, <2>3, <2>4, <2>5, ReadStep DEF LibrariesInv, TypeOK, OnlyRacesRaise
<1>4. CASE At(q, "list", "sources") /\ req[q].todo = {} /\ Answer(q)
    BY <1>1, <1>4, AnswerStep
<1>5. ASSUME At(q, "list", "sources"), NEW l \in req[q].todo, Found(l),
             req' = [req EXCEPT ![q].todo = @ \ {l}], unhandled' = unhandled
      PROVE  LibrariesInv'
    <2> DEFINE r == [req[q] EXCEPT !.todo = @ \ {l}]
    <2>1. req[q].todo \ {l} \in SUBSET Libs
        BY <1>2 DEF Request
    <2>2. /\ r \in Request /\ r.step = "sources" /\ r.todo = req[q].todo \ {l}
          /\ r.op = "list" /\ r.op = req[q].op /\ r.alone = req[q].alone
        BY <1>2, <1>5, <2>1 DEF Request
    <2>3. req' = [req EXCEPT ![q] = r]
        BY <1>5
    <2> HIDE DEF r
    <2>4. Moves(q) /\ req'[q] = r
        BY <2>2, <2>3, OneMoves DEF LibrariesInv, TypeOK
    <2>5. req[q].alone => req[q].todo \subseteq Active
        BY <1>5 DEF LibrariesInv, Good, StillChecked, Checked, Busy, Free
    <2>6. Good(q)'
        BY <1>1, <2>2, <2>4, <2>5, SameLibraries
           DEF Good, Addressed, StillFound, LookedUp, Leaves, Remembers, StillChecked, Checked
    <2> QED
        BY <1>1, <1>5, <2>4, <2>6, ReadStep DEF LibrariesInv, TypeOK, OnlyRacesRaise
<1>6. ASSUME At(q, "list", "sources"), NEW l \in req[q].todo, ~Found(l), Raise(q)
      PROVE  LibrariesInv'
    <2>1. ~req[q].alone
        BY <1>6 DEF LibrariesInv, Good, StillChecked, Checked, Busy, Free, Found
    <2> QED
        BY <1>1, <1>6, <2>1, RaiseStep
<1> QED
    BY <1>3, <1>4, <1>5, <1>6 DEF List

LEMMA RenameReads ==
    ASSUME LibrariesInv, NEW q \in Requests, Rename(q), req[q].step # "save"
    PROVE  LibrariesInv'
<1>1. UNCHANGED <<libs, sources, points, indexing, convs, bound, cited, history>>
    BY DEF Rename
<1>2. req[q] \in Request /\ Good(q)
    BY DEF LibrariesInv, TypeOK
<1>3. CASE Answer(q)
    BY <1>1, <1>3, AnswerStep DEF Rename
<1>4. CASE At(q, "rename", "start") /\ Found(req[q].lib) /\ libs[req[q].lib].name = req[q].name
    <2>1. Go(q, "save")
        BY <1>4 DEF Rename
    <2>2. \A l \in Active \ {req[q].lib} : libs[l].name # req[q].name
        BY <1>2, <1>4 DEF LibrariesInv, TypeOK, Found, Active, Row, Request
    <2>3. ASSUME Advances(q, "save") PROVE Good(q)'
        BY <1>1, <1>2, <1>4, <2>2, <2>3, SameLibraries
           DEF Advances, Good, Addressed, StillFound, LookedUp, Leaves, Remembers,
               StillChecked, Checked, Found
    <2> QED
        BY <1>1, <1>4, <2>1, <2>3, GoStep DEF Steps
<1>5. CASE At(q, "rename", "start") /\ Found(req[q].lib) /\ libs[req[q].lib].name # req[q].name
    <2>1. Go(q, "names")
        BY <1>5 DEF Rename
    <2>2. ASSUME Advances(q, "names") PROVE Good(q)'
        BY <1>1, <1>2, <1>5, <2>2, SameLibraries
           DEF Advances, Good, Addressed, StillFound, LookedUp, Leaves, Remembers,
               StillChecked, Checked, Found
    <2> QED
        BY <1>1, <1>5, <2>1, <2>2, GoStep DEF Steps
<1>6. CASE At(q, "rename", "names") /\ Go(q, "save")
           /\ ~\E k \in Active \ {req[q].lib} : libs[k].name = req[q].name
    <2>1. ASSUME Advances(q, "save") PROVE Good(q)'
        BY <1>1, <1>2, <1>6, <2>1, SameLibraries
           DEF Advances, Good, Addressed, StillFound, LookedUp, Leaves, Remembers,
               StillChecked, Checked, history
    <2> QED
        BY <1>1, <1>6, <2>1, GoStep DEF Steps
<1> QED
    BY <1>3, <1>4, <1>5, <1>6 DEF Rename

LEMMA DeleteReads ==
    ASSUME LibrariesInv, NEW q \in Requests, Delete(q), req[q].step # "delete"
    PROVE  LibrariesInv'
<1>1. UNCHANGED <<libs, sources, points, indexing, convs, bound, cited, history>>
    BY DEF Delete
<1>2. req[q] \in Request /\ Good(q)
    BY DEF LibrariesInv, TypeOK
<1>3. CASE Answer(q)
    BY <1>1, <1>3, AnswerStep DEF Delete
<1>4. CASE At(q, "delete", "start") /\ Go(q, "count")
    <2>1. ASSUME Advances(q, "count") PROVE Good(q)'
        BY <1>1, <1>2, <1>4, <2>1, SameLibraries
           DEF Advances, Good, Addressed, StillFound, LookedUp, Leaves, Remembers,
               StillChecked, Checked, history, Found
    <2> QED
        BY <1>1, <1>4, <2>1, GoStep DEF Steps
<1>5. CASE At(q, "delete", "count") /\ Go(q, "delete") /\ ~IsLast(Cardinality(Active))
    <2>1. \E l \in Active : l # req[q].lib
        <3>1. SUFFICES ASSUME Active \subseteq {req[q].lib} PROVE FALSE
            OBVIOUS
        <3>2. Active = {} \/ Active = {req[q].lib}
            BY <3>1
        <3>3. Cardinality(Active) = 0 \/ Cardinality(Active) = 1
            BY <3>2, FS_EmptySet, FS_Singleton
        <3> QED
            BY <1>5, <3>3 DEF IsLast
    <2>2. ASSUME Advances(q, "delete") PROVE Good(q)'
        BY <1>1, <1>2, <1>5, <2>1, <2>2, SameLibraries
           DEF Advances, Good, Addressed, StillFound, LookedUp, Leaves, Remembers,
               StillChecked, Checked, history, Found
    <2> QED
        BY <1>1, <1>5, <2>2, GoStep DEF Steps
<1> QED
    BY <1>3, <1>4, <1>5 DEF Delete

LEMMA AddReads ==
    ASSUME LibrariesInv, NEW q \in Requests, AddSource(q), req[q].step \in {"start", "path"}
    PROVE  LibrariesInv'
<1>1. UNCHANGED <<libs, sources, points, indexing, convs, bound, cited, history>>
    BY DEF AddSource
<1>2. req[q] \in Request /\ Good(q)
    BY DEF LibrariesInv, TypeOK
<1>3. CASE Answer(q)
    BY <1>1, <1>3, AnswerStep
<1>4. CASE At(q, "add", "start") /\ Found(req[q].lib) /\ Go(q, "path")
    <2>1. ASSUME Advances(q, "path") PROVE Good(q)'
        BY <1>1, <1>2, <1>4, <2>1, SameLibraries
           DEF Advances, Good, Addressed, StillFound, LookedUp, Leaves, Remembers,
               StillChecked, Checked, history, Found
    <2> QED
        BY <1>1, <1>4, <2>1, GoStep DEF Steps
<1>5. CASE /\ At(q, "add", "path") /\ Go(q, "insert")
           /\ sources[<<req[q].lib, req[q].path>>].status = "none"
    <2>1. ASSUME Advances(q, "insert") PROVE Good(q)'
        BY <1>1, <1>2, <1>5, <2>1, SameLibraries
           DEF Advances, Good, Addressed, StillFound, LookedUp, Leaves, Remembers,
               StillChecked, Checked, history, Found
    <2> QED
        BY <1>1, <1>5, <2>1, GoStep DEF Steps
<1>6. CASE At(q, "add", "path") /\ Go(q, "reactivate")
    <2>1. ASSUME Advances(q, "reactivate") PROVE Good(q)'
        BY <1>1, <1>2, <1>6, <2>1, SameLibraries
           DEF Advances, Good, Addressed, StillFound, LookedUp, Leaves, Remembers,
               StillChecked, Checked, history, Found
    <2> QED
        BY <1>1, <1>6, <2>1, GoStep DEF Steps
<1>7. <<req[q].lib, req[q].path>> \in Folders
    BY <1>2 DEF Request, Folders
<1>8. sources[<<req[q].lib, req[q].path>>].status \in {"none", "active", "detached"}
    BY <1>7 DEF LibrariesInv, TypeOK
<1>9. CASE At(q, "add", "start")
    BY <1>3, <1>4, <1>9 DEF AddSource
<1>10. CASE At(q, "add", "path")
    BY <1>3, <1>5, <1>6, <1>8, <1>10 DEF AddSource, ByPath
<1> QED
    BY <1>9, <1>10 DEF AddSource

LEMMA RemoveReads ==
    ASSUME LibrariesInv, NEW q \in Requests, RemoveSource(q), req[q].step = "start"
    PROVE  LibrariesInv'
<1>1. UNCHANGED <<libs, sources, points, indexing, convs, bound, cited, history>>
    BY DEF RemoveSource
<1>2. req[q] \in Request /\ Good(q)
    BY DEF LibrariesInv, TypeOK
<1>3. CASE Answer(q)
    BY <1>1, <1>3, AnswerStep
<1>4. CASE At(q, "remove", "start") /\ Go(q, "detach")
    <2>1. ASSUME Advances(q, "detach") PROVE Good(q)'
        BY <1>1, <1>2, <1>4, <2>1, SameLibraries
           DEF Advances, Good, Addressed, StillFound, LookedUp, Leaves, Remembers,
               StillChecked, Checked, history, Found
    <2> QED
        BY <1>1, <1>4, <2>1, GoStep DEF Steps
<1> QED
    BY <1>3, <1>4 DEF RemoveSource

LEMMA BindReads ==
    ASSUME LibrariesInv, NEW q \in Requests, Bind(q), req[q].step \in {"start", "library"}
    PROVE  LibrariesInv'
<1>1. UNCHANGED <<libs, sources, points, indexing, convs, bound, cited, history>>
    BY DEF Bind
<1>2. req[q] \in Request /\ Good(q)
    BY DEF LibrariesInv, TypeOK
<1>3. CASE Answer(q)
    BY <1>1, <1>3, AnswerStep
<1>4. CASE At(q, "bind", "start") /\ convs[req[q].conv] = "there" /\ Go(q, "library")
    <2>1. ASSUME Advances(q, "library") PROVE Good(q)'
        BY <1>1, <1>2, <1>4, <2>1, SameLibraries
           DEF Advances, Good, Addressed, StillFound, LookedUp, Leaves, Remembers,
               StillChecked, Checked, history, Found
    <2> QED
        BY <1>1, <1>4, <2>1, GoStep DEF Steps
<1>5. CASE At(q, "bind", "library") /\ Found(req[q].lib) /\ Go(q, "bind")
    <2>1. req[q].alone => convs[req[q].conv] = "there"
        BY <1>2, <1>5 DEF Good, StillChecked, Checked, Busy, Free
    <2>2. ASSUME Advances(q, "bind") PROVE Good(q)'
        BY <1>1, <1>2, <1>5, <2>1, <2>2, SameLibraries
           DEF Advances, Good, Addressed, StillFound, LookedUp, Leaves, Remembers,
               StillChecked, Checked, history, Found
    <2> QED
        BY <1>1, <1>5, <2>2, GoStep DEF Steps
<1> QED
    BY <1>3, <1>4, <1>5 DEF Bind

LEMMA UnbindReads ==
    ASSUME LibrariesInv, NEW q \in Requests, Unbind(q), req[q].step = "start"
    PROVE  LibrariesInv'
<1>1. UNCHANGED <<libs, sources, points, indexing, convs, bound, cited, history>>
    BY DEF Unbind
<1>2. CASE Answer(q)
    BY <1>1, <1>2, AnswerStep
<1>3. CASE At(q, "unbind", "start") /\ Go(q, "unbind")
    <2>1. ASSUME Advances(q, "unbind") PROVE Good(q)'
        BY <1>1, <1>3, <2>1, SameLibraries
           DEF Advances, Good, Addressed, StillFound, LookedUp, Leaves, Remembers,
               StillChecked, Checked, history, Found
    <2> QED
        BY <1>1, <1>3, <2>1, GoStep DEF Steps
<1> QED
    BY <1>2, <1>3 DEF Unbind

LEMMA NewReads ==
    ASSUME LibrariesInv, NEW q \in Requests, NewConversation(q), req[q].step = "start"
    PROVE  LibrariesInv'
<1>1. UNCHANGED <<libs, sources, points, indexing, convs, bound, cited, history>>
    BY DEF NewConversation
<1>2. req[q] \in Request /\ Good(q)
    BY DEF LibrariesInv, TypeOK
<1>3. CASE Answer(q)
    BY <1>1, <1>3, AnswerStep
<1>4. CASE At(q, "new", "start") /\ Found(req[q].lib) /\ Go(q, "open")
    <2>1. ASSUME Advances(q, "open") PROVE Good(q)'
        BY <1>1, <1>2, <1>4, <2>1, SameLibraries
           DEF Advances, Good, Addressed, StillFound, LookedUp, Leaves, Remembers,
               StillChecked, Checked, history, Found
    <2> QED
        BY <1>1, <1>4, <2>1, GoStep DEF Steps
<1> QED
    BY <1>3, <1>4 DEF NewConversation

LEMMA CloseReads ==
    ASSUME LibrariesInv, NEW q \in Requests, CloseConversation(q), req[q].step = "start"
    PROVE  LibrariesInv'
<1>1. UNCHANGED <<libs, sources, points, indexing, convs, bound, cited, history>>
    BY DEF CloseConversation
<1>2. CASE Answer(q)
    BY <1>1, <1>2, AnswerStep
<1>3. CASE At(q, "close", "start") /\ Go(q, "unbind")
    <2>1. ASSUME Advances(q, "unbind") PROVE Good(q)'
        BY <1>1, <1>3, <2>1, SameLibraries
           DEF Advances, Good, Addressed, StillFound, LookedUp, Leaves, Remembers,
               StillChecked, Checked, history, Found
    <2> QED
        BY <1>1, <1>3, <2>1, GoStep DEF Steps
<1> QED
    BY <1>2, <1>3 DEF CloseConversation

LEMMA AskInv ==
    ASSUME LibrariesInv, NEW q \in Requests, Ask(q)
    PROVE  LibrariesInv'
<1>1. UNCHANGED <<libs, sources, points, indexing, convs, bound, cited, history>>
    BY DEF Ask
<1>2. req[q] \in Request /\ Good(q)
    BY DEF LibrariesInv, TypeOK
<1>3. CASE Answer(q)
    BY <1>1, <1>3, AnswerStep DEF Ask
<1>4. CASE At(q, "ask", "start") /\ LibraryOf(req[q].conv) # 0
    <2> DEFINE r == [req[q] EXCEPT !.step = "library", !.lib = LibraryOf(req[q].conv)]
    <2>1. LibraryOf(req[q].conv) \in Libs /\ convs[req[q].conv] = "there"
        BY <1>2, <1>4 DEF LibrariesInv, TypeOK, Request, LibraryOf
    <2>2. /\ r \in Request /\ r.step = "library" /\ r.op = "ask" /\ r.op = req[q].op
          /\ r.alone = req[q].alone /\ r.conv = req[q].conv /\ r.since = req[q].since
        BY <1>2, <1>4, <2>1 DEF Request, Steps
    <2>3. req' = [req EXCEPT ![q] = r] /\ unhandled' = unhandled
        BY <1>4 DEF Ask
    <2> HIDE DEF r
    <2>4. Moves(q) /\ req'[q] = r
        BY <2>2, <2>3, OneMoves DEF LibrariesInv, TypeOK
    <2>5. Good(q)'
        BY <1>1, <1>2, <1>4, <2>1, <2>2, <2>4, SameLibraries
           DEF Good, Addressed, StillFound, LookedUp, Leaves, Remembers, StillChecked, Checked
    <2> QED
        BY <1>1, <1>4, <2>3, <2>4, <2>5, ReadStep DEF LibrariesInv, TypeOK, OnlyRacesRaise
<1>5. CASE At(q, "ask", "library") /\ Go(q, "retrieve")
    <2>1. req[q].alone => convs[req[q].conv] = "there"
        BY <1>2, <1>5 DEF Good, StillChecked, Checked, Busy, Free
    <2>2. ASSUME Advances(q, "retrieve") PROVE Good(q)'
        BY <1>1, <1>2, <1>5, <2>1, <2>2, SameLibraries
           DEF Advances, Good, Addressed, StillFound, LookedUp, Leaves, Remembers,
               StillChecked, Checked, history, Found
    <2> QED
        BY <1>1, <1>5, <2>2, GoStep DEF Steps
<1> QED
    BY <1>3, <1>4, <1>5 DEF Ask

LEMMA SearchInv ==
    ASSUME LibrariesInv, NEW q \in Requests, Search(q)
    PROVE  LibrariesInv'
<1>1. UNCHANGED <<libs, sources, points, indexing, convs, bound, cited, history>>
    BY DEF Search
<1>2. Good(q)
    BY DEF LibrariesInv
<1>3. CASE Answer(q)
    BY <1>1, <1>3, AnswerStep DEF Search
<1>4. CASE Go(q, "retrieve")
    <2>1. ASSUME Advances(q, "retrieve") PROVE Good(q)'
        BY <1>1, <1>2, <2>1, SameLibraries
           DEF Advances, Good, Addressed, StillFound, LookedUp, Leaves, Remembers,
               StillChecked, Checked, history, Found, Search
    <2> QED
        BY <1>1, <1>4, <2>1, GoStep DEF Steps, Search
<1> QED
    BY <1>3, <1>4 DEF Search

LEMMA RetrieveInv ==
    ASSUME LibrariesInv, NEW q \in Requests, Retrieve(q)
    PROVE  LibrariesInv'
<1>1. UNCHANGED <<libs, sources, points, indexing, convs, bound, cited, history>>
    BY DEF Retrieve
<1>2. req[q] \in Request /\ Good(q)
    BY DEF LibrariesInv, TypeOK
<1>3. /\ req[q].step \in {"retrieve", "vectors", "hydrate"}
      /\ req[q].op \in {"ask", "search"}
      /\ \A f \in Folders : sources[f].status = "active" => f \in req[q].since
      /\ req[q].op = "ask" /\ req[q].alone => convs[req[q].conv] = "there"
    BY <1>2 DEF Retrieve, Good, Remembers, StillChecked, Checked, Busy, Free
\* Folders are found: of the library, and if the answer can cite them remembered.
<1>4. ASSUME NEW s \in {"hydrate", "cite"}, NEW fs \in SUBSET Folders, Find(q, s, fs),
             fs \subseteq {req[q].lib} \X Paths, s = "cite" => fs \subseteq req[q].since
      PROVE  LibrariesInv'
    <2> DEFINE r == [req[q] EXCEPT !.step = s, !.found = fs]
    <2>1. /\ r \in Request /\ r.step = s /\ r.op = req[q].op /\ r.lib = req[q].lib
          /\ r.found = fs /\ r.alone = req[q].alone /\ r.conv = req[q].conv
          /\ r.since = req[q].since
        BY <1>2 DEF Request, Steps
    <2>2. req' = [req EXCEPT ![q] = r] /\ unhandled' = unhandled
        BY <1>4 DEF Find
    <2> HIDE DEF r
    <2>3. Moves(q) /\ req'[q] = r
        BY <2>1, <2>2, OneMoves DEF LibrariesInv, TypeOK
    <2>4. Good(q)'
        BY <1>1, <1>3, <1>4, <2>1, <2>3, SameLibraries
           DEF Good, Addressed, StillFound, LookedUp, Leaves, Remembers, StillChecked, Checked
    <2> QED
        BY <1>1, <1>3, <2>2, <2>3, <2>4, ReadStep DEF LibrariesInv, TypeOK, OnlyRacesRaise
<1>5. CASE req[q].step = "retrieve" /\ Find(q, "cite", ByName(req[q].lib))
    <2>1. /\ ByName(req[q].lib) \in SUBSET Folders
          /\ ByName(req[q].lib) \subseteq {req[q].lib} \X Paths
          /\ ByName(req[q].lib) \subseteq req[q].since
        BY <1>3 DEF ByName, Shown, Folders
    <2> QED
        BY <1>4, <1>5, <2>1
<1>6. CASE req[q].step = "retrieve" /\ Go(q, "vectors")
    <2>1. ASSUME Advances(q, "vectors") PROVE Good(q)'
        BY <1>1, <1>3, <2>1, SameLibraries
           DEF Advances, Good, Addressed, StillFound, LookedUp, Leaves, Remembers,
               StillChecked, Checked, history, Found
    <2> QED
        BY <1>1, <1>3, <1>6, <2>1, GoStep DEF Steps
<1>7. CASE req[q].step = "vectors" /\ Find(q, "hydrate", ByVector(req[q].lib))
    <2>1. /\ ByVector(req[q].lib) \in SUBSET Folders
          /\ ByVector(req[q].lib) \subseteq {req[q].lib} \X Paths
        BY DEF ByVector, Folders
    <2> QED
        BY <1>4, <1>7, <2>1
<1>8. CASE req[q].step = "hydrate" /\ Find(q, "cite", Hydrated(req[q].found))
    <2>1. req[q].found \subseteq {req[q].lib} \X Paths /\ req[q].found \in SUBSET Folders
        BY <1>2, <1>8 DEF Good, Remembers, Request
    <2>2. /\ Hydrated(req[q].found) \in SUBSET Folders
          /\ Hydrated(req[q].found) \subseteq {req[q].lib} \X Paths
          /\ Hydrated(req[q].found) \subseteq req[q].since
        BY <1>3, <2>1 DEF Hydrated
    <2> QED
        BY <1>4, <1>8, <2>2
<1> QED
    BY <1>5, <1>6, <1>7, <1>8 DEF Retrieve

LEMMA WatchInv ==
    ASSUME LibrariesInv, NEW q \in Requests, Watch(q) \/ Disconnect(q)
    PROVE  LibrariesInv'
<1>1. /\ UNCHANGED <<libs, sources, points, indexing, convs, bound, cited, history>>
      /\ req[q].op = "watch" /\ req[q].step # "idle"
    BY DEF Watch, Disconnect, IsPolling
<1>2. req[q] \in Request
    BY DEF LibrariesInv, TypeOK
<1>3. CASE Answer(q)
    BY <1>1, <1>3, AnswerStep
\* Nothing is known of a subscriber, so that it may read what it likes.
<1>4. ASSUME NEW s \in {"jobs", "library"}, NEW r \in Request, r.step = s, r.op = "watch",
             r.alone = req[q].alone, req' = [req EXCEPT ![q] = r], unhandled' = unhandled
      PROVE  LibrariesInv'
    <2>1. Moves(q) /\ req'[q] = r
        BY <1>1, <1>4, OneMoves DEF LibrariesInv, TypeOK
    <2>2. Good(q)'
        BY <1>4, <2>1 DEF Good, Addressed, StillFound, LookedUp, Leaves, Remembers,
                          StillChecked, Checked, Busy, Free
    <2> QED
        BY <1>1, <1>4, <2>1, <2>2, ReadStep DEF LibrariesInv, TypeOK, OnlyRacesRaise
<1>5. CASE IsPolling(q) /\ Found(req[q].lib) /\ Watch(q) /\ ~Answer(q)
           /\ req' = [req EXCEPT ![q].step = "jobs", ![q].seen = Seen(req[q].lib)]
           /\ unhandled' = unhandled
    <2> DEFINE r == [req[q] EXCEPT !.step = "jobs", !.seen = Seen(req[q].lib)]
    <2>1. Seen(req[q].lib) \in [Paths -> {"none", "idle", "queued", "ready", "error"}]
        BY <1>2 DEF Seen, LibrariesInv, TypeOK, Folders, Request
    <2>2. r \in Request /\ r.step = "jobs" /\ r.op = "watch" /\ r.alone = req[q].alone
        BY <1>1, <1>2, <2>1 DEF Request, Steps
    <2>3. req' = [req EXCEPT ![q] = r]
        BY <1>5
    <2> HIDE DEF r
    <2> QED
        BY <1>4, <1>5, <2>2, <2>3
<1>6. CASE At(q, "watch", "jobs") /\ Watch(q) /\ ~IsPolling(q)
    <2> DEFINE payload == Report(req[q].lib, req[q].seen)
               sent == IF Sends(req[q], payload) THEN payload ELSE req[q].sent
               r == [req[q] EXCEPT !.step = "library", !.seen = Idle.seen, !.sent = sent]
    <2>1. payload \in [status : {"none", "indexing", "error", "empty", "ready"},
                       documents : SUBSET Paths]
        BY DEF Report, Documents
    <2>2. sent \in [status : {"none", "indexing", "error", "empty", "ready"},
                    documents : SUBSET Paths]
        BY <1>2, <2>1 DEF Request
    <2>3. Idle.seen \in [Paths -> {"none", "idle", "queued", "ready", "error"}]
        BY IdleFacts DEF Request
    <2>4. req' = [req EXCEPT ![q] = r] /\ unhandled' = unhandled
        BY <1>6 DEF Watch
    <2> HIDE DEF sent
    <2>5. r \in Request /\ r.step = "library" /\ r.op = "watch" /\ r.alone = req[q].alone
        BY <1>1, <1>2, <2>2, <2>3 DEF Request, Steps
    <2> HIDE DEF r
    <2> QED
        BY <1>4, <2>4, <2>5
<1> QED
    BY <1>3, <1>5, <1>6 DEF Watch, Disconnect, IsPolling

\* A step that leaves the rows that the handlers check as they are.
LEMMA PlainStep ==
    ASSUME LibrariesInv, NEW q \in Requests, req[q].step # "idle", Moves(q), SameRows,
           UNCHANGED <<indexing, overlapped>>, TypeOK', BoundIsActive', OnlyRacesRaise', Good(q)'
    PROVE  LibrariesInv'
<1>1. /\ Known' = Known /\ Active' = Active /\ Row("deleting")' = Row("deleting")
      /\ indexing \subseteq Folders
    BY DEF Known, Active, Row, SameRows, LibrariesInv, TypeOK
<1>2. Keeps(q)
    BY <1>1 DEF Keeps, SameRows
<1>3. Overlapping' /\ \A k \in Requests : Good(k)'
    BY <1>2, AllGood
<1>4. RowsAgree'
    BY <1>1 DEF LibrariesInv, RowsAgree, SameRows
<1>5. LibraryRemains' /\ NoOrphans'
    BY <1>1 DEF LibrariesInv, LibraryRemains, NoOrphans, SameRows
<1> QED
    BY <1>3, <1>4, <1>5 DEF LibrariesInv

LEMMA CiteInv ==
    ASSUME LibrariesInv, NEW q \in Requests, Cite(q)
    PROVE  LibrariesInv'
<1>1. /\ UNCHANGED <<libs, sources, points, indexing, convs, bound, history>>
      /\ req[q].step = "cite"
    BY DEF Cite
<1>2. req[q] \in Request /\ Good(q)
    BY DEF LibrariesInv, TypeOK
<1>3. CASE Answer(q) /\ UNCHANGED cited
    BY <1>1, <1>3, AnswerStep
<1>4. CASE req[q].op # "search" /\ convs[req[q].conv] # "there" /\ Raise(q) /\ UNCHANGED cited
    <2>1. ~req[q].alone
        BY <1>1, <1>2, <1>4 DEF Good, Remembers, StillChecked, Checked, Busy, Free
    <2> QED
        BY <1>1, <1>4, <2>1, RaiseStep
<1>5. CASE convs[req[q].conv] = "there" /\ Answer(q) /\ cited' = cited \union {req[q].conv}
    <2>1. Ends(q) /\ unhandled' = unhandled
        BY <1>5, AnswerFacts DEF LibrariesInv, TypeOK
    <2>2. Good(q)'
        BY <2>1, IdleGood DEF Ends
    <2>3. req[q].conv \in Conversations
        BY <1>2 DEF Request
    <2>4. TypeOK'
        BY <1>1, <1>5, <2>1, <2>3 DEF LibrariesInv, TypeOK, Folders, Ends, Moves, history
    <2>5. SameRows /\ BoundIsActive' /\ OnlyRacesRaise'
        BY <1>1, <2>1 DEF SameRows, LibrariesInv, BoundIsActive, OnlyRacesRaise, Row, history
    <2> QED
        BY <1>1, <2>1, <2>2, <2>4, <2>5, PlainStep DEF Ends, history
<1> QED
    BY <1>3, <1>4, <1>5 DEF Cite

-------------------------------------------------------------------------------
(* The steps that write *)

\* The unique key knows the names of the active libraries: the others have none.
LEMMA KeyedNames ==
    ASSUME LibrariesInv, NEW S \in SUBSET Libs, NEW n \in Names
    PROVE  n \in Keyed(S) <=> \E l \in S \cap Active : libs[l].name = n
BY LibrariesAssumption DEF LibrariesInv, RowsAgree, TypeOK, Keyed, Active, Row

\* A row that is active under a name that no other one has.
LEMMA NamedRow ==
    ASSUME LibrariesInv, NEW l \in Libs, NEW n \in Names,
           \A k \in Active \ {l} : libs[k].name # n,
           libs' = [libs EXCEPT ![l] = [status |-> "active", name |-> n]],
           UNCHANGED <<sources, points, indexing, convs, bound, cited, history>>,
           NEW q \in Busy, Moves(q), unhandled' = unhandled, TypeOK' => Good(q)'
    PROVE  LibrariesInv'
<1>1. n # "deleted" /\ q \in Requests /\ req[q].step # "idle"
    BY LibrariesAssumption DEF Busy, Free
<1>2. /\ libs' \in [Libs -> [status : {"none", "active", "deleting"},
                             name : Names \union {"deleted"}]]
      /\ libs'[l] = [status |-> "active", name |-> n]
      /\ \A k \in Libs : k # l => libs'[k] = libs[k]
    BY DEF LibrariesInv, TypeOK
<1>3. /\ Active' = Active \union {l} /\ Known' = Known \union {l}
      /\ Row("deleting")' = Row("deleting") \ {l}
    BY <1>2 DEF Active, Known, Row
<1>4. TypeOK'
    <2>1. \A k \in Libs : libs[k].status # "none" => libs'[k].status # "none"
        BY <1>2
    <2>2. \A c \in Conversations : bound[c] # 0 => bound[c] \in Libs
        BY DEF LibrariesInv, TypeOK
    <2>3. \A f \in Folders : f[1] \in Libs
        BY DEF Folders
    <2>4. \A k, j \in Libs : k # j /\ libs'[k].status = "active" /\ libs'[j].status = "active"
                                => libs'[k].name # libs'[j].name
        BY <1>2 DEF LibrariesInv, TypeOK, Active, Row
    <2> QED
        BY <1>2, <2>1, <2>2, <2>3, <2>4 DEF LibrariesInv, TypeOK, Folders, Moves, history
<1>5. RowsAgree'
    BY <1>1, <1>2 DEF LibrariesInv, RowsAgree
<1>6. Keeps(q)
    BY <1>3 DEF Keeps, history
<1>7. Overlapping' /\ \A k \in Requests : Good(k)'
    BY <1>1, <1>4, <1>6, AllGood
<1>8. LibraryRemains' /\ NoOrphans' /\ BoundIsActive' /\ OnlyRacesRaise'
    BY <1>3 DEF LibrariesInv, LibraryRemains, NoOrphans, BoundIsActive, OnlyRacesRaise,
                history, Folders
<1> QED
    BY <1>4, <1>5, <1>7, <1>8 DEF LibrariesInv

\* What save_library of a new library leaves of the deleted ones.
LEMMA CreateInv ==
    ASSUME LibrariesInv, NEW q \in Requests, Create(q)
    PROVE  LibrariesInv' /\ Row("deleting") \subseteq Row("deleting")'
<1>1. CASE At(q, "create", "start")
    BY <1>1, CreateStart, SameLibraries DEF Create
<1>2. CASE At(q, "create", "save")
    <2>1. /\ UNCHANGED <<sources, points, indexing, convs, bound, cited, history>>
          /\ SaveNew(q, req[q].name, "answer") /\ req[q] \in Request /\ q \in Busy
        BY <1>2 DEF Create, LibrariesInv, TypeOK, Busy, Free
    <2>2. req[q].name \in Names
        BY <2>1 DEF Request
    <2>3. CASE req[q].name \in Keyed(Libs)
        <3>1. Raise(q) /\ UNCHANGED libs
            BY <2>1, <2>3 DEF SaveNew
        <3>2. req[q].name \in Listed
            BY <2>2, <2>3, KeyedNames DEF Listed
        <3>3. ~req[q].alone
            BY <1>2, <2>1, <3>2 DEF LibrariesInv, Good, StillChecked, Checked
        <3> QED
            BY <1>2, <2>1, <3>1, <3>3, RaiseStep, SameLibraries
    <2>4. ASSUME NEW l \in NextLib, req[q].name \notin Keyed(Libs), Answer(q),
                 libs' = [libs EXCEPT ![l] = [status |-> "active", name |-> req[q].name]]
          PROVE  LibrariesInv' /\ Row("deleting") \subseteq Row("deleting")'
        <3>1. Ends(q) /\ unhandled' = unhandled
            BY <2>4, AnswerFacts DEF LibrariesInv, TypeOK
        <3>2. Good(q)'
            BY <3>1, IdleGood DEF Ends
        <3>3. \A k \in Active \ {l} : libs[k].name # req[q].name
            BY <2>2, <2>4, KeyedNames DEF Active, Row
        <3>4. l \in Libs /\ libs[l].status = "none"
            BY DEF NextLib
        <3>5. LibrariesInv'
            BY <2>1, <2>2, <2>4, <3>1, <3>2, <3>3, <3>4, NamedRow DEF Ends
        <3> QED
            BY <2>4, <3>4, <3>5 DEF Row
    <2> QED
        BY <2>1, <2>3, <2>4 DEF SaveNew
<1> QED
    BY <1>1, <1>2 DEF Create

LEMMA EnsureDefaultInv ==
    ASSUME LibrariesInv, NEW q \in Requests, EnsureDefault(q)
    PROVE  LibrariesInv' /\ Row("deleting") \subseteq Row("deleting")'
<1>1. CASE At(q, "list", "start") \/ At(q, "list", "default")
    BY <1>1, EnsureDefaultReads, SameLibraries DEF EnsureDefault
<1>2. CASE At(q, "list", "save")
    <2>1. /\ UNCHANGED <<sources, points, indexing, convs, bound, cited, history>>
          /\ SaveNew(q, Default, "libraries") /\ q \in Busy /\ Default \in Names
        BY <1>2, LibrariesAssumption DEF EnsureDefault, Busy, Free
    <2>3. CASE Default \in Keyed(Libs)
        <3>1. Raise(q) /\ UNCHANGED libs
            BY <2>1, <2>3 DEF SaveNew
        <3>2. ~req[q].alone
            BY <1>2, <2>1, <2>3, KeyedNames DEF LibrariesInv, Good, StillChecked, Checked
        <3> QED
            BY <1>2, <2>1, <3>1, <3>2, RaiseStep, SameLibraries
    <2>4. ASSUME NEW l \in NextLib, Default \notin Keyed(Libs), Go(q, "libraries"),
                 libs' = [libs EXCEPT ![l] = [status |-> "active", name |-> Default]]
          PROVE  LibrariesInv' /\ Row("deleting") \subseteq Row("deleting")'
        <3>1. Advances(q, "libraries") /\ unhandled' = unhandled
            BY <2>4, GoFacts DEF LibrariesInv, TypeOK, Steps
        <3>2. Good(q)'
            BY <1>2, <3>1 DEF Advances, Good, Addressed, StillFound, LookedUp, Leaves,
                              Remembers, StillChecked, Checked
        <3>3. \A k \in Active \ {l} : libs[k].name # Default
            BY <2>1, <2>4, KeyedNames DEF Active, Row
        <3>4. l \in Libs /\ libs[l].status = "none"
            BY DEF NextLib
        <3>5. LibrariesInv'
            BY <2>1, <2>4, <3>1, <3>2, <3>3, <3>4, NamedRow DEF Advances
        <3> QED
            BY <2>4, <3>4, <3>5 DEF Row
    <2> QED
        BY <2>1, <2>3, <2>4 DEF SaveNew
<1> QED
    BY <1>1, <1>2 DEF EnsureDefault

LEMMA RenameInv ==
    ASSUME LibrariesInv, NEW q \in Requests, Rename(q)
    PROVE  /\ LibrariesInv'
           /\ Row("deleting") \subseteq Row("deleting")' \/ "rename" \in overlapped
<1>1. CASE req[q].step # "save"
    BY <1>1, RenameReads, SameLibraries DEF Rename
<1>2. CASE At(q, "rename", "save")
    <2> DEFINE l == req[q].lib
               n == req[q].name
    <2>1. /\ UNCHANGED <<sources, points, indexing, convs, bound, cited, history>>
          /\ l \in Libs /\ n \in Names /\ Good(q) /\ q \in Busy
        BY <1>2 DEF Rename, LibrariesInv, TypeOK, Request, Busy, Free
    <2>2. CASE n \in Keyed(Libs \ {l})
        <3>1. Raise(q) /\ UNCHANGED libs
            BY <1>2, <2>2 DEF Rename
        <3>2. \E k \in Active \ {l} : libs[k].name = n
            BY <2>1, <2>2, KeyedNames
        <3>3. ~req[q].alone
            BY <1>2, <2>1, <3>2 DEF Good, StillChecked, Checked
        <3> QED
            BY <1>2, <2>1, <3>1, <3>3, RaiseStep, SameLibraries
    <2>3. CASE n \notin Keyed(Libs \ {l})
        <3>1. Answer(q) /\ libs' = [libs EXCEPT ![l] = [status |-> "active", name |-> n]]
            BY <1>2, <2>3 DEF Rename, Renamed
        <3>2. Ends(q) /\ unhandled' = unhandled
            BY <3>1, AnswerFacts DEF LibrariesInv, TypeOK
        <3>3. Good(q)'
            BY <3>2, IdleGood DEF Ends
        <3>4. \A k \in Active \ {l} : libs[k].name # n
            BY <2>1, <2>3, KeyedNames DEF Active, Row
        <3>5. LibrariesInv'
            BY <2>1, <3>1, <3>2, <3>3, <3>4, NamedRow DEF Ends
        <3>6. l \in Active \/ "rename" \in overlapped
            BY <1>2, <2>1 DEF Good, StillFound, LookedUp
        <3> QED
            BY <3>1, <3>5, <3>6 DEF Row, Active
    <2> QED
        BY <2>2, <2>3
<1> QED
    BY <1>1, <1>2 DEF Rename

LEMMA DeleteInv ==
    ASSUME LibrariesInv, NEW q \in Requests, Delete(q)
    PROVE  LibrariesInv' /\ Row("deleting") \subseteq Row("deleting")'
<1>1. CASE req[q].step # "delete"
    BY <1>1, DeleteReads, SameLibraries DEF Delete
<1>2. CASE At(q, "delete", "delete")
    <2> DEFINE l == req[q].lib
    <2>1. /\ UNCHANGED <<points, indexing, convs, cited, history>>
          /\ DeleteRows(q, l) /\ Good(q) /\ q \in Busy /\ l \in Libs
        BY <1>2 DEF Delete, LibrariesInv, TypeOK, Request, Busy, Free
    <2>2. /\ bound' = Unbound(l) /\ sources' = AllDetached(l)
          /\ \/ /\ l \in Active
                /\ libs' = [libs EXCEPT ![l] = [status |-> "deleting", name |-> "deleted"]]
                /\ Go(q, "payload")
             \/ l \notin Active /\ libs' = libs /\ Answer(q)
        BY <2>1 DEF DeleteRows, Found, DeletedName
    <2>3. /\ Moves(q) /\ unhandled' = unhandled
          /\ req'[q].step = "idle" \/ Advances(q, "payload")
        BY <2>2, GoFacts, AnswerFacts DEF LibrariesInv, TypeOK, Ends, Advances, Steps
    <2>4. /\ libs' \in [Libs -> [status : {"none", "active", "deleting"},
                                 name : Names \union {"deleted"}]]
          /\ \A k \in Libs : k # l => libs'[k] = libs[k]
          /\ l \in Active => libs'[l] = [status |-> "deleting", name |-> "deleted"]
          /\ l \notin Active => libs'[l] = libs[l]
        BY <2>1, <2>2 DEF LibrariesInv, TypeOK, Active, Row
    <2>5. /\ Active' = Active \ {l} /\ Known' = Known
          /\ Row("deleting") \subseteq Row("deleting")'
          /\ Row("deleting")' \subseteq Row("deleting") \union {l}
        BY <2>4 DEF Active, Known, Row
    <2>6. ASSUME NEW f \in Folders
          PROVE  /\ sources'[f] \in [status : {"none", "active", "detached"},
                                     scan : {"idle", "queued", "ready", "error"}]
                 /\ sources'[f].status = "none" <=> sources[f].status = "none"
                 /\ sources'[f].status = "active" => sources[f].status = "active" /\ f[1] # l
        BY <2>2 DEF AllDetached, LibrariesInv, TypeOK
    <2>7. ASSUME NEW c \in Conversations
          PROVE  /\ bound'[c] \in Libs \union {0} /\ bound'[c] # l
                 /\ bound'[c] # 0 => bound'[c] = bound[c]
        BY <2>1, <2>2, LibrariesAssumption DEF Unbound, LibrariesInv, TypeOK
    <2>8. TypeOK'
        <3>1. /\ sources' \in [Folders -> [status : {"none", "active", "detached"},
                                           scan : {"idle", "queued", "ready", "error"}]]
              /\ bound' \in [Conversations -> Libs \union {0}]
            BY <2>2, <2>6, <2>7 DEF AllDetached, Unbound
        <3>2. \A k \in Libs : libs'[k].status # "none" <=> libs[k].status # "none"
            BY <2>4 DEF Active, Row
        <3>3. \A k, j \in Libs : k # j /\ libs'[k].status = "active" /\ libs'[j].status = "active"
                                    => libs'[k].name # libs'[j].name
            BY <2>4 DEF LibrariesInv, TypeOK, Active, Row
        <3>4. \A f \in Folders : f[1] \in Libs
            BY DEF Folders
        <3> QED
            BY <2>1, <2>3, <2>4, <2>6, <2>7, <3>1, <3>2, <3>3, <3>4
               DEF LibrariesInv, TypeOK, Folders, Moves, history
    <2>9. RowsAgree'
        BY <2>1, <2>4, <2>6 DEF LibrariesInv, RowsAgree, TypeOK, Active, Row
    <2>10. Keeps(q)
        BY <1>2, <2>1, <2>3, <2>5, <2>6 DEF Keeps, history
    <2>11. Good(q)'
        <3>1. CASE Advances(q, "payload")
            BY <1>2, <2>1, <2>5, <3>1
               DEF Advances, Good, Addressed, StillFound, LookedUp, Leaves, Remembers,
                   StillChecked, Checked
        <3> QED
            BY <2>3, <3>1, IdleGood
    <2>12. Overlapping' /\ \A k \in Requests : Good(k)'
        BY <1>2, <2>8, <2>10, <2>11, AllGood
    \* Another library was counted, and is deleted only by another deletion.
    <2>13. LibraryRemains'
        BY <1>2, <2>1, <2>5 DEF Good, Leaves, LibraryRemains, history
    <2>14. NoOrphans' /\ BoundIsActive' /\ OnlyRacesRaise'
        <3>1. NoOrphans'
            BY <2>1, <2>5, <2>6 DEF LibrariesInv, NoOrphans, Folders, history
        <3>2. BoundIsActive'
            BY <2>1, <2>5, <2>7, LibrariesAssumption
               DEF LibrariesInv, BoundIsActive, history, Row
        <3> QED
            BY <2>3, <3>1, <3>2 DEF LibrariesInv, OnlyRacesRaise
    <2> QED
        BY <2>5, <2>8, <2>9, <2>12, <2>13, <2>14 DEF LibrariesInv
<1> QED
    BY <1>1, <1>2 DEF Delete

\* Marking points, and ending.
LEMMA PointsStep ==
    ASSUME LibrariesInv, NEW q \in Requests, req[q].step # "idle", Answer(q),
           UNCHANGED <<libs, sources, indexing, convs, bound, cited, history>>,
           points' \in [Folders -> {"none", "active", "detached"}],
           \A f \in Folders : points[f] = "none" => points'[f] = "none"
    PROVE  LibrariesInv'
<1>1. Ends(q) /\ unhandled' = unhandled
    BY AnswerFacts DEF LibrariesInv, TypeOK
<1>2. Good(q)'
    BY <1>1, IdleGood DEF Ends
<1>3. TypeOK'
    BY <1>1 DEF LibrariesInv, TypeOK, Folders, Ends, Moves, history
<1>4. SameRows /\ BoundIsActive' /\ OnlyRacesRaise'
    BY <1>1 DEF SameRows, LibrariesInv, BoundIsActive, OnlyRacesRaise, Row, history
<1> QED
    BY <1>1, <1>2, <1>3, <1>4, PlainStep DEF Ends, history

LEMMA DeletePointsInv ==
    ASSUME LibrariesInv, NEW q \in Requests, DeletePoints(q)
    PROVE  LibrariesInv'
BY PointsStep DEF DeletePoints, WithLibrary, LibrariesInv, TypeOK

LEMMA AddPointsInv ==
    ASSUME LibrariesInv, NEW q \in Requests, AddPoints(q)
    PROVE  LibrariesInv'
BY PointsStep DEF AddPoints, WithFolder, LibrariesInv, TypeOK

LEMMA RemovePointsInv ==
    ASSUME LibrariesInv, NEW q \in Requests, RemovePoints(q)
    PROVE  LibrariesInv'
BY PointsStep DEF RemovePoints, WithFolder, LibrariesInv, TypeOK

LEMMA FolderRow ==
    ASSUME NEW row \in [status : {"none", "active", "detached"},
                        scan : {"idle", "queued", "ready", "error"}],
           NEW status, NEW scan
    PROVE  /\ [row EXCEPT !.status = status] = [status |-> status, scan |-> row.scan]
           /\ [row EXCEPT !.scan = scan] = [status |-> row.status, scan |-> scan]
OBVIOUS

\* One folder of a library that is there is written.
LEMMA FolderStep ==
    ASSUME LibrariesInv, NEW q \in Busy, Moves(q), NEW f \in Folders, f[1] \in Known,
           NEW status \in {"none", "active", "detached"},
           NEW scan \in {"idle", "queued", "ready", "error"},
           sources' = [sources EXCEPT ![f] = [status |-> status, scan |-> scan]],
           UNCHANGED <<libs, points, indexing, convs, bound, cited, history, unhandled>>,
           status = "none" => sources[f].status = "none",
           status = "active" =>
               /\ \/ sources[f].status = "active"
                  \/ \A k \in Requests :
                        k # q /\ req[k].step # "idle" /\ req[k].op \in {"ask", "search"}
                            => f \in req'[k].since
               /\ \/ sources[f].status = "active"
                  \/ f[1] \in Active \/ "add" \in overlapped,
           TypeOK' => Good(q)'
    PROVE  LibrariesInv'
<1>1. q \in Requests /\ req[q].step # "idle"
    BY DEF Busy, Free
<1>2. /\ sources' \in [Folders -> [status : {"none", "active", "detached"},
                                   scan : {"idle", "queued", "ready", "error"}]]
      /\ sources'[f].status = status
      /\ \A g \in Folders : g # f => sources'[g] = sources[g]
    BY DEF LibrariesInv, TypeOK
<1>3. TypeOK'
    BY <1>2 DEF LibrariesInv, TypeOK, Known, Folders, Moves, history
<1>4. RowsAgree'
    BY <1>2 DEF LibrariesInv, RowsAgree, TypeOK
<1>5. Active' = Active /\ Known' = Known /\ Row("deleting")' = Row("deleting")
    BY SameLibraries
<1>6. Keeps(q)
    BY <1>2, <1>5 DEF Keeps, history
<1>7. Overlapping' /\ \A k \in Requests : Good(k)'
    BY <1>1, <1>3, <1>6, AllGood
<1>8. NoOrphans'
    <2>1. SUFFICES ASSUME NEW g \in Folders, sources'[g].status = "active",
                          g[1] \in Row("deleting")
                   PROVE  "add" \in overlapped
        BY <1>5 DEF NoOrphans, history, Folders
    <2>2. CASE sources[g].status = "active"
        BY <2>1, <2>2 DEF LibrariesInv, NoOrphans
    <2>3. CASE sources[g].status # "active"
        BY <1>2, <2>1, <2>3 DEF Active, Row
    <2> QED
        BY <2>2, <2>3
<1>9. LibraryRemains' /\ BoundIsActive' /\ OnlyRacesRaise'
    BY <1>5 DEF LibrariesInv, LibraryRemains, BoundIsActive, OnlyRacesRaise, history
<1> QED
    BY <1>3, <1>4, <1>7, <1>8, <1>9 DEF LibrariesInv

\* What an added folder needs of its request.
LEMMA AddSourceInv ==
    ASSUME LibrariesInv, NEW q \in Requests, AddSource(q)
    PROVE  LibrariesInv'
<1> DEFINE f == <<req[q].lib, req[q].path>>
<1>1. CASE req[q].step \in {"start", "path"}
    BY <1>1, AddReads
<1>2. ASSUME req[q].step \notin {"start", "path"}
      PROVE  /\ UNCHANGED <<libs, points, indexing, convs, bound, cited, history>>
             /\ f \in Folders /\ f[1] \in Known /\ q \in Busy /\ req[q] \in Request
             /\ f[1] \in Active \/ "add" \in overlapped
             /\ sources[f] \in [status : {"none", "active", "detached"},
                                scan : {"idle", "queued", "ready", "error"}]
    <2>1. /\ UNCHANGED <<libs, points, indexing, convs, bound, cited, history>>
          /\ req[q].op = "add" /\ req[q].step \notin {"idle", "start"}
          /\ req[q] \in Request /\ Good(q)
        BY <1>2 DEF AddSource, LibrariesInv, TypeOK
    <2>2. f \in Folders /\ f[1] = req[q].lib
        BY <2>1 DEF Request, Folders
    <2>3. f[1] \in Known /\ (f[1] \in Active \/ "add" \in overlapped)
        BY <2>1, <2>2 DEF Good, Addressed, StillFound, LookedUp
    <2> QED
        BY <2>1, <2>2, <2>3 DEF LibrariesInv, TypeOK, Busy, Free
<1>3. CASE At(q, "add", "insert") /\ sources[f].status # "none"
    <2>1. Raise(q) /\ UNCHANGED sources
        BY <1>3 DEF AddSource, Insert
    <2>2. ~req[q].alone
        BY <1>2, <1>3 DEF LibrariesInv, Good, StillChecked, Checked
    <2> QED
        BY <1>2, <1>3, <2>1, <2>2, RaiseStep
<1>4. CASE At(q, "add", "insert") /\ sources[f].status = "none"
    <2>1. /\ sources' = [sources EXCEPT ![f] = [status |-> "active", scan |-> "queued"]]
          /\ GoActive(q, Idle, f)
        BY <1>4 DEF AddSource, Insert
    <2>2. f \in Folders /\ req \in [Requests -> Request]
        BY <1>2, <1>4 DEF LibrariesInv, TypeOK
    <2> HIDE DEF f
    <2>3. /\ Moves(q) /\ req'[q] = Idle /\ unhandled' = unhandled
          /\ \A k \in Requests :
                k # q /\ req[k].step # "idle" /\ req[k].op \in {"ask", "search"}
                    => f \in req'[k].since
        BY <2>1, <2>2, IdleFacts, GoActiveFacts
    <2>4. Good(q)'
        BY <2>3, IdleFacts, IdleGood
    <2> QED
        BY <1>2, <1>4, <2>1, <2>3, <2>4, FolderStep
<1>5. CASE At(q, "add", "reactivate")
    <2> DEFINE r == [req[q] EXCEPT !.step = "queue"]
    <2>1. /\ sources' = [sources EXCEPT ![f].status = "active"]
          /\ GoActive(q, r, f)
        BY <1>5 DEF AddSource
    <2>2. /\ r \in Request /\ r.step = "queue" /\ r.op = req[q].op /\ r.op = "add"
          /\ r.lib = req[q].lib /\ r.alone = req[q].alone
        BY <1>2, <1>5 DEF Request, Steps
    <2>3. f \in Folders /\ req \in [Requests -> Request]
        BY <1>2, <1>5 DEF LibrariesInv, TypeOK
    <2>4. sources' = [sources EXCEPT ![f] = [status |-> "active", scan |-> sources[f].scan]]
        BY <1>2, <1>5, <2>1, FolderRow
    <2>5. f[1] = req[q].lib
        OBVIOUS
    <2> HIDE DEF r, f
    <2>6. /\ Moves(q) /\ req'[q] = r /\ unhandled' = unhandled
          /\ \A k \in Requests :
                k # q /\ req[k].step # "idle" /\ req[k].op \in {"ask", "search"}
                    => f \in req'[k].since
        BY <2>1, <2>2, <2>3, GoActiveFacts
    <2>7. Good(q)'
        BY <1>2, <1>5, <2>2, <2>5, <2>6, SameLibraries
           DEF Good, Addressed, StillFound, LookedUp, Leaves, Remembers, StillChecked,
               Checked, history
    <2>8. sources[f].scan \in {"idle", "queued", "ready", "error"}
        BY <1>2, <1>5
    <2> QED
        BY <1>2, <1>5, <2>4, <2>6, <2>7, <2>8, FolderStep
<1>6. CASE At(q, "add", "queue")
    <2>1. /\ sources' = [sources EXCEPT ![f].scan = "queued"] /\ Go(q, "payload")
        BY <1>6 DEF AddSource
    <2>2. Advances(q, "payload") /\ unhandled' = unhandled
        BY <2>1, GoFacts DEF LibrariesInv, TypeOK, Steps
    <2>3. f \in Folders /\ f[1] = req[q].lib
        BY <1>2, <1>6
    <2>4. sources' = [sources EXCEPT ![f] = [status |-> sources[f].status, scan |-> "queued"]]
        BY <1>2, <1>6, <2>1, FolderRow
    <2> HIDE DEF f
    <2>5. Good(q)'
        BY <1>2, <1>6, <2>2, <2>3, SameLibraries
           DEF Advances, Good, Addressed, StillFound, LookedUp, Leaves, Remembers,
               StillChecked, Checked, history
    <2>6. sources[f].status \in {"none", "active", "detached"}
        BY <1>2, <1>6
    <2> QED
        BY <1>2, <1>6, <2>2, <2>4, <2>5, <2>6, FolderStep DEF Advances
<1> QED
    BY <1>1, <1>3, <1>4, <1>5, <1>6 DEF AddSource

LEMMA RemoveSourceInv ==
    ASSUME LibrariesInv, NEW q \in Requests, RemoveSource(q)
    PROVE  LibrariesInv'
<1> DEFINE f == <<req[q].lib, req[q].path>>
<1>1. CASE req[q].step = "start"
    BY <1>1, RemoveReads
<1>2. CASE At(q, "remove", "detach")
    <2>1. /\ UNCHANGED <<libs, points, indexing, convs, bound, cited, history>>
          /\ sources' = [sources EXCEPT ![f].status = "detached"] /\ Go(q, "payload")
          /\ req[q] \in Request /\ Good(q) /\ q \in Busy
        BY <1>2 DEF RemoveSource, LibrariesInv, TypeOK, Busy, Free
    <2>2. f \in Folders /\ f[1] = req[q].lib /\ f[1] \in Known
        BY <1>2, <2>1 DEF Request, Folders, Good, Addressed
    <2> HIDE DEF f
    <2>3. /\ sources[f].scan \in {"idle", "queued", "ready", "error"}
          /\ sources' = [sources EXCEPT ![f] = [status |-> "detached", scan |-> sources[f].scan]]
        <3>1. sources[f] \in [status : {"none", "active", "detached"},
                              scan : {"idle", "queued", "ready", "error"}]
            BY <2>2 DEF LibrariesInv, TypeOK
        <3> QED
            BY <2>1, <3>1, FolderRow
    <2>4. Advances(q, "payload") /\ unhandled' = unhandled
        BY <2>1, GoFacts DEF LibrariesInv, TypeOK, Steps
    <2>5. Good(q)'
        BY <1>2, <2>1, <2>4, SameLibraries
           DEF Advances, Good, Addressed, StillFound, LookedUp, Leaves, Remembers,
               StillChecked, Checked, history
    <2> QED
        BY <2>1, <2>2, <2>3, <2>4, <2>5, FolderStep DEF Advances
<1> QED
    BY <1>1, <1>2 DEF RemoveSource

\* The rows of the conversations are written, by a handler that goes on or ends.
LEMMA BindingStep ==
    ASSUME LibrariesInv, NEW q \in Busy, Moves(q), TypeOK', BoundIsActive', OnlyRacesRaise',
           Good(q)', UNCHANGED <<libs, sources, points, indexing, cited, history>>
    PROVE  LibrariesInv'
<1>1. q \in Requests /\ req[q].step # "idle"
    BY DEF Busy, Free
<1>2. /\ Known' = Known /\ Active' = Active /\ Row("deleting")' = Row("deleting")
    BY SameLibraries
<1>3. Keeps(q)
    BY <1>2 DEF Keeps, history
<1>4. Overlapping' /\ \A k \in Requests : Good(k)'
    BY <1>1, <1>3, AllGood
<1>5. RowsAgree'
    BY DEF LibrariesInv, RowsAgree
<1>6. LibraryRemains' /\ NoOrphans'
    BY <1>2 DEF LibrariesInv, LibraryRemains, NoOrphans, history, Folders
<1> QED
    BY <1>4, <1>5, <1>6 DEF LibrariesInv

\* A conversation is bound to a library that was looked up.
LEMMA BindToStep ==
    ASSUME LibrariesInv, NEW q \in Requests, BindTo(q, req[q].conv, req[q].lib),
           At(q, "bind", "bind") \/ At(q, "new", "bind"),
           UNCHANGED <<libs, sources, points, indexing, convs, cited, history>>
    PROVE  LibrariesInv'
<1> DEFINE l == req[q].lib
           c == req[q].conv
<1>1. /\ q \in Busy /\ Good(q) /\ l \in Libs /\ c \in Conversations
      /\ l \in Known /\ l # 0
      /\ l \in Active \/ overlapped \cap {"bind", "new"} # {}
    <2>1. q \in Busy /\ Good(q) /\ req[q] \in Request
        BY DEF LibrariesInv, TypeOK, Busy, Free
    <2> QED
        BY <2>1, LibrariesAssumption DEF Request, Good, Addressed, StillFound, LookedUp
<1>2. CASE convs[c] # "there"
    <2>1. Raise(q) /\ UNCHANGED bound
        BY <1>2 DEF BindTo
    <2>2. ~req[q].alone
        BY <1>1, <1>2 DEF Good, StillChecked, Checked
    <2> QED
        BY <2>1, <2>2, RaiseStep
<1>3. CASE convs[c] = "there"
    <2>1. Answer(q) /\ bound' = [bound EXCEPT ![c] = l]
        BY <1>3 DEF BindTo
    <2>2. Ends(q) /\ unhandled' = unhandled
        BY <2>1, AnswerFacts DEF LibrariesInv, TypeOK
    <2>3. Good(q)'
        BY <2>2, IdleGood DEF Ends
    <2> HIDE DEF l, c
    <2>4. /\ bound' \in [Conversations -> Libs \union {0}]
          /\ bound'[c] = l /\ \A d \in Conversations : d # c => bound'[d] = bound[d]
        BY <1>1, <2>1 DEF LibrariesInv, TypeOK
    <2>5. TypeOK'
        BY <1>1, <1>3, <2>2, <2>4
           DEF LibrariesInv, TypeOK, Folders, Ends, Moves, history, Known
    <2>6. BoundIsActive'
        BY <1>1, <2>4 DEF LibrariesInv, BoundIsActive, history, Row, Active
    <2> QED
        BY <1>1, <2>2, <2>3, <2>5, <2>6, BindingStep DEF Ends, LibrariesInv, OnlyRacesRaise
<1> QED
    BY <1>2, <1>3

\* A conversation is let go of.
LEMMA UnbindStep ==
    ASSUME LibrariesInv, NEW q \in Requests, NEW c \in Conversations, Unbinds(c), q \in Busy,
           UNCHANGED <<libs, sources, points, indexing, convs, cited, history>>,
           Moves(q), unhandled' = unhandled, Good(q)'
    PROVE  LibrariesInv'
<1>1. /\ bound' \in [Conversations -> Libs \union {0}]
      /\ bound'[c] = 0 /\ \A d \in Conversations : d # c => bound'[d] = bound[d]
    BY DEF LibrariesInv, TypeOK, Unbinds
<1>2. TypeOK'
    BY <1>1 DEF LibrariesInv, TypeOK, Folders, Moves, history
<1>3. BoundIsActive'
    BY <1>1, LibrariesAssumption DEF LibrariesInv, BoundIsActive, history, Row
<1> QED
    BY <1>2, <1>3, BindingStep DEF LibrariesInv, OnlyRacesRaise

LEMMA BindInv ==
    ASSUME LibrariesInv, NEW q \in Requests, Bind(q)
    PROVE  LibrariesInv'
<1>1. CASE req[q].step \in {"start", "library"}
    BY <1>1, BindReads
<1>2. CASE At(q, "bind", "bind")
    BY <1>2, BindToStep DEF Bind
<1> QED
    BY <1>1, <1>2 DEF Bind

LEMMA UnbindInv ==
    ASSUME LibrariesInv, NEW q \in Requests, Unbind(q)
    PROVE  LibrariesInv'
<1>1. CASE req[q].step = "start"
    BY <1>1, UnbindReads
<1>2. CASE At(q, "unbind", "unbind")
    <2>1. /\ UNCHANGED <<libs, sources, points, indexing, convs, cited, history>>
          /\ Unbinds(req[q].conv) /\ Answer(q) /\ q \in Busy /\ req[q] \in Request
        BY <1>2 DEF Unbind, LibrariesInv, TypeOK, Busy, Free
    <2>2. Ends(q) /\ unhandled' = unhandled
        BY <2>1, AnswerFacts DEF LibrariesInv, TypeOK
    <2>3. Good(q)' /\ req[q].conv \in Conversations
        BY <2>1, <2>2, IdleGood DEF Ends, Request
    <2> QED
        BY <2>1, <2>2, <2>3, UnbindStep DEF Ends
<1> QED
    BY <1>1, <1>2 DEF Unbind

LEMMA NewConversationInv ==
    ASSUME LibrariesInv, NEW q \in Requests, NewConversation(q)
    PROVE  LibrariesInv'
<1>1. CASE req[q].step = "start"
    BY <1>1, NewReads
<1>2. ASSUME At(q, "new", "open"), NEW c \in Conversations, convs[c] = "none",
             convs' = [convs EXCEPT ![c] = "there"],
             req' = [req EXCEPT ![q].step = "bind", ![q].conv = c],
             UNCHANGED <<libs, sources, points, indexing, bound, cited, history, unhandled>>
      PROVE  LibrariesInv'
    <2> DEFINE r == [req[q] EXCEPT !.step = "bind", !.conv = c]
    <2>1. req[q] \in Request /\ Good(q) /\ q \in Busy
        BY <1>2 DEF LibrariesInv, TypeOK, Busy, Free
    <2>2. /\ r \in Request /\ r.step = "bind" /\ r.op = "new" /\ r.op = req[q].op
          /\ r.lib = req[q].lib /\ r.alone = req[q].alone /\ r.conv = c
        BY <1>2, <2>1 DEF Request, Steps
    <2>3. req' = [req EXCEPT ![q] = r]
        BY <1>2
    <2> HIDE DEF r
    <2>4. Moves(q) /\ req'[q] = r
        BY <2>2, <2>3, OneMoves DEF LibrariesInv, TypeOK
    <2>5. /\ convs' \in [Conversations -> {"none", "there", "gone"}] /\ convs'[c] = "there"
          /\ \A d \in Conversations : convs[d] = "there" => convs'[d] = "there"
        BY <1>2 DEF LibrariesInv, TypeOK
    <2>6. Good(q)'
        BY <1>2, <2>1, <2>2, <2>4, <2>5, SameLibraries
           DEF Good, Addressed, StillFound, LookedUp, Leaves, Remembers, StillChecked,
               Checked, history
    <2>7. TypeOK'
        BY <1>2, <2>4, <2>5 DEF LibrariesInv, TypeOK, Folders, Moves, history
    <2>8. BoundIsActive' /\ OnlyRacesRaise'
        BY <1>2 DEF LibrariesInv, BoundIsActive, OnlyRacesRaise, Row, history
    <2> QED
        BY <1>2, <2>1, <2>4, <2>6, <2>7, <2>8, BindingStep
<1>3. CASE At(q, "new", "bind")
    BY <1>3, BindToStep DEF NewConversation
<1> QED
    BY <1>1, <1>2, <1>3 DEF NewConversation

LEMMA CloseConversationInv ==
    ASSUME LibrariesInv, NEW q \in Requests, CloseConversation(q)
    PROVE  LibrariesInv'
<1> DEFINE c == req[q].conv
<1>1. CASE req[q].step = "start"
    BY <1>1, CloseReads
<1>2. ASSUME req[q].step # "start"
      PROVE  /\ UNCHANGED <<libs, sources, points, indexing, cited, history>>
             /\ req[q].op = "close" /\ q \in Busy /\ c \in Conversations
    <2>1. /\ UNCHANGED <<libs, sources, points, indexing, cited, history>>
          /\ req[q].op = "close" /\ q \in Busy /\ req[q] \in Request
        BY <1>2 DEF CloseConversation, LibrariesInv, TypeOK, Busy, Free
    <2> QED
        BY <2>1 DEF Request
<1>3. CASE At(q, "close", "unbind")
    <2>1. Unbinds(c) /\ Go(q, "delete") /\ UNCHANGED convs
        BY <1>3 DEF CloseConversation
    <2>2. Advances(q, "delete") /\ unhandled' = unhandled
        BY <2>1, GoFacts DEF LibrariesInv, TypeOK, Steps
    <2>3. Good(q)'
        BY <1>3, <2>2 DEF Advances, Good, Addressed, StillFound, LookedUp, Leaves, Remembers,
                          StillChecked, Checked
    <2> QED
        BY <1>2, <1>3, <2>1, <2>2, <2>3, UnbindStep DEF Advances
<1>4. CASE At(q, "close", "delete") /\ Answer(q) /\ UNCHANGED <<convs, bound>>
    BY <1>2, <1>4, AnswerStep
<1>5. CASE At(q, "close", "delete") /\ Raise(q) /\ UNCHANGED <<convs, bound>>
    BY <1>2, <1>5, RaiseStep
<1>6. CASE /\ At(q, "close", "delete") /\ ~Kept(c) /\ Answer(q) /\ UNCHANGED bound
           /\ convs' = [convs EXCEPT ![c] = "gone"]
    <2>1. Ends(q) /\ unhandled' = unhandled
        BY <1>6, AnswerFacts DEF LibrariesInv, TypeOK
    <2>2. Good(q)'
        BY <2>1, IdleGood DEF Ends
    <2>3. /\ bound[c] = 0 /\ c \notin cited /\ c \in Conversations
          /\ convs' \in [Conversations -> {"none", "there", "gone"}]
          /\ \A d \in Conversations : d # c => convs'[d] = convs[d]
        BY <1>2, <1>6 DEF Kept, LibrariesInv, TypeOK
    <2> HIDE DEF c
    <2>4. TypeOK'
        BY <1>2, <1>6, <2>1, <2>3 DEF LibrariesInv, TypeOK, Folders, Ends, Moves, history
    <2>5. BoundIsActive' /\ OnlyRacesRaise'
        BY <1>2, <1>6, <2>1 DEF LibrariesInv, BoundIsActive, OnlyRacesRaise, Row, history
    <2> QED
        BY <1>2, <1>6, <2>1, <2>2, <2>4, <2>5, BindingStep DEF Ends
<1> QED
    BY <1>1, <1>3, <1>4, <1>5, <1>6 DEF CloseConversation

-------------------------------------------------------------------------------
(* The jobs, the arrival of a request, and the initial states *)

LEMMA IndexInv ==
    ASSUME LibrariesInv, NEW f \in Folders, IndexBegins(f) \/ IndexEnds(f)
    PROVE  LibrariesInv'
<1>1. UNCHANGED <<libs, convs, bound, cited, req, history, unhandled>>
    BY DEF IndexBegins, IndexEnds
<1>2. /\ sources' \in [Folders -> [status : {"none", "active", "detached"},
                                   scan : {"idle", "queued", "ready", "error"}]]
      /\ \A g \in Folders : sources'[g].status = sources[g].status
    <2>1. sources \in [Folders -> [status : {"none", "active", "detached"},
                                   scan : {"idle", "queued", "ready", "error"}]]
        BY DEF LibrariesInv, TypeOK
    <2>2. ASSUME NEW scan \in {"ready", "error"}, sources' = [sources EXCEPT ![f].scan = scan]
          PROVE  /\ sources' \in [Folders -> [status : {"none", "active", "detached"},
                                              scan : {"idle", "queued", "ready", "error"}]]
                 /\ \A g \in Folders : sources'[g].status = sources[g].status
        <3>1. sources' = [sources EXCEPT ![f] = [status |-> sources[f].status, scan |-> scan]]
            BY <2>1, <2>2, FolderRow
        <3> QED
            BY <2>1, <3>1
    <2>3. CASE sources' = sources
        BY <2>1, <2>3
    <2> QED
        BY <2>2, <2>3 DEF IndexBegins, IndexEnds
<1>3. /\ indexing' \subseteq indexing \union {f} /\ sources[f].status # "none"
      /\ points' \in [Folders -> {"none", "active", "detached"}]
      /\ \A g \in Folders : g # f => points'[g] = points[g]
    BY DEF IndexBegins, IndexEnds, LibrariesInv, TypeOK, RowsAgree
<1>4. TypeOK'
    BY <1>1, <1>2, <1>3 DEF LibrariesInv, TypeOK, Folders, history
<1>5. RowsAgree'
    BY <1>1, <1>2, <1>3 DEF LibrariesInv, RowsAgree, TypeOK
<1>6. /\ Active' = Active /\ Known' = Known /\ Listed' = Listed
      /\ Row("deleting")' = Row("deleting") /\ Busy' = Busy
    BY <1>1, SameLibraries DEF Busy, Free
<1>7. Overlapping'
    BY <1>1, <1>6 DEF LibrariesInv, Overlapping, history
<1>8. ASSUME NEW q \in Requests PROVE Good(q)'
    <2>1. Good(q) /\ req[q] \in Request
        BY DEF LibrariesInv, TypeOK
    <2>2. <<req[q].lib, req[q].path>> \in Folders
        BY <2>1 DEF Request, Folders
    <2>3. Checked(q) => Checked(q)'
        BY <1>1, <1>2, <1>6, <2>2 DEF Checked
    <2> QED
        BY <1>1, <1>2, <1>6, <2>1, <2>3
           DEF Good, Addressed, StillFound, LookedUp, Leaves, Remembers, StillChecked,
               history, Folders
<1>9. LibraryRemains' /\ NoOrphans' /\ BoundIsActive' /\ OnlyRacesRaise'
    BY <1>1, <1>2, <1>6 DEF LibrariesInv, LibraryRemains, NoOrphans, BoundIsActive,
                            OnlyRacesRaise, history, Folders
<1> QED
    BY <1>4, <1>5, <1>7, <1>8, <1>9 DEF LibrariesInv

LEMMA CallFacts ==
    ASSUME TypeOK, NEW call \in Calls
    PROVE  /\ call \in Request /\ call.step = "start"
           /\ call.op \in {"rename", "delete", "add", "remove", "bind", "new"}
                  => call.lib \in Known
<1>1. ASSUME NEW op \in Ops
      PROVE  Call(op) \in Request /\ Call(op).op = op /\ Call(op).step = "start"
    BY IdleFacts DEF Call, Request, Steps
<1>2. ASSUME NEW op \in Ops, NEW l \in Known
      PROVE  /\ CallTo(op, l) \in Request /\ CallTo(op, l).op = op
             /\ CallTo(op, l).step = "start" /\ CallTo(op, l).lib = l
    BY <1>1 DEF CallTo, Request, Known
<1>3. CASE call = Call("list")
    BY <1>1, <1>3 DEF Ops
<1>4. CASE call \in {[Call("create") EXCEPT !.name = n] : n \in Names}
    <2>1. PICK n \in Names : call = [Call("create") EXCEPT !.name = n]
        BY <1>4
    <2>2. /\ Call("create") \in Request /\ Call("create").op = "create"
          /\ Call("create").step = "start"
        BY <1>1 DEF Ops
    <2> QED
        BY <2>1, <2>2 DEF Request
<1>5. CASE call \in {[CallTo("rename", l) EXCEPT !.name = n] : l \in Known, n \in Names}
    <2>1. PICK l \in Known, n \in Names : call = [CallTo("rename", l) EXCEPT !.name = n]
        BY <1>5
    <2>2. /\ CallTo("rename", l) \in Request /\ CallTo("rename", l).step = "start"
          /\ CallTo("rename", l).lib = l
        BY <1>2 DEF Ops
    <2> QED
        BY <2>1, <2>2 DEF Request
<1>6. CASE call \in {[CallTo("add", l) EXCEPT !.path = p] : l \in Known, p \in Paths}
    <2>1. PICK l \in Known, p \in Paths : call = [CallTo("add", l) EXCEPT !.path = p]
        BY <1>6
    <2>2. /\ CallTo("add", l) \in Request /\ CallTo("add", l).step = "start"
          /\ CallTo("add", l).lib = l
        BY <1>2 DEF Ops
    <2> QED
        BY <2>1, <2>2 DEF Request
<1>7. CASE call \in {[CallTo("remove", f[1]) EXCEPT !.path = f[2]] :
                       f \in {g \in Folders : sources[g].status # "none"}}
    <2>1. PICK f \in Folders : /\ sources[f].status # "none"
                               /\ call = [CallTo("remove", f[1]) EXCEPT !.path = f[2]]
        BY <1>7
    <2>2. f[1] \in Known /\ f[2] \in Paths
        BY <2>1 DEF TypeOK, Known, Folders
    <2>3. /\ CallTo("remove", f[1]) \in Request /\ CallTo("remove", f[1]).step = "start"
          /\ CallTo("remove", f[1]).lib = f[1]
        BY <1>2, <2>2 DEF Ops
    <2> QED
        BY <2>1, <2>2, <2>3 DEF Request
<1>8. CASE call \in {[CallTo("bind", l) EXCEPT !.conv = c] : l \in Known, c \in Conversations}
    <2>1. PICK l \in Known, c \in Conversations : call = [CallTo("bind", l) EXCEPT !.conv = c]
        BY <1>8
    <2>2. /\ CallTo("bind", l) \in Request /\ CallTo("bind", l).step = "start"
          /\ CallTo("bind", l).lib = l
        BY <1>2 DEF Ops
    <2> QED
        BY <2>1, <2>2 DEF Request
<1>9. CASE call \in {CallTo(op, l) : op \in {"delete", "new", "search", "watch"}, l \in Known}
    BY <1>2, <1>9 DEF Ops
<1>10. CASE call \in {[Call(op) EXCEPT !.conv = c] : op \in {"unbind", "close", "ask"},
                        c \in {d \in Conversations : convs[d] # "none"}}
    <2>1. PICK op \in {"unbind", "close", "ask"}, c \in Conversations :
              call = [Call(op) EXCEPT !.conv = c]
        BY <1>10
    <2>2. Call(op) \in Request /\ Call(op).op = op /\ Call(op).step = "start"
        BY <1>1 DEF Ops
    <2> QED
        BY <2>1, <2>2 DEF Request
<1> QED
    BY <1>3, <1>4, <1>5, <1>6, <1>7, <1>8, <1>9, <1>10 DEF Calls

LEMMA ReceiveInv ==
    ASSUME LibrariesInv, NEW q \in Requests, Receive(q)
    PROVE  LibrariesInv'
<1> DEFINE shown == UNION {Shown(l) : l \in Libs}
<1>1. /\ UNCHANGED <<libs, sources, points, indexing, convs, bound, cited, unhandled>>
      /\ q \in Free /\ overlapped \subseteq overlapped'
    BY DEF Receive
<1>2. PICK call \in Calls :
        /\ req' = [k \in Requests |->
              IF k = q THEN [call EXCEPT !.alone = Busy = {},
                                         !.since = IF call.op \in {"ask", "search"}
                                                   THEN shown ELSE {}]
              ELSE IF call.op = "watch" THEN req[k]
              ELSE [req[k] EXCEPT !.alone = k \notin Busy]]
        /\ overlapped' = overlapped \union
              (IF call.op = "delete" THEN {req[k].op : k \in Busy} ELSE {}) \union
              (IF \E k \in Busy : req[k].op = "delete" THEN {call.op} ELSE {})
    BY DEF Receive
<1>a. /\ call.op \in Ops => overlapped' \subseteq Ops
      /\ call.op = "delete" => \A k \in Busy : req[k].op \in overlapped'
      /\ (\E k \in Busy : req[k].op = "delete") => call.op \in overlapped'
    <2> DEFINE beside == {req[k].op : k \in Busy}
    <2>1. /\ beside \subseteq Ops /\ overlapped \subseteq Ops
          /\ \A k \in Busy : req[k].op \in beside
        BY DEF LibrariesInv, TypeOK, Request, Busy
    <2>2. overlapped' = overlapped \union
              (IF call.op = "delete" THEN beside ELSE {}) \union
              (IF \E k \in Busy : req[k].op = "delete" THEN {call.op} ELSE {})
        BY <1>2
    <2> HIDE DEF beside
    <2> QED
        BY <2>1, <2>2
<1>3. /\ call \in Request /\ call.step = "start"
      /\ call.op \in {"rename", "delete", "add", "remove", "bind", "new"} => call.lib \in Known
    BY CallFacts DEF LibrariesInv
<1>4. /\ shown \subseteq Folders
      /\ \A f \in Folders : sources[f].status = "active" => f \in shown
    BY DEF Shown, Folders
<1> HIDE DEF shown
<1>5. /\ req'[q] \in Request /\ req'[q].step = "start" /\ req'[q].op = call.op
      /\ req'[q].lib = call.lib /\ (req'[q].alone <=> Busy = {})
      /\ call.op \in {"ask", "search"} => req'[q].since = shown
    <2> DEFINE since == IF call.op \in {"ask", "search"} THEN shown ELSE {}
               alone == Busy = {}
    <2>1. since \in SUBSET Folders /\ alone \in BOOLEAN
        BY <1>4
    <2>2. req'[q] = [call EXCEPT !.alone = alone, !.since = since]
        BY <1>2
    <2>3. call.op \in {"ask", "search"} => since = shown
        OBVIOUS
    <2> HIDE DEF since, alone
    <2>4. /\ req'[q] \in Request /\ req'[q].step = "start" /\ req'[q].op = call.op
          /\ req'[q].lib = call.lib /\ req'[q].alone = alone /\ req'[q].since = since
        BY <1>3, <2>1, <2>2 DEF Request
    <2> QED
        BY <2>3, <2>4 DEF alone
<1>6. ASSUME NEW k \in Requests, k # q
      PROVE  /\ req'[k] \in Request
             /\ req'[k].op = req[k].op /\ req'[k].step = req[k].step
             /\ req'[k].lib = req[k].lib /\ req'[k].name = req[k].name
             /\ req'[k].path = req[k].path /\ req'[k].conv = req[k].conv
             /\ req'[k].todo = req[k].todo /\ req'[k].found = req[k].found
             /\ req'[k].since = req[k].since
             /\ k \in Busy => (req'[k].alone <=> req[k].alone /\ call.op = "watch")
    <2>1. req[k] \in Request
        BY DEF LibrariesInv, TypeOK
    <2>2. CASE call.op = "watch"
        <3>1. req'[k] = req[k]
            BY <1>2, <1>6, <2>2
        <3> QED
            BY <2>1, <2>2, <3>1
    <2>3. CASE call.op # "watch"
        <3> DEFINE alone == k \notin Busy
        <3>1. req'[k] = [req[k] EXCEPT !.alone = alone] /\ alone \in BOOLEAN
            BY <1>2, <1>6, <2>3
        <3>2. k \in Busy => ~alone
            OBVIOUS
        <3> HIDE DEF alone
        <3> QED
            BY <2>1, <2>3, <3>1, <3>2 DEF Request
    <2> QED
        BY <2>2, <2>3
<1>7. /\ Active' = Active /\ Known' = Known /\ Listed' = Listed
      /\ Row("deleting")' = Row("deleting")
    BY <1>1, SameLibraries
<1>8. TypeOK'
    <2>1. req' \in [Requests -> Request]
        BY <1>2, <1>5, <1>6
    <2>2. overlapped' \subseteq Ops
        BY <1>a, <1>3 DEF Request
    <2> QED
        BY <1>1, <2>1, <2>2 DEF LibrariesInv, TypeOK, Folders
\* The new request counts for the others, and they for it, unless it is a subscriber.
<1>9. q \notin Busy /\ Busy' = Busy \union {k \in {q} : call.op # "watch"}
    BY <1>1, <1>3, <1>5, <1>6 DEF Busy, Free
<1>10. Overlapping'
    <2>1. SUFFICES ASSUME NEW j \in Busy', NEW k \in Busy', j # k
                   PROVE  /\ req'[j].op = "delete" => req'[k].op \in overlapped'
                          /\ ~req'[j].alone
        BY DEF Overlapping
    <2>2. j \in Requests /\ k \in Requests
        BY DEF Busy
    <2>3. CASE j \in Busy /\ k \in Busy
        BY <1>1, <1>6, <1>9, <2>1, <2>2, <2>3 DEF LibrariesInv, Overlapping
    <2>4. CASE j = q
        BY <1>a, <1>5, <1>6, <1>9, <2>1, <2>2, <2>4
    <2>5. CASE k = q
        BY <1>a, <1>5, <1>6, <1>9, <2>1, <2>2, <2>5
    <2> QED
        BY <1>9, <2>3, <2>4, <2>5
<1>11. Good(q)'
    BY <1>1, <1>3, <1>4, <1>5, <1>7
       DEF Good, Addressed, StillFound, LookedUp, Leaves, Remembers, StillChecked, Checked,
           Folders
<1>12. ASSUME NEW k \in Requests, k # q PROVE Good(k)'
    <2>1. Good(k)
        BY DEF LibrariesInv
    <2>2. Checked(k) => Checked(k)'
        BY <1>1, <1>6, <1>7, <1>12 DEF Checked
    <2>3. StillChecked(k)'
        BY <1>6, <1>9, <1>12, <2>1, <2>2 DEF Good, StillChecked
    <2> QED
        BY <1>1, <1>6, <1>7, <1>12, <2>1, <2>3
           DEF Good, Addressed, StillFound, LookedUp, Leaves, Remembers, Folders
<1>13. RowsAgree' /\ LibraryRemains' /\ NoOrphans' /\ BoundIsActive' /\ OnlyRacesRaise'
    BY <1>1, <1>7 DEF LibrariesInv, RowsAgree, LibraryRemains, NoOrphans, BoundIsActive,
                      OnlyRacesRaise, Folders
<1> QED
    BY <1>8, <1>10, <1>11, <1>12, <1>13 DEF LibrariesInv

LEMMA InitInv == Init => LibrariesInv
<1> SUFFICES ASSUME Init PROVE LibrariesInv
    OBVIOUS
<1> DEFINE other == CHOOSE m \in Names : m # Default
<1>1. other \in Names /\ other # Default /\ Default \in Names /\ "deleted" \notin Names
    BY LibrariesAssumption
<1>2. Idle.path \in Paths /\ 1 \in Libs /\ Libs \subseteq Nat \ {0}
    BY IdleFacts, LibrariesAssumption DEF Request
<1> HIDE DEF other
<1>3. PICK n \in 0..2 :
        /\ libs = [l \in Libs |-> IF l > n THEN [status |-> "none", name |-> Default]
                     ELSE [status |-> "active", name |-> IF l = 1 THEN Default ELSE other]]
        /\ sources = [f \in Folders |-> IF f[1] <= n /\ f[2] = Idle.path
                        THEN [status |-> "active", scan |-> "ready"] ELSE NoFolder]
        /\ points = [f \in Folders |-> IF f[1] <= n /\ f[2] = Idle.path THEN "active" ELSE "none"]
        /\ \E there \in SUBSET Conversations :
              /\ n = 0 => there = {}
              /\ convs = [c \in Conversations |-> IF c \in there THEN "there" ELSE "none"]
              /\ bound = [c \in Conversations |-> IF c \in there THEN 1 ELSE 0]
    BY DEF Init, other
<1>4. /\ indexing = {} /\ cited = {} /\ overlapped = {} /\ unhandled = {}
      /\ req = [q \in Requests |-> Idle]
    BY DEF Init
<1>5. ASSUME NEW l \in Libs
      PROVE  /\ libs[l] \in [status : {"none", "active", "deleting"},
                             name : Names \union {"deleted"}]
             /\ libs[l].name # "deleted" /\ libs[l].status # "deleting"
             /\ libs[l].status = "active" <=> l <= n
             /\ libs[l].name = IF l > n \/ l = 1 THEN Default ELSE other
    BY <1>1, <1>2, <1>3
<1>6. ASSUME NEW f \in Folders
      PROVE  /\ sources[f] \in [status : {"none", "active", "detached"},
                                scan : {"idle", "queued", "ready", "error"}]
             /\ points[f] \in {"none", "active", "detached"}
             /\ sources[f].status # "none" => f[1] <= n
             /\ points[f] # "none" => sources[f].status # "none"
    BY <1>3 DEF NoFolder
<1>7. ASSUME NEW c \in Conversations
      PROVE  /\ convs[c] \in {"none", "there", "gone"} /\ bound[c] \in Libs \union {0}
             /\ bound[c] # 0 => convs[c] = "there" /\ bound[c] = 1 /\ n # 0
    BY <1>2, <1>3
<1>8. TypeOK
    <2>1. /\ libs \in [Libs -> [status : {"none", "active", "deleting"},
                                name : Names \union {"deleted"}]]
          /\ sources \in [Folders -> [status : {"none", "active", "detached"},
                                      scan : {"idle", "queued", "ready", "error"}]]
          /\ points \in [Folders -> {"none", "active", "detached"}]
          /\ convs \in [Conversations -> {"none", "there", "gone"}]
          /\ bound \in [Conversations -> Libs \union {0}]
        BY <1>3, <1>5, <1>6, <1>7
    <2>2. req \in [Requests -> Request]
        BY <1>4, IdleFacts
    <2>3. \A f \in Folders : sources[f].status # "none" => libs[f[1]].status # "none"
        BY <1>5, <1>6 DEF Folders
    <2>4. \A c \in Conversations : bound[c] # 0 =>
             convs[c] = "there" /\ libs[bound[c]].status # "none"
        BY <1>2, <1>5, <1>7
    <2>5. \A l, k \in Libs : l # k /\ libs[l].status = "active" /\ libs[k].status = "active"
                                => libs[l].name # libs[k].name
        <3>1. ASSUME NEW l \in Libs, libs[l].status = "active"
              PROVE  l \in {1, 2} /\ libs[l].name = IF l = 1 THEN Default ELSE other
            <4>1. l \in Nat /\ l # 0 /\ l <= n /\ n \in 0..2
                BY <1>2, <1>3, <1>5, <3>1
            <4> QED
                BY <1>5, <4>1
        <3> QED
            BY <1>1, <3>1
    <2> QED
        BY <1>4, <1>6, <2>1, <2>2, <2>3, <2>4, <2>5 DEF TypeOK
<1>9. RowsAgree
    BY <1>4, <1>5 DEF RowsAgree
<1>10. Overlapping /\ \A q \in Requests : Good(q)
    BY <1>4, IdleFacts
       DEF Overlapping, Good, Addressed, StillFound, LookedUp, Leaves, Remembers,
           StillChecked, Checked, Busy, Free
<1>11. LibraryRemains
    BY <1>5 DEF LibraryRemains, Known, Active, Row
<1>12. NoOrphans /\ BoundIsActive /\ OnlyRacesRaise
    BY <1>4, <1>5 DEF NoOrphans, BoundIsActive, OnlyRacesRaise, Row
<1> QED
    BY <1>8, <1>9, <1>10, <1>11, <1>12 DEF LibrariesInv

LEMMA HandleInv ==
    ASSUME LibrariesInv, NEW q \in Requests, Handle(q)
    PROVE  /\ LibrariesInv'
           /\ Row("deleting") \subseteq Row("deleting")' \/ "rename" \in overlapped
<1>1. CASE Create(q) \/ EnsureDefault(q)
    BY <1>1, CreateInv, EnsureDefaultInv
<1>2. CASE Rename(q)
    BY <1>2, RenameInv
<1>3. CASE Delete(q)
    BY <1>3, DeleteInv
<1>4. CASE List(q)
    BY <1>4, ListInv, SameLibraries DEF List
<1>5. CASE DeletePoints(q) \/ AddPoints(q) \/ RemovePoints(q)
    BY <1>5, DeletePointsInv, AddPointsInv, RemovePointsInv, SameLibraries
       DEF DeletePoints, AddPoints, RemovePoints
<1>6. CASE AddSource(q)
    BY <1>6, AddSourceInv, SameLibraries DEF AddSource
<1>7. CASE RemoveSource(q)
    BY <1>7, RemoveSourceInv, SameLibraries DEF RemoveSource
<1>8. CASE Bind(q) \/ Unbind(q)
    BY <1>8, BindInv, UnbindInv, SameLibraries DEF Bind, Unbind
<1>9. CASE NewConversation(q)
    BY <1>9, NewConversationInv, SameLibraries DEF NewConversation
<1>10. CASE CloseConversation(q)
    BY <1>10, CloseConversationInv, SameLibraries DEF CloseConversation
<1>11. CASE Ask(q) \/ Search(q)
    BY <1>11, AskInv, SearchInv, SameLibraries DEF Ask, Search
<1>12. CASE Retrieve(q) \/ Cite(q)
    BY <1>12, RetrieveInv, CiteInv, SameLibraries DEF Retrieve, Cite
<1>13. CASE Watch(q)
    BY <1>13, WatchInv, SameLibraries DEF Watch
<1> QED
    BY <1>1, <1>2, <1>3, <1>4, <1>5, <1>6, <1>7, <1>8, <1>9, <1>10, <1>11, <1>12, <1>13
       DEF Handle

LEMMA NextInv ==
    ASSUME LibrariesInv, [Next]_vars
    PROVE  /\ LibrariesInv'
           /\ Row("deleting") \subseteq Row("deleting")' \/ "rename" \in overlapped
<1>1. ASSUME NEW q \in Requests, Handle(q)
      PROVE  /\ LibrariesInv'
             /\ Row("deleting") \subseteq Row("deleting")' \/ "rename" \in overlapped
    BY <1>1, HandleInv
<1>2. ASSUME NEW q \in Requests, Receive(q)
      PROVE  LibrariesInv' /\ Row("deleting") \subseteq Row("deleting")'
    BY <1>2, ReceiveInv, SameLibraries DEF Receive
<1>3. ASSUME NEW f \in Folders, IndexBegins(f) \/ IndexEnds(f)
      PROVE  LibrariesInv' /\ Row("deleting") \subseteq Row("deleting")'
    BY <1>3, IndexInv, SameLibraries DEF IndexBegins, IndexEnds
<1>4. ASSUME NEW q \in Requests, Disconnect(q)
      PROVE  LibrariesInv' /\ Row("deleting") \subseteq Row("deleting")'
    BY <1>4, WatchInv, SameLibraries DEF Disconnect
<1>5. CASE UNCHANGED vars
    <2>1. LibrariesInv'
        BY <1>5
           DEF vars, LibrariesInv, TypeOK, RowsAgree, Overlapping, Good, Addressed, StillFound,
               LookedUp, Leaves, Remembers, StillChecked, Checked, Busy, Free, Known, Active,
               Row, Listed, LibraryRemains, NoOrphans, BoundIsActive, OnlyRacesRaise
    <2> QED
        BY <1>5, <2>1, SameLibraries DEF vars
<1> QED
    BY <1>1, <1>2, <1>3, <1>4, <1>5 DEF Next

\* The invariant that the theorems below rest on.
THEOREM InvHolds == Spec => []LibrariesInv
<1>1. LibrariesInv /\ [Next]_vars => LibrariesInv'
    BY NextInv
<1> QED
    BY InitInv, <1>1, PTL DEF Spec

(***************************************************************************)
(* What a question cites is of the library that it asked, and was active   *)
(* at some time since: however the folders are removed, added and indexed  *)
(* while the passages are found (augmenter.py, retriever.py).              *)
(***************************************************************************)
THEOREM CitationsHold == Spec => []NothingDetachedCited
<1>1. LibrariesInv => NothingDetachedCited
    BY DEF LibrariesInv, Good, Remembers, NothingDetachedCited
<1> QED
    BY <1>1, InvHolds, PTL

(***************************************************************************)
(* A request that no other one overlaps raises nothing that its handler    *)
(* does not expect, but for the deletion of a conversation: what each      *)
(* handler of api/app.py checks is what the keys of the tables refuse.     *)
(***************************************************************************)
THEOREM AloneIsAnswered == Spec => []OnlyRacesRaise
<1>1. LibrariesInv => OnlyRacesRaise
    BY DEF LibrariesInv
<1> QED
    BY <1>1, InvHolds, PTL

(***************************************************************************)
(* A deleted library does not come back, unless a rename ran beside the    *)
(* deletion (rename_library saves the row that it read).                   *)
(***************************************************************************)
THEOREM DeletedStays == Spec => DeletedStaysDeleted
<1>1. LibrariesInv /\ [Next]_vars =>
        [\A l \in Row("deleting") : "rename" \notin overlapped => l \in Row("deleting")']_libs
    BY NextInv
<1> QED
    BY <1>1, InvHolds, PTL DEF Spec, DeletedStaysDeleted

(***************************************************************************)
(* The deletion of a library is whole: the folders and the conversations   *)
(* go with it, a library remains, and it does not come back, unless the    *)
(* one kind of request that can undo each of these ran beside it.          *)
(***************************************************************************)
THEOREM DeletionsHold == Spec => DeletionsAreWhole
<1>1. LibrariesInv => TypeOK /\ LibraryRemains /\ NoOrphans /\ BoundIsActive
    BY DEF LibrariesInv
<1> QED
    BY <1>1, InvHolds, DeletedStays, PTL DEF DeletionsAreWhole

===============================================================================
