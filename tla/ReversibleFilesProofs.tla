------------------------- MODULE ReversibleFilesProofs -------------------------
(***************************************************************************)
(* What the rows say of a change is so, and a change that failed leaves no *)
(* trace: for any changes, undo requests, texts and limits, and whoever    *)
(* else writes the file, whenever.                                         *)
(***************************************************************************)
EXTENDS ReversibleFiles, FiniteSetTheorems, TLAPS

\* The undo has written and its row does not say so yet.
Taken == {"taken", "saving", "restoring"}

\* The requests to undo c have written, or were cut off there.
Between(c) == \E u \in Requests(c) : undo[u].step \in Taken \union {"cut"}

Twice(c) == \E u, v \in Requests(c) : u # v

\* What a change does fits what it read.
Described(c) ==
    /\ work[c].op = "create" => work[c].before = NoFile
    /\ work[c].op = "replace" => work[c].before # NoFile /\ work[c].after # NoFile
    /\ work[c].op = "delete" => work[c].before # NoFile /\ work[c].after = NoFile
    /\ (/\ work[c].op = "create"
        /\ work[c].step \in InChange \union {"saving"} \/ rows[c] # NoRow) =>
          work[c].after # NoFile

\* A change with a row is over and has no row before it is; only one with a row is
\* asked to be undone.
Recorded(c) ==
    /\ rows[c] # NoRow => work[c].step \in {"done", "interrupted"}
    /\ work[c].step = "done" => rows[c] # NoRow
    /\ Requests(c) # {} => rows[c] # NoRow

\* The snapshot of a change that did not fail is what it read, until it is purged,
\* which nobody does between the comparison of an undo and its write.
Copies(c) ==
    /\ work[c].step # "failed" =>
          snapshots[c] = work[c].before \/ (c \in purged /\ snapshots[c] = NoFile)
    /\ \A u \in Requests(c) :
          undo[u].step = "matched" => work[c].op = "create" \/ snapshots[c] # NoFile

\* As long as nobody else writes the file, it is as the step and the row of the
\* change say.
Untouched(c) ==
    ~others[c] =>
        /\ work[c].step \in {"prepared", "checked"} => file = work[c].before
        /\ work[c].step \in {"written", "saving", "taking"} => file = work[c].after
        /\ work[c].step = "failed" => file = work[c].before /\ snapshots[c] = NoFile
        /\ rows[c] = "applied" /\ ~Between(c) => file = work[c].after
        /\ rows[c] = "reverted" => file = work[c].before

\* Once an undo has written, the file is as before and what it read was what the
\* change had written; two at a time, or one of a change that is reverted already,
\* need a change that changed nothing.
Undoing(c) ==
    ~others[c] =>
        \A u \in Requests(c) :
            /\ undo[u].step = "looked" => undo[u].applied = file
            /\ undo[u].step = "matched" => file = work[c].after
            /\ undo[u].step \in Taken \union {"matched"} => undo[u].applied = work[c].after
            /\ undo[u].step \in Taken =>
                  /\ file = work[c].before
                  /\ rows[c] = "reverted" => work[c].before = work[c].after
                  /\ \A v \in Requests(c) \ {u} :
                        undo[v].step \in Taken => work[c].before = work[c].after

\* A row that says more than "applied" comes from a request; a conflict from a
\* writer or from two requests.
Answered(c) ==
    /\ rows[c] = "reverted" => \E u \in Requests(c) : undo[u].step = "reverted"
    /\ rows[c] = "conflicted" => others[c] \/ Twice(c)
    /\ \A u \in Requests(c) :
          undo[u].step = "conflicting" => others[c] \/ Twice(c)

Good(c) == /\ Described(c) /\ Recorded(c) /\ Copies(c)
           /\ Untouched(c) /\ Undoing(c) /\ Answered(c)

\* The coroutine that is between two awaits is the only one.
Alone ==
    /\ \A c \in Changes : work[c].step \in InChange =>
          /\ up
          /\ \A d \in Changes : work[d].step \in InChange => d = c
          /\ \A u \in Undos : undo[u].step \notin InUndo
    /\ \A u \in Undos : undo[u].step \in InUndo =>
          /\ up
          /\ \A v \in Undos : undo[v].step \in InUndo => v = u

FilesInv == TypeOK /\ Alone /\ \A c \in Changes : Good(c)

-------------------------------------------------------------------------------
(* Types and the effects the actions share. *)

ChangeSteps  == {"idle", "started", "saving"} \union InChange \union Final
RequestSteps == {"idle", "read", "saving", "conflicting", "reverted", "conflict",
                 "refused", "error", "cut"} \union InUndo

Change  == [step : ChangeSteps, op : Operations, before : MayBeFile, after : MayBeFile]
Request == [step : RequestSteps, change : Changes, applied : MayBeFile]

LEMMA Types == TypeOK <=>
    /\ file \in MayBeFile
    /\ scope \in {"none", "folder", "file"}
    /\ rows \in [Changes -> {NoRow, "applied", "reverted", "conflicted"}]
    /\ snapshots \in [Changes -> MayBeFile]
    /\ work \in [Changes -> Change]
    /\ undo \in [Undos -> Request]
    /\ up \in BOOLEAN
    /\ others \in [Changes -> BOOLEAN]
    /\ purged \subseteq Changes
    /\ mine \in MayBeFile /\ risked \in BOOLEAN
<1>1. ChangeSteps = {"idle", "started", "saving"} \union InChange \union Final
    BY DEF ChangeSteps
<1>2. RequestSteps = {"idle", "read", "saving", "conflicting", "reverted", "conflict",
                      "refused", "error", "cut"} \union InUndo
    BY DEF RequestSteps
<1> QED
    BY <1>1, <1>2 DEF TypeOK, Change, Request

LEMMA TypesAfter ==
    ASSUME file' \in MayBeFile, scope' \in {"none", "folder", "file"},
           rows' \in [Changes -> {NoRow, "applied", "reverted", "conflicted"}],
           snapshots' \in [Changes -> MayBeFile],
           work' \in [Changes -> Change], undo' \in [Undos -> Request],
           up' \in BOOLEAN, others' \in [Changes -> BOOLEAN], purged' \subseteq Changes,
           mine' \in MayBeFile, risked' \in BOOLEAN
    PROVE  TypeOK'
BY DEF TypeOK, Change, Request, ChangeSteps, RequestSteps

LEMMA ToFacts ==
    ASSUME work \in [Changes -> Change], NEW c \in Changes, NEW s \in ChangeSteps, To(c, s)
    PROVE  /\ work' \in [Changes -> Change]
           /\ \A d \in Changes : d # c => work'[d] = work[d]
           /\ work'[c].step = s /\ work'[c].op = work[c].op
           /\ work'[c].before = work[c].before /\ work'[c].after = work[c].after
<1> DEFINE w == [work[c] EXCEPT !.step = s]
<1>1. work[c] \in Change
    OBVIOUS
<1>2. /\ w \in Change /\ w.step = s /\ w.op = work[c].op
      /\ w.before = work[c].before /\ w.after = work[c].after
    BY <1>1 DEF Change
<1>3. work' = [work EXCEPT ![c] = w]
    BY DEF To
<1> HIDE DEF w
<1> QED
    BY <1>2, <1>3

LEMMA ReplyFacts ==
    ASSUME undo \in [Undos -> Request], NEW u \in Undos, NEW s \in RequestSteps, Reply(u, s)
    PROVE  /\ undo' \in [Undos -> Request]
           /\ \A v \in Undos : v # u => undo'[v] = undo[v]
           /\ undo'[u].step = s /\ undo'[u].change = undo[u].change
           /\ undo'[u].applied = undo[u].applied
<1> DEFINE r == [undo[u] EXCEPT !.step = s]
<1>1. undo[u] \in Request
    OBVIOUS
<1>2. r \in Request /\ r.step = s /\ r.change = undo[u].change /\ r.applied = undo[u].applied
    BY <1>1 DEF Request
<1>3. undo' = [undo EXCEPT ![u] = r]
    BY DEF Reply
<1> HIDE DEF r
<1> QED
    BY <1>2, <1>3

LEMMA WriteFacts ==
    ASSUME NEW content \in MayBeFile, NEW c, Write(content, c)
    PROVE  /\ file' = content
           /\ others' \in [Changes -> BOOLEAN]
           /\ \A d \in Changes : others'[d] <=> others[d] \/ c # d
<1>1. others' \in [Changes -> BOOLEAN]
    BY DEF Write
<1>2. ASSUME NEW d \in Changes PROVE others'[d] <=> others[d] \/ c # d
    BY DEF Write
<1> QED
    BY <1>1, <1>2 DEF Write

LEMMA DropFacts ==
    ASSUME snapshots \in [Changes -> MayBeFile], NEW c \in Changes, Drop(c)
    PROVE  /\ snapshots' \in [Changes -> MayBeFile] /\ snapshots'[c] = NoFile
           /\ \A d \in Changes : d # c => snapshots'[d] = snapshots[d]
BY DEF Drop, MayBeFile

LEMMA RemoveFacts ==
    ASSUME TypeOK, NEW S, Remove(S)
    PROVE  /\ snapshots' \in [Changes -> MayBeFile]
           /\ purged' \subseteq Changes /\ purged \subseteq purged'
           /\ \A c \in Changes :
                 \/ snapshots'[c] = snapshots[c]
                 \/ snapshots'[c] = NoFile /\ c \in purged'
BY DEF TypeOK, Remove, Stored, MayBeFile

LEMMA TwoMembers ==
    ASSUME NEW S, IsFiniteSet(S), NEW u \in S, NEW v \in S, u # v
    PROVE  Cardinality(S) > 1
<1>1. Cardinality({u}) = 1 /\ IsFiniteSet({u})
    BY FS_Singleton
<1>2. v \notin {u} /\ {u} \union {v} \subseteq S
    OBVIOUS
<1>3. Cardinality({u} \union {v}) = 2
    BY <1>1, <1>2, FS_AddElement
<1>4. Cardinality({u} \union {v}) <= Cardinality(S) /\ Cardinality(S) \in Nat
    BY <1>2, FS_Subset, FS_CardinalityType
<1> QED
    BY <1>3, <1>4

LEMMA TwiceIsMoreThanOne ==
    ASSUME ChangesAssumption, NEW c, Twice(c)
    PROVE  Cardinality(Requests(c)) > 1
<1>1. Requests(c) \subseteq Undos
    BY DEF Requests
<1>2. IsFiniteSet(Requests(c))
    BY <1>1, FS_Subset DEF ChangesAssumption
<1>3. \E u, v \in Requests(c) : u # v
    BY DEF Twice
<1> QED
    BY <1>2, <1>3, TwoMembers

-------------------------------------------------------------------------------
(* Every state is well typed. *)

LEMMA InitInv == ChangesAssumption /\ Init => FilesInv
<1> SUFFICES ASSUME ChangesAssumption, Init PROVE FilesInv
    OBVIOUS
<1>1. TypeOK
    BY DEF ChangesAssumption, Init, TypeOK, MayBeFile, Contents, Operations, Final
<1>2. Alone
    BY DEF Init, Alone, InChange, InUndo
<1>3. ASSUME NEW c \in Changes PROVE Good(c)
  <2>1. Requests(c) = {}
      BY DEF Init, Requests
  <2>2. rows[c] = NoRow /\ snapshots[c] = NoFile /\ work[c].step = "idle"
        /\ work[c].op = "create" /\ work[c].before = NoFile
      BY DEF Init
  <2>3. Described(c) /\ Recorded(c) /\ Copies(c)
      BY <2>1, <2>2 DEF Described, Recorded, Copies, InChange
  <2>4. Untouched(c) /\ Undoing(c) /\ Answered(c)
      BY <2>1, <2>2 DEF Untouched, Undoing, Answered, NoRow
  <2> QED
      BY <2>3, <2>4 DEF Good
<1> QED
    BY <1>1, <1>2, <1>3 DEF FilesInv

-------------------------------------------------------------------------------
(* Every action preserves the invariant. *)

\* A step that leaves a change, its row, its snapshot and its requests alone, and
\* either the file as well or counts as another writer of it.
Elsewhere(d) ==
    /\ work'[d] = work[d] /\ rows'[d] = rows[d] /\ snapshots'[d] = snapshots[d]
    /\ \A u \in Undos :
          \/ undo'[u] = undo[u]
          \/ undo[u].step = "idle" /\ undo'[u].change # d
          \/ undo[u].change # d /\ undo'[u].change # d
    /\ others[d] => others'[d]
    /\ ~others'[d] => file' = file
    /\ purged' = purged

LEMMA ElsewhereIsGood ==
    ASSUME NEW d \in Changes, Good(d), Elsewhere(d)
    PROVE  Good(d)'
<1>1. Requests(d)' = Requests(d) /\ \A u \in Requests(d) : undo'[u] = undo[u]
    BY DEF Elsewhere, Requests
<1>2. (Between(d)' <=> Between(d)) /\ (Twice(d)' <=> Twice(d))
    BY <1>1 DEF Between, Twice
<1>3. Described(d)' /\ Recorded(d)' /\ Copies(d)'
    BY <1>1 DEF Elsewhere, Good, Described, Recorded, Copies
<1>4. Untouched(d)'
    BY <1>2 DEF Elsewhere, Good, Untouched
<1>5. Undoing(d)'
    BY <1>1 DEF Elsewhere, Good, Undoing
<1>6. Answered(d)'
    BY <1>1, <1>2 DEF Elsewhere, Good, Answered
<1> QED
    BY <1>3, <1>4, <1>5, <1>6 DEF Good

LEMMA ShareInv ==
    ASSUME FilesInv, NEW kind \in {"none", "folder", "file"}, Share(kind)
    PROVE  FilesInv'
<1>1. UNCHANGED <<file, rows, snapshots, work, undo, up, others, purged, mine, risked>>
    BY DEF Share, counters, users
<1>2. TypeOK' /\ Alone'
    BY <1>1 DEF FilesInv, TypeOK, Share, SaveScope, Alone
<1>3. \A d \in Changes : Elsewhere(d)
    BY <1>1 DEF Elsewhere
<1> QED
    BY <1>2, <1>3, ElsewhereIsGood DEF FilesInv

\* What is left to show of a step that moves c and leaves the requests alone.
LEMMA ChangeStep ==
    ASSUME FilesInv, NEW c \in Changes, UNCHANGED <<undo, up, purged>>,
           Free \/ work[c].step \in InChange,
           TypeOK', Good(c)',
           \A d \in Changes : d # c =>
              /\ work'[d] = work[d] /\ rows'[d] = rows[d] /\ snapshots'[d] = snapshots[d]
              /\ others[d] => others'[d]
              /\ ~others'[d] => file' = file
    PROVE  FilesInv'
<1>1. \A d \in Changes : d # c => Elsewhere(d)
    BY DEF Elsewhere
<1>2. /\ up /\ \A u \in Undos : undo[u].step \notin InUndo
      /\ \A d \in Changes : d # c => work[d].step \notin InChange
    BY DEF FilesInv, Alone, Free
<1>3. Alone'
    BY <1>2 DEF Alone
<1> QED
    BY <1>1, <1>3, ElsewhereIsGood DEF FilesInv

LEMMA SameUndos ==
    ASSUME UNCHANGED undo, NEW c
    PROVE  /\ Requests(c)' = Requests(c)
           /\ Between(c)' <=> Between(c)
           /\ Twice(c)' <=> Twice(c)
BY DEF Requests, Between, Twice

LEMMA StartRunInv ==
    ASSUME FilesInv, NEW c \in Changes, StartRun(c)
    PROVE  FilesInv'
<1>1. /\ UNCHANGED <<file, scope, rows, snapshots, undo, up, others, purged, mine, risked>>
      /\ Free /\ work[c].step = "idle"
    BY DEF StartRun, counters, users
<1>2. TypeOK /\ Good(c) /\ work \in [Changes -> Change]
    BY Types DEF FilesInv
<1>3. PICK s \in {"started", "refused"} : To(c, s)
  <2>1. CASE Resolves(scope) /\ InScope(scope)
    <3>1. To(c, "started")
        BY <2>1 DEF StartRun
    <3> QED
        BY <3>1
  <2>2. CASE ~(Resolves(scope) /\ InScope(scope))
    <3>1. To(c, "refused")
        BY <2>2 DEF StartRun
    <3> QED
        BY <3>1
  <2> QED
      BY <2>1, <2>2
<1>4. /\ work' \in [Changes -> Change]
      /\ \A d \in Changes : d # c => work'[d] = work[d]
      /\ work'[c].step = s /\ work'[c].op = work[c].op
      /\ work'[c].before = work[c].before /\ work'[c].after = work[c].after
    BY <1>2, <1>3, ToFacts DEF Final, ChangeSteps
<1>5. TypeOK'
    BY <1>1, <1>2, <1>4, Types, TypesAfter
<1>6. Good(c)'
  <2>1. Described(c)' /\ Recorded(c)' /\ Copies(c)'
      BY <1>1, <1>2, <1>4, SameUndos DEF Good, Described, Recorded, Copies, InChange
  <2>2. Untouched(c)' /\ Undoing(c)' /\ Answered(c)'
      BY <1>1, <1>2, <1>4, SameUndos DEF Good, Untouched, Undoing, Answered
  <2> QED
      BY <2>1, <2>2 DEF Good
<1> QED
    BY <1>1, <1>4, <1>5, <1>6, ChangeStep

LEMMA PrepareInv ==
    ASSUME ChangesAssumption, FilesInv, NEW c \in Changes, Prepare(c)
    PROVE  FilesInv'
<1>1. /\ UNCHANGED <<file, scope, rows, undo, up, purged, mine, risked>>
      /\ Free /\ work[c].step = "started"
    BY DEF Prepare, counters, users
<1>2. TypeOK /\ Good(c) /\ work \in [Changes -> Change]
    BY Types DEF FilesInv
<1>3. /\ others' \in [Changes -> BOOLEAN]
      /\ \A d \in Changes : d # c => (others'[d] <=> others[d])
    BY <1>2 DEF Prepare, TypeOK
<1>4. PICK op \in Operations, after \in MayBeFile :
         /\ op = "delete" => after = NoFile
         /\ op # "delete" => after \in Texts
         /\ \/ /\ Readable(op)
               /\ work' = [work EXCEPT ![c] = [step |-> "prepared", op |-> op,
                                                before |-> file, after |-> after]]
               /\ snapshots' = [snapshots EXCEPT ![c] = file]
            \/ To(c, "refused") /\ UNCHANGED snapshots
    BY DEF Prepare, MayBeFile, Contents
<1>5. rows[c] = NoRow /\ Requests(c) = {}
    BY <1>1, <1>2 DEF Good, Recorded
<1>6. Requests(c)' = {}
    BY <1>1, <1>5, SameUndos
<1>7. Undoing(c)' /\ Answered(c)'
    BY <1>1, <1>5, <1>6 DEF Undoing, Answered, NoRow
<1>8. CASE To(c, "refused") /\ UNCHANGED snapshots
  <2>1. "refused" \in ChangeSteps
      BY DEF Final, ChangeSteps
  <2>2. /\ work' \in [Changes -> Change]
        /\ \A d \in Changes : d # c => work'[d] = work[d]
        /\ work'[c].step = "refused" /\ work'[c].op = work[c].op
        /\ work'[c].before = work[c].before /\ work'[c].after = work[c].after
      BY <1>2, <1>8, <2>1, ToFacts
  <2>3. TypeOK'
      BY <1>1, <1>2, <1>3, <1>8, <2>2, Types, TypesAfter
  <2>4. Described(c)' /\ Recorded(c)' /\ Copies(c)' /\ Untouched(c)'
      BY <1>1, <1>2, <1>5, <1>6, <1>8, <2>2
      DEF Good, Described, Recorded, Copies, Untouched, NoRow, InChange
  <2>5. Good(c)'
      BY <1>7, <2>4 DEF Good
  <2> QED
      BY <1>1, <1>3, <1>8, <2>2, <2>3, <2>5, ChangeStep
<1>9. CASE /\ Readable(op)
           /\ work' = [work EXCEPT ![c] = [step |-> "prepared", op |-> op,
                                            before |-> file, after |-> after]]
           /\ snapshots' = [snapshots EXCEPT ![c] = file]
  <2> DEFINE w == [step |-> "prepared", op |-> op, before |-> file, after |-> after]
  <2>1. /\ w \in Change /\ w.step = "prepared" /\ w.op = op
        /\ w.before = file /\ w.after = after
      BY <1>2, Types DEF Change, ChangeSteps, InChange
  <2>2. work' = [work EXCEPT ![c] = w] /\ snapshots' = [snapshots EXCEPT ![c] = file]
      BY <1>9
  <2>3. /\ op = "create" => file = NoFile /\ after # NoFile
        /\ op = "replace" => file # NoFile /\ after # NoFile
        /\ op = "delete" => file # NoFile
      BY <1>4, <1>9 DEF ChangesAssumption, Readable, NoFile, Torn
  <2> HIDE DEF w
  <2>4. /\ work' \in [Changes -> Change] /\ snapshots' \in [Changes -> MayBeFile]
        /\ work'[c] = w /\ snapshots'[c] = file
        /\ \A d \in Changes : d # c => work'[d] = work[d] /\ snapshots'[d] = snapshots[d]
      BY <1>2, <2>1, <2>2, Types
  <2>5. TypeOK'
      BY <1>1, <1>2, <1>3, <2>4, Types, TypesAfter
  <2>6. Described(c)' /\ Recorded(c)' /\ Copies(c)' /\ Untouched(c)'
      BY <1>1, <1>4, <1>5, <1>6, <2>1, <2>3, <2>4
      DEF Described, Recorded, Copies, Untouched, NoRow
  <2>7. Good(c)'
      BY <1>7, <2>6 DEF Good
  <2> QED
      BY <1>1, <1>3, <2>4, <2>5, <2>7, ChangeStep
<1> QED
    BY <1>4, <1>8, <1>9

\* What is left to show of a step of c between its reading and its row.
LEMMA MoveInv ==
    ASSUME FilesInv, NEW c \in Changes, NEW s \in InChange \union {"saving", "failed"},
           To(c, s), work[c].step \in InChange \union {"saving"},
           Free \/ work[c].step \in InChange,
           UNCHANGED <<scope, rows, undo, up, purged, mine, risked>>,
           file' \in MayBeFile, others' \in [Changes -> BOOLEAN],
           others'[c] <=> others[c],
           snapshots' \in [Changes -> MayBeFile],
           s # "failed" => snapshots'[c] = snapshots[c],
           \A d \in Changes : d # c =>
              /\ snapshots'[d] = snapshots[d]
              /\ others[d] => others'[d]
              /\ ~others'[d] => file' = file,
           ~others[c] =>
              /\ s \in {"prepared", "checked"} => file' = work[c].before
              /\ s \in {"written", "saving", "taking"} => file' = work[c].after
              /\ s = "failed" => file' = work[c].before /\ snapshots'[c] = NoFile
    PROVE  FilesInv'
<1>1. TypeOK /\ Good(c) /\ work \in [Changes -> Change]
    BY Types DEF FilesInv
<1>2. rows[c] = NoRow /\ Requests(c) = {} /\ work[c].step # "failed"
    BY <1>1 DEF Good, Recorded, InChange
<1>3. s \in ChangeSteps
    BY DEF ChangeSteps, Final
<1>4. /\ work' \in [Changes -> Change]
      /\ \A d \in Changes : d # c => work'[d] = work[d]
      /\ work'[c].step = s /\ work'[c].op = work[c].op
      /\ work'[c].before = work[c].before /\ work'[c].after = work[c].after
    BY <1>1, <1>3, ToFacts
<1>5. TypeOK'
    BY <1>1, <1>4, Types, TypesAfter
<1>6. Requests(c)' = {} /\ rows'[c] = NoRow
    BY <1>2, SameUndos
<1>7. Described(c)'
    BY <1>1, <1>4, <1>6 DEF Good, Described, InChange
<1>8. Recorded(c)' /\ Copies(c)'
    BY <1>1, <1>2, <1>4, <1>6 DEF Good, Recorded, Copies, InChange
<1>9. Untouched(c)'
    BY <1>4, <1>6 DEF Untouched, NoRow
<1>10. Undoing(c)' /\ Answered(c)'
    BY <1>6 DEF Undoing, Answered, NoRow
<1>11. Good(c)'
    BY <1>7, <1>8, <1>9, <1>10 DEF Good
<1> QED
    BY <1>4, <1>5, <1>11, ChangeStep

LEMMA CheckDeletedInv ==
    ASSUME FilesInv, NEW c \in Changes, CheckDeleted(c)
    PROVE  FilesInv'
<1>1. UNCHANGED <<file, scope, rows, undo, up, others, purged, mine, risked>>
      /\ work[c].step = "prepared"
    BY DEF CheckDeleted, counters, users
<1>2. TypeOK /\ Good(c) /\ snapshots \in [Changes -> MayBeFile] /\ file \in MayBeFile
      /\ others \in [Changes -> BOOLEAN]
    BY Types DEF FilesInv
<1>3. ~others[c] => file = work[c].before
    BY <1>1, <1>2 DEF Good, Untouched
<1>4. CASE file = work[c].before /\ To(c, "checked") /\ UNCHANGED snapshots
    BY <1>1, <1>2, <1>4, MoveInv DEF InChange
<1>5. CASE file # work[c].before /\ To(c, "failed") /\ (UNCHANGED snapshots \/ Drop(c))
  <2>1. /\ snapshots' \in [Changes -> MayBeFile]
        /\ \A d \in Changes : d # c => snapshots'[d] = snapshots[d]
      BY <1>2, <1>5, DropFacts
  <2> QED
      BY <1>1, <1>2, <1>3, <1>5, <2>1, MoveInv DEF InChange
<1> QED
    BY <1>4, <1>5 DEF CheckDeleted

LEMMA ApplyInv ==
    ASSUME FilesInv, NEW c \in Changes, Apply(c)
    PROVE  FilesInv'
<1>1. UNCHANGED <<scope, rows, snapshots, undo, up, purged, mine, risked>>
      /\ work[c].step \in {"prepared", "checked"}
    BY DEF Apply, counters, users
<1>2. /\ TypeOK /\ Good(c) /\ work \in [Changes -> Change]
      /\ snapshots \in [Changes -> MayBeFile] /\ file \in MayBeFile
      /\ others \in [Changes -> BOOLEAN]
    BY Types DEF FilesInv
<1> DEFINE fits == IF work[c].op = "create" THEN file = NoFile ELSE file # NoFile
<1>3. ~others[c] => fits
    BY <1>1, <1>2 DEF Good, Described, Untouched, Change, Operations
<1>4. CASE fits /\ Write(work[c].after, c) /\ To(c, "written")
  <2>1. work[c].after \in MayBeFile
      BY <1>2 DEF Change
  <2>2. /\ file' = work[c].after
        /\ others' \in [Changes -> BOOLEAN]
        /\ \A d \in Changes : others'[d] <=> others[d] \/ c # d
      BY <1>4, <2>1, WriteFacts
  <2> HIDE DEF fits
  <2> QED
      BY <1>1, <1>2, <1>4, <2>1, <2>2, MoveInv DEF InChange
<1>5. CASE ~fits /\ To(c, "failed") /\ UNCHANGED <<file, others>>
  <2>1. others[c] /\ UNCHANGED <<file, others>>
      BY <1>3, <1>5
  <2> HIDE DEF fits
  <2> QED
      BY <1>1, <1>2, <1>5, <2>1, MoveInv DEF InChange
<1> QED
    BY <1>4, <1>5 DEF Apply

LEMMA VerifyInv ==
    ASSUME FilesInv, NEW c \in Changes, Verify(c)
    PROVE  FilesInv'
<1>1. UNCHANGED <<file, scope, rows, undo, up, others, purged, mine, risked>>
      /\ work[c].step = "written"
    BY DEF Verify, counters, users
<1>2. TypeOK /\ Good(c) /\ snapshots \in [Changes -> MayBeFile] /\ file \in MayBeFile
      /\ others \in [Changes -> BOOLEAN]
    BY Types DEF FilesInv
<1>3. ~others[c] => file = work[c].after
    BY <1>1, <1>2 DEF Good, Untouched
<1>4. CASE file = work[c].after /\ To(c, "saving") /\ UNCHANGED snapshots
    BY <1>1, <1>2, <1>4, MoveInv DEF InChange
<1>5. CASE file # work[c].after /\ To(c, "failed") /\ (UNCHANGED snapshots \/ Drop(c))
  <2>1. /\ snapshots' \in [Changes -> MayBeFile]
        /\ \A d \in Changes : d # c => snapshots'[d] = snapshots[d]
      BY <1>2, <1>5, DropFacts
  <2> QED
      BY <1>1, <1>2, <1>3, <1>5, <2>1, MoveInv DEF InChange
<1>6. CASE file # work[c].after /\ To(c, "taking") /\ UNCHANGED snapshots
    BY <1>1, <1>2, <1>3, <1>6, MoveInv DEF InChange
<1> QED
    BY <1>4, <1>5, <1>6 DEF Verify

LEMMA CompensateInv ==
    ASSUME FilesInv, NEW c \in Changes, Compensate(c)
    PROVE  FilesInv'
<1>1. UNCHANGED <<file, scope, rows, snapshots, undo, up, others, purged, mine, risked>>
      /\ Free /\ work[c].step = "saving"
    BY DEF Compensate, counters, users
<1>2. TypeOK /\ Good(c) /\ snapshots \in [Changes -> MayBeFile] /\ file \in MayBeFile
      /\ others \in [Changes -> BOOLEAN]
    BY Types DEF FilesInv
<1>3. ~others[c] => file = work[c].after
    BY <1>1, <1>2 DEF Good, Untouched
<1>4. CASE To(c, "taking")
    BY <1>1, <1>2, <1>3, <1>4, MoveInv DEF InChange
<1>5. CASE file # work[c].after /\ To(c, "failed")
    BY <1>1, <1>2, <1>3, <1>5, MoveInv
<1> QED
    BY <1>4, <1>5 DEF Compensate

LEMMA TakeBackInv ==
    ASSUME FilesInv, NEW c \in Changes, TakeBack(c)
    PROVE  FilesInv'
<1>1. UNCHANGED <<scope, rows, undo, up, purged, mine, risked>>
      /\ work[c].step = "taking" /\ To(c, "failed")
    BY DEF TakeBack, counters, users
<1>2. /\ TypeOK /\ Good(c) /\ work \in [Changes -> Change]
      /\ snapshots \in [Changes -> MayBeFile] /\ file \in MayBeFile
      /\ others \in [Changes -> BOOLEAN]
    BY Types DEF FilesInv
<1>3. ~others[c] => CanTakeBack(work[c].op)
    BY <1>1, <1>2 DEF Good, Described, Untouched, CanTakeBack, Change, Operations, InChange
<1>4. CASE CanTakeBack(work[c].op) /\ Write(work[c].before, c) /\ Drop(c)
  <2>1. work[c].before \in MayBeFile
      BY <1>2 DEF Change
  <2>2. /\ file' = work[c].before
        /\ others' \in [Changes -> BOOLEAN]
        /\ \A d \in Changes : others'[d] <=> others[d] \/ c # d
      BY <1>4, <2>1, WriteFacts
  <2>3. /\ snapshots' \in [Changes -> MayBeFile] /\ snapshots'[c] = NoFile
        /\ \A d \in Changes : d # c => snapshots'[d] = snapshots[d]
      BY <1>2, <1>4, DropFacts
  <2> QED
      BY <1>1, <1>2, <2>1, <2>2, <2>3, MoveInv DEF InChange
<1>5. CASE ~CanTakeBack(work[c].op) /\ UNCHANGED <<file, others, snapshots>>
  <2>1. others[c] /\ UNCHANGED <<file, others, snapshots>>
      BY <1>3, <1>5
  <2> QED
      BY <1>1, <1>2, <2>1, MoveInv DEF InChange
<1> QED
    BY <1>4, <1>5 DEF TakeBack

LEMMA SaveChangeInv ==
    ASSUME FilesInv, NEW c \in Changes, SaveChange(c) \/ CancelSave(c)
    PROVE  FilesInv'
<1>1. /\ UNCHANGED <<file, scope, snapshots, undo, up, others, purged, mine, risked>>
      /\ Free /\ work[c].step = "saving"
    BY DEF SaveChange, CancelSave, counters, users
<1>2. TypeOK /\ Good(c) /\ work \in [Changes -> Change]
    BY Types DEF FilesInv
<1>3. rows[c] = NoRow /\ Requests(c) = {}
    BY <1>1, <1>2 DEF Good, Recorded
<1>4. PICK s \in {"done", "interrupted"} :
         /\ To(c, s)
         /\ rows' = [rows EXCEPT ![c] = "applied"] \/ (s = "interrupted" /\ rows' = rows)
  <2>1. CASE SaveChange(c)
      BY <2>1 DEF SaveChange
  <2>2. CASE CancelSave(c)
    <3>1. To(c, "interrupted")
        BY <2>2 DEF CancelSave
    <3>2. rows' = [rows EXCEPT ![c] = "applied"] \/ rows' = rows
        BY <2>2 DEF CancelSave
    <3> QED
        BY <3>1, <3>2
  <2> QED
      BY <2>1, <2>2
<1>5. /\ work' \in [Changes -> Change]
      /\ \A d \in Changes : d # c => work'[d] = work[d]
      /\ work'[c].step = s /\ work'[c].op = work[c].op
      /\ work'[c].before = work[c].before /\ work'[c].after = work[c].after
    BY <1>2, <1>4, ToFacts DEF Final, ChangeSteps
<1>6. /\ rows' \in [Changes -> {NoRow, "applied", "reverted", "conflicted"}]
      /\ \A d \in Changes : d # c => rows'[d] = rows[d]
      /\ rows'[c] = "applied" \/ (s = "interrupted" /\ rows'[c] = NoRow)
    BY <1>2, <1>3, <1>4 DEF TypeOK
<1>7. TypeOK'
    BY <1>1, <1>2, <1>5, <1>6, Types, TypesAfter
<1>8. Described(c)'
    BY <1>1, <1>2, <1>5 DEF Good, Described
<1>9. Recorded(c)' /\ Copies(c)' /\ Untouched(c)'
    BY <1>1, <1>2, <1>3, <1>5, <1>6, SameUndos
    DEF Good, Recorded, Copies, Untouched, NoRow
<1>10. Undoing(c)' /\ Answered(c)'
    BY <1>1, <1>3, <1>6, SameUndos DEF Undoing, Answered, NoRow
<1>11. Good(c)'
    BY <1>8, <1>9, <1>10 DEF Good
<1> QED
    BY <1>1, <1>5, <1>6, <1>7, <1>11, ChangeStep

\* What is left to show of a step that moves one undo, or asks for one, of c.
LEMMA UndoStep ==
    ASSUME FilesInv, NEW u \in Undos, NEW c \in Changes,
           UNCHANGED <<work, snapshots, up, purged>>,
           Free \/ undo[u].step \in InUndo,
           undo[u].step = "idle" \/ undo[u].change = c, undo'[u].change = c,
           \A v \in Undos : v # u => undo'[v] = undo[v],
           TypeOK', Good(c)',
           \A d \in Changes : d # c =>
              /\ rows'[d] = rows[d]
              /\ others[d] => others'[d]
              /\ ~others'[d] => file' = file
    PROVE  FilesInv'
<1>1. \A d \in Changes : d # c => Elsewhere(d)
    BY DEF Elsewhere
<1>2. /\ up /\ \A d \in Changes : work[d].step \notin InChange
      /\ \A v \in Undos : v # u => undo[v].step \notin InUndo
    BY DEF FilesInv, Alone, Free
<1>3. Alone'
    BY <1>2 DEF Alone
<1> QED
    BY <1>1, <1>3, ElsewhereIsGood DEF FilesInv

\* An undo that was asked for is of the same change whatever becomes of it.
LEMMA SameRequests ==
    ASSUME NEW u \in Undos, undo[u].step # "idle", undo'[u].step # "idle",
           undo'[u].change = undo[u].change,
           \A v \in Undos : v # u => undo'[v] = undo[v], NEW c
    PROVE  /\ Requests(c)' = Requests(c) /\ (Twice(c)' <=> Twice(c))
           /\ \A v \in Requests(c) : v # u => undo'[v] = undo[v]
BY DEF Requests, Twice

\* What is left to show of a step of an undo of c.
LEMMA UndoMove ==
    ASSUME FilesInv, NEW u \in Undos, NEW c \in Changes, undo[u].change = c,
           undo[u].step # "idle", Free \/ undo[u].step \in InUndo,
           UNCHANGED <<scope, snapshots, work, up, purged, mine, risked>>,
           undo' \in [Undos -> Request], \A v \in Undos : v # u => undo'[v] = undo[v],
           undo'[u].step # "idle", undo'[u].change = c,
           undo'[u].step = "matched" => work[c].op = "create" \/ snapshots[c] # NoFile,
           file' \in MayBeFile, others' \in [Changes -> BOOLEAN],
           rows' \in [Changes -> {NoRow, "applied", "reverted", "conflicted"}],
           rows'[c] # NoRow,
           \A d \in Changes : d # c =>
              /\ rows'[d] = rows[d]
              /\ others[d] => others'[d]
              /\ ~others'[d] => file' = file,
           Untouched(c)', Undoing(c)', Answered(c)'
    PROVE  FilesInv'
<1>1. TypeOK /\ Good(c)
    BY DEF FilesInv
<1>2. u \in Requests(c)
    BY DEF Requests
<1>3. rows[c] # NoRow /\ work[c].step \in {"done", "interrupted"}
    BY <1>1, <1>2 DEF Good, Recorded
<1>4. Requests(c)' = Requests(c) /\ \A v \in Requests(c) : v # u => undo'[v] = undo[v]
    BY SameRequests
<1>5. TypeOK'
    BY <1>1, Types, TypesAfter
<1>6. Described(c)' /\ Recorded(c)'
    BY <1>1, <1>3, <1>4 DEF Good, Described, Recorded
<1>7. Copies(c)'
    BY <1>1, <1>4 DEF Good, Copies
<1>8. Good(c)'
    BY <1>6, <1>7 DEF Good
<1> QED
    BY <1>5, <1>8, UndoStep

\* A change that is asked to be undone.
LEMMA Asked ==
    ASSUME FilesInv, NEW u \in Undos, NEW c \in Changes, undo[u].change = c,
           undo[u].step # "idle"
    PROVE  /\ u \in Requests(c) /\ rows[c] # NoRow
           /\ work[c].step \in {"done", "interrupted"}
<1>1. Good(c)
    BY DEF FilesInv
<1>2. u \in Requests(c)
    BY DEF Requests
<1> QED
    BY <1>1, <1>2 DEF Good, Recorded

LEMMA ReadRowInv ==
    ASSUME FilesInv, NEW u \in Undos, NEW c \in Changes, ReadRow(u, c)
    PROVE  FilesInv'
<1>1. /\ UNCHANGED <<file, scope, rows, snapshots, work, up, others, purged, mine, risked>>
      /\ Free /\ undo[u].step = "idle" /\ rows[c] # NoRow
    BY DEF ReadRow, counters, users
<1>2. TypeOK /\ Good(c) /\ undo \in [Undos -> Request]
    BY Types DEF FilesInv
<1> DEFINE r == [step |-> IF rows[c] = "applied" THEN "read" ELSE "refused",
                 change |-> c, applied |-> NoFile]
<1>3. r \in Request /\ r.step \in {"read", "refused"} /\ r.change = c
    BY DEF Request, RequestSteps, MayBeFile
<1>4. undo' = [undo EXCEPT ![u] = r]
    BY DEF ReadRow
<1> HIDE DEF r
<1>5. /\ undo' \in [Undos -> Request] /\ undo'[u] = r
      /\ \A v \in Undos : v # u => undo'[v] = undo[v]
    BY <1>2, <1>3, <1>4
<1>6. TypeOK'
    BY <1>1, <1>2, <1>5, Types, TypesAfter
<1>7. /\ Requests(c) \subseteq Requests(c)' /\ u \notin Requests(c)
      /\ \A v \in Requests(c)' : v = u \/ (v \in Requests(c) /\ undo'[v] = undo[v])
    BY <1>1, <1>3, <1>5 DEF Requests
<1>8. \A v \in Requests(c) : undo'[v] = undo[v]
    BY <1>5, <1>7 DEF Requests
<1>9. (Between(c)' <=> Between(c)) /\ (Twice(c) => Twice(c)')
    BY <1>3, <1>5, <1>7, <1>8 DEF Between, Twice, Taken
<1>10. Described(c)' /\ Recorded(c)' /\ Untouched(c)'
    BY <1>1, <1>2, <1>9 DEF Good, Described, Recorded, Untouched
<1>11. Copies(c)'
    BY <1>1, <1>2, <1>3, <1>5, <1>7 DEF Good, Copies
<1>12. Undoing(c)'
    BY <1>1, <1>2, <1>3, <1>5, <1>7 DEF Good, Undoing, Taken
<1>13. Answered(c)'
    BY <1>1, <1>2, <1>3, <1>5, <1>7, <1>8, <1>9 DEF Good, Answered
<1>14. Good(c)'
    BY <1>10, <1>11, <1>12, <1>13 DEF Good
<1> QED
    BY <1>1, <1>3, <1>5, <1>6, <1>14, UndoStep

LEMMA LookInv ==
    ASSUME FilesInv, NEW u \in Undos, NEW c \in Changes, undo[u].change = c, Look(u)
    PROVE  FilesInv'
<1>1. /\ UNCHANGED <<file, scope, rows, snapshots, work, up, others, purged, mine, risked>>
      /\ Free /\ undo[u].step = "read"
    BY DEF Look, counters, users
<1>2. TypeOK /\ Good(c) /\ undo \in [Undos -> Request] /\ file \in MayBeFile
    BY Types DEF FilesInv
<1> DEFINE r == [undo[u] EXCEPT !.step = "looked", !.applied = file]
<1>3. undo[u] \in Request
    BY <1>2
<1>4. r \in Request /\ r.step = "looked" /\ r.change = c /\ r.applied = file
    BY <1>2, <1>3 DEF Request, RequestSteps, InUndo
<1>5. undo' = [undo EXCEPT ![u] = r]
    BY DEF Look
<1> HIDE DEF r
<1>6. /\ undo' \in [Undos -> Request] /\ undo'[u] = r
      /\ \A v \in Undos : v # u => undo'[v] = undo[v]
    BY <1>2, <1>4, <1>5
<1>7. u \in Requests(c) /\ rows[c] # NoRow
    BY <1>1, Asked
<1>8. /\ Requests(c)' = Requests(c) /\ (Twice(c)' <=> Twice(c))
      /\ \A v \in Requests(c) : v # u => undo'[v] = undo[v]
    BY <1>1, <1>4, <1>6, SameRequests
<1>9. Between(c)' <=> Between(c)
    BY <1>1, <1>4, <1>6, <1>8 DEF Between, Taken
<1>10. Untouched(c)'
    BY <1>1, <1>2, <1>9 DEF Good, Untouched
<1>11. Undoing(c)'
    BY <1>1, <1>2, <1>4, <1>6, <1>8 DEF Good, Undoing, Taken
<1>12. Answered(c)'
    BY <1>1, <1>2, <1>4, <1>6, <1>8 DEF Good, Answered
<1> QED
    BY <1>1, <1>2, <1>4, <1>6, <1>7, <1>10, <1>11, <1>12, UndoMove, Types

\* An undo that goes on or ends without having touched the file or the row.
LEMMA CompareInv ==
    ASSUME FilesInv, NEW u \in Undos, NEW c \in Changes, undo[u].change = c, Compare(u)
    PROVE  FilesInv'
<1>1. /\ UNCHANGED <<file, scope, rows, snapshots, work, up, others, purged, mine, risked>>
      /\ undo[u].step = "looked"
    BY DEF Compare, counters, users
<1>2. TypeOK /\ Good(c) /\ undo \in [Undos -> Request]
    BY Types DEF FilesInv
<1>3. u \in Requests(c) /\ rows[c] # NoRow
    BY <1>1, Asked
<1>4. PICK s \in {"conflicting", "error", "matched"} :
         /\ Reply(u, s)
         /\ s = "conflicting" => ~Matches(c)
         /\ s = "matched" => Matches(c) /\ (work[c].op = "create" \/ snapshots[c] # NoFile)
  <2>1. CASE ~Matches(c)
    <3>1. Reply(u, "conflicting")
        BY <2>1 DEF Compare
    <3> QED
        BY <2>1, <3>1
  <2>2. CASE Matches(c) /\ work[c].op # "create" /\ snapshots[c] = NoFile
    <3>1. Reply(u, "error")
        BY <2>2 DEF Compare
    <3> QED
        BY <3>1
  <2>3. CASE Matches(c) /\ (work[c].op = "create" \/ snapshots[c] # NoFile)
    <3>1. Reply(u, "matched")
        BY <2>3 DEF Compare
    <3> QED
        BY <2>3, <3>1
  <2> QED
      BY <2>1, <2>2, <2>3
<1>5. /\ undo' \in [Undos -> Request]
      /\ \A v \in Undos : v # u => undo'[v] = undo[v]
      /\ undo'[u].step = s /\ undo'[u].change = c /\ undo'[u].applied = undo[u].applied
    BY <1>2, <1>4, ReplyFacts DEF RequestSteps, InUndo
<1>6. /\ Requests(c)' = Requests(c) /\ (Twice(c)' <=> Twice(c))
      /\ \A v \in Requests(c) : v # u => undo'[v] = undo[v]
    BY <1>1, <1>5, SameRequests
<1>7. Between(c)' <=> Between(c)
    BY <1>1, <1>5, <1>6 DEF Between, Taken
<1>8. s = "conflicting" => others[c] \/ Twice(c)
  <2> SUFFICES ASSUME ~Matches(c) PROVE others[c] \/ Twice(c)
      BY <1>4
  <2>1. CASE rows[c] = "applied" /\ Between(c)
    <3>1. PICK v \in Requests(c) : undo[v].step \in Taken \union {"cut"}
        BY <2>1 DEF Between
    <3> QED
        BY <1>1, <1>3, <3>1 DEF Twice, Taken
  <2>2. CASE rows[c] = "applied" /\ ~Between(c)
      BY <1>2, <2>2 DEF Good, Untouched, Matches
  <2>3. CASE rows[c] = "reverted"
      BY <1>1, <1>2, <1>3, <2>3 DEF Good, Answered, Twice
  <2>4. CASE rows[c] = "conflicted"
      BY <1>2, <2>4 DEF Good, Answered
  <2> QED
      BY <1>2, <1>3, <2>1, <2>2, <2>3, <2>4 DEF TypeOK
<1>9. Untouched(c)'
    BY <1>1, <1>2, <1>7 DEF Good, Untouched
<1>10. Undoing(c)'
  <2> SUFFICES ASSUME ~others[c] PROVE Undoing(c)'
      BY <1>1 DEF Undoing
  <2>1. undo[u].applied = file
      BY <1>1, <1>2, <1>3 DEF Good, Undoing
  <2>2. s = "matched" => file = work[c].after
      BY <1>4 DEF Matches
  <2> QED
      BY <1>1, <1>2, <1>5, <1>6, <2>1, <2>2 DEF Good, Undoing, Taken
<1>11. Answered(c)'
    BY <1>1, <1>2, <1>3, <1>5, <1>6, <1>8 DEF Good, Answered
<1> QED
    BY <1>1, <1>2, <1>3, <1>4, <1>5, <1>9, <1>10, <1>11, UndoMove, Types DEF InUndo

LEMMA RevertInv ==
    ASSUME FilesInv, NEW u \in Undos, NEW c \in Changes, undo[u].change = c, Revert(u)
    PROVE  FilesInv'
<1>1. /\ UNCHANGED <<scope, rows, snapshots, work, up, purged, mine, risked>>
      /\ undo[u].step = "matched"
    BY DEF Revert, counters, users
<1>2. /\ TypeOK /\ Good(c) /\ undo \in [Undos -> Request] /\ work \in [Changes -> Change]
      /\ snapshots[c] \in MayBeFile
    BY Types DEF FilesInv
<1>3. u \in Requests(c) /\ rows[c] # NoRow /\ work[c].step \in {"done", "interrupted"}
    BY <1>1, Asked
<1>4. PICK s \in {"taken", "error"} :
         /\ Reply(u, s)
         /\ s = "taken" => Write(snapshots[c], c)
         /\ s = "error" => ~CanTakeBack(work[c].op) /\ UNCHANGED <<file, others>>
  <2>1. CASE CanTakeBack(work[c].op)
    <3>1. Write(snapshots[c], c) /\ Reply(u, "taken")
        BY <2>1 DEF Revert
    <3> QED
        BY <3>1
  <2>2. CASE ~CanTakeBack(work[c].op)
    <3>1. Reply(u, "error") /\ UNCHANGED <<file, others>>
        BY <2>2 DEF Revert
    <3> QED
        BY <2>2, <3>1
  <2> QED
      BY <2>1, <2>2
<1>5. /\ undo' \in [Undos -> Request]
      /\ \A v \in Undos : v # u => undo'[v] = undo[v]
      /\ undo'[u].step = s /\ undo'[u].change = c /\ undo'[u].applied = undo[u].applied
    BY <1>2, <1>4, ReplyFacts DEF RequestSteps, InUndo
<1>6. /\ Requests(c)' = Requests(c) /\ (Twice(c)' <=> Twice(c))
      /\ \A v \in Requests(c) : v # u => undo'[v] = undo[v]
    BY <1>1, <1>5, SameRequests
<1>7. ~others[c] => file = work[c].after /\ undo[u].applied = work[c].after
    BY <1>1, <1>2, <1>3 DEF Good, Undoing
<1>8. ~others[c] => CanTakeBack(work[c].op)
    BY <1>2, <1>3, <1>7 DEF Good, Described, CanTakeBack, Change, Operations
<1>9. CASE s = "error"
  <2>1. others[c] /\ UNCHANGED <<file, others>>
      BY <1>4, <1>8, <1>9
  <2>2. Untouched(c)' /\ Undoing(c)'
      BY <2>1 DEF Untouched, Undoing
  <2>3. Answered(c)'
      BY <1>1, <1>2, <1>5, <1>6, <1>9, <2>1 DEF Good, Answered
  <2> QED
      BY <1>1, <1>2, <1>3, <1>5, <1>9, <2>1, <2>2, <2>3, UndoMove, Types DEF InUndo
<1>10. CASE s = "taken"
  <2>1. /\ file' = snapshots[c]
        /\ others' \in [Changes -> BOOLEAN]
        /\ \A d \in Changes : others'[d] <=> others[d] \/ c # d
      BY <1>2, <1>4, <1>10, WriteFacts
  <2>2. snapshots[c] = work[c].before
      BY <1>1, <1>2, <1>3 DEF Good, Copies, Described
  <2>3. Between(c)'
      BY <1>3, <1>5, <1>6, <1>10 DEF Between, Taken
  <2>4. Untouched(c)'
      BY <1>1, <1>3, <2>1, <2>2, <2>3 DEF Untouched
  <2>5. Undoing(c)'
    <3> SUFFICES ASSUME ~others[c] PROVE Undoing(c)'
        BY <2>1 DEF Undoing
    <3>1. rows[c] = "reverted" => work[c].before = work[c].after
        BY <1>2, <1>7 DEF Good, Untouched
    <3>2. \A v \in Requests(c) : undo[v].step \in Taken => work[c].before = work[c].after
        BY <1>2, <1>7 DEF Good, Undoing
    <3>3. \A v \in Undos : v # u => undo[v].step \notin InUndo
        BY <1>1 DEF FilesInv, Alone, InUndo
    <3>4. undo'[u].step \in Taken /\ undo'[u].step \notin {"looked", "matched"}
          /\ undo'[u].applied = work[c].after /\ file' = work[c].before
        BY <1>5, <1>7, <1>10, <2>1, <2>2 DEF Taken
    <3>5. ASSUME NEW v \in Requests(c), v # u
          PROVE  undo'[v] = undo[v] /\ undo'[v].step \notin {"looked", "matched"}
        BY <1>6, <3>3, <3>5 DEF Requests, InUndo
    <3>6. \A v \in Requests(c) : v # u /\ undo[v].step \in Taken =>
             undo[v].applied = work[c].after
        BY <1>2 DEF Good, Undoing
    <3> QED
        BY <1>1, <1>6, <3>1, <3>2, <3>4, <3>5, <3>6 DEF Undoing
  <2>6. Answered(c)'
      BY <1>1, <1>2, <1>5, <1>6, <1>10, <2>1 DEF Good, Answered
  <2> QED
      BY <1>1, <1>2, <1>3, <1>5, <1>10, <2>1, <2>4, <2>5, <2>6, UndoMove, Types DEF InUndo
<1> QED
    BY <1>9, <1>10

\* An undo that has written, and does not write now.
LEMMA TakenStep ==
    ASSUME FilesInv, NEW u \in Undos, NEW c \in Changes, undo[u].change = c,
           undo[u].step \in Taken, NEW s \in {"saving", "restoring", "error"},
           Free \/ undo[u].step \in InUndo, Reply(u, s), s = "error" => others[c],
           UNCHANGED <<file, scope, rows, snapshots, work, up, others, purged, mine, risked>>
    PROVE  FilesInv'
<1>1. TypeOK /\ Good(c) /\ undo \in [Undos -> Request]
    BY Types DEF FilesInv
<1>2. u \in Requests(c) /\ rows[c] # NoRow
    BY Asked DEF Taken
<1>3. /\ undo' \in [Undos -> Request]
      /\ \A v \in Undos : v # u => undo'[v] = undo[v]
      /\ undo'[u].step = s /\ undo'[u].change = c /\ undo'[u].applied = undo[u].applied
    BY <1>1, ReplyFacts DEF RequestSteps, InUndo
<1>4. /\ Requests(c)' = Requests(c) /\ (Twice(c)' <=> Twice(c))
      /\ \A v \in Requests(c) : v # u => undo'[v] = undo[v]
    BY <1>3, SameRequests DEF Taken
<1>5. s # "error" => (Between(c)' <=> Between(c))
    BY <1>2, <1>3, <1>4 DEF Between, Taken
<1>6. Untouched(c)'
    BY <1>1, <1>5 DEF Good, Untouched
<1>7. Undoing(c)'
  <2> SUFFICES ASSUME ~others[c] PROVE Undoing(c)'
      BY DEF Undoing
  <2>1. undo'[u].step \in Taken /\ undo'[u].step \notin {"looked", "matched"}
      BY <1>3 DEF Taken
  <2> QED
      BY <1>1, <1>2, <1>3, <1>4, <2>1 DEF Good, Undoing
<1>8. Answered(c)'
    BY <1>1, <1>2, <1>3, <1>4 DEF Good, Answered, Taken
<1> QED
    BY <1>1, <1>2, <1>3, <1>6, <1>7, <1>8, UndoMove, Types DEF Taken

LEMMA VerifyRevertedInv ==
    ASSUME FilesInv, NEW u \in Undos, NEW c \in Changes, undo[u].change = c,
           VerifyReverted(u)
    PROVE  FilesInv'
<1>1. /\ UNCHANGED <<file, scope, rows, snapshots, work, up, others, purged, mine, risked>>
      /\ undo[u].step = "taken"
    BY DEF VerifyReverted, counters, users
<1>2. Good(c) /\ u \in Requests(c)
    BY <1>1, Asked DEF FilesInv
<1>3. ~others[c] => file = work[c].before
    BY <1>1, <1>2 DEF Good, Undoing, Taken
<1>4. CASE file = work[c].before
  <2>1. Reply(u, "saving")
      BY <1>4 DEF VerifyReverted
  <2> QED
      BY <1>1, <2>1, TakenStep DEF Taken, InUndo
<1>5. CASE file # work[c].before
  <2>1. Reply(u, "error")
      BY <1>5 DEF VerifyReverted
  <2> QED
      BY <1>1, <1>3, <1>5, <2>1, TakenStep DEF Taken, InUndo
<1> QED
    BY <1>4, <1>5

LEMMA SaveRevertedInv ==
    ASSUME FilesInv, NEW u \in Undos, NEW c \in Changes, undo[u].change = c, SaveReverted(u)
    PROVE  FilesInv'
<1>1. /\ UNCHANGED <<file, scope, snapshots, work, up, others, purged, mine, risked>>
      /\ Free /\ undo[u].step = "saving"
      /\ rows' = [rows EXCEPT ![c] = "reverted"] /\ Reply(u, "reverted")
    BY DEF SaveReverted, counters, users
<1>2. TypeOK /\ Good(c) /\ undo \in [Undos -> Request]
    BY Types DEF FilesInv
<1>3. u \in Requests(c) /\ rows[c] # NoRow /\ work[c].step \in {"done", "interrupted"}
    BY <1>1, Asked
<1>4. /\ undo' \in [Undos -> Request]
      /\ \A v \in Undos : v # u => undo'[v] = undo[v]
      /\ undo'[u].step = "reverted" /\ undo'[u].change = c
    BY <1>1, <1>2, ReplyFacts DEF RequestSteps
<1>5. /\ rows' \in [Changes -> {NoRow, "applied", "reverted", "conflicted"}]
      /\ \A d \in Changes : d # c => rows'[d] = rows[d]
      /\ rows'[c] = "reverted"
    BY <1>1, <1>2 DEF TypeOK
<1>6. /\ Requests(c)' = Requests(c) /\ (Twice(c)' <=> Twice(c))
      /\ \A v \in Requests(c) : v # u => undo'[v] = undo[v]
    BY <1>1, <1>4, SameRequests
<1>7. ~others[c] => file = work[c].before
    BY <1>1, <1>2, <1>3 DEF Good, Undoing, Taken
<1>8. Untouched(c)'
    BY <1>1, <1>3, <1>5, <1>7 DEF Untouched
<1>9. Undoing(c)'
  <2> SUFFICES ASSUME ~others[c] PROVE Undoing(c)'
      BY <1>1 DEF Undoing
  <2>1. \A v \in Requests(c) : v # u /\ undo[v].step \in Taken =>
           work[c].before = work[c].after
      BY <1>1, <1>2, <1>3 DEF Good, Undoing, Taken
  <2>2. undo'[u].step \notin Taken \union {"looked", "matched"}
      BY <1>4 DEF Taken
  <2> QED
      BY <1>1, <1>2, <1>6, <2>1, <2>2 DEF Good, Undoing
<1>10. Answered(c)'
    BY <1>1, <1>2, <1>3, <1>4, <1>5, <1>6 DEF Good, Answered
<1>11. rows'[c] # NoRow /\ file \in MayBeFile /\ others \in [Changes -> BOOLEAN]
    BY <1>2, <1>5, Types DEF NoRow
<1> QED
    BY <1>1, <1>4, <1>5, <1>8, <1>9, <1>10, <1>11, UndoMove

LEMMA RestoreAppliedInv ==
    ASSUME FilesInv, NEW u \in Undos, NEW c \in Changes, undo[u].change = c,
           RestoreApplied(u)
    PROVE  FilesInv'
<1> DEFINE left == IF work[c].op = "delete" THEN file # work[c].before
                                            ELSE undo[u].applied = NoFile
<1>1. /\ UNCHANGED <<file, scope, rows, snapshots, work, up, others, purged, mine, risked>>
      /\ Free /\ undo[u].step = "saving"
    BY DEF RestoreApplied, counters, users
<1>2. TypeOK /\ Good(c) /\ work \in [Changes -> Change]
    BY Types DEF FilesInv
<1>3. u \in Requests(c) /\ rows[c] # NoRow
    BY <1>1, Asked
<1>4. ~others[c] => file = work[c].before /\ undo[u].applied = work[c].after
    BY <1>1, <1>2, <1>3 DEF Good, Undoing, Taken
<1>5. ~others[c] => ~left
    BY <1>2, <1>3, <1>4 DEF Good, Described, Change, Operations
<1>6. CASE left
  <2>1. Reply(u, "error")
      BY <1>6 DEF RestoreApplied
  <2>2. others[c]
      BY <1>5, <1>6
  <2> QED
      BY <1>1, <2>1, <2>2, TakenStep DEF Taken
<1>7. CASE ~left
  <2>1. Reply(u, "restoring")
      BY <1>7 DEF RestoreApplied
  <2> QED
      BY <1>1, <2>1, TakenStep DEF Taken
<1> QED
    BY <1>6, <1>7

LEMMA RestoreInv ==
    ASSUME FilesInv, NEW u \in Undos, NEW c \in Changes, undo[u].change = c, Restore(u)
    PROVE  FilesInv'
<1> DEFINE fits == IF work[c].op = "create" THEN file = NoFile ELSE file # NoFile
           content == IF work[c].op = "delete" THEN NoFile ELSE undo[u].applied
<1>1. /\ UNCHANGED <<scope, rows, snapshots, work, up, purged, mine, risked>>
      /\ undo[u].step = "restoring" /\ Reply(u, "error")
    BY DEF Restore, counters, users
<1>2. /\ TypeOK /\ Good(c) /\ undo \in [Undos -> Request] /\ work \in [Changes -> Change]
    BY Types DEF FilesInv
<1>3. u \in Requests(c) /\ rows[c] # NoRow /\ work[c].step \in {"done", "interrupted"}
    BY <1>1, Asked
<1>4. /\ undo' \in [Undos -> Request]
      /\ \A v \in Undos : v # u => undo'[v] = undo[v]
      /\ undo'[u].step = "error" /\ undo'[u].change = c
    BY <1>1, <1>2, ReplyFacts DEF RequestSteps
<1>5. /\ Requests(c)' = Requests(c) /\ (Twice(c)' <=> Twice(c))
      /\ \A v \in Requests(c) : v # u => undo'[v] = undo[v]
    BY <1>1, <1>4, SameRequests
<1>6. ~others[c] => file = work[c].before /\ undo[u].applied = work[c].after
    BY <1>1, <1>2, <1>3 DEF Good, Undoing, Taken
<1>7. ~others[c] => fits /\ content = work[c].after
    BY <1>2, <1>6 DEF Good, Described, Change, Operations
<1>8. content \in MayBeFile
    BY <1>2 DEF Request, MayBeFile
<1>9. CASE fits /\ Write(content, c)
  <2>1. /\ file' = content
        /\ others' \in [Changes -> BOOLEAN]
        /\ \A d \in Changes : others'[d] <=> others[d] \/ c # d
      BY <1>8, <1>9, WriteFacts
  <2> HIDE DEF fits, content
  <2>2. Untouched(c)'
    <3> SUFFICES ASSUME ~others[c] PROVE Untouched(c)'
        BY <2>1 DEF Untouched
    <3>1. rows[c] = "reverted" => work[c].before = work[c].after
        BY <1>1, <1>2, <1>3 DEF Good, Undoing, Taken
    <3> QED
        BY <1>1, <1>3, <1>7, <2>1, <3>1 DEF Untouched
  <2>3. Undoing(c)'
    <3> SUFFICES ASSUME ~others[c] PROVE Undoing(c)'
        BY <2>1 DEF Undoing
    <3>1. ASSUME NEW v \in Requests(c), v # u
          PROVE  /\ undo'[v] = undo[v] /\ undo'[v].step \notin {"looked", "matched"}
                 /\ undo[v].step \in Taken => work[c].before = work[c].after
      <4>1. undo'[v] = undo[v]
          BY <1>5, <3>1
      <4>2. undo[v].step \notin InUndo
          BY <1>1, <3>1 DEF FilesInv, Alone, InUndo, Requests
      <4> QED
          BY <1>1, <1>2, <1>3, <3>1, <4>1, <4>2 DEF Good, Undoing, Taken, InUndo
    <3>2. undo'[u].step \notin Taken \union {"looked", "matched"}
        BY <1>4 DEF Taken
    <3>3. \A v \in Requests(c) : v # u /\ undo[v].step \in Taken =>
             /\ undo[v].applied = work[c].after
             /\ rows[c] = "reverted" => work[c].before = work[c].after
        BY <1>2 DEF Good, Undoing
    <3>4. file' = work[c].after
        BY <1>7, <2>1
    <3> QED
        BY <1>1, <1>5, <3>1, <3>2, <3>3, <3>4 DEF Undoing
  <2>4. Answered(c)'
      BY <1>1, <1>2, <1>4, <1>5, <2>1 DEF Good, Answered
  <2>5. file' \in MayBeFile
      BY <1>8, <2>1
  <2> QED
      BY <1>1, <1>2, <1>3, <1>4, <2>1, <2>2, <2>3, <2>4, <2>5, UndoMove, Types DEF InUndo
<1>10. CASE ~fits /\ UNCHANGED <<file, others>>
  <2>1. others[c] /\ UNCHANGED <<file, others>>
      BY <1>7, <1>10
  <2> HIDE DEF fits, content
  <2>2. Untouched(c)' /\ Undoing(c)'
      BY <2>1 DEF Undoing, Untouched
  <2>3. Answered(c)'
      BY <1>1, <1>2, <1>4, <1>5, <2>1 DEF Good, Answered
  <2> QED
      BY <1>1, <1>2, <1>3, <1>4, <2>1, <2>2, <2>3, UndoMove, Types DEF InUndo
<1> QED
    BY <1>9, <1>10 DEF Restore

LEMMA SaveConflictedInv ==
    ASSUME FilesInv, NEW u \in Undos, NEW c \in Changes, undo[u].change = c,
           SaveConflicted(u)
    PROVE  FilesInv'
<1>1. /\ UNCHANGED <<file, scope, snapshots, work, up, others, purged, mine, risked>>
      /\ Free /\ undo[u].step = "conflicting"
    BY DEF SaveConflicted, counters, users
<1>2. PICK s \in {"conflict", "error"} :
         /\ Reply(u, s)
         /\ rows' = [rows EXCEPT ![c] = "conflicted"] \/ rows' = rows
    BY DEF SaveConflicted
<1>3. TypeOK /\ undo \in [Undos -> Request] /\ Good(c)
    BY Types DEF FilesInv
<1>4. u \in Requests(c) /\ rows[c] # NoRow
    BY <1>1, Asked
<1>5. /\ undo' \in [Undos -> Request]
      /\ \A v \in Undos : v # u => undo'[v] = undo[v]
      /\ undo'[u].step = s /\ undo'[u].change = c
    BY <1>2, <1>3, ReplyFacts DEF RequestSteps
<1>6. /\ rows' \in [Changes -> {NoRow, "applied", "reverted", "conflicted"}]
      /\ \A d \in Changes : d # c => rows'[d] = rows[d]
      /\ rows'[c] = rows[c] \/ rows'[c] = "conflicted"
    BY <1>2, <1>3 DEF TypeOK
<1>7. /\ Requests(c)' = Requests(c) /\ (Twice(c)' <=> Twice(c))
      /\ \A v \in Requests(c) : v # u => undo'[v] = undo[v]
    BY <1>1, <1>5, SameRequests
<1>8. Between(c)' <=> Between(c)
    BY <1>1, <1>5, <1>7 DEF Between, Taken
<1>9. Untouched(c)'
    BY <1>1, <1>3, <1>6, <1>8 DEF Good, Untouched
<1>10. Undoing(c)'
    BY <1>1, <1>3, <1>5, <1>6, <1>7 DEF Good, Undoing, Taken
<1>11. others[c] \/ Twice(c)
    BY <1>1, <1>3, <1>4 DEF Good, Answered
<1>12. Answered(c)'
    BY <1>1, <1>3, <1>4, <1>5, <1>6, <1>7, <1>11 DEF Good, Answered
<1>13. rows'[c] # NoRow /\ file \in MayBeFile /\ others \in [Changes -> BOOLEAN]
    BY <1>3, <1>4, <1>6, Types DEF NoRow
<1> QED
    BY <1>1, <1>5, <1>6, <1>9, <1>10, <1>12, <1>13, UndoMove

LEMMA ClearInv ==
    ASSUME FilesInv, NEW S, Remove(S), Free \/ ~up,
           up' \in BOOLEAN, UNCHANGED <<file, scope, rows, work, undo, others, mine, risked>>
    PROVE  FilesInv'
<1>1. TypeOK /\ /\ \A d \in Changes : work[d].step \notin InChange
                /\ \A v \in Undos : undo[v].step \notin InUndo
    BY DEF FilesInv, Alone, Free
<1>2. /\ snapshots' \in [Changes -> MayBeFile]
      /\ purged' \subseteq Changes /\ purged \subseteq purged'
      /\ \A c \in Changes : \/ snapshots'[c] = snapshots[c]
                            \/ snapshots'[c] = NoFile /\ c \in purged'
    BY <1>1, RemoveFacts
<1>3. TypeOK' /\ Alone'
    BY <1>1, <1>2 DEF TypeOK, Alone
<1>4. ASSUME NEW c \in Changes PROVE Good(c)'
  <2>1. Good(c)
      BY DEF FilesInv
  <2>2. /\ Requests(c)' = Requests(c)
        /\ (Between(c)' <=> Between(c)) /\ (Twice(c)' <=> Twice(c))
      BY SameUndos
  <2>3. Described(c)' /\ Recorded(c)' /\ Undoing(c)' /\ Answered(c)'
      BY <2>1, <2>2 DEF Good, Described, Recorded, Undoing, Answered
  <2>4. Untouched(c)'
      BY <1>2, <2>1, <2>2 DEF Good, Untouched
  <2>5. \A u \in Requests(c) : undo[u].step # "matched"
      BY <1>1 DEF Requests, InUndo
  <2>6. Copies(c)'
      BY <1>2, <2>1, <2>2, <2>5 DEF Good, Copies
  <2> QED
      BY <2>3, <2>4, <2>6 DEF Good
<1> QED
    BY <1>3, <1>4 DEF FilesInv

LEMMA RestartInv ==
    ASSUME FilesInv, Clear \/ Restart
    PROVE  FilesInv'
<1>1. Free \/ ~up
    BY DEF Clear, Restart
<1>2. up' \in BOOLEAN /\ UNCHANGED <<file, scope, rows, work, undo, others, mine, risked>>
    BY DEF Clear, Restart, counters, users, FilesInv, TypeOK
<1>3. \E S : Remove(S)
    BY DEF Clear, Restart
<1> QED
    BY <1>1, <1>2, <1>3, ClearInv

LEMMA EditInv ==
    ASSUME ChangesAssumption, FilesInv, NEW content \in Texts \union {Large, NoFile},
           Edit(content)
    PROVE  FilesInv'
<1>1. UNCHANGED <<scope, rows, snapshots, work, undo, up, purged>> /\ Write(content, 0)
      /\ mine' = content /\ risked' \in BOOLEAN
    BY DEF Edit, Blind
<1>2. content \in MayBeFile
    BY DEF MayBeFile, Contents
<1>3. /\ file' = content
      /\ others' \in [Changes -> BOOLEAN]
      /\ \A d \in Changes : others'[d] <=> others[d] \/ 0 # d
    BY <1>1, <1>2, WriteFacts
<1>4. \A d \in Changes : others'[d]
    BY <1>3 DEF ChangesAssumption
<1>5. TypeOK' /\ Alone'
    BY <1>1, <1>2, <1>3 DEF FilesInv, TypeOK, Alone
<1>6. \A d \in Changes : Elsewhere(d)
    BY <1>1, <1>4 DEF Elsewhere
<1> QED
    BY <1>5, <1>6, ElsewhereIsGood DEF FilesInv

\* What a kill makes of a change and of a request.
LEMMA CrashFacts ==
    ASSUME TypeOK, Crash
    PROVE  /\ work' \in [Changes -> Change] /\ undo' \in [Undos -> Request]
           /\ \A c \in Changes :
                 /\ work'[c].op = work[c].op
                 /\ work'[c].before = work[c].before /\ work'[c].after = work[c].after
                 /\ \/ work[c].step \in Final \union {"idle"} /\ work'[c].step = work[c].step
                    \/ /\ work[c].step \notin Final \union {"idle"}
                       /\ work'[c].step = "interrupted"
           /\ \A u \in Undos :
                 /\ undo'[u].change = undo[u].change
                 /\ \/ undo[u].step \in {"read", "looked", "conflicting"}
                       /\ undo'[u].step = "error"
                    \/ undo[u].step \in Taken \union {"matched"} /\ undo'[u].step = "cut"
                    \/ /\ undo[u].step \notin {"read", "looked", "conflicting"} \union InUndo
                       /\ undo[u].step # "saving"
                       /\ undo'[u].step = undo[u].step
<1>1. ASSUME NEW c \in Changes
      PROVE  /\ work'[c] \in Change
             /\ work'[c].op = work[c].op
             /\ work'[c].before = work[c].before /\ work'[c].after = work[c].after
             /\ \/ work[c].step \in Final \union {"idle"} /\ work'[c].step = work[c].step
                \/ /\ work[c].step \notin Final \union {"idle"}
                   /\ work'[c].step = "interrupted"
  <2> DEFINE w == [work[c] EXCEPT !.step = "interrupted"]
  <2>1. work[c] \in Change
      BY Types
  <2>2. /\ w \in Change /\ w.step = "interrupted" /\ w.op = work[c].op
        /\ w.before = work[c].before /\ w.after = work[c].after
      BY <2>1 DEF Change, ChangeSteps, Final
  <2>3. work'[c] = IF work[c].step \in Final \union {"idle"} THEN work[c] ELSE w
      BY DEF Crash
  <2> HIDE DEF w
  <2> QED
      BY <2>1, <2>2, <2>3
<1>2. ASSUME NEW u \in Undos
      PROVE  /\ undo'[u] \in Request
             /\ undo'[u].change = undo[u].change
             /\ \/ undo[u].step \in {"read", "looked", "conflicting"}
                   /\ undo'[u].step = "error"
                \/ undo[u].step \in Taken \union {"matched"} /\ undo'[u].step = "cut"
                \/ /\ undo[u].step \notin {"read", "looked", "conflicting"} \union InUndo
                   /\ undo[u].step # "saving"
                   /\ undo'[u].step = undo[u].step
  <2> DEFINE e == [undo[u] EXCEPT !.step = "error"]
             k == [undo[u] EXCEPT !.step = "cut"]
  <2>1. undo[u] \in Request
      BY Types
  <2>2. /\ e \in Request /\ e.step = "error" /\ e.change = undo[u].change
        /\ k \in Request /\ k.step = "cut" /\ k.change = undo[u].change
      BY <2>1 DEF Request, RequestSteps
  <2>3. undo'[u] = CASE undo[u].step \in {"read", "looked", "conflicting"} -> e
                     [] undo[u].step \in {"matched", "taken", "saving", "restoring"} -> k
                     [] OTHER -> undo[u]
      BY DEF Crash
  <2> HIDE DEF e, k
  <2>4. CASE undo[u].step \in {"read", "looked", "conflicting"}
      BY <2>2, <2>3, <2>4
  <2>5. CASE undo[u].step \in {"matched", "taken", "saving", "restoring"}
      BY <2>2, <2>3, <2>5 DEF Taken
  <2>6. CASE undo[u].step \notin {"read", "looked", "conflicting", "matched", "taken",
                                  "saving", "restoring"}
      BY <2>1, <2>3, <2>6 DEF InUndo
  <2> QED
      BY <2>4, <2>5, <2>6
<1>3. work' \in [Changes -> Change]
    BY <1>1 DEF Crash
<1>4. undo' \in [Undos -> Request]
    BY <1>2 DEF Crash
<1> QED
    BY <1>1, <1>2, <1>3, <1>4

LEMMA CrashInv ==
    ASSUME FilesInv, Crash
    PROVE  FilesInv'
<1>1. UNCHANGED <<scope, rows, snapshots, purged, mine, risked>> /\ up' = FALSE
    BY DEF Crash, users
<1>2. TypeOK
    BY DEF FilesInv
<1>3. /\ file' \in MayBeFile /\ others' \in [Changes -> BOOLEAN]
      /\ \A d \in Changes : others[d] => others'[d]
      /\ \A d \in Changes : ~others'[d] => file' = file \/ Creating(d)
  <2>1. CASE UNCHANGED <<file, others>>
      BY <1>2, <2>1 DEF TypeOK
  <2>2. CASE \E c \in Changes : Creating(c) /\ file = NoFile /\ Write(Torn, c)
    <3>1. PICK c \in Changes : Creating(c) /\ Write(Torn, c)
        BY <2>2
    <3>2. Torn \in MayBeFile
        BY DEF MayBeFile, Contents
    <3>3. /\ file' = Torn
          /\ others' \in [Changes -> BOOLEAN]
          /\ \A d \in Changes : others'[d] <=> others[d] \/ c # d
        BY <3>1, <3>2, WriteFacts
    <3> QED
        BY <3>1, <3>2, <3>3
  <2> QED
      BY <2>1, <2>2 DEF Crash
<1>4. TypeOK'
    BY <1>1, <1>2, <1>3, CrashFacts, Types, TypesAfter
<1>5. Alone'
  <2>1. \A c \in Changes : work'[c].step \notin InChange
      BY <1>2, CrashFacts DEF Final, InChange
  <2>2. \A u \in Undos : undo'[u].step \notin InUndo
    <3> SUFFICES ASSUME NEW u \in Undos PROVE undo'[u].step \notin InUndo
        OBVIOUS
    <3>1. \/ undo'[u].step \in {"error", "cut"}
          \/ undo[u].step \notin InUndo /\ undo'[u].step = undo[u].step
        BY <1>2, CrashFacts
    <3> QED
        BY <3>1 DEF InUndo
  <2> QED
      BY <2>1, <2>2 DEF Alone
<1>6. ASSUME NEW c \in Changes PROVE Good(c)'
  <2>1. Good(c)
      BY DEF FilesInv
  <2>2. /\ work'[c].op = work[c].op
        /\ work'[c].before = work[c].before /\ work'[c].after = work[c].after
        /\ \/ work[c].step \in Final \union {"idle"} /\ work'[c].step = work[c].step
           \/ /\ work[c].step \notin Final \union {"idle"}
              /\ work'[c].step = "interrupted"
      BY <1>2, CrashFacts
  <2>3. \A u \in Undos :
           /\ undo'[u].change = undo[u].change
           /\ \/ undo[u].step \in {"read", "looked", "conflicting"}
                 /\ undo'[u].step = "error"
              \/ undo[u].step \in Taken \union {"matched"} /\ undo'[u].step = "cut"
              \/ /\ undo[u].step \notin {"read", "looked", "conflicting"} \union InUndo
                 /\ undo[u].step # "saving"
                 /\ undo'[u].step = undo[u].step
      BY <1>2, CrashFacts
  <2>4. Requests(c)' = Requests(c) /\ (Twice(c)' <=> Twice(c))
    <3>1. \A u \in Undos : undo'[u].step # "idle" <=> undo[u].step # "idle"
        BY <2>3 DEF Taken
    <3>2. Requests(c)' = Requests(c)
        BY <2>3, <3>1 DEF Requests
    <3> QED
        BY <3>2 DEF Twice
  <2>5. Between(c) => Between(c)'
      BY <2>3, <2>4 DEF Between, Requests, Taken, InUndo
  <2>6. \A u \in Requests(c)' :
           undo'[u].step \notin Taken \union {"looked", "matched", "conflicting"}
    <3> SUFFICES ASSUME NEW u \in Undos
                 PROVE  undo'[u].step \notin Taken \union {"looked", "matched", "conflicting"}
        BY DEF Requests
    <3>1. \/ undo'[u].step \in {"error", "cut"}
          \/ /\ undo[u].step \notin {"read", "looked", "conflicting"} \union InUndo
             /\ undo[u].step # "saving"
             /\ undo'[u].step = undo[u].step
        BY <2>3
    <3> QED
        BY <3>1 DEF Taken, InUndo
  <2>7. Described(c)'
      BY <1>1, <2>1, <2>2 DEF Good, Described, Final, InChange
  <2>8. Recorded(c)'
      BY <1>1, <2>1, <2>2, <2>4 DEF Good, Recorded, Final
  <2>9. Copies(c)'
      BY <1>1, <2>1, <2>2, <2>6 DEF Good, Copies, Final
  <2>10. Undoing(c)'
      BY <2>6 DEF Undoing
  <2>11. Answered(c)'
    <3>1. rows[c] = "reverted" => \E u \in Requests(c)' : undo'[u].step = "reverted"
      <4> SUFFICES ASSUME rows[c] = "reverted"
                   PROVE  \E u \in Requests(c)' : undo'[u].step = "reverted"
          OBVIOUS
      <4>1. PICK u \in Requests(c) : undo[u].step = "reverted"
          BY <2>1 DEF Good, Answered
      <4>2. undo'[u].step = "reverted"
          BY <2>3, <4>1 DEF Requests, Taken
      <4> QED
          BY <2>4, <4>2
    <3> QED
        BY <1>1, <1>3, <2>1, <2>4, <2>6, <3>1 DEF Good, Answered
  <2>12. Untouched(c)'
    <3> SUFFICES ASSUME ~others'[c] PROVE Untouched(c)'
        BY DEF Untouched
    <3>1. ~others[c] /\ (file' = file \/ Creating(c))
        BY <1>3
    <3>2. work'[c].step \notin {"prepared", "checked", "written", "saving", "taking"}
        BY <2>2 DEF Final
    <3>3. work'[c].step = "failed" => work[c].step = "failed"
        BY <2>2
    <3>4. CASE file' = file
        BY <1>1, <2>1, <2>2, <2>5, <3>1, <3>2, <3>3, <3>4 DEF Good, Untouched
    <3>5. CASE Creating(c)
      <4>1. CASE work[c].step \in {"prepared", "taking"}
        <5>1. rows[c] = NoRow /\ work'[c].step = "interrupted"
            BY <2>1, <2>2, <4>1 DEF Good, Recorded, Final
        <5> QED
            BY <1>1, <5>1 DEF Untouched, NoRow
      <4>2. CASE \E u \in Undos :
                    /\ undo[u].change = c
                    /\ <<work[c].op, undo[u].step>> \in {<<"create", "restoring">>,
                                                          <<"delete", "matched">>}
        <5>1. PICK u \in Undos :
                 /\ undo[u].change = c
                 /\ \/ work[c].op = "create" /\ undo[u].step = "restoring"
                    \/ work[c].op = "delete" /\ undo[u].step = "matched"
            BY <4>2
        <5>2. u \in Requests(c) /\ u \in Requests(c)' /\ undo'[u].step = "cut"
            BY <2>3, <2>4, <5>1 DEF Requests, Taken, InUndo
        <5>3. Between(c)'
            BY <5>2 DEF Between
        <5>4. rows[c] # NoRow /\ work[c].step \in {"done", "interrupted"}
            BY <2>1, <5>2 DEF Good, Recorded
        <5>5. rows[c] # "reverted"
          <6>1. CASE work[c].op = "create" /\ undo[u].step = "restoring"
              BY <2>1, <3>1, <5>2, <5>4, <6>1 DEF Good, Described, Undoing, Taken
          <6>2. CASE work[c].op = "delete" /\ undo[u].step = "matched"
              BY <2>1, <3>1, <5>2, <6>2 DEF Good, Described, Undoing, Untouched
          <6> QED
              BY <5>1, <6>1, <6>2
        <5> QED
            BY <1>1, <2>2, <3>2, <5>3, <5>4, <5>5 DEF Untouched, Final
      <4> QED
          BY <3>5, <4>1, <4>2 DEF Creating
    <3> QED
        BY <3>1, <3>4, <3>5
  <2> QED
      BY <2>7, <2>8, <2>9, <2>10, <2>11, <2>12 DEF Good
<1> QED
    BY <1>4, <1>5, <1>6 DEF FilesInv

-------------------------------------------------------------------------------

LEMMA NextInv ==
    ASSUME ChangesAssumption, FilesInv, [Next]_vars
    PROVE  FilesInv'
<1>1. \A u \in Undos : undo[u].change \in Changes
    BY DEF FilesInv, TypeOK
<1>2. ASSUME NEW kind \in {"none", "folder", "file"}, Share(kind) PROVE FilesInv'
    BY <1>2, ShareInv
<1>3. ASSUME NEW c \in Changes,
             \/ StartRun(c) \/ Prepare(c) \/ CheckDeleted(c) \/ Apply(c) \/ Verify(c)
             \/ SaveChange(c) \/ Compensate(c) \/ TakeBack(c) \/ CancelSave(c)
      PROVE  FilesInv'
    BY <1>3, StartRunInv, PrepareInv, CheckDeletedInv, ApplyInv, VerifyInv, SaveChangeInv,
       CompensateInv, TakeBackInv
<1>4. ASSUME NEW u \in Undos,
             \/ \E c \in Changes : ReadRow(u, c)
             \/ Look(u) \/ Compare(u) \/ Revert(u) \/ VerifyReverted(u)
             \/ SaveReverted(u) \/ RestoreApplied(u) \/ Restore(u) \/ SaveConflicted(u)
      PROVE  FilesInv'
    BY <1>1, <1>4, ReadRowInv, LookInv, CompareInv, RevertInv, VerifyRevertedInv,
       SaveRevertedInv, RestoreAppliedInv, RestoreInv, SaveConflictedInv
<1>5. CASE Clear \/ Crash \/ Restart
    BY <1>5, RestartInv, CrashInv
<1>6. ASSUME NEW content \in Texts \union {Large, NoFile}, Edit(content) PROVE FilesInv'
    BY <1>6, EditInv
<1>7. CASE UNCHANGED vars
  <2>1. UNCHANGED <<file, scope, rows, snapshots, work, undo, up, others, purged, mine, risked>>
      BY <1>7 DEF vars, users
  <2>2. TypeOK' /\ Alone'
      BY <2>1 DEF FilesInv, TypeOK, Alone
  <2>3. \A d \in Changes : Elsewhere(d)
      BY <2>1 DEF Elsewhere
  <2> QED
      BY <2>2, <2>3, ElsewhereIsGood DEF FilesInv
<1> QED
    BY <1>2, <1>3, <1>4, <1>5, <1>6, <1>7 DEF Next

LEMMA InvIsTold == ASSUME ChangesAssumption, FilesInv PROVE NoSilentChange /\ RowsAreTrue
<1>1. TypeOK /\ \A c \in Changes : Good(c)
    BY DEF FilesInv
<1>2. NoSilentChange
  <2> SUFFICES ASSUME NEW c \in Changes, ~others[c], rows[c] = NoRow
               PROVE  \/ work[c].step \in {"idle", "started", "refused", "saving",
                                           "interrupted"} \union InChange
                      \/ file = work[c].before /\ snapshots[c] = NoFile
      BY DEF NoSilentChange
  <2>1. work[c].step \in ChangeSteps /\ work[c].step # "done"
      BY <1>1, Types DEF Good, Recorded, Change
  <2>2. work[c].step = "failed" => file = work[c].before /\ snapshots[c] = NoFile
      BY <1>1 DEF Good, Untouched
  <2> QED
      BY <2>1, <2>2 DEF ChangeSteps, Final
<1>3. CanBeUndone
  <2> SUFFICES ASSUME NEW c \in Changes, rows[c] = "applied", ~others[c], c \notin purged,
                      \A u \in Requests(c) :
                         undo[u].step \notin {"taken", "saving", "restoring", "cut"}
               PROVE  file = work[c].after /\ snapshots[c] = work[c].before
      BY DEF CanBeUndone
  <2>1. ~Between(c)
      BY DEF Between, Taken
  <2>2. work[c].step # "failed"
      BY <1>1 DEF Good, Recorded, NoRow
  <2> QED
      BY <1>1, <2>1, <2>2 DEF Good, Copies, Untouched
<1>4. RevertedIsRestored
    BY <1>1 DEF Good, Untouched, RevertedIsRestored
<1>5. ConflictIsReal
    BY <1>1, TwiceIsMoreThanOne DEF Good, Answered, ConflictIsReal
<1> QED
    BY <1>1, <1>2, <1>3, <1>4, <1>5 DEF RowsAreTrue

LEMMA InvHolds == Spec => []FilesInv
<1>1. FilesInv /\ [Next]_vars => FilesInv'
    BY ChangesAssumption, NextInv
<1> QED
    BY ChangesAssumption, InitInv, <1>1, PTL DEF Spec

(* As long as nobody else wrote the file, a change that no row records was *)
(* taken back with its snapshot, or its save is awaited or was cut off     *)
(* (the compensation in create_text, replace_text and delete_file).        *)
THEOREM SilentChange == Spec => []NoSilentChange
<1>1. FilesInv => NoSilentChange
    BY ChangesAssumption, InvIsTold
<1> QED
    BY <1>1, InvHolds, PTL

(* An applied change can be undone, a reverted one is, and a conflict is   *)
(* one (revert, _conflict), however requests to undo it overlap.           *)
THEOREM Rows == Spec => []RowsAreTrue
<1>1. FilesInv => RowsAreTrue
    BY ChangesAssumption, InvIsTold
<1> QED
    BY <1>1, InvHolds, PTL

================================================================================
