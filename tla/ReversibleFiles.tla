---------------------------- MODULE ReversibleFiles ----------------------------
(***************************************************************************)
(* The file changes an agent makes and a user can undo                     *)
(* (storage/reversible_files.py), the rows that record them, the snapshots *)
(* of what was there before, and the file scope of the conversation.       *)
(*                                                                         *)
(* One file is followed.  Every run makes at most one change of it, so a   *)
(* change stands for its run as well.  The service is a coroutine: what it *)
(* does between two awaits no other coroutine interrupts, but the user's   *)
(* own programs write the file at any time, also between a look at it and  *)
(* the write that follows, and the sidecar may be killed.  The question    *)
(* whether there is a file and the reading of it are one look.             *)
(* Hashes are equal exactly when the contents are.                         *)
(***************************************************************************)
EXTENDS Naturals, FiniteSets

CONSTANTS
    Changes,       \* the changes, 1..n in the order of their creation
    Undos,         \* the requests to undo one
    Texts,         \* contents within every limit
    MaxSnapshots,  \* max_total_bytes, in snapshots
    MaxEdits,      \* bound: writes of the file by other programs
    MaxCrashes     \* bound: times the sidecar is killed

ASSUME ChangesAssumption ==
    /\ Changes # {} /\ 0 \notin Changes
    /\ IsFiniteSet(Undos)
    /\ Texts \intersect {"no file", "large", "torn"} = {}

NoFile == "no file"
Large  == "large"   \* more than max_content_bytes and max_snapshot_bytes
Torn   == "torn"    \* what a kill in the middle of _exclusive_create leaves

Contents  == Texts \union {Large, Torn}
MayBeFile == Contents \union {NoFile}
NoRow     == "no row"

VARIABLES
    file,       \* what is at the path
    scope,      \* the conversation's saved scope: "none", "folder", "file"
    rows,       \* the status of each file_changes row
    snapshots,  \* the snapshot of each change
    work,       \* each run with its change
    undo,       \* each undo request
    up,         \* the sidecar is running
    edits, crashes,  \* counters, for the bounds
    others,     \* history: somebody else wrote the file since the change read it
    purged,     \* history: changes whose snapshot was pruned or cleared
    mine,       \* history: what the user's programs wrote last
    risked      \* history: it was written while the service was about to write

users == <<edits, mine, risked>>
vars  == <<file, scope, rows, snapshots, work, undo, up, crashes, others,
           purged, users>>

Operations == {"create", "replace", "delete"}
Final      == {"done", "refused", "failed", "interrupted"}
InChange   == {"prepared", "checked", "written", "taking"}
InUndo     == {"looked", "matched", "taken", "restoring"}

TypeOK ==
    /\ file \in MayBeFile
    /\ scope \in {"none", "folder", "file"}
    /\ rows \in [Changes -> {NoRow, "applied", "reverted", "conflicted"}]
    /\ snapshots \in [Changes -> MayBeFile]
    /\ work \in [Changes -> [step : {"idle", "started", "saving"}
                                        \union InChange \union Final,
                             op : Operations,
                             before : MayBeFile, after : MayBeFile]]
    /\ undo \in [Undos -> [step : {"idle", "read", "saving", "conflicting",
                                   "reverted", "conflict", "refused", "error", "cut"}
                                      \union InUndo,
                           change : Changes, applied : MayBeFile]]
    /\ up \in BOOLEAN
    /\ others \in [Changes -> BOOLEAN]
    /\ purged \subseteq Changes
    /\ mine \in MayBeFile /\ risked \in BOOLEAN

Init ==
    /\ file \in Texts \union {NoFile, Large}
    /\ scope = "none"
    /\ rows = [c \in Changes |-> NoRow]
    /\ snapshots = [c \in Changes |-> NoFile]
    /\ work = [c \in Changes |-> [step |-> "idle", op |-> "create",
                                  before |-> NoFile, after |-> NoFile]]
    /\ undo = [u \in Undos |-> [step |-> "idle",
                                change |-> CHOOSE c \in Changes : TRUE,
                                applied |-> NoFile]]
    /\ up = TRUE
    /\ edits = 0 /\ crashes = 0
    /\ others = [c \in Changes |-> FALSE]
    /\ purged = {}
    /\ mine = file /\ risked = FALSE

\* The event loop is not in the middle of a change or of an undo.
Free == /\ up
        /\ \A c \in Changes : work[c].step \notin InChange
        /\ \A u \in Undos : undo[u].step \notin InUndo

To(c, step) == work' = [work EXCEPT ![c].step = step]

Reply(u, step) == undo' = [undo EXCEPT ![u].step = step]

\* The file becomes content, written by change c, or by no change at all (0).
Write(content, c) ==
    /\ file' = content
    /\ others' = [d \in Changes |-> others[d] \/ c # d]

Drop(c) == snapshots' = [snapshots EXCEPT ![c] = NoFile]

counters == <<up, crashes, users>>

-------------------------------------------------------------------------------
(* The scope of the conversation, and the run's resolver. *)

\* WorkspaceResolver.__post_init__: what is shared must exist.
Resolves(kind) == kind = "file" => file # NoFile

\* WorkspaceResolver.resolve: the file is inside of what is shared.
InScope(kind) == kind # "none"

\* ConversationFileScopeRepository.save: an empty scope is no row.
SaveScope(kind) == scope' = kind

(* PUT file-access *)
Share(kind) ==
    /\ Free
    /\ Resolves(kind)
    /\ scope # kind
    /\ SaveScope(kind)
    /\ UNCHANGED <<file, rows, snapshots, work, undo, counters, others, purged>>

(* The tools of a run are built from the scope as it is then; a shared     *)
(* file that is gone fails the run.  A run without the file in its scope   *)
(* makes no change of it.                                                  *)
StartRun(c) ==
    /\ Free
    /\ work[c].step = "idle"
    /\ \A d \in 1..(c - 1) : work[d].step # "idle"
    /\ To(c, IF Resolves(scope) /\ InScope(scope) THEN "started" ELSE "refused")
    /\ UNCHANGED <<file, scope, rows, snapshots, undo, counters, others, purged>>

-------------------------------------------------------------------------------
(* create_text, replace_text, delete_file *)

\* Snapshot files there are.
Stored == {c \in Changes : snapshots[c] # NoFile}

\* FileChangeSnapshotStore.save: there is room.
Room == Cardinality(Stored) < MaxSnapshots

\* _read_utf8_file, _read_file_for_deletion and the checks of create_text.
Readable(op) ==
    CASE op = "create"  -> file = NoFile
      [] op = "replace" -> file \in Texts \union {Torn}
      [] op = "delete"  -> file # NoFile

(* FileChange.__post_init__: a change of what was there needs a snapshot,  *)
(* and delete_file takes none of a large file.                             *)
Describable(op) == op = "delete" => file # Large

(* The content is read, the snapshot saved and the change described.       *)
Prepare(c) ==
    /\ Free
    /\ work[c].step = "started"
    /\ \E op \in Operations : \E after \in IF op = "delete" THEN {NoFile} ELSE Texts :
          IF Readable(op) /\ Describable(op) /\ (op = "create" \/ Room)
          THEN /\ work' = [work EXCEPT ![c] = [step |-> "prepared", op |-> op,
                                               before |-> file, after |-> after]]
               /\ snapshots' = [snapshots EXCEPT ![c] = file]
          ELSE To(c, "refused") /\ UNCHANGED snapshots
    /\ others' = [others EXCEPT ![c] = FALSE]
    /\ UNCHANGED <<file, scope, rows, undo, counters, purged>>

(* A deletion looks at the file again.  A file that is gone leaves the     *)
(* snapshot behind.                                                        *)
CheckDeleted(c) ==
    LET w == work[c]
    IN  /\ up /\ w.step = "prepared" /\ w.op = "delete"
        /\ \/ /\ file = w.before
              /\ To(c, "checked")
              /\ UNCHANGED snapshots
           \/ /\ file # w.before
              /\ To(c, "failed")
              /\ IF file = NoFile THEN UNCHANGED snapshots ELSE Drop(c)
        /\ UNCHANGED <<file, scope, rows, undo, counters, others, purged>>

(* The effect: an exclusive creation; a replacement or a deletion of       *)
(* whatever is there.                                                      *)
Apply(c) ==
    LET w == work[c]
        fits == IF w.op = "create" THEN file = NoFile ELSE file # NoFile
    IN  /\ up
        /\ w.step = IF w.op = "delete" THEN "checked" ELSE "prepared"
        /\ IF fits THEN Write(w.after, c) /\ To(c, "written")
                   ELSE To(c, "failed") /\ UNCHANGED <<file, others>>
        /\ UNCHANGED <<scope, rows, snapshots, undo, counters, purged>>

(* The verification.  What is not as it was written is taken back, unless  *)
(* it was deleted, or is there after a deletion.                           *)
Verify(c) ==
    LET w == work[c]
    IN  /\ up /\ w.step = "written"
        /\ \/ /\ file = w.after
              /\ To(c, "saving")
              /\ UNCHANGED snapshots
           \/ /\ file # w.after
              /\ w.op = "delete"
              /\ To(c, "failed")
              /\ Drop(c)
           \/ /\ file # w.after
              /\ w.op # "delete"
              /\ To(c, IF file = NoFile THEN "failed" ELSE "taking")
              /\ UNCHANGED snapshots
        /\ UNCHANGED <<file, scope, rows, undo, counters, others, purged>>

\* repository.save of the applied change
SaveChange(c) ==
    /\ Free
    /\ work[c].step = "saving"
    /\ rows' = [rows EXCEPT ![c] = "applied"]
    /\ To(c, "done")
    /\ UNCHANGED <<file, scope, snapshots, undo, counters, others, purged>>

(* The save fails.  A created file is only removed if it is as it was      *)
(* created; a replaced or a deleted one is not looked at.                  *)
Compensate(c) ==
    LET w == work[c]
    IN  /\ Free /\ w.step = "saving"
        /\ To(c, IF w.op = "create" /\ file # w.after THEN "failed" ELSE "taking")
        /\ UNCHANGED <<file, scope, rows, snapshots, undo, counters, others, purged>>

\* Whether a write that takes a change of this kind back can be done.
CanTakeBack(op) == IF op = "delete" THEN file = NoFile ELSE file # NoFile

\* Mutant of TakeBack: the snapshot stays.
TakeBackFileOnly(c) ==
    /\ up /\ work[c].step = "taking"
    /\ To(c, "failed")
    /\ IF CanTakeBack(work[c].op) THEN Write(work[c].before, c)
                                  ELSE UNCHANGED <<file, others>>
    /\ UNCHANGED <<scope, rows, snapshots, undo, counters, purged>>

(* The change is taken back: what was created is removed, what was         *)
(* replaced is replaced again, what was deleted is created unless          *)
(* something is there.  The snapshot is dropped when that worked.          *)
TakeBack(c) ==
    /\ up /\ work[c].step = "taking"
    /\ To(c, "failed")
    /\ IF CanTakeBack(work[c].op) THEN Write(work[c].before, c) /\ Drop(c)
                                  ELSE UNCHANGED <<file, others, snapshots>>
    /\ UNCHANGED <<scope, rows, undo, counters, purged>>

(* The run is cancelled, or the tool's ten seconds are over, at the save:  *)
(* nothing is compensated, and the row may have been stored.               *)
CancelSave(c) ==
    /\ Free
    /\ work[c].step = "saving"
    /\ \E stored \in BOOLEAN :
          rows' = IF stored THEN [rows EXCEPT ![c] = "applied"] ELSE rows
    /\ To(c, "interrupted")
    /\ UNCHANGED <<file, scope, snapshots, undo, counters, others, purged>>

-------------------------------------------------------------------------------
(* Undo: the handler, revert_file_change and revert *)

\* repository.get; a change that is not applied is refused.
ReadRow(u, c) ==
    /\ Free
    /\ undo[u].step = "idle"
    /\ rows[c] # NoRow
    /\ undo' = [undo EXCEPT ![u] =
                   [step |-> IF rows[c] = "applied" THEN "read" ELSE "refused",
                    change |-> c, applied |-> NoFile]]
    /\ UNCHANGED <<file, scope, rows, snapshots, work, counters, others, purged>>

(* What is there is read first, to be put back if the undo is not saved.   *)
Look(u) ==
    /\ Free /\ undo[u].step = "read"
    /\ undo' = [undo EXCEPT ![u].step = "looked", ![u].applied = file]
    /\ UNCHANGED <<file, scope, rows, snapshots, work, counters, others, purged>>

MatchesAny(c) == TRUE

\* The file is as the change left it.
Matches(c) == file = work[c].after

(* _revert_create, _revert_replace and _revert_delete compare first.  A    *)
(* snapshot that is gone is an error of the server.                        *)
Compare(u) ==
    LET c == undo[u].change
    IN  /\ up /\ undo[u].step = "looked"
        /\ Reply(u, IF ~Matches(c) THEN "conflicting"
                    ELSE IF work[c].op # "create" /\ snapshots[c] = NoFile THEN "error"
                    ELSE "matched")
        /\ UNCHANGED <<file, scope, rows, snapshots, work, counters, others, purged>>

(* Then they write: a removal, a replacement, an exclusive creation.       *)
Revert(u) ==
    LET c == undo[u].change
    IN  /\ up /\ undo[u].step = "matched"
        /\ IF CanTakeBack(work[c].op)
           THEN Write(snapshots[c], c) /\ Reply(u, "taken")
           ELSE Reply(u, "error") /\ UNCHANGED <<file, others>>
        /\ UNCHANGED <<scope, rows, snapshots, work, counters, purged>>

(* And look at it: nothing is done about what is not as it was written.    *)
VerifyReverted(u) ==
    /\ up /\ undo[u].step = "taken"
    /\ Reply(u, IF file = work[undo[u].change].before THEN "saving" ELSE "error")
    /\ UNCHANGED <<file, scope, rows, snapshots, work, counters, others, purged>>

SaveReverted(u) ==
    /\ Free
    /\ undo[u].step = "saving"
    /\ rows' = [rows EXCEPT ![undo[u].change] = "reverted"]
    /\ Reply(u, "reverted")
    /\ UNCHANGED <<file, scope, snapshots, work, counters, others, purged>>

\* Mutant of RestoreApplied: an undo that could not be saved is left as it is.
RestoreNothing(u) ==
    /\ Free
    /\ undo[u].step = "saving"
    /\ Reply(u, "error")
    /\ UNCHANGED <<file, scope, rows, snapshots, work, counters, others, purged>>

(* The save fails: _restore_applied_state.  A file that the undo brought   *)
(* back is only removed if it is as it was.                                *)
RestoreApplied(u) ==
    LET c == undo[u].change
        left == IF work[c].op = "delete" THEN file # work[c].before
                                         ELSE undo[u].applied = NoFile
    IN  /\ Free /\ undo[u].step = "saving"
        /\ Reply(u, IF left THEN "error" ELSE "restoring")
        /\ UNCHANGED <<file, scope, rows, snapshots, work, counters, others, purged>>

(* What was read before the undo is put back: exclusively, or in the place *)
(* of whatever is there.                                                   *)
Restore(u) ==
    LET c == undo[u].change
        fits == IF work[c].op = "create" THEN file = NoFile ELSE file # NoFile
    IN  /\ up /\ undo[u].step = "restoring"
        /\ Reply(u, "error")
        /\ IF fits THEN Write(IF work[c].op = "delete" THEN NoFile ELSE undo[u].applied, c)
                   ELSE UNCHANGED <<file, others>>
        /\ UNCHANGED <<scope, rows, snapshots, work, counters, purged>>

\* _conflict; when its save fails nothing is recorded.
SaveConflicted(u) ==
    /\ Free
    /\ undo[u].step = "conflicting"
    /\ \/ /\ rows' = [rows EXCEPT ![undo[u].change] = "conflicted"]
          /\ Reply(u, "conflict")
       \/ Reply(u, "error") /\ UNCHANGED rows
    /\ UNCHANGED <<file, scope, snapshots, work, counters, others, purged>>

-------------------------------------------------------------------------------
(* The snapshots, the user's programs, and the process *)

Remove(S) ==
    /\ snapshots' = [c \in Changes |-> IF c \in S THEN NoFile ELSE snapshots[c]]
    /\ purged' = purged \union (S \intersect Stored)

\* FileChangeSnapshotStore.prune: what is older than the retention.
Expired(n) == 1..n

\* POST settings/storage/clear
Clear ==
    /\ Free
    /\ Stored # {}
    /\ Remove(Changes)
    /\ UNCHANGED <<file, scope, rows, work, undo, counters, others>>

\* The service is about to write, or will write if its save fails, without looking
\* at the file again: a replacement until it is saved, a deletion that was checked,
\* a creation whose verification fails, and the same of an undo.
Blind ==
    \/ \E c \in Changes :
          work[c].step \in CASE work[c].op = "create"  -> {"written", "taking"}
                             [] work[c].op = "replace" -> {"prepared", "written", "saving", "taking"}
                             [] work[c].op = "delete"  -> {"checked"}
    \/ \E u \in Undos :
          undo[u].step \in CASE work[undo[u].change].op = "create"  -> {"matched"}
                             [] work[undo[u].change].op = "replace" -> {"matched", "saving", "restoring"}
                             [] work[undo[u].change].op = "delete"  -> {"restoring"}

(* Other programs write the file.                                          *)
Edit(content) ==
    /\ edits < MaxEdits
    /\ content # file
    /\ Write(content, 0)
    /\ edits' = edits + 1
    /\ mine' = content
    /\ risked' = Blind
    /\ UNCHANGED <<scope, rows, snapshots, work, undo, up, crashes, purged>>

\* An exclusive creation is under way, for c or for an undo of it.
Creating(c) ==
    \/ <<work[c].op, work[c].step>> \in {<<"create", "prepared">>, <<"delete", "taking">>}
    \/ \E u \in Undos :
          /\ undo[u].change = c
          /\ <<work[c].op, undo[u].step>> \in {<<"create", "restoring">>, <<"delete", "matched">>}

(* A kill in the middle of an exclusive creation may leave a part of it.   *)
Crash ==
    /\ up /\ crashes < MaxCrashes
    /\ up' = FALSE /\ crashes' = crashes + 1
    /\ \/ UNCHANGED <<file, others>>
       \/ \E c \in Changes : Creating(c) /\ file = NoFile /\ Write(Torn, c)
    /\ work' = [c \in Changes |->
                   IF work[c].step \in Final \union {"idle"} THEN work[c]
                   ELSE [work[c] EXCEPT !.step = "interrupted"]]
    /\ undo' = [u \in Undos |->
                   CASE undo[u].step \in {"read", "looked", "conflicting"} ->
                            [undo[u] EXCEPT !.step = "error"]
                     [] undo[u].step \in {"matched", "taken", "saving", "restoring"} ->
                            [undo[u] EXCEPT !.step = "cut"]
                     [] OTHER -> undo[u]]
    /\ UNCHANGED <<scope, rows, snapshots, users, purged>>

(* The next start prunes the snapshots that are older than the retention   *)
(* of the settings, if it is not 0: the oldest ones.                       *)
Restart ==
    /\ ~up
    /\ up' = TRUE
    /\ \E n \in {0} \union Changes : Remove(Expired(n))
    /\ UNCHANGED <<file, scope, rows, work, undo, users, crashes, others>>

Next ==
    \/ \E kind \in {"none", "folder", "file"} : Share(kind)
    \/ \E c \in Changes :
          \/ StartRun(c) \/ Prepare(c) \/ CheckDeleted(c) \/ Apply(c) \/ Verify(c)
          \/ SaveChange(c) \/ Compensate(c) \/ TakeBack(c) \/ CancelSave(c)
    \/ \E u \in Undos :
          \/ \E c \in Changes : ReadRow(u, c)
          \/ Look(u) \/ Compare(u) \/ Revert(u) \/ VerifyReverted(u)
          \/ SaveReverted(u) \/ RestoreApplied(u) \/ Restore(u) \/ SaveConflicted(u)
    \/ Clear \/ Crash \/ Restart
    \/ \E content \in Texts \union {Large, NoFile} : Edit(content)

Spec == Init /\ [][Next]_vars

-------------------------------------------------------------------------------

(* As long as nobody else wrote the file, a change of it that no row       *)
(* records is one whose save is still awaited or was interrupted: a change *)
(* that failed is taken back, with its snapshot.                           *)
NoSilentChange ==
    \A c \in Changes :
        (~others[c] /\ rows[c] = NoRow) =>
            \/ work[c].step \in {"idle", "started", "refused", "saving", "interrupted"}
                                   \union InChange
            \/ file = work[c].before /\ snapshots[c] = NoFile

\* The requests that were made to undo c.
Requests(c) == {u \in Undos : undo[u].step # "idle" /\ undo[u].change = c}

(* A change shown as applied can be undone: unless the file was written    *)
(* since or the snapshot purged, the file is as the change left it and the *)
(* snapshot holds what was there before.  This holds after an undo that    *)
(* failed, too, but not while one is saved or after a kill cut that off.   *)
CanBeUndone ==
    \A c \in Changes :
        (/\ rows[c] = "applied" /\ ~others[c] /\ c \notin purged
         /\ \A u \in Requests(c) : undo[u].step \notin {"taken", "saving", "restoring", "cut"}) =>
            /\ file = work[c].after
            /\ snapshots[c] = work[c].before

(* A change shown as reverted is: unless somebody else wrote the file, it  *)
(* is as it was before, whichever of two undo requests came through.       *)
RevertedIsRestored ==
    \A c \in Changes :
        (rows[c] = "reverted" /\ ~others[c]) => file = work[c].before

(* A change is shown as conflicted only if somebody else wrote the file    *)
(* after it, or if its undo was asked for more than once: two undos that   *)
(* overlap, or a second one after a crash, may call the first a conflict.  *)
ConflictIsReal ==
    \A c \in Changes :
        rows[c] = "conflicted" => others[c] \/ Cardinality(Requests(c)) > 1

(* The text that the user's programs left last is on disk or in a snapshot *)
(* of the change that took it away, whatever changes, undos, failing saves *)
(* and crashes follow.  It may be lost if it was written while the service *)
(* wrote without another look (Blind); if its snapshot was purged; if it   *)
(* is, to the letter, the text that a change writes; or if it was brought  *)
(* back by a replacement whose save failed after another change had        *)
(* written the file, whose own taking back then removes it.                *)
TextsAreKept ==
    \/ mine = NoFile
    \/ file = mine
    \/ \E c \in Changes : snapshots[c] = mine
    \/ risked
    \/ \E c \in purged : work[c].before = mine
    \/ \E c \in Changes : work[c].after = mine
    \/ \E c \in Changes : /\ work[c].op = "replace" /\ work[c].step = "failed"
                          /\ others[c] /\ work[c].before = mine

\* What the rows say of a change is so: one that is applied can be undone, one that is
\* reverted has been, and a conflict is one (FileChangeStatus).
RowsAreTrue == TypeOK /\ CanBeUndone /\ RevertedIsRestored /\ ConflictIsReal

===============================================================================
