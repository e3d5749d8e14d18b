------------------------------ MODULE BrowserPages ------------------------------
(***************************************************************************)
(* The page tools of a browser conversation (tools/browser_*.py), the      *)
(* client that carries their calls to the desktop's Main process           *)
(* (bootstrap/browser_page_bridge.py), and what Main does for them with    *)
(* the tabs of the visible browser (desktop/src/main/browser_view.ts)      *)
(* while the user and the pages go on.                                     *)
(*                                                                         *)
(* Main is one thread; each of its awaits, a script in the page or a       *)
(* pause, ends a step.  A run makes one call at a time, and may give a     *)
(* call up (a timeout, a cancellation): Main goes on with it all the same, *)
(* unless it is the fetch of a PDF.                                        *)
(***************************************************************************)
EXTENDS Integers, FiniteSets

CONSTANTS
    Runs,        \* runs of browser conversations, 1..n by their submission
    Tabs,        \* tabs of the visible browser, 1..n; the user looks at tab 1 first
    Urls,        \* addresses of pages
    Blank,       \* the address of an empty tab
    Calls,       \* 1..n, the tool calls that Main can work for at a time
    MaxCalls,    \* bound: tool calls in all
    MaxMoves     \* bound: moves of the user and of the pages

ASSUME BrowserAssumption ==
    /\ Blank \notin Urls
    /\ \A S \in {Runs, Tabs, Calls} : IsFiniteSet(S) /\ S = 1 .. Cardinality(S)
    /\ 1 \in Runs /\ 1 \in Tabs
    /\ MaxCalls \in Nat /\ MaxMoves \in Nat

VARIABLES
    run,      \* where each run is, its tab, and the PDF that its tool has cached
    binding,  \* BrowserRunBindings._bindings: the tab for each run, 0 for none
    visible,  \* visibleTabId, 0 for none
    tab,      \* the views: address, number of the page load, labels in the page; history:
              \* whether the page has moved since it was labelled
    snapshot, \* interactionSnapshots: the labelling that refs are looked up in; history,
              \* "late": the page changed before it was kept, or an input that failed has typed
    token,    \* tabDocumentTokens
    going,    \* the navigation that is under way in each tab, and whose it is
    call,     \* the tool calls, and Main's work for them
    count,    \* page loads, labellings, tokens and calls so far
    moves,    \* history: moves of the user and of the pages
    pages     \* history: the page loads each run was given PDF text of

vars == <<run, binding, visible, tab, snapshot, token, going, call, count,
          moves, pages>>

Addresses == Urls \cup {Blank}

\* The steps of a call.  "asked" is the request's arrival in Main.
Kinds == {"read", "snapshot", "click", "edit", "navigate", "input", "pdf"}
Steps == {"unused", "asked", "labelled", "found", "prepared", "confirmed", "acted",
          "loading", "focusing", "observing", "probing", "ready", "typing", "sent",
          "fetching", "check", "recheck"}

\* "left": its run has given it up; "typed": its text is in the page; history, "moved":
\* the page has changed, or the tab was shown or hidden, since the last look.
Call == [run : Runs, kind : Kinds, step : Steps, left : BOOLEAN, url : Addresses,
         mark : Nat, id : Nat, load : Nat, typed : BOOLEAN, moved : BOOLEAN]

Unused == [run |-> 1, kind |-> "read", step |-> "unused", left |-> FALSE, url |-> Blank,
           mark |-> 0, id |-> 0, load |-> 0, typed |-> FALSE, moved |-> FALSE]

NoTrip     == [by |-> 0, url |-> Blank]
NoToken    == [id |-> 0, url |-> Blank]
NoSnapshot == [mark |-> 0, late |-> FALSE]

TypeOK ==
    /\ run \in [Runs -> [state : {"new", "queued", "running"}, tab : Tabs \cup {0},
                         id : Nat, load : Nat]]
    /\ binding \in [Runs -> Tabs \cup {0}]
    /\ visible \in Tabs \cup {0}
    /\ visible # 0 => tab[visible].state = "open"
    /\ tab \in [Tabs -> [state : {"new", "open", "closed"}, url : Addresses,
                         load : Nat, mark : Nat, moved : BOOLEAN]]
    /\ snapshot \in [Tabs -> [mark : Nat, late : BOOLEAN]]
    /\ token \in [Tabs -> [id : Nat, url : Addresses]]
    /\ going \in [Tabs -> [by : {-1, 0} \cup Calls, url : Addresses]]
    /\ call \in [Calls -> Call]
    /\ count \in [load : Nat, mark : Nat, token : Nat, call : 0 .. MaxCalls]
    /\ moves \in 0 .. MaxMoves
    /\ pages \in [Runs -> SUBSET Nat]

Init ==
    \E u \in Urls :
        /\ run = [r \in Runs |-> [state |-> "new", tab |-> 0, id |-> 0, load |-> 0]]
        /\ binding = [r \in Runs |-> 0]
        /\ visible = 1
        /\ tab = [t \in Tabs |-> IF t = 1
                    THEN [state |-> "open", url |-> u, load |-> 1, mark |-> 0, moved |-> FALSE]
                    ELSE [state |-> "new", url |-> Blank, load |-> 0, mark |-> 0, moved |-> FALSE]]
        /\ snapshot = [t \in Tabs |-> NoSnapshot]
        /\ token = [t \in Tabs |-> NoToken]
        /\ going = [t \in Tabs |-> NoTrip]
        /\ call = [i \in Calls |-> Unused]
        /\ count = [load |-> 1, mark |-> 0, token |-> 0, call |-> 0]
        /\ moves = 0
        /\ pages = [r \in Runs |-> {}]

TabOf(i)   == run[call[i].run].tab
IsOpen(t)  == tab[t].state = "open"
IsShown(t) == visible = t /\ IsOpen(t)
At(i, kind, step) == call[i].kind = kind /\ call[i].step = step

\* Main goes on with call i.
Goes(i, step) == call' = [call EXCEPT ![i].step = step]

\* The answer, a result or an error, goes to the tool, or to nobody if it was given up.
Ends(i) == call' = [call EXCEPT ![i] = Unused]

\* The calls once the page of tab t has moved, or the tab was shown or hidden.
Moved(calls, t, steps) ==
    [i \in Calls |-> IF calls[i].step \in steps /\ TabOf(i) = t
                     THEN [calls[i] EXCEPT !.moved = TRUE] ELSE calls[i]]
OfPage == {"labelled", "confirmed", "probing", "ready", "typing"}
OfTab  == {"probing", "ready", "typing"}

(***************************************************************************)
(* The run: its tab is bound once it is submitted, taken once when its     *)
(* loop is built, and then its tools call one after the other.             *)
(***************************************************************************)

\* A message sent from the browser panel, for the tab that it names.
Submit(r, t) ==
    /\ run[r].state = "new"
    /\ \A s \in Runs : s < r => run[s].state # "new"
    /\ IsOpen(t)
    /\ run' = [run EXCEPT ![r].state = "queued"]
    /\ binding' = [binding EXCEPT ![r] = t]
    /\ UNCHANGED <<visible, tab, snapshot, token, going, call, count, moves, pages>>

Take(r) == binding' = [binding EXCEPT ![r] = 0]

StartRun(r) ==
    /\ run[r].state = "queued"
    /\ run' = [run EXCEPT ![r].state = "running", ![r].tab = binding[r]]
    /\ Take(r)
    /\ UNCHANGED <<visible, tab, snapshot, token, going, call, count, moves, pages>>

\* A tool posts its request for the bound tab to Main.
Post(r, i, kind, u) ==
    /\ run[r].state = "running"
    /\ count.call < MaxCalls
    /\ call[i].step = "unused" /\ \A j \in Calls : j < i => call[j].step # "unused"
    /\ \A j \in Calls : call[j].run = r => call[j].left \/ call[j].step = "unused"
    /\ count' = [count EXCEPT !.call = @ + 1]
    /\ call' = [call EXCEPT ![i] = [Unused EXCEPT !.run = r, !.kind = kind,
                                                  !.step = "asked", !.url = u]]
    /\ UNCHANGED <<run, binding, visible, tab, snapshot, token, going, moves, pages>>

ReadTool(r, i)        == Post(r, i, "read", Blank)
WaitTool(r, i)        == Post(r, i, "read", Blank)
SnapshotTool(r, i)    == Post(r, i, "snapshot", Blank)
ClickTool(r, i)       == Post(r, i, "click", Blank)
FillTool(r, i)        == Post(r, i, "edit", Blank)
SelectTool(r, i)      == Post(r, i, "edit", Blank)
NavigateTool(r, i, u) == Post(r, i, "navigate", u)
InputTool(r, i, u)    == Post(r, i, "input", u)
PdfTool(r, i)         == Post(r, i, "pdf", Blank)

\* The client's timeout, the tool's, or the end of the run.
GiveUp(i) ==
    /\ call[i].step # "unused" /\ ~call[i].left
    /\ IF call[i].kind = "pdf"
       THEN /\ Ends(i)
            /\ run' = [run EXCEPT ![call[i].run].load = 0]
       ELSE call' = [call EXCEPT ![i].left = TRUE] /\ UNCHANGED run
    /\ UNCHANGED <<binding, visible, tab, snapshot, token, going, count,
                   moves, pages>>

(***************************************************************************)
(* Main: reading and waiting change nothing here, whether they are refused *)
(* because the tab is not visible or not.                                  *)
(***************************************************************************)
Reads(i) ==
    /\ At(i, "read", "asked")
    /\ Ends(i)
    /\ UNCHANGED <<run, binding, visible, tab, snapshot, token, going, count,
                   moves, pages>>

(***************************************************************************)
(* Main: a snapshot labels the elements of the page anew, from 1, and then *)
(* keeps what the labels stand for.  The answers of one page's scripts     *)
(* come in the order of the scripts.                                       *)
(***************************************************************************)
Label(i) ==
    /\ At(i, "snapshot", "asked")
    /\ LET t == TabOf(i)
           n == count.mark + 1
       IN  IF IsShown(t)
           THEN /\ tab' = [tab EXCEPT ![t].mark = n, ![t].moved = FALSE]
                /\ count' = [count EXCEPT !.mark = n]
                /\ call' = [call EXCEPT ![i].step = "labelled", ![i].mark = n]
           ELSE Ends(i) /\ UNCHANGED <<tab, count>>
    /\ UNCHANGED <<run, binding, visible, snapshot, token, going, moves, pages>>

Keep(i) ==
    /\ At(i, "snapshot", "labelled")
    /\ \A j \in Calls : At(j, "snapshot", "labelled") /\ TabOf(j) = TabOf(i)
                        => call[i].mark <= call[j].mark
    /\ LET t == TabOf(i)
       IN  /\ snapshot' = [snapshot EXCEPT ![t] = [mark |-> call[i].mark,
                                                   late |-> call[i].moved]]
           /\ Ends(i)
    /\ UNCHANGED <<run, binding, visible, tab, token, going, count, moves, pages>>

(***************************************************************************)
(* Main: click, fill and select find the target of a ref in the snapshot,  *)
(* and its label in the page; a pointer is shown for a moment, and then    *)
(* they act.  A target may be missing, hidden, obscured or of another      *)
(* kind: any of these steps may fail.                                      *)
(***************************************************************************)
Acting == {"click", "edit"}

\* The lookup; a tab that is hidden afterwards is not asked for again.
Look(i) ==
    /\ call[i].kind \in Acting /\ call[i].step = "asked"
    /\ \/ /\ IsShown(TabOf(i)) /\ snapshot[TabOf(i)].mark # 0
          /\ call' = [call EXCEPT ![i].step = "found", ![i].mark = snapshot[TabOf(i)].mark]
       \/ Ends(i)
    /\ UNCHANGED <<run, binding, visible, tab, snapshot, token, going, count,
                   moves, pages>>

\* A script that selects the label.
Selects(t) == IsOpen(t) /\ tab[t].mark # 0

Prepare(i) ==
    /\ call[i].kind \in Acting /\ call[i].step = "found"
    /\ \/ Selects(TabOf(i)) /\ Goes(i, "prepared")
       \/ Ends(i)
    /\ UNCHANGED <<run, binding, visible, tab, snapshot, token, going, count,
                   moves, pages>>


\* Mutant: the mouse is sent to the point without a second look at it.
ConfirmNothing(i) ==
    /\ At(i, "click", "prepared")
    /\ Goes(i, "confirmed")
    /\ UNCHANGED <<run, binding, visible, tab, snapshot, token, going, count,
                   moves, pages>>

\* A click with the mouse: a script confirms what is at the point.
Confirm(i) ==
    /\ At(i, "click", "prepared")
    /\ \/ Selects(TabOf(i)) /\ Goes(i, "confirmed")
       \/ Ends(i)
    /\ UNCHANGED <<run, binding, visible, tab, snapshot, token, going, count,
                   moves, pages>>

\* Then Main sends the mouse to the tab, whatever it shows by now.
Press(i) ==
    /\ At(i, "click", "confirmed")
    /\ IF IsOpen(TabOf(i)) THEN Goes(i, "acted") ELSE Ends(i)
    /\ UNCHANGED <<run, binding, visible, tab, snapshot, token, going, count,
                   moves, pages>>

\* Fill, select, and the click by script: one script selects the label and acts.
ActInPage(i) ==
    /\ call[i].kind \in Acting /\ call[i].step = "prepared"
    /\ \/ Selects(TabOf(i)) /\ Goes(i, "acted")
       \/ Ends(i)
    /\ UNCHANGED <<run, binding, visible, tab, snapshot, token, going, count,
                   moves, pages>>

\* The page is read until it is quiet, if it still can be.
Settle(i) ==
    /\ call[i].kind \in Acting /\ call[i].step = "acted"
    /\ Ends(i)
    /\ UNCHANGED <<run, binding, visible, tab, snapshot, token, going, count,
                   moves, pages>>

(***************************************************************************)
(* Navigations.  A new one in a tab interrupts the one that is under way;  *)
(* both its start and the new page void the token of the PDF, and the new  *)
(* page voids the snapshot.                                                *)
(***************************************************************************)
Invalidated(t) == [token EXCEPT ![t] = NoToken]

Navigate(i) ==
    /\ At(i, "navigate", "asked")
    /\ LET t == TabOf(i)
       IN  IF IsShown(t)
           THEN /\ token' = Invalidated(t)
                /\ going' = [going EXCEPT ![t] = [by |-> i, url |-> call[i].url]]
                /\ Goes(i, "loading")
           ELSE Ends(i) /\ UNCHANGED <<token, going>>
    /\ UNCHANGED <<run, binding, visible, tab, snapshot, count, moves, pages>>

\* The page of a navigation is shown: "by" is -1 for the user and the pages.
NewPage(t) ==
    LET n == count.load + 1
    IN  /\ going[t].by # 0
        /\ tab' = [tab EXCEPT ![t].url = going[t].url, ![t].load = n, ![t].mark = 0,
                                ![t].moved = FALSE]
        /\ count' = [count EXCEPT !.load = n]
        /\ token' = Invalidated(t)
        /\ snapshot' = [snapshot EXCEPT ![t] = NoSnapshot]
        /\ going' = [going EXCEPT ![t] = NoTrip]
        /\ call' = Moved(call, t, OfPage)
        /\ UNCHANGED <<run, binding, visible, moves, pages>>

\* The page was shown; or the navigation was interrupted, or it failed.
Interrupted(i) == going[TabOf(i)].by # i
Opened(i) ==
    /\ At(i, "navigate", "loading")
    /\ Ends(i)
    /\ going' = IF Interrupted(i) THEN going ELSE [going EXCEPT ![TabOf(i)] = NoTrip]
    /\ UNCHANGED <<run, binding, visible, tab, snapshot, token, count, moves, pages>>

(***************************************************************************)
(* Main: input goes to the editor that has the focus, on the page that the *)
(* caller names.  The tab and its address are looked at three times, and   *)
(* the focus twice, before the text is sent.                               *)
(***************************************************************************)
OnPage(i) == IsShown(TabOf(i)) /\ tab[TabOf(i)].url = call[i].url

LookAgain(i, from, to) ==
    /\ At(i, "input", from)
    /\ \/ OnPage(i) /\ Goes(i, to)
       \/ Ends(i)
    /\ UNCHANGED <<run, binding, visible, tab, snapshot, token, going, count,
                   moves, pages>>

InputStarts(i)  == LookAgain(i, "asked", "focusing")
EditorFound(i)  == LookAgain(i, "focusing", "observing")

EditorNoted(i)  == LookAgain(i, "observing", "probing")

\* The editor still has the focus.
Focused(i) ==
    /\ At(i, "input", "probing")
    /\ \/ IsOpen(TabOf(i)) /\ Goes(i, "ready")
       \/ Ends(i)
    /\ UNCHANGED <<run, binding, visible, tab, snapshot, token, going, count,
                   moves, pages>>

\* Main hands the text over to the tab, and waits for it to be taken.
Dispatch(i) ==
    /\ At(i, "input", "ready")
    /\ IF IsOpen(TabOf(i)) THEN Goes(i, "typing") ELSE Ends(i)
    /\ UNCHANGED <<run, binding, visible, tab, snapshot, token, going, count,
                   moves, pages>>

\* The text is in the page.
Typed(i) ==
    /\ At(i, "input", "typing") /\ ~call[i].typed
    /\ LET t == TabOf(i)
       IN  /\ IsOpen(t)
           /\ call' = Moved([call EXCEPT ![i].typed = TRUE], t, OfPage)
           /\ tab' = [tab EXCEPT ![t].moved = tab[t].mark # 0]
    /\ UNCHANGED <<run, binding, visible, snapshot, token, going, count, moves, pages>>


\* Mutant: the refs stay good.
DispatchedKeepingRefs(i) ==
    /\ At(i, "input", "typing") /\ call[i].typed
    /\ Goes(i, "sent")
    /\ UNCHANGED <<run, binding, visible, tab, snapshot, token, going, count,
                   moves, pages>>

\* The tab has taken the text: the refs of its snapshot are void.
Dispatched(i) ==
    /\ At(i, "input", "typing") /\ call[i].typed
    /\ Goes(i, "sent")
    /\ snapshot' = [snapshot EXCEPT ![TabOf(i)] = NoSnapshot]
    /\ UNCHANGED <<run, binding, visible, tab, token, going, count, moves, pages>>

\* The dispatch raises, before or after the text was typed: the refs stay good.
Undispatched(i) ==
    /\ At(i, "input", "typing")
    /\ Ends(i)
    /\ snapshot' = [snapshot EXCEPT ![TabOf(i)].late = @ \/ tab[TabOf(i)].moved]
    /\ UNCHANGED <<run, binding, visible, tab, token, going, count, moves, pages>>

\* What can be seen of the effect, and the title of the tab.
Observed(i) ==
    /\ At(i, "input", "sent")
    /\ Ends(i)
    /\ UNCHANGED <<run, binding, visible, tab, snapshot, token, going, count,
                   moves, pages>>

(***************************************************************************)
(* The PDF of a tab.  Main keeps one token for the page that is shown; the *)
(* tool keeps the bytes of its first read, and asks whether the token is   *)
(* still good before it reads on and before it answers.  After an error it *)
(* forgets the bytes, and reads no other document.                         *)
(***************************************************************************)

IsValid(t, id) == IsShown(t) /\ token[t].id = id /\ token[t].url = tab[t].url

Cached(i) == run[call[i].run]

\* Bytes, and what the tab shows now.
PdfGiven(i) ==
    /\ Ends(i)
    /\ pages' = [pages EXCEPT ![call[i].run] = @ \cup {call[i].load, tab[TabOf(i)].load}]
    /\ UNCHANGED run

PdfFails(i) ==
    /\ Ends(i)
    /\ run' = [run EXCEPT ![call[i].run].load = 0]
    /\ UNCHANGED pages

ReadPdf(i) ==
    /\ At(i, "pdf", "asked")
    /\ LET t == TabOf(i)
           n == IF token[t].id = 0 \/ token[t].url # tab[t].url THEN count.token + 1
                                                               ELSE token[t].id
       IN  IF Cached(i).id # 0
           THEN /\ Cached(i).load # 0 /\ Goes(i, "check")
                /\ UNCHANGED <<run, token, count, pages>>
           ELSE /\ IsShown(t) /\ tab[t].url # Blank
                /\ token' = [token EXCEPT ![t] = [id |-> n, url |-> tab[t].url]]
                /\ count' = [count EXCEPT !.token = IF n > @ THEN n ELSE @]
                /\ call' = [call EXCEPT ![i].step = "fetching", ![i].id = n,
                                        ![i].load = tab[t].load]
                /\ UNCHANGED <<run, pages>>
    /\ UNCHANGED <<binding, visible, tab, snapshot, going, moves>>

\* No tab, no address of a document, or the bytes were forgotten.
PdfRefused(i) ==
    /\ At(i, "pdf", "asked")
    /\ IF Cached(i).id # 0 THEN Cached(i).load = 0
       ELSE ~IsShown(TabOf(i)) \/ tab[TabOf(i)].url = Blank
    /\ PdfFails(i)
    /\ UNCHANGED <<binding, visible, tab, snapshot, token, going, count, moves>>

\* The document cannot be read, or its token is void; a fetch is aborted then.
PdfError(i) ==
    /\ call[i].kind = "pdf" /\ call[i].step \in {"fetching", "check", "recheck"}
    /\ PdfFails(i)
    /\ UNCHANGED <<binding, visible, tab, snapshot, token, going, count, moves>>

\* An error of the extraction itself: the bytes stay.
Unreadable(i) ==
    /\ At(i, "pdf", "recheck")
    /\ Ends(i)
    /\ UNCHANGED <<run, binding, visible, tab, snapshot, token, going, count, moves, pages>>

Fetched(i) ==
    /\ At(i, "pdf", "fetching")
    /\ IsValid(TabOf(i), call[i].id)
    /\ run' = [run EXCEPT ![call[i].run].id = call[i].id, ![call[i].run].load = call[i].load]
    /\ Goes(i, "recheck")
    /\ UNCHANGED <<binding, visible, tab, snapshot, token, going, count,
                   moves, pages>>

Checked(i) ==
    /\ At(i, "pdf", "check")
    /\ IsValid(TabOf(i), Cached(i).id)
    /\ call' = [call EXCEPT ![i].step = "recheck", ![i].load = Cached(i).load]
    /\ UNCHANGED <<run, binding, visible, tab, snapshot, token, going, count,
                   moves, pages>>

\* After the text is extracted from the bytes.
Rechecked(i) ==
    /\ At(i, "pdf", "recheck")
    /\ IsValid(TabOf(i), Cached(i).id)
    /\ PdfGiven(i)
    /\ UNCHANGED <<binding, visible, tab, snapshot, token, going, count, moves>>

(***************************************************************************)
(* The user and the pages.                                                 *)
(***************************************************************************)
Moves == moves < MaxMoves /\ moves' = moves + 1

\* The tab that was visible is detached: its token is void.
Show(t) ==
    /\ Moves
    /\ visible # t /\ tab[t].state # "closed"
    /\ tab' = [tab EXCEPT ![t].state = "open"]
    /\ visible' = t
    /\ token' = IF visible = 0 THEN token ELSE Invalidated(visible)
    /\ call' = Moved(call, visible, OfTab)
    /\ UNCHANGED <<run, binding, snapshot, going, count, pages>>

Hide ==
    /\ Moves
    /\ visible # 0
    /\ visible' = 0
    /\ token' = Invalidated(visible)
    /\ call' = Moved(call, visible, OfTab)
    /\ UNCHANGED <<run, binding, tab, snapshot, going, count, pages>>

\* The user, or a link or a script of the page, which voids the snapshot at once.
Leave(t, u) ==
    /\ Moves
    /\ IsOpen(t)
    /\ token' = Invalidated(t)
    /\ snapshot' \in {snapshot, [snapshot EXCEPT ![t] = NoSnapshot]}
    /\ going' = [going EXCEPT ![t] = [by |-> -1, url |-> u]]
    /\ UNCHANGED <<run, binding, visible, tab, call, count, pages>>

\* A navigation within the page: its elements stay.
InPage(t, u) ==
    /\ Moves
    /\ IsOpen(t) /\ tab[t].url \notin {u, Blank}
    /\ tab' = [tab EXCEPT ![t].url = u, ![t].moved = tab[t].mark # 0]
    /\ token' = Invalidated(t)
    /\ snapshot' = [snapshot EXCEPT ![t] = NoSnapshot]
    /\ call' = Moved(call, t, OfPage)
    /\ UNCHANGED <<run, binding, visible, going, count, pages>>


\* A frame of the page shows something else.
FrameLeaves(t) ==
    /\ Moves
    /\ IsOpen(t)
    /\ tab' = [tab EXCEPT ![t].moved = tab[t].mark # 0]
    /\ snapshot' = [snapshot EXCEPT ![t] = NoSnapshot]
    /\ call' = Moved(call, t, OfPage)
    /\ UNCHANGED <<run, binding, visible, token, going, count, pages>>

CloseTab(t) ==
    /\ Moves
    /\ IsOpen(t)
    /\ visible' = IF visible = t THEN 0 ELSE visible
    /\ tab' = [tab EXCEPT ![t].state = "closed", ![t].url = Blank,
                            ![t].mark = 0, ![t].moved = FALSE]
    /\ token' = Invalidated(t)
    /\ snapshot' = [snapshot EXCEPT ![t] = NoSnapshot]
    /\ going' = [going EXCEPT ![t] = NoTrip]
    /\ call' = Moved(call, t, OfPage)
    /\ UNCHANGED <<run, binding, count, pages>>

\* A request that arrives in Main, or in the tool for a PDF.
Arrives(i) ==
    \/ Reads(i) \/ Label(i) \/ Look(i) \/ Navigate(i) \/ InputStarts(i)
    \/ ReadPdf(i) \/ PdfRefused(i)

GoesOn(i) ==
    \/ Keep(i) \/ Prepare(i) \/ Confirm(i) \/ Press(i) \/ ActInPage(i) \/ Settle(i)
    \/ Opened(i) \/ EditorFound(i) \/ EditorNoted(i) \/ Focused(i)
    \/ Dispatch(i) \/ Typed(i) \/ Dispatched(i) \/ Undispatched(i) \/ Observed(i)
    \/ PdfError(i) \/ Unreadable(i) \/ Fetched(i) \/ Checked(i) \/ Rechecked(i) \/ GiveUp(i)

Asks(r, i) ==
    \/ ReadTool(r, i) \/ WaitTool(r, i) \/ SnapshotTool(r, i) \/ ClickTool(r, i)
    \/ FillTool(r, i) \/ SelectTool(r, i) \/ PdfTool(r, i)
    \/ \E u \in Urls : NavigateTool(r, i, u) \/ InputTool(r, i, u)

\* What is queued or posted is taken up before anything else happens: the same could have
\* happened before it was queued or posted.
Waiting ==
    \/ \E r \in Runs : run[r].state = "queued"
    \/ \E i \in Calls : call[i].step = "asked"

Next ==
    \/ \E r \in Runs : StartRun(r)
    \/ \E i \in Calls : Arrives(i)
    \/ ~Waiting /\ \E r \in Runs, t \in Tabs : Submit(r, t)
    \/ ~Waiting /\ \E r \in Runs, i \in Calls : Asks(r, i)
    \/ ~Waiting /\ \E i \in Calls : GoesOn(i)
    \/ ~Waiting /\ \E t \in Tabs : Show(t) \/ NewPage(t) \/ FrameLeaves(t) \/ CloseTab(t)
    \/ ~Waiting /\ \E t \in Tabs, u \in Urls : Leave(t, u) \/ InPage(t, u)
    \/ ~Waiting /\ Hide

Spec == Init /\ [][Next]_vars

(***************************************************************************)
(* Properties.                                                             *)
(***************************************************************************)

\* The refs that a tool may use stand for the labels of the page that is there, and nothing
\* has been typed into it since.  They are older only while the page is being labelled
\* again, or if the page changed while it was; and while Main waits for a text to be taken
\* that is in the page already, or if taking it raised an error (inspectInteractive,
\* inputCurrentPage, the navigation listeners of ensureView in
\* desktop/src/main/browser_view.ts).
RefsAreCurrent ==
    \A t \in Tabs : snapshot[t].mark # 0 =>
        \/ snapshot[t].mark = tab[t].mark /\ ~tab[t].moved
        \/ snapshot[t].late
        \/ \E i \in Calls : /\ TabOf(i) = t
                             /\ \/ At(i, "snapshot", "labelled")
                                \/ At(i, "input", "typing") /\ call[i].typed

\* A click, a fill or a choice lands on a page that is labelled by the snapshot it was
\* looked up in, or by a later one; a click with the mouse may land elsewhere if the page
\* changed after its point was confirmed (clickCurrentPage, fillCurrentPage).
ActsOnInspected ==
    [][\A i \in Calls : call[i].step \in {"prepared", "confirmed"} /\ call'[i].step = "acted" =>
            tab[TabOf(i)].mark >= call[i].mark \/ call[i].moved]_vars

\* All the PDF text that a run is given is of one page load, and that page was still shown
\* when it was given (browser_read_current_pdf.py, readCurrentPdf, validateCurrentPdf).
OneDocument == \A r \in Runs : Cardinality(pages[r]) <= 1

\* Text goes to the page that the caller named and the user sees, unless the user or the
\* page moved after the last look (inputCurrentPage).
InputWhereAsked ==
    [][\A i \in Calls : ~call[i].typed /\ call'[i].typed =>
            OnPage(i) \/ call[i].moved]_vars

\* Input goes where the tool's checks looked: on the page, and to the element, that were
\* inspected.
ActsWhereItLooked == ActsOnInspected /\ InputWhereAsked

\* What a tool keeps of a page is of the page that is there: the refs and the PDF.
PagesAreCurrent == TypeOK /\ RefsAreCurrent /\ OneDocument

=============================================================================
