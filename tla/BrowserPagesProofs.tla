-------------------------- MODULE BrowserPagesProofs --------------------------
(***************************************************************************)
(* What the tools keep of a page is of the page that is there, and they    *)
(* act where they looked: for any runs, tabs, addresses and calls,         *)
(* whatever the user and the pages do meanwhile.                           *)
(***************************************************************************)
EXTENDS BrowserPages, FiniteSetTheorems, TLAPS


-------------------------------------------------------------------------------
Active(i) == call[i].step # "unused"

\* Who works in a tab has one: it was bound when the run was submitted.
Bound(r) ==
    /\ run[r].state = "queued" => binding[r] \in Tabs
    /\ run[r].state = "running" => run[r].tab \in Tabs

\* Numbers are given out one after the other.
CallKnown(i) ==
    /\ Active(i) => run[call[i].run].state = "running"
    /\ call[i].mark <= count.mark /\ call[i].id <= count.token
TabKnown(t) ==
    /\ tab[t].mark <= count.mark /\ snapshot[t].mark <= count.mark
    /\ token[t].id <= count.token
    /\ tab[t].url # Blank => tab[t].load # 0

AllKnown ==
    /\ \A r \in Runs : Bound(r) /\ run[r].id <= count.token
    /\ \A i \in Calls : CallKnown(i)
    /\ \A t \in Tabs : TabKnown(t)

-------------------------------------------------------------------------------
(* The refs and the elements *)

Labelling(i) == At(i, "snapshot", "labelled")

\* Main has yet to void the refs of the page that i has typed into; or to keep those of the
\* page that it labels.
Typing(i) == At(i, "input", "typing") /\ call[i].typed
Renews(i) == Labelling(i) \/ Typing(i)

\* The labels that i has put are those of the page, unless the page has moved since or
\* another call has labelled it again.
LabelsStand(i) ==
    Labelling(i) =>
        \/ call[i].moved
        \/ call[i].mark = tab[TabOf(i)].mark /\ ~tab[TabOf(i)].moved
        \/ \E j \in Calls : Labelling(j) /\ TabOf(j) = TabOf(i) /\ call[j].mark > call[i].mark

\* A labelled page is labelled at least as late as whatever is kept of it.
NoneIsLater(t) == tab[t].mark # 0 => snapshot[t].mark <= tab[t].mark
\* And whatever is kept is of the labels that are there, unless another labelling is to come.
RefsStand(t) ==
    snapshot[t].mark # 0 =>
        \/ snapshot[t].mark = tab[t].mark \/ snapshot[t].late
        \/ \E i \in Calls : Labelling(i) /\ TabOf(i) = t
NotLater(i) ==
    call[i].step \in {"labelled", "found", "prepared", "confirmed"} /\ tab[TabOf(i)].mark # 0
        => call[i].mark <= tab[TabOf(i)].mark

\* What a click confirmed, and what an input looked at, is so unless it moved.
StillThere(i) ==
    /\ call[i].step = "confirmed" => tab[TabOf(i)].mark # 0 \/ call[i].moved
    /\ call[i].kind = "input" /\ call[i].step \in {"probing", "ready", "typing"}
           => OnPage(i) \/ call[i].moved

PagePart(i) == LabelsStand(i) /\ NotLater(i) /\ StillThere(i)

-------------------------------------------------------------------------------
(* The PDF *)

\* A token that is still there is of the page that was there when it was taken.
SamePage(t, id, load) == token[t].id = id => load = tab[t].load

InPdf(i) == call[i].kind = "pdf" /\ Active(i)

\* A run reads one document at a time.
OneReader == \A i, j \in Calls : InPdf(i) /\ InPdf(j) /\ call[i].run = call[j].run => i = j

Reading(i) ==
    /\ InPdf(i) => ~call[i].left
    /\ At(i, "pdf", "fetching") =>
          /\ Cached(i).id = 0 /\ call[i].id # 0 /\ call[i].load # 0
          /\ SamePage(TabOf(i), call[i].id, call[i].load)
    /\ At(i, "pdf", "check") => Cached(i).id # 0 /\ Cached(i).load # 0
    /\ At(i, "pdf", "recheck") =>
          Cached(i).id # 0 /\ Cached(i).load # 0 /\ call[i].load = Cached(i).load

\* What was given is of the document that is cached, or was until an error.
Given(r) ==
    /\ run[r].state = "running" /\ run[r].id # 0 /\ run[r].load # 0
           => SamePage(run[r].tab, run[r].id, run[r].load)
    /\ run[r].state # "running" => run[r].id = 0
    /\ \/ pages[r] = {}
       \/ /\ run[r].id # 0
          /\ \E n \in pages[r] : pages[r] = {n} /\ run[r].load \in {0, n}

PagesInv ==
    /\ TypeOK /\ AllKnown /\ OneReader
    /\ \A t \in Tabs : NoneIsLater(t) /\ RefsStand(t)
    /\ RefsAreCurrent
    /\ \A i \in Calls : PagePart(i) /\ Reading(i)
    /\ \A r \in Runs : Given(r)

-------------------------------------------------------------------------------
(* How a step changes the calls and the runs *)

\* The call j waits; at most it is given up, or what it looked at moves.
Waits(j) ==
    /\ call'[j].run = call[j].run /\ call'[j].kind = call[j].kind
    /\ call'[j].step = call[j].step /\ call'[j].url = call[j].url
    /\ call'[j].mark = call[j].mark /\ call'[j].id = call[j].id
    /\ call'[j].load = call[j].load
    /\ call[j].moved => call'[j].moved
    /\ call[j].kind = "pdf" => call'[j].left = call[j].left
    /\ call'[j].typed = call[j].typed

\* Call i takes a step, and the others wait.
Alone(i) ==
    /\ call' \in [Calls -> Call]
    /\ \A j \in Calls : j # i => call'[j] = call[j]

\* It goes on with what it had.
GoesTo(i, step) ==
    /\ Alone(i)
    /\ call'[i].step = step
    /\ call'[i].run = call[i].run /\ call'[i].kind = call[i].kind
    /\ call'[i].url = call[i].url /\ call'[i].left = call[i].left
    /\ call'[i].typed = call[i].typed /\ call'[i].moved = call[i].moved

GoesWith(i, step) ==
    /\ GoesTo(i, step)
    /\ call'[i].mark = call[i].mark /\ call'[i].id = call[i].id
    /\ call'[i].load = call[i].load

IsOver(i) ==
    /\ Alone(i)
    /\ call'[i].step = "unused" /\ call'[i].kind = "read" /\ ~call'[i].typed
    /\ call'[i].mark = 0 /\ call'[i].id = 0

\* The runs at work keep their tabs, and what they have cached.
RunsKeep ==
    \A r \in Runs :
        /\ run'[r].id = run[r].id /\ run'[r].load = run[r].load
        /\ run[r].state = "running" =>
              run'[r].state = "running" /\ run'[r].tab = run[r].tab

LEMMA UnusedFacts ==
    /\ Unused \in Call
    /\ Unused.run = 1 /\ Unused.kind = "read" /\ Unused.step = "unused" /\ ~Unused.left
    /\ Unused.mark = 0 /\ Unused.id = 0 /\ ~Unused.typed /\ ~Unused.moved
BY BrowserAssumption DEF Unused, Call, Kinds, Steps, Addresses

LEMMA EndFacts ==
    ASSUME TypeOK, NEW i \in Calls, Ends(i)
    PROVE  IsOver(i)
<1>1. call \in [Calls -> Call] /\ call' = [call EXCEPT ![i] = Unused]
    BY DEF TypeOK, Ends
<1>2. Alone(i) /\ call'[i] = Unused
    BY <1>1, UnusedFacts DEF Alone
<1> QED
    BY <1>2, UnusedFacts DEF IsOver

LEMMA GoFacts ==
    ASSUME TypeOK, NEW i \in Calls, NEW s \in Steps, Goes(i, s)
    PROVE  GoesWith(i, s)
<1> DEFINE c == [call[i] EXCEPT !.step = s]
<1>1. call \in [Calls -> Call] /\ call[i] \in Call
    BY DEF TypeOK
<1>2. c \in Call /\ c.step = s /\ c.run = call[i].run /\ c.kind = call[i].kind
      /\ c.url = call[i].url /\ c.left = call[i].left /\ c.typed = call[i].typed
      /\ c.moved = call[i].moved /\ c.mark = call[i].mark /\ c.id = call[i].id
      /\ c.load = call[i].load
    BY <1>1 DEF Call
<1>3. call' = [call EXCEPT ![i] = c]
    BY DEF Goes
<1> HIDE DEF c
<1>4. Alone(i) /\ call'[i] = c
    BY <1>1, <1>2, <1>3 DEF Alone
<1> QED
    BY <1>2, <1>4 DEF GoesWith, GoesTo

-------------------------------------------------------------------------------
(* The refs and the elements *)

\* Tab s is as it was to the labels, or the page has moved; its refs may be void.
Unmoved(s) ==
    /\ tab'[s].mark = tab[s].mark /\ tab'[s].moved = tab[s].moved
    /\ snapshot'[s].mark \in {0, snapshot[s].mark}
    /\ snapshot'[s].mark # 0 /\ snapshot[s].late => snapshot'[s].late
PageMoved(s) ==
    /\ tab'[s].mark \in {0, tab[s].mark} /\ snapshot'[s].mark \in {0, snapshot[s].mark}
    /\ snapshot'[s].mark # 0 => /\ tab'[s].mark = tab[s].mark
                                /\ snapshot[s].late => snapshot'[s].late
    /\ \A j \in Calls : TabOf(j) = s /\ call[j].step \in {"labelled", "confirmed"}
                            => call'[j].moved

\* The refs of tab s are void, or stand for what they did.
RefsKept(s) ==
    \/ snapshot'[s] = NoSnapshot
    \/ /\ snapshot'[s] = snapshot[s]
       /\ tab'[s].mark = tab[s].mark /\ tab'[s].moved = tab[s].moved

\* What j looked at is there, or it has noticed.
Notices(j) ==
    call[j].kind = "input" /\ call[j].step \in {"probing", "ready", "typing"} =>
        (OnPage(j) => OnPage(j)' \/ call'[j].moved)

PagesGood ==
    /\ \A t \in Tabs : NoneIsLater(t) /\ RefsStand(t)
    /\ RefsAreCurrent
    /\ \A i \in Calls : PagePart(i)

LEMMA RefsStep ==
    ASSUME PagesInv, RunsKeep,
           \A s \in Tabs : RefsKept(s),
           \A j \in Calls : Waits(j) \/ ~Renews(j)
    PROVE  RefsAreCurrent'
<1>1. ASSUME NEW j \in Calls, Renews(j)
      PROVE  Renews(j)' /\ TabOf(j)' = TabOf(j)
    <2>1. call[j].run \in Runs
        BY DEF PagesInv, TypeOK, Call
    <2>2. Active(j)
        BY <1>1 DEF Renews, Labelling, Typing, At, Active
    <2>3. run'[call[j].run].tab = run[call[j].run].tab
        BY <2>1, <2>2 DEF PagesInv, AllKnown, CallKnown, RunsKeep
    <2> QED
        BY <1>1, <2>3 DEF Renews, Labelling, Typing, At, Waits, TabOf
<1> SUFFICES ASSUME NEW s \in Tabs, snapshot'[s].mark # 0
             PROVE  \/ snapshot'[s].mark = tab'[s].mark /\ ~tab'[s].moved
                    \/ snapshot'[s].late
                    \/ \E i \in Calls : Renews(i)' /\ TabOf(i)' = s
    BY DEF RefsAreCurrent, Renews, Labelling, Typing
<1>2. /\ snapshot'[s] = snapshot[s]
      /\ tab'[s].mark = tab[s].mark /\ tab'[s].moved = tab[s].moved
    BY DEF RefsKept, NoSnapshot
<1>3. \/ snapshot[s].mark = tab[s].mark /\ ~tab[s].moved
      \/ snapshot[s].late
      \/ \E i \in Calls : Renews(i) /\ TabOf(i) = s
    BY <1>2 DEF PagesInv, RefsAreCurrent, Renews, Labelling, Typing
<1> QED
    BY <1>1, <1>2, <1>3

LEMMA PageStep ==
    ASSUME PagesInv, TypeOK', RunsKeep, RefsAreCurrent',
           \A s \in Tabs : Unmoved(s) \/ PageMoved(s),
           \A j \in Calls : \/ Waits(j) /\ Notices(j)
                            \/ ~Labelling(j) /\ PagePart(j)'
    PROVE  PagesGood'
<1>1. ASSUME NEW j \in Calls, Active(j)
      PROVE  TabOf(j) \in Tabs /\ run'[call[j].run].tab = TabOf(j)
    <2>1. call[j].run \in Runs
        BY DEF PagesInv, TypeOK, Call
    <2> QED
        BY <1>1, <2>1 DEF PagesInv, AllKnown, CallKnown, Bound, RunsKeep, TabOf
<1>2. ASSUME NEW j \in Calls, Labelling(j)
      PROVE  Labelling(j)' /\ TabOf(j)' = TabOf(j) /\ call'[j].mark = call[j].mark
             /\ TabOf(j) \in Tabs /\ (call[j].moved => call'[j].moved)
    <2>1. Active(j)
        BY <1>2 DEF Labelling, At, Active
    <2> QED
        BY <1>1, <1>2, <2>1 DEF Labelling, At, Waits, TabOf
<1>3. ASSUME NEW s \in Tabs PROVE NoneIsLater(s)'
    <2>1. snapshot'[s].mark \in {0, snapshot[s].mark} /\ tab'[s].mark \in {0, tab[s].mark}
        BY DEF Unmoved, PageMoved
    <2>2. tab'[s].mark \in Nat
        BY DEF TypeOK
    <2> QED
        BY <2>1, <2>2 DEF PagesInv, NoneIsLater
<1>4. ASSUME NEW s \in Tabs PROVE RefsStand(s)'
    <2>1. RefsStand(s)
        BY DEF PagesInv
    <2>2. snapshot'[s].mark # 0 => /\ snapshot'[s].mark = snapshot[s].mark
                                   /\ tab'[s].mark = tab[s].mark
                                   /\ snapshot[s].late => snapshot'[s].late
        BY DEF Unmoved, PageMoved
    <2> QED
        BY <1>2, <2>1, <2>2 DEF RefsStand, Labelling, TabOf
<1>5. ASSUME NEW j \in Calls PROVE PagePart(j)'
    <2>1. CASE Waits(j) /\ Notices(j)
        <3>1. PagePart(j)
            BY DEF PagesInv
        <3>2. LabelsStand(j)'
            <4> SUFFICES ASSUME Labelling(j)', ~call'[j].moved
                         PROVE  \/ call'[j].mark = tab'[TabOf(j)'].mark /\ ~tab'[TabOf(j)'].moved
                                \/ \E k \in Calls : /\ Labelling(k)' /\ TabOf(k)' = TabOf(j)'
                                                    /\ call'[k].mark > call'[j].mark
                BY DEF LabelsStand, TabOf
            <4>1. Labelling(j)
                BY <2>1 DEF Labelling, At, Waits
            <4>2. TabOf(j)' = TabOf(j) /\ call'[j].mark = call[j].mark /\ TabOf(j) \in Tabs
                BY <1>2, <4>1
            <4>3. ~call[j].moved
                BY <1>2, <4>1
            <4>4. Unmoved(TabOf(j))
                BY <4>1, <4>2 DEF PageMoved, Labelling, At
            <4>5. CASE call[j].mark = tab[TabOf(j)].mark /\ ~tab[TabOf(j)].moved
                BY <4>2, <4>4, <4>5 DEF Unmoved
            <4>6. CASE \E k \in Calls : /\ Labelling(k) /\ TabOf(k) = TabOf(j)
                                        /\ call[k].mark > call[j].mark
                <5>1. PICK k \in Calls : /\ Labelling(k) /\ TabOf(k) = TabOf(j)
                                         /\ call[k].mark > call[j].mark
                    BY <4>6
                <5> QED
                    BY <1>2, <4>2, <5>1
            <4> QED
                BY <3>1, <4>1, <4>3, <4>5, <4>6 DEF PagePart, LabelsStand
        <3>3. NotLater(j)'
            <4> SUFFICES ASSUME call'[j].step \in {"labelled", "found", "prepared", "confirmed"},
                                tab'[TabOf(j)'].mark # 0
                         PROVE  call'[j].mark <= tab'[TabOf(j)'].mark
                BY DEF NotLater, TabOf
            <4>1. call[j].step \in {"labelled", "found", "prepared", "confirmed"} /\ Active(j)
                BY <2>1 DEF Waits, Active
            <4>2. TabOf(j)' = TabOf(j) /\ TabOf(j) \in Tabs /\ call'[j].mark = call[j].mark
                BY <1>1, <2>1, <4>1 DEF Waits, TabOf
            <4>3. tab'[TabOf(j)].mark = tab[TabOf(j)].mark
                BY <4>2 DEF Unmoved, PageMoved
            <4> QED
                BY <3>1, <4>1, <4>2, <4>3 DEF PagePart, NotLater
        <3>4. StillThere(j)'
            <4>1. ASSUME call'[j].step = "confirmed"
                  PROVE  tab'[TabOf(j)'].mark # 0 \/ call'[j].moved
                <5>1. call[j].step = "confirmed" /\ Active(j)
                    BY <2>1, <4>1 DEF Waits, Active
                <5>2. TabOf(j)' = TabOf(j) /\ TabOf(j) \in Tabs
                    BY <1>1, <2>1, <5>1 DEF Waits, TabOf
                <5>3. tab[TabOf(j)].mark # 0 \/ call[j].moved
                    BY <3>1, <5>1 DEF PagePart, StillThere
                <5> QED
                    BY <2>1, <5>1, <5>2, <5>3 DEF Waits, Unmoved, PageMoved
            <4>2. ASSUME call'[j].kind = "input", call'[j].step \in {"probing", "ready", "typing"}
                  PROVE  OnPage(j)' \/ call'[j].moved
                <5>1. call[j].kind = "input" /\ call[j].step \in {"probing", "ready", "typing"}
                    BY <2>1, <4>2 DEF Waits
                <5>2. OnPage(j) \/ call[j].moved
                    BY <3>1, <5>1 DEF PagePart, StillThere
                <5> QED
                    BY <2>1, <5>1, <5>2 DEF Waits, Notices
            <4> QED
                BY <4>1, <4>2 DEF StillThere, TabOf
        <3> QED
            BY <3>2, <3>3, <3>4 DEF PagePart
    <2>2. CASE PagePart(j)'
        BY <2>2
    <2> QED
        BY <2>1, <2>2
<1> QED
    BY <1>3, <1>4, <1>5 DEF PagesGood

-------------------------------------------------------------------------------
(* The PDF *)

PdfGood ==
    /\ OneReader
    /\ \A i \in Calls : Reading(i)
    /\ \A r \in Runs : Given(r)

\* A token is as it was, of the page that was there, or is void.
TokenKept(s) ==
    \/ token'[s].id = token[s].id /\ tab'[s].load = tab[s].load
    \/ token'[s].id = 0

LEMMA PdfStep ==
    ASSUME PagesInv, TypeOK', RunsKeep, UNCHANGED pages,
           \A s \in Tabs : TokenKept(s),
           \A j \in Calls : \/ Waits(j)
                            \/ ~InPdf(j)'
                            \/ /\ call'[j].step = "asked" /\ ~call'[j].left
                               /\ \A k \in Calls : k # j => Waits(k)
                               /\ \A k \in Calls : k # j /\ InPdf(k)
                                                      => call[k].run # call'[j].run
    PROVE  PdfGood'
<1>1. ASSUME NEW j \in Calls, Active(j)
      PROVE  TabOf(j) \in Tabs /\ run'[call[j].run].tab = TabOf(j) /\ call[j].run \in Runs
    <2>1. call[j].run \in Runs
        BY DEF PagesInv, TypeOK, Call
    <2> QED
        BY <1>1, <2>1 DEF PagesInv, AllKnown, CallKnown, Bound, RunsKeep, TabOf
<1>2. OneReader'
    <2> SUFFICES ASSUME NEW i \in Calls, NEW j \in Calls, InPdf(i)', InPdf(j)',
                        call'[i].run = call'[j].run, i # j
                 PROVE  FALSE
        BY DEF OneReader
    <2>1. CASE Waits(i) /\ Waits(j)
        <3>1. InPdf(i) /\ InPdf(j) /\ call[i].run = call[j].run
            BY <2>1 DEF InPdf, Active, Waits
        <3> QED
            BY <3>1 DEF PagesInv, OneReader
    <2>2. CASE ~Waits(i)
        BY <2>2 DEF InPdf, Active, Waits
    <2>3. CASE ~Waits(j)
        BY <2>3 DEF InPdf, Active, Waits
    <2> QED
        BY <2>1, <2>2, <2>3
<1>3. ASSUME NEW j \in Calls PROVE Reading(j)'
    <2>1. CASE Waits(j)
        <3>1. Reading(j)
            BY DEF PagesInv
        <3>2. CASE ~InPdf(j)
            BY <2>1, <3>2 DEF Reading, InPdf, At, Waits, Active
        <3>3. CASE InPdf(j)
            <4>1. Active(j) /\ call[j].run \in Runs /\ TabOf(j) \in Tabs /\ TabOf(j)' = TabOf(j)
                BY <1>1, <2>1, <3>3 DEF InPdf, Waits, TabOf
            <4>2. Cached(j)'.id = Cached(j).id /\ Cached(j)'.load = Cached(j).load
                BY <2>1, <4>1 DEF Cached, RunsKeep, Waits
            <4>3. TokenKept(TabOf(j))
                BY <4>1
            <4>4. call[j].id # 0 /\ SamePage(TabOf(j), call[j].id, call[j].load)
                     => SamePage(TabOf(j), call[j].id, call[j].load)'
                BY <2>1, <4>1, <4>3 DEF SamePage, TokenKept, Waits, TabOf
            <4> QED
                BY <2>1, <3>1, <3>3, <4>2, <4>4 DEF Reading, InPdf, At, Waits, Active
        <3> QED
            BY <3>2, <3>3
    <2>2. CASE ~InPdf(j)'
        BY <2>2 DEF Reading, InPdf, At, Active
    <2>3. CASE call'[j].step = "asked" /\ ~call'[j].left
        BY <2>3 DEF Reading, At
    <2> QED
        BY <2>1, <2>2, <2>3
<1>4. ASSUME NEW r \in Runs PROVE Given(r)'
    <2>1. Given(r)
        BY DEF PagesInv
    <2>2. run'[r].id = run[r].id /\ run'[r].load = run[r].load
          /\ (run[r].state = "running" => run'[r].state = "running" /\ run'[r].tab = run[r].tab)
        BY DEF RunsKeep
    <2>3. ASSUME run'[r].state = "running", run'[r].id # 0, run'[r].load # 0
          PROVE  SamePage(run[r].tab, run[r].id, run[r].load)'
        <3>1. run[r].state = "running"
            BY <2>1, <2>2, <2>3 DEF Given
        <3>2. run[r].tab \in Tabs
            BY <3>1 DEF PagesInv, AllKnown, Bound
        <3>3. SamePage(run[r].tab, run[r].id, run[r].load)
            BY <2>1, <2>2, <2>3, <3>1 DEF Given
        <3> QED
            BY <2>2, <2>3, <3>1, <3>2, <3>3 DEF SamePage, TokenKept
    <2> QED
        BY <2>1, <2>2, <2>3 DEF Given
<1> QED
    BY <1>2, <1>3, <1>4 DEF PdfGood

-------------------------------------------------------------------------------
(* The numbers *)

LEMMA KnownStep ==
    ASSUME PagesInv, TypeOK',
           count.mark <= count'.mark, count.token <= count'.token,
           \A r \in Runs : /\ run'[r].state = run[r].state /\ run'[r].tab = run[r].tab
                           /\ run'[r].id <= count'.token,
           UNCHANGED binding,
           \A s \in Tabs : /\ tab'[s].mark <= count'.mark /\ snapshot'[s].mark <= count'.mark
                           /\ token'[s].id <= count'.token
                           /\ tab'[s].url # Blank => tab'[s].load # 0,
           \A j \in Calls : Waits(j) \/ CallKnown(j)'
    PROVE  AllKnown'
<1>1. \A r \in Runs : Bound(r)' /\ run'[r].id <= count'.token
    BY DEF PagesInv, AllKnown, Bound
<1>2. \A s \in Tabs : TabKnown(s)'
    BY DEF TabKnown
<1>3. ASSUME NEW j \in Calls, Waits(j) PROVE CallKnown(j)'
    <2>1. call[j].mark <= count.mark /\ call[j].id <= count.token
          /\ (Active(j) => run[call[j].run].state = "running")
        BY DEF PagesInv, AllKnown, CallKnown
    <2>2. call[j] \in Call /\ count.mark \in Nat /\ count.token \in Nat
          /\ count'.mark \in Nat /\ count'.token \in Nat
        BY DEF PagesInv, TypeOK
    <2>3. call[j].mark \in Nat /\ call[j].id \in Nat /\ call[j].run \in Runs
        BY <2>2 DEF Call
    <2>4. call[j].mark <= count'.mark /\ call[j].id <= count'.token
        BY <2>1, <2>2, <2>3
    <2> QED
        BY <1>3, <2>1, <2>3, <2>4 DEF CallKnown, Waits, Active
<1> QED
    BY <1>1, <1>2, <1>3 DEF AllKnown

\* What the invariant says of the numbers.
LEMMA Facts ==
    ASSUME PagesInv
    PROVE  /\ count.mark \in Nat /\ count.token \in Nat /\ count.load \in Nat
           /\ \A t \in Tabs :
                 /\ tab[t].mark \in Nat /\ tab[t].load \in Nat /\ tab[t].url \in Addresses
                 /\ snapshot[t].mark \in Nat /\ token[t].id \in Nat /\ token[t].url \in Addresses
                 /\ tab[t].mark <= count.mark /\ snapshot[t].mark <= count.mark
                 /\ token[t].id <= count.token
                 /\ tab[t].url # Blank => tab[t].load # 0
           /\ \A r \in Runs :
                 /\ run[r].id \in Nat /\ run[r].load \in Nat /\ run[r].id <= count.token
                 /\ run[r].state = "running" => run[r].tab \in Tabs
           /\ \A i \in Calls :
                 /\ call[i].mark \in Nat /\ call[i].id \in Nat /\ call[i].load \in Nat
                 /\ call[i].run \in Runs
                 /\ call[i].mark <= count.mark /\ call[i].id <= count.token
                 /\ Active(i) => TabOf(i) \in Tabs /\ run[call[i].run].state = "running"
<1>1. count.mark \in Nat /\ count.token \in Nat /\ count.load \in Nat
    BY DEF PagesInv, TypeOK
<1>2. ASSUME NEW t \in Tabs
      PROVE  /\ tab[t].mark \in Nat /\ tab[t].load \in Nat /\ tab[t].url \in Addresses
             /\ snapshot[t].mark \in Nat /\ token[t].id \in Nat /\ token[t].url \in Addresses
    BY DEF PagesInv, TypeOK
<1>3. ASSUME NEW r \in Runs PROVE run[r].id \in Nat /\ run[r].load \in Nat
    BY DEF PagesInv, TypeOK
<1>4. ASSUME NEW i \in Calls
      PROVE  /\ call[i].mark \in Nat /\ call[i].id \in Nat /\ call[i].load \in Nat
             /\ call[i].run \in Runs
    BY DEF PagesInv, TypeOK, Call
<1>5. AllKnown
    BY DEF PagesInv
<1>6. \A t \in Tabs : TabKnown(t)
    BY <1>5 DEF AllKnown
<1>7. \A r \in Runs : run[r].id <= count.token /\ (run[r].state = "running" => run[r].tab \in Tabs)
    BY <1>5 DEF AllKnown, Bound
<1>8. \A i \in Calls : CallKnown(i)
    BY <1>5 DEF AllKnown
<1>9. ASSUME NEW i \in Calls, Active(i)
      PROVE  TabOf(i) \in Tabs /\ run[call[i].run].state = "running"
    BY <1>4, <1>7, <1>8, <1>9 DEF CallKnown, TabOf
<1> QED
    BY <1>1, <1>2, <1>3, <1>4, <1>6, <1>7, <1>8, <1>9 DEF TabKnown, CallKnown

(***************************************************************************)
(* A step of one call that changes nothing but the call.                   *)
(***************************************************************************)
CallStep(i) ==
    /\ Alone(i)
    /\ Waits(i) \/ (~Renews(i) /\ PagePart(i)')
    /\ Waits(i) \/ ~InPdf(i)'
    /\ CallKnown(i)'
    /\ UNCHANGED <<run, binding, visible, tab, snapshot, token, going, count, moves, pages>>

LEMMA CallStepInv ==
    ASSUME PagesInv, NEW i \in Calls, CallStep(i)
    PROVE  PagesInv'
<1>1. TypeOK'
    BY DEF CallStep, Alone, PagesInv, TypeOK
<1>2. RunsKeep
    BY DEF RunsKeep, CallStep
<1>3. \A j \in Calls : j # i => Waits(j) /\ Notices(j)
    BY DEF CallStep, Alone, Waits, Notices, OnPage, IsShown, IsOpen, TabOf
<1>4. Waits(i) => Notices(i)
    BY DEF CallStep, Waits, Notices, OnPage, IsShown, IsOpen, TabOf
<1>5. \A s \in Tabs : Unmoved(s) /\ TokenKept(s)
    BY DEF CallStep, Unmoved, TokenKept
<1>6. PagesGood'
    <2>1. \A s \in Tabs : RefsKept(s)
        BY DEF CallStep, RefsKept
    <2>2. \A j \in Calls : Waits(j) \/ ~Renews(j)
        BY <1>3 DEF CallStep
    <2>3. RefsAreCurrent'
        BY <1>2, <2>1, <2>2, RefsStep
    <2> QED
        BY <1>1, <1>2, <1>3, <1>4, <1>5, <2>3, PageStep DEF CallStep, Renews
<1>7. PdfGood'
    BY <1>1, <1>2, <1>3, <1>5, PdfStep DEF CallStep
<1>8. AllKnown'
    <2>1. \A j \in Calls : Waits(j) \/ CallKnown(j)'
        BY <1>3 DEF CallStep
    <2>2. UNCHANGED <<count, run, binding, tab, snapshot, token>>
        BY DEF CallStep
    <2>3. count.mark <= count'.mark /\ count.token <= count'.token
        BY <2>2, Facts
    <2>4. \A r \in Runs : /\ run'[r].state = run[r].state /\ run'[r].tab = run[r].tab
                          /\ run'[r].id <= count'.token
        BY <2>2, Facts
    <2>5. \A s \in Tabs : /\ tab'[s].mark <= count'.mark /\ snapshot'[s].mark <= count'.mark
                          /\ token'[s].id <= count'.token
                          /\ tab'[s].url # Blank => tab'[s].load # 0
        BY <2>2, Facts
    <2> QED
        BY <1>1, <2>1, <2>2, <2>3, <2>4, <2>5, KnownStep
<1> QED
    BY <1>1, <1>6, <1>7, <1>8 DEF PagesInv, PagesGood, PdfGood

\* A call that is over says nothing of any page.
LEMMA OverIsGood ==
    ASSUME PagesInv, NEW i \in Calls, IsOver(i), TypeOK'
    PROVE  PagePart(i)' /\ ~InPdf(i)'
           /\ (count.mark <= count'.mark /\ count.token <= count'.token => CallKnown(i)')
<1>1. PagePart(i)'
    BY DEF IsOver, PagePart, LabelsStand, Labelling, At, NotLater, StillThere
<1>2. ~InPdf(i)'
    BY DEF IsOver, InPdf
<1>3. count'.mark \in Nat /\ count'.token \in Nat
    BY DEF TypeOK
<1>4. ~Active(i)' /\ call'[i].mark = 0 /\ call'[i].id = 0
    BY DEF IsOver, Active
<1>5. CallKnown(i)'
    BY <1>3, <1>4 DEF CallKnown
<1> QED
    BY <1>1, <1>2, <1>5

-------------------------------------------------------------------------------
(* The steps of one call: reading, and looking for an element *)

LEMMA EndStep ==
    ASSUME PagesInv, NEW i \in Calls, Ends(i), ~Renews(i),
           UNCHANGED <<run, binding, visible, tab, snapshot, token, going, count, moves, pages>>
    PROVE  PagesInv'
<1>1. IsOver(i)
    BY EndFacts DEF PagesInv
<1>2. TypeOK'
    BY <1>1 DEF IsOver, Alone, PagesInv, TypeOK
<1>3. PagePart(i)' /\ ~InPdf(i)' /\ CallKnown(i)'
    BY <1>1, <1>2, Facts, OverIsGood
<1> QED
    BY <1>1, <1>3, CallStepInv DEF CallStep, IsOver

\* A step of a click or an edit: it goes on with a page that has a label.
LEMMA ActingStep ==
    ASSUME PagesInv, NEW i \in Calls, call[i].kind \in Acting, Active(i),
           NEW s \in {"prepared", "confirmed", "acted"}, Goes(i, s),
           call[i].step \in {"found", "prepared", "confirmed"},
           s = "confirmed" => Selects(TabOf(i)),
           UNCHANGED <<run, binding, visible, tab, snapshot, token, going, count, moves, pages>>
    PROVE  PagesInv'
<1>1. GoesWith(i, s)
    BY GoFacts DEF PagesInv, Steps
<1>2. call'[i].kind = call[i].kind /\ call[i].kind \notin {"snapshot", "input", "pdf"}
    BY <1>1 DEF GoesWith, GoesTo, Acting
<1>3. TabOf(i)' = TabOf(i) /\ call'[i].mark = call[i].mark /\ call'[i].step = s
    BY <1>1 DEF GoesWith, GoesTo, TabOf
<1>4. PagePart(i)
    BY DEF PagesInv
<1>5. LabelsStand(i)'
    BY <1>2 DEF LabelsStand, Renews, Labelling, Typing, At
<1>6. NotLater(i)'
    BY <1>3, <1>4 DEF PagePart, NotLater, TabOf
<1>7. StillThere(i)'
    BY <1>2, <1>3 DEF StillThere, Selects, TabOf
<1>8. CallKnown(i)'
    BY <1>1, Facts DEF GoesWith, GoesTo, CallKnown, Active
<1>9. ~InPdf(i)' /\ ~Renews(i)
    BY <1>2 DEF InPdf, Renews, Labelling, Typing, At
<1> QED
    BY <1>1, <1>5, <1>6, <1>7, <1>8, <1>9, CallStepInv
    DEF CallStep, PagePart, GoesWith, GoesTo

LEMMA ReadsInv ==
    ASSUME PagesInv, NEW i \in Calls, Reads(i)
    PROVE  PagesInv'
BY EndStep DEF Reads, Renews, Labelling, Typing, At

LEMMA PrepareInv ==
    ASSUME PagesInv, NEW i \in Calls, Prepare(i)
    PROVE  PagesInv'
<1>1. ~Renews(i) /\ Active(i)
    BY DEF Prepare, Renews, Labelling, Typing, At, Acting, Active
<1>2. CASE Goes(i, "prepared")
    BY <1>1, <1>2, ActingStep DEF Prepare
<1>3. CASE Ends(i)
    BY <1>1, <1>3, EndStep DEF Prepare
<1> QED
    BY <1>2, <1>3 DEF Prepare

LEMMA ConfirmInv ==
    ASSUME PagesInv, NEW i \in Calls, Confirm(i)
    PROVE  PagesInv'
<1>1. ~Renews(i) /\ Active(i) /\ call[i].kind \in Acting /\ call[i].step = "prepared"
    BY DEF Confirm, Renews, Labelling, Typing, At, Acting, Active
<1>2. CASE Selects(TabOf(i)) /\ Goes(i, "confirmed")
    BY <1>1, <1>2, ActingStep DEF Confirm
<1>3. CASE Ends(i)
    BY <1>1, <1>3, EndStep DEF Confirm
<1> QED
    BY <1>2, <1>3 DEF Confirm

LEMMA PressInv ==
    ASSUME PagesInv, NEW i \in Calls, Press(i)
    PROVE  PagesInv'
<1>1. ~Renews(i) /\ Active(i) /\ call[i].kind \in Acting /\ call[i].step = "confirmed"
    BY DEF Press, Renews, Labelling, Typing, At, Acting, Active
<1>2. CASE Goes(i, "acted")
    BY <1>1, <1>2, ActingStep DEF Press
<1>3. CASE Ends(i)
    BY <1>1, <1>3, EndStep DEF Press
<1> QED
    BY <1>2, <1>3 DEF Press

LEMMA ActInPageInv ==
    ASSUME PagesInv, NEW i \in Calls, ActInPage(i)
    PROVE  PagesInv'
<1>1. ~Renews(i) /\ Active(i)
    BY DEF ActInPage, Renews, Labelling, Typing, At, Acting, Active
<1>2. CASE Goes(i, "acted")
    BY <1>1, <1>2, ActingStep DEF ActInPage
<1>3. CASE Ends(i)
    BY <1>1, <1>3, EndStep DEF ActInPage
<1> QED
    BY <1>2, <1>3 DEF ActInPage

LEMMA SettleInv ==
    ASSUME PagesInv, NEW i \in Calls, Settle(i)
    PROVE  PagesInv'
<1>1. ~Renews(i)
    BY DEF Settle, Renews, Labelling, Typing, At, Acting
<1> QED
    BY <1>1, EndStep DEF Settle

\* The ref is looked up.
LEMMA LookInv ==
    ASSUME PagesInv, NEW i \in Calls, Look(i)
    PROVE  PagesInv'
<1>1. ~Renews(i) /\ call[i].kind \notin {"snapshot", "input", "pdf"}
      /\ Active(i) /\ TabOf(i) \in Tabs
    <2>1. ~Renews(i) /\ call[i].kind \notin {"snapshot", "input", "pdf"} /\ Active(i)
        BY DEF Look, Renews, Labelling, Typing, At, Acting, Active
    <2> QED
        BY <2>1, Facts
<1>2. CASE /\ IsShown(TabOf(i)) /\ snapshot[TabOf(i)].mark # 0
           /\ call' = [call EXCEPT ![i].step = "found", ![i].mark = snapshot[TabOf(i)].mark]
    <2> DEFINE m == snapshot[TabOf(i)].mark
               c == [call[i] EXCEPT !.step = "found", !.mark = m]
    <2>1. call \in [Calls -> Call] /\ call[i] \in Call /\ m \in Nat /\ m <= count.mark
        BY <1>1, Facts DEF PagesInv, TypeOK
    <2>2. c \in Call /\ c.step = "found" /\ c.run = call[i].run /\ c.kind = call[i].kind
          /\ c.mark = m /\ c.id = call[i].id
        BY <2>1 DEF Call, Steps
    <2>3. call' = [call EXCEPT ![i] = c]
        BY <1>2
    <2>4. tab[TabOf(i)].mark # 0 => m <= tab[TabOf(i)].mark
        BY <1>1 DEF PagesInv, NoneIsLater
    <2> HIDE DEF c, m
    <2>5. Alone(i) /\ call'[i] = c
        BY <2>1, <2>2, <2>3 DEF Alone
    <2>6. UNCHANGED <<run, binding, visible, tab, snapshot, token, going, count, moves, pages>>
        BY DEF Look
    <2>7. TabOf(i)' = TabOf(i)
        BY <2>2, <2>5, <2>6 DEF TabOf
    <2>8. LabelsStand(i)' /\ StillThere(i)' /\ ~InPdf(i)'
        BY <1>1, <2>2, <2>5 DEF LabelsStand, Renews, Labelling, Typing, At, StillThere, InPdf
    <2>9. NotLater(i)'
        BY <2>2, <2>4, <2>5, <2>6, <2>7 DEF NotLater
    <2>10. CallKnown(i)'
        BY <1>1, <2>1, <2>2, <2>5, <2>6, Facts DEF CallKnown
    <2> QED
        BY <1>1, <2>5, <2>6, <2>8, <2>9, <2>10, CallStepInv DEF CallStep, PagePart
<1>3. CASE Ends(i)
    BY <1>1, <1>3, EndStep DEF Look
<1> QED
    BY <1>2, <1>3 DEF Look

-------------------------------------------------------------------------------
(* Input, until Main hands it over *)

LEMMA InputStep ==
    ASSUME PagesInv, NEW i \in Calls, call[i].kind = "input", Active(i), ~Renews(i),
           NEW s \in {"focusing", "observing", "probing", "ready", "typing"}, Goes(i, s),
           s \in {"probing", "ready", "typing"} => OnPage(i) \/ call[i].moved,
           UNCHANGED <<run, binding, visible, tab, snapshot, token, going, count, moves, pages>>
    PROVE  PagesInv'
<1>1. GoesWith(i, s)
    BY GoFacts DEF PagesInv, Steps
<1>2. OnPage(i)' <=> OnPage(i)
    BY <1>1 DEF OnPage, IsShown, IsOpen, TabOf, GoesWith, GoesTo
<1>3. LabelsStand(i)' /\ NotLater(i)'
    BY <1>1 DEF LabelsStand, Renews, Labelling, Typing, At, NotLater, GoesWith, GoesTo
<1>4. StillThere(i)'
    BY <1>1, <1>2 DEF StillThere, GoesWith, GoesTo
<1>5. CallKnown(i)'
    BY <1>1, Facts DEF GoesWith, GoesTo, CallKnown, Active
<1>6. ~InPdf(i)' /\ ~Renews(i)
    BY <1>1 DEF InPdf, Renews, Labelling, Typing, At, GoesWith, GoesTo
<1> QED
    BY <1>1, <1>3, <1>4, <1>5, <1>6, CallStepInv DEF CallStep, PagePart, GoesWith, GoesTo

LEMMA LookAgainInv ==
    ASSUME PagesInv, NEW i \in Calls, NEW s \in {"asked", "focusing", "observing"},
           NEW n \in {"focusing", "observing", "probing"}, LookAgain(i, s, n)
    PROVE  PagesInv'
<1>1. ~Renews(i) /\ Active(i) /\ call[i].kind = "input"
    BY DEF LookAgain, Renews, Labelling, Typing, At, Active, PagesInv, PagePart
<1>2. CASE OnPage(i) /\ Goes(i, n)
    BY <1>1, <1>2, InputStep DEF LookAgain
<1>3. CASE Ends(i)
    BY <1>1, <1>3, EndStep DEF LookAgain
<1> QED
    BY <1>2, <1>3 DEF LookAgain

LEMMA FocusedInv ==
    ASSUME PagesInv, NEW i \in Calls, Focused(i)
    PROVE  PagesInv'
<1>1. ~Renews(i) /\ Active(i) /\ call[i].kind = "input"
      /\ (OnPage(i) \/ call[i].moved)
    BY DEF Focused, Renews, Labelling, Typing, At, Active, PagesInv, PagePart, StillThere
<1>2. CASE Goes(i, "ready")
    BY <1>1, <1>2, InputStep DEF Focused
<1>3. CASE Ends(i)
    BY <1>1, <1>3, EndStep DEF Focused
<1> QED
    BY <1>2, <1>3 DEF Focused

LEMMA DispatchInv ==
    ASSUME PagesInv, NEW i \in Calls, Dispatch(i)
    PROVE  PagesInv'
<1>1. ~Renews(i) /\ Active(i) /\ call[i].kind = "input" /\ (OnPage(i) \/ call[i].moved)
    BY DEF Dispatch, Renews, Labelling, Typing, At, Active, PagesInv, PagePart, StillThere
<1>2. CASE Goes(i, "typing")
    BY <1>1, <1>2, InputStep DEF Dispatch
<1>3. CASE Ends(i)
    BY <1>1, <1>3, EndStep DEF Dispatch
<1> QED
    BY <1>2, <1>3 DEF Dispatch

LEMMA ObservedInv ==
    ASSUME PagesInv, NEW i \in Calls, Observed(i)
    PROVE  PagesInv'
BY EndStep DEF Observed, Renews, Labelling, Typing, At

LEMMA UnreadableInv ==
    ASSUME PagesInv, NEW i \in Calls, Unreadable(i)
    PROVE  PagesInv'
BY EndStep DEF Unreadable, Renews, Labelling, Typing, At

-------------------------------------------------------------------------------
(* The tools and the runs *)

LEMMA PostInv ==
    ASSUME PagesInv, NEW r \in Runs, NEW i \in Calls, NEW kind \in Kinds,
           NEW u \in Addresses, Post(r, i, kind, u)
    PROVE  PagesInv'
<1> DEFINE c == [Unused EXCEPT !.run = r, !.kind = kind, !.step = "asked", !.url = u]
<1>1. c \in Call /\ c.run = r /\ c.kind = kind /\ c.step = "asked" /\ ~c.left /\ ~c.typed
      /\ c.mark = 0 /\ c.id = 0
    BY BrowserAssumption DEF Unused, Call, Kinds, Steps, Addresses
<1>2. call' = [call EXCEPT ![i] = c]
    BY DEF Post
<1> HIDE DEF c
<1>3. call \in [Calls -> Call]
    BY DEF PagesInv, TypeOK
<1>4. Alone(i) /\ call'[i] = c
    BY <1>1, <1>2, <1>3 DEF Alone
<1>5. count' = [count EXCEPT !.call = count.call + 1] /\ count.call < MaxCalls
      /\ UNCHANGED <<run, binding, visible, tab, snapshot, token, going, moves, pages>>
    BY DEF Post
<1>6. count \in [load : Nat, mark : Nat, token : Nat, call : 0 .. MaxCalls]
    BY DEF PagesInv, TypeOK
<1>7. count' \in [load : Nat, mark : Nat, token : Nat, call : 0 .. MaxCalls]
      /\ count'.mark = count.mark /\ count'.token = count.token
    BY <1>5, <1>6, BrowserAssumption
<1>8. TypeOK'
    BY <1>4, <1>5, <1>7 DEF Alone, PagesInv, TypeOK
<1>9. RunsKeep
    BY <1>5 DEF RunsKeep
<1>10. \A j \in Calls : j # i => Waits(j) /\ Notices(j)
    BY <1>4, <1>5 DEF Alone, Waits, Notices, OnPage, IsShown, IsOpen, TabOf
<1>11. \A s \in Tabs : Unmoved(s) /\ TokenKept(s)
    BY <1>5 DEF Unmoved, TokenKept
<1>12. ~Renews(i) /\ PagePart(i)'
    <2>1. ~Renews(i)
        BY DEF Post, Renews, Labelling, Typing, At
    <2>2. PagePart(i)'
        BY <1>1, <1>4 DEF PagePart, LabelsStand, Labelling, At, NotLater, StillThere
    <2> QED
        BY <2>1, <2>2
<1>13. PagesGood'
    <2>1. \A s \in Tabs : RefsKept(s)
        BY <1>5 DEF RefsKept
    <2>2. \A j \in Calls : Waits(j) \/ ~Renews(j)
        BY <1>10, <1>12
    <2>3. RefsAreCurrent'
        BY <1>9, <2>1, <2>2, RefsStep
    <2> QED
        BY <1>8, <1>9, <1>10, <1>11, <1>12, <2>3, PageStep DEF Renews
<1>14. ASSUME NEW k \in Calls, k # i, InPdf(k) PROVE call[k].run # call'[i].run
    <2>1. ~call[k].left /\ call[k].step # "unused"
        BY <1>14 DEF PagesInv, Reading, InPdf, Active
    <2> QED
        BY <1>1, <1>4, <2>1 DEF Post
<1>15. PdfGood'
    <2>1. /\ call'[i].step = "asked" /\ ~call'[i].left
          /\ \A k \in Calls : k # i => Waits(k)
          /\ \A k \in Calls : k # i /\ InPdf(k) => call[k].run # call'[i].run
        BY <1>1, <1>4, <1>10, <1>14
    <2>2. UNCHANGED pages
        BY <1>5
    <2>3. \A s \in Tabs : TokenKept(s)
        BY <1>11
    <2>4. \A j \in Calls : j # i => Waits(j)
        BY <1>10
    <2> QED
        BY <1>8, <1>9, <2>1, <2>2, <2>3, <2>4, PdfStep
<1>16. CallKnown(i)'
    <2>1. run'[call'[i].run].state = "running"
        BY <1>1, <1>4, <1>5 DEF Post
    <2>2. call'[i].mark = 0 /\ call'[i].id = 0 /\ 0 <= count'.mark /\ 0 <= count'.token
        BY <1>1, <1>4, <1>7
    <2> QED
        BY <2>1, <2>2 DEF CallKnown
<1>17. AllKnown'
    <2>1. count.mark <= count'.mark /\ count.token <= count'.token
        BY <1>7, Facts
    <2>2. \A s \in Runs : /\ run'[s].state = run[s].state /\ run'[s].tab = run[s].tab
                          /\ run'[s].id <= count'.token
        BY <1>5, <1>7, Facts
    <2>3. \A s \in Tabs : /\ tab'[s].mark <= count'.mark /\ snapshot'[s].mark <= count'.mark
                          /\ token'[s].id <= count'.token
                          /\ tab'[s].url # Blank => tab'[s].load # 0
        BY <1>5, <1>7, Facts
    <2>4. \A j \in Calls : Waits(j) \/ CallKnown(j)'
        BY <1>10, <1>16
    <2> QED
        BY <1>5, <1>8, <2>1, <2>2, <2>3, <2>4, KnownStep
<1> QED
    BY <1>8, <1>13, <1>15, <1>17 DEF PagesInv, PagesGood, PdfGood

LEMMA AsksInv ==
    ASSUME PagesInv, NEW r \in Runs, NEW i \in Calls, Asks(r, i)
    PROVE  PagesInv'
<1>1. ASSUME NEW kind \in Kinds, NEW u \in Addresses, Post(r, i, kind, u) PROVE PagesInv'
    BY <1>1, PostInv
<1> QED
    BY <1>1 DEF Asks, ReadTool, WaitTool, SnapshotTool, ClickTool, FillTool, SelectTool,
                PdfTool, NavigateTool, InputTool, Kinds, Addresses

\* A run is queued or begins: it has no calls, and has cached nothing.
LEMMA RunStep ==
    ASSUME PagesInv, NEW r \in Runs, TypeOK', run[r].state # "running",
           \A s \in Runs : /\ s # r => run'[s] = run[s] /\ binding'[s] = binding[s]
                           /\ run'[s].id = run[s].id /\ run'[s].load = run[s].load,
           Bound(r)',
           UNCHANGED <<visible, tab, snapshot, token, call, count, pages>>
    PROVE  PagesInv'
<1>1. RunsKeep
    BY DEF RunsKeep
<1>2. ASSUME NEW j \in Calls, Active(j)
      PROVE  run'[call[j].run] = run[call[j].run] /\ run[call[j].run].state = "running"
    BY <1>2, Facts
<1>3. \A j \in Calls : Waits(j) /\ Notices(j)
    BY <1>2 DEF Waits, Notices, OnPage, IsShown, IsOpen, TabOf, Active
<1>4. \A s \in Tabs : Unmoved(s) /\ TokenKept(s)
    BY DEF Unmoved, TokenKept
<1>5. PagesGood'
    <2>1. \A s \in Tabs : RefsKept(s)
        BY DEF RefsKept
    <2>2. RefsAreCurrent'
        BY <1>1, <1>3, <2>1, RefsStep
    <2> QED
        BY <1>1, <1>3, <1>4, <2>2, PageStep
<1>6. PdfGood'
    BY <1>1, <1>3, <1>4, PdfStep
<1>7. AllKnown'
    <2>1. \A s \in Runs : Bound(s)' /\ run'[s].id <= count'.token
        BY DEF PagesInv, AllKnown, Bound
    <2>2. \A j \in Calls : CallKnown(j)'
        BY <1>2 DEF PagesInv, AllKnown, CallKnown, Active
    <2>3. \A s \in Tabs : TabKnown(s)'
        BY DEF PagesInv, AllKnown, TabKnown
    <2> QED
        BY <2>1, <2>2, <2>3 DEF AllKnown
<1> QED
    BY <1>5, <1>6, <1>7 DEF PagesInv, PagesGood, PdfGood

LEMMA SubmitInv ==
    ASSUME PagesInv, NEW r \in Runs, NEW t \in Tabs, Submit(r, t)
    PROVE  PagesInv'
<1> DEFINE c == [run[r] EXCEPT !.state = "queued"]
<1>1. run \in [Runs -> [state : {"new", "queued", "running"}, tab : Tabs \cup {0},
                        id : Nat, load : Nat]]
    BY DEF PagesInv, TypeOK
<1>2. c \in [state : {"new", "queued", "running"}, tab : Tabs \cup {0}, id : Nat, load : Nat]
      /\ c.id = run[r].id /\ c.load = run[r].load /\ c.state = "queued"
    BY <1>1
<1>3. run' = [run EXCEPT ![r] = c]
    BY DEF Submit
<1> HIDE DEF c
<1>4. binding \in [Runs -> Tabs \cup {0}] /\ binding' = [binding EXCEPT ![r] = t]
    BY DEF PagesInv, TypeOK, Submit
<1>5. UNCHANGED <<visible, tab, snapshot, token, going, call, count, moves, pages>>
      /\ run[r].state = "new"
    BY DEF Submit
<1>6. /\ run' \in [Runs -> [state : {"new", "queued", "running"}, tab : Tabs \cup {0},
                            id : Nat, load : Nat]]
      /\ binding' \in [Runs -> Tabs \cup {0}]
    BY <1>1, <1>2, <1>3, <1>4
<1>7. TypeOK'
    BY <1>5, <1>6 DEF PagesInv, TypeOK
<1>8. \A s \in Runs : /\ s # r => run'[s] = run[s] /\ binding'[s] = binding[s]
                      /\ run'[s].id = run[s].id /\ run'[s].load = run[s].load
    BY <1>1, <1>2, <1>3, <1>4
<1>9. Bound(r)'
    BY <1>1, <1>2, <1>3, <1>4 DEF Bound
<1> QED
    BY <1>5, <1>7, <1>8, <1>9, RunStep

LEMMA StartRunInv ==
    ASSUME PagesInv, NEW r \in Runs, StartRun(r)
    PROVE  PagesInv'
<1> DEFINE c == [run[r] EXCEPT !.state = "running", !.tab = binding[r]]
<1>1. run \in [Runs -> [state : {"new", "queued", "running"}, tab : Tabs \cup {0},
                        id : Nat, load : Nat]]
      /\ binding \in [Runs -> Tabs \cup {0}]
    BY DEF PagesInv, TypeOK
<1>2. run[r].state = "queued" /\ binding[r] \in Tabs
    BY DEF StartRun, PagesInv, AllKnown, Bound
<1>3. c \in [state : {"new", "queued", "running"}, tab : Tabs \cup {0}, id : Nat, load : Nat]
      /\ c.id = run[r].id /\ c.load = run[r].load /\ c.state = "running" /\ c.tab \in Tabs
    BY <1>1, <1>2
<1>4. run' = [run EXCEPT ![r] = c]
    BY DEF StartRun
<1> HIDE DEF c
<1>5. binding' = [binding EXCEPT ![r] = 0]
    BY DEF StartRun, Take
<1>6. UNCHANGED <<visible, tab, snapshot, token, going, call, count, moves, pages>>
    BY DEF StartRun
<1>7. /\ run' \in [Runs -> [state : {"new", "queued", "running"}, tab : Tabs \cup {0},
                            id : Nat, load : Nat]]
      /\ binding' \in [Runs -> Tabs \cup {0}]
    BY <1>1, <1>3, <1>4, <1>5
<1>8. TypeOK'
    BY <1>6, <1>7 DEF PagesInv, TypeOK
<1>9. \A s \in Runs : /\ s # r => run'[s] = run[s] /\ binding'[s] = binding[s]
                      /\ run'[s].id = run[s].id /\ run'[s].load = run[s].load
    BY <1>1, <1>3, <1>4, <1>5
<1>10. Bound(r)'
    BY <1>1, <1>3, <1>4, <1>5 DEF Bound
<1> QED
    BY <1>2, <1>6, <1>8, <1>9, <1>10, RunStep

-------------------------------------------------------------------------------
(* The tabs *)

TabRow == [state : {"new", "open", "closed"}, url : Addresses, load : Nat, mark : Nat,
           moved : BOOLEAN]

LEMMA TabFacts ==
    ASSUME PagesInv, NEW t \in Tabs, NEW row \in TabRow, tab' = [tab EXCEPT ![t] = row]
    PROVE  tab' \in [Tabs -> TabRow] /\ tab'[t] = row /\ \A s \in Tabs : s # t => tab'[s] = tab[s]
BY DEF PagesInv, TypeOK, TabRow

LEMMA MovedFacts ==
    ASSUME PagesInv, NEW calls \in [Calls -> Call], NEW t, NEW S, call' = Moved(calls, t, S)
    PROVE  /\ call' \in [Calls -> Call]
           /\ \A j \in Calls :
                 /\ call'[j].run = calls[j].run /\ call'[j].kind = calls[j].kind
                 /\ call'[j].step = calls[j].step /\ call'[j].url = calls[j].url
                 /\ call'[j].mark = calls[j].mark /\ call'[j].id = calls[j].id
                 /\ call'[j].load = calls[j].load /\ call'[j].left = calls[j].left
                 /\ call'[j].typed = calls[j].typed
                 /\ calls[j].moved => call'[j].moved
                 /\ calls[j].step \in S /\ TabOf(j) = t => call'[j].moved
<1>1. ASSUME NEW j \in Calls
      PROVE  LET c == [calls[j] EXCEPT !.moved = TRUE]
             IN  /\ c \in Call /\ c.run = calls[j].run /\ c.kind = calls[j].kind
                 /\ c.step = calls[j].step /\ c.url = calls[j].url /\ c.mark = calls[j].mark
                 /\ c.id = calls[j].id /\ c.load = calls[j].load /\ c.left = calls[j].left
                 /\ c.typed = calls[j].typed /\ c.moved = TRUE
    BY DEF Call
<1>2. ASSUME NEW j \in Calls
      PROVE  call'[j] = IF calls[j].step \in S /\ TabOf(j) = t
                        THEN [calls[j] EXCEPT !.moved = TRUE] ELSE calls[j]
    BY DEF Moved
<1>3. call' = [j \in Calls |-> IF calls[j].step \in S /\ TabOf(j) = t
                               THEN [calls[j] EXCEPT !.moved = TRUE] ELSE calls[j]]
    BY DEF Moved
<1>4. call' \in [Calls -> Call]
    BY <1>1, <1>3
<1> QED
    BY <1>1, <1>2, <1>4

(***************************************************************************)
(* A step of the user, of a page or of Main by which pages move, and calls *)
(* other than of a PDF.                                                    *)
(***************************************************************************)
LEMMA PageEvent ==
    ASSUME PagesInv, TypeOK', RunsKeep, RefsAreCurrent',
           UNCHANGED <<run, binding, pages>>,
           count'.mark = count.mark, count'.token = count.token,
           \A s \in Tabs : /\ Unmoved(s) \/ PageMoved(s)
                           /\ tab'[s].url # Blank => tab'[s].load # 0
                           /\ \/ token'[s] = token[s] /\ tab'[s].load = tab[s].load
                              \/ token'[s] = NoToken,
           \A j \in Calls : \/ Waits(j) /\ Notices(j)
                            \/ ~Labelling(j) /\ PagePart(j)' /\ ~InPdf(j)' /\ CallKnown(j)'
    PROVE  PagesInv'
<1>1. PagesGood'
    BY PageStep
<1>2. \A s \in Tabs : TokenKept(s)
    BY DEF TokenKept, NoToken
<1>3. PdfGood'
    BY <1>2, PdfStep
<1>4. count.mark <= count'.mark /\ count.token <= count'.token
    BY Facts
<1>5. ASSUME NEW s \in Tabs
      PROVE  /\ tab'[s].mark <= count'.mark /\ snapshot'[s].mark <= count'.mark
             /\ token'[s].id <= count'.token
    <2>1. tab[s].mark <= count.mark /\ snapshot[s].mark <= count.mark
          /\ token[s].id <= count.token /\ 0 <= count.mark /\ 0 <= count.token
        BY Facts
    <2>2. tab'[s].mark \in {0, tab[s].mark} /\ snapshot'[s].mark \in {0, snapshot[s].mark}
          /\ token'[s] \in {token[s], NoToken}
        BY DEF Unmoved, PageMoved
    <2>3. NoToken.id = 0
        BY DEF NoToken
    <2> QED
        BY <2>1, <2>2, <2>3
<1>6. \A s \in Runs : /\ run'[s].state = run[s].state /\ run'[s].tab = run[s].tab
                      /\ run'[s].id <= count'.token
    BY Facts
<1>7. AllKnown'
    BY <1>4, <1>5, <1>6, KnownStep
<1> QED
    BY <1>1, <1>3, <1>7 DEF PagesInv, PagesGood, PdfGood

\* One that voids the refs of the pages that move.
LEMMA EventInv ==
    ASSUME PagesInv, TypeOK', RunsKeep,
           UNCHANGED <<run, binding, pages>>,
           count'.mark = count.mark, count'.token = count.token,
           \A s \in Tabs : /\ Unmoved(s) \/ PageMoved(s)
                           /\ RefsKept(s)
                           /\ tab'[s].url # Blank => tab'[s].load # 0
                           /\ \/ token'[s] = token[s] /\ tab'[s].load = tab[s].load
                              \/ token'[s] = NoToken,
           \A j \in Calls : \/ Waits(j) /\ Notices(j)
                            \/ ~Renews(j) /\ PagePart(j)' /\ ~InPdf(j)' /\ CallKnown(j)'
    PROVE  PagesInv'
<1>1. RefsAreCurrent'
    BY RefsStep
<1>2. \A j \in Calls : \/ Waits(j) /\ Notices(j)
                       \/ ~Labelling(j) /\ PagePart(j)' /\ ~InPdf(j)' /\ CallKnown(j)'
    BY DEF Renews
<1> QED
    BY <1>1, <1>2, PageEvent

LEMMA ShowInv ==
    ASSUME PagesInv, NEW t \in Tabs, Show(t)
    PROVE  PagesInv'
<1> DEFINE row == [tab[t] EXCEPT !.state = "open"]
<1>1. tab \in [Tabs -> TabRow] /\ visible \in Tabs \cup {0} /\ call \in [Calls -> Call]
    BY DEF PagesInv, TypeOK, TabRow
<1>2. row \in TabRow /\ row.state = "open" /\ row.url = tab[t].url /\ row.load = tab[t].load
      /\ row.mark = tab[t].mark /\ row.moved = tab[t].moved
    BY <1>1 DEF TabRow
<1>3. tab' = [tab EXCEPT ![t] = row]
    BY DEF Show
<1> HIDE DEF row
<1>4. tab' \in [Tabs -> TabRow] /\ tab'[t] = row /\ \A s \in Tabs : s # t => tab'[s] = tab[s]
    BY <1>2, <1>3, TabFacts
<1>5. visible' = t /\ visible # t /\ UNCHANGED <<run, binding, snapshot, going, count, pages>>
      /\ moves < MaxMoves /\ moves' = moves + 1
    BY DEF Show, Moves
<1>6. token' = IF visible = 0 THEN token ELSE [token EXCEPT ![visible] = NoToken]
    BY DEF Show, Invalidated
<1>7. token \in [Tabs -> [id : Nat, url : Addresses]] /\ NoToken \in [id : Nat, url : Addresses]
    BY DEF PagesInv, TypeOK, NoToken, Addresses
<1>8. token' \in [Tabs -> [id : Nat, url : Addresses]]
      /\ \A s \in Tabs : token'[s] \in {token[s], NoToken}
    BY <1>1, <1>6, <1>7
<1>9. call' = Moved(call, visible, OfTab)
    BY DEF Show
<1>10. /\ call' \in [Calls -> Call]
       /\ \A j \in Calls : /\ Waits(j)
                           /\ call[j].step \in OfTab /\ TabOf(j) = visible => call'[j].moved
    BY <1>1, <1>9, MovedFacts DEF Waits
<1>11. \A j \in Calls : Notices(j)
    BY <1>10 DEF Notices, OnPage, IsShown, OfTab
<1>12. moves' \in 0 .. MaxMoves
    BY <1>5, BrowserAssumption DEF PagesInv, TypeOK
<1>13. TypeOK'
    BY <1>2, <1>4, <1>5, <1>8, <1>10, <1>12 DEF PagesInv, TypeOK, TabRow
<1>14. ASSUME NEW s \in Tabs
       PROVE  /\ Unmoved(s) /\ RefsKept(s)
              /\ tab'[s].url # Blank => tab'[s].load # 0
              /\ \/ token'[s] = token[s] /\ tab'[s].load = tab[s].load
                 \/ token'[s] = NoToken
    BY <1>2, <1>4, <1>5, <1>8, Facts DEF Unmoved, RefsKept
<1>15. RunsKeep /\ count'.mark = count.mark /\ count'.token = count.token
       /\ UNCHANGED <<run, binding, pages>>
    BY <1>5 DEF RunsKeep
<1> QED
    BY <1>10, <1>11, <1>13, <1>14, <1>15, EventInv

LEMMA HideInv ==
    ASSUME PagesInv, Hide
    PROVE  PagesInv'
<1>1. visible \in Tabs /\ call \in [Calls -> Call]
    BY DEF Hide, PagesInv, TypeOK
<1>2. visible' = 0 /\ UNCHANGED <<run, binding, tab, snapshot, going, count, pages>>
      /\ moves < MaxMoves /\ moves' = moves + 1 /\ 0 \notin Tabs
    <2>1. IsFiniteSet(Tabs) /\ Tabs = 1 .. Cardinality(Tabs)
        BY BrowserAssumption
    <2>2. 0 \notin Tabs
        BY <2>1, FS_CardinalityType
    <2> QED
        BY <2>2 DEF Hide, Moves
<1>3. token' = [token EXCEPT ![visible] = NoToken]
    BY DEF Hide, Invalidated
<1>4. token \in [Tabs -> [id : Nat, url : Addresses]] /\ NoToken \in [id : Nat, url : Addresses]
    BY DEF PagesInv, TypeOK, NoToken, Addresses
<1>5. token' \in [Tabs -> [id : Nat, url : Addresses]]
      /\ \A s \in Tabs : token'[s] \in {token[s], NoToken}
    BY <1>1, <1>3, <1>4
<1>6. call' = Moved(call, visible, OfTab)
    BY DEF Hide
<1>7. /\ call' \in [Calls -> Call]
      /\ \A j \in Calls : /\ Waits(j)
                          /\ call[j].step \in OfTab /\ TabOf(j) = visible => call'[j].moved
    BY <1>1, <1>6, MovedFacts DEF Waits
<1>8. \A j \in Calls : Notices(j)
    BY <1>7 DEF Notices, OnPage, IsShown, OfTab
<1>9. moves' \in 0 .. MaxMoves
    BY <1>2, BrowserAssumption DEF PagesInv, TypeOK
<1>10. TypeOK'
    BY <1>2, <1>5, <1>7, <1>9 DEF PagesInv, TypeOK
<1>11. ASSUME NEW s \in Tabs
       PROVE  /\ Unmoved(s) /\ RefsKept(s)
              /\ tab'[s].url # Blank => tab'[s].load # 0
              /\ \/ token'[s] = token[s] /\ tab'[s].load = tab[s].load
                 \/ token'[s] = NoToken
    BY <1>2, <1>5, Facts DEF Unmoved, RefsKept
<1>12. RunsKeep /\ count'.mark = count.mark /\ count'.token = count.token
       /\ UNCHANGED <<run, binding, pages>>
    BY <1>2 DEF RunsKeep
<1> QED
    BY <1>7, <1>8, <1>10, <1>11, <1>12, EventInv

\* The rows of one tab, its token and its snapshot.
LEMMA TokenFacts ==
    ASSUME PagesInv, NEW t \in Tabs, token' = Invalidated(t)
    PROVE  /\ token' \in [Tabs -> [id : Nat, url : Addresses]]
           /\ token'[t] = NoToken /\ \A s \in Tabs : s # t => token'[s] = token[s]
<1>1. token \in [Tabs -> [id : Nat, url : Addresses]] /\ NoToken \in [id : Nat, url : Addresses]
    BY DEF PagesInv, TypeOK, NoToken, Addresses
<1> QED
    BY <1>1 DEF Invalidated

LEMMA SnapshotFacts ==
    ASSUME PagesInv, NEW t \in Tabs, snapshot' = [snapshot EXCEPT ![t] = NoSnapshot]
    PROVE  /\ snapshot' \in [Tabs -> [mark : Nat, late : BOOLEAN]]
           /\ snapshot'[t] = NoSnapshot /\ \A s \in Tabs : s # t => snapshot'[s] = snapshot[s]
<1>1. snapshot \in [Tabs -> [mark : Nat, late : BOOLEAN]]
      /\ NoSnapshot \in [mark : Nat, late : BOOLEAN]
    BY DEF PagesInv, TypeOK, NoSnapshot
<1> QED
    BY <1>1

LEMMA LeaveInv ==
    ASSUME PagesInv, NEW t \in Tabs, NEW u \in Urls, Leave(t, u)
    PROVE  PagesInv'
<1>1. UNCHANGED <<run, binding, visible, tab, call, count, pages>>
      /\ moves < MaxMoves /\ moves' = moves + 1
    BY DEF Leave, Moves
<1>2. /\ token' \in [Tabs -> [id : Nat, url : Addresses]]
      /\ \A s \in Tabs : token'[s] \in {token[s], NoToken}
    BY TokenFacts DEF Leave
<1>3. /\ snapshot' \in [Tabs -> [mark : Nat, late : BOOLEAN]]
      /\ \A s \in Tabs : snapshot'[s] \in {snapshot[s], NoSnapshot}
    <2>1. CASE snapshot' = snapshot
        BY <2>1 DEF PagesInv, TypeOK
    <2>2. CASE snapshot' = [snapshot EXCEPT ![t] = NoSnapshot]
        BY <2>2, SnapshotFacts
    <2> QED
        BY <2>1, <2>2 DEF Leave
<1>4. going' \in [Tabs -> [by : {-1, 0} \cup Calls, url : Addresses]]
    <2>1. going \in [Tabs -> [by : {-1, 0} \cup Calls, url : Addresses]]
        BY DEF PagesInv, TypeOK
    <2>2. [by |-> -1, url |-> u] \in [by : {-1, 0} \cup Calls, url : Addresses]
        BY DEF Addresses
    <2>3. going' = [going EXCEPT ![t] = [by |-> -1, url |-> u]]
        BY DEF Leave
    <2> HIDE DEF Addresses
    <2> QED
        BY <2>1, <2>2, <2>3
<1>5. moves' \in 0 .. MaxMoves
    BY <1>1, BrowserAssumption DEF PagesInv, TypeOK
<1>6. TypeOK'
    BY <1>1, <1>2, <1>3, <1>4, <1>5 DEF PagesInv, TypeOK
<1>7. \A s \in Tabs : /\ Unmoved(s) /\ RefsKept(s) /\ tab'[s].load = tab[s].load
                      /\ tab'[s].url # Blank => tab'[s].load # 0
    BY <1>1, <1>3, Facts DEF Unmoved, RefsKept, NoSnapshot
<1>8. \A j \in Calls : Waits(j) /\ Notices(j)
    BY <1>1 DEF Waits, Notices, OnPage, IsShown, IsOpen, TabOf
<1> QED
    BY <1>1, <1>2, <1>6, <1>7, <1>8, EventInv DEF RunsKeep

(***************************************************************************)
(* The page of tab t moves: its labels go, or stay and are not good.       *)
(***************************************************************************)
LEMMA TabEvent ==
    ASSUME PagesInv, NEW t \in Tabs, NEW row \in TabRow, TypeOK',
           UNCHANGED <<run, binding, pages>>,
           count'.mark = count.mark, count'.token = count.token,
           tab' = [tab EXCEPT ![t] = row], row.mark \in {0, tab[t].mark},
           row.url # Blank => row.load # 0,
           visible' = visible \/ visible = t,
           snapshot' = [snapshot EXCEPT ![t] = NoSnapshot],
           \/ token' = token /\ row.load = tab[t].load
           \/ token' = Invalidated(t),
           \A j \in Calls : /\ Waits(j)
                            /\ TabOf(j) = t /\ call[j].step \in OfPage => call'[j].moved
    PROVE  PagesInv'
<1>1. tab' \in [Tabs -> TabRow] /\ tab'[t] = row /\ \A s \in Tabs : s # t => tab'[s] = tab[s]
    BY TabFacts
<1>2. snapshot'[t] = NoSnapshot /\ \A s \in Tabs : s # t => snapshot'[s] = snapshot[s]
    BY SnapshotFacts
<1>3. \/ token' = token /\ row.load = tab[t].load
      \/ token'[t] = NoToken /\ \A s \in Tabs : s # t => token'[s] = token[s]
    BY TokenFacts
<1>4. ASSUME NEW s \in Tabs
      PROVE  /\ Unmoved(s) \/ PageMoved(s)
             /\ RefsKept(s)
             /\ tab'[s].url # Blank => tab'[s].load # 0
             /\ \/ token'[s] = token[s] /\ tab'[s].load = tab[s].load
                \/ token'[s] = NoToken
    <2>1. CASE s # t
        BY <1>1, <1>2, <1>3, <2>1, Facts DEF Unmoved, RefsKept
    <2>2. CASE s = t
        <3>1. PageMoved(s) /\ RefsKept(s)
            BY <1>1, <1>2, <2>2 DEF PageMoved, OfPage, RefsKept, NoSnapshot
        <3> QED
            BY <1>1, <1>3, <2>2, <3>1
    <2> QED
        BY <2>1, <2>2
<1>5. ASSUME NEW j \in Calls PROVE Notices(j)
    <2> SUFFICES ASSUME call[j].kind = "input", OnPage(j),
                        call[j].step \in {"probing", "ready", "typing"}
                 PROVE  OnPage(j)' \/ call'[j].moved
        BY DEF Notices
    <2>1. Active(j) /\ call[j].step \in OfPage
        BY DEF Active, OfPage
    <2>2. TabOf(j) \in Tabs /\ TabOf(j)' = TabOf(j)
        BY <2>1, Facts DEF TabOf, Waits
    <2>3. CASE TabOf(j) = t
        BY <2>1, <2>3
    <2>4. CASE TabOf(j) # t
        BY <1>1, <2>2, <2>4 DEF OnPage, IsShown, IsOpen, Waits
    <2> QED
        BY <2>3, <2>4
<1>6. RunsKeep
    BY DEF RunsKeep
<1>7. \A j \in Calls : Waits(j) /\ Notices(j)
    BY <1>5
<1> QED
    BY <1>4, <1>6, <1>7, EventInv

LEMMA FrameLeavesInv ==
    ASSUME PagesInv, NEW t \in Tabs, FrameLeaves(t)
    PROVE  PagesInv'
<1> DEFINE row == [tab[t] EXCEPT !.moved = (tab[t].mark # 0)]
<1>1. tab \in [Tabs -> TabRow] /\ call \in [Calls -> Call]
    BY DEF PagesInv, TypeOK, TabRow
<1>2. row \in TabRow /\ row.state = tab[t].state /\ row.url = tab[t].url
      /\ row.load = tab[t].load /\ row.mark = tab[t].mark
    BY <1>1 DEF TabRow
<1>3. tab' = [tab EXCEPT ![t] = row]
    BY DEF FrameLeaves
<1> HIDE DEF row
<1>4. UNCHANGED <<run, binding, visible, token, going, count, pages>>
      /\ moves < MaxMoves /\ moves' = moves + 1 /\ IsOpen(t)
      /\ snapshot' = [snapshot EXCEPT ![t] = NoSnapshot] /\ call' = Moved(call, t, OfPage)
    BY DEF FrameLeaves, Moves
<1>5. tab' \in [Tabs -> TabRow] /\ tab'[t] = row /\ \A s \in Tabs : s # t => tab'[s] = tab[s]
    BY <1>2, <1>3, TabFacts
<1>6. snapshot' \in [Tabs -> [mark : Nat, late : BOOLEAN]]
    BY <1>4, SnapshotFacts
<1>7. /\ call' \in [Calls -> Call]
      /\ \A j \in Calls : /\ Waits(j)
                          /\ call[j].step \in OfPage /\ TabOf(j) = t => call'[j].moved
    BY <1>1, <1>4, MovedFacts DEF Waits
<1>8. moves' \in 0 .. MaxMoves
    BY <1>4, BrowserAssumption DEF PagesInv, TypeOK
<1>9. TypeOK'
    BY <1>2, <1>4, <1>5, <1>6, <1>7, <1>8 DEF PagesInv, TypeOK, TabRow, IsOpen
<1>10. row.url # Blank => row.load # 0
    BY <1>2, Facts
<1> QED
    BY <1>2, <1>3, <1>4, <1>7, <1>9, <1>10, TabEvent

LEMMA InPageInv ==
    ASSUME PagesInv, NEW t \in Tabs, NEW u \in Urls, InPage(t, u)
    PROVE  PagesInv'
<1> DEFINE row == [tab[t] EXCEPT !.url = u, !.moved = (tab[t].mark # 0)]
<1>1. tab \in [Tabs -> TabRow] /\ call \in [Calls -> Call]
    BY DEF PagesInv, TypeOK, TabRow
<1>2. row \in TabRow /\ row.state = tab[t].state
      /\ row.load = tab[t].load /\ row.mark = tab[t].mark
    BY <1>1 DEF TabRow, Addresses
<1>3. tab' = [tab EXCEPT ![t] = row]
    BY DEF InPage
<1> HIDE DEF row
<1>4. UNCHANGED <<run, binding, visible, going, count, pages>>
      /\ moves < MaxMoves /\ moves' = moves + 1 /\ IsOpen(t) /\ tab[t].url # Blank
      /\ snapshot' = [snapshot EXCEPT ![t] = NoSnapshot] /\ call' = Moved(call, t, OfPage)
      /\ token' = Invalidated(t)
    BY DEF InPage, Moves
<1>5. tab' \in [Tabs -> TabRow] /\ tab'[t] = row /\ \A s \in Tabs : s # t => tab'[s] = tab[s]
    BY <1>2, <1>3, TabFacts
<1>6. snapshot' \in [Tabs -> [mark : Nat, late : BOOLEAN]]
      /\ token' \in [Tabs -> [id : Nat, url : Addresses]]
    BY <1>4, SnapshotFacts, TokenFacts
<1>7. /\ call' \in [Calls -> Call]
      /\ \A j \in Calls : /\ Waits(j)
                          /\ call[j].step \in OfPage /\ TabOf(j) = t => call'[j].moved
    BY <1>1, <1>4, MovedFacts DEF Waits
<1>8. moves' \in 0 .. MaxMoves
    BY <1>4, BrowserAssumption DEF PagesInv, TypeOK
<1>9. TypeOK'
    BY <1>2, <1>4, <1>5, <1>6, <1>7, <1>8 DEF PagesInv, TypeOK, TabRow, IsOpen
<1>10. row.url # Blank => row.load # 0
    BY <1>2, <1>4, Facts
<1> QED
    BY <1>2, <1>3, <1>4, <1>7, <1>9, <1>10, TabEvent

LEMMA NoTripFacts == NoTrip \in [by : {-1, 0} \cup Calls, url : Addresses]
BY DEF NoTrip, Addresses

LEMMA CloseTabInv ==
    ASSUME PagesInv, NEW t \in Tabs, CloseTab(t)
    PROVE  PagesInv'
<1> DEFINE row == [tab[t] EXCEPT !.state = "closed", !.url = Blank, !.mark = 0, !.moved = FALSE]
<1>1. tab \in [Tabs -> TabRow] /\ call \in [Calls -> Call]
    BY DEF PagesInv, TypeOK, TabRow
<1>2. row \in TabRow /\ row.url = Blank /\ row.mark = 0
    BY <1>1 DEF TabRow, Addresses
<1>3. tab' = [tab EXCEPT ![t] = row]
    BY DEF CloseTab
<1> HIDE DEF row
<1>4. UNCHANGED <<run, binding, count, pages>>
      /\ moves < MaxMoves /\ moves' = moves + 1
      /\ visible' = (IF visible = t THEN 0 ELSE visible)
      /\ snapshot' = [snapshot EXCEPT ![t] = NoSnapshot] /\ call' = Moved(call, t, OfPage)
      /\ token' = Invalidated(t) /\ going' = [going EXCEPT ![t] = NoTrip]
    BY DEF CloseTab, Moves
<1>5. tab' \in [Tabs -> TabRow] /\ tab'[t] = row /\ \A s \in Tabs : s # t => tab'[s] = tab[s]
    BY <1>2, <1>3, TabFacts
<1>6. snapshot' \in [Tabs -> [mark : Nat, late : BOOLEAN]]
      /\ token' \in [Tabs -> [id : Nat, url : Addresses]]
    BY <1>4, SnapshotFacts, TokenFacts
<1>7. /\ call' \in [Calls -> Call]
      /\ \A j \in Calls : /\ Waits(j)
                          /\ call[j].step \in OfPage /\ TabOf(j) = t => call'[j].moved
    BY <1>1, <1>4, MovedFacts DEF Waits
<1>8. moves' \in 0 .. MaxMoves
    BY <1>4, BrowserAssumption DEF PagesInv, TypeOK
<1>9. going' \in [Tabs -> [by : {-1, 0} \cup Calls, url : Addresses]]
    <2>1. going \in [Tabs -> [by : {-1, 0} \cup Calls, url : Addresses]]
        BY DEF PagesInv, TypeOK
    <2> QED
        BY <1>4, <2>1, NoTripFacts
<1>10. visible' \in Tabs \cup {0} /\ (visible' # 0 => tab'[visible'].state = "open")
    BY <1>4, <1>5 DEF PagesInv, TypeOK
<1>11. TypeOK'
    BY <1>4, <1>5, <1>6, <1>7, <1>8, <1>9, <1>10 DEF PagesInv, TypeOK, TabRow
<1> QED
    BY <1>2, <1>3, <1>4, <1>7, <1>11, TabEvent

LEMMA NewPageInv ==
    ASSUME PagesInv, NEW t \in Tabs, NewPage(t)
    PROVE  PagesInv'
<1> DEFINE n == count.load + 1
           row == [tab[t] EXCEPT !.url = going[t].url, !.load = n, !.mark = 0, !.moved = FALSE]
<1>1. tab \in [Tabs -> TabRow] /\ call \in [Calls -> Call]
      /\ going \in [Tabs -> [by : {-1, 0} \cup Calls, url : Addresses]]
      /\ count \in [load : Nat, mark : Nat, token : Nat, call : 0 .. MaxCalls]
    BY DEF PagesInv, TypeOK, TabRow
<1>2. row \in TabRow /\ row.load = n /\ row.mark = 0 /\ n # 0 /\ row.state = tab[t].state
    <2>1. n \in Nat /\ n # 0
        BY Facts
    <2>2. tab[t] \in TabRow /\ going[t].url \in Addresses
        BY <1>1
    <2> HIDE DEF n
    <2> QED
        BY <2>1, <2>2 DEF TabRow
<1>3. tab' = [tab EXCEPT ![t] = row]
    BY DEF NewPage
<1>5. UNCHANGED <<run, binding, visible, moves, pages>>
      /\ count' = [count EXCEPT !.load = n]
      /\ snapshot' = [snapshot EXCEPT ![t] = NoSnapshot] /\ call' = Moved(call, t, OfPage)
      /\ token' = Invalidated(t) /\ going' = [going EXCEPT ![t] = NoTrip]
    BY DEF NewPage
<1> HIDE DEF row
<1>6. tab' \in [Tabs -> TabRow] /\ tab'[t] = row /\ \A s \in Tabs : s # t => tab'[s] = tab[s]
    BY <1>2, <1>3, TabFacts
<1>7. snapshot' \in [Tabs -> [mark : Nat, late : BOOLEAN]]
      /\ token' \in [Tabs -> [id : Nat, url : Addresses]]
    BY <1>5, SnapshotFacts, TokenFacts
<1>8. /\ call' \in [Calls -> Call]
      /\ \A j \in Calls : /\ Waits(j)
                          /\ call[j].step \in OfPage /\ TabOf(j) = t => call'[j].moved
    BY <1>1, <1>5, MovedFacts DEF Waits
<1>9. going' \in [Tabs -> [by : {-1, 0} \cup Calls, url : Addresses]]
    BY <1>1, <1>5, NoTripFacts
<1>10. count' \in [load : Nat, mark : Nat, token : Nat, call : 0 .. MaxCalls]
       /\ count'.mark = count.mark /\ count'.token = count.token
    BY <1>1, <1>5
<1>11. TypeOK'
    BY <1>2, <1>5, <1>6, <1>7, <1>8, <1>9, <1>10 DEF PagesInv, TypeOK, TabRow
<1> QED
    BY <1>2, <1>3, <1>5, <1>8, <1>10, <1>11, TabEvent

-------------------------------------------------------------------------------
(* Input, once Main has handed it over *)

LEMMA TypedInv ==
    ASSUME PagesInv, NEW i \in Calls, Typed(i)
    PROVE  PagesInv'
<1> DEFINE t == TabOf(i)
           row == [tab[t] EXCEPT !.moved = (tab[t].mark # 0)]
           c == [call[i] EXCEPT !.typed = TRUE]
           calls == [call EXCEPT ![i] = c]
<1>1. tab \in [Tabs -> TabRow] /\ call \in [Calls -> Call]
    BY DEF PagesInv, TypeOK, TabRow
<1>2. call[i].kind = "input" /\ call[i].step = "typing" /\ ~call[i].typed
      /\ Active(i) /\ t \in Tabs /\ IsOpen(t)
    <2>1. call[i].kind = "input" /\ call[i].step = "typing" /\ ~call[i].typed /\ IsOpen(t)
        BY DEF Typed, At
    <2>2. Active(i)
        BY <2>1 DEF Active
    <2> QED
        BY <2>1, <2>2, Facts
<1>3. row \in TabRow /\ row.state = tab[t].state /\ row.url = tab[t].url
      /\ row.load = tab[t].load /\ row.mark = tab[t].mark
    BY <1>1, <1>2 DEF TabRow
<1>4. tab' = [tab EXCEPT ![t] = row] /\ call' = Moved(calls, t, OfPage)
      /\ UNCHANGED <<run, binding, visible, snapshot, token, going, count, moves, pages>>
    BY DEF Typed
<1>5. c \in Call /\ c.step = "typing" /\ c.run = call[i].run /\ c.kind = "input" /\ c.typed
      /\ c.mark = call[i].mark /\ c.id = call[i].id
    BY <1>1, <1>2 DEF Call
<1> HIDE DEF row, c, t
<1>6. calls \in [Calls -> Call] /\ calls[i] = c /\ \A j \in Calls : j # i => calls[j] = call[j]
    BY <1>1, <1>5
<1> HIDE DEF calls
<1>7. tab' \in [Tabs -> TabRow] /\ tab'[t] = row /\ \A s \in Tabs : s # t => tab'[s] = tab[s]
    BY <1>2, <1>3, <1>4, TabFacts
<1>8. /\ call' \in [Calls -> Call]
      /\ \A j \in Calls : j # i =>
            /\ Waits(j)
            /\ call[j].step \in OfPage /\ TabOf(j) = t => call'[j].moved
      /\ call'[i].step = "typing" /\ call'[i].run = call[i].run /\ call'[i].kind = "input"
      /\ call'[i].mark = call[i].mark /\ call'[i].id = call[i].id /\ call'[i].typed
      /\ call'[i].moved
    BY <1>4, <1>5, <1>6, MovedFacts DEF Waits, OfPage, t
<1>9. TypeOK'
    BY <1>2, <1>3, <1>4, <1>7, <1>8 DEF PagesInv, TypeOK, TabRow, IsOpen
<1>10. Typing(i)' /\ TabOf(i)' = t
    BY <1>4, <1>8 DEF Typing, At, TabOf, t
<1>11. ~Labelling(i) /\ PagePart(i)' /\ ~InPdf(i)'
    BY <1>2, <1>8 DEF PagePart, LabelsStand, Labelling, At, NotLater, StillThere, InPdf
<1>12. CallKnown(i)'
    BY <1>2, <1>4, <1>8, Facts DEF CallKnown
<1>13. RefsAreCurrent'
    <2>1. ASSUME NEW j \in Calls, Renews(j) PROVE Renews(j)' /\ TabOf(j)' = TabOf(j)
        <3>1. j # i
            BY <1>2, <2>1 DEF Renews, Labelling, Typing, At
        <3> QED
            BY <1>4, <1>8, <2>1, <3>1 DEF Renews, Labelling, Typing, At, Waits, TabOf
    <2> SUFFICES ASSUME NEW s \in Tabs, snapshot'[s].mark # 0
                 PROVE  \/ snapshot'[s].mark = tab'[s].mark /\ ~tab'[s].moved
                        \/ snapshot'[s].late
                        \/ \E k \in Calls : Renews(k)' /\ TabOf(k)' = s
        BY DEF RefsAreCurrent, Renews, Labelling, Typing
    <2>2. CASE s = t
        BY <1>10, <2>2 DEF Renews
    <2>3. CASE s # t
        <3>1. \/ snapshot[s].mark = tab[s].mark /\ ~tab[s].moved
              \/ snapshot[s].late
              \/ \E k \in Calls : Renews(k) /\ TabOf(k) = s
            BY <1>4 DEF PagesInv, RefsAreCurrent, Renews, Labelling, Typing
        <3> QED
            BY <1>4, <1>7, <2>1, <2>3, <3>1
    <2> QED
        BY <2>2, <2>3
<1>14. ASSUME NEW s \in Tabs
       PROVE  /\ Unmoved(s) \/ PageMoved(s)
              /\ tab'[s].url # Blank => tab'[s].load # 0
              /\ token'[s] = token[s] /\ tab'[s].load = tab[s].load
    <2>1. CASE s # t
        BY <1>4, <1>7, <2>1, Facts DEF Unmoved
    <2>2. CASE s = t
        <3>1. PageMoved(s)
            BY <1>2, <1>3, <1>4, <1>7, <1>8, <2>2 DEF PageMoved, OfPage
        <3> QED
            BY <1>2, <1>3, <1>4, <1>7, <2>2, <3>1, Facts
    <2> QED
        BY <2>1, <2>2
<1>15. ASSUME NEW j \in Calls, j # i PROVE Waits(j) /\ Notices(j)
    <2>1. Waits(j)
        BY <1>8, <1>15
    <2>2. \A s \in Tabs : tab'[s].state = tab[s].state /\ tab'[s].url = tab[s].url
        BY <1>3, <1>7
    <2>3. ASSUME call[j].step \in {"probing", "ready", "typing"}
          PROVE  TabOf(j) \in Tabs /\ TabOf(j)' = TabOf(j)
        BY <1>4, <2>1, <2>3, Facts DEF Active, TabOf, Waits
    <2>4. Notices(j)
        BY <1>4, <2>1, <2>2, <2>3 DEF Notices, OnPage, IsShown, IsOpen, Waits
    <2> QED
        BY <2>1, <2>4
<1>16. RunsKeep /\ count'.mark = count.mark /\ count'.token = count.token
       /\ UNCHANGED <<run, binding, pages>>
    BY <1>4 DEF RunsKeep
<1> QED
    BY <1>9, <1>11, <1>12, <1>13, <1>14, <1>15, <1>16, PageEvent

\* Main voids the refs, and the input is sent.
LEMMA DispatchedInv ==
    ASSUME PagesInv, NEW i \in Calls, Dispatched(i)
    PROVE  PagesInv'
<1> DEFINE t == TabOf(i)
<1>1. Typing(i) /\ Active(i) /\ t \in Tabs
    <2>1. Typing(i) /\ Active(i)
        BY DEF Dispatched, Typing, At, Active
    <2> QED
        BY <2>1, Facts
<1>2. snapshot' = [snapshot EXCEPT ![t] = NoSnapshot]
      /\ UNCHANGED <<run, binding, visible, tab, token, going, count, moves, pages>>
    BY DEF Dispatched
<1>3. GoesWith(i, "sent")
    BY GoFacts DEF Dispatched, PagesInv, Steps
<1>4. snapshot' \in [Tabs -> [mark : Nat, late : BOOLEAN]]
      /\ snapshot'[t] = NoSnapshot /\ \A s \in Tabs : s # t => snapshot'[s] = snapshot[s]
    BY <1>1, <1>2, SnapshotFacts
<1>5. TypeOK'
    BY <1>2, <1>3, <1>4 DEF PagesInv, TypeOK, GoesWith, GoesTo, Alone
<1>6. ~Labelling(i) /\ PagePart(i)' /\ ~InPdf(i)' /\ CallKnown(i)'
    <2>1. call'[i].step = "sent" /\ call'[i].kind = "input" /\ call'[i].run = call[i].run
          /\ call'[i].mark = call[i].mark /\ call'[i].id = call[i].id
        BY <1>1, <1>3 DEF GoesWith, GoesTo, Typing, At
    <2>2. ~Labelling(i) /\ PagePart(i)' /\ ~InPdf(i)'
        BY <1>1, <2>1 DEF PagePart, LabelsStand, Labelling, Typing, At, NotLater, StillThere, InPdf
    <2>3. CallKnown(i)'
        BY <1>1, <1>2, <2>1, Facts DEF CallKnown
    <2> QED
        BY <2>2, <2>3
<1>7. \A j \in Calls : j # i => Waits(j) /\ Notices(j)
    BY <1>2, <1>3 DEF GoesWith, GoesTo, Alone, Waits, Notices, OnPage, IsShown, IsOpen, TabOf
<1>8. RefsAreCurrent'
    <2> SUFFICES ASSUME NEW s \in Tabs, snapshot'[s].mark # 0
                 PROVE  \/ snapshot'[s].mark = tab'[s].mark /\ ~tab'[s].moved
                        \/ snapshot'[s].late
                        \/ \E k \in Calls : Renews(k)' /\ TabOf(k)' = s
        BY DEF RefsAreCurrent, Renews, Labelling, Typing
    <2>1. s # t
        BY <1>4 DEF NoSnapshot
    <2>2. \/ snapshot[s].mark = tab[s].mark /\ ~tab[s].moved
          \/ snapshot[s].late
          \/ \E k \in Calls : Renews(k) /\ TabOf(k) = s
        BY <1>4, <2>1 DEF PagesInv, RefsAreCurrent, Renews, Labelling, Typing
    <2>3. ASSUME NEW k \in Calls, Renews(k), TabOf(k) = s PROVE Renews(k)' /\ TabOf(k)' = s
        <3>1. k # i
            BY <2>1, <2>3
        <3> QED
            BY <1>2, <1>7, <2>3, <3>1 DEF Renews, Labelling, Typing, At, Waits, TabOf
    <2> QED
        BY <1>2, <1>4, <2>1, <2>2, <2>3
<1>9. RunsKeep /\ count'.mark = count.mark /\ count'.token = count.token
      /\ UNCHANGED <<run, binding, pages>>
    BY <1>2 DEF RunsKeep
<1>10. ASSUME NEW s \in Tabs
       PROVE  /\ Unmoved(s)
              /\ tab'[s].url # Blank => tab'[s].load # 0
              /\ token'[s] = token[s] /\ tab'[s].load = tab[s].load
    BY <1>2, <1>4, Facts DEF Unmoved, NoSnapshot
<1> QED
    BY <1>5, <1>6, <1>7, <1>8, <1>9, <1>10, PageEvent

\* The refs that are not good any more are known to be so.
LEMMA UndispatchedInv ==
    ASSUME PagesInv, NEW i \in Calls, Undispatched(i)
    PROVE  PagesInv'
<1> DEFINE t == TabOf(i)
           old == [snapshot[t] EXCEPT !.late = snapshot[t].late \/ tab[t].moved]
<1>1. At(i, "input", "typing") /\ Active(i) /\ t \in Tabs
    <2>1. At(i, "input", "typing") /\ Active(i)
        BY DEF Undispatched, At, Active
    <2> QED
        BY <2>1, Facts
<1>2. snapshot' = [snapshot EXCEPT ![t] = old]
      /\ UNCHANGED <<run, binding, visible, tab, token, going, count, moves, pages>>
    BY DEF Undispatched
<1>3. IsOver(i)
    BY EndFacts DEF Undispatched, PagesInv
<1>4. snapshot \in [Tabs -> [mark : Nat, late : BOOLEAN]]
      /\ tab[t].moved \in BOOLEAN
    BY <1>1 DEF PagesInv, TypeOK
<1>5. old \in [mark : Nat, late : BOOLEAN] /\ old.mark = snapshot[t].mark
      /\ (tab[t].moved => old.late) /\ (snapshot[t].late => old.late)
    BY <1>1, <1>4
<1> HIDE DEF old, t
<1>6. snapshot' \in [Tabs -> [mark : Nat, late : BOOLEAN]]
      /\ snapshot'[t] = old /\ \A s \in Tabs : s # t => snapshot'[s] = snapshot[s]
    BY <1>1, <1>2, <1>4, <1>5
<1>7. TypeOK'
    BY <1>2, <1>3, <1>6 DEF PagesInv, TypeOK, IsOver, Alone
<1>8. ~Labelling(i) /\ PagePart(i)' /\ ~InPdf(i)' /\ CallKnown(i)'
    BY <1>1, <1>2, <1>3, <1>7, Facts, OverIsGood DEF Labelling, At
<1>9. \A j \in Calls : j # i => Waits(j) /\ Notices(j)
    BY <1>2, <1>3 DEF IsOver, Alone, Waits, Notices, OnPage, IsShown, IsOpen, TabOf
<1>10. RefsAreCurrent'
    <2> SUFFICES ASSUME NEW s \in Tabs, snapshot'[s].mark # 0
                 PROVE  \/ snapshot'[s].mark = tab'[s].mark /\ ~tab'[s].moved
                        \/ snapshot'[s].late
                        \/ \E k \in Calls : Renews(k)' /\ TabOf(k)' = s
        BY DEF RefsAreCurrent, Renews, Labelling, Typing
    <2>1. snapshot[s].mark = snapshot'[s].mark
          /\ (snapshot[s].late => snapshot'[s].late)
        BY <1>5, <1>6
    <2>2. \/ snapshot[s].mark = tab[s].mark /\ ~tab[s].moved
          \/ snapshot[s].late
          \/ \E k \in Calls : Renews(k) /\ TabOf(k) = s
        BY <2>1 DEF PagesInv, RefsAreCurrent, Renews, Labelling, Typing
    <2>3. ASSUME NEW k \in Calls, k # i, Renews(k), TabOf(k) = s
          PROVE  Renews(k)' /\ TabOf(k)' = s
        BY <1>2, <1>9, <2>3 DEF Renews, Labelling, Typing, At, Waits, TabOf
    <2>4. CASE s = t /\ tab[t].moved
        BY <1>5, <1>6, <2>4
    <2>5. CASE s = t /\ ~tab[t].moved
        <3>1. \/ snapshot[s].mark = tab[s].mark
              \/ snapshot[s].late
              \/ \E k \in Calls : Labelling(k) /\ TabOf(k) = s
            BY <2>1 DEF PagesInv, RefsStand
        <3>2. \A k \in Calls : Labelling(k) => Renews(k) /\ k # i
            BY <1>8 DEF Renews
        <3> QED
            BY <1>2, <2>1, <2>3, <2>5, <3>1, <3>2
    <2>6. CASE s # t
        BY <1>2, <2>1, <2>2, <2>3, <2>6 DEF t
    <2> QED
        BY <2>4, <2>5, <2>6
<1>11. RunsKeep /\ count'.mark = count.mark /\ count'.token = count.token
       /\ UNCHANGED <<run, binding, pages>>
    BY <1>2 DEF RunsKeep
<1>12. ASSUME NEW s \in Tabs
       PROVE  /\ Unmoved(s)
              /\ tab'[s].url # Blank => tab'[s].load # 0
              /\ token'[s] = token[s] /\ tab'[s].load = tab[s].load
    BY <1>2, <1>5, <1>6, Facts DEF Unmoved
<1> QED
    BY <1>7, <1>8, <1>9, <1>10, <1>11, <1>12, PageEvent

-------------------------------------------------------------------------------
(* Navigations *)

LEMMA NavigateInv ==
    ASSUME PagesInv, NEW i \in Calls, Navigate(i)
    PROVE  PagesInv'
<1> DEFINE t == TabOf(i)
<1>1. call[i].kind = "navigate" /\ call[i].step = "asked" /\ Active(i) /\ t \in Tabs
    <2>1. call[i].kind = "navigate" /\ call[i].step = "asked"
        BY DEF Navigate, At
    <2>2. Active(i)
        BY <2>1 DEF Active
    <2> QED
        BY <2>1, <2>2, Facts
<1>2. CASE ~IsShown(t)
    <2>1. Ends(i) /\ UNCHANGED <<token, going>>
        BY <1>2 DEF Navigate
    <2> QED
        BY <1>1, <2>1, EndStep DEF Navigate, Renews, Labelling, Typing, At
<1>3. CASE IsShown(t)
    <2>1. token' = Invalidated(t) /\ Goes(i, "loading")
          /\ going' = [going EXCEPT ![t] = [by |-> i, url |-> call[i].url]]
        BY <1>3 DEF Navigate
    <2>2. UNCHANGED <<run, binding, visible, tab, snapshot, count, moves, pages>>
        BY DEF Navigate
    <2>3. GoesWith(i, "loading")
        BY <2>1, GoFacts DEF PagesInv, Steps
    <2>4. token' \in [Tabs -> [id : Nat, url : Addresses]]
          /\ \A s \in Tabs : token'[s] \in {token[s], NoToken}
        BY <1>1, <2>1, TokenFacts
    <2>5. going' \in [Tabs -> [by : {-1, 0} \cup Calls, url : Addresses]]
        <3>1. going \in [Tabs -> [by : {-1, 0} \cup Calls, url : Addresses]]
            BY DEF PagesInv, TypeOK
        <3>2. call[i].url \in Addresses
            BY DEF PagesInv, TypeOK, Call
        <3> QED
            BY <2>1, <3>1, <3>2
    <2>6. TypeOK'
        BY <2>2, <2>3, <2>4, <2>5 DEF PagesInv, TypeOK, GoesWith, GoesTo, Alone
    <2>7. ASSUME NEW j \in Calls
          PROVE  \/ Waits(j) /\ Notices(j)
                 \/ ~Renews(j) /\ PagePart(j)' /\ ~InPdf(j)' /\ CallKnown(j)'
        <3>1. CASE j # i
            BY <2>2, <2>3, <3>1
            DEF Waits, Notices, OnPage, IsShown, IsOpen, TabOf, GoesWith, GoesTo, Alone
        <3>2. CASE j = i
            <4>1. call'[i].kind = "navigate" /\ call'[i].step = "loading"
                  /\ call'[i].run = call[i].run
                  /\ call'[i].mark = call[i].mark /\ call'[i].id = call[i].id
                BY <1>1, <2>3 DEF GoesWith, GoesTo
            <4>2. ~Renews(i) /\ PagePart(i)' /\ ~InPdf(i)'
                BY <1>1, <4>1 DEF PagePart, LabelsStand, Renews, Labelling, Typing, At,
                                  NotLater, StillThere, InPdf
            <4>3. CallKnown(i)'
                BY <1>1, <2>2, <4>1, Facts DEF CallKnown
            <4> QED
                BY <3>2, <4>2, <4>3
        <3> QED
            BY <3>1, <3>2
    <2>8. RunsKeep /\ count'.mark = count.mark /\ count'.token = count.token
          /\ UNCHANGED <<run, binding, pages>>
        BY <2>2 DEF RunsKeep
    <2>9. ASSUME NEW s \in Tabs
          PROVE  /\ Unmoved(s) /\ RefsKept(s)
                 /\ tab'[s].url # Blank => tab'[s].load # 0
                 /\ \/ token'[s] = token[s] /\ tab'[s].load = tab[s].load
                    \/ token'[s] = NoToken
        BY <2>2, <2>4, Facts DEF Unmoved, RefsKept
    <2> QED
        BY <2>6, <2>7, <2>8, <2>9, EventInv
<1> QED
    BY <1>2, <1>3

LEMMA OpenedInv ==
    ASSUME PagesInv, NEW i \in Calls, Opened(i)
    PROVE  PagesInv'
<1>1. UNCHANGED <<run, binding, visible, tab, snapshot, token, count, moves, pages>>
      /\ ~Renews(i)
    BY DEF Opened, Renews, Labelling, Typing, At
<1>3. IsOver(i)
    BY EndFacts DEF Opened, PagesInv
<1>4. Active(i) /\ TabOf(i) \in Tabs
    <2>1. Active(i)
        BY DEF Opened, At, Active
    <2> QED
        BY <2>1, Facts
<1>5. going' \in [Tabs -> [by : {-1, 0} \cup Calls, url : Addresses]]
    <2>1. going \in [Tabs -> [by : {-1, 0} \cup Calls, url : Addresses]]
        BY DEF PagesInv, TypeOK
    <2>2. going' = going \/ going' = [going EXCEPT ![TabOf(i)] = NoTrip]
        BY DEF Opened
    <2> QED
        BY <1>4, <2>1, <2>2, NoTripFacts
<1>6. TypeOK'
    BY <1>1, <1>3, <1>5 DEF PagesInv, TypeOK, IsOver, Alone
<1>7. PagePart(i)' /\ ~InPdf(i)' /\ CallKnown(i)'
    BY <1>1, <1>3, <1>6, Facts, OverIsGood
<1>8. \A j \in Calls : j # i => Waits(j) /\ Notices(j)
    BY <1>1, <1>3 DEF IsOver, Alone, Waits, Notices, OnPage, IsShown, IsOpen, TabOf
<1>9. RunsKeep /\ count'.mark = count.mark /\ count'.token = count.token
      /\ UNCHANGED <<run, binding, pages>>
    BY <1>1 DEF RunsKeep
<1>10. ASSUME NEW s \in Tabs
       PROVE  /\ Unmoved(s) /\ RefsKept(s)
              /\ tab'[s].url # Blank => tab'[s].load # 0
              /\ token'[s] = token[s] /\ tab'[s].load = tab[s].load
    BY <1>1, Facts DEF Unmoved, RefsKept
<1> QED
    BY <1>1, <1>6, <1>7, <1>8, <1>9, <1>10, EventInv

-------------------------------------------------------------------------------
(* Labelling a page, and keeping what the labels stand for *)

LEMMA LabelInv ==
    ASSUME PagesInv, NEW i \in Calls, Label(i)
    PROVE  PagesInv'
<1> DEFINE t == TabOf(i)
           n == count.mark + 1
<1>1. call[i].kind = "snapshot" /\ call[i].step = "asked" /\ Active(i) /\ t \in Tabs
    <2>1. call[i].kind = "snapshot" /\ call[i].step = "asked"
        BY DEF Label, At
    <2>2. Active(i)
        BY <2>1 DEF Active
    <2> QED
        BY <2>1, <2>2, Facts
<1>2. CASE ~IsShown(t)
    <2>1. Ends(i) /\ UNCHANGED <<tab, count>>
        BY <1>2 DEF Label
    <2> QED
        BY <1>1, <2>1, EndStep DEF Label, Renews, Labelling, Typing, At
<1>3. CASE IsShown(t)
    <2> DEFINE row == [tab[t] EXCEPT !.mark = n, !.moved = FALSE]
               c == [call[i] EXCEPT !.step = "labelled", !.mark = n]
    <2>1. tab \in [Tabs -> TabRow] /\ call \in [Calls -> Call]
          /\ count \in [load : Nat, mark : Nat, token : Nat, call : 0 .. MaxCalls]
        BY DEF PagesInv, TypeOK, TabRow
    <2>2. n \in Nat /\ n > 0 /\ count.mark \in Nat /\ n > count.mark /\ n # 0
        BY Facts
    <2>3. tab' = [tab EXCEPT ![t] = row] /\ call' = [call EXCEPT ![i] = c]
          /\ count' = [count EXCEPT !.mark = n]
        BY <1>3 DEF Label
    <2>4. UNCHANGED <<run, binding, visible, snapshot, token, going, moves, pages>>
        BY DEF Label
    <2> HIDE DEF n
    <2>5. row \in TabRow /\ row.state = tab[t].state /\ row.url = tab[t].url
          /\ row.load = tab[t].load /\ row.mark = n /\ row.moved = FALSE
        BY <1>1, <2>1, <2>2 DEF TabRow
    <2>6. c \in Call /\ c.step = "labelled" /\ c.run = call[i].run /\ c.kind = "snapshot"
          /\ c.mark = n /\ c.id = call[i].id
        BY <1>1, <2>1, <2>2 DEF Call, Steps
    <2>7. count' \in [load : Nat, mark : Nat, token : Nat, call : 0 .. MaxCalls]
          /\ count'.mark = n /\ count'.token = count.token
        BY <2>1, <2>2, <2>3
    <2> HIDE DEF row, c, t
    <2>8. tab' \in [Tabs -> TabRow] /\ tab'[t] = row /\ \A s \in Tabs : s # t => tab'[s] = tab[s]
        BY <1>1, <2>3, <2>5, TabFacts
    <2>9. Alone(i) /\ call'[i] = c
        BY <2>1, <2>3, <2>6 DEF Alone
    <2>10. TypeOK'
        BY <2>4, <2>5, <2>7, <2>8, <2>9 DEF PagesInv, TypeOK, TabRow, Alone
    <2>11. \A j \in Calls : j # i => Waits(j)
        BY <2>9 DEF Alone, Waits
    <2>12. RunsKeep
        BY <2>4 DEF RunsKeep
    <2>13. ASSUME NEW j \in Calls, Active(j)
           PROVE  TabOf(j)' = TabOf(j) /\ TabOf(j) \in Tabs
        BY <2>4, <2>6, <2>9, <2>13, Facts DEF TabOf, Alone
    <2>14. ASSUME NEW s \in Tabs PROVE NoneIsLater(s)'
        BY <2>2, <2>4, <2>5, <2>8, Facts DEF PagesInv, NoneIsLater
    <2>15. Labelling(i)' /\ TabOf(i)' = t /\ call'[i].mark = n
        BY <1>1, <2>6, <2>9, <2>13 DEF Labelling, At, t
    <2>16. ASSUME NEW j \in Calls, Labelling(j)
           PROVE  Labelling(j)' /\ TabOf(j)' = TabOf(j) /\ call'[j].mark = call[j].mark
                  /\ TabOf(j) \in Tabs /\ j # i /\ call'[j].moved = call[j].moved
        <3>1. j # i /\ Active(j)
            BY <1>1, <2>16 DEF Labelling, At, Active
        <3> QED
            BY <2>9, <2>13, <2>16, <3>1 DEF Alone, Labelling, At
    <2>17. RefsAreCurrent'
        <3>0. ASSUME NEW j \in Calls, Renews(j) PROVE Renews(j)' /\ TabOf(j)' = TabOf(j)
            <4>1. j # i /\ Active(j)
                BY <1>1, <3>0 DEF Renews, Labelling, Typing, At, Active
            <4> QED
                BY <2>9, <2>13, <3>0, <4>1 DEF Alone, Renews, Labelling, Typing, At
        <3> SUFFICES ASSUME NEW s \in Tabs, snapshot'[s].mark # 0
                     PROVE  \/ snapshot'[s].mark = tab'[s].mark /\ ~tab'[s].moved
                            \/ snapshot'[s].late
                            \/ \E k \in Calls : Renews(k)' /\ TabOf(k)' = s
            BY DEF RefsAreCurrent, Renews, Labelling, Typing
        <3>1. CASE s = t
            BY <2>15, <3>1 DEF Renews
        <3>2. CASE s # t
            <4>1. \/ snapshot[s].mark = tab[s].mark /\ ~tab[s].moved
                  \/ snapshot[s].late
                  \/ \E k \in Calls : Renews(k) /\ TabOf(k) = s
                BY <2>4 DEF PagesInv, RefsAreCurrent, Renews, Labelling, Typing
            <4> QED
                BY <2>4, <2>8, <3>0, <3>2, <4>1
        <3> QED
            BY <3>1, <3>2
    <2>18. ASSUME NEW j \in Calls PROVE PagePart(j)'
        <3>1. CASE j = i
            <4>1. LabelsStand(i)'
                BY <2>5, <2>8, <2>15, <1>1 DEF LabelsStand
            <4>2. NotLater(i)'
                BY <1>1, <2>2, <2>5, <2>8, <2>15 DEF NotLater
            <4>3. StillThere(i)'
                BY <2>6, <2>9 DEF StillThere
            <4> QED
                BY <3>1, <4>1, <4>2, <4>3 DEF PagePart
        <3>2. CASE j # i
            <4>1. PagePart(j) /\ call'[j] = call[j]
                BY <2>9, <3>2 DEF PagesInv, Alone
            <4>2. LabelsStand(j)'
                <5> SUFFICES ASSUME Labelling(j), ~call[j].moved
                             PROVE  \/ call[j].mark = tab'[TabOf(j)].mark /\ ~tab'[TabOf(j)].moved
                                    \/ \E k \in Calls : /\ Labelling(k)' /\ TabOf(k)' = TabOf(j)
                                                        /\ call'[k].mark > call[j].mark
                    <6>1. Labelling(j)' => Labelling(j)
                        BY <4>1 DEF Labelling, At
                    <6> QED
                        BY <2>16, <4>1, <6>1 DEF LabelsStand
                <5>1. CASE TabOf(j) = t
                    <6>1. call'[i].mark > call[j].mark
                        BY <2>2, <2>15, Facts
                    <6> QED
                        BY <2>15, <5>1, <6>1
                <5>2. CASE TabOf(j) # t /\ call[j].mark = tab[TabOf(j)].mark /\ ~tab[TabOf(j)].moved
                    BY <2>8, <2>16, <5>2
                <5>3. CASE \E k \in Calls : /\ Labelling(k) /\ TabOf(k) = TabOf(j)
                                            /\ call[k].mark > call[j].mark
                    <6>1. PICK k \in Calls : /\ Labelling(k) /\ TabOf(k) = TabOf(j)
                                             /\ call[k].mark > call[j].mark
                        BY <5>3
                    <6> QED
                        BY <2>16, <6>1
                <5> QED
                    BY <4>1, <5>1, <5>2, <5>3 DEF PagePart, LabelsStand
            <4>3. NotLater(j)'
                <5> SUFFICES ASSUME call[j].step \in {"labelled", "found", "prepared", "confirmed"},
                                    tab'[TabOf(j)'].mark # 0
                             PROVE  call[j].mark <= tab'[TabOf(j)'].mark
                    BY <4>1 DEF NotLater
                <5>1. TabOf(j)' = TabOf(j) /\ TabOf(j) \in Tabs
                    BY <2>13 DEF Active
                <5>2. CASE TabOf(j) = t
                    BY <2>2, <2>5, <2>8, <5>1, <5>2, Facts
                <5>3. CASE TabOf(j) # t
                    BY <2>8, <4>1, <5>1, <5>3 DEF PagePart, NotLater
                <5> QED
                    BY <5>2, <5>3
            <4>4. StillThere(j)'
                <5>1. ASSUME call[j].step = "confirmed"
                      PROVE  tab'[TabOf(j)'].mark # 0 \/ call[j].moved
                    <6>1. TabOf(j)' = TabOf(j) /\ TabOf(j) \in Tabs
                        BY <2>13, <5>1 DEF Active
                    <6>2. tab[TabOf(j)].mark # 0 \/ call[j].moved
                        BY <4>1, <5>1 DEF PagePart, StillThere
                    <6> QED
                        BY <2>2, <2>5, <2>8, <6>1, <6>2
                <5>2. ASSUME call[j].kind = "input", call[j].step \in {"probing", "ready", "typing"}
                      PROVE  OnPage(j)' \/ call[j].moved
                    <6>1. TabOf(j)' = TabOf(j) /\ TabOf(j) \in Tabs
                        BY <2>13, <5>2 DEF Active
                    <6>2. OnPage(j) \/ call[j].moved
                        BY <4>1, <5>2 DEF PagePart, StillThere
                    <6>3. \A s \in Tabs : tab'[s].state = tab[s].state /\ tab'[s].url = tab[s].url
                        BY <2>5, <2>8
                    <6> QED
                        BY <2>4, <4>1, <6>1, <6>2, <6>3 DEF OnPage, IsShown, IsOpen
                <5> QED
                    BY <4>1, <5>1, <5>2 DEF StillThere
            <4> QED
                BY <4>2, <4>3, <4>4 DEF PagePart
        <3> QED
            BY <3>1, <3>2
    <2>19. PdfGood'
        <3>1. \A s \in Tabs : TokenKept(s)
            BY <2>4, <2>5, <2>8 DEF TokenKept
        <3>2. ~InPdf(i)'
            BY <2>6, <2>9 DEF InPdf
        <3> QED
            BY <2>4, <2>10, <2>11, <2>12, <3>1, <3>2, PdfStep
    <2>20. AllKnown'
        <3>1. count.mark <= count'.mark /\ count.token <= count'.token
            BY <2>2, <2>7, Facts
        <3>2. \A r \in Runs : /\ run'[r].state = run[r].state /\ run'[r].tab = run[r].tab
                              /\ run'[r].id <= count'.token
            BY <2>4, <2>7, Facts
        <3>3. \A s \in Tabs : /\ tab'[s].mark <= count'.mark /\ snapshot'[s].mark <= count'.mark
                              /\ token'[s].id <= count'.token
                              /\ tab'[s].url # Blank => tab'[s].load # 0
            BY <2>2, <2>4, <2>5, <2>7, <2>8, Facts
        <3>4. CallKnown(i)'
            BY <1>1, <2>2, <2>4, <2>6, <2>7, <2>9, Facts DEF CallKnown
        <3> QED
            BY <2>4, <2>10, <2>11, <3>1, <3>2, <3>3, <3>4, KnownStep
    <2>21. ASSUME NEW s \in Tabs PROVE RefsStand(s)'
        <3>1. CASE s = t
            BY <2>15, <3>1 DEF RefsStand, Labelling, TabOf
        <3>2. CASE s # t
            <4>1. RefsStand(s) /\ tab'[s] = tab[s] /\ snapshot'[s] = snapshot[s]
                BY <2>4, <2>8, <3>2 DEF PagesInv
            <4> QED
                BY <2>16, <4>1 DEF RefsStand, Labelling, TabOf
        <3> QED
            BY <3>1, <3>2
    <2> QED
        BY <2>10, <2>14, <2>17, <2>18, <2>19, <2>20, <2>21 DEF PagesInv, PdfGood
<1> QED
    BY <1>2, <1>3

LEMMA KeepInv ==
    ASSUME PagesInv, NEW i \in Calls, Keep(i)
    PROVE  PagesInv'
<1> DEFINE t == TabOf(i)
           s0 == [mark |-> call[i].mark, late |-> call[i].moved]
<1>1. Labelling(i) /\ Active(i) /\ t \in Tabs
    <2>1. Labelling(i) /\ Active(i)
        BY DEF Keep, Labelling, At, Active
    <2> QED
        BY <2>1, Facts
<1>2. \A j \in Calls : Labelling(j) /\ TabOf(j) = t => call[i].mark <= call[j].mark
    BY DEF Keep, Labelling
<1>3. snapshot' = [snapshot EXCEPT ![t] = s0]
      /\ UNCHANGED <<run, binding, visible, tab, token, going, count, moves, pages>>
    BY DEF Keep
<1>4. IsOver(i)
    BY EndFacts DEF Keep, PagesInv
<1>5. snapshot \in [Tabs -> [mark : Nat, late : BOOLEAN]] /\ s0 \in [mark : Nat, late : BOOLEAN]
    BY DEF PagesInv, TypeOK, Call
<1>6. s0.mark = call[i].mark /\ s0.late = call[i].moved
    OBVIOUS
<1> HIDE DEF s0, t
<1>7. snapshot' \in [Tabs -> [mark : Nat, late : BOOLEAN]]
      /\ snapshot'[t] = s0 /\ \A s \in Tabs : s # t => snapshot'[s] = snapshot[s]
    BY <1>1, <1>3, <1>5
<1>8. TypeOK'
    BY <1>3, <1>4, <1>7 DEF PagesInv, TypeOK, IsOver, Alone
<1>9. \A j \in Calls : j # i => call'[j] = call[j] /\ TabOf(j)' = TabOf(j)
    BY <1>3, <1>4 DEF IsOver, Alone, TabOf
<1>10. PagePart(i)' /\ ~InPdf(i)' /\ CallKnown(i)'
    BY <1>3, <1>4, <1>8, Facts, OverIsGood
<1>11. ASSUME NEW s \in Tabs PROVE NoneIsLater(s)'
    <2>1. CASE s # t
        BY <1>3, <1>7, <2>1 DEF PagesInv, NoneIsLater
    <2>2. CASE s = t
        <3>1. NotLater(i)
            BY DEF PagesInv, PagePart
        <3> QED
            BY <1>1, <1>3, <1>6, <1>7, <2>2, <3>1 DEF NoneIsLater, NotLater, Labelling, At, t
    <2> QED
        BY <2>1, <2>2
<1>12. ASSUME NEW j \in Calls, j # i
       PROVE  (Labelling(j) => Labelling(j)') /\ (Renews(j) => Renews(j)')
    BY <1>9, <1>12 DEF Renews, Labelling, Typing, At
<1>13. RefsAreCurrent'
    <2> SUFFICES ASSUME NEW s \in Tabs, snapshot'[s].mark # 0
                 PROVE  \/ snapshot'[s].mark = tab'[s].mark /\ ~tab'[s].moved
                        \/ snapshot'[s].late
                        \/ \E k \in Calls : Renews(k)' /\ TabOf(k)' = s
        BY DEF RefsAreCurrent, Renews, Labelling, Typing
    <2>1. CASE s = t
        <3>1. \/ call[i].moved
              \/ call[i].mark = tab[t].mark /\ ~tab[t].moved
              \/ \E j \in Calls : Labelling(j) /\ TabOf(j) = t /\ call[j].mark > call[i].mark
            BY <1>1 DEF PagesInv, PagePart, LabelsStand, t
        <3>2. ASSUME NEW j \in Calls, Labelling(j), TabOf(j) = t, call[j].mark > call[i].mark
              PROVE  Renews(j)' /\ TabOf(j)' = t
            <4>1. j # i
                BY <3>2, Facts
            <4> QED
                BY <1>9, <1>12, <3>2, <4>1 DEF Renews
        <3> QED
            BY <1>3, <1>6, <1>7, <2>1, <3>1, <3>2
    <2>2. CASE s # t
        <3>1. \/ snapshot[s].mark = tab[s].mark /\ ~tab[s].moved
              \/ snapshot[s].late
              \/ \E k \in Calls : Renews(k) /\ TabOf(k) = s
            BY <1>7, <2>2 DEF PagesInv, RefsAreCurrent, Renews, Labelling, Typing
        <3>2. ASSUME NEW k \in Calls, Renews(k), TabOf(k) = s
              PROVE  Renews(k)' /\ TabOf(k)' = s
            <4>1. k # i
                BY <2>2, <3>2 DEF t
            <4> QED
                BY <1>9, <1>12, <3>2, <4>1
        <3> QED
            BY <1>3, <1>7, <2>2, <3>1, <3>2
    <2> QED
        BY <2>1, <2>2
<1>14. ASSUME NEW j \in Calls, j # i PROVE PagePart(j)'
    <2>1. PagePart(j) /\ call'[j] = call[j] /\ TabOf(j)' = TabOf(j)
        BY <1>9, <1>14 DEF PagesInv
    <2>2. LabelsStand(j)'
        <3> SUFFICES ASSUME Labelling(j), ~call[j].moved
                     PROVE  \/ call[j].mark = tab[TabOf(j)].mark /\ ~tab[TabOf(j)].moved
                            \/ \E k \in Calls : /\ Labelling(k)' /\ TabOf(k)' = TabOf(j)
                                                /\ call'[k].mark > call[j].mark
            <4>1. Labelling(j)' => Labelling(j)
                BY <2>1 DEF Labelling, At
            <4> QED
                BY <1>3, <2>1, <4>1 DEF LabelsStand
        <3>1. CASE \E k \in Calls : /\ Labelling(k) /\ TabOf(k) = TabOf(j)
                                    /\ call[k].mark > call[j].mark
            <4>1. PICK k \in Calls : /\ Labelling(k) /\ TabOf(k) = TabOf(j)
                                     /\ call[k].mark > call[j].mark
                BY <3>1
            <4>2. k # i
                BY <1>2, <4>1, Facts DEF t
            <4> QED
                BY <1>9, <1>12, <4>1, <4>2
        <3> QED
            BY <2>1, <3>1 DEF PagePart, LabelsStand
    <2>3. NotLater(j)'
        BY <1>3, <2>1 DEF PagePart, NotLater
    <2>4. StillThere(j)'
        BY <1>3, <2>1 DEF PagePart, StillThere, OnPage, IsShown, IsOpen
    <2> QED
        BY <2>2, <2>3, <2>4 DEF PagePart
<1>15. RunsKeep
    BY <1>3 DEF RunsKeep
<1>16. \A j \in Calls : j # i => Waits(j)
    BY <1>9 DEF Waits
<1>17. PdfGood'
    <2>1. \A s \in Tabs : TokenKept(s)
        BY <1>3 DEF TokenKept
    <2> QED
        BY <1>3, <1>8, <1>10, <1>15, <1>16, <2>1, PdfStep
<1>18. AllKnown'
    <2>1. count.mark <= count'.mark /\ count.token <= count'.token
        BY <1>3, Facts
    <2>2. \A r \in Runs : /\ run'[r].state = run[r].state /\ run'[r].tab = run[r].tab
                          /\ run'[r].id <= count'.token
        BY <1>3, Facts
    <2>3. \A s \in Tabs : /\ tab'[s].mark <= count'.mark /\ snapshot'[s].mark <= count'.mark
                          /\ token'[s].id <= count'.token
                          /\ tab'[s].url # Blank => tab'[s].load # 0
        BY <1>3, <1>6, <1>7, Facts
    <2> QED
        BY <1>3, <1>8, <1>10, <1>16, <2>1, <2>2, <2>3, KnownStep
<1>19. ASSUME NEW s \in Tabs PROVE RefsStand(s)'
    <2>1. CASE s = t
        <3>1. \/ call[i].moved
              \/ call[i].mark = tab[t].mark
              \/ \E j \in Calls : Labelling(j) /\ TabOf(j) = t /\ call[j].mark > call[i].mark
            BY <1>1 DEF PagesInv, PagePart, LabelsStand, t
        <3>2. ASSUME NEW j \in Calls, Labelling(j), TabOf(j) = t, call[j].mark > call[i].mark
              PROVE  Labelling(j)' /\ TabOf(j)' = t
            <4>1. j # i
                BY <3>2, Facts
            <4> QED
                BY <1>9, <1>12, <3>2, <4>1
        <3> QED
            BY <1>3, <1>6, <1>7, <2>1, <3>1, <3>2 DEF RefsStand, Labelling, TabOf
    <2>2. CASE s # t
        <3>1. RefsStand(s) /\ tab'[s] = tab[s] /\ snapshot'[s] = snapshot[s]
            BY <1>3, <1>7, <2>2 DEF PagesInv
        <3>2. ASSUME NEW j \in Calls, Labelling(j), TabOf(j) = s
              PROVE  Labelling(j)' /\ TabOf(j)' = s
            <4>1. j # i
                BY <2>2, <3>2 DEF t
            <4> QED
                BY <1>9, <1>12, <3>2, <4>1
        <3> QED
            BY <3>1, <3>2 DEF RefsStand, Labelling, TabOf
    <2> QED
        BY <2>1, <2>2
<1> QED
    BY <1>8, <1>10, <1>11, <1>13, <1>14, <1>17, <1>18, <1>19 DEF PagesInv, PdfGood

-------------------------------------------------------------------------------
(* The PDF *)

(***************************************************************************)
(* A step of a call for a PDF: it changes what its own run has, and takes  *)
(* the token of its tab or a new one.                                      *)
(***************************************************************************)
RunRow == [state : {"new", "queued", "running"}, tab : Tabs \cup {0}, id : Nat, load : Nat]

LEMMA PdfInv ==
    ASSUME PagesInv, NEW i \in Calls, NEW r \in Runs, r = call[i].run,
           InPdf(i), Alone(i), TypeOK',
           \/ IsOver(i)
           \/ GoesTo(i, call'[i].step) /\ call'[i].step \in {"fetching", "check", "recheck"},
           UNCHANGED <<binding, visible, tab, snapshot>>,
           count'.mark = count.mark, count.token <= count'.token,
           \A q \in Runs : /\ q # r => run'[q] = run[q] /\ pages'[q] = pages[q]
                           /\ run'[q].state = run[q].state /\ run'[q].tab = run[q].tab
                           /\ run'[q].id <= count'.token,
           \A s \in Tabs : /\ token'[s].id <= count'.token
                           /\ token'[s] = token[s] \/ token'[s].id > count.token,
           call'[i].mark <= count'.mark, call'[i].id <= count'.token,
           Reading(i)', Given(r)'
    PROVE  PagesInv'
<1>1. r \in Runs /\ run[r].state = "running" /\ Active(i)
    BY Facts DEF InPdf
<1>2. \A j \in Calls : Waits(j) \/ j = i
    BY DEF Alone, Waits
<1>3. ASSUME NEW j \in Calls, Active(j)
      PROVE  TabOf(j) \in Tabs /\ run'[call[j].run].tab = TabOf(j) /\ call[j].run \in Runs
    BY <1>3, Facts DEF TabOf
<1>4. AllKnown'
    <2>1. CallKnown(i)'
        <3>1. CASE IsOver(i)
            BY <3>1 DEF CallKnown, Active, IsOver
        <3>2. CASE GoesTo(i, call'[i].step)
            BY <1>1, <3>2 DEF CallKnown, GoesTo
        <3> QED
            BY <3>1, <3>2
    <2>2. \A s \in Tabs : /\ tab'[s].mark <= count'.mark /\ snapshot'[s].mark <= count'.mark
                          /\ tab'[s].url # Blank => tab'[s].load # 0
        BY Facts
    <2>3. count.mark <= count'.mark
        BY Facts
    <2> QED
        BY <1>2, <2>1, <2>2, <2>3, KnownStep
<1>5. ASSUME NEW j \in Calls, Active(j), j # i
      PROVE  call'[j] = call[j] /\ TabOf(j)' = TabOf(j) /\ TabOf(j) \in Tabs
    BY <1>3, <1>5 DEF Alone, TabOf
<1>6. ASSUME NEW s \in Tabs PROVE NoneIsLater(s)'
    BY DEF PagesInv, NoneIsLater
<1>7. ~Labelling(i) /\ ~Labelling(i)' /\ PagePart(i)'
    <2>1. call'[i].kind \in {"pdf", "read"}
        BY DEF IsOver, GoesTo, InPdf
    <2>2. ~Labelling(i) /\ ~Labelling(i)'
        BY <2>1 DEF InPdf, Labelling, At
    <2>3. call'[i].step \in {"unused", "fetching", "check", "recheck"}
        BY DEF IsOver
    <2> QED
        BY <2>1, <2>2, <2>3 DEF PagePart, LabelsStand, NotLater, StillThere
<1>8. ASSUME NEW j \in Calls, Labelling(j)
      PROVE  Labelling(j)' /\ TabOf(j)' = TabOf(j) /\ call'[j] = call[j]
    <2>1. j # i /\ Active(j)
        BY <1>7, <1>8 DEF Labelling, At, Active
    <2> QED
        BY <1>5, <1>8, <2>1 DEF Labelling, At
<1>9. RefsAreCurrent'
    <2>0. ASSUME NEW j \in Calls, Renews(j) PROVE Renews(j)' /\ TabOf(j)' = TabOf(j)
        <3>1. j # i /\ Active(j)
            BY <1>7, <2>0 DEF Renews, Labelling, Typing, At, Active, InPdf
        <3> QED
            BY <1>5, <2>0, <3>1 DEF Renews, Labelling, Typing, At
    <2> SUFFICES ASSUME NEW s \in Tabs, snapshot[s].mark # 0
                 PROVE  \/ snapshot[s].mark = tab[s].mark /\ ~tab[s].moved
                        \/ snapshot[s].late
                        \/ \E k \in Calls : Renews(k)' /\ TabOf(k)' = s
        BY DEF RefsAreCurrent, Renews, Labelling, Typing
    <2>1. \/ snapshot[s].mark = tab[s].mark /\ ~tab[s].moved
          \/ snapshot[s].late
          \/ \E k \in Calls : Renews(k) /\ TabOf(k) = s
        BY DEF PagesInv, RefsAreCurrent, Renews, Labelling, Typing
    <2> QED
        BY <2>0, <2>1
<1>16. ASSUME NEW s \in Tabs PROVE RefsStand(s)'
    <2>1. RefsStand(s)
        BY DEF PagesInv
    <2> QED
        BY <1>8, <2>1 DEF RefsStand, Labelling, TabOf
<1>10. ASSUME NEW j \in Calls, j # i PROVE PagePart(j)'
    <2>1. PagePart(j) /\ call'[j] = call[j]
        BY <1>10 DEF PagesInv, Alone
    <2>2. CASE ~Active(j)
        BY <2>1, <2>2 DEF PagePart, LabelsStand, Labelling, At, NotLater, StillThere,
                          Active
    <2>3. CASE Active(j)
        <3>1. TabOf(j)' = TabOf(j)
            BY <1>5, <1>10, <2>3
        <3>2. LabelsStand(j)'
            <4>1. Labelling(j)' => Labelling(j)
                BY <2>1 DEF Labelling, At
            <4> QED
                BY <1>8, <2>1, <3>1, <4>1 DEF PagePart, LabelsStand
        <3>3. NotLater(j)'
            BY <2>1, <3>1 DEF PagePart, NotLater
        <3>4. StillThere(j)'
            BY <2>1, <3>1 DEF PagePart, StillThere, OnPage, IsShown, IsOpen
        <3> QED
            BY <3>2, <3>3, <3>4 DEF PagePart
    <2> QED
        BY <2>2, <2>3
<1>11. OneReader'
    <2>1. \A j \in Calls : InPdf(j)' => InPdf(j) /\ call'[j].run = call[j].run
        BY DEF Alone, InPdf, Active, IsOver, GoesTo
    <2>2. OneReader
        BY DEF PagesInv
    <2> QED
        BY <2>1, <2>2 DEF OneReader
<1>12. ASSUME NEW j \in Calls, j # i PROVE Reading(j)'
    <2>1. Reading(j) /\ call'[j] = call[j]
        BY <1>12 DEF PagesInv, Alone
    <2>2. CASE ~InPdf(j)
        BY <2>1, <2>2 DEF Reading, InPdf, At, Active
    <2>3. CASE InPdf(j)
        <3>1. call[j].run # r /\ Active(j)
            BY <1>12, <2>3 DEF PagesInv, OneReader, InPdf
        <3>2. TabOf(j)' = TabOf(j) /\ TabOf(j) \in Tabs /\ call[j].run \in Runs
            BY <1>3, <1>5, <1>12, <3>1
        <3>3. Cached(j)' = Cached(j)
            BY <2>1, <3>1, <3>2 DEF Cached
        <3>4. SamePage(TabOf(j), call[j].id, call[j].load)
                => SamePage(TabOf(j), call[j].id, call[j].load)'
            <4>1. token'[TabOf(j)] = token[TabOf(j)] \/ token'[TabOf(j)].id # call[j].id
                BY <3>2, Facts
            <4> QED
                BY <2>1, <3>2, <4>1 DEF SamePage
        <3> QED
            BY <2>1, <3>2, <3>3, <3>4 DEF Reading, InPdf, At, Active
    <2> QED
        BY <2>2, <2>3
<1>13. ASSUME NEW q \in Runs, q # r PROVE Given(q)'
    <2>1. Given(q) /\ run'[q] = run[q] /\ pages'[q] = pages[q]
        BY <1>13 DEF PagesInv
    <2>2. ASSUME run[q].state = "running"
          PROVE  SamePage(run[q].tab, run[q].id, run[q].load)
                   => SamePage(run[q].tab, run[q].id, run[q].load)'
        <3>1. run[q].tab \in Tabs
            BY <2>2, Facts
        <3>2. token'[run[q].tab] = token[run[q].tab] \/ token'[run[q].tab].id # run[q].id
            BY <3>1, Facts
        <3> QED
            BY <2>1, <3>1, <3>2 DEF SamePage
    <2> QED
        BY <2>1, <2>2 DEF Given
<1>14. \A j \in Calls : PagePart(j)' /\ Reading(j)'
    BY <1>7, <1>10, <1>12
<1>15. \A q \in Runs : Given(q)'
    BY <1>13
<1> QED
    BY <1>4, <1>6, <1>9, <1>11, <1>14, <1>15, <1>16 DEF PagesInv

LEMMA RunFacts ==
    ASSUME PagesInv, NEW r \in Runs, NEW id \in Nat, NEW load \in Nat,
           run' = [run EXCEPT ![r].id = id, ![r].load = load]
    PROVE  /\ run' \in [Runs -> RunRow]
           /\ run'[r].id = id /\ run'[r].load = load
           /\ run'[r].state = run[r].state /\ run'[r].tab = run[r].tab
           /\ \A q \in Runs : q # r => run'[q] = run[q]
<1> DEFINE c == [run[r] EXCEPT !.id = id, !.load = load]
<1>1. run \in [Runs -> RunRow]
    BY DEF PagesInv, TypeOK, RunRow
<1>2. c \in RunRow /\ c.id = id /\ c.load = load /\ c.state = run[r].state /\ c.tab = run[r].tab
    BY <1>1 DEF RunRow
<1>3. run' = [run EXCEPT ![r] = c]
    OBVIOUS
<1> HIDE DEF c
<1> QED
    BY <1>1, <1>2, <1>3

LEMMA ForgetFacts ==
    ASSUME PagesInv, NEW r \in Runs, run' = [run EXCEPT ![r].load = 0]
    PROVE  /\ run' \in [Runs -> RunRow]
           /\ run'[r].id = run[r].id /\ run'[r].load = 0
           /\ run'[r].state = run[r].state /\ run'[r].tab = run[r].tab
           /\ \A q \in Runs : q # r => run'[q] = run[q]
<1> DEFINE c == [run[r] EXCEPT !.load = 0]
<1>1. run \in [Runs -> RunRow]
    BY DEF PagesInv, TypeOK, RunRow
<1>2. c \in RunRow /\ c.id = run[r].id /\ c.load = 0 /\ c.state = run[r].state /\ c.tab = run[r].tab
    BY <1>1 DEF RunRow
<1>3. run' = [run EXCEPT ![r] = c]
    OBVIOUS
<1> HIDE DEF c
<1> QED
    BY <1>1, <1>2, <1>3

\* The numbers of the other runs, and of a token that stays.
LEMMA OthersKnown ==
    ASSUME PagesInv, NEW r \in Runs, UNCHANGED <<tab, token, count>>,
           run'[r].id <= count.token,
           run'[r].state = run[r].state, run'[r].tab = run[r].tab,
           \A q \in Runs : q # r => run'[q] = run[q]
    PROVE  /\ count'.mark = count.mark /\ count.token <= count'.token
           /\ \A q \in Runs : /\ run'[q].state = run[q].state /\ run'[q].tab = run[q].tab
                              /\ run'[q].id <= count'.token
           /\ \A s \in Tabs : /\ token'[s].id <= count'.token
                              /\ token'[s] = token[s] \/ token'[s].id > count.token
BY Facts

\* The bytes are forgotten.
LEMMA ForgetInv ==
    ASSUME PagesInv, NEW i \in Calls, InPdf(i), Ends(i),
           run' = [run EXCEPT ![call[i].run].load = 0],
           UNCHANGED <<binding, visible, tab, snapshot, token, going, count, moves, pages>>
    PROVE  PagesInv'
<1>0. PICK r \in Runs : r = call[i].run
    BY Facts
<1>1. r \in Runs
    BY <1>0, Facts
<1>2. IsOver(i)
    BY <1>0, EndFacts DEF PagesInv
<1>3. /\ run' \in [Runs -> RunRow]
      /\ run'[r].id = run[r].id /\ run'[r].load = 0
      /\ run'[r].state = run[r].state /\ run'[r].tab = run[r].tab
      /\ \A q \in Runs : q # r => run'[q] = run[q]
    BY <1>0, <1>1, ForgetFacts
<1>4. TypeOK'
    BY <1>0, <1>2, <1>3 DEF PagesInv, TypeOK, RunRow, IsOver, Alone
<1>5. Given(r)
    BY <1>0, <1>1 DEF PagesInv
<1>6. Given(r)'
    BY <1>0, <1>3, <1>5 DEF Given
<1>7. Reading(i)'
    BY <1>0, <1>2 DEF IsOver, Reading, InPdf, At
<1>8. run'[r].id <= count.token
    BY <1>0, <1>1, <1>3, Facts
<1>9. call'[i].mark <= count'.mark /\ call'[i].id <= count'.token
    BY <1>0, <1>2, Facts DEF IsOver
<1>10. Alone(i) /\ r = call[i].run /\ \A q \in Runs : q # r => pages'[q] = pages[q]
    BY <1>0, <1>2 DEF IsOver
<1>11. /\ count'.mark = count.mark /\ count.token <= count'.token
       /\ \A q \in Runs : /\ run'[q].state = run[q].state /\ run'[q].tab = run[q].tab
                          /\ run'[q].id <= count'.token
       /\ \A s \in Tabs : /\ token'[s].id <= count'.token
                          /\ token'[s] = token[s] \/ token'[s].id > count.token
    BY <1>0, <1>1, <1>3, <1>8, OthersKnown
<1> QED
    BY <1>0, <1>1, <1>2, <1>3, <1>4, <1>6, <1>7, <1>9, <1>10, <1>11, PdfInv

LEMMA PdfRefusedInv ==
    ASSUME PagesInv, NEW i \in Calls, PdfRefused(i)
    PROVE  PagesInv'
<1>1. InPdf(i)
    BY DEF PdfRefused, At, InPdf, Active
<1> QED
    BY <1>1, ForgetInv DEF PdfRefused, PdfFails

LEMMA PdfErrorInv ==
    ASSUME PagesInv, NEW i \in Calls, PdfError(i)
    PROVE  PagesInv'
<1>1. InPdf(i)
    BY DEF PdfError, InPdf, Active
<1> QED
    BY <1>1, ForgetInv DEF PdfError, PdfFails

LEMMA GiveUpInv ==
    ASSUME PagesInv, NEW i \in Calls, GiveUp(i)
    PROVE  PagesInv'
<1>1. CASE call[i].kind = "pdf"
    BY <1>1, ForgetInv DEF GiveUp, InPdf, Active
<1>2. CASE call[i].kind # "pdf"
    <2> DEFINE c == [call[i] EXCEPT !.left = TRUE]
    <2>1. call \in [Calls -> Call] /\ call[i] \in Call
        BY DEF PagesInv, TypeOK
    <2>2. c \in Call /\ c.run = call[i].run /\ c.kind = call[i].kind /\ c.step = call[i].step
          /\ c.url = call[i].url /\ c.mark = call[i].mark /\ c.id = call[i].id
          /\ c.load = call[i].load /\ c.typed = call[i].typed /\ c.moved = call[i].moved
        BY <2>1 DEF Call
    <2>3. call' = [call EXCEPT ![i] = c]
        BY <1>2 DEF GiveUp
    <2> HIDE DEF c
    <2>4. Alone(i) /\ call'[i] = c
        BY <2>1, <2>2, <2>3 DEF Alone
    <2>5. UNCHANGED <<run, binding, visible, tab, snapshot, token, going, count, moves, pages>>
        BY <1>2 DEF GiveUp
    <2>6. Waits(i)
        BY <1>2, <2>2, <2>4 DEF Waits
    <2>7. CallKnown(i)'
        BY <2>2, <2>4, <2>5, Facts DEF CallKnown, Active
    <2> QED
        BY <2>4, <2>5, <2>6, <2>7, CallStepInv DEF CallStep
<1> QED
    BY <1>1, <1>2

LEMMA CheckedInv ==
    ASSUME PagesInv, NEW i \in Calls, Checked(i)
    PROVE  PagesInv'
<1>0. PICK r \in Runs : r = call[i].run
    BY Facts
<1> DEFINE c == [call[i] EXCEPT !.step = "recheck", !.load = run[r].load]
<1>1. InPdf(i) /\ r \in Runs /\ call[i].kind = "pdf" /\ ~call[i].left
      /\ run[r].id # 0 /\ run[r].load # 0
    <2>1. At(i, "pdf", "check") /\ InPdf(i)
        BY <1>0 DEF Checked, At, InPdf, Active
    <2>2. Reading(i)
        BY <1>0 DEF PagesInv
    <2> QED
        BY <1>0, <2>1, <2>2, Facts DEF Reading, Cached, At
<1>2. call \in [Calls -> Call] /\ call[i] \in Call /\ run[r].load \in Nat
    BY <1>0, <1>1, Facts DEF PagesInv, TypeOK
<1>3. c \in Call /\ c.step = "recheck" /\ c.run = r /\ c.kind = call[i].kind
      /\ c.url = call[i].url /\ c.left = call[i].left /\ c.typed = call[i].typed
      /\ c.moved = call[i].moved /\ c.mark = call[i].mark /\ c.id = call[i].id
      /\ c.load = run[r].load
    BY <1>0, <1>2 DEF Call, Steps
<1>4. call' = [call EXCEPT ![i] = c]
    BY <1>0 DEF Checked, Cached
<1>5. UNCHANGED <<run, binding, visible, tab, snapshot, token, going, count, moves, pages>>
    BY <1>0 DEF Checked
<1> HIDE DEF c
<1>6. Alone(i) /\ call'[i] = c
    BY <1>0, <1>2, <1>3, <1>4 DEF Alone
<1>7. GoesTo(i, "recheck")
    BY <1>0, <1>3, <1>6 DEF GoesTo
<1>8. TypeOK'
    BY <1>0, <1>5, <1>6 DEF PagesInv, TypeOK, Alone
<1>9. Reading(i)'
    BY <1>0, <1>1, <1>3, <1>5, <1>6 DEF Reading, At, Cached
<1>10. Given(r)'
    <2>1. Given(r)
        BY <1>0, <1>1 DEF PagesInv
    <2> QED
        BY <1>0, <1>5, <2>1 DEF Given, SamePage
<1>11. call'[i].mark <= count'.mark /\ call'[i].id <= count'.token /\ run'[r].id <= count.token
    BY <1>0, <1>1, <1>3, <1>5, <1>6, Facts
<1>12. call'[i].step = "recheck"
    BY <1>0, <1>3, <1>6
<1>13. r = call[i].run
    BY <1>0
<1>14. /\ run'[r].state = run[r].state /\ run'[r].tab = run[r].tab
       /\ \A q \in Runs : q # r => run'[q] = run[q] /\ pages'[q] = pages[q]
    BY <1>0, <1>5
<1>15. /\ count'.mark = count.mark /\ count.token <= count'.token
       /\ \A q \in Runs : /\ run'[q].state = run[q].state /\ run'[q].tab = run[q].tab
                          /\ run'[q].id <= count'.token
       /\ \A s \in Tabs : /\ token'[s].id <= count'.token
                          /\ token'[s] = token[s] \/ token'[s].id > count.token
    BY <1>0, <1>1, <1>5, <1>11, <1>14, OthersKnown
<1> QED
    BY <1>0, <1>1, <1>5, <1>6, <1>7, <1>8, <1>9, <1>10, <1>11, <1>12, <1>13, <1>14, <1>15, PdfInv

LEMMA FetchedInv ==
    ASSUME PagesInv, NEW i \in Calls, Fetched(i)
    PROVE  PagesInv'
<1>0. PICK r \in Runs : r = call[i].run
    BY Facts
<1>1. InPdf(i) /\ r \in Runs /\ Reading(i) /\ At(i, "pdf", "fetching") /\ Given(r)
      /\ call[i].id \in Nat /\ call[i].load \in Nat /\ run[r].state = "running"
      /\ call[i].mark <= count.mark /\ call[i].id <= count.token
    <2>1. At(i, "pdf", "fetching") /\ InPdf(i) /\ Active(i)
        BY <1>0 DEF Fetched, At, InPdf, Active
    <2>2. r \in Runs
        BY <1>0, Facts
    <2>3. Reading(i) /\ Given(r)
        BY <1>0, <2>2 DEF PagesInv
    <2> QED
        BY <1>0, <2>1, <2>2, <2>3, Facts
<1>2. run' = [run EXCEPT ![r].id = call[i].id, ![r].load = call[i].load]
    BY <1>0 DEF Fetched
<1>3. GoesWith(i, "recheck")
    BY <1>0, GoFacts DEF Fetched, PagesInv, Steps
<1>4. UNCHANGED <<binding, visible, tab, snapshot, token, going, count, moves, pages>>
    BY <1>0 DEF Fetched
<1>5. ~call[i].left /\ run[r].id = 0 /\ call[i].id # 0 /\ call[i].load # 0
      /\ SamePage(run[r].tab, call[i].id, call[i].load)
    BY <1>0, <1>1 DEF Reading, Cached, TabOf
<1>6. r = call[i].run
    BY <1>0
<1>7. /\ run' \in [Runs -> RunRow]
      /\ run'[r].id = call[i].id /\ run'[r].load = call[i].load
      /\ run'[r].state = run[r].state /\ run'[r].tab = run[r].tab
      /\ \A q \in Runs : q # r => run'[q] = run[q]
    BY <1>0, <1>1, <1>2, RunFacts
<1>8. TypeOK'
    BY <1>0, <1>3, <1>4, <1>7 DEF PagesInv, TypeOK, RunRow, GoesWith, GoesTo, Alone
<1>9. call'[i].step = "recheck" /\ call'[i].run = r /\ call'[i].left = call[i].left
      /\ call'[i].load = call[i].load /\ call'[i].mark = call[i].mark /\ call'[i].id = call[i].id
      /\ GoesTo(i, "recheck") /\ Alone(i)
    BY <1>0, <1>3, <1>6 DEF GoesWith, GoesTo
<1>10. Reading(i)'
    BY <1>0, <1>5, <1>7, <1>9 DEF Reading, At, Cached
<1>11. Given(r)'
    <2>1. pages[r] = {}
        BY <1>0, <1>1, <1>5 DEF Given
    <2>2. token'[run'[r].tab].id = run'[r].id => run'[r].load = tab'[run'[r].tab].load
        BY <1>0, <1>4, <1>5, <1>7 DEF SamePage
    <2> QED
        BY <1>0, <1>1, <1>4, <1>7, <2>1, <2>2 DEF Given, SamePage
<1>12. call'[i].mark <= count'.mark /\ call'[i].id <= count'.token /\ run'[r].id <= count.token
    BY <1>0, <1>1, <1>4, <1>7, <1>9
<1>13. \A q \in Runs : q # r => run'[q] = run[q] /\ pages'[q] = pages[q]
    BY <1>0, <1>4, <1>7
<1>14. /\ count'.mark = count.mark /\ count.token <= count'.token
       /\ \A q \in Runs : /\ run'[q].state = run[q].state /\ run'[q].tab = run[q].tab
                          /\ run'[q].id <= count'.token
       /\ \A s \in Tabs : /\ token'[s].id <= count'.token
                          /\ token'[s] = token[s] \/ token'[s].id > count.token
    BY <1>0, <1>1, <1>4, <1>7, <1>12, OthersKnown
<1> QED
    BY <1>0, <1>1, <1>4, <1>6, <1>8, <1>9, <1>10, <1>11, <1>12, <1>13, <1>14, PdfInv

LEMMA RecheckedInv ==
    ASSUME PagesInv, NEW i \in Calls, Rechecked(i)
    PROVE  PagesInv'
<1>0. PICK r \in Runs : r = call[i].run
    BY Facts
<1> DEFINE L == run[r].load
<1>1. InPdf(i) /\ r \in Runs /\ Reading(i) /\ At(i, "pdf", "recheck") /\ Given(r)
      /\ run[r].state = "running" /\ L \in Nat /\ run[r].id <= count.token
    <2>1. At(i, "pdf", "recheck") /\ InPdf(i) /\ Active(i)
        BY <1>0 DEF Rechecked, At, InPdf, Active
    <2>2. r \in Runs
        BY <1>0, Facts
    <2>3. Reading(i) /\ Given(r)
        BY <1>0, <2>2 DEF PagesInv
    <2> QED
        BY <1>0, <2>1, <2>2, <2>3, Facts
<1>2. run[r].id # 0 /\ L # 0 /\ call[i].load = L
    BY <1>0, <1>1 DEF Reading, Cached
<1>3. tab[run[r].tab].load = L
    <2>1. token[run[r].tab].id = run[r].id
        BY <1>0 DEF Rechecked, IsValid, Cached, TabOf
    <2>2. SamePage(run[r].tab, run[r].id, L)
        BY <1>0, <1>1, <1>2 DEF Given
    <2> QED
        BY <1>0, <2>1, <2>2 DEF SamePage
<1>4. pages' = [pages EXCEPT ![r] = pages[r] \cup {L}] /\ Ends(i) /\ UNCHANGED run
    <2>1. pages' = [pages EXCEPT ![r] = pages[r] \cup {call[i].load, tab[TabOf(i)].load}]
        BY <1>0 DEF Rechecked, PdfGiven
    <2>2. {call[i].load, tab[TabOf(i)].load} = {L}
        BY <1>0, <1>2, <1>3 DEF TabOf
    <2> QED
        BY <1>0, <2>1, <2>2 DEF Rechecked, PdfGiven
<1>5. UNCHANGED <<binding, visible, tab, snapshot, token, going, count, moves>>
    BY <1>0 DEF Rechecked
<1>6. IsOver(i)
    BY <1>0, <1>4, EndFacts DEF PagesInv
<1>7. r = call[i].run
    BY <1>0
<1>8. pages \in [Runs -> SUBSET Nat] /\ pages' \in [Runs -> SUBSET Nat]
      /\ pages'[r] = pages[r] \cup {L} /\ \A q \in Runs : q # r => pages'[q] = pages[q]
    <2>1. pages \in [Runs -> SUBSET Nat]
        BY <1>0 DEF PagesInv, TypeOK
    <2> HIDE DEF L
    <2> QED
        BY <1>0, <1>1, <1>4, <2>1
<1>9. TypeOK'
    BY <1>0, <1>4, <1>5, <1>6, <1>8 DEF PagesInv, TypeOK, IsOver, Alone
<1>10. pages[r] = {} \/ pages[r] = {L}
    BY <1>0, <1>1, <1>2 DEF Given
<1>11. pages'[r] = {L}
    BY <1>0, <1>8, <1>10
<1>12. Given(r)'
    <2>1. Given(r)
        BY <1>0, <1>1
    <2> QED
        BY <1>0, <1>2, <1>4, <1>5, <1>11, <2>1 DEF Given, SamePage
<1>13. Reading(i)'
    BY <1>0, <1>6 DEF IsOver, Reading, InPdf, At
<1>14. call'[i].mark <= count'.mark /\ call'[i].id <= count'.token /\ Alone(i)
    BY <1>0, <1>5, <1>6, Facts DEF IsOver
<1>15. /\ count'.mark = count.mark /\ count.token <= count'.token
       /\ \A q \in Runs : /\ run'[q].state = run[q].state /\ run'[q].tab = run[q].tab
                          /\ run'[q].id <= count'.token
       /\ \A s \in Tabs : /\ token'[s].id <= count'.token
                          /\ token'[s] = token[s] \/ token'[s].id > count.token
    BY <1>0, <1>1, <1>4, <1>5, OthersKnown
<1> QED
    BY <1>0, <1>1, <1>4, <1>5, <1>6, <1>7, <1>8, <1>9, <1>12, <1>13, <1>14, <1>15, PdfInv

LEMMA ReadPdfInv ==
    ASSUME PagesInv, NEW i \in Calls, ReadPdf(i)
    PROVE  PagesInv'
<1>0. PICK r \in Runs : r = call[i].run
    BY Facts
<1> DEFINE t == run[r].tab
           n == IF token[t].id = 0 \/ token[t].url # tab[t].url THEN count.token + 1
                                                               ELSE token[t].id
<1>1. At(i, "pdf", "asked") /\ InPdf(i) /\ Active(i)
    BY DEF ReadPdf, At, InPdf, Active
<1>2. TabOf(i) = t /\ t \in Tabs /\ Cached(i) = run[r] /\ ~call[i].left
      /\ Given(r) /\ run[r].id <= count.token
      /\ call[i].mark <= count.mark /\ call[i].id <= count.token
    <2>1. Reading(i) /\ Given(r)
        BY DEF PagesInv
    <2> QED
        BY <1>0, <1>1, <2>1, Facts DEF TabOf, Cached, Reading
<1>3. UNCHANGED <<run, binding, visible, tab, snapshot, going, moves, pages>>
    BY DEF ReadPdf
<1>4. CASE run[r].id # 0
    <2>1. run[r].load # 0 /\ Goes(i, "check") /\ UNCHANGED <<token, count>>
        BY <1>2, <1>4 DEF ReadPdf
    <2>2. GoesWith(i, "check")
        BY <2>1, GoFacts DEF PagesInv, Steps
    <2>3. TypeOK'
        BY <1>3, <2>1, <2>2 DEF PagesInv, TypeOK, GoesWith, GoesTo, Alone
    <2>4. call'[i].step = "check" /\ call'[i].run = r /\ call'[i].left = call[i].left
          /\ call'[i].mark = call[i].mark /\ call'[i].id = call[i].id
          /\ GoesTo(i, "check") /\ Alone(i)
        BY <1>0, <2>2 DEF GoesWith, GoesTo
    <2>5. Reading(i)'
        BY <1>2, <1>3, <1>4, <2>1, <2>4 DEF Reading, At, Cached
    <2>6. Given(r)'
        BY <1>2, <1>3, <2>1 DEF Given, SamePage
    <2>7. call'[i].mark <= count'.mark /\ call'[i].id <= count'.token /\ run'[r].id <= count.token
        BY <1>2, <1>3, <2>1, <2>4
    <2>8. /\ count'.mark = count.mark /\ count.token <= count'.token
          /\ \A q \in Runs : /\ run'[q].state = run[q].state /\ run'[q].tab = run[q].tab
                             /\ run'[q].id <= count'.token
          /\ \A s \in Tabs : /\ token'[s].id <= count'.token
                             /\ token'[s] = token[s] \/ token'[s].id > count.token
        BY <1>3, <2>1, <2>7, OthersKnown
    <2>9. \A q \in Runs : q # r => run'[q] = run[q] /\ pages'[q] = pages[q]
        BY <1>3
    <2> QED
        BY <1>0, <1>1, <1>3, <2>1, <2>3, <2>4, <2>5, <2>6, <2>7, <2>8, <2>9, PdfInv
<1>5. CASE run[r].id = 0
    <2> DEFINE k == [id |-> n, url |-> tab[t].url]
               c == [call[i] EXCEPT !.step = "fetching", !.id = n, !.load = tab[t].load]
               m == IF n > count.token THEN n ELSE count.token
    <2>1. tab[t].url # Blank /\ token' = [token EXCEPT ![t] = k]
          /\ call' = [call EXCEPT ![i] = c] /\ count' = [count EXCEPT !.token = m]
        BY <1>2, <1>5 DEF ReadPdf
    <2>2. /\ n \in Nat /\ n # 0 /\ n <= m /\ count.token <= m /\ m \in Nat
          /\ n > count.token \/ (n = token[t].id /\ token[t].url = tab[t].url)
        <3>1. count.token \in Nat /\ token[t].id \in Nat /\ token[t].id <= count.token
            BY <1>2, Facts
        <3>2. /\ n \in Nat /\ n # 0
              /\ n > count.token \/ (n = token[t].id /\ token[t].url = tab[t].url)
            BY <3>1
        <3> HIDE DEF n
        <3> QED
            BY <3>1, <3>2
    <2>3. tab[t].load # 0 /\ tab[t].load \in Nat /\ tab[t].url \in Addresses
        BY <1>2, <2>1, Facts
    <2>4. call \in [Calls -> Call] /\ call[i] \in Call
          /\ count \in [load : Nat, mark : Nat, token : Nat, call : 0 .. MaxCalls]
          /\ token \in [Tabs -> [id : Nat, url : Addresses]]
        BY DEF PagesInv, TypeOK
    <2> HIDE DEF n, m
    <2>5. k \in [id : Nat, url : Addresses] /\ k.id = n
          /\ (n = token[t].id /\ token[t].url = tab[t].url => k = token[t])
        BY <1>2, <2>2, <2>3, <2>4
    <2>6. c \in Call /\ c.step = "fetching" /\ c.run = r /\ c.kind = call[i].kind
          /\ c.url = call[i].url /\ c.left = call[i].left /\ c.typed = call[i].typed
          /\ c.moved = call[i].moved /\ c.mark = call[i].mark /\ c.id = n
          /\ c.load = tab[t].load
        BY <1>0, <2>2, <2>3, <2>4 DEF Call, Steps
    <2>7. count' \in [load : Nat, mark : Nat, token : Nat, call : 0 .. MaxCalls]
          /\ count'.token = m /\ count'.mark = count.mark
        BY <2>1, <2>2, <2>4
    <2> HIDE DEF k, c, t
    <2>8. token' \in [Tabs -> [id : Nat, url : Addresses]]
          /\ token'[t] = k /\ \A s \in Tabs : s # t => token'[s] = token[s]
        BY <1>2, <2>1, <2>4, <2>5
    <2>9. Alone(i) /\ call'[i] = c
        BY <2>1, <2>4, <2>6 DEF Alone
    <2>10. GoesTo(i, "fetching") /\ call'[i].step = "fetching"
        BY <1>0, <2>6, <2>9 DEF GoesTo
    <2>11. TypeOK'
        BY <1>3, <2>7, <2>8, <2>9 DEF PagesInv, TypeOK, Alone
    <2>12. TabOf(i)' = t /\ Cached(i)' = run[r]
        BY <1>3, <2>6, <2>9 DEF TabOf, Cached, t
    <2>13. Reading(i)'
        BY <1>2, <1>3, <1>5, <2>2, <2>3, <2>6, <2>9, <2>12 DEF Reading, At, SamePage
    <2>14. Given(r)'
        BY <1>2, <1>3, <1>5 DEF Given
    <2>15. \A s \in Tabs : /\ token'[s].id <= count'.token
                           /\ token'[s] = token[s] \/ token'[s].id > count.token
        <3>1. ASSUME NEW s \in Tabs, s # t PROVE token'[s] = token[s] /\ token[s].id <= m
            <4>1. token[s].id <= count.token /\ token[s].id \in Nat /\ count.token \in Nat
                BY Facts
            <4> QED
                BY <2>2, <2>8, <3>1, <4>1
        <3> QED
            BY <2>2, <2>5, <2>7, <2>8, <3>1
    <2>16. \A q \in Runs : /\ q # r => run'[q] = run[q] /\ pages'[q] = pages[q]
                           /\ run'[q].state = run[q].state /\ run'[q].tab = run[q].tab
                           /\ run'[q].id <= count'.token
        <3>1. ASSUME NEW q \in Runs PROVE run[q].id <= m
            <4>1. run[q].id <= count.token /\ run[q].id \in Nat /\ count.token \in Nat
                BY Facts
            <4> QED
                BY <2>2, <4>1
        <3> QED
            BY <1>3, <2>7, <3>1
    <2>17. call'[i].mark <= count'.mark /\ call'[i].id <= count'.token
        BY <1>2, <2>2, <2>6, <2>7, <2>9
    <2> QED
        BY <1>0, <1>1, <1>3, <2>2, <2>7, <2>9, <2>10, <2>11, <2>13, <2>14, <2>15, <2>16, <2>17,
           PdfInv
<1> QED
    BY <1>4, <1>5

-------------------------------------------------------------------------------
(* Every step *)

LEMMA InitInv == Init => PagesInv
<1> SUFFICES ASSUME Init PROVE PagesInv
    OBVIOUS
<1>1. PICK u \in Urls :
        /\ tab = [t \in Tabs |-> IF t = 1
                    THEN [state |-> "open", url |-> u, load |-> 1, mark |-> 0, moved |-> FALSE]
                    ELSE [state |-> "new", url |-> Blank, load |-> 0, mark |-> 0, moved |-> FALSE]]
    BY DEF Init
<1>2. /\ run = [r \in Runs |-> [state |-> "new", tab |-> 0, id |-> 0, load |-> 0]]
      /\ binding = [r \in Runs |-> 0]
      /\ visible = 1
      /\ snapshot = [t \in Tabs |-> NoSnapshot]
      /\ token = [t \in Tabs |-> NoToken]
      /\ going = [t \in Tabs |-> NoTrip]
      /\ call = [i \in Calls |-> Unused]
      /\ count = [load |-> 1, mark |-> 0, token |-> 0, call |-> 0]
      /\ moves = 0
      /\ pages = [r \in Runs |-> {}]
    BY DEF Init
<1>3. ASSUME NEW t \in Tabs
      PROVE  /\ tab[t] \in TabRow /\ tab[t].mark = 0 /\ (tab[t].url # Blank => tab[t].load # 0)
             /\ t = 1 => tab[t].state = "open"
    BY <1>1 DEF TabRow, Addresses
<1>4. tab \in [Tabs -> TabRow]
    BY <1>1, <1>3
<1>5. Unused \in Call /\ Unused.step = "unused" /\ Unused.kind = "read" /\ Unused.mark = 0
      /\ Unused.id = 0
    BY UnusedFacts
<1>6. NoSnapshot \in [mark : Nat, late : BOOLEAN] /\ NoSnapshot.mark = 0
      /\ NoToken \in [id : Nat, url : Addresses] /\ NoToken.id = 0
    BY DEF NoSnapshot, NoToken, Addresses
<1>7. 1 \in Tabs /\ 0 \in 0 .. MaxCalls /\ 0 \in 0 .. MaxMoves
    BY BrowserAssumption
<1>8. TypeOK
    <2>1. run \in [Runs -> RunRow] /\ binding \in [Runs -> Tabs \cup {0}]
        BY <1>2 DEF RunRow
    <2>2. snapshot \in [Tabs -> [mark : Nat, late : BOOLEAN]]
          /\ token \in [Tabs -> [id : Nat, url : Addresses]]
          /\ going \in [Tabs -> [by : {-1, 0} \cup Calls, url : Addresses]]
        BY <1>2, <1>6, NoTripFacts
    <2>3. call \in [Calls -> Call]
        BY <1>2, <1>5
    <2>4. count \in [load : Nat, mark : Nat, token : Nat, call : 0 .. MaxCalls]
          /\ moves \in 0 .. MaxMoves /\ pages \in [Runs -> SUBSET Nat]
        BY <1>2, <1>7
    <2>5. visible \in Tabs \cup {0} /\ (visible # 0 => tab[visible].state = "open")
        BY <1>2, <1>3, <1>7
    <2> QED
        BY <1>4, <2>1, <2>2, <2>3, <2>4, <2>5 DEF TypeOK, TabRow, RunRow
<1>9. \A i \in Calls : call[i] = Unused
    BY <1>2
<1>10. AllKnown
    BY <1>2, <1>3, <1>5, <1>6, <1>9 DEF AllKnown, Bound, CallKnown, TabKnown, Active
<1>11. ASSUME NEW i \in Calls PROVE PagePart(i) /\ Reading(i) /\ ~InPdf(i)
    BY <1>5, <1>9 DEF PagePart, LabelsStand, Labelling, At, NotLater, StillThere,
                      Reading, InPdf
<1>12. OneReader /\ RefsAreCurrent /\ \A t \in Tabs : NoneIsLater(t) /\ RefsStand(t)
    BY <1>2, <1>3, <1>6, <1>11 DEF OneReader, RefsAreCurrent, NoneIsLater, RefsStand
<1>13. \A r \in Runs : Given(r)
    BY <1>2 DEF Given
<1> QED
    BY <1>8, <1>10, <1>11, <1>12, <1>13 DEF PagesInv

LEMMA StutterInv == PagesInv /\ UNCHANGED vars => PagesInv'
<1> SUFFICES ASSUME PagesInv, UNCHANGED vars PROVE PagesInv'
    OBVIOUS
<1>1. TypeOK' /\ AllKnown'
    BY DEF PagesInv, vars, TypeOK, AllKnown, Bound, CallKnown, TabKnown, Active
<1>2. PagesGood'
    BY DEF PagesInv, vars, PagesGood, NoneIsLater, RefsStand, RefsAreCurrent, PagePart, LabelsStand,
           Labelling, At, NotLater, StillThere, TabOf, OnPage, IsShown, IsOpen
<1>3. PdfGood'
    BY DEF PagesInv, vars, PdfGood, OneReader, InPdf, Active, Reading, At, Cached, TabOf,
           SamePage, Given
<1> QED
    BY <1>1, <1>2, <1>3 DEF PagesInv, PagesGood, PdfGood

LEMMA NextInv == PagesInv /\ [Next]_vars => PagesInv'
<1> SUFFICES ASSUME PagesInv, [Next]_vars PROVE PagesInv'
    OBVIOUS
<1>1. ASSUME NEW i \in Calls, Arrives(i) PROVE PagesInv'
    <2>1. ASSUME InputStarts(i) PROVE PagesInv'
        BY <2>1, LookAgainInv DEF InputStarts
    <2> QED
        BY <1>1, <2>1, ReadsInv, LabelInv, LookInv, NavigateInv, ReadPdfInv, PdfRefusedInv
        DEF Arrives
<1>2. ASSUME NEW i \in Calls, GoesOn(i) PROVE PagesInv'
    <2>1. ASSUME EditorFound(i) \/ EditorNoted(i) PROVE PagesInv'
        BY <2>1, LookAgainInv DEF EditorFound, EditorNoted
    <2> QED
        BY <1>2, <2>1, KeepInv, PrepareInv, ConfirmInv, PressInv, ActInPageInv, SettleInv,
           OpenedInv, FocusedInv, DispatchInv, TypedInv, DispatchedInv, UndispatchedInv,
           ObservedInv, PdfErrorInv, UnreadableInv, FetchedInv, CheckedInv, RecheckedInv,
           GiveUpInv
        DEF GoesOn
<1> QED
    BY <1>1, <1>2, StartRunInv, SubmitInv, AsksInv, ShowInv, NewPageInv, FrameLeavesInv,
       CloseTabInv, LeaveInv, InPageInv, HideInv, StutterInv
    DEF Next

\* The invariant that the theorems below rest on.
THEOREM InvHolds == Spec => []PagesInv
BY InitInv, NextInv, PTL DEF Spec

(***************************************************************************)
(* The refs of a snapshot stand for labels of the page that is there, into *)
(* which nothing has been typed since, except while it is labelled again,  *)
(* and while Main waits for a text that is in the page already, or after   *)
(* either has gone wrong; and the PDF text that a run is given is of one   *)
(* page.  However pages move, and calls are given up (browser_view.ts,     *)
(* browser_read_current_pdf.py).                                           *)
(***************************************************************************)
THEOREM KeptIsCurrent == Spec => []PagesAreCurrent
<1>1. ASSUME PagesInv, NEW r \in Runs PROVE Cardinality(pages[r]) <= 1
    <2>1. Given(r)
        BY <1>1 DEF PagesInv
    <2>2. pages[r] = {} \/ \E n \in pages[r] : pages[r] = {n}
        BY <2>1 DEF Given
    <2>3. CASE pages[r] = {}
        <3>1. Cardinality(pages[r]) = 0
            BY <2>3, FS_EmptySet
        <3> QED
            BY <3>1
    <2>4. CASE \E n \in pages[r] : pages[r] = {n}
        <3>1. PICK n \in pages[r] : pages[r] = {n}
            BY <2>4
        <3>2. Cardinality({n}) = 1
            BY FS_Singleton
        <3> QED
            BY <3>1, <3>2
    <2> QED
        BY <2>2, <2>3, <2>4
<1>2. PagesInv => PagesAreCurrent
    BY <1>1 DEF PagesInv, PagesAreCurrent, OneDocument
<1> QED
    BY <1>2, InvHolds, PTL

-------------------------------------------------------------------------------
(* Where a call acts *)

Landed(i) ==
    call[i].step \in {"prepared", "confirmed"} /\ call'[i].step = "acted" =>
        tab[TabOf(i)].mark >= call[i].mark \/ call[i].moved
TypedThere(i) == ~call[i].typed /\ call'[i].typed => OnPage(i) \/ call[i].moved

Rightly(i) == Landed(i) /\ TypedThere(i)

\* A call that stays where it is does neither.
LEMMA StaysRightly ==
    ASSUME NEW j \in Calls, call'[j].step = call[j].step, call'[j].typed = call[j].typed
    PROVE  Rightly(j)
BY DEF Rightly, Landed, TypedThere

\* Nor does one that goes on to a step between.
LEMMA GoesRightly ==
    ASSUME NEW i \in Calls, call'[i].step # "acted", call'[i].typed => call[i].typed
    PROVE  Rightly(i)
BY DEF Rightly, Landed, TypedThere

LEMMA SetFacts ==
    ASSUME PagesInv, NEW i \in Calls, NEW c, call' = [call EXCEPT ![i] = c]
    PROVE  call'[i] = c /\ \A j \in Calls : j # i => call'[j] = call[j]
BY DEF PagesInv, TypeOK

LEMMA AloneRightly ==
    ASSUME PagesInv, NEW i \in Calls, Rightly(i),
           \A j \in Calls : j # i => call'[j] = call[j]
    PROVE  \A j \in Calls : Rightly(j)
BY StaysRightly

LEMMA EndsRightly ==
    ASSUME PagesInv, NEW i \in Calls, Ends(i)
    PROVE  \A j \in Calls : Rightly(j)
<1>1. IsOver(i)
    BY EndFacts DEF PagesInv
<1>2. Rightly(i)
    BY <1>1, GoesRightly DEF IsOver
<1> QED
    BY <1>1, <1>2, AloneRightly DEF IsOver, Alone

LEMMA StepRightly ==
    ASSUME PagesInv, NEW i \in Calls, NEW s \in Steps, Goes(i, s), s # "acted"
    PROVE  \A j \in Calls : Rightly(j)
<1>1. GoesWith(i, s)
    BY GoFacts DEF PagesInv
<1>2. Rightly(i)
    BY <1>1, GoesRightly DEF GoesWith, GoesTo
<1> QED
    BY <1>1, <1>2, AloneRightly DEF GoesWith, GoesTo, Alone

\* A click or an edit acts on a page that has a label, or has moved.
LEMMA ActsRightly ==
    ASSUME PagesInv, NEW i \in Calls, Goes(i, "acted"),
           call[i].kind \in Acting, call[i].step \in {"prepared", "confirmed"},
           tab[TabOf(i)].mark # 0 \/ call[i].moved
    PROVE  \A j \in Calls : Rightly(j)
<1>1. GoesWith(i, "acted")
    BY GoFacts DEF PagesInv, Steps
<1>2. NotLater(i)
    BY DEF PagesInv, PagePart
<1>3. TabOf(i) \in Tabs
    BY Facts DEF Active
<1>4. tab[TabOf(i)].mark \in Nat /\ call[i].mark \in Nat
    BY <1>3, Facts
<1>5. Landed(i)
    BY <1>2, <1>4 DEF NotLater, Landed
<1>6. call'[i].typed = call[i].typed
    BY <1>1 DEF GoesWith, GoesTo
<1>7. Rightly(i)
    BY <1>5, <1>6 DEF Rightly, TypedThere
<1> QED
    BY <1>1, <1>7, AloneRightly DEF GoesWith, GoesTo, Alone

LEMMA ArrivesRightly ==
    ASSUME PagesInv, NEW i \in Calls, Arrives(i)
    PROVE  \A j \in Calls : Rightly(j)
<1>1. CASE Reads(i)
    BY <1>1, EndsRightly DEF Reads
<1>2. CASE Label(i)
    <2> DEFINE c == [call[i] EXCEPT !.step = "labelled", !.mark = count.mark + 1]
    <2>1. CASE call' = [call EXCEPT ![i] = c]
        <3>1. c.step = "labelled" /\ c.typed = call[i].typed
            BY DEF PagesInv, TypeOK, Call
        <3> HIDE DEF c
        <3>2. call'[i] = c /\ \A j \in Calls : j # i => call'[j] = call[j]
            BY <2>1, SetFacts
        <3> QED
            BY <3>1, <3>2, GoesRightly, AloneRightly
    <2>2. CASE Ends(i)
        BY <1>2, <2>2, EndsRightly DEF Label
    <2> QED
        BY <1>2, <2>1, <2>2 DEF Label
<1>3. CASE Look(i)
    <2> DEFINE c == [call[i] EXCEPT !.step = "found", !.mark = snapshot[TabOf(i)].mark]
    <2>1. CASE call' = [call EXCEPT ![i] = c]
        <3>1. c.step = "found" /\ c.typed = call[i].typed
            BY DEF PagesInv, TypeOK, Call
        <3> HIDE DEF c
        <3>2. call'[i] = c /\ \A j \in Calls : j # i => call'[j] = call[j]
            BY <2>1, SetFacts
        <3> QED
            BY <3>1, <3>2, GoesRightly, AloneRightly
    <2>2. CASE Ends(i)
        BY <1>3, <2>2, EndsRightly DEF Look
    <2> QED
        BY <1>3, <2>1, <2>2 DEF Look
<1>4. CASE Navigate(i)
    <2>1. CASE Goes(i, "loading")
        BY <2>1, StepRightly DEF Steps
    <2>2. CASE Ends(i)
        BY <1>4, <2>2, EndsRightly DEF Navigate
    <2> QED
        BY <1>4, <2>1, <2>2 DEF Navigate
<1>5. CASE InputStarts(i)
    <2>1. CASE Goes(i, "focusing")
        BY <2>1, StepRightly DEF Steps
    <2>2. CASE Ends(i)
        BY <1>5, <2>2, EndsRightly DEF InputStarts, LookAgain
    <2> QED
        BY <1>5, <2>1, <2>2 DEF InputStarts, LookAgain
<1>6. CASE ReadPdf(i)
    <2> DEFINE t == TabOf(i)
               n == IF token[t].id = 0 \/ token[t].url # tab[t].url THEN count.token + 1
                                                                   ELSE token[t].id
               c == [call[i] EXCEPT !.step = "fetching", !.id = n, !.load = tab[t].load]
    <2>1. CASE call' = [call EXCEPT ![i] = c]
        <3>1. c.step = "fetching" /\ c.typed = call[i].typed
            BY DEF PagesInv, TypeOK, Call
        <3> HIDE DEF c
        <3>2. call'[i] = c /\ \A j \in Calls : j # i => call'[j] = call[j]
            BY <2>1, SetFacts
        <3> QED
            BY <3>1, <3>2, GoesRightly, AloneRightly
    <2>2. CASE Goes(i, "check")
        BY <2>2, StepRightly DEF Steps
    <2> QED
        BY <1>6, <2>1, <2>2 DEF ReadPdf
<1>7. CASE PdfRefused(i)
    BY <1>7, EndsRightly DEF PdfRefused, PdfFails
<1> QED
    BY <1>1, <1>2, <1>3, <1>4, <1>5, <1>6, <1>7 DEF Arrives

\* A click goes to a point that was confirmed; a fill to a label that is found again.
LEMMA PressRightly ==
    ASSUME PagesInv, NEW i \in Calls, Press(i)
    PROVE  \A j \in Calls : Rightly(j)
<1>1. StillThere(i)
    BY DEF PagesInv, PagePart
<1>2. CASE Goes(i, "acted")
    BY <1>1, <1>2, ActsRightly DEF Press, At, Acting, StillThere
<1>3. CASE Ends(i)
    BY <1>3, EndsRightly DEF Press
<1> QED
    BY <1>2, <1>3 DEF Press

LEMMA ActInPageRightly ==
    ASSUME PagesInv, NEW i \in Calls, ActInPage(i)
    PROVE  \A j \in Calls : Rightly(j)
<1>1. CASE Selects(TabOf(i)) /\ Goes(i, "acted")
    BY <1>1, ActsRightly DEF ActInPage, Selects
<1>2. CASE Ends(i)
    BY <1>2, EndsRightly DEF ActInPage
<1> QED
    BY <1>1, <1>2 DEF ActInPage

\* The text is in the page that was looked at, or in one that has moved.
LEMMA TypedRightly ==
    ASSUME PagesInv, NEW i \in Calls, Typed(i)
    PROVE  \A j \in Calls : Rightly(j)
<1> DEFINE c     == [call[i] EXCEPT !.typed = TRUE]
           calls == [call EXCEPT ![i] = c]
           t     == TabOf(i)
<1>1. At(i, "input", "typing") /\ StillThere(i) /\ call' = Moved(calls, t, OfPage)
    BY DEF Typed, PagesInv, PagePart
<1>2. call \in [Calls -> Call] /\ call[i] \in Call
    BY DEF PagesInv, TypeOK
<1>3. c \in Call /\ c.step = "typing"
    BY <1>1, <1>2 DEF Call, At
<1> HIDE DEF c
<1>4. calls \in [Calls -> Call] /\ calls[i] = c
      /\ \A j \in Calls : j # i => calls[j] = call[j]
    BY <1>2, <1>3
<1> HIDE DEF calls, t
<1>5. \A j \in Calls : call'[j].step = calls[j].step /\ call'[j].typed = calls[j].typed
    BY <1>1, <1>4, MovedFacts
<1>6. Rightly(i)
    BY <1>1, <1>3, <1>4, <1>5 DEF Rightly, Landed, TypedThere, At, StillThere
<1>7. \A j \in Calls : j # i => Rightly(j)
    BY <1>4, <1>5, StaysRightly
<1> QED
    BY <1>6, <1>7

LEMMA GiveUpRightly ==
    ASSUME PagesInv, NEW i \in Calls, GiveUp(i)
    PROVE  \A j \in Calls : Rightly(j)
<1>1. CASE Ends(i)
    BY <1>1, EndsRightly
<1>2. CASE call' = [call EXCEPT ![i].left = TRUE]
    <2> DEFINE c == [call[i] EXCEPT !.left = TRUE]
    <2>1. c.step = call[i].step /\ c.typed = call[i].typed
        BY DEF PagesInv, TypeOK, Call
    <2>2. call' = [call EXCEPT ![i] = c]
        BY <1>2
    <2> HIDE DEF c
    <2>3. call'[i] = c /\ \A j \in Calls : j # i => call'[j] = call[j]
        BY <2>2, SetFacts
    <2>4. \A j \in Calls : call'[j].step = call[j].step /\ call'[j].typed = call[j].typed
        BY <2>1, <2>3
    <2> QED
        BY <2>4, StaysRightly
<1> QED
    BY <1>1, <1>2 DEF GiveUp

LEMMA GoesOnRightly ==
    ASSUME PagesInv, NEW i \in Calls, GoesOn(i)
    PROVE  \A j \in Calls : Rightly(j)
<1>1. CASE Keep(i)
    BY <1>1, EndsRightly DEF Keep
<1>2. CASE Prepare(i)
    <2>1. CASE Goes(i, "prepared")
        BY <2>1, StepRightly DEF Steps
    <2>2. CASE Ends(i)
        BY <1>2, <2>2, EndsRightly DEF Prepare
    <2> QED
        BY <1>2, <2>1, <2>2 DEF Prepare
<1>3. CASE Confirm(i)
    <2>1. CASE Goes(i, "confirmed")
        BY <2>1, StepRightly DEF Steps
    <2>2. CASE Ends(i)
        BY <1>3, <2>2, EndsRightly DEF Confirm
    <2> QED
        BY <1>3, <2>1, <2>2 DEF Confirm
<1>4. CASE Settle(i)
    BY <1>4, EndsRightly DEF Settle
<1>5. CASE EditorFound(i) \/ EditorNoted(i)
    <2>1. PICK s \in {"observing", "probing"} : Goes(i, s) \/ Ends(i)
        BY <1>5 DEF EditorFound, EditorNoted, LookAgain
    <2>2. CASE Goes(i, s)
        BY <2>2, StepRightly DEF Steps
    <2> QED
        BY <2>1, <2>2, EndsRightly
<1>6. CASE Focused(i)
    <2>1. CASE Goes(i, "ready")
        BY <2>1, StepRightly DEF Steps
    <2>2. CASE Ends(i)
        BY <1>6, <2>2, EndsRightly DEF Focused
    <2> QED
        BY <1>6, <2>1, <2>2 DEF Focused
<1>7. CASE PdfError(i)
    BY <1>7, EndsRightly DEF PdfError, PdfFails
<1>8. CASE Unreadable(i)
    BY <1>8, EndsRightly DEF Unreadable
<1>9. CASE Fetched(i)
    BY <1>9, StepRightly DEF Fetched, Steps
<1>10. CASE Checked(i)
    <2> DEFINE c == [call[i] EXCEPT !.step = "recheck", !.load = Cached(i).load]
    <2>1. c.step = "recheck" /\ c.typed = call[i].typed
        BY DEF PagesInv, TypeOK, Call
    <2>2. call' = [call EXCEPT ![i] = c]
        BY <1>10 DEF Checked
    <2> HIDE DEF c
    <2>3. call'[i] = c /\ \A j \in Calls : j # i => call'[j] = call[j]
        BY <2>2, SetFacts
    <2> QED
        BY <2>1, <2>3, GoesRightly, AloneRightly
<1>11. CASE Rechecked(i)
    BY <1>11, EndsRightly DEF Rechecked, PdfGiven
<1>12. CASE Opened(i) \/ Undispatched(i) \/ Observed(i)
    BY <1>12, EndsRightly DEF Opened, Undispatched, Observed
<1>13. CASE Dispatch(i)
    <2>1. CASE Goes(i, "typing")
        BY <2>1, StepRightly DEF Steps
    <2>2. CASE Ends(i)
        BY <2>2, EndsRightly
    <2> QED
        BY <1>13, <2>1, <2>2 DEF Dispatch
<1>14. CASE Dispatched(i)
    BY <1>14, StepRightly DEF Dispatched, Steps
<1> QED
    BY <1>1, <1>2, <1>3, <1>4, <1>5, <1>6, <1>7, <1>8, <1>9, <1>10, <1>11, <1>12, <1>13,
       <1>14, PressRightly, ActInPageRightly, TypedRightly, GiveUpRightly
    DEF GoesOn

LEMMA PostRightly ==
    ASSUME PagesInv, NEW r \in Runs, NEW i \in Calls, NEW kind, NEW u, Post(r, i, kind, u)
    PROVE  \A j \in Calls : Rightly(j)
<1> DEFINE c == [Unused EXCEPT !.run = r, !.kind = kind, !.step = "asked", !.url = u]
<1>1. c.step = "asked" /\ ~c.typed
    BY DEF Unused
<1>2. call' = [call EXCEPT ![i] = c]
    BY DEF Post
<1> HIDE DEF c
<1>3. call'[i] = c /\ \A j \in Calls : j # i => call'[j] = call[j]
    BY <1>2, SetFacts
<1> QED
    BY <1>1, <1>3, GoesRightly, AloneRightly

LEMMA AsksRightly ==
    ASSUME PagesInv, NEW r \in Runs, NEW i \in Calls, Asks(r, i)
    PROVE  \A j \in Calls : Rightly(j)
<1>1. PICK kind, u : Post(r, i, kind, u)
    BY DEF Asks, ReadTool, WaitTool, SnapshotTool, ClickTool, FillTool, SelectTool, PdfTool,
           NavigateTool, InputTool
<1> QED
    BY <1>1, PostRightly

\* The user and the pages move no call on.
LEMMA MovedRightly ==
    ASSUME PagesInv, NEW calls \in [Calls -> Call], NEW t, NEW S, call' = Moved(calls, t, S),
           \A j \in Calls : calls[j].step = call[j].step /\ calls[j].typed = call[j].typed
    PROVE  \A j \in Calls : Rightly(j)
BY MovedFacts, StaysRightly

LEMMA TabRightly ==
    ASSUME PagesInv, NEW t \in Tabs, Show(t) \/ NewPage(t) \/ FrameLeaves(t) \/ CloseTab(t)
    PROVE  \A j \in Calls : Rightly(j)
<1>1. call \in [Calls -> Call]
    BY DEF PagesInv, TypeOK
<1>2. PICK s, S : call' = Moved(call, s, S)
    BY DEF Show, NewPage, FrameLeaves, CloseTab
<1> QED
    BY <1>1, <1>2, MovedRightly

LEMMA NextRightly == PagesInv /\ [Next]_vars => \A j \in Calls : Rightly(j)
<1> SUFFICES ASSUME PagesInv, [Next]_vars PROVE \A j \in Calls : Rightly(j)
    OBVIOUS
<1>1. call \in [Calls -> Call]
    BY DEF PagesInv, TypeOK
<1>2. CASE UNCHANGED call
    BY <1>2, StaysRightly
<1>3. CASE \/ \E r \in Runs : StartRun(r)
           \/ \E r \in Runs, t \in Tabs : Submit(r, t)
           \/ \E t \in Tabs, u \in Urls : Leave(t, u)
           \/ UNCHANGED vars
    BY <1>2, <1>3 DEF StartRun, Submit, Leave, vars
<1>4. CASE \E t \in Tabs, u \in Urls : InPage(t, u)
    BY <1>1, <1>4, MovedRightly DEF InPage
<1>5. CASE Hide
    BY <1>1, <1>5, MovedRightly DEF Hide
<1> QED
    BY <1>3, <1>4, <1>5, ArrivesRightly, GoesOnRightly, AsksRightly, TabRightly DEF Next

(***************************************************************************)
(* A click, a fill or a choice lands on a page that is labelled as the ref *)
(* it was given was, or later, and text is sent to the page that the       *)
(* caller named; unless the page moved after the last look at it           *)
(* (clickCurrentPage, fillCurrentPage, inputCurrentPage).                  *)
(***************************************************************************)
THEOREM ActsInPlace == Spec => ActsWhereItLooked
<1>1. PagesInv /\ [Next]_vars =>
        [\A i \in Calls : call[i].step \in {"prepared", "confirmed"} /\ call'[i].step = "acted" =>
            tab[TabOf(i)].mark >= call[i].mark \/ call[i].moved]_vars
    BY NextRightly DEF Rightly, Landed
<1>2. PagesInv /\ [Next]_vars =>
        [\A i \in Calls : ~call[i].typed /\ call'[i].typed =>
            OnPage(i) \/ call[i].moved]_vars
    BY NextRightly DEF Rightly, TypedThere
<1> QED
    BY <1>1, <1>2, InvHolds, PTL DEF Spec, ActsWhereItLooked, ActsOnInspected, InputWhereAsked

===============================================================================
