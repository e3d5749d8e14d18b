------------------------- MODULE RunEventStreamProofs -------------------------
(***************************************************************************)
(* What the renderer shows is what was stored, for any number of events    *)
(* and any skipped numbers.                                                *)
(***************************************************************************)
EXTENDS RunEventStream, SequenceTheorems, TLAPS

\* The run's rows, and what may still be written.
StoreInv ==
    /\ \A i \in 1..Len(published) : published[i].sequence <= sequence
    /\ \A i, j \in 1..Len(published) : i < j => published[i].sequence < published[j].sequence
    /\ \A i \in 1..Len(published) :
          IsTerminal(published[i]) => i = Len(published) /\ writer # "running"
    /\ rows = IF status = "none" THEN <<>> ELSE published
    /\ Settled => writer = "done"
    /\ answered => status = "completed"
    /\ status = "completed" =>
          published # <<>> /\ published[Len(published)].type = "completed"

\* s is what was published after the k-th row.
Piece(s, k) == k + Len(s) <= Len(published) /\ \A i \in 1..Len(s) : s[i] = published[k + i]

Sent == Len(forwarded) + Len(wire)

\* What was forwarded, what is on the wire and what is listed follow each other.
StreamInv ==
    /\ Piece(forwarded, 0)
    /\ Piece(wire, Len(forwarded))
    /\ Piece(batch, Sent)
    /\ stream # "sending" => batch = <<>>
    /\ stream # "lost" => cursor = IF Sent = 0 THEN 0 ELSE published[Sent].sequence

\* The messages are asked for at the terminal event, which is the last one.
DesktopInv ==
    /\ watcher = "watching" => refresh = "none"
    /\ refresh # "none" =>
          forwarded # <<>> /\ IsTerminal(forwarded[Len(forwarded)])
    /\ shown => refresh # "none" /\ forwarded[Len(forwarded)].type = "completed"

ShowInv == TypeOK /\ StoreInv /\ StreamInv /\ DesktopInv

-------------------------------------------------------------------------------
(* The steps of a sequence that the actions are built from.               *)

LEMMA Appended ==
    ASSUME NEW S, NEW s \in Seq(S), NEW e \in S
    PROVE  /\ Append(s, e) \in Seq(S)
           /\ Len(Append(s, e)) = Len(s) + 1
           /\ \A i \in 1..Len(s) : Append(s, e)[i] = s[i]
           /\ Append(s, e)[Len(s) + 1] = e
    BY AppendProperties

LEMMA Split ==
    ASSUME NEW S, NEW s \in Seq(S), s # <<>>
    PROVE  /\ Head(s) \in S /\ Head(s) = s[1]
           /\ Tail(s) \in Seq(S) /\ Len(Tail(s)) = Len(s) - 1
           /\ Len(s) \in Nat \ {0}
           /\ \A i \in 1..(Len(s) - 1) : Tail(s)[i] = s[i + 1]
    <1>1. Len(s) \in Nat /\ Len(s) # 0
        BY EmptySeq
    <1>2. Head(s) \in S /\ Tail(s) \in Seq(S)
        BY HeadTailProperties
    <1>3. Len(Tail(s)) = Len(s) - 1 /\ \A i \in 1..Len(Tail(s)) : Tail(s)[i] = s[i + 1]
        BY HeadTailProperties
    <1>4. Head(s) = s[1]
        OBVIOUS
    <1> QED
        BY <1>1, <1>2, <1>3, <1>4

LEMMA EventOf ==
    ASSUME NEW s \in Seq(Event), NEW i \in 1..Len(s)
    PROVE  /\ s[i] \in Event /\ s[i].sequence \in 1..MaxEvents
           /\ s[i].type \in Terminal \union {"progress"}
    <1>1. s[i] \in Event
        BY ElementOfSeq
    <1> QED
        BY <1>1 DEF Event

\* What is sent or kept of a piece is a piece; what is stored after it does not matter.
LEMMA Extended ==
    ASSUME NEW e \in Event, published \in Seq(Event), published' = Append(published, e),
           NEW s, NEW k \in Nat, Len(s) \in Nat, Piece(s, k)
    PROVE  k + Len(s) <= Len(published') /\ \A i \in 1..Len(s) : s[i] = published'[k + i]
    <1>1. \A i \in 1..Len(published) : published'[i] = published[i]
        BY Appended
    <1>2. Len(published) \in Nat /\ Len(published') = Len(published) + 1
        BY Appended
    <1>3. \A i \in 1..Len(s) : k + i \in 1..Len(published)
        BY <1>2 DEF Piece
    <1> QED
        BY <1>1, <1>2, <1>3 DEF Piece

LEMMA PieceOfPrefix ==
    ASSUME published \in Seq(Event), NEW s \in Seq(Event), NEW k \in Nat, Piece(s, k),
           NEW n \in 0..Len(s)
    PROVE  Piece(SubSeq(s, 1, n), k) /\ SubSeq(s, 1, n) \in Seq(Event)
                /\ Len(SubSeq(s, 1, n)) = n
    <1>1. Len(s) \in Nat /\ Len(published) \in Nat
        OBVIOUS
    <1>2. \A i \in 1..n : i \in 1..Len(s)
        BY <1>1
    <1>3. SubSeq(s, 1, n) = [i \in 1..n |-> s[i]]
        BY <1>1, SubSeqProperties
    <1> DEFINE r == [i \in 1..n |-> s[i]]
    <1>4. r \in Seq(Event)
      <2>1. \A i \in 1..n : s[i] \in Event
          BY <1>2, ElementOfSeq
      <2> QED
          BY <2>1, <1>1, IsASeq
    <1>5. Len(r) = n
        BY <1>1
    <1> QED
        BY <1>1, <1>2, <1>3, <1>4, <1>5 DEF Piece


-------------------------------------------------------------------------------
(* The rows. *)

LEMMA InitInv == Init => ShowInv
  <1> SUFFICES ASSUME Init PROVE ShowInv
      OBVIOUS
  <1>1. TypeOK
    <2>1. answered \in BOOLEAN /\ active \in BOOLEAN /\ shown \in BOOLEAN
        BY Zenon DEF Init
    <2> QED
        BY <2>1, EventsAssumption DEF Init, TypeOK
  <1>2. StoreInv
      BY DEF Init, StoreInv, Settled, Terminal
  <1>3. StreamInv
      BY DEF Init, StreamInv, Piece, Sent
  <1>4. DesktopInv
      BY DEF Init, DesktopInv
  <1> QED
      BY <1>1, <1>2, <1>3, <1>4 DEF ShowInv

\* What Store writes.
LEMMA StoreFacts ==
    ASSUME ShowInv, NEW type \in Terminal \union {"progress"}, Store(type)
    PROVE  /\ status # "none" /\ rows = published
           /\ sequence \in Nat /\ sequence' = sequence + 1 /\ sequence' \in 0..MaxEvents
           /\ rows' \in Seq(Event) /\ published' \in Seq(Event) /\ rows' = published'
           /\ \E e \in Event :
                 /\ e = [sequence |-> sequence + 1, type |-> type]
                 /\ published' = Append(published, e)
  <1> DEFINE e == [sequence |-> sequence + 1, type |-> type]
  <1>1. /\ status # "none" /\ sequence < MaxEvents /\ sequence' = sequence + 1
        /\ rows' = Append(rows, e) /\ published' = Append(published, e)
      BY DEF Store
  <1>2. sequence \in 0..MaxEvents /\ published \in Seq(Event)
      BY DEF ShowInv, TypeOK
  <1>3. rows = published
      BY <1>1 DEF ShowInv, StoreInv
  <1>4. e \in Event
      BY <1>1, <1>2, EventsAssumption DEF Event
  <1>5. sequence \in Nat /\ sequence' \in 0..MaxEvents
      BY <1>1, <1>2, EventsAssumption
  <1> HIDE DEF e
  <1>6. published' \in Seq(Event) /\ rows' = published'
      BY <1>1, <1>2, <1>3, <1>4, Appended
  <1> QED
      BY <1>1, <1>3, <1>4, <1>5, <1>6 DEF e

\* A row that is stored while the loop runs keeps the rows in order.
LEMMA Stored ==
    ASSUME ShowInv, NEW type \in Terminal \union {"progress"}, Store(type),
           writer = "running", UNCHANGED <<status, answered>>,
           IF type \in Terminal THEN writer' = "finishing" ELSE UNCHANGED writer
    PROVE  StoreInv'
  <1>1. PICK e \in Event : /\ e = [sequence |-> sequence + 1, type |-> type]
                           /\ published' = Append(published, e)
      BY StoreFacts
  <1>2. /\ status # "none" /\ rows' = published' /\ sequence \in Nat
        /\ sequence' = sequence + 1
      BY StoreFacts
  <1>3. published \in Seq(Event) /\ StoreInv
      BY DEF ShowInv, TypeOK
  <1>4. /\ Len(published) \in Nat /\ Len(published') = Len(published) + 1
        /\ \A i \in 1..Len(published) : published'[i] = published[i]
        /\ published'[Len(published')] = e
      BY <1>1, <1>3, Appended
  <1>5. \A i \in 1..Len(published) : published[i].sequence \in Nat
      BY <1>3, EventOf, EventsAssumption
  <1>6. \A i \in 1..Len(published') : i \in 1..Len(published) \/ i = Len(published')
      BY <1>4
  <1>7. e.sequence = sequence + 1 /\ e.type = type
      BY <1>1
  <1>8. \A i \in 1..Len(published') : published'[i].sequence <= sequence'
      BY <1>2, <1>3, <1>4, <1>5, <1>6, <1>7 DEF StoreInv
  <1>9. \A i, j \in 1..Len(published') :
            i < j => published'[i].sequence < published'[j].sequence
    <2> SUFFICES ASSUME NEW i \in 1..Len(published'), NEW j \in 1..Len(published'), i < j
                 PROVE  published'[i].sequence < published'[j].sequence
        OBVIOUS
    <2>1. i \in 1..Len(published)
        BY <1>4
    <2>2. published[i].sequence <= sequence /\ published[i].sequence \in Nat
        BY <1>3, <1>5, <2>1 DEF StoreInv
    <2>3. CASE j \in 1..Len(published)
        BY <1>3, <1>4, <2>1, <2>3 DEF StoreInv
    <2>4. CASE j = Len(published')
        BY <1>2, <1>4, <1>7, <2>1, <2>2, <2>4
    <2> QED
        BY <1>6, <2>3, <2>4
  <1>10. \A i \in 1..Len(published') :
            IsTerminal(published'[i]) => i = Len(published') /\ writer' # "running"
    <2>1. \A i \in 1..Len(published) : ~IsTerminal(published'[i])
        BY <1>3, <1>4 DEF StoreInv
    <2>2. IsTerminal(published'[Len(published')]) => writer' # "running"
        BY <1>4, <1>7 DEF IsTerminal
    <2> QED
        BY <1>6, <2>1, <2>2
  <1>11. ~Settled /\ Settled' = Settled
      BY <1>3 DEF StoreInv, Settled
  <1>12. /\ (rows = IF status = "none" THEN <<>> ELSE published)'
         /\ (Settled => writer = "done")'
         /\ (answered => status = "completed")'
         /\ (status = "completed" =>
              published # <<>> /\ published[Len(published)].type = "completed")'
      BY <1>2, <1>3, <1>11 DEF StoreInv, Settled, Terminal
  <1> QED
      BY <1>8, <1>9, <1>10, <1>12 DEF StoreInv, IsTerminal

LEMMA StoreStep == ShowInv /\ [Next]_vars => StoreInv'
  <1> SUFFICES ASSUME ShowInv, [Next]_vars PROVE StoreInv'
      OBVIOUS
  <1> USE DEF ShowInv
  <1>1. CASE PublishProgress
      BY <1>1, Stored DEF PublishProgress, Terminal
  <1>2. CASE PublishTerminal
      BY <1>2, Stored DEF PublishTerminal
  <1>3. CASE SkipNumber
    <2>1. \A i \in 1..Len(published) : published[i].sequence \in Nat
        BY EventOf, EventsAssumption DEF TypeOK
    <2> QED
        BY <1>3, <2>1 DEF SkipNumber, StoreInv, IsTerminal, Settled, TypeOK
  <1>4. CASE FailWithoutEvent
      BY <1>4 DEF FailWithoutEvent, StoreInv, IsTerminal, Settled
  <1>5. CASE Finish
    <2>1. rows = published /\ writer' = "done" /\ published' = published
        BY <1>5 DEF Finish, StoreInv
    <2>2. status' = "completed" =>
              published # <<>> /\ published[Len(published)].type = "completed"
        BY <1>5, <2>1 DEF Finish, Outcome, Last
    <2>3. status' # "none"
        BY <1>5 DEF Finish, Outcome, IsTerminal, Terminal
    <2> QED
        BY <1>5, <2>1, <2>2, <2>3 DEF Finish, StoreInv, IsTerminal, Settled
  <1>6. CASE FinishRaises
      BY <1>6 DEF FinishRaises, StoreInv, IsTerminal, Settled
  <1>7. CASE Delete
      BY <1>7 DEF Delete, StoreInv, IsTerminal, Settled, Terminal
  <1>8. CASE UNCHANGED store
      BY <1>8 DEF store, StoreInv, IsTerminal, Settled
  <1>9. CASE Serve \/ Disconnect \/ Die \/ Watch \/ UNCHANGED vars
    <2>1. UNCHANGED store
        BY <1>9 DEF Serve, Open, List, Send, Check, Disconnect, Die, Watch, Receive,
                    ReachEnd, LoseConnection, Refresh, vars
    <2> QED
        BY <1>8, <2>1
  <1> QED
      BY <1>1, <1>2, <1>3, <1>4, <1>5, <1>6, <1>7, <1>9 DEF Next, Write


-------------------------------------------------------------------------------
(* The stream. *)

\* What is stored while it is read does not matter to what was read.
LEMMA StreamStands ==
    ASSUME ShowInv, UNCHANGED <<forwarded, wire, batch, stream, cursor>>,
           \/ UNCHANGED published
           \/ \E e \in Event : published' = Append(published, e)
    PROVE  StreamInv'
  <1>1. CASE UNCHANGED published
      BY <1>1 DEF ShowInv, StreamInv, Piece, Sent
  <1>2. CASE \E e \in Event : published' = Append(published, e)
    <2>1. PICK e \in Event : published' = Append(published, e)
        BY <1>2
    <2>2. /\ published \in Seq(Event)
          /\ Len(forwarded) \in Nat /\ Len(wire) \in Nat /\ Len(batch) \in Nat
        BY DEF ShowInv, TypeOK
    <2>3. Piece(forwarded, 0)'
      <3>1. Piece(forwarded, 0) /\ published \in Seq(Event) /\ 0 \in Nat
          BY <2>2 DEF ShowInv, StreamInv
      <3>2. /\ 0 + Len(forwarded) <= Len(published')
            /\ \A i \in 1..Len(forwarded) : forwarded[i] = published'[0 + i]
          BY <2>1, <2>2, <3>1, Extended
      <3> QED
          BY <3>2 DEF Piece
    <2>4. Piece(wire, Len(forwarded))'
        BY <2>1, <2>2, Extended DEF ShowInv, StreamInv, Piece
    <2>5. Sent \in Nat /\ Sent' = Sent /\ Sent <= Len(published)
        BY <2>2 DEF Sent, ShowInv, StreamInv, Piece
    <2>6. Piece(batch, Sent)'
        BY <2>1, <2>2, <2>5, Extended DEF ShowInv, StreamInv, Piece
    <2>7. Sent # 0 => published'[Sent] = published[Sent]
        BY <2>1, <2>2, <2>5, Appended
    <2> QED
        BY <2>3, <2>4, <2>5, <2>6, <2>7 DEF ShowInv, StreamInv
  <1> QED
      BY <1>1, <1>2

\* The cursor parts the rows into those that were sent and the others.
LEMMA CursorParts ==
    ASSUME ShowInv, stream # "lost"
    PROVE  /\ Sent \in Nat /\ Sent <= Len(published)
           /\ \A i \in 1..Len(published) : published[i].sequence > cursor <=> i > Sent
  <1>1. /\ published \in Seq(Event) /\ Len(published) \in Nat
        /\ Len(forwarded) \in Nat /\ Len(wire) \in Nat
      BY DEF ShowInv, TypeOK
  <1>2. Sent \in Nat /\ Sent <= Len(published)
      BY <1>1 DEF ShowInv, StreamInv, Piece, Sent
  <1>3. \A i \in 1..Len(published) : published[i].sequence \in Nat \ {0}
      BY <1>1, EventOf, EventsAssumption
  <1>4. CASE Sent = 0
      BY <1>2, <1>3, <1>4 DEF ShowInv, StreamInv
  <1>5. CASE Sent # 0
    <2>1. Sent \in 1..Len(published) /\ cursor = published[Sent].sequence
        BY <1>1, <1>2, <1>5 DEF ShowInv, StreamInv
    <2>2. SUFFICES ASSUME NEW i \in 1..Len(published)
                   PROVE  published[i].sequence > cursor <=> i > Sent
        BY <1>2
    <2>3. i < Sent => published[i].sequence < published[Sent].sequence
        BY <2>1 DEF ShowInv, StoreInv
    <2>4. Sent < i => published[Sent].sequence < published[i].sequence
        BY <2>1 DEF ShowInv, StoreInv
    <2>5. published[i].sequence \in Nat /\ published[Sent].sequence \in Nat
        BY <1>3, <2>1
    <2> QED
        BY <1>2, <2>1, <2>3, <2>4, <2>5
  <1> QED
      BY <1>4, <1>5

LEMMA ListStep == ASSUME ShowInv, List PROVE StreamInv' /\ batch' \in Seq(Event)
  <1>1. PICK n \in 0..Len(rows) :
            /\ \A i \in 1..Len(rows) : rows[i].sequence > cursor <=> i > n
            /\ batch' = SubSeq(rows, n + 1, Len(rows))
      BY DEF List
  <1>2. /\ stream = "listing" /\ stream' = "sending"
        /\ UNCHANGED <<published, forwarded, wire, cursor>>
      BY DEF List, store, desktop
  <1>3. /\ published \in Seq(Event) /\ Len(published) \in Nat
        /\ rows \in Seq(Event) /\ Len(rows) \in Nat /\ Sent' = Sent
      BY <1>2 DEF ShowInv, TypeOK, Sent
  <1>4. /\ Sent \in Nat /\ Sent <= Len(published)
        /\ \A i \in 1..Len(published) : published[i].sequence > cursor <=> i > Sent
      BY <1>2, CursorParts
  <1>5. /\ batch' \in Seq(Event)
        /\ Len(batch') = Len(rows) - n
        /\ \A i \in 1..(Len(rows) - n) : batch'[i] = rows[n + i]
    <2>1. \A i \in (n + 1)..Len(rows) : rows[i] \in Event
        BY <1>3, ElementOfSeq
    <2>2. n + 1 \in Int /\ Len(rows) \in Int
        BY <1>3
    <2> DEFINE b == SubSeq(rows, n + 1, Len(rows))
    <2>3. /\ b \in Seq(Event)
          /\ Len(b) = IF n + 1 <= Len(rows) THEN Len(rows) - (n + 1) + 1 ELSE 0
          /\ \A i \in 1..(Len(rows) - (n + 1) + 1) : b[i] = rows[(n + 1) + i - 1]
        BY <2>1, <2>2, SubSeqProperties
    <2> HIDE DEF b
    <2>4. Len(b) = Len(rows) - n /\ Len(rows) - (n + 1) + 1 = Len(rows) - n
        BY <1>3, <2>3
    <2>5. \A i \in 1..(Len(rows) - n) : b[i] = rows[n + i]
        BY <1>3, <2>3
    <2> QED
        BY <1>1, <2>3, <2>4, <2>5 DEF b
  <1>6. Piece(batch, Sent)'
    <2>1. CASE rows = published
      <3>1. n = Sent
        <4>1. n \in 0..Len(published) /\ Sent \in 0..Len(published)
            BY <1>3, <1>4, <2>1
        <4>2. \A i \in 1..Len(published) : i > n <=> i > Sent
            BY <1>1, <1>4, <2>1
        <4>3. ~(n < Sent)
            BY <4>1, <4>2, <1>3
        <4>4. ~(Sent < n)
            BY <4>1, <4>2, <1>3
        <4> QED
            BY <4>1, <4>3, <4>4
      <3> QED
          BY <1>2, <1>3, <1>4, <1>5, <2>1, <3>1 DEF Piece
    <2>2. CASE rows = <<>>
      <3>1. Len(batch') = 0
          BY <1>3, <1>5, <2>2
      <3> QED
          BY <1>2, <1>3, <1>4, <3>1 DEF Piece
    <2> QED
        BY <2>1, <2>2 DEF ShowInv, StoreInv
  <1> QED
      BY <1>2, <1>3, <1>5, <1>6 DEF ShowInv, StreamInv, Piece

LEMMA SendStep ==
    ASSUME ShowInv, Send
    PROVE  StreamInv' /\ wire' \in Seq(Event) /\ batch' \in Seq(Event) /\ cursor' \in 1..MaxEvents
  <1>1. /\ stream = "sending" /\ batch # <<>> /\ stream' = stream
        /\ cursor' = Head(batch).sequence
        /\ wire' = Append(wire, Head(batch)) /\ batch' = Tail(batch)
        /\ UNCHANGED <<published, forwarded>>
      BY DEF Send, store, desktop
  <1>2. /\ published \in Seq(Event) /\ batch \in Seq(Event) /\ wire \in Seq(Event)
        /\ Len(published) \in Nat /\ Len(forwarded) \in Nat /\ Len(wire) \in Nat
        /\ Len(batch) \in Nat
      BY DEF ShowInv, TypeOK
  <1>3. /\ Head(batch) \in Event /\ Head(batch) = batch[1]
        /\ batch' \in Seq(Event) /\ Len(batch') = Len(batch) - 1
        /\ Len(batch) \in Nat \ {0}
        /\ \A i \in 1..(Len(batch) - 1) : batch'[i] = batch[i + 1]
      BY <1>1, <1>2, Split
  <1>4. /\ wire' \in Seq(Event) /\ Len(wire') = Len(wire) + 1
        /\ \A i \in 1..Len(wire) : wire'[i] = wire[i]
        /\ wire'[Len(wire) + 1] = batch[1]
      BY <1>1, <1>2, <1>3, Appended
  <1>5. Sent \in Nat /\ Sent' = Sent + 1
      BY <1>1, <1>2, <1>4 DEF Sent
  <1>6. /\ Sent + Len(batch) <= Len(published)
        /\ \A i \in 1..Len(batch) : batch[i] = published[Sent + i]
      BY DEF ShowInv, StreamInv, Piece
  <1>7. Piece(wire, Len(forwarded)) /\ Piece(forwarded, 0)
      BY DEF ShowInv, StreamInv
  <1>8. batch[1] = published[Sent + 1] /\ Sent + 1 <= Len(published)
      BY <1>2, <1>3, <1>5, <1>6
  <1>9. Piece(wire, Len(forwarded))'
    <2>1. \A i \in 1..Len(wire') : i \in 1..Len(wire) \/ i = Len(wire) + 1
        BY <1>2, <1>4
    <2>2. Len(forwarded) + Len(wire') = Sent + 1 /\ Len(forwarded) + (Len(wire) + 1) = Sent + 1
        BY <1>2, <1>4 DEF Sent
    <2>3. \A i \in 1..Len(wire) : wire'[i] = published[Len(forwarded) + i]
        BY <1>4, <1>7 DEF Piece
    <2> QED
        BY <1>1, <1>4, <1>8, <2>1, <2>2, <2>3 DEF Piece
  <1>10. Piece(batch, Sent)'
    <2>1. \A i \in 1..Len(batch') :
               /\ i + 1 \in 1..Len(batch) /\ i \in 1..(Len(batch) - 1)
               /\ Sent + (i + 1) = (Sent + 1) + i
        BY <1>2, <1>3, <1>5
    <2>2. \A i \in 1..Len(batch') : batch'[i] = published[(Sent + 1) + i]
        BY <1>3, <1>6, <2>1
    <2>3. (Sent + 1) + Len(batch') <= Len(published)
        BY <1>2, <1>3, <1>5, <1>6
    <2> QED
        BY <1>1, <1>5, <2>2, <2>3 DEF Piece
  <1>11. Piece(forwarded, 0)'
      BY <1>1, <1>7 DEF Piece
  <1>12. cursor' = published'[Sent'].sequence /\ Sent' # 0
      BY <1>1, <1>3, <1>5, <1>8
  <1>13. cursor' \in 1..MaxEvents
      BY <1>1, <1>3 DEF Event
  <1> QED
      BY <1>1, <1>3, <1>4, <1>9, <1>10, <1>11, <1>12, <1>13 DEF StreamInv


LEMMA DieStep == ASSUME ShowInv, Die PROVE StreamInv' /\ wire' \in Seq(Event)
  <1>1. /\ stream' = "lost" /\ batch' = <<>> /\ UNCHANGED <<published, forwarded>>
        /\ \E n \in 0..Len(wire) : wire' = SubSeq(wire, 1, n)
      BY DEF Die, store, desktop
  <1>2. PICK n \in 0..Len(wire) : wire' = SubSeq(wire, 1, n)
      BY <1>1
  <1>3. /\ published \in Seq(Event) /\ wire \in Seq(Event)
        /\ Len(published) \in Nat /\ Len(forwarded) \in Nat /\ Len(wire) \in Nat
        /\ Piece(wire, Len(forwarded)) /\ Piece(forwarded, 0)
      BY DEF ShowInv, TypeOK, StreamInv
  <1>4. /\ Piece(SubSeq(wire, 1, n), Len(forwarded)) /\ SubSeq(wire, 1, n) \in Seq(Event)
        /\ Len(SubSeq(wire, 1, n)) = n
      BY <1>3, PieceOfPrefix
  <1>5. Piece(wire, Len(forwarded))' /\ wire' \in Seq(Event) /\ Len(wire') \in Nat
      BY <1>1, <1>2, <1>4 DEF Piece
  <1>6. Piece(forwarded, 0)'
      BY <1>1, <1>3 DEF Piece
  <1>7. Piece(batch, Sent)'
    <2>1. Len(batch') = 0 /\ Sent' \in Nat /\ Sent' <= Len(published')
        BY <1>1, <1>3, <1>5 DEF Sent, Piece
    <2> QED
        BY <1>1, <1>3, <2>1 DEF Piece
  <1> QED
      BY <1>1, <1>5, <1>6, <1>7 DEF StreamInv

LEMMA ReceiveStep ==
    ASSUME ShowInv, Receive
    PROVE  /\ StreamInv' /\ DesktopInv'
           /\ wire' \in Seq(Event) /\ forwarded' \in Seq(Event)
  <1>1. /\ watcher = "watching" /\ wire # <<>>
        /\ forwarded' = Append(forwarded, Head(wire)) /\ wire' = Tail(wire)
        /\ UNCHANGED <<published, batch, stream, cursor, shown>>
      BY DEF Receive, store
  <1>2. /\ wire \in Seq(Event) /\ forwarded \in Seq(Event) /\ published \in Seq(Event)
        /\ Len(wire) \in Nat /\ Len(forwarded) \in Nat /\ Len(batch) \in Nat
        /\ Len(published) \in Nat
      BY DEF ShowInv, TypeOK
  <1>3. /\ Head(wire) \in Event /\ Head(wire) = wire[1]
        /\ wire' \in Seq(Event) /\ Len(wire') = Len(wire) - 1 /\ Len(wire) \in Nat \ {0}
        /\ \A i \in 1..(Len(wire) - 1) : wire'[i] = wire[i + 1]
      BY <1>1, <1>2, Split
  <1>4. /\ forwarded' \in Seq(Event) /\ Len(forwarded') = Len(forwarded) + 1
        /\ \A i \in 1..Len(forwarded) : forwarded'[i] = forwarded[i]
        /\ forwarded'[Len(forwarded) + 1] = wire[1]
      BY <1>1, <1>2, <1>3, Appended
  <1>5. Sent' = Sent
      BY <1>2, <1>3, <1>4 DEF Sent
  <1>6. /\ Len(forwarded) + Len(wire) <= Len(published)
        /\ \A i \in 1..Len(wire) : wire[i] = published[Len(forwarded) + i]
        /\ \A i \in 1..Len(forwarded) : forwarded[i] = published[0 + i]
      BY DEF ShowInv, StreamInv, Piece
  <1>7. Piece(forwarded, 0)'
    <2>1. \A i \in 1..Len(forwarded') : i \in 1..Len(forwarded) \/ i = Len(forwarded) + 1
        BY <1>2, <1>4
    <2>2. wire[1] = published[Len(forwarded) + 1] /\ 0 + Len(forwarded') <= Len(published)
        BY <1>2, <1>3, <1>4, <1>6
    <2>3. \A i \in 1..Len(forwarded') : forwarded'[i] = published[i]
        BY <1>2, <1>4, <1>6, <2>1, <2>2
    <2> QED
        BY <1>1, <1>4, <2>2, <2>3 DEF Piece
  <1>8. Piece(wire, Len(forwarded))'
    <2>1. \A i \in 1..Len(wire') :
              /\ i + 1 \in 1..Len(wire) /\ i \in 1..(Len(wire) - 1)
              /\ Len(forwarded) + (i + 1) = (Len(forwarded) + 1) + i
        BY <1>2, <1>3
    <2>2. \A i \in 1..Len(wire') : wire'[i] = published[(Len(forwarded) + 1) + i]
        BY <1>3, <1>6, <2>1
    <2>3. (Len(forwarded) + 1) + Len(wire') <= Len(published)
        BY <1>2, <1>3, <1>6
    <2> QED
        BY <1>1, <1>4, <2>2, <2>3 DEF Piece
  <1>9. Piece(batch, Sent)'
      BY <1>1, <1>5 DEF ShowInv, StreamInv, Piece
  <1>10. StreamInv'
      BY <1>1, <1>5, <1>7, <1>8, <1>9 DEF ShowInv, StreamInv
  <1>11. forwarded' # <<>> /\ forwarded'[Len(forwarded')] = Head(wire)
      BY <1>2, <1>3, <1>4
  <1>12. DesktopInv'
    <2>1. refresh = "none" /\ ~shown
        BY <1>1 DEF ShowInv, DesktopInv
    <2>2. CASE IsTerminal(Head(wire))
      <3>1. watcher' = "stopped" /\ refresh' = "asked"
          BY <2>2 DEF Receive
      <3> QED
          BY <1>1, <1>11, <2>1, <2>2, <3>1 DEF DesktopInv, IsTerminal
    <2>3. CASE ~IsTerminal(Head(wire))
      <3>1. UNCHANGED <<watcher, refresh>>
          BY <2>3 DEF Receive
      <3> QED
          BY <1>1, <2>1, <3>1 DEF DesktopInv
    <2> QED
        BY <2>2, <2>3
  <1> QED
      BY <1>3, <1>4, <1>10, <1>12

LEMMA StreamStep == ShowInv /\ [Next]_vars => StreamInv'
  <1> SUFFICES ASSUME ShowInv, [Next]_vars PROVE StreamInv'
      OBVIOUS
  <1>1. CASE \E type \in Terminal \union {"progress"} : Store(type)
    <2>1. PICK type \in Terminal \union {"progress"} : Store(type)
        BY <1>1
    <2>2. \E e \in Event : published' = Append(published, e)
        BY <2>1, StoreFacts
    <2>3. UNCHANGED <<forwarded, wire, batch, stream, cursor>>
      <3>1. published' # published
        <4>1. published \in Seq(Event)
            BY DEF ShowInv, TypeOK
        <4>2. Len(published') = Len(published) + 1 /\ Len(published) \in Nat
            BY <2>2, <4>1, Appended
        <4> QED
            BY <4>2
      <3> QED
          BY <3>1 DEF Next, Write, Delete, Serve, Watch, PublishProgress, SkipNumber,
                      PublishTerminal, FailWithoutEvent, Finish, FinishRaises, Open, List,
                      Send, Check, Disconnect, Die, Receive, ReachEnd, LoseConnection,
                      Refresh, vars, store, server, desktop
    <2> QED
        BY <2>2, <2>3, StreamStands
  <1>2. CASE \/ SkipNumber \/ FailWithoutEvent \/ Finish \/ FinishRaises \/ Delete
             \/ ReachEnd \/ LoseConnection \/ Refresh \/ UNCHANGED vars
    <2>1. UNCHANGED <<published, forwarded, wire, batch, stream, cursor>>
        BY <1>2 DEF SkipNumber, FailWithoutEvent, Finish, FinishRaises, Delete, ReachEnd,
                    LoseConnection, Refresh, vars, store, server, desktop
    <2> QED
        BY <2>1, StreamStands
  <1>3. CASE Open \/ Check \/ Disconnect
    <2>1. /\ UNCHANGED <<published, forwarded, wire, cursor>>
          /\ stream # "lost" /\ stream' # "sending" /\ batch' = <<>>
        BY <1>3 DEF Open, Check, Disconnect, store, desktop, ShowInv, StreamInv
    <2>2. Sent \in Nat /\ Sent <= Len(published) /\ Sent' = Sent
      <3>1. Len(forwarded) \in Nat /\ Len(wire) \in Nat /\ Len(published) \in Nat
          BY DEF ShowInv, TypeOK
      <3> QED
          BY <2>1, <3>1 DEF Sent, ShowInv, StreamInv, Piece
    <2>3. Piece(batch, Sent)'
      <3>1. Len(batch') = 0 /\ Len(published) \in Nat
          BY <2>1 DEF ShowInv, TypeOK
      <3> QED
          BY <2>1, <2>2, <3>1 DEF Piece
    <2> QED
        BY <2>1, <2>2, <2>3 DEF ShowInv, StreamInv, Piece
  <1>4. CASE List
      BY <1>4, ListStep
  <1>5. CASE Send
      BY <1>5, SendStep
  <1>6. CASE Die
      BY <1>6, DieStep
  <1>7. CASE Receive
      BY <1>7, ReceiveStep
  <1> QED
      BY <1>1, <1>2, <1>3, <1>4, <1>5, <1>6, <1>7
         DEF Next, Write, Serve, Watch, PublishProgress, PublishTerminal

-------------------------------------------------------------------------------
(* The desktop. *)

\* The terminal event is the last one, and a shown answer is a completed run's.
LEMMA RefreshStep == ASSUME ShowInv, Refresh PROVE DesktopInv'
  <1>1. /\ refresh = "asked" /\ refresh' # "none" /\ UNCHANGED <<watcher, forwarded>>
        /\ (shown' = answered \/ shown' = shown)
      BY DEF Refresh
  <1>2. /\ forwarded # <<>> /\ IsTerminal(forwarded[Len(forwarded)])
        /\ watcher # "watching"
        /\ shown => forwarded[Len(forwarded)].type = "completed"
      BY <1>1 DEF ShowInv, DesktopInv
  <1>3. answered => forwarded[Len(forwarded)].type = "completed"
    <2>1. /\ forwarded \in Seq(Event) /\ Len(forwarded) \in Nat /\ Len(forwarded) # 0
          /\ Len(published) \in Nat
        BY <1>2, EmptySeq DEF ShowInv, TypeOK
    <2>2. forwarded[Len(forwarded)] = published[Len(forwarded)]
          /\ Len(forwarded) \in 1..Len(published)
        BY <2>1 DEF ShowInv, StreamInv, Piece
    <2>3. Len(forwarded) = Len(published)
        BY <1>2, <2>2 DEF ShowInv, StoreInv
    <2> QED
        BY <2>2, <2>3 DEF ShowInv, StoreInv
  <1> QED
      BY <1>1, <1>2, <1>3 DEF DesktopInv

LEMMA DesktopStep == ShowInv /\ [Next]_vars => DesktopInv'
  <1> SUFFICES ASSUME ShowInv, [Next]_vars PROVE DesktopInv'
      OBVIOUS
  <1>1. CASE Receive
      BY <1>1, ReceiveStep
  <1>2. CASE Refresh
      BY <1>2, RefreshStep
  <1>3. CASE ReachEnd \/ LoseConnection
      BY <1>3 DEF ReachEnd, LoseConnection, ShowInv, DesktopInv, IsTerminal
  <1>4. CASE Write \/ Delete \/ Serve \/ Disconnect \/ Die \/ UNCHANGED vars
    <2>1. UNCHANGED <<watcher, forwarded, refresh, shown>>
        BY <1>4 DEF Write, PublishProgress, SkipNumber, PublishTerminal, FailWithoutEvent,
                    Finish, FinishRaises, Delete, Serve, Open, List, Send, Check,
                    Disconnect, Die, vars, desktop
    <2> QED
        BY <2>1 DEF ShowInv, DesktopInv, IsTerminal
  <1> QED
      BY <1>1, <1>2, <1>3, <1>4 DEF Next, Watch


-------------------------------------------------------------------------------
(* The types, and the theorem. *)

LEMMA TypeStep == ShowInv /\ [Next]_vars => TypeOK'
  <1> SUFFICES ASSUME ShowInv, [Next]_vars PROVE TypeOK'
      OBVIOUS
  <1>1. TypeOK
      BY DEF ShowInv
  <1>2. CASE PublishProgress \/ PublishTerminal
    <2>1. PICK type \in Terminal \union {"progress"} : Store(type)
        BY <1>2 DEF PublishProgress, PublishTerminal
    <2>2. rows' \in Seq(Event) /\ published' \in Seq(Event) /\ sequence' \in 0..MaxEvents
        BY <2>1, StoreFacts
    <2>3. /\ writer' \in {"running", "finishing", "done"}
          /\ UNCHANGED <<status, answered, stream, cursor, batch, wire, watcher, forwarded,
                         active, refresh, shown>>
        BY <1>1, <1>2 DEF PublishProgress, PublishTerminal, server, desktop, TypeOK
    <2> QED
        BY <1>1, <2>2, <2>3 DEF TypeOK
  <1>3. CASE SkipNumber
      BY <1>1, <1>3, EventsAssumption DEF SkipNumber, TypeOK, server, desktop
  <1>4. CASE FailWithoutEvent \/ FinishRaises
      BY <1>1, <1>4 DEF FailWithoutEvent, FinishRaises, TypeOK, server, desktop
  <1>5. CASE Finish
    <2>1. answered' \in BOOLEAN
        BY <1>5 DEF Finish
    <2>2. status' \in Terminal
        BY <1>5 DEF Finish, Outcome, IsTerminal, Terminal
    <2> QED
        BY <1>1, <1>5, <2>1, <2>2 DEF Finish, TypeOK, server, desktop
  <1>6. CASE Delete
    <2>1. answered' \in BOOLEAN
        BY <1>6 DEF Delete
    <2> QED
        BY <1>1, <1>6, <2>1 DEF Delete, TypeOK, server, desktop
  <1>7. CASE Open \/ Check
      BY <1>1, <1>7 DEF Open, Check, TypeOK, store, desktop
  <1>8. CASE List
      BY <1>1, <1>8, ListStep DEF List, TypeOK, store, desktop
  <1>9. CASE Send
      BY <1>1, <1>9, SendStep DEF Send, TypeOK, store, desktop
  <1>10. CASE Disconnect
      BY <1>1, <1>10 DEF Disconnect, TypeOK, store, desktop
  <1>11. CASE Die
      BY <1>1, <1>11, DieStep DEF Die, TypeOK, store, desktop
  <1>12. CASE Receive
    <2>1. wire' \in Seq(Event) /\ forwarded' \in Seq(Event)
        BY <1>12, ReceiveStep
    <2>2. active' \in BOOLEAN
        BY <1>1, <1>12 DEF Receive, TypeOK
    <2>3. /\ watcher' \in {"watching", "stopped", "ended", "failed"}
          /\ refresh' \in {"none", "asked", "done", "failed"}
        BY <1>1, <1>12 DEF Receive, TypeOK
    <2> QED
        BY <1>1, <1>12, <2>1, <2>2, <2>3 DEF Receive, TypeOK, store
  <1>13. CASE ReachEnd
      BY <1>1, <1>13 DEF ReachEnd, TypeOK, store, server
  <1>14. CASE LoseConnection
    <2>1. active' \in BOOLEAN
        BY <1>14 DEF LoseConnection
    <2> QED
        BY <1>1, <1>14, <2>1 DEF LoseConnection, TypeOK, store, server
  <1>15. CASE Refresh
    <2>1. shown' \in BOOLEAN
        BY <1>1, <1>15 DEF Refresh, TypeOK
    <2> QED
        BY <1>1, <1>15, <2>1 DEF Refresh, TypeOK, store, server
  <1>16. CASE UNCHANGED vars
      BY <1>1, <1>16 DEF TypeOK, vars, store, server, desktop
  <1> QED
      BY <1>2, <1>3, <1>4, <1>5, <1>6, <1>7, <1>8, <1>9, <1>10, <1>11, <1>12, <1>13, <1>14,
         <1>15, <1>16 DEF Next, Write, Serve, Watch

LEMMA NextInv == ShowInv /\ [Next]_vars => ShowInv'
    BY TypeStep, StoreStep, StreamStep, DesktopStep DEF ShowInv

LEMMA ShowHolds == Spec => []ShowInv
    BY InitInv, NextInv, PTL DEF Spec

(* The renderer is told the events of the run in their order, each once    *)
(* and none left out, and shows no answer but of a run that was announced  *)
(* as completed, for any number of events and any numbers that were        *)
(* skipped (stream_events, readRunEvents, watchRun, App.tsx:2105-2118).    *)
THEOREM Shown == Spec => []ShownInOrder
  <1>1. ShowInv => NothingSkipped
    <2> SUFFICES ASSUME ShowInv PROVE NothingSkipped
        OBVIOUS
    <2> DEFINE s == forwarded \o wire
    <2>1. /\ forwarded \in Seq(Event) /\ wire \in Seq(Event) /\ published \in Seq(Event)
          /\ Len(forwarded) \in Nat /\ Len(wire) \in Nat /\ Len(published) \in Nat
        BY DEF ShowInv, TypeOK
    <2>2. /\ s \in Seq(Event) /\ Len(s) = Len(forwarded) + Len(wire)
          /\ \A i \in 1..Len(s) : s[i] = IF i <= Len(forwarded) THEN forwarded[i]
                                         ELSE wire[i - Len(forwarded)]
        BY <2>1, ConcatProperties
    <2> HIDE DEF s
    <2>3. /\ \A i \in 1..Len(forwarded) : forwarded[i] = published[0 + i]
          /\ \A i \in 1..Len(wire) : wire[i] = published[Len(forwarded) + i]
          /\ Len(forwarded) + Len(wire) <= Len(published)
        BY DEF ShowInv, StreamInv, Piece
    <2>4. \A i \in 1..Len(s) : s[i] = published[i]
      <3> SUFFICES ASSUME NEW i \in 1..Len(s) PROVE s[i] = published[i]
          OBVIOUS
      <3>1. CASE i <= Len(forwarded)
        <4>1. i \in 1..Len(forwarded) /\ 0 + i = i
            BY <2>1, <3>1
        <4> QED
            BY <2>2, <2>3, <3>1, <4>1
      <3>2. CASE ~(i <= Len(forwarded))
        <4>1. i - Len(forwarded) \in 1..Len(wire) /\ Len(forwarded) + (i - Len(forwarded)) = i
            BY <2>1, <2>2, <3>2
        <4> QED
            BY <2>2, <2>3, <3>2, <4>1
      <3> QED
          BY <3>1, <3>2
    <2>5. SubSeq(s, 1, Len(s)) = SubSeq(published, 1, Len(s))
      <3>1. Len(s) \in Nat /\ Len(s) <= Len(published)
          BY <2>1, <2>2, <2>3
      <3>2. \A i \in 1..Len(s) : i \in 1..Len(published)
          BY <2>1, <3>1
      <3>3. \A i \in 1..Len(s) : s[i] \in Event /\ published[i] \in Event
          BY <2>1, <2>2, <3>2, ElementOfSeq
      <3>4. /\ SubSeq(s, 1, Len(s)) \in Seq(Event)
            /\ Len(SubSeq(s, 1, Len(s))) = Len(s)
            /\ \A i \in 1..Len(s) : SubSeq(s, 1, Len(s))[i] = s[i]
          BY <3>1, <3>3, SubSeqProperties
      <3>5. /\ SubSeq(published, 1, Len(s)) \in Seq(Event)
            /\ Len(SubSeq(published, 1, Len(s))) = Len(s)
            /\ \A i \in 1..Len(s) : SubSeq(published, 1, Len(s))[i] = published[i]
          BY <3>1, <3>3, SubSeqProperties
      <3> QED
          BY <2>4, <3>4, <3>5, SeqEqual
    <2> QED
        BY <2>1, <2>2, <2>3, <2>5 DEF s, NothingSkipped, IsPrefix
  <1>2. ShowInv => ShownIsAnnounced
      BY DEF ShowInv, DesktopInv, ShownIsAnnounced, Last
  <1>3. ShowInv => ShownInOrder
      BY <1>1, <1>2 DEF ShowInv, ShownInOrder
  <1> QED
      BY <1>3, ShowHolds, PTL

===============================================================================
