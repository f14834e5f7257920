---------------------------- MODULE OutboxProofs ----------------------------
(***************************************************************************)
(* Proofs about the transactional outbox, for any number of rows and        *)
(* publishers, any page size, any failures and any number of times a        *)
(* duplicate window ends.                                                   *)
(***************************************************************************)
EXTENDS Outbox, TLAPS

USE RowsAssumption, LimitAssumption, BoundsAssumption

\* What a publisher relies on between its transactions: it has fetched committed rows
\* only, and the stream has acknowledged the row it is about to mark.
BatchesAreCommitted == \A p \in Publisher : batch[p] \subseteq inserted

MarkIsEarned ==
    \A p \in Publisher : pc[p] = "mark" => \A r \in Row : IsNext(p, r) => copies[r] > 0

\* A message within its duplicate window is in the stream.  One outside it may be stored
\* once more; what has been stored of it is paid for by the windows that have ended.
WindowsPaid ==
    \A r \in Row : IF r \in window THEN copies[r] > 0 ELSE copies[r] <= expired[r]

Inv ==
    /\ TypeOK
    /\ BatchesAreCommitted
    /\ MarkIsEarned
    /\ WindowsPaid
    /\ PublishedIsStored
    /\ StoredIsCommitted
    /\ OneCopyPerWindow

\* Nothing is inserted, fetched or stored at first.
LEMMA InitInv == Init => Inv
BY DEF Init, Inv, TypeOK, BatchesAreCommitted, MarkIsEarned, WindowsPaid, PublishedIsStored,
       StoredIsCommitted, OneCopyPerWindow, Steps

\* A page holds rows of the table that are not marked.
LEMMA PageIsPending == Page(Pending) \subseteq inserted \ published
BY DEF Page, Pending

\* The stream stores a message at most once more, and then recognises it.
LEMMA ReceiveStep ==
    ASSUME TypeOK, NEW r \in Row, Receive(r)
    PROVE  /\ copies' \in [Row -> Nat] /\ window' \subseteq Row
           /\ window' = window \cup {r}
           /\ \A q \in Row : q # r => copies'[q] = copies[q]
           /\ r \in window => copies'[r] = copies[r]
           /\ r \notin window => copies'[r] = copies[r] + 1
BY DEF TypeOK, Receive

-----------------------------------------------------------------------------
(* The frame of a step: who moves, and what the table and the stream do. *)

TableKept == UNCHANGED tables
TableInserted(r) == inserted' = inserted \cup {r} /\ UNCHANGED <<published, errors>>
TableMarked(r) == SetPublished(r) /\ UNCHANGED inserted
TableFailed(r) == errors' = errors \cup {r} /\ UNCHANGED <<inserted, published>>

StreamKept == UNCHANGED stream
StreamReceived(r) == Receive(r) /\ UNCHANGED expired
StreamExpired(r) == Expire(r)

\* Each step of a publisher concerns the row it has reached: the stream receives that
\* row's message before the row is marked, the batch only shrinks once it is fetched,
\* and the publisher is about to mark a row only when the stream has just received it.
LEMMA PublisherStep ==
    ASSUME TypeOK, BatchesAreCommitted, NEW p \in Publisher, Proceed(p) \/ GoWrong(p) \/ Skip(p)
    PROVE  /\ pc' \in [Publisher -> Steps] /\ batch' \in [Publisher -> SUBSET Row]
           /\ faults' \in 0..MaxFaults
           /\ \A q \in Publisher : q # p => pc'[q] = pc[q] /\ batch'[q] = batch[q]
           /\ batch'[p] \subseteq batch[p] \/ batch'[p] \subseteq inserted \ published
           /\ \/ TableKept /\ StreamKept /\ pc'[p] # "mark"
              \/ \E r \in Row : /\ IsNext(p, r) /\ TableKept /\ StreamReceived(r)
                                /\ batch'[p] = batch[p]
              \/ \E r \in Row : /\ IsNext(p, r) /\ TableMarked(r) /\ StreamKept
                                /\ pc[p] = "mark" /\ pc'[p] # "mark"
              \/ \E r \in Row : /\ IsNext(p, r) /\ TableFailed(r) /\ StreamKept
                                /\ pc'[p] # "mark"
<1> USE DEF TypeOK, BatchesAreCommitted, Goto, Steps, TableKept, StreamKept, tables, stream
<1> DEFINE
      Frame == /\ pc' \in [Publisher -> Steps] /\ batch' \in [Publisher -> SUBSET Row]
               /\ faults' \in 0..MaxFaults
               /\ \A q \in Publisher : q # p => pc'[q] = pc[q] /\ batch'[q] = batch[q]
               /\ batch'[p] \subseteq batch[p] \/ batch'[p] \subseteq inserted \ published
      Quiet == TableKept /\ StreamKept /\ pc'[p] # "mark"
      Receives(r) == /\ IsNext(p, r) /\ TableKept /\ StreamReceived(r)
                     /\ batch'[p] = batch[p]
      Marks(r) == /\ IsNext(p, r) /\ TableMarked(r) /\ StreamKept
                  /\ pc[p] = "mark" /\ pc'[p] # "mark"
      Records(r) == /\ IsNext(p, r) /\ TableFailed(r) /\ StreamKept
                    /\ pc'[p] # "mark"
      Goal == Frame /\ \/ Quiet
                       \/ \E r \in Row : Receives(r)
                       \/ \E r \in Row : Marks(r)
                       \/ \E r \in Row : Records(r)
<1>0. Rest(p) \in {"idle", "gone"}
  BY DEF Rest
<1>1. ASSUME Fetch(p) PROVE Goal
  BY <1>1, PageIsPending DEF Fetch
<1>2. ASSUME Skip(p) PROVE Goal
  BY <1>2 DEF Skip, Fault
<1>3. ASSUME Connect(p) PROVE Goal
  BY <1>3 DEF Connect
<1>4. ASSUME ConnectRaises(p) PROVE Goal
  BY <1>0, <1>4 DEF ConnectRaises, Fault
<1>5. ASSUME Publish(p) PROVE Goal
  <2> PICK r \in Row : /\ IsNext(p, r) /\ Goto(p, "publish", "mark") /\ Receive(r)
                       /\ UNCHANGED <<tables, expired, batch, faults>>
    BY <1>5 DEF Publish
  <2>1. Frame /\ Receives(r)
    BY DEF StreamReceived
  <2> QED
    BY <2>1
<1>6. ASSUME PublishRefused(p) PROVE Goal
  BY <1>6 DEF PublishRefused
<1>7. ASSUME PublishRaises(p) PROVE Goal
  <2> PICK r \in Row : /\ IsNext(p, r) /\ Goto(p, "publish", "fail")
                       /\ Receive(r) \/ UNCHANGED <<copies, window>>
                       /\ Fault /\ UNCHANGED <<tables, expired, batch>>
    BY <1>7 DEF PublishRaises
  <2>1. Frame
    BY DEF Fault
  <2>2. CASE Receive(r)
    <3>1. Receives(r)
      BY <2>2 DEF StreamReceived
    <3> QED
      BY <2>1, <3>1
  <2>3. CASE UNCHANGED <<copies, window>>
    BY <2>1, <2>3
  <2> QED
    BY <2>2, <2>3
<1>8. ASSUME Mark(p) PROVE Goal
  <2> PICK r \in Row : /\ IsNext(p, r) /\ Advance(p, r, "mark") /\ SetPublished(r)
                       /\ UNCHANGED <<inserted, stream, faults>>
    BY <1>8 DEF Mark
  <2>1. Frame /\ Marks(r)
    BY <1>0 DEF Advance, TableMarked
  <2> QED
    BY <2>1
<1>9. ASSUME MarkRaises(p) PROVE Goal
  <2> PICK r \in Row : /\ IsNext(p, r) /\ Goto(p, "mark", "fail") /\ Fault
                       /\ SetPublished(r) \/ UNCHANGED <<published, errors>>
                       /\ UNCHANGED <<inserted, stream, batch>>
    BY <1>9 DEF MarkRaises
  <2>1. Frame
    BY DEF Fault
  <2>2. CASE SetPublished(r)
    <3>1. Marks(r)
      BY <2>2 DEF TableMarked
    <3> QED
      BY <2>1, <3>1
  <2>3. CASE UNCHANGED <<published, errors>>
    BY <2>1, <2>3
  <2> QED
    BY <2>2, <2>3
<1>10. ASSUME RecordFailure(p) PROVE Goal
  <2> PICK r \in Row : /\ IsNext(p, r) /\ Advance(p, r, "fail") /\ errors' = errors \cup {r}
                       /\ UNCHANGED <<inserted, published, stream, faults>>
    BY <1>10 DEF RecordFailure
  <2>1. Frame /\ Records(r)
    BY <1>0 DEF Advance, TableFailed
  <2> QED
    BY <2>1
<1>11. ASSUME RecordFailureRaises(p) PROVE Goal
  BY <1>0, <1>11 DEF RecordFailureRaises, Fault
<1>12. ASSUME Die(p) PROVE Goal
  BY <1>12 DEF Die, Fault
<1> HIDE DEF Goal
<1>13. Goal
  BY <1>1, <1>2, <1>3, <1>4, <1>5, <1>6, <1>7, <1>8, <1>9, <1>10, <1>11, <1>12
     DEF Proceed, GoWrong
<1> QED
  BY <1>13 DEF Goal

\* Steps of the stream and of the APIs leave the publishers alone.
LEMMA OthersStep ==
    ASSUME TypeOK, NEW r \in Row, Insert(r) \/ Expire(r)
    PROVE  /\ UNCHANGED <<pc, batch, faults>>
           /\ \/ TableInserted(r) /\ StreamKept
              \/ TableKept /\ StreamExpired(r)
BY DEF Insert, Expire, TableInserted, TableKept, StreamKept, StreamExpired, stream, tables

-----------------------------------------------------------------------------
(* The invariant. *)

\* The end of a duplicate window.
LEMMA ExpireStep ==
    ASSUME TypeOK, NEW r \in Row, Expire(r)
    PROVE  /\ copies' = copies
           /\ window' = window \ {r} /\ window' \subseteq Row
           /\ expired' \in [Row -> 0..MaxExpiries]
           /\ r \in window /\ expired'[r] = expired[r] + 1
           /\ \A q \in Row : q # r => expired'[q] = expired[q]
BY DEF TypeOK, Expire

\* Steps of the stream and of the APIs keep the invariant.
LEMMA OthersInv ==
    ASSUME Inv, NEW r \in Row, Insert(r) \/ Expire(r)
    PROVE  Inv'
<1> USE DEF Inv
<1>1. UNCHANGED <<pc, batch, faults>>
  BY OthersStep
<1>2. CASE TableInserted(r) /\ StreamKept
  <2>1. /\ inserted' = inserted \cup {r} /\ published' = published /\ errors' = errors
        /\ copies' = copies /\ window' = window /\ expired' = expired
    BY <1>2 DEF TableInserted, StreamKept, stream
  <2>2. TypeOK'
    BY <1>1, <2>1 DEF TypeOK
  <2>3. MarkIsEarned' /\ BatchesAreCommitted'
    BY <1>1, <2>1 DEF MarkIsEarned, IsNext, BatchesAreCommitted
  <2>4. WindowsPaid' /\ PublishedIsStored' /\ StoredIsCommitted' /\ OneCopyPerWindow'
    BY <2>1 DEF WindowsPaid, PublishedIsStored, StoredIsCommitted, OneCopyPerWindow
  <2> QED
    BY <2>2, <2>3, <2>4
<1>3. CASE TableKept /\ StreamExpired(r)
  <2>1. inserted' = inserted /\ published' = published /\ errors' = errors
    BY <1>3 DEF TableKept, tables
  <2>2. /\ copies' = copies
        /\ window' = window \ {r} /\ window' \subseteq Row
        /\ expired' \in [Row -> 0..MaxExpiries]
        /\ r \in window /\ expired'[r] = expired[r] + 1
        /\ \A q \in Row : q # r => expired'[q] = expired[q]
    BY <1>3, ExpireStep DEF StreamExpired
  <2>3. TypeOK'
    BY <1>1, <2>1, <2>2 DEF TypeOK
  <2>4. MarkIsEarned' /\ BatchesAreCommitted'
    BY <1>1, <2>1, <2>2 DEF MarkIsEarned, IsNext, BatchesAreCommitted
  <2>5. PublishedIsStored' /\ StoredIsCommitted'
    BY <2>1, <2>2 DEF PublishedIsStored, StoredIsCommitted
  <2>6. ASSUME NEW q \in Row
        PROVE  /\ copies'[q] <= 1 + expired'[q]
               /\ IF q \in window' THEN copies'[q] > 0 ELSE copies'[q] <= expired'[q]
    BY <2>2 DEF WindowsPaid, OneCopyPerWindow, TypeOK
  <2> QED
    BY <2>3, <2>4, <2>5, <2>6 DEF WindowsPaid, OneCopyPerWindow
<1> QED
  BY <1>2, <1>3, OthersStep

\* Steps of the publishers keep the invariant.
LEMMA PublisherInv ==
    ASSUME Inv, NEW p \in Publisher, Proceed(p) \/ GoWrong(p) \/ Skip(p)
    PROVE  Inv'
<1> USE DEF Inv
<1>1. /\ pc' \in [Publisher -> Steps] /\ batch' \in [Publisher -> SUBSET Row]
      /\ faults' \in 0..MaxFaults
      /\ \A q \in Publisher : q # p => pc'[q] = pc[q] /\ batch'[q] = batch[q]
      /\ batch'[p] \subseteq batch[p] \/ batch'[p] \subseteq inserted \ published
  BY PublisherStep
<1>2. \A r \in Row : IsNext(p, r) => r \in inserted
  BY DEF IsNext, BatchesAreCommitted
<1>3. ASSUME inserted' = inserted PROVE BatchesAreCommitted'
  BY <1>1, <1>3 DEF BatchesAreCommitted
<1>4. ASSUME pc'[p] # "mark", \A r \in Row : copies[r] > 0 => copies'[r] > 0 PROVE MarkIsEarned'
  BY <1>1, <1>4 DEF MarkIsEarned, IsNext
<1>5. CASE TableKept /\ StreamKept /\ pc'[p] # "mark"
  <2>1. /\ inserted' = inserted /\ published' = published /\ errors' = errors
        /\ copies' = copies /\ window' = window /\ expired' = expired
    BY <1>5 DEF TableKept, StreamKept, tables, stream
  <2>2. TypeOK'
    BY <1>1, <2>1 DEF TypeOK
  <2>3. WindowsPaid' /\ PublishedIsStored' /\ StoredIsCommitted' /\ OneCopyPerWindow'
    BY <2>1 DEF WindowsPaid, PublishedIsStored, StoredIsCommitted, OneCopyPerWindow
  <2> QED
    BY <1>3, <1>4, <1>5, <2>1, <2>2, <2>3
<1>6. ASSUME NEW r \in Row, IsNext(p, r), TableKept, StreamReceived(r), batch'[p] = batch[p]
      PROVE  Inv'
  <2>1. inserted' = inserted /\ published' = published /\ errors' = errors /\ expired' = expired
    BY <1>6 DEF TableKept, tables, StreamReceived
  <2>2. /\ copies' \in [Row -> Nat] /\ window' \subseteq Row
        /\ window' = window \cup {r}
        /\ \A q \in Row : q # r => copies'[q] = copies[q]
        /\ r \in window => copies'[r] = copies[r]
        /\ r \notin window => copies'[r] = copies[r] + 1
    BY <1>6, ReceiveStep DEF StreamReceived
  <2>3. TypeOK'
    BY <1>1, <2>1, <2>2 DEF TypeOK
  <2>4. ASSUME NEW q \in Row
        PROVE  /\ copies[q] > 0 => copies'[q] > 0
               /\ copies'[q] <= 1 + expired'[q]
               /\ IF q \in window' THEN copies'[q] > 0 ELSE copies'[q] <= expired'[q]
               /\ copies'[q] > 0 => q \in inserted'
    BY <1>2, <1>6, <2>1, <2>2 DEF TypeOK, WindowsPaid, OneCopyPerWindow, StoredIsCommitted
  <2>5. WindowsPaid' /\ OneCopyPerWindow' /\ StoredIsCommitted'
    BY <2>4 DEF WindowsPaid, OneCopyPerWindow, StoredIsCommitted
  <2>6. PublishedIsStored'
    BY <2>1, <2>4 DEF PublishedIsStored, TypeOK
  <2>7. MarkIsEarned'
    <3>1. copies'[r] > 0
      BY <2>2 DEF WindowsPaid, TypeOK
    <3>2. ASSUME NEW q \in Row, IsNext(p, q) PROVE q = r
      BY <1>6, <3>2 DEF IsNext, Row
    <3>3. ASSUME NEW q \in Row, IsNext(p, q)' PROVE copies'[q] > 0
      BY <1>6, <3>1, <3>2, <3>3 DEF IsNext
    <3>4. ASSUME NEW s \in Publisher, s # p, pc'[s] = "mark", NEW q \in Row, IsNext(s, q)'
          PROVE  copies'[q] > 0
      BY <1>1, <2>4, <3>4 DEF MarkIsEarned, IsNext
    <3> QED
      BY <3>3, <3>4 DEF MarkIsEarned
  <2> QED
    BY <1>3, <2>1, <2>3, <2>5, <2>6, <2>7
<1>7. ASSUME NEW r \in Row, IsNext(p, r), TableMarked(r), StreamKept,
             pc[p] = "mark", pc'[p] # "mark"
      PROVE  Inv'
  <2>1. /\ inserted' = inserted /\ published' = published \cup {r} /\ errors' = errors \ {r}
        /\ copies' = copies /\ window' = window /\ expired' = expired
    BY <1>7 DEF TableMarked, SetPublished, StreamKept, stream
  <2>2. r \in inserted /\ copies[r] > 0
    BY <1>2, <1>7 DEF MarkIsEarned
  <2>3. TypeOK'
    BY <1>1, <2>1, <2>2 DEF TypeOK
  <2>4. WindowsPaid' /\ PublishedIsStored' /\ StoredIsCommitted' /\ OneCopyPerWindow'
    BY <2>1, <2>2 DEF WindowsPaid, PublishedIsStored, StoredIsCommitted, OneCopyPerWindow
  <2> QED
    BY <1>3, <1>4, <1>7, <2>1, <2>3, <2>4
<1>8. ASSUME NEW r \in Row, IsNext(p, r), TableFailed(r), StreamKept, pc'[p] # "mark"
      PROVE  Inv'
  <2>1. /\ inserted' = inserted /\ published' = published /\ errors' = errors \cup {r}
        /\ copies' = copies /\ window' = window /\ expired' = expired
    BY <1>8 DEF TableFailed, StreamKept, stream
  <2>2. TypeOK'
    BY <1>1, <1>2, <1>8, <2>1 DEF TypeOK
  <2>3. WindowsPaid' /\ PublishedIsStored' /\ StoredIsCommitted' /\ OneCopyPerWindow'
    BY <2>1 DEF WindowsPaid, PublishedIsStored, StoredIsCommitted, OneCopyPerWindow
  <2> QED
    BY <1>3, <1>4, <1>8, <2>1, <2>2, <2>3
<1> QED
  BY <1>5, <1>6, <1>7, <1>8, PublisherStep

\* The inductive invariant of the outbox.
THEOREM Invariance == Spec => []Inv
<1>1. Init => Inv
  BY InitInv
<1>2. Inv /\ [Next]_vars => Inv'
  <2> SUFFICES ASSUME Inv, [Next]_vars PROVE Inv'
    OBVIOUS
  <2>1. CASE UNCHANGED vars
    <3> USE <2>1 DEF vars, Inv
    <3>1. TypeOK' /\ BatchesAreCommitted' /\ MarkIsEarned'
      BY DEF TypeOK, BatchesAreCommitted, MarkIsEarned, IsNext
    <3>2. WindowsPaid' /\ PublishedIsStored' /\ StoredIsCommitted' /\ OneCopyPerWindow'
      BY DEF WindowsPaid, PublishedIsStored, StoredIsCommitted, OneCopyPerWindow
    <3> QED
      BY <3>1, <3>2
  <2> QED
    BY <2>1, OthersInv, PublisherInv DEF Next
<1> QED
  BY <1>1, <1>2, PTL DEF Spec

\* The state of the outbox, the stream and the publishers keeps its types.
THEOREM TypeCorrect == Spec => []TypeOK
<1>1. Inv => TypeOK
  BY DEF Inv
<1> QED
  BY <1>1, Invariance, PTL

\* outbox.py:42-81: for any number of publishers racing over the same rows and whatever
\* calls they lose, a row is marked only when the stream holds its message, only committed
\* rows are announced, and a message is stored once for each duplicate window.
THEOREM StreamAgrees == Spec => []StreamAgreesWithTable
<1>1. Inv => StreamAgreesWithTable
  BY DEF Inv, StreamAgreesWithTable
<1> QED
  BY <1>1, Invariance, PTL

\* A row that is marked and that no publisher still has in its batch is left alone for
\* ever: no step fetches it, stores its message again or undoes its mark.
LEMMA RestStep ==
    ASSUME Inv, [Next]_vars, NEW r \in Row, AtRest(r)
    PROVE  AtRest(r)' /\ copies'[r] = copies[r]
<1> USE DEF AtRest, Inv
<1>1. ASSUME NEW q \in Row, Insert(q) \/ Expire(q)
      PROVE  AtRest(r)' /\ copies'[r] = copies[r]
  BY <1>1 DEF Insert, Expire, tables, stream
<1>2. ASSUME NEW p \in Publisher, Proceed(p) \/ GoWrong(p) \/ Skip(p)
      PROVE  AtRest(r)' /\ copies'[r] = copies[r]
  <2>1. /\ \A q \in Publisher : q # p => batch'[q] = batch[q]
        /\ batch'[p] \subseteq batch[p] \/ batch'[p] \subseteq inserted \ published
    BY <1>2, PublisherStep
  <2>2. \A q \in Publisher : r \notin batch'[q]
    BY <2>1
  <2>3. published \subseteq published'
    BY <1>2, PublisherStep DEF TableKept, TableMarked, TableFailed, SetPublished, tables
  <2>4. copies'[r] = copies[r]
    <3>1. CASE StreamKept
      BY <3>1 DEF StreamKept, stream
    <3>2. ASSUME NEW q \in Row, IsNext(p, q), StreamReceived(q) PROVE copies'[r] = copies[r]
      BY <3>2, ReceiveStep DEF StreamReceived, IsNext
    <3> QED
      BY <1>2, <3>1, <3>2, PublisherStep
  <2> QED
    BY <2>2, <2>3, <2>4
<1>3. CASE UNCHANGED vars
  BY <1>3 DEF vars
<1> QED
  BY <1>1, <1>2, <1>3 DEF Next

\* The mark of mark_published is final, also against publishers with stale batches once
\* they have dealt with them.
THEOREM MarkedRowsStayAtRest == Spec => MarkedRowsRest
<1>1. Inv /\ [Next]_vars => [\A r \in Row : AtRest(r) => AtRest(r)' /\ copies'[r] = copies[r]]_vars
  BY RestStep
<1> QED
  BY <1>1, Invariance, PTL DEF Spec, MarkedRowsRest
==============================================================================
