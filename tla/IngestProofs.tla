----------------------------- MODULE IngestProofs -----------------------------
(***************************************************************************)
(* RingBuffer implements DropOldestQueue, for every capacity and every set *)
(* of items, and what the ingest service built on it guarantees, for every *)
(* set of exports and every size of an export.                             *)
(***************************************************************************)
EXTENDS Ingest, TLAPS, SequenceTheorems, FiniteSetTheorems

-----------------------------------------------------------------------------
(* The ring buffer.                                                        *)

\* Positions are at most one lap away from a slot.
LEMMA Lap ==
    /\ Capacity \in Nat /\ Capacity > 0
    /\ \A n \in Slots : n % Capacity = n
    /\ \A n \in Slots : (n + Capacity) % Capacity = n
    /\ \A n \in Int : n % Capacity \in Slots
BY CapacityAssumption DEF Slots

\* The position that is k places after t.
LEMMA Ahead ==
    \A t \in Slots : \A k \in 0..Capacity :
        (t + k) % Capacity = IF t + k < Capacity THEN t + k ELSE (t + k) - Capacity
<1> SUFFICES ASSUME NEW t \in Slots, NEW k \in 0..Capacity
             PROVE  (t + k) % Capacity =
                        IF t + k < Capacity THEN t + k ELSE (t + k) - Capacity
  OBVIOUS
<1>1. CASE t + k < Capacity
  <2>1. t + k \in Slots
    BY <1>1, Lap DEF Slots
  <2> QED
    BY <1>1, <2>1, Lap
<1>2. CASE t + k >= Capacity
  <2>1. (t + k) - Capacity \in Slots
    BY <1>2, Lap DEF Slots
  <2>2. ((t + k) - Capacity) + Capacity = t + k
    BY Lap DEF Slots
  <2>3. (((t + k) - Capacity) + Capacity) % Capacity = (t + k) - Capacity
    BY <2>1, Lap
  <2> QED
    BY <1>2, <2>2, <2>3, Lap DEF Slots
<1> QED
  BY <1>1, <1>2, Lap DEF Slots

RingInv == RingTypeOK /\ WellFormed

\* Under the invariant Contents is a sequence of items.
LEMMA ContentsType ==
    ASSUME RingInv
    PROVE  /\ Contents \in Seq(Items)
           /\ Len(Contents) = count
           /\ count \in Nat
           /\ Contents \in [1..count -> Items]
<1>1. count \in Nat
  BY Lap DEF RingInv, RingTypeOK
<1>2. Contents \in [1..count -> Items]
  BY DEF RingInv, WellFormed, Contents
<1> QED
  BY <1>1, <1>2 DEF Contents

\* Push into a buffer with a free slot appends the item.
LEMMA PushAppends ==
    ASSUME RingInv, NEW item \in Items, Push(item), count < Capacity
    PROVE  RingInv' /\ Contents' = Append(Contents, item)
<1>1. /\ count \in Nat /\ Capacity \in Nat /\ count < Capacity /\ count \in 0..Capacity
      /\ tail \in Slots /\ head \in Slots /\ head = (tail + count) % Capacity
      /\ buf \in [Slots -> Items \cup {Zero}]
  BY Lap DEF RingInv, RingTypeOK, WellFormed
<1>2. /\ buf' = [buf EXCEPT ![head] = item] /\ head' = (head + 1) % Capacity
      /\ count' = count + 1 /\ tail' = tail
  BY <1>1 DEF Push
<1>3. head' = (tail + (count + 1)) % Capacity /\ head' \in Slots
  <2>1. /\ head = IF tail + count < Capacity THEN tail + count ELSE (tail + count) - Capacity
        /\ head' = IF head + 1 < Capacity THEN head + 1 ELSE (head + 1) - Capacity
        /\ (tail + (count + 1)) % Capacity =
              IF tail + (count + 1) < Capacity THEN tail + (count + 1)
                                               ELSE (tail + (count + 1)) - Capacity
    <3>1. 1 \in 0..Capacity /\ count + 1 \in 0..Capacity
      BY <1>1
    <3> QED
      BY <1>1, <1>2, <3>1, Ahead
  <2> QED
    BY <1>1, <2>1 DEF Slots
<1>4. ASSUME NEW i \in 1..count
      PROVE  (tail + (i - 1)) % Capacity \in Slots \ {head}
  <2>1. /\ head = IF tail + count < Capacity THEN tail + count ELSE (tail + count) - Capacity
        /\ (tail + (i - 1)) % Capacity =
              IF tail + (i - 1) < Capacity THEN tail + (i - 1) ELSE (tail + (i - 1)) - Capacity
    <3>1. i - 1 \in 0..Capacity
      BY <1>1
    <3> QED
      BY <1>1, <3>1, Ahead
  <2> QED
    BY <1>1, <2>1 DEF Slots
<1>5. \A i \in 1..count : Contents'[i] = Contents[i]
  BY <1>1, <1>2, <1>4 DEF Contents
<1>6. Contents'[count + 1] = item
  <2>1. Contents'[count + 1] = buf'[(tail + ((count + 1) - 1)) % Capacity]
    BY <1>1, <1>2 DEF Contents
  <2>2. (count + 1) - 1 = count
    BY <1>1
  <2> QED
    BY <1>1, <1>2, <2>1, <2>2
<1>7. RingInv'
  <2>1. RingTypeOK'
    BY <1>1, <1>2, <1>3 DEF RingTypeOK
  <2>2. \A i \in 1..count' : Contents'[i] \in Items
    <3>1. \A i \in 1..count : Contents[i] \in Items
      BY DEF RingInv, WellFormed
    <3>2. \A i \in 1..count' : i \in 1..count \/ i = count + 1
      BY <1>1, <1>2
    <3> QED
      BY <1>5, <1>6, <3>1, <3>2
  <2> QED
    BY <1>2, <1>3, <2>1, <2>2 DEF RingInv, WellFormed
<1>8. /\ Contents' \in Seq(Items) /\ Len(Contents') = count + 1
      /\ Contents \in Seq(Items) /\ Len(Contents) = count
  <2>1. Contents' \in Seq(Items) /\ Len(Contents') = count'
    <3>1. count' \in Nat /\ \A i \in 1..count' : Contents'[i] \in Items
      BY <1>1, <1>2, <1>7 DEF RingInv, WellFormed
    <3>2. Contents' = [i \in 1..count' |-> Contents'[i]]
      BY DEF Contents
    <3>3. [i \in 1..count' |-> Contents'[i]] \in Seq(Items)
          /\ Len([i \in 1..count' |-> Contents'[i]]) = count'
      BY <3>1
    <3> QED
      BY <3>2, <3>3
  <2> QED
    BY <1>2, <2>1, ContentsType
<1>9. /\ Append(Contents, item) \in Seq(Items)
      /\ Len(Append(Contents, item)) = count + 1
      /\ \A i \in 1..count : Append(Contents, item)[i] = Contents[i]
      /\ Append(Contents, item)[count + 1] = item
  BY <1>1, <1>8
<1>10. \A i \in 1..Len(Contents') : Contents'[i] = Append(Contents, item)[i]
  <2>1. \A i \in 1..Len(Contents') : i \in 1..count \/ i = count + 1
    BY <1>1, <1>8
  <2> QED
    BY <1>5, <1>6, <1>9, <2>1
<1> QED
  BY <1>7, <1>8, <1>9, <1>10, SeqEqual

\* Push into a full buffer drops the first item and appends the new one.
LEMMA PushOverwrites ==
    ASSUME RingInv, NEW item \in Items, Push(item), count = Capacity
    PROVE  RingInv' /\ Contents' = Append(Tail(Contents), item)
<1>1. /\ count = Capacity /\ Capacity \in Nat \ {0}
      /\ tail \in Slots /\ head \in Slots /\ head = tail
      /\ buf \in [Slots -> Items \cup {Zero}]
  <2>1. /\ tail \in Slots /\ head = (tail + Capacity) % Capacity
        /\ head \in Slots /\ buf \in [Slots -> Items \cup {Zero}]
    BY DEF RingInv, RingTypeOK, WellFormed
  <2> QED
    BY <2>1, Lap, CapacityAssumption
<1>2. /\ buf' = [buf EXCEPT ![head] = item] /\ head' = (head + 1) % Capacity
      /\ count' = count /\ tail' = (tail + 1) % Capacity
  BY DEF Push
<1>3. /\ tail' \in Slots /\ head' = tail' /\ head' = (tail' + count') % Capacity
      /\ tail' = IF tail + 1 < Capacity THEN tail + 1 ELSE (tail + 1) - Capacity
  <2>1. 1 \in 0..Capacity
    BY <1>1
  <2> QED
    BY <1>1, <1>2, <2>1, Lap, Ahead DEF Slots
<1>a. tail' = IF tail + 1 < Capacity THEN tail + 1 ELSE (tail + 1) - Capacity
  BY <1>3
<1>4. ASSUME NEW i \in 1..(Capacity - 1)
      PROVE  /\ (tail' + (i - 1)) % Capacity = (tail + i) % Capacity
             /\ (tail + i) % Capacity \in Slots \ {head}
  <2>1. i - 1 \in 0..Capacity /\ i \in 0..Capacity
    BY <1>1
  <2>2. /\ (tail' + (i - 1)) % Capacity =
              IF tail' + (i - 1) < Capacity THEN tail' + (i - 1) ELSE (tail' + (i - 1)) - Capacity
        /\ (tail + i) % Capacity = IF tail + i < Capacity THEN tail + i ELSE (tail + i) - Capacity
    BY <1>1, <1>3, <2>1, Ahead
  <2>3. /\ tail \in Nat /\ tail < Capacity /\ i \in Nat /\ 1 <= i /\ i < Capacity
        /\ Capacity \in Nat
    BY <1>1 DEF Slots
  <2>4. CASE tail + 1 < Capacity
    <3>1. tail' = tail + 1 /\ tail' + (i - 1) = tail + i
      BY <1>a, <2>3, <2>4
    <3> QED
      BY <1>1, <2>2, <2>3, <3>1 DEF Slots
  <2>5. CASE ~(tail + 1 < Capacity)
    <3>1. tail' = 0 /\ tail = Capacity - 1
      BY <1>a, <2>3, <2>5
    <3>2. /\ (tail' + (i - 1)) % Capacity = i - 1
          /\ (tail + i) % Capacity = i - 1
      BY <2>2, <2>3, <3>1
    <3> QED
      BY <1>1, <2>3, <3>1, <3>2 DEF Slots
  <2> QED
    BY <2>4, <2>5
<1>5. \A i \in 1..(Capacity - 1) : Contents'[i] = Contents[i + 1]
  <2> SUFFICES ASSUME NEW i \in 1..(Capacity - 1)
               PROVE  Contents'[i] = Contents[i + 1]
    OBVIOUS
  <2>1. Contents'[i] = buf'[(tail' + (i - 1)) % Capacity]
    BY <1>1, <1>2 DEF Contents
  <2>2. Contents[i + 1] = buf[(tail + i) % Capacity]
    <3>1. i + 1 \in 1..count /\ (i + 1) - 1 = i
      BY <1>1
    <3> QED
      BY <3>1 DEF Contents
  <2> QED
    BY <1>1, <1>2, <1>4, <2>1, <2>2
<1>6. Contents'[Capacity] = item
  <2>1. Contents'[Capacity] = buf'[(tail' + (Capacity - 1)) % Capacity]
    BY <1>1, <1>2 DEF Contents
  <2>2. Capacity - 1 \in 0..Capacity
    BY <1>1
  <2>3. (tail' + (Capacity - 1)) % Capacity =
            IF tail' + (Capacity - 1) < Capacity THEN tail' + (Capacity - 1)
                                                 ELSE (tail' + (Capacity - 1)) - Capacity
    BY <1>3, <2>2, Ahead
  <2>4. (tail' + (Capacity - 1)) % Capacity = head
    <3>1. tail \in Nat /\ tail < Capacity /\ Capacity \in Nat
      BY <1>1 DEF Slots
    <3>2. CASE tail + 1 < Capacity
      <4>1. tail' = tail + 1
        BY <1>a, <3>2
      <4> QED
        BY <1>1, <2>3, <3>1, <4>1
    <3>3. CASE ~(tail + 1 < Capacity)
      <4>1. tail' = 0 /\ tail = Capacity - 1
        BY <1>a, <3>1, <3>3
      <4> QED
        BY <1>1, <2>3, <3>1, <4>1
    <3> QED
      BY <3>2, <3>3
  <2> QED
    BY <1>1, <1>2, <2>1, <2>4
<1>7. \A i \in 1..count' : Contents'[i] \in Items
  <2>1. \A i \in 1..count : Contents[i] \in Items
    BY DEF RingInv, WellFormed
  <2>2. \A i \in 1..Capacity :
           i = Capacity \/ (i \in 1..(Capacity - 1) /\ i + 1 \in 1..Capacity)
    BY <1>1
  <2> QED
    BY <1>1, <1>2, <1>5, <1>6, <2>1, <2>2
<1>8. RingInv'
  <2>1. RingTypeOK'
    BY <1>1, <1>2, <1>3 DEF RingTypeOK
  <2> QED
    BY <1>3, <1>7, <2>1 DEF RingInv, WellFormed
<1>9. Contents' \in Seq(Items) /\ Len(Contents') = Capacity
  <2>1. Contents' = [i \in 1..count' |-> Contents'[i]]
    BY DEF Contents
  <2>2. [i \in 1..count' |-> Contents'[i]] \in Seq(Items)
        /\ Len([i \in 1..count' |-> Contents'[i]]) = count'
    BY <1>1, <1>2, <1>7
  <2> QED
    BY <1>1, <1>2, <2>1, <2>2
<1>10. /\ Tail(Contents) \in Seq(Items) /\ Len(Tail(Contents)) = Capacity - 1
       /\ \A i \in 1..(Capacity - 1) : Tail(Contents)[i] = Contents[i + 1]
  <2>1. Contents \in Seq(Items) /\ Len(Contents) = Capacity /\ Contents # << >>
    BY <1>1, ContentsType, EmptySeq
  <2> QED
    BY <2>1, HeadTailProperties
<1>11. /\ Append(Tail(Contents), item) \in Seq(Items)
       /\ Len(Append(Tail(Contents), item)) = Capacity
       /\ \A i \in 1..(Capacity - 1) : Append(Tail(Contents), item)[i] = Contents[i + 1]
       /\ Append(Tail(Contents), item)[Capacity] = item
  BY <1>1, <1>10
<1>12. \A i \in 1..Len(Contents') : Contents'[i] = Append(Tail(Contents), item)[i]
  <2>1. \A i \in 1..Len(Contents') : i = Capacity \/ i \in 1..(Capacity - 1)
    BY <1>1, <1>9
  <2> QED
    BY <1>5, <1>6, <1>11, <2>1
<1> QED
  BY <1>8, <1>9, <1>11, <1>12, SeqEqual

\* Drain leaves nothing behind.
LEMMA DrainEmpties ==
    ASSUME RingInv, Drain
    PROVE  RingInv' /\ Contents' = << >>
<1>1. /\ count' = 0 /\ tail' = 0 /\ head' = 0 /\ buf' = buf
      /\ buf \in [Slots -> Items \cup {Zero}] /\ 0 \in Slots
  BY Lap DEF Drain, RingInv, RingTypeOK, Slots
<1>2. head' = (tail' + count') % Capacity
  BY <1>1, Lap
<1>3. RingInv'
  BY <1>1, <1>2, Lap DEF RingInv, RingTypeOK, WellFormed
<1>4. Contents' = [i \in 1..0 |-> buf'[(tail' + (i - 1)) % Capacity]]
  BY <1>1 DEF Contents
<1>5. 1..0 = {}
  OBVIOUS
<1> QED
  BY <1>3, <1>4, <1>5

\* A new buffer is empty and satisfies the invariant.
LEMMA InitEmpty == RingInit => RingInv /\ Contents = << >>
<1> SUFFICES ASSUME RingInit PROVE RingInv /\ Contents = << >>
  OBVIOUS
<1>1. 0 \in Slots /\ 0 \in 0..Capacity /\ (0 + 0) % Capacity = 0 /\ 1..0 = {}
  BY Lap DEF Slots
<1>2. RingInv
  BY <1>1 DEF RingInit, RingInv, RingTypeOK, WellFormed
<1>3. Contents = [i \in 1..0 |-> buf[(tail + (i - 1)) % Capacity]]
  BY DEF RingInit, Contents
<1> QED
  BY <1>1, <1>2, <1>3

----------------------------------------------------------------------------
\* A step of the buffer is a step of the queue.
LEMMA QueueStep == RingInv /\ [RingNext]_ringVars => RingInv' /\ [Queue!Next]_Contents
<1> SUFFICES ASSUME RingInv, [RingNext]_ringVars
             PROVE  RingInv' /\ [Queue!Next]_Contents
  OBVIOUS
<1>1. CASE Drain
  BY <1>1, DrainEmpties DEF Queue!Next, Queue!TakeAll
<1>2. ASSUME NEW item \in Items, Push(item)
      PROVE  RingInv' /\ Queue!Put(item)
  <2>1. Len(Contents) = count /\ (count < Capacity \/ count = Capacity)
    BY ContentsType, Lap DEF RingInv, RingTypeOK
  <2>2. CASE count < Capacity
    BY <1>2, <2>1, <2>2, PushAppends DEF Queue!Put
  <2>3. CASE count = Capacity
    <3>1. ~(Len(Contents) < Capacity)
      BY <2>1, <2>3, Lap
    <3> QED
      BY <1>2, <2>3, <3>1, PushOverwrites DEF Queue!Put
  <2> QED
    BY <2>1, <2>2, <2>3
<1>3. CASE UNCHANGED ringVars
  <2>1. Contents' = Contents
    BY <1>3 DEF ringVars, Contents
  <2> QED
    BY <1>3, <2>1 DEF ringVars, RingInv, RingTypeOK, WellFormed
<1> QED
  BY <1>1, <1>2, <1>3 DEF RingNext, Queue!Next

\* The positions stay within the array and the slot written next is the one
\* after the newest item, however pushes and drains interleave.
THEOREM BufferWellFormed == RingSpec => [](RingTypeOK /\ WellFormed)
<1>1. RingInv => RingTypeOK /\ WellFormed
  BY DEF RingInv
<1> QED
  BY InitEmpty, QueueStep, <1>1, PTL DEF RingSpec

\* The ring buffer implements the queue that drops its oldest item, whatever
\* its capacity: positions modulo the capacity lose, repeat and reorder nothing.
THEOREM BufferIsQueue == RingSpec => QueueSpec
<1>1. RingInit => Queue!Init
  BY InitEmpty DEF Queue!Init
<1> QED
  BY InitEmpty, QueueStep, <1>1, PTL DEF RingSpec, QueueSpec, Queue!Spec

-----------------------------------------------------------------------------
(* The ingest service: types, and what it leaves when it stops.            *)

\* The ring is well formed, so that what it holds are records.
TypeInv == TypeOK /\ WellFormed

\* Who is still at work, at each stage of the shutdown.
StopInv ==
    /\ mainPc \in {"stopHttp", "stopFlusher", "writing", "done"} => Idle(GrpcExports)
    /\ mainPc \in {"stopFlusher", "writing", "done"} => Idle(HttpExports)
    /\ mainPc \in {"writing", "done"} => loopPc = "exited" /\ count = 0
    /\ mainPc # "writing" => mainItems = << >>
    /\ loopPc # "writing" => loopItems = << >>

\* In a full ring the slot written next is the oldest item's.
LEMMA PushOverwritesOldest ==
    ASSUME RingInv, count = Capacity
    PROVE  buf[head] = Contents[1] /\ buf[head] \in Items
<1>0. tail \in Slots /\ head = (tail + Capacity) % Capacity
  BY DEF RingInv, RingTypeOK, WellFormed
<1>5. \A n \in Slots : (n + Capacity) % Capacity = n
  BY Lap
<1>1. head = tail
  <2>1. (tail + Capacity) % Capacity = tail
    BY <1>0, <1>5
  <2> QED
    BY <1>0, <2>1
<1>2. (tail + 0) % Capacity = tail /\ 1 \in 1..count
  <2>1. tail + 0 = tail /\ tail % Capacity = tail
    BY <1>0, Lap DEF Slots
  <2> QED
    BY <2>1, CapacityAssumption
<1>3. Contents[1] = buf[(tail + (1 - 1)) % Capacity]
  BY <1>2 DEF Contents
<1>4. Contents[1] \in Items
  BY <1>2, ContentsType
<1> QED
  BY <1>1, <1>2, <1>3, <1>4, Lap

LEMMA ItemsAreRecords == Items = Records /\ (RingInv => Contents \in Seq(Records) /\ Len(Contents) = count)
  BY RecordsAssumption, ContentsType

\* The types of the service around the ring.
ServiceTypeOK ==
    /\ handler \in [Exports -> {"waiting", "reading", "pushing", "answered"}]
    /\ pushed \in [Exports -> 0..Size]
    /\ loopPc \in {"select", "writing", "exited"}
    /\ loopItems \in Seq(Records)
    /\ mainPc \in {"serving", "stopGrpc", "stopHttp", "stopFlusher", "writing", "done"}
    /\ mainItems \in Seq(Records)
    /\ accepted \in Seq(Records)
    /\ overwritten \subseteq Records
    /\ written \in Seq(Records)
    /\ lost \subseteq Records

LEMMA TypesSplit == TypeInv <=> RingInv /\ ServiceTypeOK
  BY DEF TypeInv, TypeOK, RingInv, ServiceTypeOK

\* The ways a step touches the ring.
LEMMA RingStep ==
    ASSUME RingInv, [Next]_vars
    PROVE  \/ UNCHANGED ringVars
           \/ Tick \/ (FinalFlush /\ Drain)
           \/ \E e \in Exports : PushRecord(e)
<1>1. CASE UNCHANGED vars
  BY <1>1 DEF vars
<1>2. ASSUME FinalFlush PROVE Drain \/ UNCHANGED ringVars
  BY <1>2 DEF FinalFlush
<1>3. ASSUME NEW e \in Exports, Accept(e) \/ Receive(e) \/ Answer(e) PROVE UNCHANGED ringVars
  BY <1>3 DEF Accept, Receive, Answer
<1>4. ASSUME LoopWritten \/ LoopExit \/ Signal \/ GrpcStopped \/ HttpStopped \/ FinalWritten
      PROVE  UNCHANGED ringVars
  BY <1>4 DEF LoopWritten, LoopExit, Signal, GrpcStopped, HttpStopped, FinalWritten, Goto
<1> QED
  BY <1>1, <1>2, <1>3, <1>4 DEF Next, Handle, Flush, Stop

LEMMA RingKept == ASSUME RingInv, ServiceTypeOK, [Next]_vars PROVE RingInv'
<1>1. ASSUME NEW e \in Exports, PushRecord(e) PROVE RingInv'
  <2>1. <<e, pushed[e] + 1>> \in Items
    BY <1>1, RecordsAssumption DEF PushRecord, ServiceTypeOK, Records
  <2>2. count < Capacity \/ count = Capacity
    BY CapacityAssumption DEF RingInv, RingTypeOK
  <2> QED
    BY <1>1, <2>1, <2>2, PushAppends, PushOverwrites DEF PushRecord
<1>2. CASE UNCHANGED ringVars
  BY <1>2 DEF ringVars, RingInv, RingTypeOK, WellFormed, Contents
<1> QED
  BY <1>1, <1>2, RingStep, DrainEmpties DEF Tick

LEMMA WrittenTypes ==
    ASSUME ServiceTypeOK, NEW items \in Seq(Records), Written(items)
    PROVE  written' \in Seq(Records) /\ lost' \subseteq Records
<1>1. RangeOf(items) \subseteq Records
  BY LenProperties, ElementOfSeq DEF RangeOf
<1>2. written \o items \in Seq(Records)
  BY ConcatProperties DEF ServiceTypeOK
<1> QED
  BY <1>1, <1>2 DEF ServiceTypeOK, Written

LEMMA NewRecord ==
    ASSUME ServiceTypeOK, NEW e \in Exports, PushRecord(e)
    PROVE  /\ <<e, pushed[e] + 1>> \in Records /\ <<e, pushed[e] + 1>> \in Items
           /\ accepted' \in Seq(Records) /\ pushed' \in [Exports -> 0..Size]
           /\ accepted' = Append(accepted, <<e, pushed[e] + 1>>)
<1>1. <<e, pushed[e] + 1>> \in Records
  BY RecordsAssumption DEF PushRecord, ServiceTypeOK, Records
<1>2. accepted' = Append(accepted, <<e, pushed[e] + 1>>)
  BY DEF PushRecord
<1>3. pushed' \in [Exports -> 0..Size]
  BY RecordsAssumption DEF PushRecord, ServiceTypeOK
<1> QED
  BY <1>1, <1>2, <1>3, AppendProperties, RecordsAssumption DEF ServiceTypeOK

LEMMA ServiceTypesKept == ASSUME RingInv, ServiceTypeOK, [Next]_vars PROVE ServiceTypeOK'
<1>1. Contents \in Seq(Records) /\ << >> \in Seq(Records)
  BY ItemsAreRecords, EmptySeq
<1>2. ASSUME NEW e \in Exports, Accept(e) \/ Receive(e) \/ Answer(e) PROVE ServiceTypeOK'
  BY <1>2 DEF Accept, Receive, Answer, ServiceTypeOK, flushVars, mainVars, history, outcomeVars
<1>3. ASSUME NEW e \in Exports, PushRecord(e) PROVE ServiceTypeOK'
  <2>1. overwritten' \subseteq Records
    <3>1. count = Capacity => buf[head] \in Records
      BY PushOverwritesOldest, RecordsAssumption DEF RingInv
    <3> QED
      BY <1>3, <3>1 DEF PushRecord, ServiceTypeOK
  <2> QED
    BY <1>3, <2>1, NewRecord DEF PushRecord, ServiceTypeOK, flushVars, mainVars, outcomeVars
<1>4. ASSUME Tick \/ LoopExit \/ Signal \/ GrpcStopped \/ HttpStopped \/ FinalFlush PROVE ServiceTypeOK'
  BY <1>1, <1>4 DEF Tick, LoopExit, Signal, GrpcStopped, HttpStopped, FinalFlush, Goto, ServiceTypeOK,
                    handlerVars, flushVars, mainVars, history, outcomeVars
<1>5. ASSUME LoopWritten \/ FinalWritten PROVE ServiceTypeOK'
  <2>1. written' \in Seq(Records) /\ lost' \subseteq Records
    BY <1>5, WrittenTypes DEF LoopWritten, FinalWritten, ServiceTypeOK
  <2> QED
    BY <1>1, <1>5, <2>1 DEF LoopWritten, FinalWritten, ServiceTypeOK, handlerVars, flushVars, mainVars
<1>6. CASE UNCHANGED vars
  BY <1>6 DEF vars, ServiceTypeOK, handlerVars, flushVars, mainVars, history, outcomeVars
<1> QED
  BY <1>2, <1>3, <1>4, <1>5, <1>6 DEF Next, Handle, Flush, Stop

LEMMA IngestInit == Init => TypeInv /\ StopInv
  BY InitEmpty, EmptySeq, RecordsAssumption, TypesSplit DEF Init, ServiceTypeOK, StopInv

LEMMA TypesKept == ASSUME TypeInv, [Next]_vars PROVE TypeInv'
<1>1. RingInv' /\ ServiceTypeOK'
  BY TypesSplit, RingKept, ServiceTypesKept DEF TypeInv
<1> QED
  BY <1>1 DEF TypeInv, TypeOK, RingInv, ServiceTypeOK

LEMMA StopKept == ASSUME TypeInv, StopInv, [Next]_vars PROVE StopInv'
<1> USE TypesSplit, ExportsAssumption DEF ServiceTypeOK, StopInv, Idle, Exports
<1>1. ASSUME NEW e \in Exports, Accept(e) \/ Receive(e) \/ Answer(e) \/ PushRecord(e) PROVE StopInv'
  BY <1>1 DEF Accept, Receive, Answer, PushRecord, ringVars, flushVars, mainVars
<1>2. ASSUME Tick \/ LoopExit \/ LoopWritten PROVE StopInv'
  BY <1>2 DEF Tick, LoopExit, LoopWritten, handlerVars, mainVars, ringVars
<1>3. ASSUME Signal \/ GrpcStopped \/ HttpStopped PROVE StopInv'
  BY <1>3 DEF Signal, GrpcStopped, HttpStopped, Goto, handlerVars, flushVars, ringVars
<1>4. ASSUME FinalFlush \/ FinalWritten PROVE StopInv'
  BY <1>4 DEF FinalFlush, FinalWritten, Drain, handlerVars, flushVars, ringVars
<1>5. CASE UNCHANGED vars
  BY <1>5 DEF vars, handlerVars, flushVars, mainVars, ringVars
<1> QED
  BY <1>1, <1>2, <1>3, <1>4, <1>5 DEF Next, Handle, Flush, Stop

\* When main returns nothing is left behind: the servers have stopped before
\* the Flusher, and its goroutine has ended before the last flush.
THEOREM StopsClean == Spec => []StoppedClean
<1>1. TypeInv /\ StopInv => StoppedClean
  BY DEF StopInv, StoppedClean, Idle, Exports
<1>2. TypeInv /\ StopInv /\ [Next]_vars => (TypeInv /\ StopInv)'
  BY TypesKept, StopKept
<1> QED
  BY <1>1, <1>2, IngestInit, PTL DEF Spec
-----------------------------------------------------------------------------
(* Order and whereabouts of the records.                                   *)

\* Record a comes before record b in acc.
Before(a, b, acc) == \E p, q \in 1..Len(acc) : p < q /\ acc[p] = a /\ acc[q] = b

\* s are records among the first n of acc, in their order.
InOrderOf(s, acc, n) ==
    /\ \A i \in 1..Len(s) : \E p \in 1..n : s[i] = acc[p]
    /\ \A i, j \in 1..Len(s) : i < j => Before(s[i], s[j], acc)
Follows(s, t, acc) == \A i \in 1..Len(s), j \in 1..Len(t) : Before(s[i], t[j], acc)

\* No record is accepted twice, and the next of an export is a new one.
AcceptedOnce ==
    /\ \A i \in 1..Len(accepted) : accepted[i][2] <= pushed[accepted[i][1]]
    /\ \A i, j \in 1..Len(accepted) : accepted[i] = accepted[j] => i = j

RingHoldsTheLast ==
    /\ count <= Len(accepted)
    /\ \A i \in 1..count : Contents[i] = accepted[Len(accepted) - count + i]

\* A flush under way and what is in ClickHouse have left the ring, in order.
OrderInv ==
    /\ AcceptedOnce /\ RingHoldsTheLast
    /\ InOrderOf(written, accepted, Len(accepted) - count)
    /\ InOrderOf(loopItems, accepted, Len(accepted) - count)
    /\ InOrderOf(mainItems, accepted, Len(accepted) - count)
    /\ Follows(written, loopItems, accepted) /\ Follows(written, mainItems, accepted)

LEMMA AppendedOnce ==
    ASSUME ServiceTypeOK, AcceptedOnce, NEW e \in Exports, PushRecord(e)
    PROVE  /\ AcceptedOnce' /\ Len(accepted') = Len(accepted) + 1
           /\ \A i \in 1..Len(accepted) : accepted'[i] = accepted[i]
           /\ accepted'[Len(accepted) + 1] = <<e, pushed[e] + 1>>
           /\ \A i \in 1..Len(accepted) : accepted[i] # <<e, pushed[e] + 1>>
<1>1. /\ Len(accepted') = Len(accepted) + 1 /\ Len(accepted) \in Nat
      /\ \A i \in 1..Len(accepted) : accepted'[i] = accepted[i]
      /\ accepted'[Len(accepted) + 1] = <<e, pushed[e] + 1>>
  <2>1. /\ accepted \in Seq(Records) /\ <<e, pushed[e] + 1>> \in Records
        /\ accepted' = Append(accepted, <<e, pushed[e] + 1>>)
    BY NewRecord DEF ServiceTypeOK
  <2> HIDE DEF Records
  <2> QED
    BY <2>1, AppendProperties, LenProperties
<1>2. \A i \in 1..Len(accepted) : accepted[i] \in Records
  BY ElementOfSeq DEF ServiceTypeOK
<1>3. \A x \in Exports : pushed[x] \in Int /\ pushed'[x] = IF x = e THEN pushed[e] + 1 ELSE pushed[x]
  BY RecordsAssumption DEF ServiceTypeOK, PushRecord
<1>4. \A i \in 1..Len(accepted) : accepted[i] # <<e, pushed[e] + 1>>
  BY <1>2, <1>3 DEF AcceptedOnce, Records
<1>5. \A i \in 1..Len(accepted') : accepted'[i][2] <= pushed'[accepted'[i][1]]
  <2> TAKE i \in 1..Len(accepted')
  <2>1. CASE i = Len(accepted) + 1
    BY <1>1, <1>3, <2>1
  <2>2. CASE i \in 1..Len(accepted)
    <3>1. accepted[i][1] \in Exports /\ accepted[i][2] \in Int /\ accepted[i][2] <= pushed[accepted[i][1]]
      BY <1>2, <2>2, RecordsAssumption DEF AcceptedOnce, Records
    <3> QED
      BY <1>1, <1>3, <2>2, <3>1
  <2> QED
    BY <1>1, <2>1, <2>2
<1>6. \A i, j \in 1..Len(accepted') : accepted'[i] = accepted'[j] => i = j
  BY <1>1, <1>4 DEF AcceptedOnce
<1> QED
  BY <1>1, <1>4, <1>5, <1>6 DEF AcceptedOnce

Extends(longer, acc) ==
    /\ Len(acc) \in Nat /\ Len(longer) \in Nat /\ Len(acc) <= Len(longer)
    /\ \A i \in 1..Len(acc) : longer[i] = acc[i]

\* What is in order stays so when records are accepted and the ring gives some up.
LEMMA OrderGrows ==
    ASSUME NEW acc, NEW longer, Extends(longer, acc), NEW n \in Int, NEW m \in Int, n <= m, n <= Len(acc)
    PROVE  /\ \A a, b : Before(a, b, acc) => Before(a, b, longer)
           /\ \A s : InOrderOf(s, acc, n) => InOrderOf(s, longer, m)
           /\ \A s, t : Follows(s, t, acc) => Follows(s, t, longer)
<1>1. ASSUME NEW a, NEW b, Before(a, b, acc) PROVE Before(a, b, longer)
  <2>1. PICK p, q \in 1..Len(acc) : p < q /\ acc[p] = a /\ acc[q] = b
    BY <1>1 DEF Before
  <2>2. p \in 1..Len(longer) /\ q \in 1..Len(longer) /\ longer[p] = a /\ longer[q] = b
    BY <2>1 DEF Extends
  <2> QED
    BY <2>1, <2>2 DEF Before
<1>2. ASSUME NEW s, InOrderOf(s, acc, n) PROVE InOrderOf(s, longer, m)
  <2>1. \A i \in 1..Len(s) : \E p \in 1..m : s[i] = longer[p]
    <3> TAKE i \in 1..Len(s)
    <3>1. PICK p \in 1..n : s[i] = acc[p]
      BY <1>2 DEF InOrderOf
    <3>2. p \in 1..m /\ p \in 1..Len(acc)
      BY DEF Extends
    <3> QED
      BY <3>1, <3>2 DEF Extends
  <2> QED
    BY <1>1, <1>2, <2>1 DEF InOrderOf
<1> QED
  BY <1>1, <1>2 DEF Follows

LEMMA NothingInOrder ==
    ASSUME NEW acc, NEW n
    PROVE  /\ InOrderOf(<< >>, acc, n)
           /\ \A s : Follows(s, << >>, acc) /\ Follows(<< >>, s, acc)
  BY DEF InOrderOf, Follows

LEMMA Concatenated ==
    ASSUME NEW acc, NEW n, NEW s \in Seq(Records), NEW t \in Seq(Records),
           InOrderOf(s, acc, n), InOrderOf(t, acc, n), Follows(s, t, acc)
    PROVE  InOrderOf(s \o t, acc, n)
<1>1. /\ Len(s) \in Nat /\ Len(t) \in Nat /\ Len(s \o t) = Len(s) + Len(t)
      /\ \A i \in 1..Len(s) + Len(t) : (s \o t)[i] = IF i <= Len(s) THEN s[i] ELSE t[i - Len(s)]
  BY ConcatProperties, LenProperties
<1>2. \A i \in 1..Len(s \o t) :
         \/ i \in 1..Len(s) /\ (s \o t)[i] = s[i]
         \/ i - Len(s) \in 1..Len(t) /\ (s \o t)[i] = t[i - Len(s)]
  <2> TAKE i \in 1..Len(s \o t)
  <2>1. CASE i <= Len(s)
    BY <1>1, <2>1
  <2>2. CASE i > Len(s)
    BY <1>1, <2>2
  <2> QED
    BY <1>1, <2>1, <2>2
<1>3. \A i \in 1..Len(s \o t) : \E p \in 1..n : (s \o t)[i] = acc[p]
  <2> TAKE i \in 1..Len(s \o t)
  <2>1. CASE i \in 1..Len(s) /\ (s \o t)[i] = s[i]
    BY <2>1 DEF InOrderOf
  <2>2. CASE i - Len(s) \in 1..Len(t) /\ (s \o t)[i] = t[i - Len(s)]
    BY <2>2 DEF InOrderOf
  <2> QED
    BY <1>2, <2>1, <2>2
<1>4. \A i, j \in 1..Len(s \o t) : i < j => Before((s \o t)[i], (s \o t)[j], acc)
  <2> SUFFICES ASSUME NEW i \in 1..Len(s \o t), NEW j \in 1..Len(s \o t), i < j
               PROVE  Before((s \o t)[i], (s \o t)[j], acc)
    OBVIOUS
  <2>1. CASE j <= Len(s)
    <3>1. i \in 1..Len(s) /\ j \in 1..Len(s) /\ (s \o t)[i] = s[i] /\ (s \o t)[j] = s[j]
      BY <1>1, <2>1
    <3> QED
      BY <3>1 DEF InOrderOf
  <2>2. CASE i > Len(s)
    <3>1. /\ i - Len(s) \in 1..Len(t) /\ j - Len(s) \in 1..Len(t) /\ i - Len(s) < j - Len(s)
          /\ (s \o t)[i] = t[i - Len(s)] /\ (s \o t)[j] = t[j - Len(s)]
      BY <1>1, <2>2
    <3> QED
      BY <3>1 DEF InOrderOf
  <2>3. CASE i <= Len(s) /\ j > Len(s)
    <3>1. /\ i \in 1..Len(s) /\ j - Len(s) \in 1..Len(t)
          /\ (s \o t)[i] = s[i] /\ (s \o t)[j] = t[j - Len(s)]
      BY <1>1, <2>3
    <3> QED
      BY <3>1 DEF Follows
  <2> QED
    BY <1>1, <2>1, <2>2, <2>3
<1> QED
  BY <1>3, <1>4 DEF InOrderOf

\* What a push does to the ring, item by item.
LEMMA PushedRing ==
    ASSUME RingInv, ServiceTypeOK, NEW e \in Exports, PushRecord(e)
    PROVE  /\ count \in Nat /\ count' \in Nat /\ count' >= 1
           /\ count' = count + 1 \/ (count = Capacity /\ count' = count)
           /\ Contents'[count'] = <<e, pushed[e] + 1>>
           /\ count' = count + 1 => \A i \in 1..count : Contents'[i] = Contents[i]
           /\ count' = count => \A i \in 1..count - 1 : Contents'[i] = Contents[i + 1]
           /\ Len(Contents') = count'
<1> DEFINE r == <<e, pushed[e] + 1>>
<1>1. r \in Items /\ Push(r) /\ RingInv'
  <2>1. r \in Items /\ Push(r)
    BY NewRecord DEF PushRecord
  <2>2. count < Capacity \/ count = Capacity
    BY CapacityAssumption DEF RingInv, RingTypeOK
  <2> QED
    BY <2>1, <2>2, PushAppends, PushOverwrites
<1> HIDE DEF r
<1>2. Contents \in Seq(Items) /\ Len(Contents) = count /\ count \in Nat
  BY ContentsType
<1>4. CASE count < Capacity
  <2>1. count' = count + 1
    BY <1>1, <1>2, <1>4, CapacityAssumption DEF Push
  <2>2. Contents' = Append(Contents, r)
    BY <1>1, <1>4, PushAppends
  <2>3. /\ \A i \in 1..count : Contents'[i] = Contents[i]
        /\ Contents'[count + 1] = r /\ Len(Contents') = count + 1
    BY <1>1, <1>2, <2>2, AppendProperties
  <2> QED
    BY <1>2, <2>1, <2>3 DEF r
<1>5. CASE count = Capacity
  <2>1. count' = count /\ count >= 1
    BY <1>1, <1>2, <1>5, CapacityAssumption DEF Push
  <2>2. Contents' = Append(Tail(Contents), r)
    BY <1>1, <1>5, PushOverwrites
  <2>3. /\ Tail(Contents) \in Seq(Items) /\ Len(Tail(Contents)) = count - 1
        /\ \A i \in 1..count - 1 : Tail(Contents)[i] = Contents[i + 1]
    BY <1>2, <2>1, HeadTailProperties
  <2>4. /\ \A i \in 1..count - 1 : Contents'[i] = Contents[i + 1]
        /\ Contents'[count] = r /\ Len(Contents') = count
    BY <1>1, <1>2, <2>1, <2>2, <2>3, AppendProperties
  <2> QED
    BY <1>2, <1>5, <2>1, <2>4 DEF r
<1> QED
  BY <1>2, <1>4, <1>5, CapacityAssumption DEF RingInv, RingTypeOK

\* What is drained was in the ring, and is newer than what has left it before.
LEMMA DrainedInOrder ==
    ASSUME RingInv, ServiceTypeOK, OrderInv
    PROVE  /\ InOrderOf(Contents, accepted, Len(accepted))
           /\ \A s : InOrderOf(s, accepted, Len(accepted) - count) => Follows(s, Contents, accepted)
<1>1. /\ Len(Contents) = count /\ count \in Nat /\ Len(accepted) \in Nat /\ count <= Len(accepted)
      /\ \A i \in 1..count : Contents[i] = accepted[Len(accepted) - count + i]
  BY ContentsType, LenProperties DEF OrderInv, RingHoldsTheLast, ServiceTypeOK
<1>2. \A i \in 1..count : Len(accepted) - count + i \in 1..Len(accepted)
  BY <1>1
<1>3. \A i, j \in 1..count : i < j => Before(Contents[i], Contents[j], accepted)
  <2> SUFFICES ASSUME NEW i \in 1..count, NEW j \in 1..count, i < j
               PROVE  Before(Contents[i], Contents[j], accepted)
    OBVIOUS
  <2>1. Len(accepted) - count + i < Len(accepted) - count + j
    BY <1>1
  <2> QED
    BY <1>1, <1>2, <2>1 DEF Before
<1>4. ASSUME NEW s, InOrderOf(s, accepted, Len(accepted) - count), NEW i \in 1..Len(s), NEW j \in 1..count
      PROVE  Before(s[i], Contents[j], accepted)
  <2>1. PICK p \in 1..Len(accepted) - count : s[i] = accepted[p]
    BY <1>4 DEF InOrderOf
  <2>2. p \in 1..Len(accepted) /\ p < Len(accepted) - count + j
    BY <1>1, <2>1
  <2> QED
    BY <1>1, <1>2, <2>1, <2>2 DEF Before
<1> QED
  BY <1>1, <1>2, <1>3, <1>4 DEF InOrderOf, Follows

LEMMA OrderKept == ASSUME TypeInv, StopInv, OrderInv, [Next]_vars PROVE OrderInv'
<1> DEFINE N == Len(accepted)
<1>0. RingInv /\ ServiceTypeOK /\ N \in Nat /\ count \in Nat /\ count <= N
  BY TypesSplit, ContentsType, LenProperties DEF ServiceTypeOK, OrderInv, RingHoldsTheLast
<1>1. CASE UNCHANGED <<ringVars, accepted, pushed, written, loopItems, mainItems>>
  BY <1>1 DEF ringVars, OrderInv, AcceptedOnce, RingHoldsTheLast, Contents
<1>2. ASSUME NEW e \in Exports, PushRecord(e) PROVE OrderInv'
  <2>1. /\ AcceptedOnce' /\ Len(accepted') = N + 1
        /\ \A i \in 1..N : accepted'[i] = accepted[i]
        /\ accepted'[N + 1] = <<e, pushed[e] + 1>>
    BY <1>0, <1>2, AppendedOnce DEF OrderInv
  <2>2. /\ count' \in Nat /\ count' >= 1
        /\ count' = count + 1 \/ (count = Capacity /\ count' = count)
        /\ Contents'[count'] = <<e, pushed[e] + 1>>
        /\ count' = count + 1 => \A i \in 1..count : Contents'[i] = Contents[i]
        /\ count' = count => \A i \in 1..count - 1 : Contents'[i] = Contents[i + 1]
    BY <1>0, <1>2, PushedRing
  <2>3. UNCHANGED <<written, loopItems, mainItems>>
    BY <1>2 DEF PushRecord, flushVars, mainVars, outcomeVars
  <2>4. Extends(accepted', accepted)
    BY <1>0, <2>1 DEF Extends
  <2>5. N - count \in Int /\ N + 1 - count' \in Int /\ N - count <= N + 1 - count' /\ N - count <= N
    BY <1>0, <2>2
  <2>6. /\ InOrderOf(written, accepted', N + 1 - count')
        /\ InOrderOf(loopItems, accepted', N + 1 - count')
        /\ InOrderOf(mainItems, accepted', N + 1 - count')
        /\ Follows(written, loopItems, accepted') /\ Follows(written, mainItems, accepted')
    BY <2>4, <2>5, OrderGrows DEF OrderInv
  <2>8. Len(accepted') - count' = N + 1 - count' /\ Len(accepted') = N + 1
    BY <1>0, <2>1, <2>2
  <2>7. RingHoldsTheLast'
    <3>1. count' <= N + 1
      BY <1>0, <2>2
    <3>2. \A i \in 1..count : Contents[i] = accepted[N - count + i]
      BY DEF OrderInv, RingHoldsTheLast
    <3>3. ASSUME NEW i \in 1..count' PROVE Contents'[i] = accepted'[N + 1 - count' + i]
      <4>1. CASE i = count'
        <5>1. N + 1 - count' + i = N + 1
          BY <1>0, <2>2, <4>1
        <5> QED
          BY <2>1, <2>2, <4>1, <5>1
      <4>2. CASE i # count' /\ count' = count + 1
        <5>1. i \in 1..count /\ N - count + i \in 1..N /\ N + 1 - count' + i = N - count + i
          BY <1>0, <2>2, <4>2
        <5> QED
          BY <2>1, <2>2, <3>2, <4>2, <5>1
      <4>3. CASE i # count' /\ count' = count
        <5>1. /\ i \in 1..count - 1 /\ i + 1 \in 1..count /\ N - count + (i + 1) \in 1..N
              /\ N + 1 - count' + i = N - count + (i + 1)
          BY <1>0, <2>2, <4>3
        <5> QED
          BY <2>1, <2>2, <3>2, <4>3, <5>1
      <4> QED
        BY <2>2, <4>1, <4>2, <4>3
    <3> QED
      BY <2>8, <3>1, <3>3 DEF RingHoldsTheLast
  <2> QED
    BY <2>1, <2>3, <2>6, <2>7, <2>8 DEF OrderInv
\* A drain puts the whole ring into a flush.
<1>3. ASSUME Drain, UNCHANGED <<accepted, pushed, written>>,
             \/ loopItems' = Contents /\ mainItems' = mainItems
             \/ mainItems' = Contents /\ loopItems' = loopItems
      PROVE  OrderInv'
  <2>1. count' = 0
    BY <1>3 DEF Drain
  <2>2. Extends(accepted, accepted) /\ N - 0 = N /\ N - count \in Int /\ N \in Int /\ N - count <= N
    BY <1>0 DEF Extends
  <2>3. \A s : InOrderOf(s, accepted, N - count) => InOrderOf(s, accepted, N)
    BY <2>2, OrderGrows
  <2>4. InOrderOf(Contents, accepted, N) /\ Follows(written, Contents, accepted)
    BY <1>0, DrainedInOrder DEF OrderInv
  <2>5. AcceptedOnce' /\ RingHoldsTheLast'
    BY <1>0, <1>3, <2>1 DEF OrderInv, AcceptedOnce, RingHoldsTheLast
  <2> QED
    BY <1>3, <2>1, <2>2, <2>3, <2>4, <2>5 DEF OrderInv
\* A flush ends: with the records in ClickHouse, or without.
<1>4. ASSUME UNCHANGED <<ringVars, accepted, pushed>>,
             \/ loopItems' = << >> /\ UNCHANGED mainItems /\ Written(loopItems) /\ mainItems = << >>
             \/ mainItems' = << >> /\ UNCHANGED loopItems /\ Written(mainItems) /\ loopItems = << >>
      PROVE  OrderInv'
  <2>1. /\ written \in Seq(Records) /\ loopItems \in Seq(Records) /\ mainItems \in Seq(Records)
        /\ InOrderOf(written, accepted, N - count)
        /\ InOrderOf(loopItems, accepted, N - count) /\ InOrderOf(mainItems, accepted, N - count)
        /\ Follows(written, loopItems, accepted) /\ Follows(written, mainItems, accepted)
    BY <1>0 DEF OrderInv, ServiceTypeOK
  <2>2. InOrderOf(written', accepted, N - count)
    BY <1>4, <2>1, Concatenated DEF Written
  <2>3. AcceptedOnce' /\ RingHoldsTheLast' /\ count' = count
    BY <1>4 DEF OrderInv, AcceptedOnce, RingHoldsTheLast, Contents, ringVars
  <2>4. loopItems' = << >> /\ mainItems' = << >>
    BY <1>4
  <2>5. /\ InOrderOf(<< >>, accepted, N - count) /\ Follows(written', << >>, accepted)
    BY NothingInOrder
  <2> QED
    BY <1>4, <2>2, <2>3, <2>4, <2>5 DEF OrderInv
<1>5. ASSUME NEW e \in Exports, Accept(e) \/ Receive(e) \/ Answer(e)
      PROVE  UNCHANGED <<ringVars, accepted, pushed, written, loopItems, mainItems>>
  BY <1>5 DEF Accept, Receive, Answer, flushVars, mainVars, history, outcomeVars
<1>6. CASE Tick
  BY <1>3, <1>6 DEF Tick, handlerVars, mainVars, history, outcomeVars
<1>7. CASE FinalFlush
  BY <1>1, <1>3, <1>7 DEF FinalFlush, handlerVars, flushVars, history, outcomeVars
<1>8. CASE LoopWritten
  <2>1. mainItems = << >>
    BY <1>8 DEF LoopWritten, StopInv
  <2> QED
    BY <1>4, <1>8, <2>1 DEF LoopWritten, handlerVars, mainVars
<1>9. CASE FinalWritten
  <2>1. loopItems = << >>
    BY <1>9 DEF FinalWritten, StopInv
  <2> QED
    BY <1>4, <1>9, <2>1 DEF FinalWritten, handlerVars, flushVars
<1>10. ASSUME LoopExit \/ Signal \/ GrpcStopped \/ HttpStopped
       PROVE  UNCHANGED <<ringVars, accepted, pushed, written, loopItems, mainItems>>
  BY <1>10 DEF LoopExit, Signal, GrpcStopped, HttpStopped, Goto, handlerVars, flushVars, mainVars, history, outcomeVars
<1>11. CASE UNCHANGED vars
  BY <1>1, <1>11 DEF vars, handlerVars, flushVars, mainVars, history, outcomeVars
<1> QED
  BY <1>1, <1>2, <1>5, <1>6, <1>7, <1>8, <1>9, <1>10, <1>11 DEF Next, Handle, Flush, Stop

\* The accepted records are split between the ring, the two flushes, ClickHouse,
\* the lost and the overwritten.
Split(all, ring, loop, main, done, gone, over) ==
    /\ all = ring \cup loop \cup main \cup done \cup gone \cup over
    /\ ring \cap (loop \cup main \cup done \cup gone \cup over) = {}
    /\ loop \cap (main \cup done \cup gone \cup over) = {}
    /\ main \cap (done \cup gone \cup over) = {}
    /\ done \cap (gone \cup over) = {}
    /\ gone \cap over = {}

WhereInv == Split(RangeOf(accepted), RangeOf(Contents), RangeOf(loopItems), RangeOf(mainItems),
                  RangeOf(written), lost, overwritten)

LEMMA RangeFacts ==
    /\ RangeOf(<< >>) = {}
    /\ \A s, t \in Seq(Records) : RangeOf(s \o t) = RangeOf(s) \cup RangeOf(t)
<1>1. RangeOf(<< >>) = {}
  BY DEF RangeOf
<1>2. ASSUME NEW s \in Seq(Records), NEW t \in Seq(Records)
      PROVE  RangeOf(s \o t) = RangeOf(s) \cup RangeOf(t)
  <2>1. /\ Len(s) \in Nat /\ Len(t) \in Nat /\ Len(s \o t) = Len(s) + Len(t)
        /\ \A i \in 1..Len(s) + Len(t) : (s \o t)[i] = IF i <= Len(s) THEN s[i] ELSE t[i - Len(s)]
    BY ConcatProperties, LenProperties
  <2>2. ASSUME NEW i \in 1..Len(s \o t) PROVE (s \o t)[i] \in RangeOf(s) \cup RangeOf(t)
    <3>1. CASE i <= Len(s)
      <4>1. i \in 1..Len(s) /\ (s \o t)[i] = s[i]
        BY <2>1, <3>1
      <4> QED
        BY <4>1 DEF RangeOf
    <3>2. CASE i > Len(s)
      <4>1. i - Len(s) \in 1..Len(t) /\ (s \o t)[i] = t[i - Len(s)]
        BY <2>1, <3>2
      <4> QED
        BY <4>1 DEF RangeOf
    <3> QED
      BY <2>1, <3>1, <3>2
  <2>3. ASSUME NEW i \in 1..Len(s) PROVE s[i] \in RangeOf(s \o t)
    <3>1. i \in 1..Len(s \o t) /\ (s \o t)[i] = s[i]
      BY <2>1
    <3> QED
      BY <3>1 DEF RangeOf
  <2>4. ASSUME NEW i \in 1..Len(t) PROVE t[i] \in RangeOf(s \o t)
    <3>1. i + Len(s) \in 1..Len(s \o t) /\ (s \o t)[i + Len(s)] = t[(i + Len(s)) - Len(s)] /\ (i + Len(s)) - Len(s) = i
      BY <2>1
    <3> QED
      BY <3>1 DEF RangeOf
  <2> QED
    BY <2>2, <2>3, <2>4 DEF RangeOf
<1> QED
  BY <1>1, <1>2

\* No record is in the ring twice.
LEMMA RingHoldsOnce ==
    ASSUME RingInv, ServiceTypeOK, OrderInv
    PROVE  \A i, j \in 1..count : Contents[i] = Contents[j] => i = j
<1>1. /\ count \in Nat /\ Len(accepted) \in Nat /\ count <= Len(accepted)
      /\ \A i \in 1..count : Contents[i] = accepted[Len(accepted) - count + i]
  BY ContentsType, LenProperties DEF OrderInv, RingHoldsTheLast, ServiceTypeOK
<1> SUFFICES ASSUME NEW i \in 1..count, NEW j \in 1..count, Contents[i] = Contents[j] PROVE i = j
  OBVIOUS
<1>2. /\ Len(accepted) - count + i \in 1..Len(accepted) /\ Len(accepted) - count + j \in 1..Len(accepted)
      /\ accepted[Len(accepted) - count + i] = accepted[Len(accepted) - count + j]
  BY <1>1
<1>3. Len(accepted) - count + i = Len(accepted) - count + j
  BY <1>2 DEF OrderInv, AcceptedOnce
<1> QED
  BY <1>1, <1>3

\* A push puts a record that is nowhere yet into the ring; if the ring is full,
\* its oldest is overwritten.
LEMMA PushedWhere ==
    ASSUME RingInv, ServiceTypeOK, OrderInv, NEW e \in Exports, PushRecord(e)
    PROVE  \E r : /\ r \notin RangeOf(accepted) /\ RangeOf(accepted') = RangeOf(accepted) \cup {r}
                  /\ \/ overwritten' = overwritten /\ RangeOf(Contents') = RangeOf(Contents) \cup {r}
                     \/ \E o \in RangeOf(Contents) :
                           /\ overwritten' = overwritten \cup {o}
                           /\ RangeOf(Contents') = (RangeOf(Contents) \ {o}) \cup {r}
<1> DEFINE r == <<e, pushed[e] + 1>>
<1>1. /\ Len(accepted') = Len(accepted) + 1 /\ Len(accepted) \in Nat
      /\ \A i \in 1..Len(accepted) : accepted'[i] = accepted[i]
      /\ accepted'[Len(accepted) + 1] = r
      /\ \A i \in 1..Len(accepted) : accepted[i] # r
  BY AppendedOnce, LenProperties DEF OrderInv, ServiceTypeOK
<1>2. /\ count \in Nat /\ count' \in Nat /\ count' >= 1
      /\ count' = count + 1 \/ (count = Capacity /\ count' = count)
      /\ Contents'[count'] = r
      /\ count' = count + 1 => \A i \in 1..count : Contents'[i] = Contents[i]
      /\ count' = count => \A i \in 1..count - 1 : Contents'[i] = Contents[i + 1]
      /\ Len(Contents') = count'
  BY PushedRing
<1>3. Len(Contents) = count
  BY ContentsType
<1> HIDE DEF r
<1>4. r \notin RangeOf(accepted)
  BY <1>1 DEF RangeOf
<1>5. RangeOf(accepted') = RangeOf(accepted) \cup {r}
  <2>1. \A i \in 1..Len(accepted') : i \in 1..Len(accepted) \/ i = Len(accepted) + 1
    BY <1>1
  <2>2. Len(accepted) + 1 \in 1..Len(accepted') /\ \A i \in 1..Len(accepted) : i \in 1..Len(accepted')
    BY <1>1
  <2> QED
    BY <1>1, <2>1, <2>2 DEF RangeOf
<1>6. CASE count' = count + 1
  <2>1. \A i \in 1..count' : i \in 1..count \/ i = count'
    BY <1>2, <1>6
  <2>2. count' \in 1..count' /\ \A i \in 1..count : i \in 1..count'
    BY <1>2, <1>6
  <2>3. RangeOf(Contents') = RangeOf(Contents) \cup {r}
    BY <1>2, <1>3, <1>6, <2>1, <2>2 DEF RangeOf
  <2>4. count # Capacity
    <3>1. Capacity \in Nat /\ count <= Capacity
      BY CapacityAssumption DEF RingInv, RingTypeOK
    <3>2. count = Capacity => count' = count
      BY DEF PushRecord, Push
    <3> QED
      BY <1>2, <1>6, <3>2
  <2>5. overwritten' = overwritten
    BY <2>4 DEF PushRecord
  <2> QED
    BY <1>4, <1>5, <2>3, <2>5
<1>7. CASE count = Capacity /\ count' = count
  <2>1. 1 \in 1..count /\ Contents[1] \in RangeOf(Contents)
    BY <1>2, <1>3, <1>7 DEF RangeOf
  <2>2. overwritten' = overwritten \cup {Contents[1]}
    BY <1>7, PushOverwritesOldest DEF PushRecord
  <2>3. \A i \in 1..count : Contents[i] = Contents[1] => i = 1
    BY <2>1, RingHoldsOnce
  <2>4. \A i \in 1..count' : i = count' \/ (i \in 1..count - 1 /\ i + 1 \in 1..count /\ i + 1 # 1)
    BY <1>2, <1>7
  <2>5. \A i \in 1..count : i = 1 \/ (i - 1 \in 1..count - 1 /\ i - 1 \in 1..count' /\ (i - 1) + 1 = i)
    BY <1>2, <1>7
  <2>6. ASSUME NEW i \in 1..count' PROVE Contents'[i] \in (RangeOf(Contents) \ {Contents[1]}) \cup {r}
    <3>1. CASE i = count'
      BY <1>2, <3>1
    <3>2. CASE i \in 1..count - 1 /\ i + 1 \in 1..count /\ i + 1 # 1
      <4>1. Contents'[i] = Contents[i + 1] /\ Contents[i + 1] \in RangeOf(Contents)
        BY <1>2, <1>3, <1>7, <3>2 DEF RangeOf
      <4> QED
        BY <2>3, <3>2, <4>1
    <3> QED
      BY <2>4, <3>1, <3>2
  <2>7. ASSUME NEW i \in 1..count, Contents[i] # Contents[1] PROVE Contents[i] \in RangeOf(Contents')
    <3>1. i - 1 \in 1..count - 1 /\ i - 1 \in 1..count' /\ (i - 1) + 1 = i
      BY <2>5, <2>7
    <3>2. Contents'[i - 1] = Contents[i]
      BY <1>2, <1>7, <3>1
    <3> QED
      BY <1>2, <3>1, <3>2 DEF RangeOf
  <2>8. r \in RangeOf(Contents')
    BY <1>2 DEF RangeOf
  <2>9. RangeOf(Contents') = (RangeOf(Contents) \ {Contents[1]}) \cup {r}
    BY <1>2, <1>3, <2>6, <2>7, <2>8 DEF RangeOf
  <2> QED
    BY <1>4, <1>5, <2>1, <2>2, <2>9
<1> QED
  BY <1>2, <1>6, <1>7
\* Each way a step can move records from one place to another leaves them split.
LEMMA SplitMoves ==
    ASSUME NEW all, NEW ring, NEW loop, NEW main, NEW done, NEW gone, NEW over,
           Split(all, ring, loop, main, done, gone, over)
    PROVE  /\ \A r : r \notin all =>
                  /\ Split(all \cup {r}, ring \cup {r}, loop, main, done, gone, over)
                  /\ \A o \in ring :
                        Split(all \cup {r}, (ring \ {o}) \cup {r}, loop, main, done, gone, over \cup {o})
           /\ loop = {} => Split(all, {}, ring, main, done, gone, over)
           /\ main = {} => Split(all, {}, loop, ring, done, gone, over)
           /\ Split(all, ring, {}, main, done \cup loop, gone, over)
           /\ Split(all, ring, {}, main, done, gone \cup loop, over)
           /\ Split(all, ring, loop, {}, done \cup main, gone, over)
           /\ Split(all, ring, loop, {}, done, gone \cup main, over)
<1>1. ASSUME NEW r, r \notin all
      PROVE  Split(all \cup {r}, ring \cup {r}, loop, main, done, gone, over)
  BY <1>1, Zenon DEF Split
<1>2. ASSUME NEW r, r \notin all, NEW o \in ring
      PROVE  Split(all \cup {r}, (ring \ {o}) \cup {r}, loop, main, done, gone, over \cup {o})
  BY <1>2 DEF Split
<1>3. loop = {} => Split(all, {}, ring, main, done, gone, over)
  BY DEF Split
<1>4. main = {} => Split(all, {}, loop, ring, done, gone, over)
  BY DEF Split
<1>5. /\ Split(all, ring, {}, main, done \cup loop, gone, over)
      /\ Split(all, ring, {}, main, done, gone \cup loop, over)
  BY DEF Split
<1>6. /\ Split(all, ring, loop, {}, done \cup main, gone, over)
      /\ Split(all, ring, loop, {}, done, gone \cup main, over)
  BY DEF Split
<1> QED
  BY <1>1, <1>2, <1>3, <1>4, <1>5, <1>6

LEMMA WhereKept == ASSUME TypeInv, StopInv, OrderInv, WhereInv, [Next]_vars PROVE WhereInv'
<1>0. /\ RingInv /\ ServiceTypeOK
      /\ written \in Seq(Records) /\ loopItems \in Seq(Records) /\ mainItems \in Seq(Records)
      /\ Split(RangeOf(accepted), RangeOf(Contents), RangeOf(loopItems), RangeOf(mainItems),
               RangeOf(written), lost, overwritten)
  BY TypesSplit DEF ServiceTypeOK, WhereInv
<1>1. CASE UNCHANGED <<ringVars, accepted, loopItems, mainItems, written, lost, overwritten>>
  BY <1>1 DEF ringVars, WhereInv, Contents, RangeOf
<1>2. ASSUME NEW e \in Exports, PushRecord(e) PROVE WhereInv'
  <2>1. PICK r : /\ r \notin RangeOf(accepted) /\ RangeOf(accepted') = RangeOf(accepted) \cup {r}
                 /\ \/ overwritten' = overwritten /\ RangeOf(Contents') = RangeOf(Contents) \cup {r}
                    \/ \E o \in RangeOf(Contents) :
                          /\ overwritten' = overwritten \cup {o}
                          /\ RangeOf(Contents') = (RangeOf(Contents) \ {o}) \cup {r}
    BY <1>0, <1>2, PushedWhere
  <2>2. UNCHANGED <<written, loopItems, mainItems, lost>>
    BY <1>2 DEF PushRecord, flushVars, mainVars, outcomeVars
  <2>3. Split(RangeOf(accepted'), RangeOf(Contents'), RangeOf(loopItems), RangeOf(mainItems),
              RangeOf(written), lost, overwritten')
    <3> DEFINE all == RangeOf(accepted)
               ring == RangeOf(Contents)
               loop == RangeOf(loopItems)
               main == RangeOf(mainItems)
               done == RangeOf(written)
    <3>1. Split(all, ring, loop, main, done, lost, overwritten) /\ r \notin all
      BY <1>0, <2>1
    <3>2. /\ RangeOf(accepted') = all \cup {r}
          /\ \/ overwritten' = overwritten /\ RangeOf(Contents') = ring \cup {r}
             \/ \E o \in ring :
                   /\ overwritten' = overwritten \cup {o} /\ RangeOf(Contents') = (ring \ {o}) \cup {r}
      BY <2>1
    <3> HIDE DEF all, ring, loop, main, done
    <3>3. /\ Split(all \cup {r}, ring \cup {r}, loop, main, done, lost, overwritten)
          /\ \A o \in ring :
                Split(all \cup {r}, (ring \ {o}) \cup {r}, loop, main, done, lost, overwritten \cup {o})
      BY <3>1, SplitMoves
    <3>4. Split(RangeOf(accepted'), RangeOf(Contents'), loop, main, done, lost, overwritten')
      BY <3>2, <3>3
    <3> QED
      BY <3>4 DEF loop, main, done
  <2>4. RangeOf(accepted)' = RangeOf(accepted') /\ RangeOf(Contents)' = RangeOf(Contents')
    BY DEF RangeOf
  <2> QED
    BY <2>2, <2>3, <2>4 DEF WhereInv
<1>3. ASSUME Drain, UNCHANGED <<accepted, written, lost, overwritten>>,
             \/ loopItems = << >> /\ loopItems' = Contents /\ mainItems' = mainItems
             \/ mainItems = << >> /\ mainItems' = Contents /\ loopItems' = loopItems
      PROVE  WhereInv'
  <2>1. RangeOf(Contents') = {}
    <3>1. count' = 0
      BY <1>3 DEF Drain
    <3>2. Contents' = << >>
      BY <3>1 DEF Contents
    <3> QED
      BY <3>2, RangeFacts
  <2>2. RangeOf(<< >>) = {}
    BY RangeFacts
  <2>3. Split(RangeOf(accepted), {}, RangeOf(loopItems'), RangeOf(mainItems'),
              RangeOf(written), lost, overwritten)
    BY <1>0, <1>3, <2>2, SplitMoves
  <2> QED
    BY <1>3, <2>1, <2>3 DEF WhereInv, RangeOf
<1>4. ASSUME UNCHANGED <<ringVars, accepted, overwritten>>,
             \/ loopItems' = << >> /\ UNCHANGED mainItems /\ Written(loopItems)
             \/ mainItems' = << >> /\ UNCHANGED loopItems /\ Written(mainItems)
      PROVE  WhereInv'
  <2>1. /\ RangeOf(<< >>) = {}
        /\ RangeOf(written \o loopItems) = RangeOf(written) \cup RangeOf(loopItems)
        /\ RangeOf(written \o mainItems) = RangeOf(written) \cup RangeOf(mainItems)
    BY <1>0, RangeFacts
  <2>2. Contents' = Contents
    BY <1>4 DEF ringVars, Contents
  <2>3. Split(RangeOf(accepted), RangeOf(Contents), RangeOf(loopItems'), RangeOf(mainItems'),
              RangeOf(written'), lost', overwritten)
    <3> DEFINE all == RangeOf(accepted)
               ring == RangeOf(Contents)
               loop == RangeOf(loopItems)
               main == RangeOf(mainItems)
               done == RangeOf(written)
    <3>0. Split(all, ring, loop, main, done, lost, overwritten)
      BY <1>0
    <3>1. CASE loopItems' = << >> /\ UNCHANGED mainItems /\ Written(loopItems)
      <4>1. /\ RangeOf(loopItems') = {} /\ RangeOf(mainItems') = main
            /\ \/ RangeOf(written') = done \cup loop /\ lost' = lost
               \/ RangeOf(written') = done /\ lost' = lost \cup loop
        BY <2>1, <3>1 DEF Written
      <4> HIDE DEF all, ring, loop, main, done
      <4>2. /\ Split(all, ring, {}, main, done \cup loop, lost, overwritten)
            /\ Split(all, ring, {}, main, done, lost \cup loop, overwritten)
        BY <3>0, SplitMoves
      <4>3. Split(all, ring, RangeOf(loopItems'), RangeOf(mainItems'), RangeOf(written'), lost', overwritten)
        BY <4>1, <4>2
      <4> QED
        BY <4>3 DEF all, ring
    <3>2. CASE mainItems' = << >> /\ UNCHANGED loopItems /\ Written(mainItems)
      <4>1. /\ RangeOf(mainItems') = {} /\ RangeOf(loopItems') = loop
            /\ \/ RangeOf(written') = done \cup main /\ lost' = lost
               \/ RangeOf(written') = done /\ lost' = lost \cup main
        BY <2>1, <3>2 DEF Written
      <4> HIDE DEF all, ring, loop, main, done
      <4>2. /\ Split(all, ring, loop, {}, done \cup main, lost, overwritten)
            /\ Split(all, ring, loop, {}, done, lost \cup main, overwritten)
        BY <3>0, SplitMoves
      <4>3. Split(all, ring, RangeOf(loopItems'), RangeOf(mainItems'), RangeOf(written'), lost', overwritten)
        BY <4>1, <4>2
      <4> QED
        BY <4>3 DEF all, ring
    <3> QED
      BY <1>4, <3>1, <3>2
  <2>4. /\ RangeOf(loopItems)' = RangeOf(loopItems') /\ RangeOf(mainItems)' = RangeOf(mainItems')
        /\ RangeOf(written)' = RangeOf(written') /\ RangeOf(accepted)' = RangeOf(accepted)
        /\ RangeOf(Contents)' = RangeOf(Contents)
    BY <1>4, <2>2 DEF RangeOf
  <2> QED
    BY <1>4, <2>3, <2>4 DEF WhereInv
<1>5. ASSUME NEW e \in Exports, Accept(e) \/ Receive(e) \/ Answer(e)
      PROVE  UNCHANGED <<ringVars, accepted, loopItems, mainItems, written, lost, overwritten>>
  BY <1>5 DEF Accept, Receive, Answer, flushVars, mainVars, history, outcomeVars
<1>6. CASE Tick
  <2>1. loopItems = << >>
    BY <1>6 DEF Tick, StopInv
  <2> QED
    BY <1>3, <1>6, <2>1 DEF Tick, handlerVars, mainVars, history, outcomeVars
<1>7. CASE FinalFlush
  <2>1. mainItems = << >>
    BY <1>7 DEF FinalFlush, StopInv
  <2> QED
    BY <1>1, <1>3, <1>7, <2>1 DEF FinalFlush, handlerVars, flushVars, history, outcomeVars
<1>8. CASE LoopWritten
  BY <1>4, <1>8 DEF LoopWritten, handlerVars, mainVars
<1>9. CASE FinalWritten
  BY <1>4, <1>9 DEF FinalWritten, handlerVars, flushVars
<1>10. ASSUME LoopExit \/ Signal \/ GrpcStopped \/ HttpStopped
       PROVE  UNCHANGED <<ringVars, accepted, loopItems, mainItems, written, lost, overwritten>>
  BY <1>10 DEF LoopExit, Signal, GrpcStopped, HttpStopped, Goto, handlerVars, flushVars, mainVars, history, outcomeVars
<1>11. CASE UNCHANGED vars
  BY <1>1, <1>11 DEF vars, handlerVars, flushVars, mainVars, history, outcomeVars
<1> QED
  BY <1>1, <1>2, <1>5, <1>6, <1>7, <1>8, <1>9, <1>10, <1>11 DEF Next, Handle, Flush, Stop

LEMMA RecordsInit == Init => OrderInv /\ WhereInv
<1> SUFFICES ASSUME Init PROVE OrderInv /\ WhereInv
  OBVIOUS
<1>1. /\ accepted = << >> /\ written = << >> /\ loopItems = << >> /\ mainItems = << >>
      /\ lost = {} /\ overwritten = {} /\ count = 0
  BY DEF Init, RingInit
<1>2. Contents = << >>
  BY InitEmpty DEF Init
<1>3. AcceptedOnce /\ RingHoldsTheLast
  BY <1>1 DEF AcceptedOnce, RingHoldsTheLast
<1>4. OrderInv
  BY <1>1, <1>3, NothingInOrder DEF OrderInv
<1>5. WhereInv
  BY <1>1, <1>2, RangeFacts DEF WhereInv, Split
<1> QED
  BY <1>4, <1>5

LEMMA NewestHeld == TypeInv /\ OrderInv => RingIsNewest
<1> SUFFICES ASSUME TypeInv, OrderInv PROVE RingIsNewest
  OBVIOUS
<1> DEFINE N == Len(accepted)
           last == SubSeq(accepted, N - count + 1, N)
<1>1. /\ accepted \in Seq(Records) /\ N \in Nat
      /\ Contents \in Seq(Records) /\ Len(Contents) = count /\ count \in Nat /\ count <= N
      /\ \A i \in 1..count : Contents[i] = accepted[N - count + i]
  BY TypesSplit, ItemsAreRecords, ContentsType, LenProperties DEF ServiceTypeOK, OrderInv, RingHoldsTheLast
<1>2. \A i \in 1..N : accepted[i] \in Records
  BY <1>1, ElementOfSeq
<1>3. /\ last \in Seq(Records) /\ Len(last) = count
      /\ \A i \in 1..count : last[i] = accepted[N - count + i]
  <2>1. /\ N - count + 1 \in Int /\ N \in Int /\ N - (N - count + 1) + 1 = count
        /\ \A i \in (N - count + 1)..N : i \in 1..N
        /\ \A i \in 1..count : N - count + 1 + i - 1 = N - count + i
        /\ N - count + 1 <= N \/ count = 0
    BY <1>1
  <2>2. \A i \in (N - count + 1)..N : accepted[i] \in Records
    BY <1>2, <2>1
  <2> HIDE DEF Records
  <2>3. /\ last \in Seq(Records)
        /\ Len(last) = IF N - count + 1 <= N THEN N - (N - count + 1) + 1 ELSE 0
        /\ \A i \in 1..N - (N - count + 1) + 1 : last[i] = accepted[N - count + 1 + i - 1]
    BY <2>1, <2>2, SubSeqProperties
  <2> QED
    BY <1>1, <2>1, <2>3
<1> HIDE DEF last
<1>4. Contents = last
  BY <1>1, <1>3, SeqEqual
<1> QED
  BY <1>1, <1>4 DEF RingIsNewest, last

LEMMA WrittenInOrder == TypeInv /\ OrderInv => InOrder
<1> SUFFICES ASSUME TypeInv, OrderInv PROVE InOrder
  OBVIOUS
<1> DEFINE Place(r) == CHOOSE i \in 1..Len(accepted) : accepted[i] = r
<1>1. Len(accepted) \in Nat /\ Len(written) \in Nat
  BY TypesSplit, LenProperties DEF ServiceTypeOK
<1>2. ASSUME NEW p \in 1..Len(accepted) PROVE Place(accepted[p]) = p
  <2>1. \E i \in 1..Len(accepted) : accepted[i] = accepted[p]
    OBVIOUS
  <2>2. Place(accepted[p]) \in 1..Len(accepted) /\ accepted[Place(accepted[p])] = accepted[p]
    BY <2>1
  <2> QED
    BY <2>2 DEF OrderInv, AcceptedOnce
<1> HIDE DEF Place
<1>3. ASSUME NEW i \in 1..Len(written), NEW j \in 1..Len(written), i < j
      PROVE  Place(written[i]) < Place(written[j])
  <2>1. PICK p, q \in 1..Len(accepted) : p < q /\ accepted[p] = written[i] /\ accepted[q] = written[j]
    BY <1>3 DEF OrderInv, InOrderOf, Before
  <2> QED
    BY <1>2, <2>1
<1> QED
  BY <1>3 DEF InOrder, Place

LEMMA EachAccounted == WhereInv => Accounted
<1> SUFFICES ASSUME WhereInv, NEW r \in RangeOf(accepted)
             PROVE  Cardinality({p \in {<<"ring", RangeOf(Contents)>>, <<"loop", RangeOf(loopItems)>>,
                            <<"main", RangeOf(mainItems)>>, <<"written", RangeOf(written)>>,
                            <<"lost", lost>>, <<"overwritten", overwritten>>} : r \in p[2]}) = 1
  BY DEF Accounted
<1> DEFINE places == {<<"ring", RangeOf(Contents)>>, <<"loop", RangeOf(loopItems)>>,
                      <<"main", RangeOf(mainItems)>>, <<"written", RangeOf(written)>>,
                      <<"lost", lost>>, <<"overwritten", overwritten>>}
           holding == {p \in places : r \in p[2]}
<1>1. Split(RangeOf(accepted), RangeOf(Contents), RangeOf(loopItems), RangeOf(mainItems),
            RangeOf(written), lost, overwritten)
  BY DEF WhereInv
<1>2. \E p \in places : r \in p[2]
  <2>1. \/ r \in RangeOf(Contents) \/ r \in RangeOf(loopItems) \/ r \in RangeOf(mainItems)
        \/ r \in RangeOf(written) \/ r \in lost \/ r \in overwritten
    BY <1>1 DEF Split
  <2> QED
    BY <2>1
<1>3. \A p, q \in places : r \in p[2] /\ r \in q[2] => p = q
  BY <1>1 DEF Split
<1>4. PICK p \in places : holding = {p}
  BY <1>2, <1>3
<1> HIDE DEF holding, places
<1>5. Cardinality(holding) = 1
  BY <1>4, FS_Singleton
<1> QED
  BY <1>5 DEF holding, places

\* Whatever the handlers, the Flusher's goroutine and main do in whatever order,
\* the ring of the ingest service keeps the newest records, ClickHouse gets the
\* records in the order of their acceptance and none twice, and every accepted
\* record is in exactly one place.
THEOREM EventsKeptAlways == Spec => []EventsKept
<1> DEFINE IInv == TypeInv /\ StopInv /\ OrderInv /\ WhereInv
<1>1. Init => IInv
  BY IngestInit, RecordsInit
<1>2. IInv /\ [Next]_vars => IInv'
  BY TypesKept, StopKept, OrderKept, WhereKept
<1>3. IInv => EventsKept
  BY NewestHeld, WrittenInOrder, EachAccounted DEF EventsKept, TypeInv
<1> QED
  BY <1>1, <1>2, <1>3, PTL DEF Spec
=============================================================================
