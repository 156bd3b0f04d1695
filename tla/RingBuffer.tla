----------------------------- MODULE RingBuffer -----------------------------
(***************************************************************************)
(* Scope's RingBuffer (scope/backend/internal/buffer/ring.go): an array,   *)
(* the slot written next, the slot of the oldest item, and the number of   *)
(* items.  Its mutex makes each method one step.                           *)
(***************************************************************************)
EXTENDS Integers, Sequences

CONSTANTS
    Items,      \* what is buffered
    Zero,       \* the zero value an unused slot holds
    Capacity    \* cap

ASSUME CapacityAssumption == Capacity \in Nat \ {0}

VARIABLES buf, head, tail, count

ringVars == <<buf, head, tail, count>>

Slots == 0..(Capacity - 1)

\* NewRingBuffer.
RingInit ==
    /\ buf = [s \in Slots |-> Zero]
    /\ head = 0
    /\ tail = 0
    /\ count = 0

\* The items in the order in which Drain returns them.
Contents == [i \in 1..count |-> buf[(tail + (i - 1)) % Capacity]]

\* Mutant: the oldest item is not given up when the buffer is full.
PushKeepsTail(item) ==
    /\ buf' = [buf EXCEPT ![head] = item]
    /\ head' = (head + 1) % Capacity
    /\ count' = IF count = Capacity THEN count ELSE count + 1
    /\ UNCHANGED tail

\* Mutant: the count goes on beyond the capacity.
PushAlwaysCounts(item) ==
    /\ buf' = [buf EXCEPT ![head] = item]
    /\ head' = (head + 1) % Capacity
    /\ count' = count + 1
    /\ tail' = IF count >= Capacity THEN (tail + 1) % Capacity ELSE tail

\* The slot written next is overwritten; if every slot holds an item it was the
\* oldest one's.
Push(item) ==
    /\ buf' = [buf EXCEPT ![head] = item]
    /\ head' = (head + 1) % Capacity
    /\ IF count = Capacity
       THEN tail' = (tail + 1) % Capacity /\ UNCHANGED count
       ELSE count' = count + 1 /\ UNCHANGED tail

\* Mutant: the position of the oldest item survives a drain.
DrainKeepsTail ==
    /\ count > 0
    /\ head' = 0 /\ count' = 0
    /\ UNCHANGED <<buf, tail>>

\* Drain returns Contents; an empty buffer is left alone.
Drain ==
    /\ count > 0
    /\ head' = 0 /\ tail' = 0 /\ count' = 0
    /\ UNCHANGED buf

RingNext == Drain \/ \E item \in Items : Push(item)

RingSpec == RingInit /\ [][RingNext]_ringVars

----------------------------------------------------------------------------
\* The positions are slots and the count is within the capacity.
RingTypeOK ==
    /\ buf \in [Slots -> Items \cup {Zero}]
    /\ head \in Slots
    /\ tail \in Slots
    /\ count \in 0..Capacity

\* The slot written next follows the newest item, and no slot that holds an
\* item still has its zero value.
WellFormed ==
    /\ head = (tail + count) % Capacity
    /\ \A i \in 1..count : Contents[i] \in Items

Queue == INSTANCE DropOldestQueue WITH queue <- Contents

\* The buffer is a queue that drops its oldest item: Push and Drain, which turn
\* the positions modulo the capacity, do to Contents what the queue promises.
QueueSpec == Queue!Spec
=============================================================================
