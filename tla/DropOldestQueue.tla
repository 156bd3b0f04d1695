-------------------------- MODULE DropOldestQueue --------------------------
(***************************************************************************)
(* What Scope's RingBuffer promises (scope/backend buffer/ring.go, line 5): *)
(* a queue of at most Capacity items that drops the oldest one when an     *)
(* item is put into a full queue, and hands out all its items at once.     *)
(***************************************************************************)
EXTENDS Sequences, Naturals

CONSTANTS Items, Capacity

VARIABLE queue

Init == queue = << >>

Put(item) ==
    queue' = Append(IF Len(queue) < Capacity THEN queue ELSE Tail(queue), item)

TakeAll == queue' = << >>

Next == TakeAll \/ \E item \in Items : Put(item)

Spec == Init /\ [][Next]_queue
=============================================================================
