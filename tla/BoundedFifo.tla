----------------------------- MODULE BoundedFifo -----------------------------
(***************************************************************************)
(* What the event queue of the process kernel promises: events come out in *)
(* the order in which they went in, none of them is lost, duplicated or    *)
(* overwritten, and never more than Capacity are waiting.                  *)
(***************************************************************************)
EXTENDS Integers, Sequences

CONSTANTS Element, Capacity

VARIABLE queue

Init == queue = << >>

Enqueue == /\ Len(queue) < Capacity
           /\ \E e \in Element : queue' = Append(queue, e)

Dequeue == /\ queue # << >>
           /\ queue' = Tail(queue)

Next == Enqueue \/ Dequeue

Spec == Init /\ [][Next]_queue
=============================================================================
