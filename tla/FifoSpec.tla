------------------------------ MODULE FifoSpec ------------------------------
(***************************************************************************)
(* What prim_fifo_sync.sv and prim_fifo_async.sv promise in their headers: *)
(* a queue of bounded capacity; nothing is lost, duplicated or reordered,  *)
(* and a push and a pop may fall together.                                 *)
(***************************************************************************)
EXTENDS Integers, Sequences

CONSTANTS Values, Capacity

VARIABLE queue

FifoInit == queue = <<>>

FifoNext ==
  \E pushed \in {<<>>} \cup {<<x>> : x \in Values}, popped \in 0 .. 1 :
    /\ popped <= Len(queue) /\ Len(queue) + Len(pushed) <= Capacity
    /\ queue' = SubSeq(queue, popped + 1, Len(queue)) \o pushed

Fifo == FifoInit /\ [][FifoNext]_queue
=============================================================================
