------------------------------ MODULE TokenFifo ------------------------------
(***************************************************************************)
(* What a buffer of tokens is for: tokens go in at the end and come out at  *)
(* the front.                                                               *)
(***************************************************************************)
EXTENDS Integers, Sequences

VARIABLE queue

(* Some tokens more, behind those that are there.                           *)
Put ==
    /\ Len(queue') > Len(queue)
    /\ \A i \in 1..Len(queue) : queue'[i] = queue[i]

Get == queue # <<>> /\ queue' = Tail(queue)

Spec == queue = <<>> /\ [][Put \/ Get]_queue
=============================================================================
