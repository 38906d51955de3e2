-------------------------------- MODULE Fifo --------------------------------
(***************************************************************************)
(* What an SPSC queue promises its two threads: messages, numbered in the  *)
(* order they are sent, are taken out exactly once and in that order, and  *)
(* at most Capacity of them wait at any time.                              *)
(***************************************************************************)
EXTENDS Naturals, Sequences

CONSTANT Capacity

VARIABLES
    queue,      \* the messages waiting, oldest first
    delivered   \* the messages taken out, in the order they were taken

vars == <<queue, delivered>>

Init ==
    /\ queue = << >>
    /\ delivered = << >>

\* Messages are numbered from 1: the next one follows all those seen so far.
Enqueue ==
    /\ Len(queue) < Capacity
    /\ queue' = Append(queue, Len(delivered) + Len(queue) + 1)
    /\ UNCHANGED delivered

Dequeue ==
    /\ queue # << >>
    /\ queue' = Tail(queue)
    /\ delivered' = Append(delivered, Head(queue))

Next == Enqueue \/ Dequeue

Spec == Init /\ [][Next]_vars
=============================================================================
