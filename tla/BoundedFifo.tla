----------------------------- MODULE BoundedFifo -----------------------------
(***************************************************************************)
(* What the queue of table rows promises: first in, first out, and refusal *)
(* of what does not fit.                                                   *)
(***************************************************************************)
EXTENDS Naturals, Sequences

CONSTANTS Data, Capacity,
          NULL   \* what getQueue returns when there is nothing

VARIABLES fifo, got   \* the elements in the queue, the last one taken

Init == fifo = <<>> /\ got = NULL

\* The queue after appendQueue, whose result nobody looks at.
Accepted(queue, d) == IF Len(queue) = Capacity THEN queue ELSE Append(queue, d)

Put(d) == fifo' = Accepted(fifo, d) /\ UNCHANGED got

Take ==
  \/ fifo = <<>> /\ got' = NULL /\ UNCHANGED fifo
  \/ fifo # <<>> /\ got' = Head(fifo) /\ fifo' = Tail(fifo)

Next == Take \/ \E d \in Data : Put(d)

Spec == Init /\ [][Next]_<<fifo, got>>
=============================================================================
