------------------------------ MODULE RingQueue ------------------------------
(***************************************************************************)
(* queue.c: the ring of rows that wait for their table.  One place of the  *)
(* ring is never used, which tells a full ring from an empty one.          *)
(***************************************************************************)
EXTENDS Integers, Sequences

CONSTANTS
  Data,            \* rows
  SIZE_OF_QUEUE,   \* places of the ring, 512
  NONE             \* no row

ASSUME RingAssumption == SIZE_OF_QUEUE \in Nat \ {0} /\ NONE \notin Data

VARIABLES
  head, tail, count,   \* indices, and what latexTable takes for the length
  tableBuffer,
  got                  \* what getQueue returned last

ringVars == <<head, tail, count, tableBuffer, got>>

Places == 0..(SIZE_OF_QUEUE - 1)

\* infoQueue is static: all zero.
RingInit ==
  /\ head = 0 /\ tail = 0 /\ count = 0
  /\ tableBuffer = [i \in Places |-> NONE]
  /\ got = NONE

Qnext(i) == IF i = SIZE_OF_QUEUE - 1 THEN 0 ELSE i + 1

\* Slip: the last place is used as well.
isQueueFull_Late == count = SIZE_OF_QUEUE

isQueueFull == Qnext(tail) = head

isQueueEmpty == head = tail

appendQueue(d) ==
  \/ isQueueFull /\ UNCHANGED ringVars
  \/ /\ ~isQueueFull
     /\ tableBuffer' = [tableBuffer EXCEPT ![tail] = d]
     /\ tail' = Qnext(tail) /\ count' = count + 1
     /\ UNCHANGED <<head, got>>

\* Slip: the row is taken and not uncounted.
getQueue_NotCounted ==
  \/ isQueueEmpty /\ got' = NONE /\ UNCHANGED <<head, tail, count, tableBuffer>>
  \/ /\ ~isQueueEmpty
     /\ got' = tableBuffer[head] /\ head' = Qnext(head)
     /\ UNCHANGED <<tail, count, tableBuffer>>

getQueue ==
  \/ isQueueEmpty /\ got' = NONE /\ UNCHANGED <<head, tail, count, tableBuffer>>
  \/ /\ ~isQueueEmpty
     /\ got' = tableBuffer[head] /\ head' = Qnext(head) /\ count' = count - 1
     /\ UNCHANGED <<tail, tableBuffer>>

RingNext == getQueue \/ \E d \in Data : appendQueue(d)

RingSpec == RingInit /\ [][RingNext]_ringVars
-----------------------------------------------------------------------------
\* How many places from head to tail, and the i-th of them.
Length == IF head <= tail THEN tail - head ELSE SIZE_OF_QUEUE - head + tail

At(i) == IF head + i < SIZE_OF_QUEUE THEN head + i ELSE head + i - SIZE_OF_QUEUE

\* The rows in the ring, the oldest first.
Content == [i \in 1..Length |-> tableBuffer[At(i - 1)]]

\* The types, and rows in every place from head to tail.
RingTypeOK ==
  /\ head \in Places /\ tail \in Places
  /\ tableBuffer \in [Places -> Data \cup {NONE}]
  /\ got \in Data \cup {NONE}
  /\ \A i \in 0..(Length - 1) : tableBuffer[At(i)] \in Data

CountTrue == count = Length

\* Every place from head to tail holds a row, and count, by which latexTable takes
\* rows out, is how many there are: it never gets a place that was not written.
RingTrue == RingTypeOK /\ CountTrue

\* The ring is a queue of SIZE_OF_QUEUE - 1 rows.
Fifo == INSTANCE BoundedFifo WITH Capacity <- SIZE_OF_QUEUE - 1, NULL <- NONE,
                                fifo <- Content

IsFifo == Fifo!Spec
=============================================================================
