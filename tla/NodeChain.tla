------------------------------ MODULE NodeChain ------------------------------
(***************************************************************************)
(* The chains of list.c.  A heap maps the address of each node that is     *)
(* allocated to its record, of which the fields next and prev belong to    *)
(* the chain; containerOf is a change of type and leaves no trace.         *)
(***************************************************************************)
EXTENDS Integers, SequencesExt

CONSTANT NULL   \* null pointer

\* A null node has no neighbours.
listNodeNext(h, n) == IF n = NULL THEN NULL ELSE h[n].next
listNodePrev(h, n) == IF n = NULL THEN NULL ELSE h[n].prev

\* The nodes that are met on the way from n.  A chain that ends visits no node
\* twice, so that a way as long as the heap is long enough; it stops at an
\* address that is not allocated.
Chain(h, n) ==
  LET way[i \in 1..(Cardinality(DOMAIN h) + 1)] ==
        IF i = 1 THEN n
        ELSE LET a == way[i - 1] IN IF a \in DOMAIN h THEN h[a].next ELSE NULL
      met == {i \in DOMAIN way : way[i] # NULL}
  IN [i \in 1..Cardinality(met) |-> way[i]]

listNodeTail(h, n) == Last(Chain(h, n))

\* In the middle of a chain the nodes are not made to point back.
listNodeInsert(h, head, n) ==
  IF h[head].next = NULL
  THEN [h EXCEPT ![head].next = n, ![n].prev = head]
  ELSE [h EXCEPT ![head].next = n, ![n].next = h[head].next]

listNodeAppend(h, head, n) == listNodeInsert(h, listNodeTail(h, head), n)

\* The neighbours of a node are joined, and the node is left alone.
listNodeDelete(h, n) ==
  LET left  == IF h[n].prev = NULL THEN h
               ELSE [h EXCEPT ![h[n].prev].next = h[n].next]
      right == IF h[n].next = NULL THEN left
               ELSE [left EXCEPT ![h[n].next].prev = h[n].prev]
  IN [right EXCEPT ![n].next = NULL, ![n].prev = NULL]

\* The first node of the chain of head of which cmpOp is true.
listNodeSearch(h, head, cmpOp) ==
  LET chain == Chain(h, head)
      found == {i \in DOMAIN chain : cmpOp[chain[i]]}
  IN IF found = {} THEN NULL ELSE chain[Min(found)]
=============================================================================
