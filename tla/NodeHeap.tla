------------------------------ MODULE NodeHeap ------------------------------
(***************************************************************************)
(* The memory in which the clients of list.c keep their nodes.  Addresses  *)
(* that malloc hands out are numbered and never used twice.                *)
(***************************************************************************)
EXTENDS NodeChain

CONSTANT Given   \* what is put in the n-th node, if it is not a copy

ASSUME NodeAssumption == NULL \notin Nat

MaxNodes == Len(Given)   \* nodes allocated in all

VARIABLES
  heap,        \* the nodes that are allocated
  allocated,   \* how many have ever been
  answer       \* what the last call returned

With(h, n, record) == [a \in DOMAIN h \cup {n} |-> IF a = n THEN record ELSE h[a]]
Free(h, nodes)     == Restrict(h, DOMAIN h \ nodes)

\* The n-th node that is yet to be allocated, if there is memory for it.
Fresh(n)  == allocated + n
Memory(n) == allocated + n <= MaxNodes
=============================================================================
