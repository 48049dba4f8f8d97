------------------------------ MODULE HashBucket ------------------------------
(***************************************************************************)
(* A bucket of hash.c: one element of its own, the head, and a chain of    *)
(* the other keys that fall into it, and what the operations of a map do   *)
(* to it.  isEqual, which the key brings along, is taken for equality.     *)
(***************************************************************************)
EXTENDS Integers, SequencesExt

CONSTANTS
  Keys,
  size,       \* number of buckets
  hashFunc,   \* a number for each key
  NULL        \* null pointer

ASSUME HashAssumption ==
  size \in Nat \ {0} /\ hashFunc \in [Keys -> Nat] /\ NULL \notin Keys

Index == 0..(size - 1)
Slot(k) == hashFunc[k] % size

\* hashMapConstruct of the hundred buckets of collectInfoInit, or of fewer.
Empty == [i \in Index |-> [used |-> FALSE, collide |-> FALSE,
                           key |-> NULL, val |-> NULL, chain |-> <<>>]]

hashChainSearch(chain, k) == {j \in DOMAIN chain : chain[j].key = k}

Stored(e, k) == e.key = k \/ hashChainSearch(e.chain, k) # {}

\* Slip: the bucket is not marked.
Chained_Unmarked(e, k, v) ==
  [e EXCEPT !.chain = Append(@, [key |-> k, val |-> v])]

Chained(e, k, v) ==
  [e EXCEPT !.collide = TRUE, !.chain = Append(@, [key |-> k, val |-> v])]

\* hashMapPut into a bucket that is not used.
Filled(e, k, v) == [e EXCEPT !.used = TRUE, !.key = k, !.val = v]

\* What hashMapGet finds.
Got(e, k) ==
  IF e.key = NULL THEN NULL
  ELSE IF e.key = k THEN e.val
  ELSE IF e.collide /\ hashChainSearch(e.chain, k) # {}
  THEN e.chain[CHOOSE j \in hashChainSearch(e.chain, k) : TRUE].val
  ELSE NULL

\* Slip: the whole chain goes with its first node.
Unchained_All(e, k) == [e EXCEPT !.chain = <<>>]

\* hashChainDelete of the node that hashChainSearch finds.
Unchained(e, k) ==
  [e EXCEPT !.chain = RemoveAt(@, CHOOSE j \in hashChainSearch(e.chain, k) : TRUE)]

\* Slip: the bucket is free again.
Beheaded_Freed(e) == [e EXCEPT !.used = FALSE, !.key = NULL, !.val = NULL]

Beheaded(e) == [e EXCEPT !.key = NULL, !.val = NULL]

-----------------------------------------------------------------------------
\* Everything in a bucket, whether hashMapGet finds it or not.
BucketPairs(e) ==
  {e.chain[j] : j \in DOMAIN e.chain} \cup
    IF e.key = NULL THEN {} ELSE {[key |-> e.key, val |-> e.val]}
=============================================================================
