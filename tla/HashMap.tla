------------------------------- MODULE HashMap -------------------------------
(***************************************************************************)
(* hash.c: a map of buckets.  It holds the options and, for each import,   *)
(* the symbols that are wanted.                                            *)
(***************************************************************************)
EXTENDS HashBucket

CONSTANT Vals

ASSUME ValsAssumption == NULL \notin Vals

VARIABLES
  space,     \* the buckets: used, collide, key and val of the head, chain
  result,    \* what the last call returned
  crashed    \* a null key was asked for its isEqual

vars == <<space, result, crashed>>

\* hashMapConstruct
Init == space = Empty /\ result = NULL /\ crashed = FALSE
-----------------------------------------------------------------------------
hashMapPut(k, v) ==
  LET e == space[Slot(k)] IN
  \/ /\ e.used /\ e.key = NULL
     /\ crashed' = TRUE /\ UNCHANGED <<space, result>>
  \/ /\ e.used /\ e.key # NULL /\ Stored(e, k)
     /\ result' = FALSE /\ UNCHANGED <<space, crashed>>
  \/ /\ e.used /\ e.key # NULL /\ ~Stored(e, k)
     /\ space' = [space EXCEPT ![Slot(k)] = Chained(e, k, v)]
     /\ result' = TRUE /\ UNCHANGED crashed
  \/ /\ ~e.used
     /\ space' = [space EXCEPT ![Slot(k)] = Filled(e, k, v)]
     /\ result' = TRUE /\ UNCHANGED crashed

hashMapGet(k) == result' = Got(space[Slot(k)], k) /\ UNCHANGED <<space, crashed>>

hashMapDelete(k) ==
  LET e == space[Slot(k)] IN
  /\ \/ /\ e.key = k
        /\ space' = [space EXCEPT ![Slot(k)] = Beheaded(e)]
        /\ result' = TRUE
     \/ /\ e.key # k /\ hashChainSearch(e.chain, k) # {}
        /\ space' = [space EXCEPT ![Slot(k)] = Unchained(e, k)]
        /\ result' = TRUE
     \/ /\ e.key # k /\ hashChainSearch(e.chain, k) = {}
        /\ result' = FALSE /\ UNCHANGED space
  /\ UNCHANGED crashed

Next ==
  /\ ~crashed
  /\ \E k \in Keys :
       hashMapGet(k) \/ hashMapDelete(k) \/ \E v \in Vals : hashMapPut(k, v)

Spec == Init /\ [][Next]_vars
-----------------------------------------------------------------------------
Pairs(i) == BucketPairs(space[i])

AllPairs == UNION {Pairs(i) : i \in Index}

\* A bucket that lost its head and does not know.
Headless(i) == space[i].used /\ space[i].key = NULL

Contents ==
  [k \in {p.key : p \in AllPairs} |-> (CHOOSE p \in AllPairs : p.key = k).val]

TypeOK ==
  /\ \A i \in Index :
       /\ space[i].used \in BOOLEAN /\ space[i].collide \in BOOLEAN
       /\ Pairs(i) \subseteq [key : Keys, val : Vals]
       /\ ~space[i].used => Pairs(i) = {} /\ ~space[i].collide
       /\ space[i].chain # <<>> => space[i].collide
  /\ result \in Vals \cup {NULL} \cup BOOLEAN
  /\ crashed \in BOOLEAN

\* No key is stored twice, and each is where its hash value sends the search.
KeysOnce ==
  /\ \A p, q \in AllPairs : p.key = q.key => p = q
  /\ \A i \in Index :
       /\ \A p \in Pairs(i) : Slot(p.key) = i
       /\ Cardinality(Pairs(i)) =
            Len(space[i].chain) + IF space[i].key = NULL THEN 0 ELSE 1

Map == INSTANCE SymbolMap WITH map <- Contents

(***************************************************************************)
(* Every call of a key whose bucket has not lost its head does and returns *)
(* what the call of a map does and returns; deletion does so always.       *)
(***************************************************************************)
IsMapWithHeads ==
  [][\/ Map!Next
     \/ \E k \in Keys : Headless(Slot(k)) /\ UNCHANGED space
    ]_<<Contents, result>>

=============================================================================
