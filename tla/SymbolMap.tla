------------------------------ MODULE SymbolMap ------------------------------
(***************************************************************************)
(* What hash.c promises: a map that refuses a second value for a key.      *)
(***************************************************************************)
EXTENDS Functions

CONSTANTS Keys, Vals,
          NULL   \* nothing found

VARIABLES map, result   \* what is stored, what the last call returned

Put(k, v) ==
  \/ k \in DOMAIN map /\ result' = FALSE /\ UNCHANGED map
  \/ /\ k \notin DOMAIN map
     /\ map' = [x \in DOMAIN map \cup {k} |-> IF x = k THEN v ELSE map[x]]
     /\ result' = TRUE

Get(k) ==
  /\ result' = IF k \in DOMAIN map THEN map[k] ELSE NULL
  /\ UNCHANGED map

Delete(k) ==
  /\ result' = (k \in DOMAIN map)
  /\ map' = Restrict(map, DOMAIN map \ {k})

Next == \E k \in Keys : Get(k) \/ Delete(k) \/ \E v \in Vals : Put(k, v)
=============================================================================
