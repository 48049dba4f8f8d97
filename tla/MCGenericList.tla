---------------------------- MODULE MCGenericList ----------------------------
EXTENDS GenericList, TLC

CONSTANTS
  x, y,     \* elements
  sx, sy    \* what is left of them when a link was written into them

\* Enough to tell the order, with elements that are equal among them.
Elems   == {x, y}
Inserts == <<x, y, x, y>>
Spoilt  == x :> sx @@ y :> sy

\* The lists may be renamed; neither property is about time.
Alike == Permutations(Lists)
=============================================================================
