------------------------------ MODULE MCHashMap ------------------------------
EXTENDS HashMap

\* Three keys of one bucket and one of another.
KeySet == {"a", "b", "c", "d"}
Hashes == [k \in KeySet |-> CASE k = "a" -> 0 [] k = "b" -> 2 [] k = "c" -> 4
                              [] k = "d" -> 1]
=============================================================================
