----------------------------- MODULE HashMapProofs -----------------------------
(***************************************************************************)
(* The hash map of hash.c keeps its keys apart and is the map it promises  *)
(* to be, as long as no head of a bucket was deleted: for every number of  *)
(* buckets, every hash function and every set of keys and values.          *)
(***************************************************************************)
EXTENDS HashMap, SequenceTheorems, FiniteSetTheorems, FunctionTheorems, TLAPS

Pair == [key : Keys, val : Vals]

-----------------------------------------------------------------------------
(***************************************************************************)
(* Sets of pairs as maps.                                                  *)
(***************************************************************************)
Unique(A) == \A p, q \in A : p.key = q.key => p = q

AsMap(A) == [k \in {p.key : p \in A} |-> (CHOOSE p \in A : p.key = k).val]

LEMMA MapFacts ==
  ASSUME NEW A, Unique(A)
  PROVE  /\ DOMAIN AsMap(A) = {p.key : p \in A}
         /\ \A p \in A : AsMap(A)[p.key] = p.val
<1>1. ASSUME NEW p \in A PROVE AsMap(A)[p.key] = p.val
  <2>1. PICK c : c = CHOOSE q \in A : q.key = p.key
    OBVIOUS
  <2>2. c \in A /\ c.key = p.key
    BY <2>1, Zenon
  <2>3. c = p
    BY <2>2 DEF Unique
  <2> QED
    BY <2>1, <2>3 DEF AsMap
<1> QED
  BY <1>1 DEF AsMap

\* A pair more, and a key less.
LEMMA MapAdd ==
  ASSUME NEW A \in SUBSET Pair, Unique(A), NEW k \in Keys, NEW v \in Vals,
         \A p \in A : p.key # k, NEW B, B = A \cup {[key |-> k, val |-> v]}
  PROVE  /\ DOMAIN AsMap(B) = DOMAIN AsMap(A) \cup {k}
         /\ \A x \in DOMAIN AsMap(B) : AsMap(B)[x] = IF x = k THEN v ELSE AsMap(A)[x]
<1>1. Unique(B)
  BY DEF Unique, Pair
<1>2. {p.key : p \in B} = {p.key : p \in A} \cup {k}
  <2>1. [key |-> k, val |-> v] \in B /\ [key |-> k, val |-> v].key = k
    OBVIOUS
  <2>2. \A p \in B : p \in A \/ p.key = k
    OBVIOUS
  <2>3. A \subseteq B
    OBVIOUS
  <2> QED
    BY <2>1, <2>2, <2>3, Zenon
<1>3. ASSUME NEW x \in {p.key : p \in B}
      PROVE  AsMap(B)[x] = IF x = k THEN v ELSE AsMap(A)[x]
  <2>1. CASE x = k
    <3>1. [key |-> k, val |-> v] \in B
      OBVIOUS
    <3> QED
      BY <1>1, <2>1, <3>1, MapFacts
  <2>2. CASE x # k
    <3>1. PICK p \in A : p.key = x
      BY <1>2, <2>2
    <3>2. AsMap(A)[p.key] = p.val /\ AsMap(B)[p.key] = p.val
      BY <1>1, <3>1, MapFacts
    <3> QED
      BY <2>2, <3>1, <3>2
  <2> QED
    BY <2>1, <2>2
<1>4. DOMAIN AsMap(A) = {p.key : p \in A} /\ DOMAIN AsMap(B) = {p.key : p \in B}
  BY DEF AsMap
<1> QED
  BY <1>2, <1>3, <1>4

LEMMA MapDrop ==
  ASSUME NEW A \in SUBSET Pair, Unique(A), NEW k, NEW B, B = {p \in A : p.key # k}
  PROVE  /\ Unique(B)
         /\ AsMap(B) = Restrict(AsMap(A), DOMAIN AsMap(A) \ {k})
<1>1. Unique(B)
  BY DEF Unique
<1>2. DOMAIN AsMap(A) = {p.key : p \in A} /\ DOMAIN AsMap(B) = {p.key : p \in B}
  BY DEF AsMap
<1>3. DOMAIN AsMap(B) = DOMAIN AsMap(A) \ {k}
  BY <1>2
<1>4. ASSUME NEW x \in DOMAIN AsMap(B) PROVE AsMap(B)[x] = AsMap(A)[x]
  <2>1. PICK p \in B : p.key = x
    BY <1>2
  <2>2. AsMap(A)[p.key] = p.val /\ AsMap(B)[p.key] = p.val
    BY <1>1, <2>1, MapFacts
  <2> QED
    BY <2>1, <2>2
<1>5. AsMap(B) = [x \in DOMAIN AsMap(B) |-> AsMap(B)[x]]
  BY DEF AsMap
<1> QED
  BY <1>1, <1>3, <1>4, <1>5 DEF Restrict

-----------------------------------------------------------------------------
(***************************************************************************)
(* One bucket.                                                             *)
(***************************************************************************)
Bucket == [used : BOOLEAN, collide : BOOLEAN, key : Keys \cup {NULL},
           val : Vals \cup {NULL}, chain : Seq(Pair)]

\* The bucket i holds keys of its own, each once, and knows of its chain.
Well(e, i) ==
  /\ e \in Bucket
  /\ e.key # NULL => e.val \in Vals /\ Slot(e.key) = i
  /\ \A j \in 1..Len(e.chain) : Slot(e.chain[j].key) = i /\ e.chain[j].key # e.key
  /\ \A j, l \in 1..Len(e.chain) : e.chain[j].key = e.chain[l].key => j = l
  /\ ~e.used => e.key = NULL /\ e.chain = <<>> /\ ~e.collide
  /\ e.chain # <<>> => e.collide

LEMMA BucketTypes ==
  ASSUME NEW i, NEW e, Well(e, i)
  PROVE  /\ e.used \in BOOLEAN /\ e.collide \in BOOLEAN /\ e.key \in Keys \cup {NULL}
         /\ e.val \in Vals \cup {NULL} /\ e.chain \in Seq(Pair)
         /\ Len(e.chain) \in Nat /\ DOMAIN e.chain = 1..Len(e.chain)
         /\ \A j \in 1..Len(e.chain) : e.chain[j] \in Pair
<1>1. e \in Bucket
  BY DEF Well
<1>2. /\ e.used \in BOOLEAN /\ e.collide \in BOOLEAN /\ e.key \in Keys \cup {NULL}
      /\ e.val \in Vals \cup {NULL} /\ e.chain \in Seq(Pair)
  BY <1>1 DEF Bucket
<1>3. Len(e.chain) \in Nat /\ DOMAIN e.chain = 1..Len(e.chain)
  BY <1>2, LenProperties
<1>4. \A j \in 1..Len(e.chain) : e.chain[j] \in Pair
  BY <1>2, ElementOfSeq
<1> QED
  BY <1>2, <1>3, <1>4

\* What is in a bucket.
LEMMA PairFacts ==
  ASSUME NEW i, NEW e, Well(e, i)
  PROVE  /\ BucketPairs(e) \subseteq Pair
         /\ Unique(BucketPairs(e))
         /\ \A p \in BucketPairs(e) : Slot(p.key) = i
         /\ \A k \in Keys : Stored(e, k) <=> \E p \in BucketPairs(e) : p.key = k
         /\ \A j \in 1..Len(e.chain) : e.chain[j] \in BucketPairs(e)
         /\ ~e.used => BucketPairs(e) = {}
<1> DEFINE head == [key |-> e.key, val |-> e.val]
<1>1. /\ e.key \in Keys \cup {NULL} /\ DOMAIN e.chain = 1..Len(e.chain)
      /\ \A j \in 1..Len(e.chain) : e.chain[j] \in Pair
  BY BucketTypes
<1>2. head.key = e.key
  OBVIOUS
<1>3. \A p : p \in BucketPairs(e) <=>
        \/ \E j \in 1..Len(e.chain) : p = e.chain[j]
        \/ e.key # NULL /\ p = head
  BY <1>1 DEF BucketPairs
<1>4. e.key # NULL => head \in Pair
  BY <1>1 DEF Well, Pair
<1> HIDE DEF head
<1>5. BucketPairs(e) \subseteq Pair
  BY <1>1, <1>3, <1>4
<1>6. Unique(BucketPairs(e))
  <2> SUFFICES ASSUME NEW p \in BucketPairs(e), NEW q \in BucketPairs(e), p.key = q.key
               PROVE  p = q
    BY DEF Unique
  <2>1. CASE e.key # NULL /\ p = head
    BY <1>2, <1>3, <2>1 DEF Well
  <2>2. CASE e.key # NULL /\ q = head
    BY <1>2, <1>3, <2>2 DEF Well
  <2>3. ASSUME NEW j \in 1..Len(e.chain), p = e.chain[j],
               NEW l \in 1..Len(e.chain), q = e.chain[l]
        PROVE  p = q
    BY <2>3 DEF Well
  <2> QED
    BY <1>3, <2>1, <2>2, <2>3
<1>7. \A p \in BucketPairs(e) : Slot(p.key) = i
  BY <1>2, <1>3 DEF Well
<1>8. ASSUME NEW k \in Keys
      PROVE  Stored(e, k) <=> \E p \in BucketPairs(e) : p.key = k
  <2>1. k # NULL
    BY HashAssumption
  <2>2. Stored(e, k) <=> e.key = k \/ \E j \in 1..Len(e.chain) : e.chain[j].key = k
    BY <1>1 DEF Stored, hashChainSearch
  <2> QED
    BY <1>2, <1>3, <2>1, <2>2
<1>9. ~e.used => BucketPairs(e) = {}
  <2>1. ASSUME ~e.used PROVE e.key = NULL /\ e.chain = <<>>
    BY <2>1 DEF Well
  <2>2. e.chain = <<>> => 1..Len(e.chain) = {}
    OBVIOUS
  <2> QED
    BY <1>3, <2>1, <2>2
<1> QED
  BY <1>3, <1>5, <1>6, <1>7, <1>8, <1>9

\* hashMapPut: the chain of the bucket.
LEMMA ChainedKeeps ==
  ASSUME NEW k \in Keys, NEW v \in Vals, NEW e, Well(e, Slot(k)),
         e.used, e.key # NULL, ~Stored(e, k)
  PROVE  /\ Well(Chained(e, k, v), Slot(k))
         /\ BucketPairs(Chained(e, k, v)) = BucketPairs(e) \cup {[key |-> k, val |-> v]}
<1>1. PICK new \in Pair : new = [key |-> k, val |-> v]
  BY DEF Pair
<1>2. new.key = k
  BY <1>1
<1>3. PICK c : c = Append(e.chain, new)
  OBVIOUS
<1>4. PICK L \in Nat : L = Len(e.chain)
  BY BucketTypes
<1>5. e \in Bucket /\ e.chain \in Seq(Pair) /\ DOMAIN e.chain = 1..L
  BY <1>4, BucketTypes DEF Well
<1>6. /\ c \in Seq(Pair) /\ Len(c) = L + 1 /\ c[L + 1] = new
      /\ \A j \in 1..L : c[j] = e.chain[j]
  BY <1>3, <1>4, <1>5, AppendProperties
<1>7. DOMAIN c = 1..(L + 1) /\ \A j \in 1..(L + 1) : j = L + 1 \/ j \in 1..L
  BY <1>6, LenProperties
<1>8. PICK f : f = Chained(e, k, v)
  OBVIOUS
<1>9. /\ f \in Bucket /\ f.used = e.used /\ f.collide = TRUE /\ f.key = e.key
      /\ f.val = e.val /\ f.chain = c
  BY <1>1, <1>3, <1>5, <1>6, <1>8 DEF Chained, Bucket
<1>10. \A j \in 1..L : e.chain[j].key # k
  BY <1>5 DEF Stored, hashChainSearch
<1>11. e.key # k
  BY DEF Stored
<1>12. Well(f, Slot(k))
  <2>1. \A j \in 1..(L + 1) : Slot(c[j].key) = Slot(k) /\ c[j].key # e.key
    BY <1>2, <1>4, <1>6, <1>7, <1>11 DEF Well
  <2>2. \A j, l \in 1..(L + 1) : c[j].key = c[l].key => j = l
    BY <1>2, <1>4, <1>6, <1>7, <1>10 DEF Well
  <2> QED
    BY <1>6, <1>9, <2>1, <2>2 DEF Well
<1>13. {c[j] : j \in DOMAIN c} = {e.chain[j] : j \in DOMAIN e.chain} \cup {new}
  <2>1. \A j \in DOMAIN c : c[j] = new \/ (j \in DOMAIN e.chain /\ c[j] = e.chain[j])
    BY <1>5, <1>6, <1>7
  <2>2. \A j \in DOMAIN e.chain : j \in DOMAIN c /\ e.chain[j] = c[j]
    BY <1>5, <1>6, <1>7
  <2>3. L + 1 \in DOMAIN c /\ c[L + 1] = new
    BY <1>6, <1>7
  <2> QED
    BY <2>1, <2>2, <2>3, Zenon
<1>14. BucketPairs(f) = BucketPairs(e) \cup {new}
  BY <1>9, <1>13 DEF BucketPairs
<1> QED
  BY <1>1, <1>8, <1>12, <1>14

\* hashMapPut: the head of the bucket.
LEMMA FilledKeeps ==
  ASSUME NEW k \in Keys, NEW v \in Vals, NEW e, Well(e, Slot(k)), ~e.used
  PROVE  /\ Well(Filled(e, k, v), Slot(k))
         /\ BucketPairs(Filled(e, k, v)) = BucketPairs(e) \cup {[key |-> k, val |-> v]}
<1>0. PICK f : f = Filled(e, k, v)
  OBVIOUS
<1>1. e \in Bucket /\ e.chain = <<>> /\ ~e.collide /\ Len(e.chain) = 0
  BY DEF Well
<1>2. /\ f \in Bucket /\ f.used = TRUE /\ f.key = k /\ f.val = v /\ f.chain = <<>>
  BY <1>0, <1>1 DEF Filled, Bucket
<1>3. k # NULL
  BY HashAssumption
<1>4. 1..Len(<<>>) = {} /\ DOMAIN <<>> = {}
  OBVIOUS
<1>5. Well(f, Slot(k))
  BY <1>2, <1>4 DEF Well
<1>6. BucketPairs(f) = {[key |-> k, val |-> v]}
  <2>1. {f.chain[j] : j \in DOMAIN f.chain} = {}
    BY <1>2, <1>4
  <2> QED
    BY <1>2, <1>3, <2>1 DEF BucketPairs
<1>7. BucketPairs(e) = {}
  BY PairFacts
<1> QED
  BY <1>0, <1>5, <1>6, <1>7

\* hashMapDelete: the head of the bucket.
LEMMA BeheadedKeeps ==
  ASSUME NEW k \in Keys, NEW e, Well(e, Slot(k)), e.key = k
  PROVE  /\ Well(Beheaded(e), Slot(k))
         /\ BucketPairs(Beheaded(e)) = {p \in BucketPairs(e) : p.key # k}
<1>1. PICK f : f = Beheaded(e)
  OBVIOUS
<1>2. e \in Bucket /\ k # NULL /\ DOMAIN e.chain = 1..Len(e.chain)
      /\ \A j \in 1..Len(e.chain) : e.chain[j] \in Pair
  BY HashAssumption, BucketTypes DEF Well
<1>3. /\ f \in Bucket /\ f.used = e.used /\ f.collide = e.collide /\ f.key = NULL
      /\ f.chain = e.chain
  BY <1>1, <1>2 DEF Beheaded, Bucket
<1>4. \A j \in 1..Len(e.chain) : e.chain[j].key # NULL
  BY <1>2, HashAssumption DEF Pair
<1>5. Well(f, Slot(k))
  BY <1>2, <1>3, <1>4 DEF Well
<1>6. BucketPairs(f) = {e.chain[j] : j \in DOMAIN e.chain}
  BY <1>3 DEF BucketPairs
<1>7. BucketPairs(e) = {e.chain[j] : j \in DOMAIN e.chain} \cup {[key |-> k, val |-> e.val]}
  BY <1>2 DEF BucketPairs
<1>8. \A p \in {e.chain[j] : j \in DOMAIN e.chain} : p.key # k
  BY <1>2 DEF Well
<1>9. [key |-> k, val |-> e.val].key = k
  OBVIOUS
<1> QED
  BY <1>1, <1>5, <1>6, <1>7, <1>8, <1>9

LEMMA RemoveFacts ==
  ASSUME NEW s \in Seq(Pair), NEW i \in 1..Len(s)
  PROVE  /\ RemoveAt(s, i) \in Seq(Pair) /\ Len(RemoveAt(s, i)) = Len(s) - 1
         /\ \A j \in 1..(Len(s) - 1) :
              RemoveAt(s, i)[j] = IF j < i THEN s[j] ELSE s[j + 1]
<1>0. PICK L \in Nat : L = Len(s)
  BY LenProperties
<1>i. i \in 1..L
  BY <1>0
<1>1. PICK a : a = SubSeq(s, 1, i - 1)
  OBVIOUS
<1>2. PICK b : b = SubSeq(s, i + 1, L)
  OBVIOUS
<1>3. RemoveAt(s, i) = a \o b
  BY <1>0, <1>1, <1>2 DEF RemoveAt
<1>4. \A j \in 1..L : s[j] \in Pair
  BY <1>0, ElementOfSeq
<1>5. /\ a \in Seq(Pair) /\ Len(a) = i - 1
      /\ \A j \in 1..(i - 1) : a[j] = s[j]
  <2>1. 1 \in Int /\ i - 1 \in Int /\ \A j \in 1..(i - 1) : s[j] \in Pair
    BY <1>4, <1>i
  <2>2. /\ a \in Seq(Pair) /\ Len(a) = IF 1 <= i - 1 THEN (i - 1) - 1 + 1 ELSE 0
        /\ \A j \in 1..((i - 1) - 1 + 1) : a[j] = s[1 + j - 1]
    BY <1>1, <2>1, SubSeqProperties
  <2>3. /\ (i - 1) - 1 + 1 = i - 1 /\ \A j \in 1..(i - 1) : 1 + j - 1 = j
        /\ (IF 1 <= i - 1 THEN (i - 1) - 1 + 1 ELSE 0) = i - 1
    BY <1>i
  <2> QED
    BY <2>2, <2>3
<1>6. /\ b \in Seq(Pair) /\ Len(b) = L - i
      /\ \A j \in 1..(L - i) : b[j] = s[i + j]
  <2>1. i + 1 \in Int /\ L \in Int /\ \A j \in (i + 1)..L : s[j] \in Pair
    BY <1>4, <1>i
  <2>2. /\ b \in Seq(Pair) /\ Len(b) = IF i + 1 <= L THEN L - (i + 1) + 1 ELSE 0
        /\ \A j \in 1..(L - (i + 1) + 1) : b[j] = s[(i + 1) + j - 1]
    BY <1>2, <2>1, SubSeqProperties
  <2>3. /\ L - (i + 1) + 1 = L - i /\ \A j \in 1..(L - i) : (i + 1) + j - 1 = i + j
        /\ (IF i + 1 <= L THEN L - (i + 1) + 1 ELSE 0) = L - i
    BY <1>i
  <2> QED
    BY <2>2, <2>3
<1>7. /\ a \o b \in Seq(Pair) /\ Len(a \o b) = Len(a) + Len(b)
      /\ \A j \in 1..(Len(a) + Len(b)) :
           (a \o b)[j] = IF j <= Len(a) THEN a[j] ELSE b[j - Len(a)]
  BY <1>5, <1>6, ConcatProperties
<1>8. Len(a) + Len(b) = L - 1
  BY <1>5, <1>6, <1>i
<1>9. ASSUME NEW j \in 1..(L - 1)
      PROVE  (a \o b)[j] = IF j < i THEN s[j] ELSE s[j + 1]
  <2>1. CASE j < i
    <3>1. j \in 1..(i - 1) /\ j <= Len(a)
      BY <1>5, <1>i, <2>1
    <3> QED
      BY <1>5, <1>7, <1>8, <2>1, <3>1
  <2>2. CASE ~(j < i)
    <3>1. j - (i - 1) \in 1..(L - i) /\ ~(j <= i - 1) /\ i + (j - (i - 1)) = j + 1
      BY <1>i, <2>2
    <3>2. j \in 1..(Len(a) + Len(b)) /\ ~(j <= Len(a)) /\ j - Len(a) = j - (i - 1)
      BY <1>5, <1>8, <3>1
    <3>3. (a \o b)[j] = b[j - (i - 1)]
      BY <1>7, <3>2
    <3>4. b[j - (i - 1)] = s[j + 1]
      BY <1>6, <3>1
    <3> QED
      BY <2>2, <3>3, <3>4
  <2> QED
    BY <2>1, <2>2
<1> QED
  BY <1>0, <1>3, <1>7, <1>8, <1>9

\* hashMapDelete: a node of the chain.
LEMMA UnchainedKeeps ==
  ASSUME NEW k \in Keys, NEW e, Well(e, Slot(k)), e.key # k, hashChainSearch(e.chain, k) # {}
  PROVE  /\ Well(Unchained(e, k), Slot(k))
         /\ BucketPairs(Unchained(e, k)) = {p \in BucketPairs(e) : p.key # k}
<1>1. PICK L \in Nat : L = Len(e.chain)
  BY BucketTypes
<1>2. e \in Bucket /\ e.chain \in Seq(Pair) /\ DOMAIN e.chain = 1..L
  BY <1>1, BucketTypes DEF Well
<1>3. PICK i : i = CHOOSE j \in hashChainSearch(e.chain, k) : TRUE
  OBVIOUS
<1>4. i \in 1..L /\ e.chain[i].key = k
  <2>1. i \in hashChainSearch(e.chain, k)
    BY <1>3, Zenon
  <2> QED
    BY <1>2, <2>1 DEF hashChainSearch
<1>5. PICK c : c = RemoveAt(e.chain, i)
  OBVIOUS
<1>6. /\ c \in Seq(Pair) /\ Len(c) = L - 1
      /\ \A j \in 1..(L - 1) : c[j] = IF j < i THEN e.chain[j] ELSE e.chain[j + 1]
  <2>1. PICK ch \in Seq(Pair) : ch = e.chain
    BY <1>2
  <2>2. c = RemoveAt(ch, i) /\ L = Len(ch) /\ i \in 1..Len(ch)
    BY <1>1, <1>4, <1>5, <2>1
  <2>3. /\ RemoveAt(ch, i) \in Seq(Pair) /\ Len(RemoveAt(ch, i)) = Len(ch) - 1
        /\ \A j \in 1..(Len(ch) - 1) :
             RemoveAt(ch, i)[j] = IF j < i THEN ch[j] ELSE ch[j + 1]
    BY <2>2, RemoveFacts
  <2> QED
    BY <2>1, <2>2, <2>3
<1>7. DOMAIN c = 1..(L - 1)
  BY <1>6, LenProperties
<1>8. PICK f : f = Unchained(e, k)
  OBVIOUS
<1>9. /\ f \in Bucket /\ f.used = e.used /\ f.collide = e.collide /\ f.key = e.key
      /\ f.val = e.val /\ f.chain = c
  BY <1>2, <1>3, <1>5, <1>6, <1>8 DEF Unchained, Bucket
<1>10. PICK from : from = [j \in 1..(L - 1) |-> IF j < i THEN j ELSE j + 1]
  OBVIOUS
<1>11. /\ \A j \in 1..(L - 1) : from[j] \in 1..L /\ from[j] # i /\ c[j] = e.chain[from[j]]
       /\ \A j, l \in 1..(L - 1) : from[j] = from[l] => j = l
       /\ \A m \in 1..L : m # i => \E j \in 1..(L - 1) : from[j] = m
  <2>1. ASSUME NEW j \in 1..(L - 1)
        PROVE  from[j] \in 1..L /\ from[j] # i /\ c[j] = e.chain[from[j]]
    BY <1>4, <1>6, <1>10
  <2>2. ASSUME NEW j \in 1..(L - 1), NEW l \in 1..(L - 1), from[j] = from[l] PROVE j = l
    BY <1>4, <1>10, <2>2
  <2>3. ASSUME NEW m \in 1..L, m # i PROVE \E j \in 1..(L - 1) : from[j] = m
    <3>1. CASE m < i
      BY <1>4, <1>10, <3>1
    <3>2. CASE ~(m < i)
      <4>1. m - 1 \in 1..(L - 1) /\ ~(m - 1 < i) /\ (m - 1) + 1 = m
        BY <1>4, <2>3, <3>2
      <4> QED
        BY <1>10, <4>1
    <3> QED
      BY <3>1, <3>2
  <2> QED
    BY <2>1, <2>2, <2>3
<1>12. Well(f, Slot(k))
  <2>1. \A j \in 1..(L - 1) : Slot(c[j].key) = Slot(k) /\ c[j].key # e.key
    BY <1>1, <1>11 DEF Well
  <2>2. ASSUME NEW j \in 1..(L - 1), NEW l \in 1..(L - 1), c[j].key = c[l].key PROVE j = l
    <3>1. /\ from[j] \in 1..L /\ from[l] \in 1..L
          /\ e.chain[from[j]].key = e.chain[from[l]].key
      BY <1>11, <2>2
    <3>2. from[j] = from[l]
      BY <1>1, <3>1 DEF Well
    <3> QED
      BY <1>11, <3>2
  <2>3. e.chain # <<>>
    BY <1>1, <1>4
  <2>4. f.used /\ f.collide
    BY <1>9, <2>3 DEF Well
  <2>5. f.key # NULL => f.val \in Vals /\ Slot(f.key) = Slot(k)
    BY <1>9 DEF Well
  <2> QED
    BY <1>6, <1>9, <2>1, <2>2, <2>4, <2>5 DEF Well
<1>13. ASSUME NEW p
       PROVE  (\E j \in 1..(L - 1) : p = c[j]) <=>
                (\E m \in 1..L : p = e.chain[m]) /\ p.key # k
  <2>1. ASSUME NEW j \in 1..(L - 1), p = c[j]
        PROVE  (\E m \in 1..L : p = e.chain[m]) /\ p.key # k
    <3>1. from[j] \in 1..L /\ from[j] # i /\ p = e.chain[from[j]]
      BY <1>11, <2>1
    <3>2. e.chain[from[j]].key # e.chain[i].key
      BY <1>1, <1>4, <3>1 DEF Well
    <3> QED
      BY <1>4, <3>1, <3>2
  <2>2. ASSUME NEW m \in 1..L, p = e.chain[m], p.key # k
        PROVE  \E j \in 1..(L - 1) : p = c[j]
    <3>1. m # i
      BY <1>4, <2>2
    <3>2. PICK j \in 1..(L - 1) : from[j] = m
      BY <1>11, <3>1
    <3> QED
      BY <1>11, <2>2, <3>2
  <2> QED
    BY <2>1, <2>2
<1>14. BucketPairs(f) = {p \in BucketPairs(e) : p.key # k}
  <2> DEFINE head == [key |-> e.key, val |-> e.val]
  <2>1. head.key = e.key
    OBVIOUS
  <2>2. \A p : p \in BucketPairs(e) <=>
          (\E m \in 1..L : p = e.chain[m]) \/ (e.key # NULL /\ p = head)
    BY <1>2 DEF BucketPairs
  <2>3. \A p : p \in BucketPairs(f) <=>
          (\E j \in 1..(L - 1) : p = c[j]) \/ (e.key # NULL /\ p = head)
    BY <1>7, <1>9 DEF BucketPairs
  <2> HIDE DEF head
  <2> QED
    BY <1>13, <2>1, <2>2, <2>3
<1> QED
  BY <1>8, <1>12, <1>14

\* A bucket holds as many pairs as it has nodes and a head.
LEMMA PairCount ==
  ASSUME NEW i, NEW e, Well(e, i)
  PROVE  Cardinality(BucketPairs(e)) = Len(e.chain) + IF e.key = NULL THEN 0 ELSE 1
<1>1. PICK L \in Nat : L = Len(e.chain)
  BY BucketTypes
<1>2. e.chain \in [1..L -> Pair] /\ DOMAIN e.chain = 1..L
  BY <1>1, BucketTypes, LenProperties
<1>3. PICK T : T = {e.chain[j] : j \in 1..L}
  OBVIOUS
<1>4. IsFiniteSet(T) /\ Cardinality(T) = L
  <2>1. e.chain \in [1..L -> T]
    BY <1>2, <1>3
  <2>2. \A a, b \in 1..L : e.chain[a] = e.chain[b] => a = b
    BY <1>1 DEF Well
  <2>3. \A t \in T : \E a \in 1..L : e.chain[a] = t
    BY <1>3
  <2>4. PICK F : F = e.chain
    OBVIOUS
  <2>5. F \in Bijection(1..L, T)
    BY <2>1, <2>2, <2>3, <2>4, Fun_IsBij
  <2>6. ExistsBijection(1..L, T)
    BY <2>5 DEF ExistsBijection
  <2>7. IsFiniteSet(1..L) /\ Cardinality(1..L) = L
    <3>1. 1 \in Int /\ L \in Int /\ (IF 1 > L THEN 0 ELSE L - 1 + 1) = L
      OBVIOUS
    <3> QED
      BY <3>1, FS_Interval
  <2> QED
    BY <2>6, <2>7, FS_Bijection
<1>5. CASE e.key = NULL
  <2>1. BucketPairs(e) = T
    BY <1>2, <1>3, <1>5 DEF BucketPairs
  <2> QED
    BY <1>1, <1>4, <1>5, <2>1
<1>6. CASE e.key # NULL
  <2>0. PICK head : head = [key |-> e.key, val |-> e.val]
    OBVIOUS
  <2>1. head.key = e.key
    BY <2>0
  <2>2. BucketPairs(e) = T \cup {head}
    BY <1>2, <1>3, <1>6, <2>0 DEF BucketPairs
  <2>3. head \notin T
    BY <1>1, <1>3, <2>1 DEF Well
  <2>4. Cardinality(T \cup {head}) = Cardinality(T) + 1
    BY <1>4, <2>3, FS_AddElement
  <2> QED
    BY <1>1, <1>4, <1>6, <2>2, <2>4
<1> QED
  BY <1>5, <1>6

-----------------------------------------------------------------------------
(***************************************************************************)
(* All buckets.                                                            *)
(***************************************************************************)
LEMMA SlotIn == \A k \in Keys : Slot(k) \in Index
BY HashAssumption DEF Slot, Index

AllWell(sp) == sp \in [Index -> Bucket] /\ \A i \in Index : Well(sp[i], i)

AllOf(sp) == UNION {BucketPairs(sp[i]) : i \in Index}

LEMMA AllFacts ==
  ASSUME NEW sp, AllWell(sp)
  PROVE  /\ AllOf(sp) \subseteq Pair /\ Unique(AllOf(sp))
         /\ \A p : p \in AllOf(sp) <=> \E i \in Index : p \in BucketPairs(sp[i])
         /\ \A k \in Keys : Stored(sp[Slot(k)], k) <=> k \in {p.key : p \in AllOf(sp)}
<1>1. \A p : p \in AllOf(sp) <=> \E i \in Index : p \in BucketPairs(sp[i])
  BY DEF AllOf
<1>2. \A i \in Index : /\ BucketPairs(sp[i]) \subseteq Pair /\ Unique(BucketPairs(sp[i]))
                       /\ \A p \in BucketPairs(sp[i]) : Slot(p.key) = i
  BY PairFacts DEF AllWell
<1>3. AllOf(sp) \subseteq Pair
  BY <1>1, <1>2
<1>4. Unique(AllOf(sp))
  <2> SUFFICES ASSUME NEW p \in AllOf(sp), NEW q \in AllOf(sp), p.key = q.key
               PROVE  p = q
    BY DEF Unique
  <2>1. PICK i \in Index : p \in BucketPairs(sp[i])
    BY <1>1
  <2>2. q \in BucketPairs(sp[i])
    BY <1>1, <1>2, <2>1
  <2> QED
    BY <1>2, <2>1, <2>2 DEF Unique
<1>5. ASSUME NEW k \in Keys
      PROVE  Stored(sp[Slot(k)], k) <=> k \in {p.key : p \in AllOf(sp)}
  <2>1. Slot(k) \in Index
    BY SlotIn
  <2>2. Stored(sp[Slot(k)], k) <=> \E p \in BucketPairs(sp[Slot(k)]) : p.key = k
    BY <2>1, PairFacts DEF AllWell
  <2>3. \A p \in AllOf(sp) : p.key = k => p \in BucketPairs(sp[Slot(k)])
    BY <1>1, <1>2
  <2>4. \A p \in BucketPairs(sp[Slot(k)]) : p \in AllOf(sp)
    BY <1>1, <2>1
  <2> QED
    BY <2>2, <2>3, <2>4
<1> QED
  BY <1>1, <1>3, <1>4, <1>5

\* A call changes one bucket.
LEMMA OneBucket ==
  ASSUME NEW sp, AllWell(sp), NEW k \in Keys, NEW f, Well(f, Slot(k))
  PROVE  /\ AllWell([sp EXCEPT ![Slot(k)] = f])
         /\ \A p : p \in AllOf([sp EXCEPT ![Slot(k)] = f]) <=>
              \/ p \in BucketPairs(f)
              \/ p \in AllOf(sp) /\ p \notin BucketPairs(sp[Slot(k)])
         /\ \A p : p \in BucketPairs(sp[Slot(k)]) => p \in AllOf(sp)
         /\ \A p \in AllOf(sp) : p.key = k => p \in BucketPairs(sp[Slot(k)])
<1>0. PICK tp : tp = [sp EXCEPT ![Slot(k)] = f]
  OBVIOUS
<1>1. Slot(k) \in Index /\ f \in Bucket
  BY SlotIn DEF Well
<1>2. /\ tp \in [Index -> Bucket] /\ tp[Slot(k)] = f
      /\ \A i \in Index : i # Slot(k) => tp[i] = sp[i]
  BY <1>0, <1>1 DEF AllWell
<1>3. AllWell(tp)
  BY <1>1, <1>2 DEF AllWell
<1>4. /\ \A p : p \in AllOf(sp) <=> \E i \in Index : p \in BucketPairs(sp[i])
      /\ \A p : p \in AllOf(tp) <=> \E i \in Index : p \in BucketPairs(tp[i])
  BY DEF AllOf
<1>5. \A i \in Index : \A p \in BucketPairs(sp[i]) : Slot(p.key) = i
  BY PairFacts DEF AllWell
<1>6. ASSUME NEW p
      PROVE  p \in AllOf(tp) <=>
               \/ p \in BucketPairs(f)
               \/ p \in AllOf(sp) /\ p \notin BucketPairs(sp[Slot(k)])
  <2>1. p \in AllOf(tp) <=>
          \/ p \in BucketPairs(f)
          \/ \E i \in Index : i # Slot(k) /\ p \in BucketPairs(sp[i])
    BY <1>1, <1>2, <1>4
  <2>2. (\E i \in Index : i # Slot(k) /\ p \in BucketPairs(sp[i])) <=>
          p \in AllOf(sp) /\ p \notin BucketPairs(sp[Slot(k)])
    BY <1>1, <1>4, <1>5
  <2> QED
    BY <2>1, <2>2
<1>7. \A p : p \in BucketPairs(sp[Slot(k)]) => p \in AllOf(sp)
  BY <1>1, <1>4
<1>8. \A p \in AllOf(sp) : p.key = k => p \in BucketPairs(sp[Slot(k)])
  BY <1>4, <1>5
<1> QED
  BY <1>0, <1>3, <1>6, <1>7, <1>8

-----------------------------------------------------------------------------
(***************************************************************************)
(* The inductive invariant.                                                *)
(***************************************************************************)
IInv ==
  AllWell(space) /\ result \in Vals \cup {NULL} \cup BOOLEAN /\ crashed \in BOOLEAN

LEMMA InitIInv == Init => IInv
<1> SUFFICES ASSUME Init PROVE IInv
  OBVIOUS
<1>1. PICK e : e = [used |-> FALSE, collide |-> FALSE, key |-> NULL, val |-> NULL,
                    chain |-> <<>>]
  OBVIOUS
<1>2. space = [i \in Index |-> e] /\ result = NULL /\ crashed = FALSE
  BY <1>1 DEF Init, Empty
<1>3. <<>> \in Seq(Pair) /\ 1..Len(<<>>) = {}
  OBVIOUS
<1>4. /\ e \in Bucket /\ ~e.used /\ ~e.collide /\ e.key = NULL /\ e.chain = <<>>
  BY <1>1, <1>3 DEF Bucket
<1>5. \A i \in Index : Well(e, i)
  BY <1>3, <1>4 DEF Well
<1>6. AllWell(space)
  BY <1>2, <1>4, <1>5 DEF AllWell
<1> QED
  BY <1>2, <1>6 DEF IInv

\* What hashMapGet returns is what the map holds, unless the bucket has lost its
\* head: it then returns nothing.
LEMMA GotFacts ==
  ASSUME AllWell(space), NEW k \in Keys
  PROVE  /\ Got(space[Slot(k)], k) \in Vals \cup {NULL}
         /\ ~Headless(Slot(k)) =>
              Got(space[Slot(k)], k) = IF k \in DOMAIN AsMap(AllOf(space)) THEN AsMap(AllOf(space))[k] ELSE NULL
<1>1. PICK e : e = space[Slot(k)]
  OBVIOUS
<1>2. Slot(k) \in Index /\ Well(e, Slot(k)) /\ k # NULL
  BY <1>1, SlotIn, HashAssumption DEF AllWell
<1>3. PICK A : A = AllOf(space)
  OBVIOUS
<1>4. /\ Unique(A) /\ A \subseteq Pair
      /\ \A p : p \in BucketPairs(e) => p \in A
      /\ Stored(e, k) <=> k \in {p.key : p \in A}
  BY <1>1, <1>2, <1>3, AllFacts
<1>5. /\ DOMAIN AsMap(A) = {p.key : p \in A}
      /\ \A p \in A : AsMap(A)[p.key] = p.val
  BY <1>4, MapFacts
<1>6. CASE e.key = NULL
  <2>1. Got(space[Slot(k)], k) = NULL
    BY <1>1, <1>6 DEF Got
  <2>2. ASSUME ~e.used PROVE ~Stored(e, k)
    BY <1>2, <2>2, PairFacts
  <2>3. Headless(Slot(k)) <=> e.used
    BY <1>1, <1>6 DEF Headless
  <2> QED
    BY <1>3, <1>4, <1>5, <2>1, <2>2, <2>3
<1>7. CASE e.key = k
  <2>1. Got(space[Slot(k)], k) = e.val /\ Stored(e, k)
    BY <1>1, <1>2, <1>7 DEF Got, Stored
  <2>2. [key |-> e.key, val |-> e.val] \in BucketPairs(e) /\ e.val \in Vals
    BY <1>2, <1>7 DEF BucketPairs, Well
  <2>3. AsMap(A)[k] = e.val
    BY <1>4, <1>5, <1>7, <2>2
  <2> QED
    BY <1>3, <1>4, <1>5, <2>1, <2>2, <2>3
<1>8. CASE e.key # NULL /\ e.key # k /\ Stored(e, k)
  <2>1. PICK j : j = CHOOSE m \in hashChainSearch(e.chain, k) : TRUE
    OBVIOUS
  <2>2. hashChainSearch(e.chain, k) # {}
    BY <1>8 DEF Stored
  <2>3. j \in hashChainSearch(e.chain, k)
    BY <2>1, <2>2, Zenon
  <2>4. j \in 1..Len(e.chain) /\ e.chain[j].key = k
    BY <1>2, <2>3, BucketTypes DEF hashChainSearch
  <2>5. e.chain # <<>>
    BY <2>4
  <2>6. Got(space[Slot(k)], k) = e.chain[j].val
    BY <1>1, <1>2, <1>8, <2>1, <2>2, <2>5 DEF Got, Well
  <2>7. e.chain[j] \in BucketPairs(e) /\ e.chain[j] \in Pair
    BY <1>2, <2>4, PairFacts
  <2>8. AsMap(A)[k] = e.chain[j].val
    BY <1>4, <1>5, <2>4, <2>7
  <2> QED
    BY <1>3, <1>4, <1>5, <1>8, <2>6, <2>7, <2>8 DEF Pair
<1>9. CASE e.key # NULL /\ e.key # k /\ ~Stored(e, k)
  <2>1. hashChainSearch(e.chain, k) = {}
    BY <1>9 DEF Stored
  <2>2. Got(space[Slot(k)], k) = NULL
    BY <1>1, <1>9, <2>1 DEF Got
  <2> QED
    BY <1>3, <1>4, <1>5, <1>9, <2>2
<1> QED
  BY <1>6, <1>7, <1>8, <1>9

LEMMA AddOne ==
  ASSUME AllWell(space), NEW k \in Keys, NEW f, Well(f, Slot(k)), NEW p,
         space' = [space EXCEPT ![Slot(k)] = f],
         BucketPairs(f) = BucketPairs(space[Slot(k)]) \cup {p}
  PROVE  AllWell(space') /\ AllOf(space') = AllOf(space) \cup {p}
<1>1. PICK sp : sp = space
  OBVIOUS
<1>2. PICK tp : tp = [sp EXCEPT ![Slot(k)] = f]
  OBVIOUS
<1>3. AllWell(sp) /\ BucketPairs(f) = BucketPairs(sp[Slot(k)]) \cup {p}
  BY <1>1
<1>4. /\ AllWell(tp)
      /\ \A q : q \in AllOf(tp) <=>
           \/ q \in BucketPairs(f)
           \/ q \in AllOf(sp) /\ q \notin BucketPairs(sp[Slot(k)])
      /\ \A q : q \in BucketPairs(sp[Slot(k)]) => q \in AllOf(sp)
  BY <1>2, <1>3, OneBucket
<1>5. AllOf(tp) = AllOf(sp) \cup {p}
  BY <1>3, <1>4
<1> QED
  BY <1>1, <1>2, <1>4, <1>5

LEMMA DropOne ==
  ASSUME AllWell(space), NEW k \in Keys, NEW f, Well(f, Slot(k)),
         space' = [space EXCEPT ![Slot(k)] = f],
         BucketPairs(f) = {p \in BucketPairs(space[Slot(k)]) : p.key # k}
  PROVE  AllWell(space') /\ AllOf(space') = {p \in AllOf(space) : p.key # k}
<1>1. PICK sp : sp = space
  OBVIOUS
<1>2. PICK tp : tp = [sp EXCEPT ![Slot(k)] = f]
  OBVIOUS
<1>3. AllWell(sp) /\ BucketPairs(f) = {p \in BucketPairs(sp[Slot(k)]) : p.key # k}
  BY <1>1
<1>4. /\ AllWell(tp)
      /\ \A q : q \in AllOf(tp) <=>
           \/ q \in BucketPairs(f)
           \/ q \in AllOf(sp) /\ q \notin BucketPairs(sp[Slot(k)])
      /\ \A q : q \in BucketPairs(sp[Slot(k)]) => q \in AllOf(sp)
      /\ \A q \in AllOf(sp) : q.key = k => q \in BucketPairs(sp[Slot(k)])
  BY <1>2, <1>3, OneBucket
<1>5. AllOf(tp) = {p \in AllOf(sp) : p.key # k}
  BY <1>3, <1>4
<1> QED
  BY <1>1, <1>2, <1>4, <1>5

\* What hashMapPut does to the pairs.
LEMMA PutFacts ==
  ASSUME IInv, NEW k \in Keys, NEW v \in Vals, hashMapPut(k, v)
  PROVE  /\ AllWell(space') /\ crashed' \in BOOLEAN
         /\ \/ Headless(Slot(k)) /\ UNCHANGED <<space, result>>
            \/ /\ k \in {p.key : p \in AllOf(space)}
               /\ result' = FALSE /\ UNCHANGED space
            \/ /\ k \notin {p.key : p \in AllOf(space)}
               /\ result' = TRUE
               /\ AllOf(space') = AllOf(space) \cup {[key |-> k, val |-> v]}
<1>0. AllWell(space) /\ crashed \in BOOLEAN
  BY DEF IInv
<1>1. PICK e : e = space[Slot(k)]
  OBVIOUS
<1>2. /\ Well(e, Slot(k))
      /\ Stored(e, k) <=> k \in {p.key : p \in AllOf(space)}
  BY <1>0, <1>1, SlotIn, AllFacts DEF AllWell
<1>3. CASE e.used /\ e.key = NULL /\ crashed' = TRUE /\ UNCHANGED <<space, result>>
  BY <1>0, <1>1, <1>3 DEF Headless
<1>4. CASE e.used /\ e.key # NULL /\ Stored(e, k) /\ result' = FALSE /\ UNCHANGED <<space, crashed>>
  BY <1>0, <1>2, <1>4
<1>5. CASE /\ e.used /\ e.key # NULL /\ ~Stored(e, k)
           /\ space' = [space EXCEPT ![Slot(k)] = Chained(e, k, v)]
           /\ result' = TRUE /\ UNCHANGED crashed
  <2>1. /\ Well(Chained(e, k, v), Slot(k))
        /\ BucketPairs(Chained(e, k, v)) = BucketPairs(e) \cup {[key |-> k, val |-> v]}
    BY <1>2, <1>5, ChainedKeeps
  <2>2. /\ AllWell(space')
        /\ AllOf(space') = AllOf(space) \cup {[key |-> k, val |-> v]}
    BY <1>0, <1>1, <1>5, <2>1, AddOne
  <2> QED
    BY <1>0, <1>2, <1>5, <2>2
<1>6. CASE /\ ~e.used
           /\ space' = [space EXCEPT ![Slot(k)] = Filled(e, k, v)]
           /\ result' = TRUE /\ UNCHANGED crashed
  <2>1. PICK f : f = Filled(e, k, v)
    OBVIOUS
  <2>2. /\ Well(f, Slot(k))
        /\ BucketPairs(f) = BucketPairs(e) \cup {[key |-> k, val |-> v]}
    BY <1>2, <1>6, <2>1, FilledKeeps
  <2>3. space' = [space EXCEPT ![Slot(k)] = f]
    BY <1>6, <2>1
  <2>4. /\ AllWell(space')
        /\ AllOf(space') = AllOf(space) \cup {[key |-> k, val |-> v]}
    BY <1>0, <1>1, <2>2, <2>3, AddOne
  <2>5. ~Stored(e, k)
    BY <1>2, <1>6, PairFacts
  <2> QED
    BY <1>0, <1>2, <1>6, <2>4, <2>5
<1> QED
  BY <1>1, <1>3, <1>4, <1>5, <1>6 DEF hashMapPut

\* What hashMapDelete does to the pairs.
LEMMA DeleteFacts ==
  ASSUME IInv, NEW k \in Keys, hashMapDelete(k)
  PROVE  /\ AllWell(space') /\ crashed' = crashed
         /\ result' \in BOOLEAN /\ (result' = TRUE <=> k \in {p.key : p \in AllOf(space)})
         /\ AllOf(space') = {p \in AllOf(space) : p.key # k}
<1>0. AllWell(space) /\ crashed' = crashed
  BY DEF IInv, hashMapDelete
<1>1. PICK e : e = space[Slot(k)]
  OBVIOUS
<1>2. /\ Well(e, Slot(k))
      /\ Stored(e, k) <=> k \in {p.key : p \in AllOf(space)}
  BY <1>0, <1>1, SlotIn, AllFacts DEF AllWell
<1>3. CASE /\ e.key = k
           /\ space' = [space EXCEPT ![Slot(k)] = Beheaded(e)]
           /\ result' = TRUE
  <2>1. /\ Well(Beheaded(e), Slot(k))
        /\ BucketPairs(Beheaded(e)) = {p \in BucketPairs(e) : p.key # k}
    BY <1>2, <1>3, BeheadedKeeps
  <2>2. AllWell(space') /\ AllOf(space') = {p \in AllOf(space) : p.key # k}
    BY <1>0, <1>1, <1>3, <2>1, DropOne
  <2>3. Stored(e, k)
    BY <1>3 DEF Stored
  <2> QED
    BY <1>0, <1>2, <1>3, <2>2, <2>3
<1>4. CASE /\ e.key # k /\ hashChainSearch(e.chain, k) # {}
           /\ space' = [space EXCEPT ![Slot(k)] = Unchained(e, k)]
           /\ result' = TRUE
  <2>1. /\ Well(Unchained(e, k), Slot(k))
        /\ BucketPairs(Unchained(e, k)) = {p \in BucketPairs(e) : p.key # k}
    BY <1>2, <1>4, UnchainedKeeps
  <2>2. AllWell(space') /\ AllOf(space') = {p \in AllOf(space) : p.key # k}
    BY <1>0, <1>1, <1>4, <2>1, DropOne
  <2>3. Stored(e, k)
    BY <1>4 DEF Stored
  <2> QED
    BY <1>0, <1>2, <1>4, <2>2, <2>3
<1>5. CASE e.key # k /\ hashChainSearch(e.chain, k) = {} /\ result' = FALSE /\ UNCHANGED space
  <2>1. ~Stored(e, k)
    BY <1>5 DEF Stored
  <2>2. AllOf(space) = {p \in AllOf(space) : p.key # k}
    BY <1>2, <2>1
  <2> QED
    BY <1>0, <1>2, <1>5, <2>1, <2>2
<1> QED
  BY <1>1, <1>3, <1>4, <1>5 DEF hashMapDelete

LEMMA StepIInv == IInv /\ [Next]_vars => IInv'
<1> SUFFICES ASSUME IInv, [Next]_vars PROVE IInv'
  OBVIOUS
<1>1. ASSUME NEW k \in Keys, hashMapGet(k) PROVE IInv'
  <2>1. Got(space[Slot(k)], k) \in Vals \cup {NULL}
    BY GotFacts DEF IInv
  <2> QED
    BY <1>1, <2>1 DEF IInv, hashMapGet
<1>2. ASSUME NEW k \in Keys, hashMapDelete(k) PROVE IInv'
  <2>1. AllWell(space') /\ crashed' = crashed /\ result' \in BOOLEAN
    BY <1>2, DeleteFacts
  <2> QED
    BY <2>1 DEF IInv
<1>3. ASSUME NEW k \in Keys, NEW v \in Vals, hashMapPut(k, v) PROVE IInv'
  <2>1. /\ AllWell(space') /\ crashed' \in BOOLEAN
        /\ result' = result \/ result' \in BOOLEAN
    BY <1>3, PutFacts
  <2> QED
    BY <2>1 DEF IInv
<1>4. CASE UNCHANGED vars
  BY <1>4 DEF IInv, vars
<1> QED
  BY <1>1, <1>2, <1>3, <1>4 DEF Next

-----------------------------------------------------------------------------
LEMMA ContentsAre == Contents = AsMap(AllOf(space)) /\ AllPairs = AllOf(space)
<1>1. \A i : Pairs(i) = BucketPairs(space[i])
  BY DEF Pairs, BucketPairs
<1>2. AllPairs = AllOf(space)
  BY <1>1 DEF AllPairs, AllOf
<1> QED
  BY <1>2 DEF Contents, AsMap

LEMMA ImpliesTypeOK == IInv => TypeOK
<1> SUFFICES ASSUME IInv PROVE TypeOK
  OBVIOUS
<1>1. ASSUME NEW i \in Index
      PROVE  /\ space[i].used \in BOOLEAN /\ space[i].collide \in BOOLEAN
             /\ Pairs(i) \subseteq [key : Keys, val : Vals]
             /\ ~space[i].used => Pairs(i) = {} /\ ~space[i].collide
             /\ space[i].chain # <<>> => space[i].collide
  <2>1. PICK e : e = space[i]
    OBVIOUS
  <2>2. Well(e, i)
    BY <2>1 DEF IInv, AllWell
  <2>3. e.used \in BOOLEAN /\ e.collide \in BOOLEAN
    BY <2>2, BucketTypes
  <2>4. BucketPairs(e) \subseteq [key : Keys, val : Vals] /\ (~e.used => BucketPairs(e) = {})
    BY <2>2, PairFacts DEF Pair
  <2>5. (~e.used => ~e.collide) /\ (e.chain # <<>> => e.collide)
    BY <2>2 DEF Well
  <2>6. Pairs(i) = BucketPairs(e)
    BY <2>1 DEF Pairs, BucketPairs
  <2> QED
    BY <2>1, <2>3, <2>4, <2>5, <2>6
<1> QED
  BY <1>1 DEF TypeOK, IInv

LEMMA ImpliesKeysOnce == IInv => KeysOnce
<1> SUFFICES ASSUME IInv PROVE KeysOnce
  OBVIOUS
<1>1. \A p, q \in AllPairs : p.key = q.key => p = q
  BY ContentsAre, AllFacts DEF IInv, Unique
<1>2. ASSUME NEW i \in Index
      PROVE  /\ \A p \in Pairs(i) : Slot(p.key) = i
             /\ Cardinality(Pairs(i)) =
                  Len(space[i].chain) + IF space[i].key = NULL THEN 0 ELSE 1
  <2>1. PICK e : e = space[i]
    OBVIOUS
  <2>2. Well(e, i)
    BY <2>1 DEF IInv, AllWell
  <2>3. Pairs(i) = BucketPairs(e)
    BY <2>1 DEF Pairs, BucketPairs
  <2>4. \A p \in BucketPairs(e) : Slot(p.key) = i
    BY <2>2, PairFacts
  <2>5. Cardinality(BucketPairs(e)) = Len(e.chain) + IF e.key = NULL THEN 0 ELSE 1
    BY <2>2, PairCount
  <2> QED
    BY <2>1, <2>3, <2>4, <2>5
<1> QED
  BY <1>1, <1>2 DEF KeysOnce

MapStep ==
  \/ Map!Next
  \/ \E k \in Keys : Headless(Slot(k)) /\ UNCHANGED space

LEMMA StepIsMapStep ==
  ASSUME IInv, IInv', [Next]_vars
  PROVE  [MapStep]_<<Contents, result>>
<1>1. PICK A : A = AllOf(space)
  OBVIOUS
<1>2. PICK B : B = AllOf(space')
  OBVIOUS
<1>3. Contents = AsMap(A) /\ Contents' = AsMap(B)
  <2>1. Contents = AsMap(AllOf(space)) /\ (Contents = AsMap(AllOf(space)))'
    BY ContentsAre, PTL
  <2> QED
    BY <1>1, <1>2, <2>1
<1>4. Unique(A) /\ A \in SUBSET Pair /\ DOMAIN AsMap(A) = {p.key : p \in A}
  BY <1>1, AllFacts DEF IInv, AsMap
<1>5. ASSUME NEW k \in Keys, hashMapGet(k) PROVE MapStep
  <2>1. space' = space /\ result' = Got(space[Slot(k)], k) /\ B = A
    BY <1>1, <1>2, <1>5 DEF hashMapGet
  <2>2. CASE Headless(Slot(k))
    BY <2>1, <2>2 DEF MapStep
  <2>3. CASE ~Headless(Slot(k))
    <3>1. Got(space[Slot(k)], k) = IF k \in DOMAIN AsMap(A) THEN AsMap(A)[k] ELSE NULL
      BY <1>1, <2>3, GotFacts DEF IInv
    <3>2. Map!Get(k)
      BY <1>3, <2>1, <3>1 DEF Map!Get
    <3> QED
      BY <3>2 DEF MapStep, Map!Next
  <2> QED
    BY <2>2, <2>3
<1>6. ASSUME NEW k \in Keys, hashMapDelete(k) PROVE MapStep
  <2>1. /\ result' \in BOOLEAN /\ (result' = TRUE <=> k \in DOMAIN AsMap(A))
        /\ B = {p \in A : p.key # k}
    BY <1>1, <1>2, <1>4, <1>6, DeleteFacts
  <2>2. AsMap(B) = Restrict(AsMap(A), DOMAIN AsMap(A) \ {k})
    BY <1>4, <2>1, MapDrop
  <2>3. result' = (k \in DOMAIN AsMap(A))
    BY <2>1
  <2>4. Map!Delete(k)
    BY <1>3, <2>2, <2>3 DEF Map!Delete, Map!Restrict, Restrict
  <2> QED
    BY <2>4 DEF MapStep, Map!Next
<1>7. ASSUME NEW k \in Keys, NEW v \in Vals, hashMapPut(k, v) PROVE MapStep
  <2>1. \/ Headless(Slot(k)) /\ UNCHANGED space
        \/ k \in DOMAIN AsMap(A) /\ result' = FALSE /\ UNCHANGED space
        \/ /\ k \notin {p.key : p \in A} /\ result' = TRUE
           /\ B = A \cup {[key |-> k, val |-> v]}
    BY <1>1, <1>2, <1>4, <1>7, PutFacts
  <2>2. CASE Headless(Slot(k)) /\ UNCHANGED space
    BY <2>2 DEF MapStep
  <2>3. CASE k \in DOMAIN AsMap(A) /\ result' = FALSE /\ UNCHANGED space
    <3>1. Map!Put(k, v)
      BY <1>1, <1>2, <1>3, <2>3 DEF Map!Put
    <3> QED
      BY <3>1 DEF MapStep, Map!Next
  <2>4. CASE /\ k \notin {p.key : p \in A} /\ result' = TRUE
             /\ B = A \cup {[key |-> k, val |-> v]}
    <3>0. \A p \in A : p.key # k
      BY <2>4
    <3>1. /\ DOMAIN AsMap(B) = DOMAIN AsMap(A) \cup {k}
          /\ \A x \in DOMAIN AsMap(B) : AsMap(B)[x] = IF x = k THEN v ELSE AsMap(A)[x]
      BY <1>4, <2>4, <3>0, MapAdd
    <3>3. AsMap(B) = [x \in DOMAIN AsMap(B) |-> AsMap(B)[x]]
      BY DEF AsMap
    <3>4. AsMap(B) = [x \in DOMAIN AsMap(A) \cup {k} |-> IF x = k THEN v ELSE AsMap(A)[x]]
      BY <3>1, <3>3
    <3>2. Map!Put(k, v)
      BY <1>3, <1>4, <2>4, <3>4 DEF Map!Put
    <3> QED
      BY <3>2 DEF MapStep, Map!Next
  <2> QED
    BY <2>1, <2>2, <2>3, <2>4
<1>8. CASE UNCHANGED vars
  BY <1>1, <1>2, <1>3, <1>8 DEF vars
<1> QED
  BY <1>5, <1>6, <1>7, <1>8 DEF Next

-----------------------------------------------------------------------------
\* Buckets, heads and chains have their types, a chain is never hidden by a
\* bucket that says it has none (TypeOK).
THEOREM MapTypes == Spec => []TypeOK
BY ImpliesTypeOK, InitIInv, StepIInv, PTL DEF Spec

\* No key is stored twice and each is in the bucket its hash value names, for
\* every hash function and number of buckets (KeysOnce).
THEOREM KeysAreOnce == Spec => []KeysOnce
BY ImpliesKeysOnce, InitIInv, StepIInv, PTL DEF Spec

\* Each call of hash.c is the call of a map, except those that meet a bucket
\* whose head was deleted, which change nothing (IsMapWithHeads).
THEOREM HashIsMap == Spec => IsMapWithHeads
BY StepIsMapStep, InitIInv, StepIInv, PTL DEF Spec, IsMapWithHeads, MapStep
=============================================================================
