---------------------------- MODULE ImportListProofs ----------------------------
(***************************************************************************)
(* What an IMPORTS statement allocates is named by one list at a time,     *)
(* none of it is used or freed after it was freed, and a file keeps what   *)
(* its own clause asked for: for every set of symbols, number of buckets,  *)
(* hash function and bounds.                                               *)
(*                                                                         *)
(* What the operations do to a map is what HashMapProofs proves of them.   *)
(***************************************************************************)
EXTENDS ImportList, SequenceTheorems, FiniteSetTheorems, WellFoundedInduction, TLAPS

H == INSTANCE HashMapProofs WITH Vals <- Nat, space <- Empty, result <- NULL, crashed <- FALSE

\* The operations of the map are those of this module.
LEMMA SameMap ==
  /\ H!Index = Index /\ \A k : H!Slot(k) = Slot(k)
  /\ \A e, k : H!Stored(e, k) <=> Stored(e, k)
  /\ \A e, k, v : H!Chained(e, k, v) = Chained(e, k, v) /\ H!Filled(e, k, v) = Filled(e, k, v)
  /\ \A e, k : H!Unchained(e, k) = Unchained(e, k) /\ H!Beheaded(e) = Beheaded(e)
  /\ \A e : H!BucketPairs(e) = BucketPairs(e)
  /\ \A s : H!AllOf(s) = PairsOf(s)
<1>1. H!Index = Index /\ \A k : H!Slot(k) = Slot(k)
  BY DEF H!Index, Index, H!Slot, Slot
<1>2. \A e, k : H!Stored(e, k) <=> Stored(e, k)
  BY DEF H!Stored, Stored, H!hashChainSearch, hashChainSearch
<1>3. \A e, k, v : H!Chained(e, k, v) = Chained(e, k, v) /\ H!Filled(e, k, v) = Filled(e, k, v)
  BY DEF H!Chained, Chained, H!Filled, Filled
<1>4. \A e, k : H!Unchained(e, k) = Unchained(e, k) /\ H!Beheaded(e) = Beheaded(e)
  <2>1. \A chain, k : H!hashChainSearch(chain, k) = hashChainSearch(chain, k)
    BY DEF H!hashChainSearch, hashChainSearch
  <2>2. ASSUME NEW e, NEW k PROVE H!Unchained(e, k) = Unchained(e, k)
    <3>1. H!hashChainSearch(e.chain, k) = hashChainSearch(e.chain, k)
      BY <2>1
    <3>2. (CHOOSE j \in H!hashChainSearch(e.chain, k) : TRUE)
            = CHOOSE j \in hashChainSearch(e.chain, k) : TRUE
      BY <3>1
    <3>3. PICK c : c = CHOOSE j \in hashChainSearch(e.chain, k) : TRUE
      OBVIOUS
    <3>4. H!Unchained(e, k) = [e EXCEPT !.chain = H!RemoveAt(@, c)]
      BY <3>2, <3>3, Zenon DEF H!Unchained
    <3>5. Unchained(e, k) = [e EXCEPT !.chain = RemoveAt(@, c)]
      BY <3>3, Zenon DEF Unchained
    <3> QED
      BY <3>4, <3>5 DEF H!RemoveAt, RemoveAt
  <2> QED
    BY <2>2 DEF H!Beheaded, Beheaded
<1>5. \A e : H!BucketPairs(e) = BucketPairs(e)
  BY DEF H!BucketPairs, BucketPairs
<1>6. \A s : H!AllOf(s) = PairsOf(s)
  BY <1>1, <1>5 DEF H!AllOf, PairsOf
<1> QED
  BY <1>1, <1>2, <1>3, <1>4, <1>5, <1>6

LEMMA Assumptions ==
  size \in Nat \ {0} /\ hashFunc \in [Keys -> Nat] /\ NULL \notin Keys /\ NULL \notin Nat
BY HashAssumption, ImportAssumption

Pair == [key : Keys, val : Nat]

\* A map: a key stands once, in the bucket of its hash.
Well(s) == H!AllWell(s)

LEMMA WellIs ==
  ASSUME NEW s, Well(s)
  PROVE  /\ s \in [Index -> Bucket] /\ \A i \in Index : H!Well(s[i], i)
         /\ PairsOf(s) \subseteq Pair
         /\ \A p, q \in PairsOf(s) : p.key = q.key => p = q
         /\ \A p : p \in PairsOf(s) <=> \E i \in Index : p \in BucketPairs(s[i])
         /\ \A k \in Keys : Slot(k) \in Index /\ (Stored(s[Slot(k)], k) <=> k \in KeysOf(s))
<1>1. s \in [Index -> Bucket] /\ \A i \in Index : H!Well(s[i], i)
  <2>1. H!Bucket = Bucket
    BY DEF H!Bucket, Bucket, H!Pair
  <2> QED
    BY <2>1, SameMap DEF Well, H!AllWell
<1>2. /\ H!AllOf(s) \subseteq H!Pair /\ H!Unique(H!AllOf(s))
      /\ \A p : p \in H!AllOf(s) <=> \E i \in H!Index : p \in H!BucketPairs(s[i])
      /\ \A k \in Keys : H!Stored(s[H!Slot(k)], k) <=> k \in {p.key : p \in H!AllOf(s)}
  BY Assumptions, H!AllFacts DEF Well
<1>3. \A k \in Keys : Slot(k) \in Index
  BY Assumptions, H!SlotIn, SameMap
<1>4. \A k \in Keys : Stored(s[Slot(k)], k) <=> k \in KeysOf(s)
  BY <1>2, SameMap DEF KeysOf
<1>5. PairsOf(s) \subseteq Pair /\ \A p, q \in PairsOf(s) : p.key = q.key => p = q
  BY <1>2, SameMap DEF H!Unique, H!Pair, Pair
<1>6. \A p : p \in PairsOf(s) <=> \E i \in Index : p \in BucketPairs(s[i])
  BY DEF PairsOf
<1> QED
  BY <1>1, <1>3, <1>4, <1>5, <1>6

LEMMA EmptyIs == Well(Empty) /\ PairsOf(Empty) = {} /\ \A i \in Index : ~Empty[i].used
<1>1. H!AllWell(Empty)
  <2>1. H!Init
    BY DEF H!Init, H!Empty, Empty, H!Index, Index
  <2> QED
    BY <2>1, Assumptions, H!InitIInv DEF H!IInv
<1>2. \A i \in Index : ~Empty[i].used
  BY DEF Empty
<1>3. \A i \in Index : H!Well(Empty[i], i)
  BY <1>1, WellIs DEF Well
<1>4. \A i \in Index : H!BucketPairs(Empty[i]) = {}
  BY <1>2, <1>3, Assumptions, H!PairFacts
<1>5. PairsOf(Empty) = {}
  BY <1>4, SameMap DEF PairsOf
<1> QED
  BY <1>1, <1>2, <1>5 DEF Well

\* A bucket of a map is exchanged.
LEMMA OneBucket ==
  ASSUME NEW s, Well(s), NEW k \in Keys, NEW f, H!Well(f, Slot(k))
  PROVE  /\ Well([s EXCEPT ![Slot(k)] = f])
         /\ \A p : p \in PairsOf([s EXCEPT ![Slot(k)] = f]) <=>
              \/ p \in BucketPairs(f)
              \/ p \in PairsOf(s) /\ p \notin BucketPairs(s[Slot(k)])
         /\ \A p : p \in BucketPairs(s[Slot(k)]) => p \in PairsOf(s)
         /\ \A p \in PairsOf(s) : p.key = k => p \in BucketPairs(s[Slot(k)])
<1>1. H!AllWell(s) /\ H!Well(f, H!Slot(k))
  BY SameMap DEF Well
<1>2. /\ H!AllWell([s EXCEPT ![H!Slot(k)] = f])
      /\ \A p : p \in H!AllOf([s EXCEPT ![H!Slot(k)] = f]) <=>
           \/ p \in H!BucketPairs(f)
           \/ p \in H!AllOf(s) /\ p \notin H!BucketPairs(s[H!Slot(k)])
      /\ \A p : p \in H!BucketPairs(s[H!Slot(k)]) => p \in H!AllOf(s)
      /\ \A p \in H!AllOf(s) : p.key = k => p \in H!BucketPairs(s[H!Slot(k)])
  BY <1>1, Assumptions, H!OneBucket
<1> QED
  BY <1>2, SameMap, Zenon DEF Well
-----------------------------------------------------------------------------
\* Every set of numbers has a least one: the library's principle takes an operator,
\* this one a set.
LEMMA LeastNat ==
  ASSUME NEW S \in SUBSET Nat, S # {}
  PROVE  \E m \in S : \A x \in S : m <= x
<1>1. PICK U : U = {0..n : n \in S}
  OBVIOUS
<1>2. ASSUME NEW t \in U PROVE t \in FiniteSubsetsOf(Nat)
  <2>1. PICK n \in S : t = 0..n
    BY <1>1
  <2>2. IsFiniteSet(0..n) /\ 0..n \in SUBSET Nat
    BY FS_Interval
  <2> QED
    BY <2>1, <2>2 DEF FiniteSubsetsOf
<1>3. PICK t \in U : \A y \in U : <<y, t>> \notin StrictSubsetOrdering(Nat)
  <2>1. U \subseteq FiniteSubsetsOf(Nat) /\ U # {}
    BY <1>1, <1>2
  <2> QED
    BY <2>1, FS_StrictSubsetOrderingWellFounded, WFMin, Zenon
<1>4. PICK m \in S : t = 0..m
  BY <1>1
<1>5. ASSUME NEW x \in S, x < m PROVE FALSE
  <2>1. 0..x \in U
    BY <1>1
  <2>2. 0..x \subseteq 0..m /\ 0..x \in SUBSET Nat /\ 0..m \in SUBSET Nat
    BY <1>5
  <2>3. m \in 0..m /\ m \notin 0..x
    BY <1>5
  <2>4. <<0..x, 0..m>> \in StrictSubsetOrdering(Nat)
    BY <2>2, <2>3 DEF StrictSubsetOrdering
  <2> QED
    BY <1>3, <1>4, <2>1, <2>4
<1>6. \A x \in S : m <= x
  <2>1. \A x \in S : x \in Nat /\ m \in Nat
    OBVIOUS
  <2> QED
    BY <1>5, <2>1
<1> QED
  BY <1>6

\* Induction, for a set.
LEMMA Grows ==
  ASSUME NEW S, 0 \in S, \A n \in Nat : n \in S => n + 1 \in S
  PROVE  Nat \subseteq S
<1>1. SUFFICES ASSUME Nat \ S # {} PROVE FALSE
  OBVIOUS
<1>2. PICK m \in Nat \ S : \A x \in Nat \ S : m <= x
  <2>1. Nat \ S \in SUBSET Nat
    OBVIOUS
  <2> QED
    BY <1>1, <2>1, LeastNat
<1>3. m # 0 /\ m - 1 \in Nat /\ ~(m <= m - 1)
  OBVIOUS
<1>4. m - 1 \in S
  BY <1>2, <1>3
<1> QED
  BY <1>3, <1>4


-----------------------------------------------------------------------------
(***************************************************************************)
(* A map is filled.                                                        *)
(***************************************************************************)
\* No bucket has lost its head: nothing was deleted yet.
Headed(s) == \A i \in Index : s[i].used => s[i].key # NULL

LEMMA PutIs ==
  ASSUME NEW s, Well(s), Headed(s), NEW k \in Keys, k \notin KeysOf(s), NEW b \in Nat
  PROVE  /\ Well(hashMapPut(s, k, b)) /\ Headed(hashMapPut(s, k, b))
         /\ PairsOf(hashMapPut(s, k, b)) = PairsOf(s) \cup {[key |-> k, val |-> b]}
<1>1. PICK e : e = s[Slot(k)]
  OBVIOUS
<1>2. /\ Slot(k) \in Index /\ ~Stored(e, k) /\ H!Well(e, Slot(k))
      /\ s \in [Index -> Bucket]
  BY <1>1, WellIs
<1>3. PICK f : f = IF e.used THEN Chained(e, k, b) ELSE Filled(e, k, b)
  OBVIOUS
<1>4. PICK t : t = [s EXCEPT ![Slot(k)] = f]
  OBVIOUS
<1>5. t = hashMapPut(s, k, b)
  BY <1>1, <1>3, <1>4 DEF hashMapPut
<1>6. /\ H!Well(f, Slot(k)) /\ f.key # NULL
      /\ BucketPairs(f) = BucketPairs(e) \cup {[key |-> k, val |-> b]}
  <2>1. CASE e.used
    <3>1. e.key # NULL /\ ~H!Stored(e, k) /\ H!Well(e, H!Slot(k))
      BY <1>1, <1>2, <2>1, SameMap DEF Headed
    <3>2. /\ H!Well(H!Chained(e, k, b), H!Slot(k))
          /\ H!BucketPairs(H!Chained(e, k, b)) = H!BucketPairs(e) \cup {[key |-> k, val |-> b]}
      BY <2>1, <3>1, Assumptions, H!ChainedKeeps
    <3>3. f = Chained(e, k, b) /\ e \in Bucket
      BY <1>1, <1>2, <1>3, <2>1
    <3>4. f.key # NULL
      BY <3>1, <3>3 DEF Chained, Bucket
    <3> QED
      BY <3>2, <3>3, <3>4, SameMap
  <2>2. CASE ~e.used
    <3>1. H!Well(e, H!Slot(k))
      BY <1>2, SameMap
    <3>2. /\ H!Well(H!Filled(e, k, b), H!Slot(k))
          /\ H!BucketPairs(H!Filled(e, k, b)) = H!BucketPairs(e) \cup {[key |-> k, val |-> b]}
      BY <2>2, <3>1, Assumptions, H!FilledKeeps
    <3>3. f = Filled(e, k, b) /\ e \in Bucket
      BY <1>1, <1>2, <1>3, <2>2
    <3>4. f.key # NULL
      BY <3>3, Assumptions DEF Filled, Bucket
    <3> QED
      BY <3>2, <3>3, <3>4, SameMap
  <2> QED
    BY <2>1, <2>2
<1>7. /\ Well(t)
      /\ \A p : p \in PairsOf(t) <=>
           \/ p \in BucketPairs(f)
           \/ p \in PairsOf(s) /\ p \notin BucketPairs(e)
      /\ \A p : p \in BucketPairs(e) => p \in PairsOf(s)
  BY <1>1, <1>4, <1>6, OneBucket
<1>8. Headed(t)
  BY <1>2, <1>4, <1>6 DEF Headed
<1>9. PairsOf(t) = PairsOf(s) \cup {[key |-> k, val |-> b]}
  BY <1>6, <1>7
<1> QED
  BY <1>5, <1>7, <1>8, <1>9

Param(n) == [param : Keys, block : 1..n]

\* The pairs of the first m parameters of a chain.
PairsUpTo(params, base, m) == {[key |-> params[j].param, val |-> base + j] : j \in 1..m}

\* The recursion has a solution: the map after every parameter.
LEMMA CollectedSolution ==
  ASSUME NEW params, Len(params) \in Nat, NEW base
  PROVE  \E map :
           /\ map = [m \in 0..Len(params) |-> IF m = 0 THEN Empty
                       ELSE hashMapPut(map[m - 1], params[m].param, base + m)]
           /\ Collected(params, base) = map[Len(params)]
<1>1. PICK l \in Nat : l = Len(params)
  OBVIOUS
<1>2. PICK S : S = {k \in Nat : \E f : \A m \in 0..l : m <= k =>
                 f[m] = IF m = 0 THEN Empty ELSE hashMapPut(f[m - 1], params[m].param, base + m)}
  OBVIOUS
<1>3. 0 \in S
  <2>1. \A m \in 0..l : m <= 0 => m = 0
    OBVIOUS
  <2>2. PICK f : f = [m \in 0..l |-> Empty]
    OBVIOUS
  <2>3. \A m \in 0..l : m <= 0 =>
          f[m] = IF m = 0 THEN Empty ELSE hashMapPut(f[m - 1], params[m].param, base + m)
    BY <2>1, <2>2
  <2> QED
    BY <1>2, <2>3
<1>4. ASSUME NEW k \in Nat, k \in S PROVE k + 1 \in S
  <2>1. PICK f : \A m \in 0..l : m <= k =>
          f[m] = IF m = 0 THEN Empty ELSE hashMapPut(f[m - 1], params[m].param, base + m)
    BY <1>2, <1>4
  <2>2. PICK g : g = [m \in 0..l |->
          IF m = 0 THEN Empty ELSE hashMapPut(f[m - 1], params[m].param, base + m)]
    OBVIOUS
  <2>3. \A m \in 0..l : m <= k => g[m] = f[m]
    BY <2>1, <2>2, Zenon
  <2>4. \A m \in 0..l : m # 0 /\ m <= k + 1 => m - 1 \in 0..l /\ m - 1 <= k
    OBVIOUS
  <2>5. ASSUME NEW m \in 0..l, m <= k + 1
        PROVE  g[m] = IF m = 0 THEN Empty ELSE hashMapPut(g[m - 1], params[m].param, base + m)
    <3>1. g[m] = IF m = 0 THEN Empty ELSE hashMapPut(f[m - 1], params[m].param, base + m)
      BY <2>2, Zenon
    <3>2. m # 0 => g[m - 1] = f[m - 1]
      BY <2>3, <2>4, <2>5
    <3> QED
      BY <3>1, <3>2, Zenon
  <2>6. k + 1 \in Nat
    OBVIOUS
  <2>7. \E h : \A m \in 0..l : m <= k + 1 =>
          h[m] = IF m = 0 THEN Empty ELSE hashMapPut(h[m - 1], params[m].param, base + m)
    BY <2>5, Zenon
  <2> QED
    BY <1>2, <2>6, <2>7
<1>5. l \in S
  <2>1. \A k \in Nat : k \in S
    <3>1. \A k \in Nat : k \in S => k + 1 \in S
      BY <1>4
    <3> QED
      BY <1>3, <3>1, Grows
  <2> QED
    BY <2>1
<1>6. PICK f : \A m \in 0..l : m <= l =>
        f[m] = IF m = 0 THEN Empty ELSE hashMapPut(f[m - 1], params[m].param, base + m)
  BY <1>2, <1>5
<1>7. PICK map : map = [m \in 0..l |-> f[m]]
  OBVIOUS
<1>8. \A m \in 0..l : (m # 0 => m - 1 \in 0..l) /\ m <= l
  OBVIOUS
<1>9. map = [m \in 0..l |-> IF m = 0 THEN Empty
               ELSE hashMapPut(map[m - 1], params[m].param, base + m)]
  <2>1. \A m \in 0..l : f[m] = IF m = 0 THEN Empty
          ELSE hashMapPut(map[m - 1], params[m].param, base + m)
    BY <1>6, <1>7, <1>8, Zenon
  <2> QED
    BY <1>7, <2>1, Zenon
<1>10. \E map2 :
         /\ map2 = [m \in 0..Len(params) |-> IF m = 0 THEN Empty
                      ELSE hashMapPut(map2[m - 1], params[m].param, base + m)]
         /\ Collected(params, base) = map2[Len(params)]
  <2>1. PICK c : c = CHOOSE map2 : map2 = [m \in 0..Len(params) |-> IF m = 0 THEN Empty
                      ELSE hashMapPut(map2[m - 1], params[m].param, base + m)]
    OBVIOUS
  <2>2. c = [m \in 0..Len(params) |-> IF m = 0 THEN Empty
                      ELSE hashMapPut(c[m - 1], params[m].param, base + m)]
    BY <1>1, <1>9, <2>1, Zenon
  <2>3. Collected(params, base) =
          (CHOOSE map2 : map2 = [m \in 0..Len(params) |-> IF m = 0 THEN Empty
             ELSE hashMapPut(map2[m - 1], params[m].param, base + m)])[Len(params)]
    BY DEF Collected
  <2>4. Collected(params, base) = c[Len(params)]
    BY <2>1, <2>3, Zenon
  <2> QED
    BY <2>2, <2>4, Zenon
<1> QED
  BY <1>10

LEMMA CollectedIs ==
  ASSUME NEW n \in Nat, NEW params \in Seq(Param(n)), ~Conflict(params), NEW base \in Nat
  PROVE  /\ Well(Collected(params, base))
         /\ PairsOf(Collected(params, base)) = PairsUpTo(params, base, Len(params))
<1>1. PICK l \in Nat : l = Len(params) /\ DOMAIN params = 1..l
  OBVIOUS
<1>2. PICK map : /\ map = [m \in 0..l |-> IF m = 0 THEN Empty
                             ELSE hashMapPut(map[m - 1], params[m].param, base + m)]
                 /\ Collected(params, base) = map[l]
  BY <1>1, CollectedSolution
<1>3. /\ 0 \in 0..l /\ map[0] = Empty
      /\ \A m \in 1..l : m - 1 \in 0..l /\ map[m] = hashMapPut(map[m - 1], params[m].param, base + m)
  <2>1. \A m \in 0..l : map[m] = IF m = 0 THEN Empty
                          ELSE hashMapPut(map[m - 1], params[m].param, base + m)
    BY <1>2, Zenon
  <2>2. \A m \in 1..l : m \in 0..l /\ m # 0 /\ m - 1 \in 0..l
    OBVIOUS
  <2> QED
    BY <1>1, <2>1, <2>2
<1>4. PICK S : S = {k \in Nat : k <= l => /\ Well(map[k]) /\ Headed(map[k])
                                         /\ PairsOf(map[k]) = PairsUpTo(params, base, k)}
  OBVIOUS
<1>5. 0 \in S
  <2>1. PairsUpTo(params, base, 0) = {}
    BY DEF PairsUpTo
  <2>2. Headed(Empty)
    BY EmptyIs DEF Headed
  <2> QED
    BY <1>3, <1>4, <2>1, <2>2, EmptyIs
<1>6. ASSUME NEW k \in Nat, k \in S PROVE k + 1 \in S
  <2> SUFFICES ASSUME k + 1 <= l
               PROVE  /\ Well(map[k + 1]) /\ Headed(map[k + 1])
                      /\ PairsOf(map[k + 1]) = PairsUpTo(params, base, k + 1)
    BY <1>4
  <2>1. PICK m \in 1..l : m = k + 1 /\ m - 1 = k
    <3>1. k + 1 \in 1..l /\ (k + 1) - 1 = k
      BY <1>1
    <3> QED
      BY <3>1
  <2>2. /\ Well(map[k]) /\ Headed(map[k]) /\ PairsOf(map[k]) = PairsUpTo(params, base, k)
    <3>1. k <= l
      BY <1>1
    <3> QED
      BY <1>4, <1>6, <3>1
  <2>3. params[m].param \in Keys /\ base + m \in Nat
    <3>1. params[m] \in Param(n)
      BY <1>1
    <3> QED
      BY <3>1 DEF Param
  <2>4. params[m].param \notin KeysOf(map[k])
    <3>1. \A j \in 1..k : params[j].param # params[m].param
      <4>1. \A j \in 1..k : j \in DOMAIN params /\ m \in DOMAIN params /\ j < m
        BY <1>1, <2>1
      <4> QED
        BY <4>1 DEF Conflict
    <3> QED
      BY <2>2, <3>1 DEF KeysOf, PairsUpTo
  <2>5. /\ Well(map[m]) /\ Headed(map[m])
        /\ PairsOf(map[m]) = PairsOf(map[k]) \cup {[key |-> params[m].param, val |-> base + m]}
    BY <1>3, <2>1, <2>2, <2>3, <2>4, PutIs
  <2>6. PairsUpTo(params, base, m)
          = PairsUpTo(params, base, k) \cup {[key |-> params[m].param, val |-> base + m]}
    <3>1. \A j : j \in 1..m <=> j \in 1..k \/ j = m
      BY <2>1
    <3> QED
      BY <3>1, Zenon DEF PairsUpTo
  <2> QED
    BY <2>1, <2>2, <2>5, <2>6
<1>7. l \in S
  <2>1. \A k \in Nat : k \in S => k + 1 \in S
    BY <1>6
  <2> QED
    BY <1>5, <2>1, Grows
<1> QED
  BY <1>1, <1>2, <1>4, <1>7

\* The map of a clause has the symbols of the chain, and fresh blocks.
LEMMA CollectedFresh ==
  ASSUME NEW n \in Nat, NEW params \in Seq(Param(n)), ~Conflict(params)
  PROVE  /\ Well(Collected(params, n))
         /\ KeysOf(Collected(params, n)) = {params[i].param : i \in DOMAIN params}
         /\ BlocksOf(Collected(params, n)) \subseteq (n + 1)..(n + Len(params))
         /\ \A p, q \in PairsOf(Collected(params, n)) : p.val = q.val => p = q
<1>1. PICK s : s = Collected(params, n)
  OBVIOUS
<1>2. PICK l \in Nat : l = Len(params) /\ DOMAIN params = 1..l
  OBVIOUS
<1>3. Well(s) /\ PairsOf(s) = PairsUpTo(params, n, l)
  BY <1>1, <1>2, CollectedIs
<1>4. \A j \in 1..l : n + j \in (n + 1)..(n + l)
  OBVIOUS
<1>5. \A p \in PairsOf(s) : \E j \in 1..l : p = [key |-> params[j].param, val |-> n + j]
  BY <1>3 DEF PairsUpTo
<1>6. \A j \in 1..l : \E p \in PairsOf(s) : p = [key |-> params[j].param, val |-> n + j]
  BY <1>3 DEF PairsUpTo
<1>7. KeysOf(s) = {params[i].param : i \in DOMAIN params}
  <2>1. \A x \in KeysOf(s) : \E j \in 1..l : x = params[j].param
    BY <1>5 DEF KeysOf
  <2>2. \A j \in 1..l : params[j].param \in KeysOf(s)
    BY <1>6 DEF KeysOf
  <2> QED
    BY <1>2, <2>1, <2>2
<1>8. BlocksOf(s) \subseteq (n + 1)..(n + l)
  BY <1>4, <1>5 DEF BlocksOf
<1>9. \A p, q \in PairsOf(s) : p.val = q.val => p = q
  <2> SUFFICES ASSUME NEW p \in PairsOf(s), NEW q \in PairsOf(s), p.val = q.val PROVE p = q
    OBVIOUS
  <2>1. PICK i \in 1..l : p = [key |-> params[i].param, val |-> n + i]
    BY <1>5
  <2>2. PICK j \in 1..l : q = [key |-> params[j].param, val |-> n + j]
    BY <1>5
  <2>3. n + i = n + j
    BY <2>1, <2>2
  <2>4. i = j
    BY <2>3
  <2> QED
    BY <2>1, <2>2, <2>4
<1> QED
  BY <1>1, <1>2, <1>3, <1>7, <1>8, <1>9

-----------------------------------------------------------------------------
(***************************************************************************)
(* A map is copied, released, and asked for less.                          *)
(***************************************************************************)
Shifted(n, p) == [key |-> p.key, val |-> n + p.val]

\* What hashMapDup makes of a bucket.
Copy(n, e) ==
  [e EXCEPT !.val   = IF @ = NULL THEN NULL ELSE n + @,
            !.chain = [j \in DOMAIN @ |-> Shifted(n, @[j])]]

LEMMA CopyIs ==
  ASSUME NEW n \in Nat, NEW i, NEW e, H!Well(e, i)
  PROVE  /\ H!Well(Copy(n, e), i)
         /\ BucketPairs(Copy(n, e)) = {Shifted(n, p) : p \in BucketPairs(e)}
<1>1. PICK c : c = [j \in DOMAIN e.chain |-> Shifted(n, e.chain[j])]
  OBVIOUS
<1>2. PICK v : v = IF e.val = NULL THEN NULL ELSE n + e.val
  OBVIOUS
<1>3. PICK f : f = [e EXCEPT !.val = v, !.chain = c]
  OBVIOUS
<1>4. f = Copy(n, e)
  BY <1>1, <1>2, <1>3 DEF Copy
<1>5. PICK L \in Nat : L = Len(e.chain) /\ DOMAIN e.chain = 1..L
  BY Assumptions, H!BucketTypes
<1>6. e \in H!Bucket /\ \A j \in 1..L : e.chain[j] \in Pair
  BY <1>5, Assumptions, H!BucketTypes DEF H!Well, H!Pair, Pair
<1>7. \A j \in 1..L : c[j] = Shifted(n, e.chain[j]) /\ c[j] \in Pair
  <2> SUFFICES ASSUME NEW j \in 1..L PROVE c[j] = Shifted(n, e.chain[j]) /\ c[j] \in Pair
    OBVIOUS
  <2>1. PICK p \in Pair : p = e.chain[j]
    BY <1>6
  <2>3. c[j] = Shifted(n, p)
    BY <1>1, <1>5, <2>1
  <2>4. p.key \in Keys /\ p.val \in Nat
    BY DEF Pair
  <2>5. n + p.val \in Nat
    BY <2>4
  <2> QED
    BY <2>1, <2>3, <2>4, <2>5 DEF Shifted, Pair
<1>8. c \in Seq(Pair) /\ Len(c) = L /\ DOMAIN c = 1..L
  <2>1. c \in [1..L -> Pair]
    BY <1>1, <1>5, <1>7
  <2> QED
    BY <2>1
<1>9. v \in Nat \cup {NULL} /\ (e.key # NULL => e.val \in Nat /\ v = n + e.val)
  <2>1. e.val \in Nat \cup {NULL} /\ (e.key # NULL => e.val \in Nat)
    BY <1>6 DEF H!Bucket, H!Well
  <2> QED
    BY <1>2, <2>1, Assumptions
<1>10. /\ f.used = e.used /\ f.collide = e.collide /\ f.key = e.key /\ f.val = v /\ f.chain = c
       /\ f \in H!Bucket
  BY <1>3, <1>6, <1>8, <1>9 DEF H!Bucket, H!Pair, Pair
<1>11. \A j \in 1..L : c[j].key = e.chain[j].key
  <2>1. ASSUME NEW j \in 1..L PROVE c[j].key = e.chain[j].key
    <3>1. PICK p : p = e.chain[j]
      OBVIOUS
    <3>2. c[j] = Shifted(n, p)
      BY <1>7, <3>1
    <3> QED
      BY <3>1, <3>2 DEF Shifted
  <2> QED
    BY <2>1
<1>12. H!Well(f, i)
  <2>1. f.key # NULL => f.val \in Nat /\ H!Slot(f.key) = i
    <3>1. e.key # NULL => H!Slot(e.key) = i
      BY DEF H!Well
    <3> QED
      BY <1>9, <1>10, <3>1
  <2>2. \A j \in 1..Len(f.chain) : H!Slot(f.chain[j].key) = i /\ f.chain[j].key # f.key
    <3>1. \A j \in 1..L : H!Slot(e.chain[j].key) = i /\ e.chain[j].key # e.key
      BY <1>5 DEF H!Well
    <3> QED
      BY <1>8, <1>10, <1>11, <3>1
  <2>3. \A j, l \in 1..Len(f.chain) : f.chain[j].key = f.chain[l].key => j = l
    <3>1. \A j, l \in 1..L : e.chain[j].key = e.chain[l].key => j = l
      BY <1>5 DEF H!Well
    <3> QED
      BY <1>8, <1>10, <1>11, <3>1
  <2>4. e.chain = <<>> <=> c = <<>>
    BY <1>5, <1>6, <1>8 DEF H!Bucket
  <2>5. /\ ~f.used => f.key = NULL /\ f.chain = <<>> /\ ~f.collide
        /\ f.chain # <<>> => f.collide
    BY <1>10, <2>4 DEF H!Well
  <2> QED
    BY <1>10, <2>1, <2>2, <2>3, <2>5 DEF H!Well
<1>13. BucketPairs(f) = {Shifted(n, p) : p \in BucketPairs(e)}
  <2>1. BucketPairs(e) = {e.chain[j] : j \in 1..L} \cup
          IF e.key = NULL THEN {} ELSE {[key |-> e.key, val |-> e.val]}
    BY <1>5 DEF BucketPairs
  <2>2. BucketPairs(f) = {c[j] : j \in 1..L} \cup
          IF e.key = NULL THEN {} ELSE {[key |-> e.key, val |-> v]}
    BY <1>8, <1>10 DEF BucketPairs
  <2>3. {c[j] : j \in 1..L} = {Shifted(n, e.chain[j]) : j \in 1..L}
    BY <1>7
  <2>4. e.key # NULL => [key |-> e.key, val |-> v] = Shifted(n, [key |-> e.key, val |-> e.val])
    BY <1>9 DEF Shifted
  <2> QED
    BY <2>1, <2>2, <2>3, <2>4
<1> QED
  BY <1>4, <1>12, <1>13

\* The copy has the keys of the map and the blocks that are allocated for it.
LEMMA DupIs ==
  ASSUME NEW s, Well(s), last \in Nat
  PROVE  /\ Well(hashMapDup(s))
         /\ PairsOf(hashMapDup(s)) = {Shifted(last, p) : p \in PairsOf(s)}
<1>0. PICK n \in Nat : n = last
  OBVIOUS
<1>1. PICK t : t = hashMapDup(s)
  OBVIOUS
<1>2. t = [i \in Index |-> Copy(n, s[i])]
  BY <1>0, <1>1, Zenon DEF hashMapDup, Copy, Shifted
<1>3. ASSUME NEW i \in Index
      PROVE  /\ H!Well(t[i], i)
             /\ BucketPairs(t[i]) = {Shifted(n, p) : p \in BucketPairs(s[i])}
  <2>1. H!Well(s[i], i) /\ t[i] = Copy(n, s[i])
    BY <1>2, WellIs
  <2> QED
    BY <2>1, CopyIs
<1>4. Well(t)
  <2>1. \A i \in Index : t[i] \in H!Bucket
    BY <1>3 DEF H!Well
  <2>2. t \in [Index -> H!Bucket]
    BY <1>2, <2>1
  <2> QED
    BY <1>3, <2>2, SameMap DEF Well, H!AllWell
<1>5. PairsOf(t) = {Shifted(n, p) : p \in PairsOf(s)}
  BY <1>3 DEF PairsOf
<1> QED
  BY <1>0, <1>1, <1>4, <1>5

\* Nothing is released that is not in the map.
LEMMA ReleaseIs ==
  ASSUME NEW s, Well(s) PROVE hashMapRelease(s) \subseteq BlocksOf(s)
<1> SUFFICES ASSUME NEW b \in hashMapRelease(s) PROVE \E p \in PairsOf(s) : p.val = b
  BY DEF BlocksOf
<1>1. CASE b \in {s[i].val : i \in {n \in Index : s[n].key # NULL}}
  <2>1. PICK i \in Index : s[i].key # NULL /\ b = s[i].val
    BY <1>1
  <2>2. [key |-> s[i].key, val |-> b] \in BucketPairs(s[i])
    BY <2>1 DEF BucketPairs
  <2> QED
    BY <2>2 DEF PairsOf
<1>2. CASE b \in UNION {hashChainRelease(s[i].chain) : i \in Index}
  <2>1. PICK i \in Index : b \in hashChainRelease(s[i].chain)
    BY <1>2
  <2>2. PICK j \in DOMAIN s[i].chain : b = s[i].chain[j].val
    BY <2>1 DEF hashChainRelease
  <2>3. s[i].chain[j] \in BucketPairs(s[i])
    BY <2>2 DEF BucketPairs
  <2> QED
    BY <2>2, <2>3 DEF PairsOf
<1> QED
  BY <1>1, <1>2 DEF hashMapRelease

\* Deleting a key takes its pair out, whether it is a head or in a chain.
LEMMA TakenOut ==
  ASSUME NEW s, Well(s), NEW k \in Keys, NEW f,
         \/ s[Slot(k)].key = k /\ f = Beheaded(s[Slot(k)])
         \/ /\ s[Slot(k)].key # k /\ hashChainSearch(s[Slot(k)].chain, k) # {}
            /\ f = Unchained(s[Slot(k)], k)
  PROVE  /\ Well([s EXCEPT ![Slot(k)] = f])
         /\ PairsOf([s EXCEPT ![Slot(k)] = f]) = {p \in PairsOf(s) : p.key # k}
<1>1. PICK e : e = s[Slot(k)]
  OBVIOUS
<1>2. H!Well(e, H!Slot(k))
  BY <1>1, WellIs, SameMap
<1>3. H!Well(f, H!Slot(k)) /\ H!BucketPairs(f) = {p \in H!BucketPairs(e) : p.key # k}
  <2>1. CASE e.key = k /\ f = Beheaded(e)
    <3>1. /\ H!Well(H!Beheaded(e), H!Slot(k))
          /\ H!BucketPairs(H!Beheaded(e)) = {p \in H!BucketPairs(e) : p.key # k}
      BY <1>2, <2>1, Assumptions, H!BeheadedKeeps
    <3> QED
      BY <2>1, <3>1, SameMap
  <2>2. CASE e.key # k /\ hashChainSearch(e.chain, k) # {} /\ f = Unchained(e, k)
    <3>1. H!hashChainSearch(e.chain, k) # {}
      BY <2>2 DEF hashChainSearch, H!hashChainSearch
    <3>2. /\ H!Well(H!Unchained(e, k), H!Slot(k))
          /\ H!BucketPairs(H!Unchained(e, k)) = {p \in H!BucketPairs(e) : p.key # k}
      BY <1>2, <2>2, <3>1, Assumptions, H!UnchainedKeeps
    <3> QED
      BY <2>2, <3>2, SameMap
  <2> QED
    BY <1>1, <2>1, <2>2
<1>4. H!Well(f, Slot(k)) /\ BucketPairs(f) = {p \in BucketPairs(e) : p.key # k}
  BY <1>3, SameMap
<1>5. PICK t : t = [s EXCEPT ![Slot(k)] = f]
  OBVIOUS
<1>6. /\ Well(t)
      /\ \A p : p \in PairsOf(t) <=>
           \/ p \in BucketPairs(f)
           \/ p \in PairsOf(s) /\ p \notin BucketPairs(e)
      /\ \A p : p \in BucketPairs(e) => p \in PairsOf(s)
      /\ \A p \in PairsOf(s) : p.key = k => p \in BucketPairs(e)
  BY <1>1, <1>4, <1>5, OneBucket
<1>7. PairsOf(t) = {p \in PairsOf(s) : p.key # k}
  BY <1>4, <1>6
<1> QED
  BY <1>5, <1>6, <1>7

\* The head of the bucket of a key is a pair of the map.
LEMMA HeadIs ==
  ASSUME NEW s, Well(s), NEW k \in Keys, s[Slot(k)].key = k
  PROVE  [key |-> k, val |-> s[Slot(k)].val] \in PairsOf(s)
<1>1. Slot(k) \in Index
  BY WellIs
<1>2. k # NULL
  BY Assumptions
<1>3. [key |-> k, val |-> s[Slot(k)].val] \in BucketPairs(s[Slot(k)])
  BY <1>2 DEF BucketPairs
<1> QED
  BY <1>1, <1>3 DEF PairsOf

-----------------------------------------------------------------------------
(***************************************************************************)
(* Who names which block.                                                  *)
(***************************************************************************)
Clause == [symbols : [Index -> Bucket], asked : SUBSET Keys]
File   == [symbols : [Index -> Bucket], asked : SUBSET Keys, found : SUBSET Keys]

\* A map of these keys: its blocks are allocated, not freed, each named once, and
\* not named by the chain.
Holds(s, keys, ps, n, F) ==
  /\ Well(s) /\ KeysOf(s) = keys
  /\ BlocksOf(s) \subseteq (1..n) \ F
  /\ \A p, q \in PairsOf(s) : p.val = q.val => p = q
  /\ \A i \in DOMAIN ps : ps[i].block \notin BlocksOf(s)

Disjoint(s, t) == BlocksOf(s) \cap BlocksOf(t) = {}

Owned(st, fs, ps, n, F) ==
  /\ n \in Nat /\ F \subseteq 1..n
  /\ st \in Seq(Clause) /\ fs \in Seq(File) /\ ps \in Seq(Param(n))
  /\ \A i \in DOMAIN ps : ps[i].block \notin F
  /\ \A i \in DOMAIN st : Holds(st[i].symbols, st[i].asked, ps, n, F)
  /\ \A i \in DOMAIN fs : Holds(fs[i].symbols, fs[i].asked \ fs[i].found, ps, n, F)
  /\ \A i, j \in DOMAIN st : i # j => Disjoint(st[i].symbols, st[j].symbols)
  /\ \A i, j \in DOMAIN fs : i # j => Disjoint(fs[i].symbols, fs[j].symbols)
  /\ \A i \in DOMAIN st, j \in DOMAIN fs : Disjoint(st[i].symbols, fs[j].symbols)

IInv ==
  /\ phase \in {"parse", "import", "exit"} /\ twice = {}
  /\ Owned(importInfoStack, imports, importParam, last, freed)

LEMMA PushFacts ==
  ASSUME NEW S, NEW s \in Seq(S), NEW x \in S
  PROVE  /\ Append(s, x) \in Seq(S) /\ Len(s) \in Nat /\ DOMAIN s = 1..Len(s)
         /\ DOMAIN Append(s, x) = 1..(Len(s) + 1)
         /\ \A i \in DOMAIN Append(s, x) :
              \/ i \in DOMAIN s /\ Append(s, x)[i] = s[i]
              \/ i = Len(s) + 1 /\ Append(s, x)[i] = x
OBVIOUS

LEMMA PopFacts ==
  ASSUME NEW S, NEW s \in Seq(S), s # <<>>
  PROVE  /\ Front(s) \in Seq(S) /\ Len(s) \in Nat \ {0} /\ DOMAIN s = 1..Len(s)
         /\ Last(s) = s[Len(s)] /\ Len(s) \in DOMAIN s
         /\ \A i \in DOMAIN Front(s) : i \in DOMAIN s /\ i # Len(s) /\ Front(s)[i] = s[i]
<1>1. PICK L \in Nat \ {0} : L = Len(s)
  BY EmptySeq
<1>2. PICK f : f = SubSeq(s, 1, L - 1)
  OBVIOUS
<1>3. Front(s) = f
  BY <1>1, <1>2 DEF Front
<1>4. f \in Seq(S) /\ Len(f) = L - 1 /\ \A i \in 1..(L - 1) : f[i] = s[i]
  <2>1. 1 \in 1..(L + 1) /\ L - 1 \in 0..L
    OBVIOUS
  <2> QED
    BY <1>1, <1>2, <2>1
<1>5. DOMAIN f = 1..(L - 1) /\ DOMAIN s = 1..L
  BY <1>1, <1>4
<1>6. \A i \in 1..(L - 1) : i \in 1..L /\ i # L
  OBVIOUS
<1>7. Last(s) = s[L] /\ L \in 1..L
  BY <1>1 DEF Last
<1> QED
  BY <1>1, <1>3, <1>4, <1>5, <1>6, <1>7

\* A map keeps its blocks when more are allocated and others are freed.
LEMMA Stays ==
  ASSUME NEW s, NEW keys, NEW ps, NEW n \in Nat, NEW F, Holds(s, keys, ps, n, F),
         NEW m \in Nat, n <= m, NEW G, G \cap BlocksOf(s) = {},
         NEW qs, \A i \in DOMAIN qs : qs[i].block \notin BlocksOf(s)
  PROVE  Holds(s, keys, qs, m, F \cup G)
<1>1. \A b \in 1..n : b \in 1..m
  OBVIOUS
<1>2. BlocksOf(s) \subseteq (1..n) \ F
  BY DEF Holds
<1>3. BlocksOf(s) \subseteq (1..m) \ (F \cup G)
  BY <1>1, <1>2
<1> QED
  BY <1>3 DEF Holds

LEMMA InitOwned == Owned(<<>>, <<>>, <<>>, 0, {})
<1>1. DOMAIN <<>> = {}
  OBVIOUS
<1>2. <<>> \in Seq(Clause) /\ <<>> \in Seq(File) /\ <<>> \in Seq(Param(0))
  OBVIOUS
<1> QED
  BY <1>1, <1>2 DEF Owned

\* disParamStore
LEMMA ParamOwned ==
  ASSUME NEW st, NEW fs, NEW ps, NEW n, NEW F, Owned(st, fs, ps, n, F), NEW k \in Keys
  PROVE  Owned(st, fs, Append(ps, [param |-> k, block |-> n + 1]), n + 1, F)
<1>1. n \in Nat /\ F \subseteq 1..n /\ ps \in Seq(Param(n))
  BY DEF Owned
<1>2. PICK m \in Nat : m = n + 1
  BY <1>1
<1>3. PICK x : x = [param |-> k, block |-> m]
  OBVIOUS
<1>4. PICK qs : qs = Append(ps, x)
  OBVIOUS
<1>5. x \in Param(m) /\ ps \in Seq(Param(m)) /\ F \subseteq 1..m /\ m \notin 1..n /\ n <= m
      /\ x.block = m
  <2>1. \A b \in 1..n : b \in 1..m
    BY <1>1, <1>2
  <2>2. m \in 1..m /\ m \notin 1..n /\ n <= m
    BY <1>1, <1>2
  <2>3. Param(n) \subseteq Param(m)
    BY <2>1 DEF Param
  <2>4. ps \in Seq(Param(m))
    BY <1>1, <2>3
  <2>5. x \in Param(m)
    BY <1>3, <2>2 DEF Param
  <2> QED
    BY <1>1, <1>3, <2>1, <2>2, <2>4, <2>5
<1>6. /\ qs \in Seq(Param(m))
      /\ \A i \in DOMAIN qs : (i \in DOMAIN ps /\ qs[i] = ps[i]) \/ qs[i] = x
  <2>1. /\ Append(ps, x) \in Seq(Param(m))
        /\ \A i \in DOMAIN Append(ps, x) :
              \/ i \in DOMAIN ps /\ Append(ps, x)[i] = ps[i]
              \/ i = Len(ps) + 1 /\ Append(ps, x)[i] = x
    BY <1>5, PushFacts
  <2> QED
    BY <1>4, <2>1
<1>7. ASSUME NEW s, NEW keys, Holds(s, keys, ps, n, F) PROVE Holds(s, keys, qs, m, F)
  <2>1. BlocksOf(s) \subseteq 1..n /\ \A i \in DOMAIN ps : ps[i].block \notin BlocksOf(s)
    BY <1>7 DEF Holds
  <2>2. \A i \in DOMAIN qs : qs[i].block \notin BlocksOf(s)
    BY <1>5, <1>6, <2>1
  <2>3. Holds(s, keys, qs, m, F \cup {})
    BY <1>1, <1>5, <1>7, <2>2, Stays
  <2>4. F \cup {} = F
    OBVIOUS
  <2> QED
    BY <2>3, <2>4
<1>8. \A i \in DOMAIN qs : qs[i].block \notin F
  <2>1. \A i \in DOMAIN ps : ps[i].block \notin F
    BY DEF Owned
  <2> QED
    BY <1>1, <1>5, <1>6, <2>1
<1>9. Owned(st, fs, qs, m, F)
  <2>1. \A i \in DOMAIN st : Holds(st[i].symbols, st[i].asked, qs, m, F)
    BY <1>7 DEF Owned
  <2>2. \A i \in DOMAIN fs : Holds(fs[i].symbols, fs[i].asked \ fs[i].found, qs, m, F)
    BY <1>7 DEF Owned
  <2> QED
    BY <1>5, <1>6, <1>8, <2>1, <2>2, Zenon DEF Owned
<1> QED
  BY <1>2, <1>3, <1>4, <1>9

\* A clause is done with: its chain is released, and a map may take its place.
LEMMA ClauseForgotten ==
  ASSUME NEW st, NEW fs, NEW ps, NEW n, NEW F, Owned(st, fs, ps, n, F),
         NEW m \in Nat, n <= m, NEW G, \A b \in G : \E i \in DOMAIN ps : b = ps[i].block
  PROVE  Owned(st, fs, <<>>, m, F \cup G)
<1>1. n \in Nat /\ F \subseteq 1..n /\ ps \in Seq(Param(n))
  BY DEF Owned
<1>2. \A b \in 1..n : b \in 1..m
  BY <1>1
<1>3. G \subseteq 1..n
  <2>1. \A i \in DOMAIN ps : ps[i] \in Param(n)
    BY <1>1
  <2> QED
    BY <2>1 DEF Param
<1>4. F \cup G \subseteq 1..m
  BY <1>1, <1>2, <1>3
<1>5. ASSUME NEW s, NEW keys, Holds(s, keys, ps, n, F) PROVE Holds(s, keys, <<>>, m, F \cup G)
  <2>1. G \cap BlocksOf(s) = {}
    BY <1>5 DEF Holds
  <2>2. \A i \in DOMAIN <<>> : <<>>[i].block \notin BlocksOf(s)
    OBVIOUS
  <2> QED
    BY <1>1, <1>5, <2>1, <2>2, Stays
<1>6. <<>> \in Seq(Param(m)) /\ \A i \in DOMAIN <<>> : <<>>[i].block \notin F \cup G
  OBVIOUS
<1>7. \A i \in DOMAIN st : Holds(st[i].symbols, st[i].asked, <<>>, m, F \cup G)
  BY <1>5 DEF Owned
<1>8. \A i \in DOMAIN fs : Holds(fs[i].symbols, fs[i].asked \ fs[i].found, <<>>, m, F \cup G)
  BY <1>5 DEF Owned
<1> QED
  BY <1>4, <1>6, <1>7, <1>8, Zenon DEF Owned

\* A clause is pushed, whose map no list and no file has a block of.
LEMMA ClauseOwned ==
  ASSUME NEW st, NEW fs, NEW ps, NEW n, NEW F, Owned(st, fs, ps, n, F),
         NEW x \in Clause, Holds(x.symbols, x.asked, ps, n, F),
         \A i \in DOMAIN st : Disjoint(st[i].symbols, x.symbols),
         \A i \in DOMAIN fs : Disjoint(x.symbols, fs[i].symbols)
  PROVE  Owned(Append(st, x), fs, ps, n, F)
<1>1. st \in Seq(Clause)
  BY DEF Owned
<1>2. PICK tt : tt = Append(st, x)
  OBVIOUS
<1>3. /\ tt \in Seq(Clause) /\ Len(st) \in Nat /\ DOMAIN st = 1..Len(st)
      /\ \A i \in DOMAIN tt : (i \in DOMAIN st /\ tt[i] = st[i]) \/ (i = Len(st) + 1 /\ tt[i] = x)
  BY <1>1, <1>2, PushFacts
<1>4. \A i \in DOMAIN tt : Holds(tt[i].symbols, tt[i].asked, ps, n, F)
  BY <1>3, Zenon DEF Owned
<1>5. \A s, t : Disjoint(s, t) => Disjoint(t, s)
  BY DEF Disjoint
<1>6. ASSUME NEW i \in DOMAIN tt, NEW j \in DOMAIN tt, i # j
      PROVE  Disjoint(tt[i].symbols, tt[j].symbols)
  <2>1. i = Len(st) + 1 /\ j = Len(st) + 1 => FALSE
    BY <1>6
  <2>2. \A u, v \in DOMAIN st : u # v => Disjoint(st[u].symbols, st[v].symbols)
    BY DEF Owned
  <2> QED
    BY <1>3, <1>5, <1>6, <2>1, <2>2, Zenon
<1>7. \A i \in DOMAIN tt, j \in DOMAIN fs : Disjoint(tt[i].symbols, fs[j].symbols)
  <2>1. \A i \in DOMAIN st, j \in DOMAIN fs : Disjoint(st[i].symbols, fs[j].symbols)
    BY DEF Owned
  <2> QED
    BY <1>3, <2>1, Zenon
<1> QED
  BY <1>2, <1>3, <1>4, <1>6, <1>7, Zenon DEF Owned

\* A file is entered, whose map no list and no file has a block of.
LEMMA FileOwned ==
  ASSUME NEW st, NEW fs, NEW ps, NEW n, NEW F, Owned(st, fs, ps, n, F),
         NEW x \in File, Holds(x.symbols, x.asked \ x.found, ps, n, F),
         \A i \in DOMAIN st : Disjoint(st[i].symbols, x.symbols),
         \A i \in DOMAIN fs : Disjoint(fs[i].symbols, x.symbols)
  PROVE  Owned(st, Append(fs, x), ps, n, F)
<1>1. fs \in Seq(File)
  BY DEF Owned
<1>2. PICK gs : gs = Append(fs, x)
  OBVIOUS
<1>3. /\ gs \in Seq(File) /\ Len(fs) \in Nat /\ DOMAIN fs = 1..Len(fs)
      /\ \A i \in DOMAIN gs :
           (i \in DOMAIN fs /\ gs[i] = fs[i]) \/ (i = Len(fs) + 1 /\ gs[i] = x)
  BY <1>1, <1>2, PushFacts
<1>4. \A i \in DOMAIN gs : Holds(gs[i].symbols, gs[i].asked \ gs[i].found, ps, n, F)
  BY <1>3, Zenon DEF Owned
<1>5. \A s, t : Disjoint(s, t) => Disjoint(t, s)
  BY DEF Disjoint
<1>6. ASSUME NEW i \in DOMAIN gs, NEW j \in DOMAIN gs, i # j
      PROVE  Disjoint(gs[i].symbols, gs[j].symbols)
  <2>1. i = Len(fs) + 1 /\ j = Len(fs) + 1 => FALSE
    BY <1>6
  <2>2. \A u, v \in DOMAIN fs : u # v => Disjoint(fs[u].symbols, fs[v].symbols)
    BY DEF Owned
  <2> QED
    BY <1>3, <1>5, <1>6, <2>1, <2>2, Zenon
<1>7. \A i \in DOMAIN st, j \in DOMAIN gs : Disjoint(st[i].symbols, gs[j].symbols)
  <2>1. \A i \in DOMAIN st, j \in DOMAIN fs : Disjoint(st[i].symbols, fs[j].symbols)
    BY DEF Owned
  <2> QED
    BY <1>3, <2>1, Zenon
<1> QED
  BY <1>2, <1>3, <1>4, <1>6, <1>7, Zenon DEF Owned

\* Blocks that no remaining map names are freed.
LEMMA Shrunk ==
  ASSUME NEW st, NEW fs, NEW ps, NEW n, NEW F, Owned(st, fs, ps, n, F),
         NEW tt \in Seq(Clause), NEW gs \in Seq(File), NEW G, G \subseteq 1..n,
         \A i \in DOMAIN ps : ps[i].block \notin G,
         \A i \in DOMAIN tt : /\ i \in DOMAIN st /\ tt[i] = st[i]
                              /\ G \cap BlocksOf(tt[i].symbols) = {},
         \A i \in DOMAIN gs :
           /\ i \in DOMAIN fs /\ BlocksOf(gs[i].symbols) \subseteq BlocksOf(fs[i].symbols)
           /\ Holds(gs[i].symbols, gs[i].asked \ gs[i].found, ps, n, F \cup G)
  PROVE  Owned(tt, gs, ps, n, F \cup G)
<1>1. n \in Nat /\ F \subseteq 1..n /\ ps \in Seq(Param(n))
      /\ \A i \in DOMAIN ps : ps[i].block \notin F
  BY DEF Owned
<1>2. F \cup G \subseteq 1..n /\ \A i \in DOMAIN ps : ps[i].block \notin F \cup G
  BY <1>1
<1>3. ASSUME NEW i \in DOMAIN tt PROVE Holds(tt[i].symbols, tt[i].asked, ps, n, F \cup G)
  <2>1. Holds(tt[i].symbols, tt[i].asked, ps, n, F)
    BY DEF Owned
  <2>2. \A j \in DOMAIN ps : ps[j].block \notin BlocksOf(tt[i].symbols)
    BY <2>1 DEF Holds
  <2>3. n <= n
    BY <1>1
  <2> QED
    BY <1>1, <2>1, <2>2, <2>3, Stays
<1>4. \A i, j \in DOMAIN tt : i # j => Disjoint(tt[i].symbols, tt[j].symbols)
  BY Zenon DEF Owned
<1>5. \A i, j \in DOMAIN gs : i # j => Disjoint(gs[i].symbols, gs[j].symbols)
  <2>1. \A i, j \in DOMAIN fs : i # j => Disjoint(fs[i].symbols, fs[j].symbols)
    BY DEF Owned
  <2> QED
    BY <2>1 DEF Disjoint
<1>6. \A i \in DOMAIN tt, j \in DOMAIN gs : Disjoint(tt[i].symbols, gs[j].symbols)
  <2>1. \A i \in DOMAIN st, j \in DOMAIN fs : Disjoint(st[i].symbols, fs[j].symbols)
    BY DEF Owned
  <2> QED
    BY <2>1 DEF Disjoint
<1>7. \A i \in DOMAIN gs : Holds(gs[i].symbols, gs[i].asked \ gs[i].found, ps, n, F \cup G)
  OBVIOUS
<1> QED
  BY <1>1, <1>2, <1>3, <1>4, <1>5, <1>6, <1>7, Zenon DEF Owned

\* The last clause is taken from the stack, and its map released.
LEMMA ClausePopped ==
  ASSUME NEW st, NEW fs, NEW ps, NEW n, NEW F, Owned(st, fs, ps, n, F), st # <<>>,
         NEW G, G \subseteq BlocksOf(Last(st).symbols)
  PROVE  Owned(Front(st), fs, ps, n, F \cup G)
<1>1. st \in Seq(Clause) /\ fs \in Seq(File) /\ n \in Nat
  BY DEF Owned
<1>2. PICK L : L = Len(st)
  OBVIOUS
<1>3. PICK tt : tt = Front(st)
  OBVIOUS
<1>4. /\ tt \in Seq(Clause) /\ Last(st) = st[L] /\ L \in DOMAIN st
      /\ \A i \in DOMAIN tt : i \in DOMAIN st /\ i # L /\ tt[i] = st[i]
  BY <1>1, <1>2, <1>3, PopFacts
<1>5. Holds(st[L].symbols, st[L].asked, ps, n, F) /\ G \subseteq BlocksOf(st[L].symbols)
  BY <1>4, Zenon DEF Owned
<1>6. G \subseteq 1..n /\ \A i \in DOMAIN ps : ps[i].block \notin G
  BY <1>5 DEF Holds
<1>7. \A i \in DOMAIN tt : /\ i \in DOMAIN st /\ tt[i] = st[i]
                           /\ G \cap BlocksOf(tt[i].symbols) = {}
  <2>1. \A i \in DOMAIN st : i # L => Disjoint(st[L].symbols, st[i].symbols)
    BY <1>4 DEF Owned
  <2> QED
    BY <1>4, <1>5, <2>1 DEF Disjoint
<1>8. ASSUME NEW i \in DOMAIN fs
      PROVE  /\ i \in DOMAIN fs /\ BlocksOf(fs[i].symbols) \subseteq BlocksOf(fs[i].symbols)
             /\ Holds(fs[i].symbols, fs[i].asked \ fs[i].found, ps, n, F \cup G)
  <2>1. Disjoint(st[L].symbols, fs[i].symbols)
    BY <1>4 DEF Owned
  <2>2. G \cap BlocksOf(fs[i].symbols) = {}
    BY <1>5, <2>1 DEF Disjoint
  <2>3. Holds(fs[i].symbols, fs[i].asked \ fs[i].found, ps, n, F)
    BY DEF Owned
  <2>4. n <= n /\ \A j \in DOMAIN ps : ps[j].block \notin BlocksOf(fs[i].symbols)
    BY <1>1, <2>3 DEF Holds
  <2> QED
    BY <1>1, <2>2, <2>3, <2>4, Stays
<1>9. Owned(tt, fs, ps, n, F \cup G)
  BY <1>1, <1>4, <1>6, <1>7, <1>8, Shrunk
<1> QED
  BY <1>3, <1>9

\* No list but the map of the file L is touched when the blocks G are freed.
Untouched(st, fs, ps, n, F, L, G) ==
  /\ n \in Nat /\ G \subseteq 1..n
  /\ \A i \in DOMAIN ps : ps[i].block \notin G
  /\ \A i \in DOMAIN st : G \cap BlocksOf(st[i].symbols) = {}
  /\ \A i \in DOMAIN fs : i # L =>
       Holds(fs[i].symbols, fs[i].asked \ fs[i].found, ps, n, F \cup G)

LEMMA OthersStay ==
  ASSUME NEW st, NEW fs, NEW ps, NEW n, NEW F, Owned(st, fs, ps, n, F),
         NEW L \in DOMAIN fs, NEW G, G \subseteq BlocksOf(fs[L].symbols)
  PROVE  Untouched(st, fs, ps, n, F, L, G)
<1>1. n \in Nat /\ Holds(fs[L].symbols, fs[L].asked \ fs[L].found, ps, n, F)
  BY DEF Owned
<1>2. G \subseteq 1..n /\ \A i \in DOMAIN ps : ps[i].block \notin G
  BY <1>1 DEF Holds
<1>3. \A i \in DOMAIN st : G \cap BlocksOf(st[i].symbols) = {}
  <2>1. \A i \in DOMAIN st : Disjoint(st[i].symbols, fs[L].symbols)
    BY DEF Owned
  <2> QED
    BY <2>1 DEF Disjoint
<1>4. ASSUME NEW i \in DOMAIN fs, i # L
      PROVE  Holds(fs[i].symbols, fs[i].asked \ fs[i].found, ps, n, F \cup G)
  <2>1. Disjoint(fs[i].symbols, fs[L].symbols)
    BY <1>4 DEF Owned
  <2>2. G \cap BlocksOf(fs[i].symbols) = {}
    BY <2>1 DEF Disjoint
  <2>3. Holds(fs[i].symbols, fs[i].asked \ fs[i].found, ps, n, F)
    BY DEF Owned
  <2>4. n <= n /\ \A j \in DOMAIN ps : ps[j].block \notin BlocksOf(fs[i].symbols)
    BY <1>1, <2>3 DEF Holds
  <2> QED
    BY <1>1, <2>2, <2>3, <2>4, Stays
<1> QED
  BY <1>1, <1>2, <1>3, <1>4 DEF Untouched

\* The last file is left, and its map released.
LEMMA FilePopped ==
  ASSUME NEW st, NEW fs, NEW ps, NEW n, NEW F, Owned(st, fs, ps, n, F), fs # <<>>,
         NEW G, G \subseteq BlocksOf(Last(fs).symbols)
  PROVE  Owned(st, Front(fs), ps, n, F \cup G)
<1>1. st \in Seq(Clause) /\ fs \in Seq(File)
  BY DEF Owned
<1>2. PICK L : L = Len(fs)
  OBVIOUS
<1>3. PICK gs : gs = Front(fs)
  OBVIOUS
<1>4. /\ gs \in Seq(File) /\ Last(fs) = fs[L] /\ L \in DOMAIN fs
      /\ \A i \in DOMAIN gs : i \in DOMAIN fs /\ i # L /\ gs[i] = fs[i]
  BY <1>1, <1>2, <1>3, PopFacts
<1>5. Untouched(st, fs, ps, n, F, L, G)
  <2>1. L \in DOMAIN fs /\ G \subseteq BlocksOf(fs[L].symbols)
    BY <1>4
  <2> QED
    BY <2>1, OthersStay
<1>6. \A i \in DOMAIN st : /\ i \in DOMAIN st /\ st[i] = st[i]
                           /\ G \cap BlocksOf(st[i].symbols) = {}
  BY <1>5 DEF Untouched
<1>7. \A i \in DOMAIN gs :
        /\ i \in DOMAIN fs /\ BlocksOf(gs[i].symbols) \subseteq BlocksOf(fs[i].symbols)
        /\ Holds(gs[i].symbols, gs[i].asked \ gs[i].found, ps, n, F \cup G)
  BY <1>4, <1>5 DEF Untouched
<1>8. Owned(st, gs, ps, n, F \cup G)
  BY <1>1, <1>4, <1>5, <1>6, <1>7, Shrunk DEF Untouched
<1> QED
  BY <1>3, <1>8

\* The map of the last file loses pairs, and no other block is freed.
LEMMA FileChanged ==
  ASSUME NEW st, NEW fs, NEW ps, NEW n, NEW F, Owned(st, fs, ps, n, F),
         NEW L \in DOMAIN fs, NEW y \in File, NEW G, G \subseteq BlocksOf(fs[L].symbols),
         BlocksOf(y.symbols) \subseteq BlocksOf(fs[L].symbols),
         Holds(y.symbols, y.asked \ y.found, ps, n, F \cup G)
  PROVE  Owned(st, [fs EXCEPT ![L] = y], ps, n, F \cup G)
<1>1. st \in Seq(Clause) /\ fs \in Seq(File)
  BY DEF Owned
<1>2. PICK gs : gs = [fs EXCEPT ![L] = y]
  OBVIOUS
<1>3. /\ gs \in Seq(File) /\ DOMAIN gs = DOMAIN fs
      /\ \A i \in DOMAIN fs : gs[i] = IF i = L THEN y ELSE fs[i]
  BY <1>1, <1>2
<1>4. Untouched(st, fs, ps, n, F, L, G)
  BY OthersStay
<1>5. \A i \in DOMAIN st : /\ i \in DOMAIN st /\ st[i] = st[i]
                           /\ G \cap BlocksOf(st[i].symbols) = {}
  BY <1>4 DEF Untouched
<1>6. \A i \in DOMAIN gs :
        /\ i \in DOMAIN fs /\ BlocksOf(gs[i].symbols) \subseteq BlocksOf(fs[i].symbols)
        /\ Holds(gs[i].symbols, gs[i].asked \ gs[i].found, ps, n, F \cup G)
  BY <1>3, <1>4 DEF Untouched
<1>7. Owned(st, gs, ps, n, F \cup G)
  BY <1>1, <1>3, <1>4, <1>5, <1>6, Shrunk DEF Untouched
<1> QED
  BY <1>2, <1>7

\* Blocks are allocated that no list names yet.
LEMMA Grown ==
  ASSUME NEW st, NEW fs, NEW ps, NEW n, NEW F, Owned(st, fs, ps, n, F), NEW m \in Nat, n <= m
  PROVE  Owned(st, fs, ps, m, F)
<1>1. n \in Nat /\ F \subseteq 1..n /\ ps \in Seq(Param(n))
  BY DEF Owned
<1>2. \A b \in 1..n : b \in 1..m
  BY <1>1
<1>3. Param(n) \subseteq Param(m)
  BY <1>2 DEF Param
<1>4. F \subseteq 1..m /\ ps \in Seq(Param(m))
  BY <1>1, <1>2, <1>3
<1>5. ASSUME NEW s, NEW keys, Holds(s, keys, ps, n, F) PROVE Holds(s, keys, ps, m, F)
  <2>1. {} \cap BlocksOf(s) = {} /\ \A i \in DOMAIN ps : ps[i].block \notin BlocksOf(s)
    BY <1>5 DEF Holds
  <2>2. Holds(s, keys, ps, m, F \cup {})
    BY <1>1, <1>5, <2>1, Stays
  <2>3. F \cup {} = F
    OBVIOUS
  <2> QED
    BY <2>2, <2>3
<1>6. \A i \in DOMAIN st : Holds(st[i].symbols, st[i].asked, ps, m, F)
  BY <1>5 DEF Owned
<1>7. \A i \in DOMAIN fs : Holds(fs[i].symbols, fs[i].asked \ fs[i].found, ps, m, F)
  BY <1>5 DEF Owned
<1> QED
  BY <1>4, <1>6, <1>7, Zenon DEF Owned

\* A map of blocks that are allocated for it has none of another map's.
LEMMA FreshIsApart ==
  ASSUME NEW s, NEW keys, NEW ps, NEW n \in Nat, NEW F, Holds(s, keys, ps, n, F),
         NEW t, NEW m \in Nat, BlocksOf(t) \subseteq (n + 1)..m
  PROVE  Disjoint(s, t) /\ Disjoint(t, s)
<1>1. \A b \in 1..n : b \notin (n + 1)..m
  OBVIOUS
<1>2. BlocksOf(s) \subseteq 1..n
  BY DEF Holds
<1> QED
  BY <1>1, <1>2 DEF Disjoint

\* And it is held, whatever was freed before.
LEMMA FreshIsHeld ==
  ASSUME NEW t, Well(t), NEW n \in Nat, NEW m \in Nat, BlocksOf(t) \subseteq (n + 1)..m,
         \A p, q \in PairsOf(t) : p.val = q.val => p = q,
         NEW ps, \A i \in DOMAIN ps : ps[i].block \in 1..n,
         NEW F, F \subseteq 1..n
  PROVE  Holds(t, KeysOf(t), ps, m, F)
<1>1. \A b \in 1..n : b \notin (n + 1)..m
  OBVIOUS
<1>2. \A b \in (n + 1)..m : b \in 1..m
  OBVIOUS
<1>3. BlocksOf(t) \subseteq (1..m) \ F
  BY <1>1, <1>2
<1>4. \A i \in DOMAIN ps : ps[i].block \notin BlocksOf(t)
  BY <1>1
<1> QED
  BY <1>3, <1>4 DEF Holds

-----------------------------------------------------------------------------
(***************************************************************************)
(* Every step leaves each block to one list.                               *)
(***************************************************************************)
LEMMA StoreStep == ASSUME IInv, NEW k \in Keys, disParamStore(k) PROVE IInv'
<1>1. PICK st, fs, ps, n, F : /\ st = importInfoStack /\ fs = imports /\ ps = importParam
                             /\ n = last /\ F = freed
  OBVIOUS
<1>2. Owned(st, fs, Append(ps, [param |-> k, block |-> n + 1]), n + 1, F)
  BY <1>1, ParamOwned DEF IInv
<1>3. /\ importParam' = Append(ps, [param |-> k, block |-> n + 1]) /\ last' = n + 1
      /\ importInfoStack' = st /\ imports' = fs /\ freed' = F
      /\ phase' = phase /\ twice' = twice
  BY <1>1 DEF disParamStore
<1> QED
  BY <1>2, <1>3 DEF IInv

LEMMA ClauseStep == ASSUME IInv, MODULES_CONTENT PROVE IInv'
<1>1. PICK st, fs, ps, n, F : /\ st = importInfoStack /\ fs = imports /\ ps = importParam
                             /\ n = last /\ F = freed
  OBVIOUS
<1>2. PICK G : G = disParamRelease(ps)
  OBVIOUS
<1>3. PICK s : s = Collected(ps, n)
  OBVIOUS
<1>4. PICK x : x = [symbols |-> s, asked |-> {ps[i].param : i \in DOMAIN ps}]
  OBVIOUS
<1>5. /\ Owned(st, fs, ps, n, F) /\ n \in Nat /\ F \subseteq 1..n
      /\ ps \in Seq(Param(n)) /\ Len(ps) \in Nat
      /\ \A i \in DOMAIN ps : ps[i] \in Param(n) /\ ps[i].block \notin F
  <2>1. Owned(st, fs, ps, n, F)
    BY <1>1 DEF IInv
  <2>2. n \in Nat /\ F \subseteq 1..n /\ ps \in Seq(Param(n))
        /\ \A i \in DOMAIN ps : ps[i].block \notin F
    BY <2>1 DEF Owned
  <2> QED
    BY <2>1, <2>2
<1>6. PICK m \in Nat : m = n + Len(ps) /\ n <= m
  <2>1. n + Len(ps) \in Nat /\ n <= n + Len(ps)
    BY <1>5
  <2> QED
    BY <2>1
<1>7. \A b \in G : \E i \in DOMAIN ps : b = ps[i].block
  BY <1>2 DEF disParamRelease
<1>8. /\ importInfoStack' = IF Len(st) = StackSize THEN st ELSE Append(st, x)
      /\ last' = m /\ importParam' = <<>> /\ freed' = F \cup G /\ twice' = twice \cup (F \cap G)
      /\ imports' = fs /\ phase' = phase /\ ~Conflict(ps)
  <2>1. /\ importInfoStack' = IF Len(st) = StackSize THEN st ELSE Append(st, x)
        /\ ~Conflict(ps)
    BY <1>1, <1>3, <1>4, Zenon DEF MODULES_CONTENT
  <2> QED
    BY <1>1, <1>2, <1>6, <2>1 DEF MODULES_CONTENT, free, disParamRelease_Static
<1>9. F \cap G = {} /\ F \cup G \subseteq 1..n
  <2>1. \A b \in G : b \in 1..n /\ b \notin F
    BY <1>5, <1>7 DEF Param
  <2> QED
    BY <1>5, <2>1
<1>10. Owned(st, fs, <<>>, m, F \cup G)
  BY <1>5, <1>6, <1>7, ClauseForgotten
<1>11. Owned(Append(st, x), fs, <<>>, m, F \cup G)
  <2>1. /\ Well(s) /\ KeysOf(s) = {ps[i].param : i \in DOMAIN ps}
        /\ BlocksOf(s) \subseteq (n + 1)..m
        /\ \A p, q \in PairsOf(s) : p.val = q.val => p = q
    <3>1. /\ Well(Collected(ps, n))
          /\ KeysOf(Collected(ps, n)) = {ps[i].param : i \in DOMAIN ps}
          /\ BlocksOf(Collected(ps, n)) \subseteq (n + 1)..(n + Len(ps))
          /\ \A p, q \in PairsOf(Collected(ps, n)) : p.val = q.val => p = q
      BY <1>5, <1>8, CollectedFresh
    <3> QED
      BY <1>3, <1>6, <3>1
  <2>2. x.symbols = s /\ x.asked = KeysOf(s) /\ x \in Clause
    <3>1. \A i \in DOMAIN ps : ps[i].param \in Keys
      BY <1>5 DEF Param
    <3>2. KeysOf(s) \subseteq Keys
      BY <2>1, <3>1
    <3>3. s \in [Index -> Bucket]
      BY <2>1, WellIs
    <3> QED
      BY <1>4, <2>1, <3>2, <3>3 DEF Clause
  <2>3. \A i \in DOMAIN <<>> : <<>>[i].block \in 1..n
    OBVIOUS
  <2>4. Holds(x.symbols, x.asked, <<>>, m, F \cup G)
    <3>1. Holds(s, KeysOf(s), <<>>, m, F \cup G)
      BY <1>5, <1>9, <2>1, <2>3, FreshIsHeld, Zenon
    <3> QED
      BY <2>2, <3>1
  <2>5. \A i \in DOMAIN st : Disjoint(st[i].symbols, x.symbols)
    <3>1. \A i \in DOMAIN st : Holds(st[i].symbols, st[i].asked, ps, n, F)
      BY <1>5 DEF Owned
    <3> QED
      BY <1>5, <2>1, <2>2, <3>1, FreshIsApart
  <2>6. \A i \in DOMAIN fs : Disjoint(x.symbols, fs[i].symbols)
    <3>1. \A i \in DOMAIN fs : Holds(fs[i].symbols, fs[i].asked \ fs[i].found, ps, n, F)
      BY <1>5 DEF Owned
    <3> QED
      BY <1>5, <2>1, <2>2, <3>1, FreshIsApart
  <2> QED
    BY <1>10, <2>2, <2>4, <2>5, <2>6, ClauseOwned
<1>12. Owned(importInfoStack', imports', importParam', last', freed')
  BY <1>8, <1>10, <1>11
<1> QED
  BY <1>8, <1>9, <1>12 DEF IInv

LEMMA ImportStep == ASSUME IInv, importWorks PROVE IInv'
<1>1. PICK st, fs, ps, n, F : /\ st = importInfoStack /\ fs = imports /\ ps = importParam
                             /\ n = last /\ F = freed
  OBVIOUS
<1>2. /\ Owned(st, fs, ps, n, F) /\ n \in Nat /\ F \subseteq 1..n /\ st \in Seq(Clause)
      /\ ps \in Seq(Param(n))
  <2>1. Owned(st, fs, ps, n, F)
    BY <1>1 DEF IInv
  <2> QED
    BY <2>1 DEF Owned
<1>3. CASE /\ importInfoStack = <<>> /\ phase' = "parse"
           /\ UNCHANGED <<importInfoStack, imports, last, freed, twice>>
  <2>1. Owned(importInfoStack', imports', importParam', last', freed')
    BY <1>1, <1>2, <1>3 DEF importWorks
  <2> QED
    BY <1>3, <2>1 DEF IInv
<1>4. CASE st # <<>>
  <2>1. PICK c : c = Last(st)
    OBVIOUS
  <2>2. PICK s : s = c.symbols
    OBVIOUS
  <2>3. PICK t : t = hashMapDup(s)
    OBVIOUS
  <2>4. PICK G : G = hashMapRelease(s)
    OBVIOUS
  <2>5. PICK x : x = [symbols |-> t, asked |-> c.asked, found |-> {}]
    OBVIOUS
  <2>6. /\ importInfoStack' = Front(st) /\ imports' = Append(fs, x) /\ last' = n + n
        /\ freed' = F \cup G /\ twice' = twice \cup (F \cap G)
        /\ importParam' = ps /\ phase' = phase
    BY <1>1, <1>4, <2>1, <2>2, <2>3, <2>4, <2>5 DEF importWorks, Handed, free
  <2>7. PICK m \in Nat : m = n + n /\ n <= m
    <3>1. n + n \in Nat /\ n <= n + n
      BY <1>2
    <3> QED
      BY <3>1
  <2>8. /\ c \in Clause /\ Holds(s, c.asked, ps, n, F)
        /\ \A i \in DOMAIN Front(st) : i \in DOMAIN st /\ Front(st)[i] = st[i]
    <3>1. /\ Last(st) = st[Len(st)] /\ Len(st) \in DOMAIN st
          /\ \A i \in DOMAIN Front(st) : i \in DOMAIN st /\ Front(st)[i] = st[i]
      BY <1>2, <1>4, PopFacts
    <3>2. \A i \in DOMAIN st : Holds(st[i].symbols, st[i].asked, ps, n, F)
      BY <1>2 DEF Owned
    <3> QED
      BY <1>2, <2>1, <2>2, <3>1, <3>2
  <2>9. Well(s) /\ G \subseteq BlocksOf(s) /\ F \cap G = {} /\ F \cup G \subseteq 1..n
    <3>1. Well(s) /\ BlocksOf(s) \subseteq (1..n) \ F
      BY <2>8 DEF Holds
    <3>2. G \subseteq BlocksOf(s)
      BY <2>4, <3>1, ReleaseIs
    <3> QED
      BY <1>2, <3>1, <3>2
  <2>10. Owned(Front(st), fs, ps, m, F \cup G)
    <3>1. Owned(Front(st), fs, ps, n, F \cup G)
      BY <1>2, <1>4, <2>1, <2>2, <2>9, ClausePopped
    <3> QED
      BY <2>7, <3>1, Grown
  <2>11. /\ Well(t) /\ KeysOf(t) = c.asked /\ BlocksOf(t) \subseteq (n + 1)..m
         /\ \A p, q \in PairsOf(t) : p.val = q.val => p = q
    <3>1. Well(t) /\ PairsOf(t) = {Shifted(n, p) : p \in PairsOf(s)}
      BY <1>1, <1>2, <2>3, <2>9, DupIs
    <3>2. /\ PairsOf(s) \subseteq Pair /\ KeysOf(s) = c.asked
          /\ \A p \in PairsOf(s) : p.val \in 1..n
          /\ \A p, q \in PairsOf(s) : p.val = q.val => p = q
      <4>1. /\ KeysOf(s) = c.asked /\ BlocksOf(s) \subseteq 1..n
            /\ \A p, q \in PairsOf(s) : p.val = q.val => p = q
        BY <2>8 DEF Holds
      <4>2. PairsOf(s) \subseteq Pair
        BY <2>9, WellIs
      <4>3. \A p \in PairsOf(s) : p.val \in 1..n
        BY <4>1 DEF BlocksOf
      <4> QED
        BY <4>1, <4>2, <4>3
    <3>3. \A b \in 1..n : n + b \in (n + 1)..m
      BY <1>2, <2>7
    <3>4. \A p \in PairsOf(t) : \E q \in PairsOf(s) :
            p = Shifted(n, q) /\ p.key = q.key /\ p.val = n + q.val
      BY <3>1 DEF Shifted
    <3>5. \A q \in PairsOf(s) : \E p \in PairsOf(t) : p.key = q.key
      <4>1. \A q \in PairsOf(s) : Shifted(n, q) \in PairsOf(t) /\ Shifted(n, q).key = q.key
        BY <3>1 DEF Shifted
      <4> QED
        BY <4>1
    <3>6. KeysOf(t) = c.asked
      BY <3>2, <3>4, <3>5 DEF KeysOf
    <3>7. BlocksOf(t) \subseteq (n + 1)..m
      BY <3>2, <3>3, <3>4 DEF BlocksOf
    <3>8. ASSUME NEW p \in PairsOf(t), NEW q \in PairsOf(t), p.val = q.val PROVE p = q
      <4>1. PICK u \in PairsOf(s) : p = Shifted(n, u) /\ p.val = n + u.val
        BY <3>4
      <4>2. PICK v \in PairsOf(s) : q = Shifted(n, v) /\ q.val = n + v.val
        BY <3>4
      <4>3. u.val \in 1..n /\ v.val \in 1..n /\ n + u.val = n + v.val
        BY <3>2, <3>8, <4>1, <4>2
      <4>4. \A a, b \in 1..n : n + a = n + b => a = b
        BY <1>2
      <4>5. u.val = v.val
        BY <4>3, <4>4, Zenon
      <4> QED
        BY <3>2, <4>1, <4>2, <4>5
    <3> QED
      BY <3>1, <3>6, <3>7, <3>8
  <2>12. x \in File /\ x.symbols = t /\ x.asked \ x.found = KeysOf(t)
    <3>1. t \in [Index -> Bucket]
      BY <2>11, WellIs
    <3>2. c.asked \in SUBSET Keys
      BY <2>8 DEF Clause
    <3>3. x \in File
      BY <2>5, <3>1, <3>2 DEF File
    <3> QED
      BY <2>5, <2>11, <3>3
  <2>13. Holds(x.symbols, x.asked \ x.found, ps, m, F \cup G)
    <3>1. \A i \in DOMAIN ps : ps[i].block \in 1..n
      <4>1. \A i \in DOMAIN ps : ps[i] \in Param(n)
        BY <1>2
      <4> QED
        BY <4>1 DEF Param
    <3>2. Holds(t, KeysOf(t), ps, m, F \cup G)
      BY <1>2, <2>9, <2>11, <3>1, FreshIsHeld, Zenon
    <3> QED
      BY <2>12, <3>2
  <2>14. \A i \in DOMAIN Front(st) : Disjoint(Front(st)[i].symbols, x.symbols)
    <3>1. \A i \in DOMAIN st : Holds(st[i].symbols, st[i].asked, ps, n, F)
      BY <1>2 DEF Owned
    <3>2. \A i \in DOMAIN st : Disjoint(st[i].symbols, x.symbols)
      BY <1>2, <2>11, <2>12, <3>1, FreshIsApart
    <3> QED
      BY <2>8, <3>2
  <2>15. \A i \in DOMAIN fs : Disjoint(fs[i].symbols, x.symbols)
    <3>1. \A i \in DOMAIN fs : Holds(fs[i].symbols, fs[i].asked \ fs[i].found, ps, n, F)
      BY <1>2 DEF Owned
    <3> QED
      BY <1>2, <2>11, <2>12, <3>1, FreshIsApart
  <2>16. Owned(Front(st), Append(fs, x), ps, m, F \cup G)
    BY <2>10, <2>12, <2>13, <2>14, <2>15, FileOwned
  <2>17. Owned(importInfoStack', imports', importParam', last', freed')
    BY <2>6, <2>7, <2>16
  <2> QED
    BY <2>6, <2>9, <2>17 DEF IInv
<1> QED
  BY <1>1, <1>3, <1>4 DEF importWorks

LEMMA LeaveStep == ASSUME IInv, switchToPrevModule PROVE IInv'
<1>1. PICK st, fs, ps, n, F : /\ st = importInfoStack /\ fs = imports /\ ps = importParam
                             /\ n = last /\ F = freed
  OBVIOUS
<1>2. PICK G : G = hashMapRelease(Last(fs).symbols)
  OBVIOUS
<1>3. /\ fs # <<>> /\ imports' = Front(fs) /\ freed' = F \cup G /\ twice' = twice \cup (F \cap G)
      /\ importInfoStack' = st /\ importParam' = ps /\ last' = n /\ phase' = phase
  BY <1>1, <1>2 DEF switchToPrevModule, Reading, Symbols, free
<1>4. Owned(st, fs, ps, n, F) /\ fs \in Seq(File)
  BY <1>1 DEF IInv, Owned
<1>5. G \subseteq BlocksOf(Last(fs).symbols) /\ F \cap G = {}
  <2>1. Last(fs) = fs[Len(fs)] /\ Len(fs) \in DOMAIN fs
    BY <1>3, <1>4, PopFacts
  <2>2. \A i \in DOMAIN fs : Well(fs[i].symbols) /\ BlocksOf(fs[i].symbols) \cap F = {}
    BY <1>4 DEF Owned, Holds
  <2>3. Well(Last(fs).symbols) /\ BlocksOf(Last(fs).symbols) \cap F = {}
    BY <2>1, <2>2
  <2>4. G \subseteq BlocksOf(Last(fs).symbols)
    BY <1>2, <2>3, ReleaseIs
  <2> QED
    BY <2>3, <2>4
<1>6. Owned(st, Front(fs), ps, n, F \cup G)
  BY <1>3, <1>4, <1>5, FilePopped
<1>7. Owned(importInfoStack', imports', importParam', last', freed')
  BY <1>3, <1>6
<1> QED
  BY <1>3, <1>5, <1>7 DEF IInv

\* A pair is deleted from the map of the last file.
LEMMA DeleteStep == ASSUME IInv, Reading, NEW k \in Keys, collectInfo_del(k) PROVE IInv'
<1>1. PICK st, fs, ps, n, F : /\ st = importInfoStack /\ fs = imports /\ ps = importParam
                             /\ n = last /\ F = freed
  OBVIOUS
<1>2. PICK L : L = Len(fs)
  OBVIOUS
<1>3. PICK c : c = fs[L]
  OBVIOUS
<1>4. PICK s : s = c.symbols
  OBVIOUS
<1>5. PICK e : e = s[Slot(k)]
  OBVIOUS
<1>6. Owned(st, fs, ps, n, F) /\ fs # <<>> /\ fs \in Seq(File) /\ n \in Nat
  BY <1>1 DEF IInv, Owned, Reading
<1>7. Last(fs) = c /\ L \in DOMAIN fs /\ c \in File
  <2>1. Last(fs) = fs[L] /\ L \in DOMAIN fs
    BY <1>2, <1>6, PopFacts
  <2> QED
    BY <1>3, <1>6, <2>1
<1>8. Symbols = s
  BY <1>1, <1>4, <1>7 DEF Symbols
<1>9. Holds(s, c.asked \ c.found, ps, n, F)
  BY <1>3, <1>4, <1>6, <1>7, Zenon DEF Owned
<1>10. /\ Well(s) /\ KeysOf(s) = c.asked \ c.found /\ BlocksOf(s) \subseteq (1..n) \ F
       /\ \A p, q \in PairsOf(s) : p.val = q.val => p = q
       /\ \A i \in DOMAIN ps : ps[i].block \notin BlocksOf(s)
  BY <1>9 DEF Holds
<1>11. ASSUME NEW f, NEW G,
              \/ e.key = k /\ f = Beheaded(e) /\ G = {e.val}
              \/ /\ e.key # k /\ hashChainSearch(e.chain, k) # {} /\ f = Unchained(e, k)
                 /\ G = {},
              imports' = [imports EXCEPT ![Len(imports)] = Struck(@, k, f)],
              free(G)
       PROVE  IInv'
  <2>1. PICK t : t = [s EXCEPT ![Slot(k)] = f]
    OBVIOUS
  <2>2. PICK y : y = [symbols |-> t, asked |-> c.asked, found |-> c.found \cup ({k} \cap c.asked)]
    OBVIOUS
  <2>3. Well(t) /\ PairsOf(t) = {p \in PairsOf(s) : p.key # k}
    BY <1>5, <1>10, <1>11, <2>1, TakenOut
  <2>4. y \in File
    <3>1. t \in [Index -> Bucket] /\ c.asked \in SUBSET Keys /\ c.found \in SUBSET Keys
      BY <1>7, <2>3, WellIs DEF File
    <3>2. c.found \cup ({k} \cap c.asked) \in SUBSET Keys
      BY <3>1
    <3> QED
      BY <2>2, <3>1, <3>2 DEF File
  <2>5. imports' = [fs EXCEPT ![L] = y]
    <3>1. imports' = [fs EXCEPT ![L] = Struck(fs[L], k, f)]
      BY <1>1, <1>2, <1>11
    <3>2. Struck(c, k, f) = [c EXCEPT !.symbols = t, !.found = c.found \cup ({k} \cap c.asked)]
      BY <1>4, <2>1 DEF Struck
    <3>3. Struck(c, k, f) = y
      BY <1>7, <2>2, <3>2 DEF File
    <3> QED
      BY <1>3, <3>1, <3>3
  <2>6. PairsOf(t) \subseteq PairsOf(s) /\ BlocksOf(t) \subseteq BlocksOf(s)
    BY <2>3 DEF BlocksOf
  <2>7. KeysOf(t) = y.asked \ y.found
    <3>1. KeysOf(t) = KeysOf(s) \ {k}
      BY <2>3 DEF KeysOf
    <3> QED
      BY <1>10, <2>2, <3>1
  <2>8. G \subseteq BlocksOf(s) /\ G \cap BlocksOf(t) = {}
    <3>1. CASE G = {}
      BY <3>1
    <3>2. CASE e.key = k /\ G = {e.val}
      <4>1. PICK h : h = [key |-> k, val |-> e.val]
        OBVIOUS
      <4>2. h \in PairsOf(s) /\ h.val = e.val /\ h.key = k
        BY <1>5, <1>10, <3>2, <4>1, HeadIs
      <4>3. \A p \in PairsOf(t) : p \in PairsOf(s) /\ p.key # k
        BY <2>3
      <4>4. \A p \in PairsOf(t) : p.val # e.val
        BY <1>10, <4>2, <4>3
      <4> QED
        BY <3>2, <4>2, <4>4 DEF BlocksOf
    <3> QED
      BY <1>11, <3>1, <3>2
  <2>9. Holds(y.symbols, y.asked \ y.found, ps, n, F \cup G)
    <3>1. y.symbols = t
      BY <2>2
    <3>2. BlocksOf(t) \subseteq (1..n) \ (F \cup G)
      BY <1>10, <2>6, <2>8
    <3>3. \A p, q \in PairsOf(t) : p.val = q.val => p = q
      BY <1>10, <2>6
    <3>4. \A i \in DOMAIN ps : ps[i].block \notin BlocksOf(t)
      BY <1>10, <2>6
    <3> QED
      BY <2>3, <2>7, <3>1, <3>2, <3>3, <3>4 DEF Holds
  <2>10. Owned(st, [fs EXCEPT ![L] = y], ps, n, F \cup G)
    <3>1. G \subseteq BlocksOf(fs[L].symbols) /\ BlocksOf(y.symbols) \subseteq BlocksOf(fs[L].symbols)
      BY <1>3, <1>4, <2>2, <2>6, <2>8
    <3> QED
      BY <1>6, <1>7, <2>4, <2>9, <3>1, FileChanged
  <2>11. /\ freed' = F \cup G /\ twice' = twice \cup (F \cap G)
         /\ importInfoStack' = st /\ importParam' = ps /\ last' = n /\ phase' = phase
    <3>1. freed' = F \cup G /\ twice' = twice \cup (F \cap G)
      BY <1>1, <1>11 DEF free
    <3> QED
      BY <1>1, <3>1 DEF collectInfo_del
  <2>12. Owned(importInfoStack', imports', importParam', last', freed')
    BY <2>5, <2>10, <2>11
  <2>13. F \cap G = {}
    BY <1>10, <2>8
  <2> QED
    BY <2>11, <2>12, <2>13 DEF IInv
<1>12. CASE UNCHANGED <<imports, freed, twice>>
  <2>1. Owned(importInfoStack', imports', importParam', last', freed')
    BY <1>1, <1>6, <1>12 DEF collectInfo_del
  <2> QED
    BY <1>12, <2>1 DEF IInv, collectInfo_del
<1>13. e = Symbols[Slot(k)]
  BY <1>5, <1>8
<1> QED
  BY <1>11, <1>12, <1>13 DEF collectInfo_del

LEMMA InitInv == Init => IInv
BY InitOwned DEF Init, IInv

LEMMA NextInv == IInv /\ [Next]_vars => IInv'
<1> SUFFICES ASSUME IInv, [Next]_vars PROVE IInv'
  OBVIOUS
<1>1. ASSUME NEW k \in Keys, disParamStore(k) PROVE IInv'
  BY <1>1, StoreStep
<1>2. ASSUME NEW k \in Keys, CollectLeave(k) \/ CollectNode(k) PROVE IInv'
  BY <1>2, DeleteStep DEF CollectLeave, CollectNode
<1>3. CASE MODULES_CONTENT
  BY <1>3, ClauseStep
<1>4. CASE SymbolConflict \/ IMPORT \/ UNCHANGED vars
  <2>1. /\ importInfoStack' = importInfoStack /\ imports' = imports /\ importParam' = importParam
        /\ last' = last /\ freed' = freed /\ twice' = twice
        /\ phase' \in {"exit", "import", phase}
    BY <1>4 DEF SymbolConflict, IMPORT, vars
  <2>2. Owned(importInfoStack', imports', importParam', last', freed')
    BY <2>1 DEF IInv
  <2> QED
    BY <2>1, <2>2 DEF IInv
<1>5. CASE importWorks
  BY <1>5, ImportStep
<1>6. CASE switchToPrevModule
  BY <1>6, LeaveStep
<1> QED
  BY <1>1, <1>2, <1>3, <1>4, <1>5, <1>6 DEF Next

-----------------------------------------------------------------------------
(***************************************************************************)
(* What the runs check.                                                    *)
(***************************************************************************)
LEMMA InvFacts ==
  ASSUME IInv
  PROVE  /\ last \in Nat /\ freed \subseteq 1..last /\ twice = {}
         /\ importParam \in Seq(Param(last))
         /\ \A i \in DOMAIN importParam : importParam[i].block \notin freed
         /\ \A i \in DOMAIN importInfoStack :
              /\ importInfoStack[i] \in Clause
              /\ KeysOf(importInfoStack[i].symbols) = importInfoStack[i].asked
              /\ BlocksOf(importInfoStack[i].symbols) \cap freed = {}
         /\ \A i \in DOMAIN imports :
              /\ imports[i] \in File
              /\ KeysOf(imports[i].symbols) = imports[i].asked \ imports[i].found
              /\ BlocksOf(imports[i].symbols) \cap freed = {}
         /\ \A i, j \in DOMAIN imports :
              i # j => Disjoint(imports[i].symbols, imports[j].symbols)
<1>1. Owned(importInfoStack, imports, importParam, last, freed) /\ twice = {}
  BY DEF IInv
<1>2. \A i \in DOMAIN importInfoStack :
        /\ importInfoStack[i] \in Clause
        /\ Holds(importInfoStack[i].symbols, importInfoStack[i].asked, importParam, last, freed)
  BY <1>1 DEF Owned
<1>3. \A i \in DOMAIN imports :
        /\ imports[i] \in File
        /\ Holds(imports[i].symbols, imports[i].asked \ imports[i].found, importParam, last, freed)
  <2>1. imports \in Seq(File)
    BY <1>1 DEF Owned
  <2>2. \A i \in DOMAIN imports :
          Holds(imports[i].symbols, imports[i].asked \ imports[i].found, importParam, last, freed)
    BY <1>1, Zenon DEF Owned
  <2>3. \A i \in DOMAIN imports : imports[i] \in File
    BY <2>1
  <2> QED
    BY <2>2, <2>3, Zenon
<1>4. \A s, keys, ps, n, F : Holds(s, keys, ps, n, F) => KeysOf(s) = keys /\ BlocksOf(s) \cap F = {}
  BY DEF Holds
<1>5. /\ last \in Nat /\ freed \subseteq 1..last
      /\ importParam \in Seq(Param(last))
      /\ \A i \in DOMAIN importParam : importParam[i].block \notin freed
      /\ \A i, j \in DOMAIN imports :
           i # j => Disjoint(imports[i].symbols, imports[j].symbols)
  BY <1>1 DEF Owned
<1> QED
  BY <1>1, <1>2, <1>3, <1>4, <1>5, Zenon

\* The chain, the two stacks and the blocks have their types (TypeOK).
THEOREM ImportTypes == Spec => []TypeOK
<1>1. IInv => TypeOK
  BY InvFacts DEF TypeOK, IInv, Param, Clause, File
<1> QED
  BY <1>1, InitInv, NextInv, PTL DEF Spec

\* disParamRelease_Static, hashMapRelease and hashMapDelete free nothing that is
\* still named and nothing a second time, for every order of clauses, files and
\* found symbols (NothingDangles).
THEOREM NothingNamedIsFreed == Spec => []NothingDangles
<1>1. IInv => NothingDangles
  BY InvFacts DEF NothingDangles, Maps
<1> QED
  BY <1>1, InitInv, NextInv, PTL DEF Spec

\* The copy that hashMapDup makes for a file is the file's alone, and still asks for
\* everything its clause asked for and symbolCollecting has not found (ListsAreOwn).
THEOREM FilesKeepTheirLists == Spec => []ListsAreOwn
<1>1. IInv => ListsAreOwn
  BY InvFacts DEF ListsAreOwn, Disjoint
<1> QED
  BY <1>1, InitInv, NextInv, PTL DEF Spec
=============================================================================
