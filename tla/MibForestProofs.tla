-------------------------- MODULE MibForestProofs --------------------------
(***************************************************************************)
(* Whatever the definitions of a MIB and the symbols above them, the trees *)
(* of mibTreeObjTree.c keep every node that was built in one place, below  *)
(* the node it names as its parent, while trees grow, are merged in any    *)
(* order, and are completed; the OIDs are those of the definitions; and    *)
(* trees that are simple to merge become one.                              *)
(***************************************************************************)
EXTENDS MibForest, FiniteSetTheorems, WellFoundedInduction, SequenceTheorems, TLAPS

Nodes ==
  [id : Nat, ident : Name, parent : Name \cup {NULL}, depth : Nat,
   oid : Seq(Name \cup {JUNK}), shared : BOOLEAN]

\* Node j is the parent of node i.
IsUp(tree, i, j) ==
  /\ j \in 1..(i - 1) /\ tree[j].depth < tree[i].depth
  /\ \A k \in (j + 1)..(i - 1) : tree[k].depth >= tree[i].depth

\* One root and no gaps.
Shaped(tree) ==
  /\ tree \in Seq(Nodes) /\ tree # <<>> /\ tree[1].depth = 0
  /\ \A i \in 2..Len(tree) : tree[i].depth \in 1..(tree[i - 1].depth + 1)

Linked(tree) ==
  \A i \in 2..Len(tree) : \E j \in 1..(i - 1) :
    IsUp(tree, i, j) /\ tree[j].ident = tree[i].parent

Distinct(tree) ==
  \A i, j \in 1..Len(tree) : tree[i].id = tree[j].id => i = j

GoodTree(tree) == Shaped(tree) /\ Linked(tree) /\ Distinct(tree)

\* What a node keeps when its tree is moved.
Bare(tree) == {[tree[i] EXCEPT !.depth = 0] : i \in 1..Len(tree)}
Ids(tree)  == {tree[i].id : i \in 1..Len(tree)}

Bares(ts, tt)  == (UNION {Bare(ts[t]) : t \in 1..Len(ts)}) \cup Bare(tt)
AllIds(ts, tt) == (UNION {Ids(ts[t]) : t \in 1..Len(ts)}) \cup Ids(tt)

\* A list of trees, and the tree that others are merged into, or none: a node is
\* in one tree, and nodes are numbered as they are built.
IsForest(ts, tt, n) ==
  /\ ts \in Seq(Seq(Nodes)) /\ tt \in Seq(Nodes) /\ n \in Nat
  /\ \A t \in 1..Len(ts) : GoodTree(ts[t])
  /\ tt # <<>> => GoodTree(tt)
  /\ \A t, u \in 1..Len(ts) : t # u => Ids(ts[t]) \cap Ids(ts[u]) = {}
  /\ \A t \in 1..Len(ts) : Ids(ts[t]) \cap Ids(tt) = {}
  /\ AllIds(ts, tt) = 1..n

AllBare == Bares(trees, theTree)

-----------------------------------------------------------------------------
(***************************************************************************)
(* The inductive invariant.                                                *)
(***************************************************************************)
Typed ==
  /\ phase \in {"read", "merge", "complete", "oid", "done", "aborted", "crashed"}
  /\ symTable \in SymbolTables /\ wall \in [DOMAIN symTable -> Nat]
  /\ last \in 0..(IF phase = "read" THEN Len(trees) ELSE Len(atEnd))
  /\ scan \in 1..(Len(trees) + 1) /\ merged \in BOOLEAN /\ built \in Nat
  /\ numOfTree = Len(trees)
  /\ phase = "read" => scan = 1
  /\ phase = "merge" <=> theTree # <<>>
  /\ phase = "complete" => trees # <<>>
  /\ phase = "oid" => Len(trees) = 1

\* A mark stands on an ancestor of the node that was marked with.
WallTrue ==
  \A s \in DOMAIN symTable : wall[s] # 0 =>
    \E n \in AllBare : n.id = wall[s] /\ s \in ToSet(Path(n.parent))

IInv == Typed /\ IsForest(trees, theTree, built) /\ WallTrue

-----------------------------------------------------------------------------
(***************************************************************************)
(* Least and greatest numbers.                                             *)
(***************************************************************************)
\* Every set of numbers has a least one: the library's principle takes an operator,
\* this one a set.
LEMMA LeastNat ==
  ASSUME NEW S \in SUBSET Nat, S # {}
  PROVE  \E m \in S : \A x \in S : m <= x
<1>1. PICK U : U = {0..n : n \in S}
  OBVIOUS
<1>2. ASSUME NEW t \in U PROVE t \in FiniteSubsetsOf(Nat)
  <2>1. PICK n \in S : t = 0..n
    BY <1>1
  <2>2. IsFiniteSet(0..n) /\ 0..n \in SUBSET Nat
    BY FS_Interval
  <2> QED
    BY <2>1, <2>2 DEF FiniteSubsetsOf
<1>3. PICK t \in U : \A y \in U : <<y, t>> \notin StrictSubsetOrdering(Nat)
  <2>1. U \subseteq FiniteSubsetsOf(Nat) /\ U # {}
    BY <1>1, <1>2
  <2> QED
    BY <2>1, FS_StrictSubsetOrderingWellFounded, WFMin, Zenon
<1>4. PICK m \in S : t = 0..m
  BY <1>1
<1>5. ASSUME NEW x \in S, x < m PROVE FALSE
  <2>1. 0..x \in U
    BY <1>1
  <2>2. 0..x \subseteq 0..m /\ 0..x \in SUBSET Nat /\ 0..m \in SUBSET Nat
    BY <1>5
  <2>3. m \in 0..m /\ m \notin 0..x
    BY <1>5
  <2>4. <<0..x, 0..m>> \in StrictSubsetOrdering(Nat)
    BY <2>2, <2>3 DEF StrictSubsetOrdering
  <2> QED
    BY <1>3, <1>4, <2>1, <2>4
<1>6. \A x \in S : m <= x
  <2>1. \A x \in S : x \in Nat /\ m \in Nat
    OBVIOUS
  <2> QED
    BY <1>5, <2>1
<1> QED
  BY <1>6

\* Induction, for a set.
LEMMA Grows ==
  ASSUME NEW S, 0 \in S, \A n \in Nat : n \in S => n + 1 \in S
  PROVE  Nat \subseteq S
<1>1. SUFFICES ASSUME Nat \ S # {} PROVE FALSE
  OBVIOUS
<1>2. PICK m \in Nat \ S : \A x \in Nat \ S : m <= x
  <2>1. Nat \ S \in SUBSET Nat
    OBVIOUS
  <2> QED
    BY <1>1, <2>1, LeastNat
<1>3. m # 0 /\ m - 1 \in Nat /\ ~(m <= m - 1)
  OBVIOUS
<1>4. m - 1 \in S
  BY <1>2, <1>3
<1> QED
  BY <1>3, <1>4

\* A bounded set of numbers has a greatest one.
LEMMA GreatestNat ==
  ASSUME NEW b \in Nat, NEW S \in SUBSET (0..b), S # {}
  PROVE  \E m \in S : \A x \in S : x <= m
<1>1. PICK D : D = {b - x : x \in S}
  OBVIOUS
<1>2. D \in SUBSET Nat /\ D # {}
  <2>1. \A x \in S : b - x \in Nat
    OBVIOUS
  <2> QED
    BY <1>1, <2>1
<1>3. PICK d \in D : \A y \in D : d <= y
  BY <1>2, LeastNat
<1>4. PICK m \in S : d = b - m
  BY <1>1
<1>5. \A x \in S : x <= m
  <2> SUFFICES ASSUME NEW x \in S PROVE x <= m
    OBVIOUS
  <2>1. b - x \in D
    BY <1>1
  <2>2. b - m <= b - x
    BY <1>3, <1>4, <2>1
  <2> QED
    BY <2>2
<1> QED
  BY <1>5

LEMMA MinIs ==
  ASSUME NEW S \in SUBSET Int, NEW m \in S, \A x \in S : m <= x
  PROVE  Min(S) = m
<1>1. Min(S) \in S /\ \A x \in S : Min(S) <= x
  BY Zenon DEF Min
<1>2. Min(S) <= m /\ m <= Min(S)
  BY <1>1
<1>3. Min(S) \in Int /\ m \in Int
  BY <1>1
<1> QED
  BY <1>2, <1>3

LEMMA MaxIs ==
  ASSUME NEW S \in SUBSET Int, NEW m \in S, \A x \in S : x <= m
  PROVE  Max(S) = m
<1>0. \A x \in S : m >= x
  OBVIOUS
<1>1. Max(S) \in S /\ \A x \in S : Max(S) >= x
  BY <1>0, Zenon DEF Max
<1>2. Max(S) <= m /\ m <= Max(S)
  BY <1>1
<1>3. Max(S) \in Int /\ m \in Int
  BY <1>1
<1> QED
  BY <1>2, <1>3

LEMMA MinIn ==
  ASSUME NEW S \in SUBSET Nat, S # {}
  PROVE  Min(S) \in S
<1>1. PICK m \in S : \A x \in S : m <= x
  BY LeastNat
<1>2. Min(S) = m
  BY <1>1, MinIs
<1> QED
  BY <1>2

-----------------------------------------------------------------------------
(***************************************************************************)
(* Nodes and trees.                                                        *)
(***************************************************************************)
LEMMA BareNode ==
  ASSUME NEW n \in Nodes
  PROVE  LET m == [n EXCEPT !.depth = 0] IN
         /\ m.id = n.id /\ m.ident = n.ident /\ m.parent = n.parent
         /\ m.shared = n.shared /\ m.oid = n.oid
BY DEF Nodes

LEMMA TreeFacts ==
  ASSUME NEW tree, Shaped(tree)
  PROVE  /\ Len(tree) \in Nat /\ Len(tree) >= 1 /\ DOMAIN tree = 1..Len(tree)
         /\ \A i \in 1..Len(tree) :
              /\ tree[i] \in Nodes /\ tree[i].depth \in Nat
              /\ tree[i].id \in Nat /\ tree[i].ident \in Name
              /\ i = 1 => tree[i].depth = 0
              /\ i # 1 => tree[i].depth >= 1 /\ tree[i].depth <= tree[i - 1].depth + 1
<1>1. tree \in Seq(Nodes) /\ tree # <<>>
  BY DEF Shaped
<1>2. Len(tree) \in Nat /\ Len(tree) >= 1 /\ DOMAIN tree = 1..Len(tree)
  BY <1>1, LenProperties, EmptySeq
<1>3. \A i \in 1..Len(tree) : tree[i] \in Nodes
  BY <1>1, ElementOfSeq
<1>4. \A n \in Nodes : n.depth \in Nat /\ n.id \in Nat /\ n.ident \in Name
  BY DEF Nodes
<1>5. ASSUME NEW i \in 1..Len(tree), i # 1
      PROVE  tree[i].depth >= 1 /\ tree[i].depth <= tree[i - 1].depth + 1
  <2>1. i \in 2..Len(tree) /\ i - 1 \in 1..Len(tree)
    BY <1>2, <1>5
  <2>2. tree[i].depth \in 1..(tree[i - 1].depth + 1)
    BY <2>1 DEF Shaped
  <2>3. tree[i - 1].depth \in Nat
    BY <1>3, <1>4, <2>1
  <2> QED
    BY <2>2, <2>3
<1>6. \A i \in 1..Len(tree) : i = 1 => tree[i].depth = 0
  BY DEF Shaped
<1> QED
  BY <1>2, <1>3, <1>4, <1>5, <1>6

\* The parent is the only node like it.
LEMMA UpIs ==
  ASSUME NEW tree, Shaped(tree), NEW i \in 2..Len(tree), NEW j \in 1..(i - 1), IsUp(tree, i, j)
  PROVE  Up(tree, i) = j
<1>1. PICK S : S = {k \in 1..(i - 1) : tree[k].depth < tree[i].depth}
  OBVIOUS
<1>2. S \in SUBSET Int /\ j \in S
  BY <1>1 DEF IsUp
<1>3. \A x \in S : x <= j
  <2> SUFFICES ASSUME NEW x \in S, ~(x <= j) PROVE FALSE
    OBVIOUS
  <2>1. x \in (j + 1)..(i - 1) /\ tree[x].depth < tree[i].depth
    BY <1>1
  <2>2. tree[x].depth >= tree[i].depth
    BY <2>1 DEF IsUp
  <2>3. tree[x].depth \in Nat /\ tree[i].depth \in Nat
    <3>1. x \in 1..Len(tree) /\ i \in 1..Len(tree)
      BY <2>1, TreeFacts
    <3> QED
      BY <3>1, TreeFacts
  <2> QED
    BY <2>1, <2>2, <2>3
<1>4. Max(S) = j
  BY <1>2, <1>3, MaxIs
<1> QED
  BY <1>1, <1>4 DEF Up

LEMMA FindIs ==
  ASSUME NEW tree, Shaped(tree), NEW ident, Has(tree, ident)
  PROVE  Find(tree, ident) \in 1..Len(tree) /\ tree[Find(tree, ident)].ident = ident
<1>1. PICK S : S = {i \in DOMAIN tree : tree[i].ident = ident}
  OBVIOUS
<1>2. S \in SUBSET Nat /\ S # {}
  BY <1>1, TreeFacts DEF Has
<1>3. Min(S) \in S
  BY <1>2, MinIn
<1> QED
  BY <1>1, <1>3, TreeFacts DEF Find

\* What is below a node is a part of the tree: e is its end.
IsEnd(tree, i, e) ==
  /\ e \in i..Len(tree)
  /\ \A k \in (i + 1)..e : tree[k].depth > tree[i].depth
  /\ e < Len(tree) => tree[e + 1].depth <= tree[i].depth

LEMMA LastBelowIs ==
  ASSUME NEW tree, Shaped(tree), NEW i \in 1..Len(tree)
  PROVE  IsEnd(tree, i, LastBelow(tree, i))
<1>0. /\ Len(tree) \in Nat /\ Len(tree) >= 1 /\ i \in Nat
      /\ \A k \in 1..Len(tree) : tree[k].depth \in Nat
  BY TreeFacts
<1>1. PICK S : S = {j \in i..Len(tree) : \A k \in (i + 1)..j : tree[k].depth > tree[i].depth}
  OBVIOUS
<1>2. S \in SUBSET (0..Len(tree)) /\ i \in S
  BY <1>0, <1>1
<1>3. PICK e \in S : \A x \in S : x <= e
  BY <1>0, <1>2, GreatestNat
<1>4. Max(S) = e
  <2>1. S \in SUBSET Int
    BY <1>2
  <2> QED
    BY <1>3, <2>1, MaxIs
<1>5. e \in i..Len(tree) /\ \A k \in (i + 1)..e : tree[k].depth > tree[i].depth
  BY <1>1
<1>6. ASSUME e < Len(tree), ~(tree[e + 1].depth <= tree[i].depth) PROVE FALSE
  <2>1. e + 1 \in i..Len(tree) /\ e + 1 \in 1..Len(tree) /\ e \in Nat
    BY <1>0, <1>5, <1>6
  <2>2. tree[e + 1].depth > tree[i].depth
    BY <1>0, <1>6, <2>1
  <2>3. \A k \in (i + 1)..(e + 1) : k = e + 1 \/ k \in (i + 1)..e
    BY <2>1
  <2>4. e + 1 \in S
    BY <1>1, <1>5, <2>1, <2>2, <2>3
  <2>5. e + 1 <= e
    BY <1>3, <2>4
  <2> QED
    BY <2>1, <2>5
<1>7. LastBelow(tree, i) = e
  BY <1>1, <1>4 DEF LastBelow
<1> QED
  BY <1>5, <1>6, <1>7 DEF IsEnd

LEMMA DeepenedIs ==
  ASSUME NEW tree, Shaped(tree), NEW d \in Nat
  PROVE  /\ Deepened(tree, d) \in Seq(Nodes) /\ Len(Deepened(tree, d)) = Len(tree)
         /\ \A i \in 1..Len(tree) :
              LET m == Deepened(tree, d)[i] IN
              /\ m \in Nodes /\ m.depth = tree[i].depth + d
              /\ m.id = tree[i].id /\ m.ident = tree[i].ident /\ m.parent = tree[i].parent
              /\ [m EXCEPT !.depth = 0] = [tree[i] EXCEPT !.depth = 0]
<1>1. Len(tree) \in Nat /\ DOMAIN tree = 1..Len(tree) /\ \A i \in 1..Len(tree) : tree[i] \in Nodes
  BY TreeFacts
<1>2. PICK n \in Nat : n = Len(tree)
  BY <1>1
<1>3. PICK D : D = Deepened(tree, d)
  OBVIOUS
<1>4. D = [i \in 1..n |-> [tree[i] EXCEPT !.depth = @ + d]]
  BY <1>1, <1>2, <1>3 DEF Deepened
<1>5. \A i \in 1..n :
        /\ D[i] \in Nodes /\ D[i].depth = tree[i].depth + d
        /\ D[i].id = tree[i].id /\ D[i].ident = tree[i].ident /\ D[i].parent = tree[i].parent
        /\ [D[i] EXCEPT !.depth = 0] = [tree[i] EXCEPT !.depth = 0]
  <2> SUFFICES ASSUME NEW i \in 1..n
               PROVE  /\ D[i] \in Nodes /\ D[i].depth = tree[i].depth + d
                      /\ D[i].id = tree[i].id /\ D[i].ident = tree[i].ident
                      /\ D[i].parent = tree[i].parent
                      /\ [D[i] EXCEPT !.depth = 0] = [tree[i] EXCEPT !.depth = 0]
    OBVIOUS
  <2>1. PICK x \in Nodes : x = tree[i]
    BY <1>1, <1>2
  <2>2. PICK y : y = D[i]
    OBVIOUS
  <2>3. y = [x EXCEPT !.depth = x.depth + d]
    BY <1>4, <2>1, <2>2
  <2>4. /\ y \in Nodes /\ y.depth = x.depth + d
        /\ y.id = x.id /\ y.ident = x.ident /\ y.parent = x.parent
        /\ y.oid = x.oid /\ y.shared = x.shared
    BY <2>3 DEF Nodes
  <2>5. \A r \in Nodes : [r EXCEPT !.depth = 0] =
          [id |-> r.id, ident |-> r.ident, parent |-> r.parent, depth |-> 0,
           oid |-> r.oid, shared |-> r.shared]
    BY DEF Nodes
  <2>6. [y EXCEPT !.depth = 0] = [x EXCEPT !.depth = 0]
    BY <2>4, <2>5
  <2> QED
    BY <2>1, <2>2, <2>4, <2>6
<1>6. D \in Seq(Nodes) /\ Len(D) = n
  <2>1. \A i \in 1..n : D[i] \in Nodes
    BY <1>5
  <2>2. D \in [1..n -> Nodes]
    BY <1>4, <2>1
  <2> QED
    BY <2>2
<1> QED
  BY <1>2, <1>3, <1>5, <1>6

\* A part put into a sequence behind place e.
Splice(tree, part, e) == SubSeq(tree, 1, e) \o part \o SubSeq(tree, e + 1, Len(tree))

LEMMA SpliceIs ==
  ASSUME NEW tree \in Seq(Nodes), NEW part \in Seq(Nodes), NEW e \in 0..Len(tree)
  PROVE  LET T == Splice(tree, part, e) IN
         /\ T \in Seq(Nodes) /\ Len(T) = Len(tree) + Len(part)
         /\ \A p \in 1..e : T[p] = tree[p]
         /\ \A q \in 1..Len(part) : T[e + q] = part[q]
         /\ \A p \in (e + 1)..Len(tree) : T[p + Len(part)] = tree[p]
<1>1. PICK n \in Nat : n = Len(tree)
  BY LenProperties
<1>2. PICK m \in Nat : m = Len(part)
  BY LenProperties
<1>3. e \in Nat /\ e <= n
  BY <1>1
<1>4. PICK A : A = SubSeq(tree, 1, e)
  OBVIOUS
<1>5. PICK B : B = SubSeq(tree, e + 1, n)
  OBVIOUS
<1>6. A \in Seq(Nodes) /\ Len(A) = e /\ \A p \in 1..e : A[p] = tree[p]
  BY <1>1, <1>3, <1>4
<1>7. B \in Seq(Nodes) /\ Len(B) = n - e /\ \A p \in 1..(n - e) : B[p] = tree[e + p]
  BY <1>1, <1>3, <1>5
<1>8. PICK k \in Nat : k = e + m
  BY <1>3
<1>9. PICK C : C = A \o part
  OBVIOUS
<1>10. /\ C \in Seq(Nodes) /\ Len(C) = k
       /\ \A p \in 1..k : C[p] = IF p <= e THEN A[p] ELSE part[p - e]
  <2>1. A \o part \in Seq(Nodes) /\ Len(A \o part) = Len(A) + Len(part)
    BY <1>6, ConcatProperties
  <2>2. \A p \in 1..(Len(A) + Len(part)) :
          (A \o part)[p] = IF p <= Len(A) THEN A[p] ELSE part[p - Len(A)]
    BY <1>6, ConcatProperties, Zenon
  <2> QED
    BY <1>2, <1>6, <1>8, <1>9, <2>1, <2>2
<1>11. PICK l \in Nat : l = n - e
  BY <1>3
<1>12. PICK T : T = C \o B
  OBVIOUS
<1>13. /\ T \in Seq(Nodes) /\ Len(T) = k + l
       /\ \A p \in 1..(k + l) : T[p] = IF p <= k THEN C[p] ELSE B[p - k]
  <2>1. Len(C) = k /\ Len(B) = l /\ C \in Seq(Nodes) /\ B \in Seq(Nodes)
    BY <1>7, <1>10, <1>11
  <2>2. C \o B \in Seq(Nodes) /\ Len(C \o B) = Len(C) + Len(B)
    BY <2>1, ConcatProperties
  <2>3. \A p \in 1..(Len(C) + Len(B)) : (C \o B)[p] = IF p <= Len(C) THEN C[p] ELSE B[p - Len(C)]
    BY <2>1, ConcatProperties, Zenon
  <2> QED
    BY <1>12, <2>1, <2>2, <2>3
<1>14. k + l = n + m
  BY <1>3, <1>8, <1>11
<1>15. \A p \in 1..e : T[p] = tree[p]
  <2> SUFFICES ASSUME NEW p \in 1..e PROVE T[p] = tree[p]
    OBVIOUS
  <2>1. p \in 1..(k + l) /\ p <= k /\ p \in 1..k /\ p <= e
    BY <1>3, <1>8
  <2> QED
    BY <1>6, <1>10, <1>13, <2>1
<1>16. \A q \in 1..m : T[e + q] = part[q]
  <2> SUFFICES ASSUME NEW q \in 1..m PROVE T[e + q] = part[q]
    OBVIOUS
  <2>1. PICK p \in 1..k : p = e + q /\ ~(p <= e) /\ p - e = q /\ p <= k /\ p \in 1..(k + l)
    BY <1>3, <1>8
  <2>2. T[p] = C[p] /\ C[p] = part[p - e]
    BY <1>10, <1>13, <2>1
  <2> QED
    BY <2>1, <2>2
<1>17. \A p \in (e + 1)..n : T[p + m] = tree[p]
  <2> SUFFICES ASSUME NEW p \in (e + 1)..n PROVE T[p + m] = tree[p]
    OBVIOUS
  <2>1. PICK q \in 1..(k + l) : q = p + m /\ ~(q <= k)
    BY <1>3, <1>8, <1>11
  <2>2. PICK r \in 1..l : r = q - k /\ e + r = p
    BY <1>3, <1>8, <1>11, <2>1
  <2>3. T[q] = B[r] /\ B[r] = tree[e + r]
    BY <1>7, <1>11, <1>13, <2>1, <2>2
  <2> QED
    BY <2>1, <2>2, <2>3
<1>18. T = Splice(tree, part, e)
  BY <1>1, <1>4, <1>5, <1>9, <1>12 DEF Splice
<1> QED
  BY <1>1, <1>2, <1>13, <1>14, <1>15, <1>16, <1>17, <1>18

\* A tree hung below node i of another, as the last of its children.
Grafted(tree, sub, i, e) == Splice(tree, Deepened(sub, tree[i].depth + 1), e)

IsGraft(T, tree, sub, i, e) ==
  /\ T \in Seq(Nodes) /\ Len(T) = Len(tree) + Len(sub)
  /\ \A p \in 1..e : T[p] = tree[p]
  /\ \A q \in 1..Len(sub) :
       /\ T[e + q].depth = sub[q].depth + tree[i].depth + 1
       /\ T[e + q].id = sub[q].id /\ T[e + q].ident = sub[q].ident
       /\ T[e + q].parent = sub[q].parent
       /\ [T[e + q] EXCEPT !.depth = 0] = [sub[q] EXCEPT !.depth = 0]
  /\ \A p \in (e + 1)..Len(tree) : T[p + Len(sub)] = tree[p]

LEMMA GraftAt ==
  ASSUME NEW tree, Shaped(tree), NEW sub, Shaped(sub), NEW i \in 1..Len(tree),
         NEW e \in i..Len(tree)
  PROVE  IsGraft(Grafted(tree, sub, i, e), tree, sub, i, e)
<1>1. Len(tree) \in Nat /\ tree \in Seq(Nodes) /\ tree[i].depth \in Nat
  BY TreeFacts DEF Shaped
<1>2. PICK d \in Nat : d = tree[i].depth + 1
  BY <1>1
<1>3. PICK D : D = Deepened(sub, d)
  OBVIOUS
<1>4. /\ D \in Seq(Nodes) /\ Len(D) = Len(sub)
      /\ \A q \in 1..Len(sub) :
              /\ D[q].depth = sub[q].depth + d
              /\ D[q].id = sub[q].id /\ D[q].ident = sub[q].ident /\ D[q].parent = sub[q].parent
              /\ [D[q] EXCEPT !.depth = 0] = [sub[q] EXCEPT !.depth = 0]
  BY <1>3, DeepenedIs
<1>5. PICK T : T = Splice(tree, D, e)
  OBVIOUS
<1>6. e \in 0..Len(tree)
  BY <1>1
<1>7. /\ T \in Seq(Nodes) /\ Len(T) = Len(tree) + Len(sub)
      /\ \A p \in 1..e : T[p] = tree[p]
      /\ \A q \in 1..Len(sub) : T[e + q] = D[q]
      /\ \A p \in (e + 1)..Len(tree) : T[p + Len(sub)] = tree[p]
  <2>1. LET U == Splice(tree, D, e) IN
         /\ U \in Seq(Nodes) /\ Len(U) = Len(tree) + Len(D)
         /\ \A p \in 1..e : U[p] = tree[p]
         /\ \A q \in 1..Len(D) : U[e + q] = D[q]
         /\ \A p \in (e + 1)..Len(tree) : U[p + Len(D)] = tree[p]
    BY <1>1, <1>4, <1>6, SpliceIs, Zenon
  <2> QED
    BY <1>4, <1>5, <2>1
<1>8. \A q \in 1..Len(sub) : sub[q].depth + d = sub[q].depth + tree[i].depth + 1
  <2> SUFFICES ASSUME NEW q \in 1..Len(sub)
               PROVE  sub[q].depth + d = sub[q].depth + tree[i].depth + 1
    OBVIOUS
  <2>1. sub[q].depth \in Nat
    BY TreeFacts
  <2> QED
    BY <1>1, <1>2, <2>1, SMTT(30)
<1>9. T = Grafted(tree, sub, i, e)
  BY <1>2, <1>3, <1>5 DEF Grafted
<1> QED
  BY <1>4, <1>7, <1>8, <1>9 DEF IsGraft


\* Every place of the new tree is one of one of the two.
LEMMA GraftPlaces ==
  ASSUME NEW tree, Shaped(tree), NEW sub, Shaped(sub), NEW i \in 1..Len(tree),
         NEW e \in i..Len(tree), NEW T, IsGraft(T, tree, sub, i, e),
         NEW p \in 1..Len(T)
  PROVE  \/ p \in 1..e
         \/ \E q \in 1..Len(sub) : p = e + q
         \/ \E r \in (e + 1)..Len(tree) : p = r + Len(sub)
<1>1. Len(tree) \in Nat /\ Len(sub) \in Nat /\ Len(T) = Len(tree) + Len(sub)
  BY TreeFacts DEF IsGraft
<1>2. PICK n \in Nat : n = Len(tree)
  BY <1>1
<1>3. PICK m \in Nat : m = Len(sub)
  BY <1>1
<1>4. p \in 1..(n + m) /\ e \in 1..n
  BY <1>1, <1>2, <1>3
<1>5. CASE p <= e
  BY <1>4, <1>5
<1>6. CASE p > e /\ p <= e + m
  <2>1. p - e \in 1..m /\ p = e + (p - e)
    BY <1>4, <1>6
  <2> QED
    BY <1>3, <2>1
<1>7. CASE p > e + m
  <2>1. p - m \in (e + 1)..n /\ p = (p - m) + m
    BY <1>4, <1>7
  <2> QED
    BY <1>2, <1>3, <2>1
<1> QED
  BY <1>4, <1>5, <1>6, <1>7

LEMMA GraftParts ==
  ASSUME NEW tree, Shaped(tree), NEW sub, Shaped(sub), NEW i \in 1..Len(tree),
         NEW e \in i..Len(tree), NEW T, IsGraft(T, tree, sub, i, e)
  PROVE  /\ Bare(T) = Bare(tree) \cup Bare(sub)
         /\ Ids(T) = Ids(tree) \cup Ids(sub)
         /\ Ids(tree) \cap Ids(sub) = {} /\ Distinct(tree) /\ Distinct(sub) => Distinct(T)
<1>1. Len(tree) \in Nat /\ Len(sub) \in Nat /\ Len(T) = Len(tree) + Len(sub)
  BY TreeFacts DEF IsGraft
<1>2. PICK n \in Nat : n = Len(tree)
  BY <1>1
<1>3. PICK m \in Nat : m = Len(sub)
  BY <1>1
<1>4. e \in 1..n /\ Len(T) = n + m
  BY <1>1, <1>2, <1>3
<1>5. \A p \in 1..(n + m) :
        \/ p \in 1..e
        \/ \E q \in 1..m : p = e + q
        \/ \E r \in (e + 1)..n : p = r + m
  <2>1. \A p \in 1..Len(T) :
          \/ p \in 1..e
          \/ \E q \in 1..Len(sub) : p = e + q
          \/ \E r \in (e + 1)..Len(tree) : p = r + Len(sub)
    <3> TAKE p \in 1..Len(T)
    <3> QED
      BY GraftPlaces
  <2> QED
    BY <1>2, <1>3, <1>4, <2>1
<1>6. /\ \A p \in 1..e : T[p] = tree[p]
      /\ \A p \in (e + 1)..n : T[p + m] = tree[p]
      /\ \A q \in 1..m : /\ T[e + q].id = sub[q].id
                         /\ [T[e + q] EXCEPT !.depth = 0] = [sub[q] EXCEPT !.depth = 0]
  BY <1>2, <1>3 DEF IsGraft
<1>7. /\ \A p \in 1..e : p \in 1..(n + m) /\ p \in 1..n
      /\ \A p \in (e + 1)..n : p + m \in 1..(n + m) /\ p \in 1..n
      /\ \A q \in 1..m : e + q \in 1..(n + m)
      /\ \A p \in 1..n : p \in 1..e \/ p \in (e + 1)..n
  BY <1>4
<1>8. /\ \A x \in Bare(T) : x \in Bare(tree) \/ x \in Bare(sub)
      /\ \A x \in Ids(T) : x \in Ids(tree) \/ x \in Ids(sub)
  <2> SUFFICES ASSUME NEW p \in 1..(n + m)
               PROVE  /\ [T[p] EXCEPT !.depth = 0] \in Bare(tree) \cup Bare(sub)
                      /\ T[p].id \in Ids(tree) \cup Ids(sub)
    BY <1>4 DEF Bare, Ids
  <2>1. CASE p \in 1..e
    BY <1>2, <1>6, <1>7, <2>1 DEF Bare, Ids
  <2>2. CASE \E q \in 1..m : p = e + q
    BY <1>3, <1>6, <2>2 DEF Bare, Ids
  <2>3. CASE \E r \in (e + 1)..n : p = r + m
    <3>1. PICK r \in (e + 1)..n : p = r + m
      BY <2>3
    <3>2. T[p] = tree[r] /\ r \in 1..n
      BY <1>6, <1>7, <3>1
    <3> QED
      BY <1>2, <3>2 DEF Bare, Ids
  <2> QED
    BY <1>5, <2>1, <2>2, <2>3
<1>9. Bare(tree) \subseteq Bare(T) /\ Ids(tree) \subseteq Ids(T)
  <2> SUFFICES ASSUME NEW p \in 1..n
               PROVE  [tree[p] EXCEPT !.depth = 0] \in Bare(T) /\ tree[p].id \in Ids(T)
    BY <1>2 DEF Bare, Ids
  <2>1. PICK k \in 1..(n + m) : T[k] = tree[p]
    BY <1>6, <1>7
  <2> QED
    BY <1>4, <2>1 DEF Bare, Ids
<1>10. Bare(sub) \subseteq Bare(T) /\ Ids(sub) \subseteq Ids(T)
  <2> SUFFICES ASSUME NEW q \in 1..m
               PROVE  [sub[q] EXCEPT !.depth = 0] \in Bare(T) /\ sub[q].id \in Ids(T)
    BY <1>3 DEF Bare, Ids
  <2>1. PICK k \in 1..(n + m) : k = e + q
    BY <1>7
  <2> QED
    BY <1>4, <1>6, <2>1 DEF Bare, Ids
<1>11. ASSUME Ids(tree) \cap Ids(sub) = {}, Distinct(tree), Distinct(sub)
       PROVE  Distinct(T)
  <2> SUFFICES ASSUME NEW p \in 1..(n + m), NEW s \in 1..(n + m), T[p].id = T[s].id
               PROVE  p = s
    BY <1>4 DEF Distinct
  <2>1. \A k \in 1..(n + m) :
          \/ \E x \in 1..n : T[k].id = tree[x].id /\ k = (IF x <= e THEN x ELSE x + m)
          \/ \E q \in 1..m : T[k].id = sub[q].id /\ k = e + q
    <3> SUFFICES ASSUME NEW k \in 1..(n + m)
                 PROVE  \/ \E x \in 1..n : T[k].id = tree[x].id /\ k = (IF x <= e THEN x ELSE x + m)
                        \/ \E q \in 1..m : T[k].id = sub[q].id /\ k = e + q
      OBVIOUS
    <3>1. CASE k \in 1..e
      <4>1. k \in 1..n /\ k <= e /\ T[k] = tree[k]
        BY <1>6, <1>7, <3>1
      <4> QED
        BY <4>1
    <3>2. CASE \E q \in 1..m : k = e + q
      BY <1>6, <3>2
    <3>3. CASE \E r \in (e + 1)..n : k = r + m
      <4>1. PICK r \in (e + 1)..n : k = r + m
        BY <3>3
      <4>2. r \in 1..n /\ ~(r <= e) /\ T[k] = tree[r]
        BY <1>4, <1>6, <1>7, <4>1
      <4> QED
        BY <4>1, <4>2
    <3> QED
      BY <1>5, <3>1, <3>2, <3>3
  <2>2. \A x \in 1..n, q \in 1..m : tree[x].id # sub[q].id
    BY <1>2, <1>3, <1>11 DEF Ids
  <2>3. /\ \A x, y \in 1..n : tree[x].id = tree[y].id => x = y
        /\ \A x, y \in 1..m : sub[x].id = sub[y].id => x = y
    BY <1>2, <1>3, <1>11 DEF Distinct
  <2>4. CASE \E x \in 1..n : T[p].id = tree[x].id /\ p = (IF x <= e THEN x ELSE x + m)
    <3>1. PICK x \in 1..n : T[p].id = tree[x].id /\ p = (IF x <= e THEN x ELSE x + m)
      BY <2>4
    <3>2. PICK y \in 1..n : T[s].id = tree[y].id /\ s = (IF y <= e THEN y ELSE y + m)
      BY <2>1, <2>2, <3>1
    <3>3. x = y
      BY <2>3, <3>1, <3>2
    <3> QED
      BY <3>1, <3>2, <3>3
  <2>5. CASE \E q \in 1..m : T[p].id = sub[q].id /\ p = e + q
    <3>1. PICK x \in 1..m : T[p].id = sub[x].id /\ p = e + x
      BY <2>5
    <3>2. \A z \in 1..n : T[s].id # tree[z].id
      BY <2>2, <3>1
    <3>3. PICK y \in 1..m : T[s].id = sub[y].id /\ s = e + y
      BY <2>1, <3>2
    <3>4. x = y
      BY <2>3, <3>1, <3>3
    <3> QED
      BY <3>1, <3>3, <3>4
  <2> QED
    BY <2>1, <2>4, <2>5
<1> QED
  BY <1>8, <1>9, <1>10, <1>11

\* The new tree has one root and no gaps.
LEMMA GraftShaped ==
  ASSUME NEW tree, Shaped(tree), NEW sub, Shaped(sub), NEW i \in 1..Len(tree),
         NEW e, IsEnd(tree, i, e), NEW T, IsGraft(T, tree, sub, i, e)
  PROVE  Shaped(T) /\ T[1] = tree[1]
<1>1. /\ Len(tree) \in Nat /\ Len(tree) >= 1 /\ Len(sub) \in Nat /\ Len(sub) >= 1
      /\ Len(T) = Len(tree) + Len(sub) /\ T \in Seq(Nodes)
  BY TreeFacts DEF IsGraft
<1>2. PICK n \in Nat : n = Len(tree) /\ n >= 1
  BY <1>1
<1>3. PICK m \in Nat : m = Len(sub) /\ m >= 1
  BY <1>1
<1>4. e \in i..n /\ e \in 1..n /\ Len(T) = n + m /\ i \in 1..n
  BY <1>1, <1>2, <1>3 DEF IsEnd
<1>5. PICK d \in Nat : d = tree[i].depth
  BY TreeFacts
<1>6. T[1] = tree[1] /\ T # <<>> /\ T[1].depth = 0
  <2>1. 1 \in 1..e
    BY <1>4
  <2>2. T # <<>>
    BY <1>1, <1>2, <1>3, <1>4
  <2> QED
    BY <2>1, <2>2 DEF IsGraft, Shaped
<1>7. /\ \A p \in 1..n : tree[p].depth \in Nat
      /\ \A p \in 1..n : p # 1 => tree[p].depth >= 1 /\ tree[p].depth <= tree[p - 1].depth + 1
      /\ \A p \in 1..m : sub[p].depth \in Nat
      /\ \A p \in 1..m : p # 1 => sub[p].depth >= 1 /\ sub[p].depth <= sub[p - 1].depth + 1
      /\ sub[1].depth = 0
  BY <1>2, <1>3, TreeFacts DEF Shaped
<1>8. /\ \A p \in 1..e : T[p].depth = tree[p].depth
      /\ \A q \in 1..m : T[e + q].depth = sub[q].depth + d + 1
      /\ \A p \in (e + 1)..n : T[p + m].depth = tree[p].depth
  BY <1>2, <1>3, <1>5 DEF IsGraft
<1>9. tree[e].depth >= d
  <2>1. CASE e = i
    BY <1>5, <2>1
  <2>2. CASE e # i
    <3>1. e \in (i + 1)..e
      BY <1>4, <2>2
    <3>2. tree[e].depth > tree[i].depth
      BY <3>1 DEF IsEnd
    <3> QED
      BY <1>4, <1>5, <1>7, <3>2
  <2> QED
    BY <2>1, <2>2
<1>10. ASSUME NEW p \in 2..(n + m) PROVE T[p].depth \in 1..(T[p - 1].depth + 1)
  <2>1. CASE p <= e
    <3>1. PICK o \in 1..e : o = p - 1
      BY <1>4, <2>1
    <3>2. p \in 1..e /\ p \in 1..n /\ p # 1 /\ o \in 1..n
      BY <1>4, <2>1
    <3>3. T[o].depth = tree[o].depth /\ T[p].depth = tree[p].depth
      BY <1>8, <3>2
    <3>4. tree[p].depth \in Nat /\ tree[o].depth \in Nat
          /\ tree[p].depth >= 1 /\ tree[p].depth <= tree[o].depth + 1
      BY <1>7, <3>1, <3>2
    <3> QED
      BY <3>1, <3>3, <3>4
  <2>2. CASE p = e + 1
    <3>1. T[e].depth = tree[e].depth /\ tree[e].depth \in Nat
      BY <1>4, <1>7, <1>8
    <3>2. T[e + 1].depth = sub[1].depth + d + 1
      BY <1>3, <1>8
    <3>3. p - 1 = e
      BY <1>4, <2>2
    <3> QED
      BY <1>7, <1>9, <2>2, <3>1, <3>2, <3>3
  <2>3. CASE p > e + 1 /\ p <= e + m
    <3>1. PICK q \in 1..m : q = p - e /\ q # 1
      BY <1>4, <2>3
    <3>2. PICK o \in 1..m : o = q - 1
      BY <3>1
    <3>3. p = e + q /\ p - 1 = e + o
      BY <1>4, <3>1, <3>2
    <3>4. T[p].depth = sub[q].depth + d + 1 /\ T[p - 1].depth = sub[o].depth + d + 1
      BY <1>8, <3>3
    <3>5. PICK x \in Nat : x = sub[q].depth
      BY <1>7
    <3>6. PICK y \in Nat : y = sub[o].depth /\ x <= y + 1
      BY <1>7, <3>1, <3>2, <3>5
    <3>7. PICK u \in Nat : u = T[p].depth /\ u = x + d + 1
      BY <3>4, <3>5
    <3>8. PICK v \in Nat : v = T[p - 1].depth /\ v = y + d + 1
      BY <3>4, <3>6, SMTT(30)
    <3>9. u \in 1..(v + 1)
      <4>1. u = x + d + 1 /\ v = y + d + 1 /\ x <= y + 1
        BY <3>6, <3>7, <3>8, Zenon
      <4>2. x + d + 1 >= 1 /\ x + d + 1 <= y + d + 1 + 1
        BY <4>1
      <4>3. u >= 1 /\ u <= v + 1
        BY <4>1, <4>2, Zenon
      <4> QED
        BY <4>3
    <3>10. u \in 1..(T[p - 1].depth + 1)
      BY <3>8, <3>9, Zenon
    <3> QED
      BY <3>7, <3>10, Zenon
  <2>4. CASE p = e + m + 1
    <3>1. e < n /\ e + 1 \in (e + 1)..n /\ e + 1 \in 1..n /\ e + 1 # 1
      BY <1>4, <2>4
    <3>2. p = (e + 1) + m /\ p - 1 = e + m
      BY <1>4, <2>4
    <3>3. T[p].depth = tree[e + 1].depth
      BY <1>8, <3>1, <3>2
    <3>4. T[p - 1].depth = sub[m].depth + d + 1 /\ sub[m].depth \in Nat
      BY <1>3, <1>7, <1>8, <3>2
    <3>5. tree[e + 1].depth <= d /\ tree[e + 1].depth \in Nat /\ tree[e + 1].depth >= 1
      BY <1>2, <1>5, <1>7, <3>1 DEF IsEnd
    <3> QED
      BY <3>3, <3>4, <3>5, SMTT(30)
  <2>5. CASE p > e + m + 1
    <3>1. PICK r \in (e + 1)..n : r = p - m /\ r # e + 1
      BY <1>4, <2>5
    <3>2. PICK o \in (e + 1)..n : o = r - 1
      BY <1>4, <3>1
    <3>3. p = r + m /\ p - 1 = o + m /\ r \in 1..n /\ o \in 1..n /\ r # 1
      BY <1>4, <3>1, <3>2
    <3>4. T[p].depth = tree[r].depth /\ T[p - 1].depth = tree[o].depth
      BY <1>8, <3>3
    <3>5. /\ tree[r].depth \in Nat /\ tree[o].depth \in Nat
          /\ tree[r].depth >= 1 /\ tree[r].depth <= tree[o].depth + 1
      BY <1>7, <3>2, <3>3
    <3> QED
      BY <3>4, <3>5
  <2> QED
    BY <1>4, <2>1, <2>2, <2>3, <2>4, <2>5
<1>11. \A p \in 2..Len(T) : T[p].depth \in 1..(T[p - 1].depth + 1)
  BY <1>4, <1>10
<1> QED
  BY <1>1, <1>6, <1>11 DEF Shaped

\* Every node is below the one it was below before, and the root of the inner tree
\* is below the node it was hung to.
LEMMA GraftLinked ==
  ASSUME NEW tree, Shaped(tree), Linked(tree), NEW sub, Shaped(sub), Linked(sub),
         NEW i \in 1..Len(tree), NEW e, IsEnd(tree, i, e),
         tree[i].ident = sub[1].parent, NEW T, IsGraft(T, tree, sub, i, e)
  PROVE  Linked(T)
<1>1. /\ Len(tree) \in Nat /\ Len(tree) >= 1 /\ Len(sub) \in Nat /\ Len(sub) >= 1
      /\ Len(T) = Len(tree) + Len(sub)
  BY TreeFacts DEF IsGraft
<1>2. PICK n \in Nat : n = Len(tree) /\ n >= 1
  BY <1>1
<1>3. PICK m \in Nat : m = Len(sub) /\ m >= 1
  BY <1>1
<1>4. e \in i..n /\ e \in 1..n /\ Len(T) = n + m /\ i \in 1..n
  BY <1>1, <1>2, <1>3 DEF IsEnd
<1>5. PICK d \in Nat : d = tree[i].depth
  BY TreeFacts
<1>6. /\ \A p \in 1..n : tree[p].depth \in Nat
      /\ \A p \in 1..m : sub[p].depth \in Nat
      /\ sub[1].depth = 0
  BY <1>2, <1>3, TreeFacts DEF Shaped
<1>7. /\ \A p \in 1..e : T[p] = tree[p]
      /\ \A q \in 1..m : /\ T[e + q].depth = sub[q].depth + d + 1
                         /\ T[e + q].ident = sub[q].ident /\ T[e + q].parent = sub[q].parent
      /\ \A p \in (e + 1)..n : T[p + m] = tree[p]
  BY <1>2, <1>3, <1>5 DEF IsGraft
<1>8. \A p \in 1..(n + m) :
        \/ p \in 1..e
        \/ \E q \in 1..m : p = e + q
        \/ \E r \in (e + 1)..n : p = r + m
  <2>1. \A p \in 1..Len(T) :
          \/ p \in 1..e
          \/ \E q \in 1..Len(sub) : p = e + q
          \/ \E r \in (e + 1)..Len(tree) : p = r + Len(sub)
    <3>1. e \in i..Len(tree)
      BY DEF IsEnd
    <3> TAKE p \in 1..Len(T)
    <3> QED
      BY <3>1, GraftPlaces
  <2> QED
    BY <1>2, <1>3, <1>4, <2>1
<1>9. /\ \A p \in 2..n : \E j \in 1..(p - 1) : IsUp(tree, p, j) /\ tree[j].ident = tree[p].parent
      /\ \A p \in 2..m : \E j \in 1..(p - 1) : IsUp(sub, p, j) /\ sub[j].ident = sub[p].parent
  BY <1>2, <1>3 DEF Linked
<1>10. ASSUME NEW p \in 2..(n + m)
       PROVE  \E j \in 1..(p - 1) : IsUp(T, p, j) /\ T[j].ident = T[p].parent
  <2>1. CASE p \in 1..e
    <3>1. p \in 2..n
      BY <1>4, <2>1
    <3>2. PICK j \in 1..(p - 1) : IsUp(tree, p, j) /\ tree[j].ident = tree[p].parent
      BY <1>9, <3>1
    <3>3. \A k \in j..p : k \in 1..e
      BY <1>4, <2>1
    <3>4. T[p] = tree[p] /\ T[j] = tree[j]
      BY <1>7, <3>3
    <3>5. \A k \in (j + 1)..(p - 1) : T[k] = tree[k]
      BY <1>7, <3>3
    <3>6. IsUp(T, p, j)
      BY <3>2, <3>4, <3>5 DEF IsUp
    <3> QED
      BY <3>2, <3>4, <3>6
  <2>2. CASE p = e + 1
    <3>1. T[p].depth = d + 1 /\ T[p].parent = sub[1].parent
      BY <1>3, <1>6, <1>7, <2>2
    <3>2. T[i] = tree[i] /\ i \in 1..(p - 1)
      BY <1>4, <1>7, <2>2
    <3>3. ASSUME NEW k \in (i + 1)..(p - 1) PROVE T[k].depth >= T[p].depth
      <4>1. k \in (i + 1)..e /\ k \in 1..e /\ k \in 1..n
        BY <1>4, <2>2
      <4>2. tree[k].depth > d
        BY <1>5, <4>1 DEF IsEnd
      <4>3. T[k].depth = tree[k].depth /\ tree[k].depth \in Nat
        BY <1>6, <1>7, <4>1
      <4> QED
        BY <3>1, <4>2, <4>3
    <3>4. T[i].depth < T[p].depth
      BY <1>5, <3>1, <3>2
    <3>5. IsUp(T, p, i)
      BY <3>2, <3>3, <3>4 DEF IsUp
    <3> QED
      BY <3>1, <3>2, <3>5
  <2>3. CASE \E q \in 1..m : p = e + q /\ q # 1
    <3>1. PICK q \in 2..m : p = e + q
      BY <2>3
    <3>2. PICK j \in 1..(q - 1) : IsUp(sub, q, j) /\ sub[j].ident = sub[q].parent
      BY <1>9, <3>1
    <3>3. PICK y \in 1..(p - 1) : y = e + j
      BY <1>4, <3>1
    <3>4. j \in 1..m /\ q \in 1..m
      BY <3>1
    <3>5. /\ T[p].depth = sub[q].depth + d + 1 /\ T[p].parent = sub[q].parent
          /\ T[y].depth = sub[j].depth + d + 1 /\ T[y].ident = sub[j].ident
      BY <1>7, <3>1, <3>3, <3>4
    <3>6. sub[j].depth \in Nat /\ sub[q].depth \in Nat /\ sub[j].depth < sub[q].depth
      BY <1>6, <3>2, <3>4 DEF IsUp
    <3>7. ASSUME NEW k \in (y + 1)..(p - 1) PROVE T[k].depth >= T[p].depth
      <4>1. PICK x \in (j + 1)..(q - 1) : k = e + x
        <5>1. k - e \in (j + 1)..(q - 1) /\ k = e + (k - e)
          BY <1>4, <3>1, <3>3
        <5> QED
          BY <5>1
      <4>2. x \in 1..m
        BY <3>4
      <4>3. PICK a \in Nat : a = sub[x].depth /\ T[k].depth = a + d + 1
        BY <1>6, <1>7, <4>1, <4>2
      <4>4. PICK b \in Nat : b = sub[q].depth /\ T[p].depth = b + d + 1
        BY <3>5, <3>6
      <4>5. a >= b
        BY <3>2, <4>3, <4>4 DEF IsUp
      <4>6. a + d + 1 >= b + d + 1
        BY <4>5
      <4> QED
        BY <4>3, <4>4, <4>6
    <3>8. T[y].depth < T[p].depth
      BY <3>5, <3>6, SMTT(30)
    <3>9. IsUp(T, p, y)
      BY <3>7, <3>8 DEF IsUp
    <3> QED
      BY <3>2, <3>5, <3>9
  <2>4. CASE \E r \in (e + 1)..n : p = r + m
    <3>1. PICK r \in (e + 1)..n : p = r + m
      BY <2>4
    <3>2. r \in 2..n /\ r \in 1..n
      BY <1>4
    <3>3. PICK j \in 1..(r - 1) : IsUp(tree, r, j) /\ tree[j].ident = tree[r].parent
      BY <1>9, <3>2
    <3>4. T[p] = tree[r] /\ tree[r].depth \in Nat
      BY <1>6, <1>7, <3>1, <3>2
    <3>5. /\ tree[j].depth < tree[r].depth
          /\ \A k \in (j + 1)..(r - 1) : tree[k].depth >= tree[r].depth
      BY <3>3 DEF IsUp
    <3>6. \A x \in (e + 1)..(r - 1) : x > j => T[x + m].depth >= T[p].depth
      <4> SUFFICES ASSUME NEW x \in (e + 1)..(r - 1), x > j
                   PROVE  T[x + m].depth >= T[p].depth
        OBVIOUS
      <4>1. x \in (j + 1)..(r - 1) /\ x \in (e + 1)..n
        BY <1>4, <3>2
      <4> QED
        BY <1>7, <3>4, <3>5, <4>1
    <3>7. CASE j <= e
      <4>1. j \in 1..e /\ j \in 1..(p - 1) /\ T[j] = tree[j]
        BY <1>4, <1>7, <3>1, <3>7
      <4>2. tree[r].depth <= d
        <5>1. e < n /\ e + 1 \in 1..n /\ tree[e + 1].depth <= d /\ tree[e + 1].depth \in Nat
          BY <1>2, <1>4, <1>5, <1>6 DEF IsEnd
        <5>2. CASE r = e + 1
          BY <5>1, <5>2
        <5>3. CASE r # e + 1
          <6>1. e + 1 \in (j + 1)..(r - 1)
            BY <1>4, <3>7, <5>3
          <6>2. tree[e + 1].depth >= tree[r].depth
            BY <3>5, <6>1
          <6> QED
            BY <3>4, <5>1, <6>2, SMTT(30)
        <5> QED
          BY <5>2, <5>3
      <4>3. ASSUME NEW k \in (j + 1)..(p - 1) PROVE T[k].depth >= T[p].depth
        <5>0. k \in 1..(n + m)
          BY <1>4, <3>1, <4>1, SMTT(30)
        <5>1. CASE k \in 1..e
          <6>1. k \in (j + 1)..(r - 1) /\ T[k] = tree[k]
            BY <1>4, <1>7, <3>1, <5>1
          <6> QED
            BY <3>4, <3>5, <6>1
        <5>2. CASE \E q \in 1..m : k = e + q
          <6>1. PICK q \in 1..m : k = e + q
            BY <5>2
          <6>2. PICK a \in Nat : a = sub[q].depth /\ T[k].depth = a + d + 1
            BY <1>6, <1>7, <6>1
          <6>3. PICK b \in Nat : b = T[p].depth /\ b <= d
            BY <3>4, <4>2
          <6>4. a + d + 1 >= b
            BY <6>3
          <6> QED
            BY <6>2, <6>3, <6>4
        <5>3. CASE \E x \in (e + 1)..n : k = x + m
          <6>1. PICK x \in (e + 1)..n : k = x + m
            BY <5>3
          <6>2. x \in (e + 1)..(r - 1) /\ x > j
            BY <1>4, <3>1, <3>7, <6>1
          <6> QED
            BY <3>6, <6>1, <6>2
        <5> QED
          BY <1>8, <5>0, <5>1, <5>2, <5>3
      <4>4. IsUp(T, p, j)
        BY <3>4, <3>5, <4>1, <4>3 DEF IsUp
      <4> QED
        BY <3>3, <3>4, <4>1, <4>4
    <3>8. CASE j > e
      <4>1. j \in (e + 1)..n
        BY <1>4, <3>8
      <4>2. PICK y \in 1..(p - 1) : y = j + m
        BY <1>4, <3>1
      <4>3. T[y] = tree[j]
        BY <1>7, <4>1, <4>2
      <4>4. ASSUME NEW k \in (y + 1)..(p - 1) PROVE T[k].depth >= T[p].depth
        <5>1. PICK x \in (e + 1)..(r - 1) : k = x + m /\ x > j
          <6>1. k - m \in (e + 1)..(r - 1) /\ k = (k - m) + m /\ k - m > j
            BY <1>4, <3>1, <3>8, <4>2
          <6> QED
            BY <6>1
        <5> QED
          BY <3>6, <5>1
      <4>5. IsUp(T, p, y)
        BY <3>4, <3>5, <4>3, <4>4 DEF IsUp
      <4> QED
        BY <3>3, <3>4, <4>3, <4>5
    <3> QED
      BY <1>4, <3>7, <3>8
  <2>5. p \in 1..(n + m)
    OBVIOUS
  <2> QED
    BY <1>4, <1>8, <2>1, <2>2, <2>3, <2>4, <2>5
<1> QED
  BY <1>4, <1>10 DEF Linked

\* T is a good tree with the nodes of two others.
Joins(T, tree, sub) ==
  /\ GoodTree(T) /\ Len(T) = Len(tree) + Len(sub)
  /\ Bare(T) = Bare(tree) \cup Bare(sub) /\ Ids(T) = Ids(tree) \cup Ids(sub)

LEMMA GraftGood ==
  ASSUME NEW tree, GoodTree(tree), NEW sub, GoodTree(sub), NEW i \in 1..Len(tree),
         NEW e, IsEnd(tree, i, e), tree[i].ident = sub[1].parent,
         Ids(tree) \cap Ids(sub) = {}
  PROVE  /\ Joins(Grafted(tree, sub, i, e), tree, sub)
         /\ Grafted(tree, sub, i, e)[1] = tree[1]
<1>1. PICK T : T = Grafted(tree, sub, i, e)
  OBVIOUS
<1>2. /\ Shaped(tree) /\ Linked(tree) /\ Distinct(tree)
      /\ Shaped(sub) /\ Linked(sub) /\ Distinct(sub)
  BY DEF GoodTree
<1>3. e \in i..Len(tree)
  BY DEF IsEnd
<1>4. IsGraft(T, tree, sub, i, e)
  BY <1>1, <1>2, <1>3, GraftAt, Zenon
<1>5. Shaped(T) /\ T[1] = tree[1]
  BY <1>2, <1>4, GraftShaped
<1>6. Linked(T)
  BY <1>2, <1>4, GraftLinked, Zenon
<1>7. /\ Bare(T) = Bare(tree) \cup Bare(sub) /\ Ids(T) = Ids(tree) \cup Ids(sub)
      /\ Distinct(T)
  BY <1>2, <1>3, <1>4, GraftParts
<1>8. Len(T) = Len(tree) + Len(sub)
  BY <1>4 DEF IsGraft
<1> QED
  BY <1>1, <1>5, <1>6, <1>7, <1>8, Zenon DEF GoodTree, Joins

-----------------------------------------------------------------------------
(***************************************************************************)
(* The operations on trees are grafts.                                     *)
(***************************************************************************)
LEMMA InsertGood ==
  ASSUME NEW tree, GoodTree(tree), NEW sub, GoodTree(sub), Has(tree, sub[1].parent),
         Ids(tree) \cap Ids(sub) = {}
  PROVE  /\ Joins(Insert(tree, sub, sub[1].parent), tree, sub)
         /\ Insert(tree, sub, sub[1].parent)[1] = tree[1]
<1>1. PICK ident : ident = sub[1].parent
  OBVIOUS
<1>2. Shaped(tree)
  BY DEF GoodTree
<1>3. PICK i \in 1..Len(tree) : i = Find(tree, ident) /\ tree[i].ident = ident
  BY <1>1, <1>2, FindIs
<1>4. PICK e : e = LastBelow(tree, i)
  OBVIOUS
<1>5. IsEnd(tree, i, e)
  BY <1>2, <1>4, LastBelowIs
<1>6. Joins(Grafted(tree, sub, i, e), tree, sub) /\ Grafted(tree, sub, i, e)[1] = tree[1]
  <2>1. tree[i].ident = sub[1].parent
    BY <1>1, <1>3
  <2> QED
    BY <1>5, <2>1, GraftGood
<1>7. Insert(tree, sub, ident) = Grafted(tree, sub, i, e)
  BY <1>3, <1>4 DEF Insert, Grafted, Splice
<1> QED
  BY <1>1, <1>6, <1>7

\* Behind the end of a tree.
LEMMA HangGood ==
  ASSUME NEW tree, GoodTree(tree), NEW sub, GoodTree(sub), NEW i \in 1..Len(tree),
         IsEnd(tree, i, Len(tree)), tree[i].ident = sub[1].parent,
         Ids(tree) \cap Ids(sub) = {}, NEW d, d = tree[i].depth + 1
  PROVE  /\ Joins(tree \o Deepened(sub, d), tree, sub)
         /\ (tree \o Deepened(sub, d))[1] = tree[1]
<1>1. Shaped(tree) /\ Shaped(sub)
  BY DEF GoodTree
<1>2. PICK e \in Nat : e = Len(tree)
  BY <1>1, TreeFacts
<1>3. Joins(Grafted(tree, sub, i, e), tree, sub) /\ Grafted(tree, sub, i, e)[1] = tree[1]
  <2>1. IsEnd(tree, i, e)
    BY <1>2
  <2> QED
    BY <2>1, GraftGood
<1>4. PICK D : D = Deepened(sub, d)
  OBVIOUS
<1>5. tree \in Seq(Nodes) /\ D \in Seq(Nodes) /\ d \in Nat
  <2>1. d \in Nat
    BY <1>1, TreeFacts
  <2> QED
    BY <1>1, <1>4, <2>1, DeepenedIs DEF Shaped
<1>6. SubSeq(tree, 1, e) = tree /\ SubSeq(tree, e + 1, e) = <<>>
  BY <1>2, <1>5, SubSeqFull, SubSeqEmpty
<1>7. tree \o D \in Seq(Nodes)
  BY <1>5, ConcatProperties
<1>8. (tree \o D) \o <<>> = tree \o D
  BY <1>7, ConcatEmptySeq
<1>9. Grafted(tree, sub, i, e) = tree \o D
  BY <1>2, <1>4, <1>6, <1>8 DEF Grafted, Splice
<1> QED
  BY <1>3, <1>4, <1>9

\* A node alone is a tree.
LEMMA NodeGood ==
  ASSUME NEW node \in Nodes, node.depth = 0
  PROVE  /\ GoodTree(<<node>>) /\ Len(<<node>>) = 1 /\ <<node>>[1] = node
         /\ Bare(<<node>>) = {node} /\ Ids(<<node>>) = {node.id}
         /\ IsEnd(<<node>>, 1, 1)
<1>1. PICK T : T = <<node>>
  OBVIOUS
<1>2. T \in Seq(Nodes) /\ Len(T) = 1 /\ T[1] = node /\ T # <<>>
  BY <1>1
<1>3. 1..1 = {1} /\ 2..1 = {}
  OBVIOUS
<1>4. Shaped(T)
  BY <1>2, <1>3 DEF Shaped
<1>5. Linked(T) /\ Distinct(T)
  BY <1>2, <1>3 DEF Linked, Distinct
<1>6. [node EXCEPT !.depth = 0] = node
  BY DEF Nodes
<1>7. Bare(T) = {node} /\ Ids(T) = {node.id}
  <2>1. Bare(T) = {[T[i] EXCEPT !.depth = 0] : i \in {1}} /\ Ids(T) = {T[i].id : i \in {1}}
    BY <1>2, <1>3 DEF Bare, Ids
  <2> QED
    BY <1>2, <1>6, <2>1
<1>8. IsEnd(T, 1, 1)
  BY <1>2 DEF IsEnd
<1> QED
  BY <1>1, <1>2, <1>4, <1>5, <1>7, <1>8 DEF GoodTree

LEMMA SetRootGood ==
  ASSUME NEW tree, GoodTree(tree), NEW node \in Nodes, node.depth = 0,
         tree[1].parent = node.ident, node.id \notin Ids(tree)
  PROVE  /\ GoodTree(SetRoot(tree, node)) /\ SetRoot(tree, node)[1] = node
         /\ Len(SetRoot(tree, node)) = Len(tree) + 1
         /\ Bare(SetRoot(tree, node)) = Bare(tree) \cup {node}
         /\ Ids(SetRoot(tree, node)) = Ids(tree) \cup {node.id}
<1>1. PICK R : R = <<node>>
  OBVIOUS
<1>2. /\ GoodTree(R) /\ Len(R) = 1 /\ R[1] = node
      /\ Bare(R) = {node} /\ Ids(R) = {node.id} /\ IsEnd(R, 1, 1)
  BY <1>1, NodeGood
<1>3. 1 \in 1..Len(R) /\ IsEnd(R, 1, Len(R)) /\ 1 = R[1].depth + 1
  BY <1>2
<1>4. Ids(R) \cap Ids(tree) = {} /\ R[1].ident = tree[1].parent
  BY <1>2
<1>5. Joins(R \o Deepened(tree, 1), R, tree) /\ (R \o Deepened(tree, 1))[1] = R[1]
  BY <1>2, <1>3, <1>4, HangGood
<1>6. SetRoot(tree, node) = R \o Deepened(tree, 1)
  BY <1>1 DEF SetRoot
<1>7. Len(tree) \in Nat
  BY TreeFacts DEF GoodTree
<1> QED
  BY <1>2, <1>5, <1>6, <1>7 DEF Joins

\* Below the root, behind everything.
LEMMA HangBelowRoot ==
  ASSUME NEW tree, GoodTree(tree), NEW sub, GoodTree(sub),
         tree[1].ident = sub[1].parent, Ids(tree) \cap Ids(sub) = {}
  PROVE  /\ Joins(tree \o Deepened(sub, 1), tree, sub)
         /\ (tree \o Deepened(sub, 1))[1] = tree[1]
<1>1. Shaped(tree) /\ Len(tree) \in Nat /\ Len(tree) >= 1
  BY TreeFacts DEF GoodTree
<1>2. tree[1].depth = 0 /\ 1 = tree[1].depth + 1 /\ 1 \in 1..Len(tree)
  BY <1>1 DEF Shaped
<1>3. IsEnd(tree, 1, Len(tree))
  <2>1. ASSUME NEW k \in (1 + 1)..Len(tree) PROVE tree[k].depth > tree[1].depth
    <3>1. k \in 1..Len(tree) /\ k # 1
      BY <1>1
    <3>2. tree[k].depth >= 1 /\ tree[k].depth \in Nat
      BY <1>1, <3>1, TreeFacts
    <3> QED
      BY <1>2, <3>2
  <2>2. Len(tree) \in 1..Len(tree) /\ ~(Len(tree) < Len(tree))
    BY <1>1
  <2> QED
    BY <2>1, <2>2 DEF IsEnd
<1> QED
  BY <1>2, <1>3, HangGood

LEMMA NotDeepened ==
  ASSUME NEW tree, Shaped(tree)
  PROVE  Deepened(tree, 0) = tree
<1>1. tree \in Seq(Nodes) /\ DOMAIN tree = 1..Len(tree) /\ \A i \in 1..Len(tree) : tree[i] \in Nodes
  BY TreeFacts DEF Shaped
<1>2. \A n \in Nodes : [n EXCEPT !.depth = n.depth + 0] = n
  BY DEF Nodes
<1>3. Deepened(tree, 0) = [i \in DOMAIN tree |-> tree[i]]
  BY <1>1, <1>2 DEF Deepened
<1> QED
  BY <1>1, <1>3

-----------------------------------------------------------------------------
(***************************************************************************)
(* The symbols above a name.                                               *)
(***************************************************************************)
IsPath(p, name) ==
  /\ p \in Seq(DOMAIN symTable)
  /\ name \in DOMAIN symTable <=> p # <<>>
  /\ p # <<>> => p[1] = name /\ symTable[p[Len(p)]] \notin DOMAIN symTable
  /\ \A k \in 1..(Len(p) - 1) : p[k + 1] = symTable[p[k]]

LEMMA PathStep ==
  ASSUME NEW n \in DOMAIN symTable, NEW p, IsPath(p, symTable[n])
  PROVE  IsPath(<<n>> \o p, n)
<1>1. PICK D : D = DOMAIN symTable
  OBVIOUS
<1>2. p \in Seq(D) /\ <<n>> \in Seq(D) /\ Len(<<n>>) = 1
  BY <1>1 DEF IsPath
<1>3. PICK l \in Nat : l = Len(p)
  BY <1>2
<1>4. PICK q : q = <<n>> \o p
  OBVIOUS
<1>5. /\ q \in Seq(D) /\ Len(q) = l + 1 /\ q[1] = n
      /\ \A k \in 1..l : q[k + 1] = p[k]
  BY <1>2, <1>3, <1>4
<1>6. q # <<>>
  BY <1>3, <1>5
<1>7. ASSUME NEW k \in 1..(Len(q) - 1) PROVE q[k + 1] = symTable[q[k]]
  <2>1. k \in 1..l /\ q[k + 1] = p[k]
    BY <1>5
  <2>2. CASE k = 1
    <3>1. p # <<>> /\ p[1] = symTable[n]
      BY <1>2, <1>3, <2>1 DEF IsPath
    <3> QED
      BY <1>5, <2>1, <2>2, <3>1
  <2>3. CASE k # 1
    <3>1. PICK j \in 1..(l - 1) : k = j + 1
      <4>1. k - 1 \in 1..(l - 1) /\ k = (k - 1) + 1
        BY <2>1, <2>3
      <4> QED
        BY <4>1
    <3>2. p[j + 1] = symTable[p[j]]
      BY <1>3 DEF IsPath
    <3>3. q[j + 1] = p[j]
      BY <1>5
    <3> QED
      BY <2>1, <3>1, <3>2, <3>3
  <2> QED
    BY <2>2, <2>3
<1>8. symTable[q[Len(q)]] \notin DOMAIN symTable
  <2>1. CASE l = 0
    <3>0. Len(q) = 1 /\ Len(p) = 0
      BY <1>3, <1>5, <2>1
    <3>1. p = <<>> /\ q[Len(q)] = n
      BY <1>2, <1>5, <3>0, EmptySeq
    <3> QED
      BY <3>1 DEF IsPath
  <2>2. CASE l # 0
    <3>1. l \in 1..l /\ p # <<>>
      BY <1>2, <1>3, <2>2
    <3>2. q[l + 1] = p[l]
      BY <1>5, <3>1
    <3>3. symTable[p[l]] \notin DOMAIN symTable
      BY <1>3, <3>1 DEF IsPath
    <3> QED
      BY <1>5, <3>2, <3>3
  <2> QED
    BY <2>1, <2>2
<1> QED
  BY <1>1, <1>4, <1>5, <1>6, <1>7, <1>8 DEF IsPath

\* No symbol is its own ancestor: they can be ranked.
LEMMA Ranked ==
  ASSUME symTable \in SymbolTables
  PROVE  /\ Cardinality(Name) \in Nat
         /\ DOMAIN symTable \subseteq Name
         /\ \A n \in DOMAIN symTable : symTable[n] \in Name \cup {NULL}
         /\ \E rank \in [Name \cup {NULL} -> 0..Cardinality(Name)] :
              \A n \in DOMAIN symTable : rank[symTable[n]] < rank[n]
<1>1. Cardinality(Name) \in Nat
  BY ForestAssumption, FS_CardinalityType
<1> QED
  BY <1>1, ForestAssumption

\* A name above another has a smaller rank: the recursion has a solution.
LEMMA PathSolution ==
  ASSUME symTable \in SymbolTables
  PROVE  \E up : up = [n \in Name \cup {NULL} |->
           IF n \in DOMAIN symTable THEN <<n>> \o up[symTable[n]] ELSE <<>>]
<1>1. PICK N : N = Name \cup {NULL}
  OBVIOUS
<1>2. PICK D : D = DOMAIN symTable
  OBVIOUS
<1>3. PICK c \in Nat : c = Cardinality(Name)
  BY Ranked
<1>4. PICK rank \in [N -> 0..c] : \A n \in D : rank[symTable[n]] < rank[n]
  BY <1>1, <1>2, <1>3, Ranked
<1>5. \A n \in D : n \in N /\ symTable[n] \in N
  BY <1>1, <1>2, Ranked
<1>6. \A n \in N : rank[n] \in Nat /\ rank[n] <= c
  BY <1>4
<1>7. PICK S : S = {k \in Nat : \E f : \A n \in N : rank[n] < k =>
                      f[n] = IF n \in D THEN <<n>> \o f[symTable[n]] ELSE <<>>}
  OBVIOUS
<1>8. 0 \in S
  <2>1. \A n \in N : ~(rank[n] < 0)
    BY <1>6
  <2> QED
    BY <1>7, <2>1
<1>9. ASSUME NEW k \in Nat, k \in S PROVE k + 1 \in S
  <2>1. PICK f : \A n \in N : rank[n] < k =>
                   f[n] = IF n \in D THEN <<n>> \o f[symTable[n]] ELSE <<>>
    BY <1>7, <1>9
  <2>2. PICK g : g = [n \in N |-> IF n \in D THEN <<n>> \o f[symTable[n]] ELSE <<>>]
    OBVIOUS
  <2>3. \A n \in N : rank[n] < k => g[n] = f[n]
    BY <2>1, <2>2, Zenon
  <2>4. \A n \in N : n \in D /\ rank[n] < k + 1 => rank[symTable[n]] < k
    <3> SUFFICES ASSUME NEW n \in N, n \in D, rank[n] < k + 1 PROVE rank[symTable[n]] < k
      OBVIOUS
    <3>1. PICK s \in N : s = symTable[n]
      BY <1>5
    <3>2. rank[s] < rank[n] /\ rank[s] \in Nat /\ rank[n] \in Nat
      BY <1>4, <1>6, <3>1
    <3>3. rank[s] < k
      BY <3>2
    <3> QED
      BY <3>1, <3>3
  <2>5. ASSUME NEW n \in N, rank[n] < k + 1
        PROVE  g[n] = IF n \in D THEN <<n>> \o g[symTable[n]] ELSE <<>>
    <3>1. g[n] = IF n \in D THEN <<n>> \o f[symTable[n]] ELSE <<>>
      BY <2>2, Zenon
    <3>2. n \in D => g[symTable[n]] = f[symTable[n]]
      BY <1>5, <2>3, <2>4, <2>5, Zenon
    <3> QED
      BY <3>1, <3>2, Zenon
  <2>6. k + 1 \in Nat
    OBVIOUS
  <2>7. \E h : \A n \in N : rank[n] < k + 1 =>
                      h[n] = IF n \in D THEN <<n>> \o h[symTable[n]] ELSE <<>>
    BY <2>5, Zenon
  <2> QED
    BY <1>7, <2>6, <2>7
<1>10. c + 1 \in S
  <2>1. Nat \subseteq S
    BY <1>8, <1>9, Grows
  <2> QED
    BY <2>1
<1>11. PICK f : \A n \in N : rank[n] < c + 1 =>
                      f[n] = IF n \in D THEN <<n>> \o f[symTable[n]] ELSE <<>>
  BY <1>7, <1>10
<1>12. \A n \in N : f[n] = IF n \in D THEN <<n>> \o f[symTable[n]] ELSE <<>>
  <2>1. \A n \in N : rank[n] < c + 1
    BY <1>6
  <2> QED
    BY <1>11, <2>1, Zenon
<1>13. PICK g : g = [n \in N |-> f[n]]
  OBVIOUS
<1>14. g = [n \in N |-> IF n \in D THEN <<n>> \o g[symTable[n]] ELSE <<>>]
  <2>1. \A n \in N : f[n] = IF n \in D THEN <<n>> \o g[symTable[n]] ELSE <<>>
    BY <1>5, <1>12, <1>13, Zenon
  <2> QED
    BY <1>13, <2>1, Zenon
<1> QED
  BY <1>1, <1>2, <1>14, Zenon

LEMMA PathIs ==
  ASSUME symTable \in SymbolTables, NEW name \in Name \cup {NULL}
  PROVE  IsPath(Path(name), name)
<1>1. PICK N : N = Name \cup {NULL}
  OBVIOUS
<1>2. PICK D : D = DOMAIN symTable
  OBVIOUS
<1>3. PICK up : /\ up = [n \in N |-> IF n \in D THEN <<n>> \o up[symTable[n]] ELSE <<>>]
                /\ Path(name) = up[name]
  <2>1. PICK u : u = [n \in N |-> IF n \in D THEN <<n>> \o u[symTable[n]] ELSE <<>>]
    BY <1>1, <1>2, PathSolution, Zenon
  <2>2. PICK v : v = CHOOSE w : w = [n \in N |-> IF n \in D THEN <<n>> \o w[symTable[n]] ELSE <<>>]
    OBVIOUS
  <2>3. v = [n \in N |-> IF n \in D THEN <<n>> \o v[symTable[n]] ELSE <<>>]
    BY <2>1, <2>2, Zenon
  <2>4. Path(name) = v[name]
    BY <1>1, <1>2, <2>2, Zenon DEF Path
  <2> QED
    BY <2>3, <2>4, Zenon
<1>4. PICK c \in Nat : c = Cardinality(Name)
  BY Ranked
<1>5. PICK rank \in [N -> 0..c] : \A n \in D : rank[symTable[n]] < rank[n]
  BY <1>1, <1>2, <1>4, Ranked
<1>6. \A n \in D : n \in N /\ symTable[n] \in N
  BY <1>1, <1>2, Ranked
<1>7. \A n \in N : rank[n] \in Nat /\ rank[n] <= c
  BY <1>5
<1>8. PICK S : S = {k \in Nat : \A n \in N : rank[n] < k => IsPath(up[n], n)}
  OBVIOUS
<1>9. 0 \in S
  <2>1. \A n \in N : ~(rank[n] < 0)
    BY <1>7
  <2> QED
    BY <1>8, <2>1
<1>10. ASSUME NEW k \in Nat, k \in S PROVE k + 1 \in S
  <2>1. ASSUME NEW n \in N, rank[n] < k + 1 PROVE IsPath(up[n], n)
    <3>1. CASE n \in D
      <4>1. PICK s \in N : s = symTable[n]
        BY <1>6, <3>1
      <4>2. rank[s] < rank[n] /\ rank[s] \in Nat /\ rank[n] \in Nat
        BY <1>5, <1>7, <3>1, <4>1
      <4>3. rank[s] < k
        BY <2>1, <4>2
      <4>4. IsPath(up[s], symTable[n])
        BY <1>8, <1>10, <4>1, <4>3
      <4>5. up[n] = <<n>> \o up[s]
        BY <1>3, <3>1, <4>1, Zenon
      <4>6. IsPath(<<n>> \o up[s], n)
        BY <1>2, <3>1, <4>4, PathStep
      <4> QED
        BY <4>5, <4>6
    <3>2. CASE n \notin D
      <4>1. up[n] = <<>>
        BY <1>3, <3>2, Zenon
      <4> QED
        BY <1>2, <3>2, <4>1 DEF IsPath
    <3> QED
      BY <3>1, <3>2
  <2> QED
    BY <1>8, <2>1
<1>11. c + 1 \in S
  <2>1. Nat \subseteq S
    BY <1>9, <1>10, Grows
  <2> QED
    BY <2>1
<1>12. name \in N /\ rank[name] < c + 1
  BY <1>1, <1>7
<1> QED
  BY <1>3, <1>8, <1>11, <1>12

-----------------------------------------------------------------------------
(***************************************************************************)
(* Nodes built for symbols.                                                *)
(***************************************************************************)
IsClimb(names) ==
  /\ names \in Seq(DOMAIN symTable)
  /\ \A k \in 1..(Len(names) - 1) : names[k + 1] = symTable[names[k]]

FromSymbol(node) ==
  /\ node.ident \in DOMAIN symTable /\ node.parent = symTable[node.ident]
  /\ node.oid = <<node.ident>>

\* The nodes for the symbols climbed are numbered as these are met.
Climbed(node, names, id) ==
  \E k \in 1..Len(names) : node.ident = names[k] /\ node.id = id + k

IsLine(L, names, id) ==
  /\ GoodTree(L) /\ Len(L) = Len(names)
  /\ L[1].parent = symTable[names[Len(names)]]
  /\ L[Len(names)].ident = names[1] /\ L[Len(names)].depth = Len(names) - 1
  /\ Ids(L) = (id + 1)..(id + Len(names))
  /\ \A x \in Bare(L) : FromSymbol(x) /\ Climbed(x, names, id)

LEMMA NodeIs ==
  ASSUME NEW id \in Nat, NEW ident \in Name, NEW parent \in Name \cup {NULL},
         NEW shared \in BOOLEAN
  PROVE  LET x == Node(id, ident, parent, shared) IN
         /\ x \in Nodes /\ x.id = id /\ x.ident = ident /\ x.parent = parent
         /\ x.depth = 0 /\ x.oid = <<ident>> /\ x.shared = shared
<1>1. PICK x : x = Node(id, ident, parent, shared)
  OBVIOUS
<1>2. x = [id |-> id, ident |-> ident, parent |-> parent, depth |-> 0,
           oid |-> <<ident>>, shared |-> shared]
  BY <1>1, Zenon DEF Node
<1>3. <<ident>> \in Seq(Name \cup {JUNK})
  OBVIOUS
<1>4. /\ x \in Nodes /\ x.id = id /\ x.ident = ident /\ x.parent = parent
      /\ x.depth = 0 /\ x.oid = <<ident>> /\ x.shared = shared
  BY <1>2, <1>3 DEF Nodes
<1> QED
  BY <1>1, <1>4, Zenon

LEMMA LineIs ==
  ASSUME symTable \in SymbolTables, NEW names, IsClimb(names), names # <<>>,
         NEW id \in Nat, NEW shared \in BOOLEAN
  PROVE  IsLine(Line(names, id, shared), names, id)
<1>1. PICK D : D = DOMAIN symTable
  OBVIOUS
<1>2. PICK n \in Nat : n = Len(names) /\ n >= 1 /\ names \in Seq(D)
  BY <1>1, EmptySeq DEF IsClimb
<1>3. PICK L : L = Line(names, id, shared)
  OBVIOUS
<1>4. \A k \in 1..n : names[k] \in D /\ names[k] \in Name /\ symTable[names[k]] \in Name \cup {NULL}
  BY <1>1, <1>2, Ranked
<1>5. L = [i \in 1..n |-> [Node(id + n - i + 1, names[n - i + 1], symTable[names[n - i + 1]], shared)
                             EXCEPT !.depth = i - 1]]
  BY <1>2, <1>3, Zenon DEF Line
<1>6. ASSUME NEW i \in 1..n
      PROVE  /\ L[i] \in Nodes /\ L[i].id = id + n - i + 1 /\ L[i].ident = names[n - i + 1]
             /\ L[i].parent = symTable[names[n - i + 1]] /\ L[i].depth = i - 1
             /\ L[i].oid = <<names[n - i + 1]>>
  <2>1. PICK k \in 1..n : k = n - i + 1
    OBVIOUS
  <2>2. PICK a \in Nat : a = id + n - i + 1
    OBVIOUS
  <2>3. PICK b \in Nat : b = i - 1
    OBVIOUS
  <2>4. names[k] \in Name /\ symTable[names[k]] \in Name \cup {NULL}
    BY <1>4
  <2>5. PICK y : y = Node(a, names[k], symTable[names[k]], shared)
    OBVIOUS
  <2>6. LET x == Node(a, names[k], symTable[names[k]], shared) IN
         /\ x \in Nodes /\ x.id = a /\ x.ident = names[k] /\ x.parent = symTable[names[k]]
         /\ x.depth = 0 /\ x.oid = <<names[k]>> /\ x.shared = shared
    BY <2>4, NodeIs, SMTT(30)
  <2>7. /\ y \in Nodes /\ y.id = a /\ y.ident = names[k] /\ y.parent = symTable[names[k]]
        /\ y.oid = <<names[k]>>
    BY <2>5, <2>6, Zenon
  <2>8. L[i] = [y EXCEPT !.depth = b]
    BY <1>5, <2>1, <2>2, <2>3, <2>5, Zenon
  <2>9. /\ L[i] \in Nodes /\ L[i].id = y.id /\ L[i].ident = y.ident
        /\ L[i].parent = y.parent /\ L[i].depth = b /\ L[i].oid = y.oid
    BY <2>7, <2>8 DEF Nodes
  <2> QED
    BY <2>1, <2>2, <2>3, <2>7, <2>9
<1>7. L \in Seq(Nodes) /\ Len(L) = n
  <2>1. L \in [1..n -> Nodes]
    BY <1>5, <1>6
  <2> QED
    BY <2>1
<1>8. ASSUME NEW i \in 2..n
      PROVE  /\ IsUp(L, i, i - 1) /\ L[i - 1].ident = L[i].parent
             /\ L[i].depth = i - 1 /\ L[i - 1].depth = i - 2
  <2>1. PICK j \in 1..n : j = i - 1
    BY <1>2
  <2>2. PICK k \in 1..(n - 1) : k = n - i + 1
    <3>1. n - i + 1 \in 1..(n - 1)
      BY <1>2
    <3> QED
      BY <3>1
  <2>3. k + 1 = n - j + 1 /\ i \in 1..n /\ j \in 1..(i - 1)
    BY <2>1, <2>2
  <2>4. names[k + 1] = symTable[names[k]]
    BY <1>2 DEF IsClimb
  <2>5. L[j].ident = names[k + 1] /\ L[i].parent = symTable[names[k]]
    BY <1>6, <2>2, <2>3
  <2>6. L[j].depth = j - 1 /\ L[i].depth = i - 1
    BY <1>6, <2>3
  <2>7. (j + 1)..(i - 1) = {} /\ j - 1 < i - 1 /\ j - 1 = i - 2
    BY <2>1
  <2>8. IsUp(L, i, j)
    BY <2>3, <2>6, <2>7 DEF IsUp
  <2> QED
    BY <2>1, <2>4, <2>5, <2>6, <2>7, <2>8
<1>9. Shaped(L)
  <2>1. L # <<>>
    BY <1>2, <1>7
  <2>2. L[1].depth = 0
    <3>1. 1 \in 1..n /\ 1 - 1 = 0
      BY <1>2
    <3> QED
      BY <1>6, <3>1
  <2>3. ASSUME NEW i \in 2..n PROVE L[i].depth \in 1..(L[i - 1].depth + 1)
    <3>1. L[i].depth = i - 1 /\ L[i - 1].depth = i - 2
      BY <1>8
    <3>2. i - 1 \in 1..(i - 2 + 1)
      OBVIOUS
    <3> QED
      BY <3>1, <3>2
  <2> QED
    BY <1>7, <2>1, <2>2, <2>3 DEF Shaped
<1>10. Linked(L)
  <2>1. \A i \in 2..n : i - 1 \in 1..(i - 1)
    OBVIOUS
  <2> QED
    BY <1>7, <1>8, <2>1 DEF Linked
<1>11. Distinct(L)
  <2> SUFFICES ASSUME NEW i \in 1..n, NEW j \in 1..n, L[i].id = L[j].id PROVE i = j
    BY <1>7 DEF Distinct
  <2>1. id + n - i + 1 = id + n - j + 1
    BY <1>6
  <2> QED
    BY <2>1
<1>12. Ids(L) = (id + 1)..(id + n)
  <2>1. \A x \in Ids(L) : x \in (id + 1)..(id + n)
    <3> SUFFICES ASSUME NEW i \in 1..n PROVE L[i].id \in (id + 1)..(id + n)
      BY <1>7 DEF Ids
    <3>1. id + n - i + 1 \in (id + 1)..(id + n)
      OBVIOUS
    <3> QED
      BY <1>6, <3>1
  <2>2. ASSUME NEW x \in (id + 1)..(id + n) PROVE x \in Ids(L)
    <3>1. PICK i \in 1..n : i = id + n - x + 1
      OBVIOUS
    <3>2. L[i].id = id + n - i + 1
      BY <1>6
    <3>3. L[i].id = x
      BY <3>1, <3>2
    <3> QED
      BY <1>7, <3>3 DEF Ids
  <2> QED
    BY <2>1, <2>2
<1>13. ASSUME NEW x \in Bare(L) PROVE FromSymbol(x) /\ Climbed(x, names, id)
  <2>1. PICK i \in 1..n : x = [L[i] EXCEPT !.depth = 0]
    BY <1>7 DEF Bare
  <2>2. PICK k \in 1..n : k = n - i + 1
    OBVIOUS
  <2>3. L[i] \in Nodes /\ L[i].ident = names[k] /\ L[i].parent = symTable[names[k]]
        /\ L[i].oid = <<names[k]>>
    BY <1>6, <2>2
  <2>4. x.ident = L[i].ident /\ x.parent = L[i].parent /\ x.oid = L[i].oid /\ x.id = L[i].id
    BY <2>1, <2>3 DEF Nodes
  <2>5. names[k] \in DOMAIN symTable
    BY <1>1, <1>4
  <2>6. FromSymbol(x)
    BY <2>3, <2>4, <2>5 DEF FromSymbol
  <2>7. L[i].id = id + k
    <3>1. id + n - i + 1 = id + k
      BY <2>2
    <3> QED
      BY <1>6, <3>1
  <2>8. Climbed(x, names, id)
    BY <1>2, <2>3, <2>4, <2>7 DEF Climbed
  <2> QED
    BY <2>6, <2>8
<1>14. L[1].parent = symTable[names[n]] /\ L[n].ident = names[1] /\ L[n].depth = n - 1
  <2>1. 1 \in 1..n /\ n \in 1..n /\ n - 1 + 1 = n /\ n - n + 1 = 1
    BY <1>2
  <2> QED
    BY <1>6, <2>1
<1> QED
  BY <1>2, <1>3, <1>7, <1>9, <1>10, <1>11, <1>12, <1>13, <1>14 DEF IsLine, GoodTree

\* T is tree with k more nodes on top, the symbols climbed.
Raised(T, tree, names, id) ==
  /\ GoodTree(T) /\ Len(T) = Len(tree) + Len(names)
  /\ Ids(T) = Ids(tree) \cup (id + 1)..(id + Len(names))
  /\ Bare(tree) \subseteq Bare(T)
  /\ \A x \in Bare(T) : x \in Bare(tree) \/ (FromSymbol(x) /\ Climbed(x, names, id))
  /\ T[1].parent = IF names = <<>> THEN tree[1].parent ELSE symTable[names[Len(names)]]

LEMMA RaisedIs ==
  ASSUME symTable \in SymbolTables, NEW tree, GoodTree(tree), NEW names, IsClimb(names),
         names # <<>> => names[1] = tree[1].parent,
         NEW id \in Nat, Ids(tree) \cap (id + 1)..(id + Len(names)) = {},
         NEW shared \in BOOLEAN
  PROVE  Raised(Line(names, id, shared) \o Deepened(tree, Len(names)), tree, names, id)
<1>1. names \in Seq(DOMAIN symTable)
  BY DEF IsClimb
<1>2. PICK n \in Nat : n = Len(names)
  BY <1>1
<1>3. Shaped(tree) /\ Len(tree) \in Nat /\ tree \in Seq(Nodes)
  BY TreeFacts DEF GoodTree, Shaped
<1>4. PICK L : L = Line(names, id, shared)
  OBVIOUS
<1>5. CASE names = <<>>
  <2>1. n = 0
    BY <1>2, <1>5
  <2>2. L = <<>>
    <3>1. 1..n = {}
      BY <2>1
    <3> QED
      BY <1>2, <1>4, <3>1 DEF Line
  <2>3. Deepened(tree, n) = tree
    BY <1>3, <2>1, NotDeepened
  <2>4. L \o Deepened(tree, n) = tree
    BY <1>3, <2>2, <2>3, ConcatEmptySeq
  <2>5. (id + 1)..(id + n) = {} /\ Len(tree) = Len(tree) + n
    BY <1>3, <2>1
  <2>6. Raised(tree, tree, names, id)
    BY <1>2, <1>5, <2>5 DEF Raised
  <2> QED
    BY <1>2, <1>4, <2>4, <2>6
<1>6. CASE names # <<>>
  <2>1. IsLine(L, names, id)
    BY <1>4, <1>6, LineIs
  <2>2. GoodTree(L) /\ Len(L) = n /\ n >= 1 /\ n \in 1..n
    BY <1>1, <1>2, <1>6, <2>1, EmptySeq DEF IsLine
  <2>3. L[n].depth = n - 1 /\ L[n].ident = tree[1].parent /\ n = L[n].depth + 1
    BY <1>2, <1>6, <2>1, <2>2 DEF IsLine
  <2>4. IsEnd(L, n, n)
    <3>1. (n + 1)..n = {} /\ ~(n < n) /\ n \in n..n
      OBVIOUS
    <3> QED
      BY <2>2, <3>1 DEF IsEnd
  <2>5. Ids(L) = (id + 1)..(id + n) /\ Ids(L) \cap Ids(tree) = {}
    BY <1>2, <2>1 DEF IsLine
  <2>6. PICK T : T = L \o Deepened(tree, n)
    OBVIOUS
  <2>7. Joins(T, L, tree) /\ T[1] = L[1]
    <3>1. /\ GoodTree(L) /\ GoodTree(tree) /\ Ids(L) \cap Ids(tree) = {}
          /\ n \in 1..Len(L) /\ IsEnd(L, n, Len(L)) /\ L[n].ident = tree[1].parent
          /\ n = L[n].depth + 1
      BY <2>2, <2>3, <2>4, <2>5
    <3>2. /\ Joins(L \o Deepened(tree, n), L, tree)
          /\ (L \o Deepened(tree, n))[1] = L[1]
      BY <3>1, HangGood
    <3> QED
      BY <2>6, <3>2
  <2>8. Len(T) = Len(tree) + n
    BY <1>3, <2>2, <2>7 DEF Joins
  <2>9. /\ T[1].parent = symTable[names[n]]
        /\ \A x \in Bare(L) : FromSymbol(x) /\ Climbed(x, names, id)
    BY <1>2, <2>1, <2>7 DEF IsLine
  <2>10. Raised(T, tree, names, id)
    BY <1>2, <1>6, <2>5, <2>7, <2>8, <2>9 DEF Raised, Joins
  <2> QED
    BY <1>2, <1>4, <2>6, <2>10
<1> QED
  BY <1>5, <1>6

-----------------------------------------------------------------------------
(***************************************************************************)
(* Merging by a common ancestor.                                           *)
(***************************************************************************)
\* T is tree with more nodes on top, built for symbols and numbered from id + 1.
Taller(T, tree, id) ==
  /\ GoodTree(T) /\ Len(T) - Len(tree) \in Nat
  /\ Ids(T) = Ids(tree) \cup (id + 1)..(id + (Len(T) - Len(tree)))
  /\ Bare(tree) \subseteq Bare(T)
  /\ \A x \in Bare(T) : x \in Bare(tree) \/ FromSymbol(x)

LEMMA TallerIs ==
  ASSUME NEW T, NEW tree, GoodTree(tree), NEW names, IsClimb(names), NEW id \in Nat,
         Raised(T, tree, names, id)
  PROVE  Taller(T, tree, id) /\ Len(T) - Len(tree) = Len(names)
<1>1. Len(tree) \in Nat /\ Len(names) \in Nat
  BY TreeFacts DEF GoodTree, IsClimb
<1>2. Len(T) = Len(tree) + Len(names)
  BY DEF Raised
<1>3. Len(T) - Len(tree) = Len(names)
  BY <1>1, <1>2
<1> QED
  BY <1>1, <1>3 DEF Raised, Taller

\* The root of a tree names a parent, and its number is that of no other.
LEMMA RootIs ==
  ASSUME NEW tree, GoodTree(tree)
  PROVE  /\ tree[1] \in Nodes /\ tree[1].parent \in Name \cup {NULL} /\ tree[1].id \in Nat
         /\ tree[1] \in Bare(tree) /\ tree[1].id \in Ids(tree)
<1>1. 1 \in 1..Len(tree) /\ tree[1] \in Nodes /\ tree[1].depth = 0
  BY TreeFacts DEF GoodTree, Shaped
<1>2. [tree[1] EXCEPT !.depth = 0] = tree[1]
  BY <1>1 DEF Nodes
<1>3. tree[1].parent \in Name \cup {NULL} /\ tree[1].id \in Nat
  BY <1>1 DEF Nodes
<1>4. tree[1] \in Bare(tree)
  <2>1. [tree[1] EXCEPT !.depth = 0] \in Bare(tree)
    BY <1>1 DEF Bare
  <2> QED
    BY <1>2, <2>1
<1>5. tree[1].id \in Ids(tree)
  BY <1>1 DEF Ids
<1> QED
  BY <1>1, <1>3, <1>4, <1>5

\* T is tree with nodes on top for the symbols up to, and without, the n-th of path.
ClimbedTo(T, tree, path, n, id) ==
  \A x \in Bare(T) : x \in Bare(tree) \/
    \E k \in 1..(n - 1) : x.ident = path[k] /\ x.id = id + k

LEMMA ExpandedIs ==
  ASSUME symTable \in SymbolTables, NEW tree, GoodTree(tree),
         NEW ancestor \in ToSet(Path(tree[1].parent)),
         NEW id \in Nat, \A x \in Ids(tree) : x \in Nat /\ x <= id
  PROVE  /\ Taller(Expanded(tree, ancestor, id), tree, id)
         /\ Expanded(tree, ancestor, id)[1].parent = ancestor
         /\ \E n \in 1..Len(Path(tree[1].parent)) :
              /\ Path(tree[1].parent)[n] = ancestor
              /\ ClimbedTo(Expanded(tree, ancestor, id), tree, Path(tree[1].parent), n, id)
<1>1. PICK path : path = Path(tree[1].parent)
  OBVIOUS
<1>2. IsPath(path, tree[1].parent)
  BY <1>1, RootIs, PathIs
<1>3. PICK D : D = DOMAIN symTable
  OBVIOUS
<1>4. path \in Seq(D)
  BY <1>2, <1>3 DEF IsPath
<1>5. PICK k \in 1..Len(path) : /\ k = CHOOSE j \in DOMAIN path : path[j] = ancestor
                                /\ path[k] = ancestor
  <2>1. \E j \in DOMAIN path : path[j] = ancestor
    BY <1>1 DEF ToSet
  <2>2. PICK j : j = CHOOSE x \in DOMAIN path : path[x] = ancestor
    OBVIOUS
  <2>3. j \in DOMAIN path /\ path[j] = ancestor
    BY <2>1, <2>2, Zenon
  <2>4. DOMAIN path = 1..Len(path)
    BY <1>4
  <2> QED
    BY <2>2, <2>3, <2>4, Zenon
<1>6. PICK l \in Nat : l = Len(path)
  BY <1>4
<1>7. PICK n \in Nat : n = k - 1
  OBVIOUS
<1>8. PICK names : names = SubSeq(path, 1, n)
  OBVIOUS
<1>9. names \in Seq(D) /\ Len(names) = n /\ \A j \in 1..n : names[j] = path[j]
  <2>1. n <= l
    BY <1>6, <1>7
  <2> QED
    BY <1>4, <1>6, <1>8, <2>1
<1>10. \A j \in 1..(l - 1) : path[j + 1] = symTable[path[j]]
  BY <1>2, <1>6 DEF IsPath
<1>11. IsClimb(names)
  <2>1. ASSUME NEW j \in 1..(n - 1) PROVE names[j + 1] = symTable[names[j]]
    <3>1. j \in 1..n /\ j + 1 \in 1..n /\ j \in 1..(l - 1)
      BY <1>6, <1>7
    <3> QED
      BY <1>9, <1>10, <3>1
  <2> QED
    BY <1>3, <1>9, <2>1 DEF IsClimb
<1>12. path # <<>> /\ path[1] = tree[1].parent
  <2>1. path # <<>>
    BY <1>4, <1>5, EmptySeq
  <2> QED
    BY <1>2, <2>1 DEF IsPath
<1>13. names # <<>> => n >= 1 /\ names[1] = tree[1].parent
  <2> SUFFICES ASSUME names # <<>> PROVE n >= 1 /\ names[1] = tree[1].parent
    OBVIOUS
  <2>1. n >= 1
    BY <1>9, EmptySeq
  <2> QED
    BY <1>9, <1>12, <2>1
<1>14. Ids(tree) \cap (id + 1)..(id + Len(names)) = {}
  <2>1. \A x \in Nat : x <= id => x \notin (id + 1)..(id + n)
    OBVIOUS
  <2> QED
    BY <1>9, <2>1
<1>15. PICK T : T = Line(names, id, TRUE) \o Deepened(tree, Len(names))
  OBVIOUS
<1>16. Raised(T, tree, names, id)
  BY <1>11, <1>13, <1>14, <1>15, RaisedIs
<1>17. T[1].parent = ancestor
  <2>1. CASE names = <<>>
    <3>1. n = 0 /\ k = 1
      BY <1>7, <1>9, <2>1
    <3> QED
      BY <1>5, <1>12, <1>16, <2>1, <3>1 DEF Raised
  <2>2. CASE names # <<>>
    <3>1. n \in 1..(l - 1) /\ n \in 1..n /\ n + 1 = k
      BY <1>6, <1>7, <1>13, <2>2
    <3>2. path[n + 1] = symTable[path[n]] /\ names[n] = path[n]
      BY <1>9, <1>10, <3>1
    <3>3. T[1].parent = symTable[names[n]]
      BY <1>9, <1>16, <2>2 DEF Raised
    <3> QED
      BY <1>5, <3>1, <3>2, <3>3
  <2> QED
    BY <2>1, <2>2
<1>18. Expanded(tree, ancestor, id) = T
  BY <1>1, <1>5, <1>7, <1>8, <1>15, Zenon DEF Expanded
<1>19. ClimbedTo(T, tree, path, k, id)
  <2> SUFFICES ASSUME NEW x \in Bare(T), x \notin Bare(tree)
               PROVE  \E j \in 1..(k - 1) : x.ident = path[j] /\ x.id = id + j
    BY DEF ClimbedTo
  <2>1. PICK j \in 1..n : x.ident = names[j] /\ x.id = id + j
    BY <1>9, <1>16 DEF Raised, Climbed
  <2> QED
    BY <1>7, <1>9, <2>1
<1>20. Taller(T, tree, id)
  BY <1>11, <1>16, TallerIs
<1> QED
  BY <1>1, <1>5, <1>17, <1>18, <1>19, <1>20

\* T is a good tree with the nodes of two others, and others that are built for
\* symbols and numbered behind those there are.
Merges(T, l, r) ==
  /\ GoodTree(T) /\ Len(T) - Len(l) - Len(r) \in Nat
  /\ Ids(T) = Ids(l) \cup Ids(r) \cup (built + 1)..(built + (Len(T) - Len(l) - Len(r)))
  /\ Bare(l) \cup Bare(r) \subseteq Bare(T)
  /\ \A x \in Bare(T) : x \in Bare(l) \cup Bare(r) \/ FromSymbol(x)

LEMMA InsertMerges ==
  ASSUME built \in Nat, NEW tree, GoodTree(tree), NEW sub, GoodTree(sub),
         Has(tree, sub[1].parent), Ids(tree) \cap Ids(sub) = {}
  PROVE  /\ Merges(Insert(tree, sub, sub[1].parent), tree, sub)
         /\ Merges(Insert(tree, sub, sub[1].parent), sub, tree)
<1>1. PICK T : T = Insert(tree, sub, sub[1].parent)
  OBVIOUS
<1>2. Joins(T, tree, sub)
  BY <1>1, InsertGood
<1>3. Len(tree) \in Nat /\ Len(sub) \in Nat /\ Len(T) = Len(tree) + Len(sub)
  BY <1>2, TreeFacts DEF Joins, GoodTree
<1>4. /\ Len(T) - Len(tree) - Len(sub) = 0 /\ Len(T) - Len(sub) - Len(tree) = 0
      /\ (built + 1)..(built + 0) = {}
  BY <1>3
<1> QED
  BY <1>1, <1>2, <1>4 DEF Joins, Merges

\* The nodes that merging builds: for the symbols below place m of the one path, for
\* those below place n of the other, and for the symbol that stands at both.
BuiltUpTo(T, l, r, left, right, m, n) ==
  /\ T[1].ident = left[m] /\ T[1].parent = symTable[left[m]]
  /\ \E c, e \in Nat : \A x \in Bare(T) :
       \/ x \in Bare(l) \cup Bare(r)
       \/ \E k \in 1..(m - 1) : x.ident = left[k] /\ x.id = built + k
       \/ \E k \in 1..(n - 1) : x.ident = right[k] /\ x.id = c + k
       \/ x.ident = left[m] /\ x.id = e

LEMMA MergeByCompleteIs ==
  ASSUME symTable \in SymbolTables, built \in Nat,
         NEW l, GoodTree(l), NEW r, GoodTree(r), Ids(l) \cap Ids(r) = {},
         Ids(l) \subseteq 1..built, Ids(r) \subseteq 1..built,
         NEW ancestor \in ToSet(Path(l[1].parent)), ancestor \in ToSet(Path(r[1].parent))
  PROVE  /\ Merges(MergeByComplete(l, r, ancestor), l, r)
         /\ \E m \in 1..Len(Path(l[1].parent)), n \in 1..Len(Path(r[1].parent)) :
              /\ Path(l[1].parent)[m] = ancestor /\ Path(r[1].parent)[n] = ancestor
              /\ BuiltUpTo(MergeByComplete(l, r, ancestor), l, r,
                           Path(l[1].parent), Path(r[1].parent), m, n)
<1>1. PICK left : left = Expanded(l, ancestor, built)
  OBVIOUS
<1>2. /\ Taller(left, l, built) /\ left[1].parent = ancestor
      /\ \E n \in 1..Len(Path(l[1].parent)) :
           Path(l[1].parent)[n] = ancestor /\ ClimbedTo(left, l, Path(l[1].parent), n, built)
  <2>1. \A x \in Ids(l) : x \in Nat /\ x <= built
    OBVIOUS
  <2> QED
    BY <1>1, <2>1, ExpandedIs
<1>3. PICK a \in Nat : a = Len(left) - Len(l)
  BY <1>2 DEF Taller
<1>4. Len(left) \in Nat /\ Len(l) \in Nat /\ Len(r) \in Nat
  BY <1>2, TreeFacts DEF Taller, GoodTree
<1>5. PICK c \in Nat : c = built + Len(left) - Len(l) /\ c = built + a
  <2>1. built + a \in Nat /\ built + Len(left) - Len(l) = built + a
    BY <1>3, <1>4
  <2> QED
    BY <2>1
<1>6. PICK right : right = Expanded(r, ancestor, c)
  OBVIOUS
<1>7. /\ Taller(right, r, c) /\ right[1].parent = ancestor
      /\ \E n \in 1..Len(Path(r[1].parent)) :
           Path(r[1].parent)[n] = ancestor /\ ClimbedTo(right, r, Path(r[1].parent), n, c)
  <2>1. \A x \in Ids(r) : x \in Nat /\ x <= c
    BY <1>5
  <2> QED
    BY <1>6, <2>1, ExpandedIs
<1>8. PICK b \in Nat : b = Len(right) - Len(r)
  BY <1>7 DEF Taller
<1>9. Len(right) \in Nat
  BY <1>7, TreeFacts DEF Taller, GoodTree
<1>10. PICK e \in Nat : /\ e = built + Len(left) - Len(l) + Len(right) - Len(r) + 1
                        /\ e = built + a + b + 1 /\ e = c + b + 1
  <2>1. PICK x \in Nat : x = built + Len(left) - Len(l) /\ x = c
    BY <1>5
  <2>2. x + Len(right) - Len(r) = x + b
    BY <1>4, <1>8, <1>9
  <2>3. x + b + 1 \in Nat /\ x + b + 1 = built + a + b + 1 /\ x + b + 1 = c + b + 1
    BY <1>5, <2>1
  <2> QED
    BY <2>1, <2>2, <2>3
<1>11. /\ ancestor \in DOMAIN symTable /\ ancestor \in Name
       /\ symTable[ancestor] \in Name \cup {NULL}
  <2>1. IsPath(Path(l[1].parent), l[1].parent)
    BY RootIs, PathIs
  <2>2. PICK p \in Seq(DOMAIN symTable) : p = Path(l[1].parent)
    BY <2>1 DEF IsPath
  <2>3. ancestor \in DOMAIN symTable
    BY <2>2 DEF ToSet
  <2> QED
    BY <2>3, Ranked
<1>12. PICK root : root = Node(e, ancestor, symTable[ancestor], TRUE)
  OBVIOUS
<1>13. /\ root \in Nodes /\ root.id = e /\ root.ident = ancestor
       /\ root.parent = symTable[ancestor] /\ root.depth = 0 /\ root.oid = <<ancestor>>
  <2>1. LET x == Node(e, ancestor, symTable[ancestor], TRUE) IN
         /\ x \in Nodes /\ x.id = e /\ x.ident = ancestor /\ x.parent = symTable[ancestor]
         /\ x.depth = 0 /\ x.oid = <<ancestor>> /\ x.shared = TRUE
    BY <1>11, NodeIs
  <2> QED
    BY <1>12, <2>1, Zenon
<1>14. FromSymbol(root)
  BY <1>11, <1>13 DEF FromSymbol
<1>15. /\ GoodTree(left) /\ Ids(left) = Ids(l) \cup (built + 1)..(built + a)
       /\ Bare(l) \subseteq Bare(left)
       /\ \A x \in Bare(left) : x \in Bare(l) \/ FromSymbol(x)
  BY <1>2, <1>3 DEF Taller
<1>16. /\ GoodTree(right) /\ Ids(right) = Ids(r) \cup (c + 1)..(c + b)
       /\ Bare(r) \subseteq Bare(right)
       /\ \A x \in Bare(right) : x \in Bare(r) \/ FromSymbol(x)
  BY <1>7, <1>8 DEF Taller
<1>17. e \notin Ids(left) /\ e \notin Ids(right)
  BY <1>5, <1>10, <1>15, <1>16
<1>18. Ids(left) \cap Ids(right) = {}
  <2>1. \A x \in 1..built : x \notin (c + 1)..(c + b) /\ x \notin (built + 1)..(built + a)
    BY <1>5
  <2>2. \A x \in (built + 1)..(built + a) : x \notin (c + 1)..(c + b)
    BY <1>5
  <2> QED
    BY <1>15, <1>16, <2>1, <2>2
<1>19. PICK U : U = SetRoot(left, root)
  OBVIOUS
<1>20. /\ GoodTree(U) /\ U[1] = root /\ Len(U) = Len(left) + 1
       /\ Bare(U) = Bare(left) \cup {root} /\ Ids(U) = Ids(left) \cup {e}
  BY <1>2, <1>13, <1>15, <1>17, <1>19, SetRootGood
<1>21. Ids(U) \cap Ids(right) = {} /\ U[1].ident = right[1].parent
  BY <1>7, <1>13, <1>17, <1>18, <1>20
<1>22. PICK T : T = U \o Deepened(right, 1)
  OBVIOUS
<1>23. Joins(T, U, right) /\ T[1] = U[1]
  BY <1>16, <1>20, <1>21, <1>22, HangBelowRoot
<1>24. MergeByComplete(l, r, ancestor) = T
  BY <1>1, <1>5, <1>6, <1>10, <1>12, <1>19, <1>22 DEF MergeByComplete
<1>25. PICK j \in Nat : j = a + b + 1
  OBVIOUS
<1>26. Len(T) - Len(l) - Len(r) = j
  <2>1. Len(T) = Len(left) + 1 + Len(right)
    BY <1>20, <1>23 DEF Joins
  <2> QED
    BY <1>3, <1>4, <1>8, <1>9, <1>25, <2>1
<1>27. Ids(T) = Ids(l) \cup Ids(r) \cup (built + 1)..(built + j)
  <2>1. (built + 1)..(built + j) = (built + 1)..(built + a) \cup (c + 1)..(c + b) \cup {e}
    BY <1>5, <1>10, <1>25
  <2>2. Ids(T) = Ids(left) \cup {e} \cup Ids(right)
    BY <1>20, <1>23 DEF Joins
  <2> QED
    BY <1>15, <1>16, <2>1, <2>2
<1>28. Bare(T) = Bare(left) \cup {root} \cup Bare(right)
  BY <1>20, <1>23 DEF Joins
<1>29. GoodTree(T)
  BY <1>23 DEF Joins
<1>30. /\ Bare(l) \cup Bare(r) \subseteq Bare(T)
       /\ \A x \in Bare(T) : x \in Bare(l) \cup Bare(r) \/ FromSymbol(x)
  BY <1>14, <1>15, <1>16, <1>28, Zenon
<1>31. PICK m \in 1..Len(Path(l[1].parent)) :
         Path(l[1].parent)[m] = ancestor /\ ClimbedTo(left, l, Path(l[1].parent), m, built)
  BY <1>2
<1>32. PICK n \in 1..Len(Path(r[1].parent)) :
         Path(r[1].parent)[n] = ancestor /\ ClimbedTo(right, r, Path(r[1].parent), n, c)
  BY <1>7
<1>33. T[1].ident = ancestor /\ T[1].parent = symTable[ancestor]
  BY <1>13, <1>20, <1>23
<1>34. \A x \in Bare(T) :
         \/ x \in Bare(l) \cup Bare(r)
         \/ \E k \in 1..(m - 1) : x.ident = Path(l[1].parent)[k] /\ x.id = built + k
         \/ \E k \in 1..(n - 1) : x.ident = Path(r[1].parent)[k] /\ x.id = c + k
         \/ x.ident = ancestor /\ x.id = e
  <2>1. \A x \in Bare(left) : x \in Bare(l) \/
          \E k \in 1..(m - 1) : x.ident = Path(l[1].parent)[k] /\ x.id = built + k
    BY <1>31 DEF ClimbedTo
  <2>2. \A x \in Bare(right) : x \in Bare(r) \/
          \E k \in 1..(n - 1) : x.ident = Path(r[1].parent)[k] /\ x.id = c + k
    BY <1>32 DEF ClimbedTo
  <2> QED
    BY <1>13, <1>28, <2>1, <2>2, Zenon
<1>35. BuiltUpTo(T, l, r, Path(l[1].parent), Path(r[1].parent), m, n)
  <2>1. /\ T[1].ident = Path(l[1].parent)[m]
        /\ T[1].parent = symTable[Path(l[1].parent)[m]]
    BY <1>31, <1>33, Zenon
  <2>2. \A x \in Bare(T) :
          \/ x \in Bare(l) \cup Bare(r)
          \/ \E k \in 1..(m - 1) : x.ident = Path(l[1].parent)[k] /\ x.id = built + k
          \/ \E k \in 1..(n - 1) : x.ident = Path(r[1].parent)[k] /\ x.id = c + k
          \/ x.ident = Path(l[1].parent)[m] /\ x.id = e
    BY <1>31, <1>34, Zenon
  <2>3. \E f, g \in Nat : \A x \in Bare(T) :
          \/ x \in Bare(l) \cup Bare(r)
          \/ \E k \in 1..(m - 1) : x.ident = Path(l[1].parent)[k] /\ x.id = built + k
          \/ \E k \in 1..(n - 1) : x.ident = Path(r[1].parent)[k] /\ x.id = f + k
          \/ x.ident = Path(l[1].parent)[m] /\ x.id = g
    <3> WITNESS c \in Nat, e \in Nat
    <3> QED
      BY <2>2, Zenon
  <2> QED
    BY <2>1, <2>3, Zenon DEF BuiltUpTo
<1>36. Merges(T, l, r)
  BY <1>26, <1>27, <1>29, <1>30 DEF Merges
<1> QED
  BY <1>24, <1>31, <1>32, <1>35, <1>36, Zenon

-----------------------------------------------------------------------------
(***************************************************************************)
(* The search for a common ancestor.                                       *)
(***************************************************************************)
Marked(marks) ==
  \A s \in DOMAIN symTable : marks[s] # 0 =>
    \E n \in AllBare : n.id = marks[s] /\ s \in ToSet(Path(n.parent))

OneNode == \A x, y \in AllBare : x.id = y.id => x = y

\* A mark of a root is on one of its ancestors.
LEMMA MarkOfRoot ==
  ASSUME WallTrue, OneNode, NEW tree, GoodTree(tree), Bare(tree) \subseteq AllBare,
         tree[1].id # 0, NEW s \in DOMAIN symTable, wall[s] = tree[1].id
  PROVE  s \in ToSet(Path(tree[1].parent))
<1>1. PICK n \in AllBare : n.id = wall[s] /\ s \in ToSet(Path(n.parent))
  BY DEF WallTrue
<1>2. tree[1] \in AllBare
  BY RootIs
<1>3. n = tree[1]
  BY <1>1, <1>2 DEF OneNode
<1> QED
  BY <1>1, <1>3

\* The symbol is the first that is met on the way up, or none is.
FirstMet(sym, left, right, l, r) ==
  \/ /\ sym = NULL
     /\ \A k \in 1..(Len(left) + Len(right)) :
          ~MetByLeft(left, right, r[1].id, k) /\ ~MetByRight(left, right, l[1].id, k)
  \/ \E stop \in 1..(Len(left) + Len(right)) :
       /\ \/ MetByLeft(left, right, r[1].id, stop) /\ sym = left[stop]
          \/ MetByRight(left, right, l[1].id, stop) /\ sym = right[stop]
       /\ \A k \in 1..(Len(left) + Len(right)) : k < stop =>
            ~MetByLeft(left, right, r[1].id, k) /\ ~MetByRight(left, right, l[1].id, k)

LEMMA AncestorCommonIs ==
  ASSUME symTable \in SymbolTables, wall \in [DOMAIN symTable -> Nat], WallTrue, OneNode,
         NEW l, GoodTree(l), Bare(l) \subseteq AllBare, l[1].id # 0,
         NEW r, GoodTree(r), Bare(r) \subseteq AllBare, r[1].id # 0,
         NEW ac, ac = AncestorCommon(l, r)
  PROVE  /\ ac.wall \in [DOMAIN symTable -> Nat] /\ Marked(ac.wall)
         /\ ac.symbol # NULL => /\ ac.symbol \in ToSet(Path(l[1].parent))
                                /\ ac.symbol \in ToSet(Path(r[1].parent))
         /\ FirstMet(ac.symbol, Path(l[1].parent), Path(r[1].parent), l, r)
<1>1. PICK left : left = Path(l[1].parent)
  OBVIOUS
<1>2. PICK right : right = Path(r[1].parent)
  OBVIOUS
<1>3. PICK D : D = DOMAIN symTable
  OBVIOUS
<1>4. left \in Seq(D) /\ right \in Seq(D)
  <2>1. IsPath(left, l[1].parent) /\ IsPath(right, r[1].parent)
    BY <1>1, <1>2, RootIs, PathIs
  <2> QED
    BY <1>3, <2>1 DEF IsPath
<1>5. PICK a \in Nat : a = Len(left)
  BY <1>4
<1>6. PICK b \in Nat : b = Len(right)
  BY <1>4
<1>7. PICK met : met = {k \in 1..(a + b) : MetByLeft(left, right, r[1].id, k)
                                           \/ MetByRight(left, right, l[1].id, k)}
  OBVIOUS
<1>8. PICK stop : stop = IF met = {} THEN a + b + 1 ELSE Min(met)
  OBVIOUS
<1>9. PICK byL \in BOOLEAN : byL <=> met # {} /\ MetByLeft(left, right, r[1].id, stop)
  OBVIOUS
<1>10. PICK wallL : wallL = {left[k] : k \in {j \in DOMAIN left : j < stop \/ (j = stop /\ ~byL)}}
  OBVIOUS
<1>11. PICK wallR : wallR = {right[k] : k \in {j \in DOMAIN right : j < stop}}
  OBVIOUS
<1>12. PICK sym : sym = IF met = {} THEN NULL ELSE IF byL THEN left[stop] ELSE right[stop]
  OBVIOUS
<1>13. PICK w : w = [n \in DOMAIN wall |-> IF n \in wallL THEN l[1].id
                                        ELSE IF n \in wallR THEN r[1].id ELSE wall[n]]
  OBVIOUS
<1>14. ac = [symbol |-> sym, wall |-> w]
  <2>1. byL = (met # {} /\ MetByLeft(left, right, r[1].id, stop))
    BY <1>9
  <2> QED
    BY <1>1, <1>2, <1>5, <1>6, <1>7, <1>8, <1>10, <1>11, <1>12, <1>13, <2>1, Zenon
       DEF AncestorCommon
<1>15. ac.symbol = sym /\ ac.wall = w
  BY <1>14
<1>16. \A n \in D : wall[n] \in Nat
  BY <1>3
<1>17. l[1].id \in Nat /\ r[1].id \in Nat /\ l[1] \in AllBare /\ r[1] \in AllBare
  BY RootIs
<1>18. wallL \subseteq ToSet(left) /\ wallR \subseteq ToSet(right)
  BY <1>10, <1>11, Zenon DEF ToSet
<1>19. w \in [D -> Nat]
  BY <1>3, <1>13, <1>16, <1>17
<1>20. ASSUME NEW s \in D, w[s] # 0
       PROVE  \E n \in AllBare : n.id = w[s] /\ s \in ToSet(Path(n.parent))
  <2>1. CASE s \in wallL
    <3>1. w[s] = l[1].id /\ s \in ToSet(Path(l[1].parent))
      BY <1>1, <1>3, <1>13, <1>18, <2>1
    <3> QED
      BY <1>17, <3>1, Zenon
  <2>2. CASE s \notin wallL /\ s \in wallR
    <3>1. w[s] = r[1].id /\ s \in ToSet(Path(r[1].parent))
      BY <1>2, <1>3, <1>13, <1>18, <2>2
    <3> QED
      BY <1>17, <3>1, Zenon
  <2>3. CASE s \notin wallL /\ s \notin wallR
    <3>1. w[s] = wall[s]
      BY <1>3, <1>13, <2>3
    <3> QED
      BY <1>3, <1>20, <3>1, Zenon DEF WallTrue
  <2> QED
    BY <2>1, <2>2, <2>3
<1>21. Marked(w)
  BY <1>3, <1>20, Zenon DEF Marked
<1>22. ASSUME sym # NULL PROVE sym \in ToSet(left) /\ sym \in ToSet(right)
  <2>1. met # {} /\ met \in SUBSET Nat
    BY <1>7, <1>12, <1>22
  <2>2. stop \in met
    BY <1>8, <2>1, MinIn
  <2>3. CASE byL
    <3>1. sym = left[stop] /\ MetByLeft(left, right, r[1].id, stop)
      BY <1>9, <1>12, <2>1, <2>3
    <3>2. /\ stop \in DOMAIN left
          /\ wall[sym] = r[1].id \/ \E j \in 1..(stop - 1) : j \in DOMAIN right /\ right[j] = sym
      BY <3>1, Zenon DEF MetByLeft
    <3>3. sym \in ToSet(left) /\ sym \in D
      BY <1>4, <3>1, <3>2 DEF ToSet
    <3>4. wall[sym] = r[1].id => sym \in ToSet(right)
      BY <1>2, <1>3, <3>3, MarkOfRoot
    <3>5. (\E j \in 1..(stop - 1) : j \in DOMAIN right /\ right[j] = sym) => sym \in ToSet(right)
      BY Zenon DEF ToSet
    <3> QED
      BY <3>2, <3>3, <3>4, <3>5
  <2>4. CASE ~byL
    <3>1. sym = right[stop] /\ MetByRight(left, right, l[1].id, stop)
      BY <1>7, <1>9, <1>12, <2>1, <2>2, <2>4
    <3>2. /\ stop \in DOMAIN right
          /\ wall[sym] = l[1].id \/ \E j \in 1..stop : j \in DOMAIN left /\ left[j] = sym
      BY <3>1, Zenon DEF MetByRight
    <3>3. sym \in ToSet(right) /\ sym \in D
      BY <1>4, <3>1, <3>2 DEF ToSet
    <3>4. wall[sym] = l[1].id => sym \in ToSet(left)
      BY <1>1, <1>3, <3>3, MarkOfRoot
    <3>5. (\E j \in 1..stop : j \in DOMAIN left /\ left[j] = sym) => sym \in ToSet(left)
      BY Zenon DEF ToSet
    <3> QED
      BY <3>2, <3>3, <3>4, <3>5
  <2> QED
    BY <2>3, <2>4
<1>23. FirstMet(sym, left, right, l, r)
  <2>1. CASE met = {}
    <3>1. sym = NULL
      BY <1>12, <2>1
    <3>2. \A k \in 1..(a + b) :
            ~MetByLeft(left, right, r[1].id, k) /\ ~MetByRight(left, right, l[1].id, k)
      BY <1>7, <2>1, Zenon
    <3> QED
      BY <1>5, <1>6, <3>1, <3>2, Zenon DEF FirstMet
  <2>2. CASE met # {}
    <3>1. met \in SUBSET Nat /\ stop = Min(met)
      BY <1>7, <1>8, <2>2
    <3>2. stop \in met /\ \A k \in met : stop <= k
      <4>1. PICK c \in met : \A x \in met : c <= x
        BY <2>2, <3>1, LeastNat
      <4>2. Min(met) = c
        BY <3>1, <4>1, MinIs
      <4> QED
        BY <3>1, <4>1, <4>2
    <3>3. stop \in 1..(a + b) /\ (MetByLeft(left, right, r[1].id, stop) \/ MetByRight(left, right, l[1].id, stop))
      BY <1>7, <3>2, Zenon
    <3>4. \A k \in 1..(a + b) : k < stop => k \notin met
      BY <3>2, <3>3
    <3>5. \A k \in 1..(a + b) : k < stop =>
            ~MetByLeft(left, right, r[1].id, k) /\ ~MetByRight(left, right, l[1].id, k)
      BY <1>7, <3>4, Zenon
    <3>6. \/ MetByLeft(left, right, r[1].id, stop) /\ sym = left[stop]
          \/ MetByRight(left, right, l[1].id, stop) /\ sym = right[stop]
      BY <1>9, <1>12, <2>2, <3>3, Zenon
    <3> QED
      BY <1>5, <1>6, <3>3, <3>5, <3>6, Zenon DEF FirstMet
  <2> QED
    BY <2>1, <2>2
<1> QED
  BY <1>1, <1>2, <1>3, <1>15, <1>19, <1>21, <1>22, <1>23

-----------------------------------------------------------------------------
(***************************************************************************)
(* Forests.                                                                *)
(***************************************************************************)
LEMMA BareIds ==
  ASSUME NEW tree \in Seq(Nodes)
  PROVE  /\ Ids(tree) = {x.id : x \in Bare(tree)}
         /\ \A x \in Bare(tree) : \E i \in 1..Len(tree) :
              /\ x = [tree[i] EXCEPT !.depth = 0] /\ x.id = tree[i].id
              /\ x.ident = tree[i].ident /\ x.parent = tree[i].parent
<1>1. \A i \in 1..Len(tree) :
        LET m == [tree[i] EXCEPT !.depth = 0] IN
          m.id = tree[i].id /\ m.ident = tree[i].ident /\ m.parent = tree[i].parent
  <2> TAKE i \in 1..Len(tree)
  <2>1. tree[i] \in Nodes
    BY ElementOfSeq
  <2> QED
    BY <2>1, BareNode
<1>2. \A x \in Bare(tree) : \E i \in 1..Len(tree) :
              /\ x = [tree[i] EXCEPT !.depth = 0] /\ x.id = tree[i].id
              /\ x.ident = tree[i].ident /\ x.parent = tree[i].parent
  BY <1>1, Zenon DEF Bare
<1>3. \A x \in Bare(tree) : x.id \in Ids(tree)
  BY <1>2, Zenon DEF Ids
<1>4. \A k \in Ids(tree) : \E x \in Bare(tree) : k = x.id
  BY <1>1, Zenon DEF Ids, Bare
<1> QED
  BY <1>2, <1>3, <1>4

LEMMA ForestFacts ==
  ASSUME NEW ts, NEW tt, NEW n, IsForest(ts, tt, n)
  PROVE  /\ \A t \in 1..Len(ts) :
              /\ Ids(ts[t]) \subseteq 1..n /\ Bare(ts[t]) \subseteq Bares(ts, tt)
              /\ ts[t] # <<>> /\ GoodTree(ts[t])
         /\ Ids(tt) \subseteq 1..n /\ Bare(tt) \subseteq Bares(ts, tt)
         /\ \A x, y \in Bares(ts, tt) : x.id = y.id => x = y
<1>1. \A t \in 1..Len(ts) : Ids(ts[t]) \subseteq 1..n /\ Bare(ts[t]) \subseteq Bares(ts, tt)
  <2> TAKE t \in 1..Len(ts)
  <2>1. Ids(ts[t]) \subseteq AllIds(ts, tt)
    BY DEF AllIds
  <2>2. Bare(ts[t]) \subseteq Bares(ts, tt)
    BY DEF Bares
  <2> QED
    BY <2>1, <2>2 DEF IsForest
<1>2. Ids(tt) \subseteq 1..n /\ Bare(tt) \subseteq Bares(ts, tt)
  <2>1. AllIds(ts, tt) = 1..n
    BY DEF IsForest
  <2>2. Ids(tt) \subseteq AllIds(ts, tt)
    BY Zenon DEF AllIds
  <2>3. Bare(tt) \subseteq Bares(ts, tt)
    BY Zenon DEF Bares
  <2> QED
    BY <2>1, <2>2, <2>3
<1>3. \A t \in 1..Len(ts) : ts[t] # <<>> /\ GoodTree(ts[t]) /\ ts[t] \in Seq(Nodes) /\ Distinct(ts[t])
  BY DEF IsForest, GoodTree, Shaped
<1>4. tt \in Seq(Nodes) /\ Distinct(tt)
  <2>1. CASE tt = <<>>
    BY <2>1 DEF Distinct
  <2>2. CASE tt # <<>>
    BY <2>2 DEF IsForest, GoodTree
  <2>3. tt \in Seq(Nodes)
    BY DEF IsForest
  <2> QED
    BY <2>1, <2>2, <2>3
<1>5. \A tree \in Seq(Nodes) : Distinct(tree) =>
        \A x, y \in Bare(tree) : x.id = y.id => x = y
  <2> SUFFICES ASSUME NEW tree \in Seq(Nodes), Distinct(tree),
                      NEW x \in Bare(tree), NEW y \in Bare(tree), x.id = y.id
               PROVE  x = y
    OBVIOUS
  <2>1. PICK i \in 1..Len(tree) : x = [tree[i] EXCEPT !.depth = 0] /\ x.id = tree[i].id
    BY BareIds
  <2>2. PICK j \in 1..Len(tree) : y = [tree[j] EXCEPT !.depth = 0] /\ y.id = tree[j].id
    BY BareIds
  <2>3. i = j
    BY <2>1, <2>2 DEF Distinct
  <2> QED
    BY <2>1, <2>2, <2>3
<1>6. \A tree \in Seq(Nodes) : \A x \in Bare(tree) : x.id \in Ids(tree)
  BY BareIds
<1>7. ASSUME NEW x \in Bares(ts, tt), NEW y \in Bares(ts, tt), x.id = y.id PROVE x = y
  <2>1. /\ x \in Bare(tt) \/ \E t \in 1..Len(ts) : x \in Bare(ts[t])
        /\ y \in Bare(tt) \/ \E t \in 1..Len(ts) : y \in Bare(ts[t])
    <3>1. \A z \in Bares(ts, tt) : z \in Bare(tt) \/ \E t \in 1..Len(ts) : z \in Bare(ts[t])
      BY Zenon DEF Bares
    <3> QED
      BY <3>1
  <2>2. CASE x \in Bare(tt) /\ y \in Bare(tt)
    BY <1>4, <1>5, <1>7, <2>2
  <2>3. CASE x \in Bare(tt) /\ \E t \in 1..Len(ts) : y \in Bare(ts[t])
    <3>1. PICK t \in 1..Len(ts) : y \in Bare(ts[t])
      BY <2>3
    <3>2. x.id \in Ids(tt) /\ y.id \in Ids(ts[t])
      BY <1>3, <1>4, <1>6, <2>3, <3>1
    <3> QED
      BY <1>7, <3>2 DEF IsForest
  <2>4. CASE y \in Bare(tt) /\ \E t \in 1..Len(ts) : x \in Bare(ts[t])
    <3>1. PICK t \in 1..Len(ts) : x \in Bare(ts[t])
      BY <2>4
    <3>2. y.id \in Ids(tt) /\ x.id \in Ids(ts[t])
      BY <1>3, <1>4, <1>6, <2>4, <3>1
    <3> QED
      BY <1>7, <3>2 DEF IsForest
  <2>5. CASE (\E t \in 1..Len(ts) : x \in Bare(ts[t])) /\ \E t \in 1..Len(ts) : y \in Bare(ts[t])
    <3>1. PICK t \in 1..Len(ts) : x \in Bare(ts[t])
      BY <2>5
    <3>2. PICK u \in 1..Len(ts) : y \in Bare(ts[u])
      BY <2>5
    <3>3. x.id \in Ids(ts[t]) /\ y.id \in Ids(ts[u])
      BY <1>3, <1>6, <3>1, <3>2
    <3>4. t = u
      BY <1>7, <3>3 DEF IsForest
    <3> QED
      BY <1>3, <1>5, <1>7, <3>1, <3>2, <3>4
  <2> QED
    BY <2>1, <2>2, <2>3, <2>4, <2>5
<1> QED
  BY <1>1, <1>2, <1>3, <1>7

LEMMA NoTree == Ids(<<>>) = {} /\ Bare(<<>>) = {} /\ <<>> \in Seq(Nodes)
<1>1. 1..Len(<<>>) = {}
  OBVIOUS
<1> QED
  BY <1>1 DEF Ids, Bare

LEMMA RemoveAtIs ==
  ASSUME NEW X, NEW list \in Seq(X), NEW s \in 1..Len(list)
  PROVE  /\ RemoveAt(list, s) \in Seq(X) /\ Len(RemoveAt(list, s)) = Len(list) - 1
         /\ \A p \in 1..(Len(list) - 1) :
              RemoveAt(list, s)[p] = IF p < s THEN list[p] ELSE list[p + 1]
<1>1. PICK n \in Nat : n = Len(list)
  OBVIOUS
<1>2. PICK A : A = SubSeq(list, 1, s - 1)
  OBVIOUS
<1>3. PICK B : B = SubSeq(list, s + 1, n)
  OBVIOUS
<1>4. PICK a \in Nat : a = s - 1 /\ a <= n
  BY <1>1
<1>5. PICK b \in Nat : b = n - s
  <2>1. n - s \in Nat
    BY <1>1
  <2> QED
    BY <2>1
<1>6. A \in Seq(X) /\ Len(A) = a /\ \A p \in 1..a : A[p] = list[p]
  BY <1>1, <1>2, <1>4
<1>7. B \in Seq(X) /\ Len(B) = b /\ \A p \in 1..b : B[p] = list[s + p]
  BY <1>1, <1>3, <1>5
<1>8. PICK C : C = A \o B
  OBVIOUS
<1>9. /\ C \in Seq(X) /\ Len(C) = a + b
      /\ \A p \in 1..(a + b) : C[p] = IF p <= a THEN A[p] ELSE B[p - a]
  <2>1. C \in Seq(X) /\ Len(C) = Len(A) + Len(B)
    BY <1>6, <1>7, <1>8, ConcatProperties
  <2>2. \A p \in 1..(Len(A) + Len(B)) : C[p] = IF p <= Len(A) THEN A[p] ELSE B[p - Len(A)]
    BY <1>6, <1>7, <1>8, ConcatProperties, Zenon
  <2> QED
    BY <1>6, <1>7, <2>1, <2>2
<1>10. a + b = n - 1
  BY <1>4, <1>5
<1>11. ASSUME NEW p \in 1..(n - 1) PROVE C[p] = IF p < s THEN list[p] ELSE list[p + 1]
  <2>1. CASE p < s
    <3>1. p <= a /\ p \in 1..a /\ p \in 1..(a + b)
      BY <1>4, <1>10, <2>1
    <3> QED
      BY <1>6, <1>9, <2>1, <3>1
  <2>2. CASE ~(p < s)
    <3>1. ~(p <= a) /\ p - a \in 1..b /\ p \in 1..(a + b)
      BY <1>4, <1>5, <2>2
    <3>2. PICK q \in 1..b : q = p - a /\ s + q = p + 1
      BY <1>4, <3>1
    <3>3. C[p] = B[q] /\ B[q] = list[s + q]
      BY <1>7, <1>9, <3>1, <3>2
    <3> QED
      BY <2>2, <3>2, <3>3
  <2> QED
    BY <2>1, <2>2
<1>12. C = RemoveAt(list, s)
  BY <1>1, <1>2, <1>3, <1>8 DEF RemoveAt
<1> QED
  BY <1>1, <1>9, <1>10, <1>11, <1>12

LEMMA InForest ==
  ASSUME NEW ts, NEW tt
  PROVE  /\ \A x : x \in Bares(ts, tt) <=> (x \in Bare(tt) \/ \E t \in 1..Len(ts) : x \in Bare(ts[t]))
         /\ \A x : x \in AllIds(ts, tt) <=> (x \in Ids(tt) \/ \E t \in 1..Len(ts) : x \in Ids(ts[t]))
BY Zenon DEF Bares, AllIds

\* A tree put at the end of the list.
LEMMA PutBack ==
  ASSUME NEW ts, NEW tt, NEW n, IsForest(ts, tt, n), tt # <<>>
  PROVE  /\ IsForest(Append(ts, tt), <<>>, n)
         /\ Bares(Append(ts, tt), <<>>) = Bares(ts, tt)
         /\ Len(Append(ts, tt)) = Len(ts) + 1
<1>1. ts \in Seq(Seq(Nodes)) /\ tt \in Seq(Nodes) /\ n \in Nat /\ GoodTree(tt)
  BY DEF IsForest
<1>2. PICK l \in Nat : l = Len(ts)
  BY <1>1
<1>3. PICK us : us = Append(ts, tt)
  OBVIOUS
<1>4. /\ us \in Seq(Seq(Nodes)) /\ Len(us) = l + 1 /\ us[l + 1] = tt
      /\ \A t \in 1..l : us[t] = ts[t]
  BY <1>1, <1>2, <1>3, AppendProperties
<1>5. \A t \in 1..(l + 1) : t \in 1..l \/ t = l + 1
  OBVIOUS
<1>6. \A t \in 1..l : t \in 1..(l + 1) /\ l + 1 \in 1..(l + 1)
  OBVIOUS
<1>7. l + 1 \in 1..(l + 1)
  OBVIOUS
<1>8. /\ \A t \in 1..l : GoodTree(ts[t])
      /\ \A t, u \in 1..l : t # u => Ids(ts[t]) \cap Ids(ts[u]) = {}
      /\ \A t \in 1..l : Ids(ts[t]) \cap Ids(tt) = {}
  BY <1>2 DEF IsForest
<1>9. \A t \in 1..(l + 1) : GoodTree(us[t])
  BY <1>1, <1>4, <1>5, <1>8
<1>10. ASSUME NEW t \in 1..(l + 1), NEW u \in 1..(l + 1), t # u
       PROVE  Ids(us[t]) \cap Ids(us[u]) = {}
  BY <1>4, <1>5, <1>8, <1>10
<1>11. AllIds(us, <<>>) = AllIds(ts, tt)
  <2>1. \A x : x \in AllIds(us, <<>>) <=> \E t \in 1..(l + 1) : x \in Ids(us[t])
    BY <1>4, InForest, NoTree
  <2>2. \A x : x \in AllIds(ts, tt) <=> (x \in Ids(tt) \/ \E t \in 1..l : x \in Ids(ts[t]))
    BY <1>2, InForest
  <2>3. \A x : (\E t \in 1..(l + 1) : x \in Ids(us[t])) <=>
               (x \in Ids(tt) \/ \E t \in 1..l : x \in Ids(ts[t]))
    BY <1>4, <1>5, <1>6, <1>7
  <2> QED
    BY <2>1, <2>2, <2>3
<1>12. Bares(us, <<>>) = Bares(ts, tt)
  <2>1. \A x : x \in Bares(us, <<>>) <=> \E t \in 1..(l + 1) : x \in Bare(us[t])
    BY <1>4, InForest, NoTree
  <2>2. \A x : x \in Bares(ts, tt) <=> (x \in Bare(tt) \/ \E t \in 1..l : x \in Bare(ts[t]))
    BY <1>2, InForest
  <2>3. \A x : (\E t \in 1..(l + 1) : x \in Bare(us[t])) <=>
               (x \in Bare(tt) \/ \E t \in 1..l : x \in Bare(ts[t]))
    BY <1>4, <1>5, <1>6, <1>7
  <2> QED
    BY <2>1, <2>2, <2>3
<1>13. AllIds(us, <<>>) = 1..n
  BY <1>11 DEF IsForest
<1>14. IsForest(us, <<>>, n)
  <2>1. \A t \in 1..(l + 1) : Ids(us[t]) \cap Ids(<<>>) = {}
    BY NoTree
  <2> QED
    BY <1>1, <1>4, <1>9, <1>10, <1>13, <2>1, NoTree DEF IsForest
<1> QED
  BY <1>2, <1>3, <1>4, <1>12, <1>14

\* A tree of one new node.
LEMMA NewTree ==
  ASSUME NEW ts, NEW n, IsForest(ts, <<>>, n), NEW node \in Nodes, node.depth = 0,
         node.id = n + 1
  PROVE  /\ IsForest(Append(ts, <<node>>), <<>>, n + 1)
         /\ Bares(Append(ts, <<node>>), <<>>) = Bares(ts, <<>>) \cup {node}
         /\ Len(Append(ts, <<node>>)) = Len(ts) + 1
<1>1. ts \in Seq(Seq(Nodes)) /\ n \in Nat
  BY DEF IsForest
<1>2. PICK tt : tt = <<node>>
  OBVIOUS
<1>3. GoodTree(tt) /\ Bare(tt) = {node} /\ Ids(tt) = {n + 1} /\ tt # <<>> /\ tt \in Seq(Nodes)
  BY <1>2, NodeGood
<1>4. \A t \in 1..Len(ts) : Ids(ts[t]) \cap Ids(tt) = {}
  <2>1. n + 1 \notin 1..n
    BY <1>1
  <2> QED
    BY <1>3, <2>1, ForestFacts
<1>5. AllIds(ts, tt) = 1..(n + 1)
  <2>1. AllIds(ts, <<>>) = 1..n
    BY DEF IsForest
  <2>2. AllIds(ts, tt) = AllIds(ts, <<>>) \cup {n + 1}
    BY <1>3, InForest, NoTree
  <2>3. 1..(n + 1) = 1..n \cup {n + 1}
    BY <1>1
  <2> QED
    BY <2>1, <2>2, <2>3
<1>6. Bares(ts, tt) = Bares(ts, <<>>) \cup {node}
  BY <1>3, InForest, NoTree
<1>7. IsForest(ts, tt, n + 1)
  <2>1. /\ \A t \in 1..Len(ts) : GoodTree(ts[t])
        /\ \A t, u \in 1..Len(ts) : t # u => Ids(ts[t]) \cap Ids(ts[u]) = {}
    BY DEF IsForest
  <2>2. n + 1 \in Nat
    BY <1>1
  <2> QED
    BY <1>1, <1>3, <1>4, <1>5, <2>1, <2>2, Zenon DEF IsForest
<1> QED
  BY <1>2, <1>3, <1>6, <1>7, PutBack

\* One tree of the list, with more nodes.
LEMMA GrownTree ==
  ASSUME NEW ts, NEW n, IsForest(ts, <<>>, n), NEW t \in 1..Len(ts),
         NEW T, GoodTree(T), NEW m \in Nat, n <= m, Ids(T) = Ids(ts[t]) \cup (n + 1)..m,
         NEW us \in Seq(Seq(Nodes)), Len(us) = Len(ts), us[t] = T,
         \A u \in 1..Len(ts) : u # t => us[u] = ts[u]
  PROVE  /\ IsForest(us, <<>>, m)
         /\ Bare(T) \subseteq Bares(us, <<>>)
         /\ \A x \in Bares(us, <<>>) : x \in Bare(T) \/ x \in Bares(ts, <<>>)
         /\ \A x \in Bares(ts, <<>>) : x \in Bare(ts[t]) \/ x \in Bares(us, <<>>)
<1>1. ts \in Seq(Seq(Nodes)) /\ n \in Nat /\ T \in Seq(Nodes)
  BY DEF IsForest, GoodTree, Shaped
<1>2. PICK l \in Nat : l = Len(ts)
  BY <1>1
<1>4. /\ us \in Seq(Seq(Nodes)) /\ Len(us) = l /\ us[t] = T
      /\ \A u \in 1..l : u # t => us[u] = ts[u]
  BY <1>2
<1>5. /\ \A u \in 1..l : GoodTree(ts[u]) /\ Ids(ts[u]) \subseteq 1..n
      /\ \A u, v \in 1..l : u # v => Ids(ts[u]) \cap Ids(ts[v]) = {}
  <2>1. \A u \in 1..l : GoodTree(ts[u]) /\ Ids(ts[u]) \subseteq 1..n
    BY <1>2, ForestFacts
  <2>2. \A u, v \in 1..l : u # v => Ids(ts[u]) \cap Ids(ts[v]) = {}
    BY <1>2 DEF IsForest
  <2> QED
    BY <2>1, <2>2
<1>6. \A u \in 1..l : GoodTree(us[u])
  BY <1>4, <1>5
<1>7. \A u \in 1..l : u # t => Ids(us[u]) \cap Ids(T) = {}
  <2>1. 1..n \cap (n + 1)..m = {}
    BY <1>1
  <2> QED
    BY <1>2, <1>4, <1>5, <2>1
<1>8. \A u, v \in 1..l : u # v => Ids(us[u]) \cap Ids(us[v]) = {}
  BY <1>4, <1>5, <1>7
<1>9. AllIds(us, <<>>) = 1..m
  <2>1. AllIds(ts, <<>>) = 1..n
    BY DEF IsForest
  <2>2. \A x : x \in AllIds(us, <<>>) <=> \E u \in 1..l : x \in Ids(us[u])
    BY <1>4, InForest, NoTree
  <2>3. \A x : x \in AllIds(ts, <<>>) <=> \E u \in 1..l : x \in Ids(ts[u])
    BY <1>2, InForest, NoTree
  <2>4. 1..m = 1..n \cup (n + 1)..m
    BY <1>1
  <2>5. \A x : (\E u \in 1..l : x \in Ids(us[u])) <=>
               (x \in (n + 1)..m \/ \E u \in 1..l : x \in Ids(ts[u]))
    BY <1>2, <1>4
  <2> QED
    BY <2>1, <2>2, <2>3, <2>4, <2>5
<1>10. IsForest(us, <<>>, m)
  <2>1. \A u \in 1..l : Ids(us[u]) \cap Ids(<<>>) = {}
    BY NoTree
  <2> QED
    BY <1>4, <1>6, <1>8, <1>9, <2>1, NoTree DEF IsForest
<1>11. /\ \A x : x \in Bares(us, <<>>) <=> \E u \in 1..l : x \in Bare(us[u])
       /\ \A x : x \in Bares(ts, <<>>) <=> \E u \in 1..l : x \in Bare(ts[u])
  BY <1>2, <1>4, InForest, NoTree
<1>12. /\ Bare(T) \subseteq Bares(us, <<>>)
       /\ \A x \in Bares(us, <<>>) : x \in Bare(T) \/ x \in Bares(ts, <<>>)
       /\ \A x \in Bares(ts, <<>>) : x \in Bare(ts[t]) \/ x \in Bares(us, <<>>)
  BY <1>2, <1>4, <1>11
<1> QED
  BY <1>10, <1>12

LEMMA FirstTaken ==
  ASSUME NEW ts, NEW n, IsForest(ts, <<>>, n), ts # <<>>
  PROVE  /\ IsForest(Tail(ts), Head(ts), n) /\ Head(ts) # <<>>
         /\ Bares(Tail(ts), Head(ts)) = Bares(ts, <<>>)
         /\ Len(Tail(ts)) = Len(ts) - 1
<1>1. ts \in Seq(Seq(Nodes)) /\ n \in Nat
  BY DEF IsForest
<1>2. PICK l \in Nat : l = Len(ts) /\ l >= 1
  BY <1>1, EmptySeq
<1>3. PICK us : us = Tail(ts)
  OBVIOUS
<1>4. PICK tt : tt = Head(ts)
  OBVIOUS
<1>5. /\ us \in Seq(Seq(Nodes)) /\ Len(us) = l - 1 /\ tt = ts[1]
      /\ \A t \in 1..(l - 1) : us[t] = ts[t + 1]
  BY <1>1, <1>2, <1>3, <1>4, HeadTailProperties
<1>6. /\ \A t \in 1..l : GoodTree(ts[t]) /\ ts[t] # <<>> /\ ts[t] \in Seq(Nodes)
      /\ \A t, u \in 1..l : t # u => Ids(ts[t]) \cap Ids(ts[u]) = {}
  BY <1>2 DEF IsForest, GoodTree, Shaped
<1>7. /\ \A t \in 1..(l - 1) : t + 1 \in 1..l /\ t + 1 # 1
      /\ \A t, u \in 1..(l - 1) : t # u => t + 1 # u + 1
      /\ 1 \in 1..l
  BY <1>2
<1>8. \A t \in 1..l : t = 1 \/ \E u \in 1..(l - 1) : t = u + 1
  <2> SUFFICES ASSUME NEW t \in 1..l, t # 1 PROVE \E u \in 1..(l - 1) : t = u + 1
    OBVIOUS
  <2>1. t - 1 \in 1..(l - 1) /\ t = (t - 1) + 1
    OBVIOUS
  <2> QED
    BY <2>1
<1>9. /\ \A t \in 1..(l - 1) : GoodTree(us[t]) /\ Ids(us[t]) \cap Ids(tt) = {}
      /\ \A t, u \in 1..(l - 1) : t # u => Ids(us[t]) \cap Ids(us[u]) = {}
  BY <1>5, <1>6, <1>7
<1>10. AllIds(us, tt) = AllIds(ts, <<>>)
  <2>1. \A x : x \in AllIds(us, tt) <=> (x \in Ids(tt) \/ \E t \in 1..(l - 1) : x \in Ids(us[t]))
    BY <1>5, InForest
  <2>2. \A x : x \in AllIds(ts, <<>>) <=> \E t \in 1..l : x \in Ids(ts[t])
    BY <1>2, InForest, NoTree
  <2>3. \A x : (\E t \in 1..l : x \in Ids(ts[t])) <=>
               (x \in Ids(tt) \/ \E t \in 1..(l - 1) : x \in Ids(us[t]))
    BY <1>5, <1>7, <1>8
  <2> QED
    BY <2>1, <2>2, <2>3
<1>11. Bares(us, tt) = Bares(ts, <<>>)
  <2>1. \A x : x \in Bares(us, tt) <=> (x \in Bare(tt) \/ \E t \in 1..(l - 1) : x \in Bare(us[t]))
    BY <1>5, InForest
  <2>2. \A x : x \in Bares(ts, <<>>) <=> \E t \in 1..l : x \in Bare(ts[t])
    BY <1>2, InForest, NoTree
  <2>3. \A x : (\E t \in 1..l : x \in Bare(ts[t])) <=>
               (x \in Bare(tt) \/ \E t \in 1..(l - 1) : x \in Bare(us[t]))
    BY <1>5, <1>7, <1>8
  <2> QED
    BY <2>1, <2>2, <2>3
<1>12. IsForest(us, tt, n)
  <2>1. AllIds(us, tt) = 1..n
    BY <1>10 DEF IsForest
  <2>2. tt \in Seq(Nodes) /\ GoodTree(tt)
    BY <1>5, <1>6, <1>7
  <2> QED
    BY <1>1, <1>5, <1>9, <2>1, <2>2 DEF IsForest
<1>13. tt # <<>>
  BY <1>5, <1>6, <1>7
<1> QED
  BY <1>2, <1>3, <1>4, <1>5, <1>11, <1>12, <1>13

\* A tree of the list merged into the other.
LEMMA MergedForest ==
  ASSUME NEW ts, NEW tt, NEW n, IsForest(ts, tt, n), NEW s \in 1..Len(ts),
         NEW T, GoodTree(T), NEW m \in Nat, n <= m,
         Ids(T) = Ids(tt) \cup Ids(ts[s]) \cup (n + 1)..m
  PROVE  /\ IsForest(RemoveAt(ts, s), T, m) /\ Len(RemoveAt(ts, s)) = Len(ts) - 1
         /\ \A x \in Bares(RemoveAt(ts, s), T) : x \in Bare(T) \/ x \in Bares(ts, tt)
         /\ \A x \in Bares(ts, tt) :
              x \in Bare(tt) \/ x \in Bare(ts[s]) \/ x \in Bares(RemoveAt(ts, s), T)
         /\ Bare(T) \subseteq Bares(RemoveAt(ts, s), T)
<1>1. ts \in Seq(Seq(Nodes)) /\ n \in Nat /\ T \in Seq(Nodes) /\ T # <<>>
  BY DEF IsForest, GoodTree, Shaped
<1>2. PICK l \in Nat : l = Len(ts)
  BY <1>1
<1>3. PICK us : us = RemoveAt(ts, s)
  OBVIOUS
<1>4. /\ us \in Seq(Seq(Nodes)) /\ Len(us) = l - 1
      /\ \A p \in 1..(l - 1) : us[p] = IF p < s THEN ts[p] ELSE ts[p + 1]
  BY <1>1, <1>2, <1>3, RemoveAtIs
<1>5. \A p \in 1..(l - 1) : \E q \in 1..l : q # s /\ us[p] = ts[q] /\ q = (IF p < s THEN p ELSE p + 1)
  <2> TAKE p \in 1..(l - 1)
  <2>1. CASE p < s
    <3>1. p \in 1..l /\ p # s
      BY <2>1
    <3> QED
      BY <1>4, <2>1, <3>1
  <2>2. CASE ~(p < s)
    <3>1. p + 1 \in 1..l /\ p + 1 # s
      BY <1>2, <2>2
    <3> QED
      BY <1>4, <2>2, <3>1
  <2> QED
    BY <2>1, <2>2
<1>6. \A q \in 1..l : q # s => \E p \in 1..(l - 1) : us[p] = ts[q]
  <2> SUFFICES ASSUME NEW q \in 1..l, q # s PROVE \E p \in 1..(l - 1) : us[p] = ts[q]
    OBVIOUS
  <2>1. CASE q < s
    <3>1. q \in 1..(l - 1)
      BY <1>2, <2>1
    <3> QED
      BY <1>4, <2>1, <3>1
  <2>2. CASE q > s
    <3>1. PICK p \in 1..(l - 1) : q = p + 1 /\ ~(p < s)
      <4>1. q - 1 \in 1..(l - 1) /\ q = (q - 1) + 1 /\ ~(q - 1 < s)
        BY <1>2, <2>2
      <4> QED
        BY <4>1
    <3> QED
      BY <1>4, <3>1
  <2> QED
    BY <1>2, <2>1, <2>2
<1>7. /\ \A t \in 1..l : GoodTree(ts[t]) /\ Ids(ts[t]) \subseteq 1..n /\ Ids(ts[t]) \cap Ids(tt) = {}
      /\ \A t, u \in 1..l : t # u => Ids(ts[t]) \cap Ids(ts[u]) = {}
  <2>1. \A t \in 1..l : GoodTree(ts[t]) /\ Ids(ts[t]) \subseteq 1..n
    BY <1>2, ForestFacts
  <2>2. /\ \A t \in 1..l : Ids(ts[t]) \cap Ids(tt) = {}
        /\ \A t, u \in 1..l : t # u => Ids(ts[t]) \cap Ids(ts[u]) = {}
    BY <1>2 DEF IsForest
  <2> QED
    BY <2>1, <2>2
<1>8. 1..n \cap (n + 1)..m = {} /\ 1..m = 1..n \cup (n + 1)..m
  BY <1>1
<1>9. ASSUME NEW p \in 1..(l - 1) PROVE GoodTree(us[p]) /\ Ids(us[p]) \cap Ids(T) = {}
  <2>1. PICK q \in 1..l : q # s /\ us[p] = ts[q]
    BY <1>5
  <2>2. Ids(ts[q]) \cap Ids(ts[s]) = {}
    BY <1>2, <1>7, <2>1
  <2> QED
    BY <1>7, <1>8, <2>1, <2>2
<1>10. ASSUME NEW p \in 1..(l - 1), NEW o \in 1..(l - 1), p # o
       PROVE  Ids(us[p]) \cap Ids(us[o]) = {}
  <2>1. PICK q \in 1..l : us[p] = ts[q] /\ q = (IF p < s THEN p ELSE p + 1)
    BY <1>5
  <2>2. PICK r \in 1..l : us[o] = ts[r] /\ r = (IF o < s THEN o ELSE o + 1)
    BY <1>5
  <2>3. q # r
    BY <1>10, <2>1, <2>2
  <2> QED
    BY <1>7, <2>1, <2>2, <2>3
<1>11. AllIds(us, T) = 1..m
  <2>1. \A x : x \in 1..n <=> (x \in Ids(tt) \/ \E t \in 1..l : x \in Ids(ts[t]))
    <3>1. AllIds(ts, tt) = 1..n
      BY DEF IsForest
    <3> QED
      BY <1>2, <3>1, InForest
  <2>2. \A x : x \in AllIds(us, T) <=> (x \in Ids(T) \/ \E p \in 1..(l - 1) : x \in Ids(us[p]))
    BY <1>4, InForest
  <2>3. ASSUME NEW x \in AllIds(us, T) PROVE x \in 1..m
    <3>1. CASE x \in Ids(T)
      BY <1>2, <1>8, <2>1, <3>1
    <3>2. CASE \E p \in 1..(l - 1) : x \in Ids(us[p])
      BY <1>5, <1>7, <1>8, <3>2
    <3> QED
      BY <2>2, <2>3, <3>1, <3>2
  <2>4. ASSUME NEW x \in 1..m PROVE x \in AllIds(us, T)
    <3>1. CASE x \in (n + 1)..m
      BY <2>2, <3>1
    <3>2. CASE x \in Ids(tt) \/ x \in Ids(ts[s])
      BY <2>2, <3>2
    <3>3. CASE \E t \in 1..l : t # s /\ x \in Ids(ts[t])
      <4>1. PICK t \in 1..l : t # s /\ x \in Ids(ts[t])
        BY <3>3
      <4>2. PICK p \in 1..(l - 1) : us[p] = ts[t]
        BY <1>6, <4>1
      <4> QED
        BY <2>2, <4>1, <4>2
    <3> QED
      BY <1>2, <1>8, <2>1, <2>4, <3>1, <3>2, <3>3
  <2> QED
    BY <2>3, <2>4
<1>12. IsForest(us, T, m)
  BY <1>1, <1>4, <1>9, <1>10, <1>11 DEF IsForest
<1>13. /\ \A x : x \in Bares(us, T) <=> (x \in Bare(T) \/ \E p \in 1..(l - 1) : x \in Bare(us[p]))
       /\ \A x : x \in Bares(ts, tt) <=> (x \in Bare(tt) \/ \E t \in 1..l : x \in Bare(ts[t]))
  BY <1>2, <1>4, InForest
<1>14. \A x \in Bares(us, T) : x \in Bare(T) \/ x \in Bares(ts, tt)
  BY <1>5, <1>13
<1>15. \A x \in Bares(ts, tt) : x \in Bare(tt) \/ x \in Bare(ts[s]) \/ x \in Bares(us, T)
  <2> SUFFICES ASSUME NEW x \in Bares(ts, tt), x \notin Bare(tt), x \notin Bare(ts[s])
               PROVE  x \in Bares(us, T)
    OBVIOUS
  <2>1. PICK t \in 1..l : t # s /\ x \in Bare(ts[t])
    BY <1>13
  <2>2. PICK p \in 1..(l - 1) : us[p] = ts[t]
    BY <1>6, <2>1
  <2> QED
    BY <1>13, <2>1, <2>2
<1> QED
  BY <1>2, <1>3, <1>4, <1>12, <1>13, <1>14, <1>15

-----------------------------------------------------------------------------
(***************************************************************************)
(* Completing the OIDs.                                                    *)
(***************************************************************************)
LEMMA UpIn ==
  ASSUME NEW tree, GoodTree(tree), NEW i \in 2..Len(tree)
  PROVE  Up(tree, i) \in 1..(i - 1) /\ tree[Up(tree, i)].ident = tree[i].parent
<1>1. Shaped(tree) /\ Linked(tree)
  BY DEF GoodTree
<1>2. PICK j \in 1..(i - 1) : IsUp(tree, i, j) /\ tree[j].ident = tree[i].parent
  BY <1>1 DEF Linked
<1>3. Up(tree, i) = j
  BY <1>1, <1>2, UpIs
<1> QED
  BY <1>2, <1>3

\* A parent is in front of its children: the recursion has a solution.
LEMMA OidSolution ==
  ASSUME NEW tree, GoodTree(tree)
  PROVE  \E oids : oids = [i \in DOMAIN tree |->
           IF i = 1 THEN tree[1].oid ELSE oids[Up(tree, i)] \o <<Suffix(tree, i)>>]
<1>1. PICK l \in Nat : l = Len(tree) /\ DOMAIN tree = 1..l
  BY TreeFacts DEF GoodTree
<1>2. \A i \in 1..l : i # 1 => Up(tree, i) \in 1..l /\ Up(tree, i) < i
  <2> SUFFICES ASSUME NEW i \in 1..l, i # 1 PROVE Up(tree, i) \in 1..l /\ Up(tree, i) < i
    OBVIOUS
  <2>1. i \in 2..Len(tree)
    BY <1>1
  <2>2. PICK j \in 1..(i - 1) : j = Up(tree, i)
    BY <2>1, UpIn
  <2> QED
    BY <1>1, <2>2
<1>3. PICK S : S = {k \in Nat : \E f : \A i \in 1..l : i <= k =>
                      f[i] = IF i = 1 THEN tree[1].oid ELSE f[Up(tree, i)] \o <<Suffix(tree, i)>>}
  OBVIOUS
<1>4. 0 \in S
  <2>1. \A i \in 1..l : ~(i <= 0)
    OBVIOUS
  <2> QED
    BY <1>3, <2>1
<1>5. ASSUME NEW k \in Nat, k \in S PROVE k + 1 \in S
  <2>1. PICK f : \A i \in 1..l : i <= k =>
                   f[i] = IF i = 1 THEN tree[1].oid ELSE f[Up(tree, i)] \o <<Suffix(tree, i)>>
    BY <1>3, <1>5
  <2>2. PICK g : g = [i \in 1..l |->
                   IF i = 1 THEN tree[1].oid ELSE f[Up(tree, i)] \o <<Suffix(tree, i)>>]
    OBVIOUS
  <2>3. \A i \in 1..l : i <= k => g[i] = f[i]
    BY <2>1, <2>2, Zenon
  <2>4. \A i \in 1..l : i # 1 /\ i <= k + 1 => Up(tree, i) <= k
    <3> SUFFICES ASSUME NEW i \in 1..l, i # 1, i <= k + 1 PROVE Up(tree, i) <= k
      OBVIOUS
    <3>1. PICK j \in 1..l : j = Up(tree, i) /\ j < i
      BY <1>2
    <3>2. j <= k
      BY <3>1
    <3> QED
      BY <3>1, <3>2
  <2>5. ASSUME NEW i \in 1..l, i <= k + 1
        PROVE  g[i] = IF i = 1 THEN tree[1].oid ELSE g[Up(tree, i)] \o <<Suffix(tree, i)>>
    <3>1. g[i] = IF i = 1 THEN tree[1].oid ELSE f[Up(tree, i)] \o <<Suffix(tree, i)>>
      BY <2>2, Zenon
    <3>2. i # 1 => g[Up(tree, i)] = f[Up(tree, i)]
      BY <1>2, <2>3, <2>4, <2>5, Zenon
    <3> QED
      BY <3>1, <3>2, Zenon
  <2>6. k + 1 \in Nat
    OBVIOUS
  <2>7. \E h : \A i \in 1..l : i <= k + 1 =>
                 h[i] = IF i = 1 THEN tree[1].oid ELSE h[Up(tree, i)] \o <<Suffix(tree, i)>>
    BY <2>5, Zenon
  <2> QED
    BY <1>3, <2>6, <2>7
<1>6. l \in S
  <2>1. Nat \subseteq S
    BY <1>4, <1>5, Grows
  <2> QED
    BY <2>1
<1>7. PICK f : \A i \in 1..l : i <= l =>
                 f[i] = IF i = 1 THEN tree[1].oid ELSE f[Up(tree, i)] \o <<Suffix(tree, i)>>
  BY <1>3, <1>6
<1>8. \A i \in 1..l :
                 f[i] = IF i = 1 THEN tree[1].oid ELSE f[Up(tree, i)] \o <<Suffix(tree, i)>>
  <2>1. \A i \in 1..l : i <= l
    OBVIOUS
  <2> QED
    BY <1>7, <2>1, Zenon
<1>9. PICK g : g = [i \in 1..l |-> f[i]]
  OBVIOUS
<1>10. g = [i \in 1..l |-> IF i = 1 THEN tree[1].oid ELSE g[Up(tree, i)] \o <<Suffix(tree, i)>>]
  <2>1. \A i \in 1..l :
          f[i] = IF i = 1 THEN tree[1].oid ELSE g[Up(tree, i)] \o <<Suffix(tree, i)>>
    BY <1>2, <1>8, <1>9, Zenon
  <2> QED
    BY <1>9, <2>1, Zenon
<1> QED
  BY <1>1, <1>10, Zenon

\* Completing changes nothing but the OIDs, and a node's OID is its parent's and
\* its suffix.
IsCompleted(T, tree) ==
  /\ T \in Seq(Nodes) /\ Len(T) = Len(tree)
  /\ \A i \in 1..Len(tree) :
       /\ T[i].id = tree[i].id /\ T[i].ident = tree[i].ident /\ T[i].parent = tree[i].parent
       /\ T[i].depth = tree[i].depth /\ T[i].shared = tree[i].shared
  /\ T[1].oid = tree[1].oid
  /\ \A i \in 2..Len(tree) : T[i].oid = T[Up(tree, i)].oid \o <<Suffix(tree, i)>>

LEMMA CompletedIs ==
  ASSUME NEW tree, GoodTree(tree)
  PROVE  IsCompleted(Completed(tree), tree)
<1>1. PICK l \in Nat : l = Len(tree) /\ DOMAIN tree = 1..l /\ l >= 1
  BY TreeFacts DEF GoodTree
<1>2. \A i \in 1..l : tree[i] \in Nodes
  BY <1>1, TreeFacts DEF GoodTree
<1>3. PICK oids :
        /\ oids = [i \in 1..l |->
             IF i = 1 THEN tree[1].oid ELSE oids[Up(tree, i)] \o <<Suffix(tree, i)>>]
        /\ Completed(tree) = [i \in 1..l |-> [tree[i] EXCEPT !.oid = oids[i]]]
  <2>1. PICK f : f = [i \in DOMAIN tree |->
             IF i = 1 THEN tree[1].oid ELSE f[Up(tree, i)] \o <<Suffix(tree, i)>>]
    BY OidSolution, Zenon
  <2>2. PICK g : g = CHOOSE h : h = [i \in DOMAIN tree |->
             IF i = 1 THEN tree[1].oid ELSE h[Up(tree, i)] \o <<Suffix(tree, i)>>]
    OBVIOUS
  <2>3. g = [i \in DOMAIN tree |->
             IF i = 1 THEN tree[1].oid ELSE g[Up(tree, i)] \o <<Suffix(tree, i)>>]
    BY <2>1, <2>2, Zenon
  <2>4. Completed(tree) = [i \in DOMAIN tree |-> [tree[i] EXCEPT !.oid = g[i]]]
    <3>1. Completed(tree) = [i \in DOMAIN tree |-> [tree[i] EXCEPT !.oid =
            (CHOOSE h : h = [k \in DOMAIN tree |->
               IF k = 1 THEN tree[1].oid ELSE h[Up(tree, k)] \o <<Suffix(tree, k)>>])[i]]]
      BY DEF Completed
    <3> QED
      BY <2>2, <3>1
  <2> QED
    BY <1>1, <2>3, <2>4, Zenon
<1>4. \A i \in 1..l : i # 1 => Up(tree, i) \in 1..l /\ Up(tree, i) < i
  <2> SUFFICES ASSUME NEW i \in 1..l, i # 1 PROVE Up(tree, i) \in 1..l /\ Up(tree, i) < i
    OBVIOUS
  <2>1. i \in 2..Len(tree)
    BY <1>1
  <2>2. PICK j \in 1..(i - 1) : j = Up(tree, i)
    BY <2>1, UpIn
  <2> QED
    BY <1>1, <2>2
<1>5. PICK V : V = Seq(Name \cup {JUNK})
  OBVIOUS
<1>6. \A i \in 1..l : tree[i].oid \in V /\ Suffix(tree, i) \in Name \cup {JUNK}
  <2> TAKE i \in 1..l
  <2>1. tree[i].oid \in V /\ tree[i].ident \in Name
    BY <1>2, <1>5 DEF Nodes
  <2> QED
    BY <2>1 DEF Suffix
<1>7. PICK S : S = {k \in Nat : \A i \in 1..l : i <= k => oids[i] \in V}
  OBVIOUS
<1>8. 0 \in S
  <2>1. \A i \in 1..l : ~(i <= 0)
    OBVIOUS
  <2> QED
    BY <1>7, <2>1
<1>9. ASSUME NEW k \in Nat, k \in S PROVE k + 1 \in S
  <2>1. ASSUME NEW i \in 1..l, i <= k + 1 PROVE oids[i] \in V
    <3>1. CASE i = 1
      <4>1. oids[i] = tree[1].oid
        BY <1>3, <3>1, Zenon
      <4> QED
        BY <1>6, <3>1, <4>1
    <3>2. CASE i # 1
      <4>1. PICK j \in 1..l : j = Up(tree, i) /\ j < i
        BY <1>4, <3>2
      <4>2. j <= k
        BY <2>1, <4>1
      <4>3. oids[j] \in V
        BY <1>7, <1>9, <4>2
      <4>4. oids[i] = oids[j] \o <<Suffix(tree, i)>>
        BY <1>3, <3>2, <4>1, Zenon
      <4>5. PICK u \in Name \cup {JUNK} : u = Suffix(tree, i)
        BY <1>6
      <4>6. oids[j] \o <<u>> \in V
        <5>1. <<u>> \in Seq(Name \cup {JUNK})
          OBVIOUS
        <5> QED
          BY <1>5, <4>3, <5>1, ConcatProperties
      <4> QED
        BY <4>4, <4>5, <4>6
    <3> QED
      BY <3>1, <3>2
  <2> QED
    BY <1>7, <2>1
<1>10. \A i \in 1..l : oids[i] \in V
  <2>1. l \in S
    <3>1. Nat \subseteq S
      BY <1>8, <1>9, Grows
    <3> QED
      BY <3>1
  <2> QED
    BY <1>7, <2>1
<1>11. PICK T : T = Completed(tree)
  OBVIOUS
<1>12. ASSUME NEW i \in 1..l
       PROVE  /\ T[i] \in Nodes /\ T[i].oid = oids[i]
              /\ T[i].id = tree[i].id /\ T[i].ident = tree[i].ident
              /\ T[i].parent = tree[i].parent
              /\ T[i].depth = tree[i].depth /\ T[i].shared = tree[i].shared
  <2>1. PICK x \in Nodes : x = tree[i]
    BY <1>2
  <2>2. PICK o \in Seq(Name \cup {JUNK}) : o = oids[i]
    BY <1>5, <1>10
  <2>3. T[i] = [x EXCEPT !.oid = o]
    BY <1>3, <1>11, <2>1, <2>2, Zenon
  <2>4. /\ T[i] \in Nodes /\ T[i].oid = o /\ T[i].id = x.id /\ T[i].ident = x.ident
        /\ T[i].parent = x.parent /\ T[i].depth = x.depth /\ T[i].shared = x.shared
    BY <2>3 DEF Nodes
  <2> QED
    BY <2>1, <2>2, <2>4
<1>13. T \in Seq(Nodes) /\ Len(T) = l
  <2>1. T \in [1..l -> Nodes]
    BY <1>3, <1>11, <1>12
  <2> QED
    BY <2>1
<1>14. T[1].oid = tree[1].oid
  <2>1. 1 \in 1..l
    BY <1>1
  <2>2. oids[1] = tree[1].oid
    BY <1>3, <2>1, Zenon
  <2> QED
    BY <1>12, <2>1, <2>2
<1>15. ASSUME NEW i \in 2..l PROVE T[i].oid = T[Up(tree, i)].oid \o <<Suffix(tree, i)>>
  <2>1. i \in 1..l /\ i # 1
    OBVIOUS
  <2>2. oids[i] = oids[Up(tree, i)] \o <<Suffix(tree, i)>>
    BY <1>3, <2>1, Zenon
  <2> QED
    BY <1>4, <1>12, <2>1, <2>2
<1> QED
  BY <1>1, <1>11, <1>12, <1>13, <1>14, <1>15 DEF IsCompleted

LEMMA CompletedGood ==
  ASSUME NEW tree, GoodTree(tree), NEW T, IsCompleted(T, tree)
  PROVE  /\ GoodTree(T) /\ Ids(T) = Ids(tree)
         /\ \A x \in Bare(tree) : \E y \in Bare(T) : y.id = x.id /\ y.parent = x.parent
<1>1. Len(tree) \in Nat /\ Len(tree) >= 1 /\ Shaped(tree) /\ tree \in Seq(Nodes)
  BY TreeFacts DEF GoodTree, Shaped
<1>2. PICK l \in Nat : l = Len(tree) /\ l >= 1 /\ Len(T) = l
  BY <1>1 DEF IsCompleted
<1>3. \A i \in 1..l :
        /\ T[i].id = tree[i].id /\ T[i].ident = tree[i].ident /\ T[i].parent = tree[i].parent
        /\ T[i].depth = tree[i].depth
  BY <1>2 DEF IsCompleted
<1>4. T \in Seq(Nodes) /\ T # <<>>
  BY <1>2, EmptySeq DEF IsCompleted
<1>5. Shaped(T)
  <2>1. 1 \in 1..l /\ \A i \in 2..l : i \in 1..l /\ i - 1 \in 1..l
    BY <1>2
  <2>2. T[1].depth = 0
    BY <1>1, <1>3, <2>1 DEF Shaped
  <2>3. \A i \in 2..l : T[i].depth \in 1..(T[i - 1].depth + 1)
    BY <1>1, <1>2, <1>3, <2>1 DEF Shaped
  <2> QED
    BY <1>2, <1>4, <2>2, <2>3 DEF Shaped
<1>6. Linked(T)
  <2> SUFFICES ASSUME NEW i \in 2..l
               PROVE  \E j \in 1..(i - 1) : IsUp(T, i, j) /\ T[j].ident = T[i].parent
    BY <1>2 DEF Linked
  <2>1. PICK j \in 1..(i - 1) : IsUp(tree, i, j) /\ tree[j].ident = tree[i].parent
    BY <1>2 DEF GoodTree, Linked
  <2>2. i \in 1..l /\ j \in 1..l /\ \A k \in (j + 1)..(i - 1) : k \in 1..l
    OBVIOUS
  <2>3. IsUp(T, i, j)
    BY <1>3, <2>1, <2>2 DEF IsUp
  <2> QED
    BY <1>3, <2>1, <2>2, <2>3
<1>7. Distinct(T)
  BY <1>2, <1>3 DEF GoodTree, Distinct
<1>8. Ids(T) = Ids(tree)
  <2>1. \A i \in 1..l : T[i].id \in Ids(tree) /\ tree[i].id \in Ids(T)
    BY <1>2, <1>3, Zenon DEF Ids
  <2>2. (\A x \in Ids(T) : x \in Ids(tree)) /\ (\A x \in Ids(tree) : x \in Ids(T))
    BY <1>2, <2>1, Zenon DEF Ids
  <2> QED
    BY <2>2
<1>9. ASSUME NEW x \in Bare(tree)
      PROVE  \E y \in Bare(T) : y.id = x.id /\ y.parent = x.parent
  <2>1. PICK i \in 1..l : x.id = tree[i].id /\ x.parent = tree[i].parent
    BY <1>1, <1>2, BareIds
  <2>2. T[i] \in Nodes
    BY <1>2, <1>4, ElementOfSeq
  <2>3. PICK y : y = [T[i] EXCEPT !.depth = 0]
    OBVIOUS
  <2>4. y \in Bare(T)
    BY <1>2, <2>3 DEF Bare
  <2>5. y.id = T[i].id /\ y.parent = T[i].parent
    BY <2>2, <2>3 DEF Nodes
  <2> QED
    BY <1>3, <2>1, <2>4, <2>5
<1> QED
  BY <1>5, <1>6, <1>7, <1>8, <1>9 DEF GoodTree

-----------------------------------------------------------------------------
(***************************************************************************)
(* The actions.                                                            *)
(***************************************************************************)
LEMMA InvFacts ==
  ASSUME IInv
  PROVE  /\ symTable \in SymbolTables /\ wall \in [DOMAIN symTable -> Nat] /\ built \in Nat
         /\ IsForest(trees, theTree, built) /\ WallTrue /\ OneNode
         /\ Len(trees) \in Nat /\ DOMAIN trees = 1..Len(trees)
<1>1. IsForest(trees, theTree, built)
  BY DEF IInv
<1>2. OneNode
  BY <1>1, ForestFacts DEF OneNode, AllBare
<1>3. trees \in Seq(Seq(Nodes))
  BY <1>1 DEF IsForest
<1>4. Len(trees) \in Nat /\ DOMAIN trees = 1..Len(trees)
  BY <1>3
<1> QED
  BY <1>1, <1>2, <1>4 DEF IInv, Typed

\* The marks stay true if no node is lost.
LEMMA WallStep ==
  ASSUME symTable' = symTable, Marked(wall'),
         \A n \in AllBare : \E m \in AllBare' : m.id = n.id /\ m.parent = n.parent
  PROVE  WallTrue'
<1>1. \A name : Path(name)' = Path(name)
  BY DEF Path
<1>2. ASSUME NEW s \in DOMAIN symTable, wall'[s] # 0
      PROVE  \E m \in AllBare' : m.id = wall'[s] /\ s \in ToSet(Path(m.parent)')
  <2>1. PICK n \in AllBare : n.id = wall'[s] /\ s \in ToSet(Path(n.parent))
    BY <1>2, Zenon DEF Marked
  <2>2. PICK m \in AllBare' : m.id = n.id /\ m.parent = n.parent
    BY <2>1
  <2>3. s \in ToSet(Path(m.parent)')
    BY <1>1, <2>1, <2>2, Zenon
  <2> QED
    BY <2>1, <2>2, <2>3, Zenon
<1>3. \A s \in DOMAIN symTable : wall'[s] # 0 =>
        \E m \in AllBare' : m.id = wall'[s] /\ s \in ToSet(Path(m.parent)')
  BY <1>2
<1> QED
  BY <1>3, Zenon DEF WallTrue

\* A node of the forest after a step was in it before, or stands for a symbol.
Sourced == \A x \in AllBare' : x \in AllBare \/ FromSymbol(x)

LEMMA HeadAppendStep ==
  ASSUME IInv, NEW ident \in Defined, NEW parent \in Name, HeadAppend(ident, parent)
  PROVE  IInv' /\ \A x \in AllBare' : x \in AllBare \/ x.oid = <<x.ident>>
<1>1. /\ symTable \in SymbolTables /\ wall \in [DOMAIN symTable -> Nat] /\ built \in Nat
      /\ IsForest(trees, theTree, built) /\ WallTrue
      /\ Len(trees) \in Nat /\ DOMAIN trees = 1..Len(trees)
  BY InvFacts
<1>2. /\ phase = "read" /\ built' = built + 1
      /\ phase' = phase /\ symTable' = symTable /\ wall' = wall /\ theTree' = theTree
      /\ scan' = scan /\ merged' = merged /\ atEnd' = atEnd
  BY DEF HeadAppend
<1>3. theTree = <<>> /\ scan = 1 /\ merged \in BOOLEAN /\ numOfTree = Len(trees)
  BY <1>2 DEF IInv, Typed
<1>4. PICK node : node = Node(built + 1, ident, parent, FALSE)
  OBVIOUS
<1>5. /\ node \in Nodes /\ node.id = built + 1 /\ node.parent = parent /\ node.depth = 0
      /\ node.oid = <<node.ident>>
  <2>1. PICK k \in Nat : k = built + 1
    BY <1>1
  <2>2. ident \in Name /\ parent \in Name \cup {NULL}
    BY ForestAssumption
  <2>4. PICK b \in BOOLEAN : b = FALSE
    OBVIOUS
  <2>3. LET x == Node(k, ident, parent, b) IN
         /\ x \in Nodes /\ x.id = k /\ x.ident = ident /\ x.parent = parent
         /\ x.depth = 0 /\ x.oid = <<ident>> /\ x.shared = b
    BY <2>2, NodeIs
  <2> QED
    BY <1>4, <2>1, <2>3, <2>4, Zenon
<1>6. PICK at : at = {i \in DOMAIN trees : Has(trees[i], parent)}
  OBVIOUS
<1>7. CASE at = {}
  <2>1. /\ trees' = Append(trees, <<node>>) /\ last' = Len(trees) + 1
        /\ numOfTree' = numOfTree + 1
    BY <1>4, <1>6, <1>7 DEF HeadAppend
  <2>2. /\ IsForest(trees', <<>>, built + 1) /\ Len(trees') = Len(trees) + 1
        /\ AllBare' = AllBare \cup {node}
    BY <1>1, <1>2, <1>3, <1>5, <2>1, NewTree DEF AllBare
  <2>3. WallTrue'
    <3>1. Marked(wall')
      BY <1>1, <1>2 DEF WallTrue, Marked
    <3> QED
      BY <1>2, <2>2, <3>1, WallStep
  <2>4. Typed'
    <3>1. last' \in 0..Len(trees') /\ scan' \in 1..(Len(trees') + 1)
      BY <1>1, <1>2, <1>3, <2>1, <2>2
    <3> QED
      BY <1>1, <1>2, <1>3, <2>1, <2>2, <3>1 DEF Typed
  <2>5. \A x \in AllBare' : x \in AllBare \/ x.oid = <<x.ident>>
    BY <1>5, <2>2
  <2> QED
    BY <1>2, <1>3, <2>2, <2>3, <2>4, <2>5 DEF IInv
<1>8. CASE at # {}
  <2>1. PICK t : t = IF last \in at THEN last ELSE Min(at)
    OBVIOUS
  <2>2. t \in at
    <3>1. at \in SUBSET Nat
      BY <1>1, <1>6
    <3> QED
      BY <1>8, <2>1, <3>1, MinIn
  <2>3. t \in 1..Len(trees) /\ Has(trees[t], parent)
    BY <1>1, <1>6, <2>2
  <2>4. PICK sub : sub = <<node>>
    OBVIOUS
  <2>5. /\ trees' = [trees EXCEPT ![t] = Insert(trees[t], sub, parent)] /\ last' = t
        /\ numOfTree' = numOfTree
    BY <1>4, <1>6, <1>8, <2>1, <2>4 DEF HeadAppend
  <2>6. /\ GoodTree(sub) /\ sub[1] = node /\ Bare(sub) = {node} /\ Ids(sub) = {built + 1}
    BY <1>5, <2>4, NodeGood
  <2>7. GoodTree(trees[t]) /\ Ids(trees[t]) \subseteq 1..built
    BY <1>1, <2>3, ForestFacts
  <2>8. PICK T : T = Insert(trees[t], sub, parent)
    OBVIOUS
  <2>9. Joins(T, trees[t], sub)
    <3>1. Ids(trees[t]) \cap Ids(sub) = {}
      <4>1. built + 1 \notin 1..built
        BY <1>1
      <4> QED
        BY <2>6, <2>7, <4>1
    <3>2. Has(trees[t], sub[1].parent) /\ T = Insert(trees[t], sub, sub[1].parent)
      BY <1>5, <2>3, <2>6, <2>8
    <3> QED
      BY <2>6, <2>7, <3>1, <3>2, InsertGood
  <2>10. PICK m \in Nat : m = built + 1 /\ built <= m
    BY <1>1
  <2>11. GoodTree(T) /\ Ids(T) = Ids(trees[t]) \cup (built + 1)..m
    <3>1. (built + 1)..m = {built + 1}
      BY <1>1, <2>10
    <3> QED
      BY <2>6, <2>9, <3>1 DEF Joins
  <2>12. trees' = [trees EXCEPT ![t] = T] /\ IsForest(trees, <<>>, built)
    BY <1>1, <1>3, <2>5, <2>8
  <2>13. /\ IsForest(trees', <<>>, m) /\ Len(trees') = Len(trees)
         /\ Bare(T) \subseteq Bares(trees', <<>>)
         /\ \A x \in Bares(trees, <<>>) : x \in Bare(trees[t]) \/ x \in Bares(trees', <<>>)
         /\ \A x \in Bares(trees', <<>>) : x \in Bare(T) \/ x \in Bares(trees, <<>>)
    <3>1. PICK us : us = trees'
      OBVIOUS
    <3>2. trees \in Seq(Seq(Nodes)) /\ T \in Seq(Nodes)
      BY <1>1, <2>11 DEF IsForest, GoodTree, Shaped
    <3>3. /\ us \in Seq(Seq(Nodes)) /\ Len(us) = Len(trees) /\ us[t] = T
          /\ \A u \in 1..Len(trees) : u # t => us[u] = trees[u]
      BY <2>3, <2>12, <3>1, <3>2, ExceptSeq
    <3>4. /\ IsForest(us, <<>>, m) /\ Bare(T) \subseteq Bares(us, <<>>)
          /\ \A x \in Bares(trees, <<>>) : x \in Bare(trees[t]) \/ x \in Bares(us, <<>>)
          /\ \A x \in Bares(us, <<>>) : x \in Bare(T) \/ x \in Bares(trees, <<>>)
      BY <2>3, <2>10, <2>11, <2>12, <3>3, GrownTree
    <3> QED
      BY <3>1, <3>3, <3>4
  <2>14. AllBare = Bares(trees, <<>>) /\ AllBare' = Bares(trees', <<>>)
    BY <1>2, <1>3 DEF AllBare
  <2>15. AllBare \subseteq AllBare'
    BY <2>9, <2>13, <2>14 DEF Joins
  <2>16. WallTrue'
    <3>1. Marked(wall')
      BY <1>1, <1>2 DEF WallTrue, Marked
    <3> QED
      BY <1>2, <2>15, <3>1, WallStep
  <2>17. Typed'
    <3>1. last' \in 0..Len(trees') /\ scan' \in 1..(Len(trees') + 1)
      BY <1>1, <1>2, <1>3, <2>3, <2>5, <2>13
    <3> QED
      BY <1>1, <1>2, <1>3, <2>5, <2>10, <2>13, <3>1 DEF Typed
  <2>18. \A x \in AllBare' : x \in AllBare \/ x.oid = <<x.ident>>
    <3>1. Bare(trees[t]) \subseteq AllBare
      BY <1>1, <2>3, ForestFacts DEF AllBare
    <3> QED
      BY <1>5, <2>6, <2>9, <2>13, <2>14, <3>1 DEF Joins
  <2> QED
    BY <1>2, <1>3, <2>10, <2>13, <2>16, <2>17, <2>18 DEF IInv
<1> QED
  BY <1>7, <1>8

LEMMA EndReadingStep ==
  ASSUME IInv, EndReading
  PROVE  IInv' /\ AllBare' = AllBare
<1>1. /\ symTable \in SymbolTables /\ wall \in [DOMAIN symTable -> Nat] /\ built \in Nat
      /\ IsForest(trees, theTree, built) /\ WallTrue
      /\ Len(trees) \in Nat
  BY InvFacts
<1>2. /\ phase = "read" /\ atEnd' = trees
      /\ symTable' = symTable /\ wall' = wall /\ last' = last
      /\ scan' = scan /\ merged' = merged /\ built' = built
  BY DEF EndReading
<1>3. /\ theTree = <<>> /\ scan = 1 /\ merged \in BOOLEAN /\ numOfTree = Len(trees)
      /\ last \in 0..Len(trees)
  BY <1>2 DEF IInv, Typed
<1>4. Marked(wall')
  BY <1>1, <1>2 DEF WallTrue, Marked
<1>5. CASE numOfTree > 0
  <2>1. /\ phase' = "merge" /\ theTree' = Head(trees) /\ trees' = Tail(trees)
        /\ numOfTree' = numOfTree - 1
    BY <1>5 DEF EndReading
  <2>2. trees # <<>> /\ IsForest(trees, <<>>, built)
    BY <1>1, <1>3, <1>5
  <2>3. /\ IsForest(trees', theTree', built') /\ theTree' # <<>> /\ Len(trees') = Len(trees) - 1
        /\ Bares(trees', theTree') = Bares(trees, <<>>)
    BY <1>2, <2>1, <2>2, FirstTaken
  <2>4. AllBare' = AllBare
    BY <1>3, <2>3 DEF AllBare
  <2>5. WallTrue'
    BY <1>2, <1>4, <2>4, WallStep
  <2>6. Typed'
    <3>1. last' \in 0..Len(atEnd') /\ scan' \in 1..(Len(trees') + 1)
      BY <1>1, <1>2, <1>3, <1>5, <2>3
    <3> QED
      BY <1>1, <1>2, <1>3, <2>1, <2>3, <3>1 DEF Typed
  <2> QED
    BY <2>3, <2>4, <2>5, <2>6 DEF IInv
<1>6. CASE ~(numOfTree > 0)
  <2>1. phase' = "done" /\ theTree' = theTree /\ trees' = trees /\ numOfTree' = numOfTree
    BY <1>6 DEF EndReading
  <2>2. AllBare' = AllBare
    BY <2>1 DEF AllBare
  <2>3. WallTrue'
    BY <1>2, <1>4, <2>2, WallStep
  <2>4. Typed'
    <3>1. last' \in 0..Len(atEnd') /\ scan' \in 1..(Len(trees') + 1)
      BY <1>1, <1>2, <1>3, <2>1
    <3> QED
      BY <1>1, <1>2, <1>3, <2>1, <3>1 DEF Typed
  <2>5. IsForest(trees', theTree', built')
    BY <1>1, <1>2, <2>1
  <2> QED
    BY <2>2, <2>3, <2>4, <2>5 DEF IInv
<1> QED
  BY <1>5, <1>6

\* A merge of the tree that the scan has reached.
LEMMA JoinedStep ==
  ASSUME IInv, phase = "merge", scan \in DOMAIN trees, NEW T, Merges(T, theTree, trees[scan]),
         theTree' = T, trees' = RemoveAt(trees, scan), numOfTree' = numOfTree - 1,
         merged' = TRUE, built' = built + (Len(T) - Len(theTree) - Len(trees[scan])),
         scan' = scan, Marked(wall'), wall' \in [DOMAIN symTable -> Nat],
         UNCHANGED <<phase, symTable, last, atEnd>>
  PROVE  IInv' /\ Sourced
<1>1. /\ symTable \in SymbolTables /\ built \in Nat
      /\ IsForest(trees, theTree, built)
      /\ Len(trees) \in Nat /\ DOMAIN trees = 1..Len(trees)
  BY InvFacts
<1>2. numOfTree = Len(trees) /\ last \in 0..Len(atEnd) /\ theTree # <<>>
  BY DEF IInv, Typed
<1>3. PICK k \in Nat : k = Len(T) - Len(theTree) - Len(trees[scan])
  BY DEF Merges
<1>4. PICK m \in Nat : m = built + k /\ built <= m /\ m = built'
  <2>1. built + k \in Nat /\ built <= built + k /\ built + k = built'
    BY <1>1, <1>3
  <2> QED
    BY <2>1
<1>5. /\ GoodTree(T) /\ Ids(T) = Ids(theTree) \cup Ids(trees[scan]) \cup (built + 1)..m
      /\ Bare(theTree) \subseteq Bare(T) /\ Bare(trees[scan]) \subseteq Bare(T)
  BY <1>3, <1>4 DEF Merges
<1>6. PICK s \in 1..Len(trees) : s = scan
  BY <1>1
<1>7. /\ IsForest(trees', T, m) /\ Len(trees') = Len(trees) - 1
      /\ \A x \in Bares(trees, theTree) :
           x \in Bare(theTree) \/ x \in Bare(trees[s]) \/ x \in Bares(trees', T)
      /\ Bare(T) \subseteq Bares(trees', T)
      /\ \A x \in Bares(trees', T) : x \in Bare(T) \/ x \in Bares(trees, theTree)
  <2>1. /\ IsForest(RemoveAt(trees, s), T, m) /\ Len(RemoveAt(trees, s)) = Len(trees) - 1
        /\ \A x \in Bares(RemoveAt(trees, s), T) : x \in Bare(T) \/ x \in Bares(trees, theTree)
        /\ \A x \in Bares(trees, theTree) :
             x \in Bare(theTree) \/ x \in Bare(trees[s]) \/ x \in Bares(RemoveAt(trees, s), T)
        /\ Bare(T) \subseteq Bares(RemoveAt(trees, s), T)
    <3>1. Ids(T) = Ids(theTree) \cup Ids(trees[s]) \cup (built + 1)..m /\ GoodTree(T) /\ built <= m
      BY <1>4, <1>5, <1>6
    <3>2. IsForest(trees, theTree, built)
      BY <1>1
    <3> QED
      BY <3>1, <3>2, MergedForest
  <2>2. trees' = RemoveAt(trees, s)
    BY <1>6
  <2> QED
    BY <2>1, <2>2
<1>8. AllBare \subseteq AllBare'
  BY <1>5, <1>6, <1>7 DEF AllBare
<1>9. WallTrue'
  BY <1>8, WallStep
<1>10. Typed'
  <2>1. scan' \in 1..(Len(trees') + 1) /\ T # <<>>
    BY <1>1, <1>5, <1>6, <1>7 DEF GoodTree, Shaped
  <2> QED
    BY <1>1, <1>2, <1>4, <1>7, <2>1 DEF Typed
<1>11. Sourced
  <2>1. \A x \in Bare(T) : x \in Bare(theTree) \cup Bare(trees[scan]) \/ FromSymbol(x)
    BY DEF Merges
  <2>2. Bare(theTree) \subseteq AllBare /\ Bare(trees[scan]) \subseteq AllBare
    BY <1>1, <1>6, ForestFacts DEF AllBare
  <2> QED
    BY <1>6, <1>7, <2>1, <2>2 DEF Sourced, AllBare
<1> QED
  BY <1>4, <1>7, <1>9, <1>10, <1>11 DEF IInv

LEMMA MergeNextStep ==
  ASSUME IInv, MergeNext
  PROVE  IInv' /\ Sourced
<1>1. /\ symTable \in SymbolTables /\ wall \in [DOMAIN symTable -> Nat] /\ built \in Nat
      /\ IsForest(trees, theTree, built) /\ WallTrue /\ OneNode
      /\ Len(trees) \in Nat /\ DOMAIN trees = 1..Len(trees)
  BY InvFacts
<1>2. PICK r : r = trees[scan]
  OBVIOUS
<1>3. /\ phase = "merge" /\ scan \in DOMAIN trees
      /\ UNCHANGED <<phase, symTable, last, atEnd>>
  BY DEF MergeNext
<1>4. PICK s \in 1..Len(trees) : s = scan
  BY <1>1, <1>3
<1>5. theTree # <<>> /\ GoodTree(theTree)
  BY <1>1, <1>3 DEF IInv, Typed, IsForest
<1>6. /\ GoodTree(r) /\ Ids(r) \subseteq 1..built /\ Ids(theTree) \subseteq 1..built
      /\ Bare(r) \subseteq AllBare /\ Bare(theTree) \subseteq AllBare
  BY <1>1, <1>2, <1>4, ForestFacts DEF AllBare
<1>7. Ids(theTree) \cap Ids(r) = {} /\ Ids(r) \cap Ids(theTree) = {}
  BY <1>1, <1>2, <1>4 DEF IsForest
<1>8. Marked(wall)
  BY <1>1 DEF WallTrue, Marked
<1>9. CASE /\ Has(theTree, r[1].parent) /\ UNCHANGED wall
           /\ LET T == Insert(theTree, r, r[1].parent) IN
                /\ theTree' = T /\ trees' = RemoveAt(trees, scan)
                /\ numOfTree' = numOfTree - 1 /\ merged' = TRUE
                /\ built' = built + (Len(T) - Len(theTree) - Len(r))
                /\ UNCHANGED scan
  <2>1. PICK T : T = Insert(theTree, r, r[1].parent)
    OBVIOUS
  <2>2. Merges(T, theTree, trees[scan])
    BY <1>1, <1>2, <1>5, <1>6, <1>7, <1>9, <2>1, InsertMerges
  <2>3. /\ theTree' = T /\ trees' = RemoveAt(trees, scan) /\ numOfTree' = numOfTree - 1
        /\ merged' = TRUE /\ scan' = scan /\ wall' = wall
        /\ built' = built + (Len(T) - Len(theTree) - Len(trees[scan]))
    BY <1>2, <1>9, <2>1
  <2>4. Marked(wall') /\ wall' \in [DOMAIN symTable -> Nat]
    BY <1>1, <1>8, <2>3
  <2> QED
    BY <1>3, <2>2, <2>3, <2>4, JoinedStep
<1>10. CASE /\ Has(r, theTree[1].parent) /\ UNCHANGED wall
            /\ LET T == Insert(r, theTree, theTree[1].parent) IN
                 /\ theTree' = T /\ trees' = RemoveAt(trees, scan)
                 /\ numOfTree' = numOfTree - 1 /\ merged' = TRUE
                 /\ built' = built + (Len(T) - Len(theTree) - Len(r))
                 /\ UNCHANGED scan
  <2>1. PICK T : T = Insert(r, theTree, theTree[1].parent)
    OBVIOUS
  <2>2. Merges(T, theTree, trees[scan])
    BY <1>1, <1>2, <1>5, <1>6, <1>7, <1>10, <2>1, InsertMerges
  <2>3. /\ theTree' = T /\ trees' = RemoveAt(trees, scan) /\ numOfTree' = numOfTree - 1
        /\ merged' = TRUE /\ scan' = scan /\ wall' = wall
        /\ built' = built + (Len(T) - Len(theTree) - Len(trees[scan]))
    BY <1>2, <1>10, <2>1
  <2>4. Marked(wall') /\ wall' \in [DOMAIN symTable -> Nat]
    BY <1>1, <1>8, <2>3
  <2> QED
    BY <1>3, <2>2, <2>3, <2>4, JoinedStep
<1>11. PICK ac : ac = AncestorCommon(theTree, r)
  OBVIOUS
<1>12. /\ ac.wall \in [DOMAIN symTable -> Nat] /\ Marked(ac.wall)
       /\ ac.symbol # NULL => /\ ac.symbol \in ToSet(Path(theTree[1].parent))
                              /\ ac.symbol \in ToSet(Path(r[1].parent))
  <2>1. theTree[1].id # 0 /\ r[1].id # 0
    <3>1. theTree[1].id \in 1..built /\ r[1].id \in 1..built
      BY <1>5, <1>6, RootIs
    <3> QED
      BY <1>1, <3>1
  <2> QED
    BY <1>1, <1>5, <1>6, <1>11, <2>1, AncestorCommonIs
<1>13. CASE /\ wall' = ac.wall /\ ac.symbol # NULL
            /\ LET T == MergeByComplete(theTree, r, ac.symbol) IN
                 /\ theTree' = T /\ trees' = RemoveAt(trees, scan)
                 /\ numOfTree' = numOfTree - 1 /\ merged' = TRUE
                 /\ built' = built + (Len(T) - Len(theTree) - Len(r))
                 /\ UNCHANGED scan
  <2>1. PICK sym : sym = ac.symbol
    OBVIOUS
  <2>2. PICK T : T = MergeByComplete(theTree, r, sym)
    OBVIOUS
  <2>3. sym \in ToSet(Path(theTree[1].parent)) /\ sym \in ToSet(Path(r[1].parent))
    BY <1>12, <1>13, <2>1
  <2>4. Merges(T, theTree, trees[scan])
    BY <1>1, <1>2, <1>5, <1>6, <1>7, <2>2, <2>3, MergeByCompleteIs
  <2>5. /\ theTree' = T /\ trees' = RemoveAt(trees, scan) /\ numOfTree' = numOfTree - 1
        /\ merged' = TRUE /\ scan' = scan /\ wall' = ac.wall
        /\ built' = built + (Len(T) - Len(theTree) - Len(trees[scan]))
    BY <1>2, <1>13, <2>1, <2>2
  <2>6. Marked(wall') /\ wall' \in [DOMAIN symTable -> Nat]
    BY <1>12, <2>5
  <2> QED
    BY <1>3, <2>4, <2>5, <2>6, JoinedStep
<1>14. CASE /\ wall' = ac.wall /\ scan' = scan + 1
            /\ UNCHANGED <<theTree, trees, numOfTree, merged, built>>
  <2>1. Marked(wall') /\ AllBare' = AllBare
    BY <1>12, <1>14 DEF AllBare
  <2>2. WallTrue'
    BY <1>3, <2>1, WallStep
  <2>3. Typed'
    <3>1. scan' \in 1..(Len(trees') + 1)
      BY <1>1, <1>4, <1>14
    <3>2. /\ merged \in BOOLEAN /\ numOfTree = Len(trees) /\ last \in 0..Len(atEnd)
      BY <1>3 DEF IInv, Typed
    <3> QED
      BY <1>1, <1>3, <1>5, <1>12, <1>14, <3>1, <3>2 DEF Typed
  <2>4. IsForest(trees', theTree', built')
    BY <1>1, <1>14
  <2> QED
    BY <2>1, <2>2, <2>3, <2>4 DEF IInv, Sourced
<1> QED
  BY <1>2, <1>9, <1>10, <1>11, <1>13, <1>14 DEF MergeNext, Without

LEMMA EndScanStep ==
  ASSUME IInv, EndScan
  PROVE  IInv' /\ AllBare' = AllBare
<1>1. /\ symTable \in SymbolTables /\ wall \in [DOMAIN symTable -> Nat] /\ built \in Nat
      /\ IsForest(trees, theTree, built) /\ WallTrue
      /\ Len(trees) \in Nat
  BY InvFacts
<1>2. /\ phase = "merge" /\ UNCHANGED <<symTable, wall, last, built, atEnd>>
  BY DEF EndScan
<1>3. /\ theTree # <<>> /\ merged \in BOOLEAN /\ numOfTree = Len(trees)
      /\ last \in 0..Len(atEnd) /\ scan \in 1..(Len(trees) + 1)
  BY <1>2 DEF IInv, Typed
<1>4. Marked(wall')
  BY <1>1, <1>2 DEF WallTrue, Marked
<1>5. CASE merged
  <2>1. scan' = 1 /\ merged' = FALSE /\ UNCHANGED <<phase, trees, theTree, numOfTree>>
    BY <1>5 DEF EndScan
  <2>2. AllBare' = AllBare
    BY <2>1 DEF AllBare
  <2>3. WallTrue'
    BY <1>2, <1>4, <2>2, WallStep
  <2>4. Typed'
    <3>1. scan' \in 1..(Len(trees') + 1)
      BY <1>1, <2>1
    <3> QED
      BY <1>1, <1>2, <1>3, <2>1, <3>1 DEF Typed
  <2>5. IsForest(trees', theTree', built')
    BY <1>1, <1>2, <2>1
  <2> QED
    BY <2>2, <2>3, <2>4, <2>5 DEF IInv
<1>6. CASE ~merged
  <2>1. /\ trees' = Append(trees, theTree) /\ theTree' = <<>> /\ numOfTree' = numOfTree + 1
        /\ phase' = "complete" /\ scan' = scan /\ merged' = merged
    BY <1>6 DEF EndScan
  <2>2. /\ IsForest(trees', theTree', built') /\ Len(trees') = Len(trees) + 1
        /\ Bares(trees', theTree') = Bares(trees, theTree)
    BY <1>1, <1>2, <1>3, <2>1, PutBack
  <2>3. AllBare' = AllBare
    BY <2>2 DEF AllBare
  <2>4. WallTrue'
    BY <1>2, <1>4, <2>3, WallStep
  <2>5. Typed'
    <3>1. scan' \in 1..(Len(trees') + 1) /\ trees' # <<>>
      <4>1. Len(trees') # 0
        BY <1>1, <2>2
      <4> QED
        BY <1>1, <1>3, <2>1, <2>2, <4>1, EmptySeq
    <3> QED
      BY <1>1, <1>2, <1>3, <2>1, <2>2, <3>1 DEF Typed
  <2> QED
    BY <2>2, <2>3, <2>4, <2>5 DEF IInv
<1> QED
  BY <1>5, <1>6

\* One tree is left, and it becomes T.
LEMMA OneTreeStep ==
  ASSUME IInv, phase # "read", theTree = <<>>, theTree' = <<>>, Len(trees) = 1, NEW T, GoodTree(T),
         trees' = <<T>>, NEW m \in Nat, built <= m, built' = m,
         Ids(T) = Ids(trees[1]) \cup (built + 1)..m,
         \A x \in Bare(trees[1]) : \E y \in Bare(T) : y.id = x.id /\ y.parent = x.parent,
         phase' \in {"oid", "done"},
         UNCHANGED <<symTable, wall, last, numOfTree, scan, merged, atEnd>>
  PROVE  IInv' /\ AllBare = Bare(trees[1]) /\ AllBare' = Bare(T)
<1>1. /\ symTable \in SymbolTables /\ wall \in [DOMAIN symTable -> Nat] /\ built \in Nat
      /\ IsForest(trees, theTree, built) /\ WallTrue
      /\ Len(trees) \in Nat
  BY InvFacts
<1>2. /\ merged \in BOOLEAN /\ numOfTree = Len(trees) /\ scan \in 1..(Len(trees) + 1)
      /\ last \in 0..Len(atEnd)
  BY DEF IInv, Typed
<1>3. PICK us : us = <<T>>
  OBVIOUS
<1>4. us \in Seq(Seq(Nodes)) /\ Len(us) = 1 /\ us[1] = T
  <2>1. T \in Seq(Nodes)
    BY DEF GoodTree, Shaped
  <2> QED
    BY <1>3, <2>1
<1>5. 1..1 = {1} /\ 1 \in 1..Len(trees) /\ IsForest(trees, <<>>, built)
  BY <1>1
<1>6. IsForest(us, <<>>, m)
  <2>1. Len(us) = Len(trees) /\ \A u \in 1..Len(trees) : u # 1 => us[u] = trees[u]
    BY <1>4, <1>5
  <2> QED
    BY <1>4, <1>5, <2>1, GrownTree
<1>7. Bares(us, <<>>) = Bare(T) /\ Bares(trees, <<>>) = Bare(trees[1])
  <2>1. \A x : x \in Bares(us, <<>>) <=> \E t \in 1..Len(us) : x \in Bare(us[t])
    BY InForest, NoTree
  <2>2. \A x : x \in Bares(trees, <<>>) <=> \E t \in 1..Len(trees) : x \in Bare(trees[t])
    BY InForest, NoTree
  <2>3. 1..Len(us) = {1} /\ 1..Len(trees) = {1}
    BY <1>4, <1>5
  <2> QED
    BY <1>4, <2>1, <2>2, <2>3
<1>8. AllBare = Bare(trees[1]) /\ AllBare' = Bare(T)
  BY <1>3, <1>7 DEF AllBare
<1>9. Marked(wall')
  BY <1>1 DEF WallTrue, Marked
<1>10. WallTrue'
  BY <1>8, <1>9, WallStep
<1>11. Typed'
  <2>1. Len(trees') = 1 /\ Len(trees') = Len(trees) /\ scan' \in 1..(Len(trees') + 1)
    BY <1>2, <1>3, <1>4
  <2>2. built' \in Nat /\ theTree' = <<>>
    OBVIOUS
  <2> QED
    BY <1>1, <1>2, <2>1, <2>2 DEF Typed
<1>12. IsForest(trees', theTree', built')
  BY <1>3, <1>6
<1> QED
  BY <1>8, <1>10, <1>11, <1>12 DEF IInv

\* The one tree gets all the symbols above its root on top.
RaisedToTop ==
  /\ Len(trees) = 1 /\ AllBare = Bare(trees[1])
  /\ \E T : Raised(T, trees[1], Path(trees[1][1].parent), built) /\ AllBare' = Bare(T)

LEMMA HeadCompleteStep ==
  ASSUME IInv, HeadComplete
  PROVE  /\ IInv' /\ Sourced
         /\ phase' = "oid" => trees'[1][1].parent \notin DOMAIN symTable
         /\ phase' # "done"
         /\ AllBare' = AllBare \/ (RaisedToTop /\ phase' = "oid")
<1>1. /\ symTable \in SymbolTables /\ wall \in [DOMAIN symTable -> Nat] /\ built \in Nat
      /\ IsForest(trees, theTree, built) /\ WallTrue
      /\ Len(trees) \in Nat
  BY InvFacts
<1>2. /\ phase = "complete"
      /\ UNCHANGED <<symTable, wall, last, numOfTree, theTree, scan, merged, atEnd>>
  BY DEF HeadComplete
<1>3. /\ theTree = <<>> /\ trees # <<>> /\ merged \in BOOLEAN /\ numOfTree = Len(trees)
      /\ last \in 0..Len(atEnd) /\ scan \in 1..(Len(trees) + 1)
  BY <1>2 DEF IInv, Typed
<1>4. PICK path : path = Path(trees[1][1].parent)
  OBVIOUS
<1>5. CASE phase' \in {"aborted", "crashed"} /\ UNCHANGED <<trees, built>>
  <2>1. Marked(wall') /\ AllBare' = AllBare
    BY <1>1, <1>2, <1>5 DEF WallTrue, Marked, AllBare
  <2>2. WallTrue'
    BY <1>2, <2>1, WallStep
  <2>3. Typed'
    BY <1>1, <1>2, <1>3, <1>5 DEF Typed
  <2>4. IsForest(trees', theTree', built')
    BY <1>1, <1>2, <1>5
  <2> QED
    BY <1>5, <2>1, <2>2, <2>3, <2>4 DEF IInv, Sourced
<1>6. CASE /\ numOfTree = 1 /\ phase' = "oid" /\ built' = built + Len(path)
           /\ trees' = <<Line(path, built, FALSE) \o Deepened(trees[1], Len(path))>>
  <2>1. Len(trees) = 1 /\ 1 \in 1..Len(trees)
    BY <1>3, <1>6
  <2>2. PICK tree : tree = trees[1]
    OBVIOUS
  <2>3. GoodTree(tree) /\ Ids(tree) \subseteq 1..built
    BY <1>1, <2>1, <2>2, ForestFacts
  <2>4. IsPath(path, tree[1].parent)
    BY <1>1, <1>4, <2>2, <2>3, RootIs, PathIs
  <2>5. IsClimb(path) /\ (path # <<>> => path[1] = tree[1].parent)
    BY <2>4 DEF IsPath, IsClimb
  <2>6. PICK k \in Nat : k = Len(path)
    BY <2>5 DEF IsClimb
  <2>7. PICK m \in Nat : m = built + k /\ built <= m
    <3>1. built + k \in Nat /\ built <= built + k
      BY <1>1
    <3> QED
      BY <3>1
  <2>8. Ids(tree) \cap (built + 1)..(built + Len(path)) = {}
    <3>1. 1..built \cap (built + 1)..(built + k) = {}
      BY <1>1
    <3> QED
      BY <2>3, <2>6, <3>1
  <2>9. PICK b \in BOOLEAN : b = FALSE
    OBVIOUS
  <2>10. PICK T : T = Line(path, built, b) \o Deepened(tree, Len(path))
    OBVIOUS
  <2>11. Raised(T, tree, path, built)
    BY <1>1, <2>3, <2>5, <2>8, <2>10, RaisedIs
  <2>12. trees' = <<T>> /\ built' = m
    BY <1>6, <2>2, <2>6, <2>7, <2>9, <2>10
  <2>13. /\ GoodTree(T) /\ Ids(T) = Ids(trees[1]) \cup (built + 1)..m
         /\ \A x \in Bare(trees[1]) : \E y \in Bare(T) : y.id = x.id /\ y.parent = x.parent
    BY <2>2, <2>6, <2>7, <2>11 DEF Raised
  <2>14. /\ phase # "read" /\ phase' \in {"oid", "done"} /\ theTree' = <<>>
         /\ UNCHANGED <<symTable, wall, last, numOfTree, scan, merged, atEnd>>
    BY <1>2, <1>3, <1>6
  <2>15. IInv' /\ AllBare = Bare(trees[1]) /\ AllBare' = Bare(T)
    BY <1>3, <2>1, <2>7, <2>12, <2>13, <2>14, OneTreeStep
  <2>16. Sourced
    BY <2>2, <2>11, <2>15 DEF Raised, Sourced
  <2>17. T[1].parent \notin DOMAIN symTable
    BY <2>4, <2>11 DEF Raised, IsPath
  <2>18. trees'[1][1].parent \notin DOMAIN symTable
    <3>1. <<T>>[1] = T
      OBVIOUS
    <3> QED
      BY <2>12, <2>17, <3>1, Zenon
  <2>19. phase' # "done" /\ phase' = "oid"
    BY <1>6
  <2>20. RaisedToTop
    BY <1>4, <2>1, <2>2, <2>11, <2>15 DEF RaisedToTop
  <2> QED
    BY <2>15, <2>16, <2>18, <2>19, <2>20, Zenon
<1> QED
  BY <1>4, <1>5, <1>6 DEF HeadComplete

LEMMA OidCompleteStep ==
  ASSUME IInv, OidComplete
  PROVE  IInv'
<1>1. /\ symTable \in SymbolTables /\ wall \in [DOMAIN symTable -> Nat] /\ built \in Nat
      /\ IsForest(trees, theTree, built) /\ WallTrue
  BY InvFacts
<1>2. /\ phase = "oid"
      /\ UNCHANGED <<symTable, wall, last, numOfTree, theTree, scan, merged, built, atEnd>>
  BY DEF OidComplete
<1>3. /\ theTree = <<>> /\ Len(trees) = 1 /\ merged \in BOOLEAN /\ numOfTree = Len(trees)
      /\ last \in 0..Len(atEnd) /\ scan \in 1..(Len(trees) + 1)
  BY <1>2 DEF IInv, Typed
<1>4. CASE trees' = <<Completed(trees[1])>> /\ phase' = "done"
  <2>1. GoodTree(trees[1])
    <3>1. 1 \in 1..Len(trees)
      BY <1>3
    <3> QED
      BY <1>1, <3>1, ForestFacts
  <2>2. PICK T : T = Completed(trees[1])
    OBVIOUS
  <2>3. IsCompleted(T, trees[1])
    BY <2>1, <2>2, CompletedIs
  <2>4. /\ GoodTree(T) /\ Ids(T) = Ids(trees[1])
        /\ \A x \in Bare(trees[1]) : \E y \in Bare(T) : y.id = x.id /\ y.parent = x.parent
    BY <2>1, <2>3, CompletedGood
  <2>5. PICK m \in Nat : m = built /\ built <= m
    BY <1>1
  <2>6. Ids(T) = Ids(trees[1]) \cup (built + 1)..m
    <3>1. (built + 1)..m = {}
      BY <1>1, <2>5
    <3> QED
      BY <2>4, <3>1
  <2>7. /\ phase # "read" /\ phase' \in {"oid", "done"} /\ theTree' = <<>>
        /\ trees' = <<T>> /\ built' = m
        /\ UNCHANGED <<symTable, wall, last, numOfTree, scan, merged, atEnd>>
    BY <1>2, <1>3, <1>4, <2>2, <2>5
  <2> QED
    BY <1>3, <2>4, <2>5, <2>6, <2>7, OneTreeStep
<1>5. CASE phase' = "crashed" /\ UNCHANGED trees
  <2>1. Marked(wall') /\ AllBare' = AllBare
    BY <1>1, <1>2, <1>5 DEF WallTrue, Marked, AllBare
  <2>2. WallTrue'
    BY <1>2, <2>1, WallStep
  <2>3. Typed'
    BY <1>1, <1>2, <1>3, <1>5 DEF Typed
  <2>4. IsForest(trees', theTree', built')
    BY <1>1, <1>2, <1>5
  <2> QED
    BY <2>2, <2>3, <2>4 DEF IInv
<1> QED
  BY <1>4, <1>5 DEF OidComplete

LEMMA StutterStep ==
  ASSUME IInv, UNCHANGED vars
  PROVE  IInv'
<1>1. AllBare' = AllBare /\ \A name : Path(name)' = Path(name)
  BY DEF vars, AllBare, Path
<1>2. WallTrue'
  <2>1. Marked(wall')
    BY DEF IInv, WallTrue, Marked, vars
  <2> QED
    BY <1>1, <2>1, WallStep DEF vars
<1>3. Typed'
  BY DEF IInv, Typed, vars
<1>4. IsForest(trees', theTree', built')
  BY DEF IInv, vars
<1> QED
  BY <1>2, <1>3, <1>4 DEF IInv

LEMMA InitInv == Init => IInv
<1> SUFFICES ASSUME Init PROVE IInv
  OBVIOUS
<1>1. trees = <<>> /\ theTree = <<>> /\ built = 0
  BY DEF Init
<1>2. Typed
  <2>1. Len(trees) = 0 /\ Len(atEnd) = 0
    BY DEF Init
  <2>2. wall \in [DOMAIN symTable -> Nat]
    BY DEF Init
  <2>3. /\ phase = "read" /\ symTable \in SymbolTables /\ last = 0 /\ numOfTree = 0
        /\ scan = 1 /\ merged = FALSE /\ built = 0 /\ trees = <<>> /\ theTree = <<>>
    BY DEF Init
  <2>4. last \in 0..(IF phase = "read" THEN Len(trees) ELSE Len(atEnd)) /\ scan \in 1..(Len(trees) + 1)
    BY <2>1, <2>3
  <2> QED
    BY <2>1, <2>2, <2>3, <2>4 DEF Typed
<1>3. IsForest(trees, theTree, built)
  <2>1. 1..Len(<<>>) = {} /\ 1..0 = {} /\ <<>> \in Seq(Seq(Nodes))
    OBVIOUS
  <2>2. AllIds(<<>>, <<>>) = {}
    BY <2>1, InForest, NoTree
  <2>3. IsForest(<<>>, <<>>, 0)
    BY <2>1, <2>2, NoTree DEF IsForest
  <2> QED
    BY <1>1, <2>3
<1>4. WallTrue
  BY DEF Init, WallTrue
<1> QED
  BY <1>2, <1>3, <1>4 DEF IInv

LEMMA NextInv == IInv /\ [Next]_vars => IInv'
<1> SUFFICES ASSUME IInv, [Next]_vars PROVE IInv'
  OBVIOUS
<1>1. CASE \E ident \in Defined, parent \in Name : HeadAppend(ident, parent)
  BY <1>1, HeadAppendStep
<1>2. CASE EndReading
  BY <1>2, EndReadingStep
<1>3. CASE MergeNext
  BY <1>3, MergeNextStep
<1>4. CASE EndScan
  BY <1>4, EndScanStep
<1>5. CASE HeadComplete
  BY <1>5, HeadCompleteStep
<1>6. CASE OidComplete
  BY <1>6, OidCompleteStep
<1>7. CASE UNCHANGED vars
  BY <1>7, StutterStep
<1> QED
  BY <1>1, <1>2, <1>3, <1>4, <1>5, <1>6, <1>7 DEF Next

LEMMA Invariant == Spec => []IInv
<1>1. Init => IInv
  BY InitInv
<1>2. IInv /\ [Next]_vars => IInv'
  BY NextInv
<1> QED
  BY <1>1, <1>2, PTL DEF Spec

-----------------------------------------------------------------------------
(***************************************************************************)
(* What the invariant says of the forest.                                  *)
(***************************************************************************)
LEMMA ForestIs ==
  ASSUME IInv
  PROVE  /\ Forest \in Seq(Seq(Nodes)) /\ DOMAIN Forest = 1..Len(Forest)
         /\ \A t \in DOMAIN Forest : GoodTree(Forest[t]) /\ Ids(Forest[t]) \subseteq 1..built
         /\ \A t \in DOMAIN Forest : Bare(Forest[t]) \subseteq AllBare
         /\ \A t, u \in DOMAIN Forest : t # u => Ids(Forest[t]) \cap Ids(Forest[u]) = {}
         /\ \A id \in 1..built : \E t \in DOMAIN Forest : id \in Ids(Forest[t])
<1>1. IsForest(trees, theTree, built)
  BY InvFacts
<1>2. AllIds(trees, theTree) = 1..built
  BY <1>1 DEF IsForest
<1>3. CASE theTree = <<>>
  <2>1. trees \in Seq(Seq(Nodes)) /\ Forest = trees /\ DOMAIN trees = 1..Len(trees)
    <3>1. trees \in Seq(Seq(Nodes))
      BY <1>1 DEF IsForest
    <3>2. trees \o <<>> = trees
      BY <3>1, ConcatEmptySeq
    <3> QED
      BY <1>3, <3>1, <3>2 DEF Forest
  <2>2. \A t \in 1..Len(trees) : /\ GoodTree(trees[t]) /\ Ids(trees[t]) \subseteq 1..built
                                 /\ Bare(trees[t]) \subseteq AllBare
    BY <1>1, ForestFacts DEF AllBare
  <2>3. \A t, u \in 1..Len(trees) : t # u => Ids(trees[t]) \cap Ids(trees[u]) = {}
    BY <1>1 DEF IsForest
  <2>4. \A x : x \in AllIds(trees, theTree) <=> \E t \in 1..Len(trees) : x \in Ids(trees[t])
    BY <1>3, InForest, NoTree
  <2> QED
    BY <1>2, <2>1, <2>2, <2>3, <2>4
<1>4. CASE theTree # <<>>
  <2>1. PICK us : us = Append(trees, theTree)
    OBVIOUS
  <2>2. IsForest(us, <<>>, built) /\ Bares(us, <<>>) = AllBare
    BY <1>1, <1>4, <2>1, PutBack DEF AllBare
  <2>3. us \in Seq(Seq(Nodes)) /\ DOMAIN us = 1..Len(us)
    <3>1. us \in Seq(Seq(Nodes))
      BY <2>2 DEF IsForest
    <3> QED
      BY <3>1
  <2>4. Forest = us
    <3>1. trees \in Seq(Seq(Nodes)) /\ theTree \in Seq(Nodes)
      BY <1>1 DEF IsForest
    <3>2. Append(trees, theTree) = trees \o <<theTree>>
      BY <3>1, AppendIsConcat
    <3> QED
      BY <1>4, <2>1, <3>2 DEF Forest
  <2>5. \A t \in 1..Len(us) : /\ GoodTree(us[t]) /\ Ids(us[t]) \subseteq 1..built
                              /\ Bare(us[t]) \subseteq AllBare
    BY <2>2, ForestFacts
  <2>6. \A t, u \in 1..Len(us) : t # u => Ids(us[t]) \cap Ids(us[u]) = {}
    BY <2>2 DEF IsForest
  <2>7. \A x : x \in 1..built <=> \E t \in 1..Len(us) : x \in Ids(us[t])
    <3>1. AllIds(us, <<>>) = 1..built
      BY <2>2 DEF IsForest
    <3> QED
      BY <3>1, InForest, NoTree
  <2> QED
    BY <2>3, <2>4, <2>5, <2>6, <2>7
<1> QED
  BY <1>3, <1>4

LEMMA TypesFollow == IInv => TypeOK
<1> SUFFICES ASSUME IInv PROVE TypeOK
  OBVIOUS
<1>1. \A t \in DOMAIN Forest : GoodTree(Forest[t]) /\ Ids(Forest[t]) \subseteq 1..built
  BY ForestIs
<1>2. wall \in [DOMAIN symTable -> 0..built]
  <2>1. wall \in [DOMAIN symTable -> Nat] /\ WallTrue /\ built \in Nat
        /\ IsForest(trees, theTree, built)
    BY InvFacts
  <2>2. \A n \in AllBare : n.id \in 1..built
    <3> SUFFICES ASSUME NEW n \in AllBare PROVE n.id \in 1..built
      OBVIOUS
    <3>1. n \in Bare(theTree) \/ \E t \in 1..Len(trees) : n \in Bare(trees[t])
      BY InForest DEF AllBare
    <3>2. /\ theTree \in Seq(Nodes) /\ Ids(theTree) \subseteq 1..built
          /\ \A t \in 1..Len(trees) : trees[t] \in Seq(Nodes) /\ Ids(trees[t]) \subseteq 1..built
      BY <2>1, ForestFacts DEF IsForest, GoodTree, Shaped
    <3> QED
      BY <3>1, <3>2, BareIds
  <2>3. \A s \in DOMAIN symTable : wall[s] \in 0..built
    <3> SUFFICES ASSUME NEW s \in DOMAIN symTable, wall[s] # 0 PROVE wall[s] \in 0..built
      BY <2>1
    <3>1. \E n \in AllBare : n.id = wall[s]
      BY <2>1, Zenon DEF WallTrue
    <3> QED
      BY <2>1, <2>2, <3>1
  <2> QED
    BY <2>1, <2>3
<1>3. ASSUME NEW t \in DOMAIN Forest
      PROVE  LET tree == Forest[t] IN
             /\ tree # <<>> /\ tree[1].depth = 0
             /\ \A i \in DOMAIN tree : IsNode(tree[i])
             /\ \A i \in 2..Len(tree) : tree[i].depth \in 1..(tree[i - 1].depth + 1)
  <2>1. PICK tree : tree = Forest[t]
    OBVIOUS
  <2>2. Shaped(tree) /\ Ids(tree) \subseteq 1..built
    BY <1>1, <2>1 DEF GoodTree
  <2>3. ASSUME NEW i \in DOMAIN tree PROVE IsNode(tree[i])
    <3>1. i \in 1..Len(tree) /\ tree[i] \in Nodes
      BY <2>2, TreeFacts
    <3>2. tree[i].id \in 1..built
      BY <2>2, <3>1 DEF Ids
    <3> QED
      BY <3>1, <3>2 DEF Nodes, IsNode
  <2>4. /\ tree # <<>> /\ tree[1].depth = 0
        /\ \A i \in 2..Len(tree) : tree[i].depth \in 1..(tree[i - 1].depth + 1)
    BY <2>2 DEF Shaped
  <2> QED
    BY <2>1, <2>3, <2>4
<1> QED
  BY <1>2, <1>3, Zenon DEF TypeOK, IInv, Typed

LEMMA PlacesFollow == IInv => NodesInPlace
<1> SUFFICES ASSUME IInv PROVE NodesInPlace
  OBVIOUS
<1>1. /\ \A t \in DOMAIN Forest : GoodTree(Forest[t])
      /\ \A t, u \in DOMAIN Forest : t # u => Ids(Forest[t]) \cap Ids(Forest[u]) = {}
      /\ \A id \in 1..built : \E t \in DOMAIN Forest : id \in Ids(Forest[t])
  BY ForestIs
<1>2. \A t \in DOMAIN Forest : DOMAIN Forest[t] = 1..Len(Forest[t]) /\ Distinct(Forest[t])
  BY <1>1, TreeFacts DEF GoodTree
<1>3. ASSUME NEW id \in 1..built
      PROVE  \E t \in DOMAIN Forest : \E i \in DOMAIN Forest[t] :
               /\ Forest[t][i].id = id
               /\ \A u \in DOMAIN Forest : \A j \in DOMAIN Forest[u] :
                    Forest[u][j].id = id => u = t /\ j = i
  <2>1. PICK t \in DOMAIN Forest : id \in Ids(Forest[t])
    BY <1>1
  <2>2. PICK i \in DOMAIN Forest[t] : Forest[t][i].id = id
    BY <1>2, <2>1 DEF Ids
  <2>3. ASSUME NEW u \in DOMAIN Forest, NEW j \in DOMAIN Forest[u], Forest[u][j].id = id
        PROVE  u = t /\ j = i
    <3>1. id \in Ids(Forest[u])
      BY <1>2, <2>3 DEF Ids
    <3>2. u = t
      BY <1>1, <2>1, <3>1
    <3>3. j = i
      BY <1>2, <2>2, <2>3, <3>2 DEF Distinct
    <3> QED
      BY <3>2, <3>3
  <2> QED
    BY <2>2, <2>3
<1>4. NodesKept
  <2>1. numOfTree = Len(trees)
    BY DEF IInv, Typed
  <2> QED
    BY <1>3, <2>1, Zenon DEF NodesKept
<1>5. LinksTrue
  <2> SUFFICES ASSUME NEW t \in DOMAIN Forest, NEW i \in 2..Len(Forest[t])
               PROVE  Forest[t][Up(Forest[t], i)].ident = Forest[t][i].parent
    BY DEF LinksTrue
  <2>1. PICK tree : tree = Forest[t]
    OBVIOUS
  <2>2. GoodTree(tree) /\ i \in 2..Len(tree)
    BY <1>1, <2>1
  <2>3. tree[Up(tree, i)].ident = tree[i].parent
    BY <2>2, UpIn
  <2> QED
    BY <2>1, <2>3
<1> QED
  BY <1>4, <1>5 DEF NodesInPlace

\* Whatever is defined, the trees and the marks are of their types, every tree has
\* one root and no gaps, and a mark names a node that was built.
THEOREM ForestTypes == Spec => []TypeOK
<1>1. IInv => TypeOK
  BY TypesFollow
<1> QED
  BY <1>1, Invariant, PTL

\* Whatever is defined in whatever order, growing, merging and completing the trees
\* loses and doubles no node, leaves every node below one that it names as its parent,
\* and counts the trees.
THEOREM NodesStayInPlace == Spec => []NodesInPlace
<1>1. IInv => NodesInPlace
  BY PlacesFollow
<1> QED
  BY <1>1, Invariant, PTL

-----------------------------------------------------------------------------
(***************************************************************************)
(* Where nodes and their OIDs come from.                                   *)
(***************************************************************************)
\* A node is one that was defined, or stands for a symbol.
Origin(n) ==
  \/ \E d \in Definitions : d.ident = n.ident /\ d.parent = n.parent
  \/ n.ident \in DOMAIN symTable /\ n.parent = symTable[n.ident]

\* The root has nothing above it, and every other node the OID of its parent in
\* front of its suffix.
OidsBuilt(tree) ==
  /\ tree[1].parent \notin DOMAIN symTable /\ tree[1].oid = <<tree[1].ident>>
  /\ \A i \in 2..Len(tree) : tree[i].oid = tree[Up(tree, i)].oid \o <<Suffix(tree, i)>>

OidInv ==
  /\ phase # "read" => \A n \in AllBare : Origin(n)
  /\ phase # "done" => \A n \in AllBare : n.oid = <<n.ident>>
  /\ phase = "oid" => trees[1][1].parent \notin DOMAIN symTable
  /\ phase = "done" /\ Len(trees) = 1 => OidsBuilt(trees[1])

LEMMA OriginStays ==
  ASSUME symTable' = symTable, atEnd' = atEnd, NEW n, NEW m, Origin(n),
         m.ident = n.ident, m.parent = n.parent
  PROVE  Origin(m)'
<1>1. Definitions' = Definitions
  BY DEF Definitions
<1> QED
  BY <1>1 DEF Origin

\* What merging and completing keep.
LEMMA SourcedStep ==
  ASSUME OidInv, phase \notin {"read", "done"}, symTable' = symTable, atEnd' = atEnd, Sourced,
         phase' # "done", phase' = "oid" => trees'[1][1].parent \notin DOMAIN symTable
  PROVE  OidInv'
<1>1. ASSUME NEW n \in AllBare' PROVE Origin(n)' /\ n.oid = <<n.ident>>
  <2>1. n \in AllBare \/ FromSymbol(n)
    BY <1>1 DEF Sourced
  <2>2. Origin(n) /\ n.oid = <<n.ident>>
    BY <2>1 DEF OidInv, FromSymbol, Origin
  <2> QED
    BY <2>2, OriginStays
<1>2. phase' = "oid" => trees'[1][1].parent \notin DOMAIN symTable'
  OBVIOUS
<1> QED
  BY <1>1, <1>2 DEF OidInv

\* The trees that END finds are the definitions.
LEMMA FoundByEnd ==
  ASSUME IInv, OidInv, EndReading
  PROVE  OidInv'
<1>1. AllBare' = AllBare
  BY EndReadingStep
<1>2. phase = "read" /\ atEnd' = trees /\ theTree = <<>> /\ numOfTree = Len(trees)
  BY DEF EndReading, IInv, Typed
<1>3. IsForest(trees, <<>>, built) /\ DOMAIN trees = 1..Len(trees)
  BY <1>2, InvFacts
<1>4. ASSUME NEW n \in AllBare PROVE Origin(n)'
  <2>1. PICK t \in 1..Len(trees) : n \in Bare(trees[t])
    BY <1>2, InForest, NoTree DEF AllBare
  <2>2. GoodTree(trees[t])
    BY <1>3, ForestFacts
  <2>3. trees[t] \in Seq(Nodes) /\ DOMAIN trees[t] = 1..Len(trees[t])
    BY <2>2, TreeFacts DEF GoodTree, Shaped
  <2>4. PICK i \in 1..Len(trees[t]) : n.ident = trees[t][i].ident /\ n.parent = trees[t][i].parent
    BY <2>1, <2>3, BareIds
  <2>5. trees[t][i] \in ToSet(trees[t])
    BY <2>3, <2>4, Zenon DEF ToSet
  <2>6. trees[t][i] \in Definitions'
    BY <1>2, <1>3, <2>1, <2>5, Zenon DEF Definitions
  <2> QED
    BY <2>4, <2>6 DEF Origin
<1>5. \A n \in AllBare' : Origin(n)' /\ n.oid = <<n.ident>>
  BY <1>1, <1>2, <1>4 DEF OidInv
<1>6. phase' # "oid" /\ (phase' = "done" => Len(trees') = 0)
  <2>1. Len(trees) \in Nat
    BY InvFacts
  <2>2. CASE numOfTree > 0
    BY <2>2 DEF EndReading
  <2>3. CASE ~(numOfTree > 0)
    BY <1>2, <2>1, <2>3 DEF EndReading
  <2> QED
    BY <2>2, <2>3
<1> QED
  BY <1>5, <1>6 DEF OidInv

\* A node is completed where it stands: its parent and its suffix are the same.
LEMMA CompletedPlaces ==
  ASSUME NEW tree, GoodTree(tree), NEW T, IsCompleted(T, tree), NEW i \in 2..Len(tree)
  PROVE  Up(T, i) = Up(tree, i) /\ Suffix(T, i) = Suffix(tree, i)
<1>1. PICK l \in Nat : l = Len(tree)
  BY TreeFacts DEF GoodTree
<1>2. \A j \in 1..l : T[j].depth = tree[j].depth /\ T[j].ident = tree[j].ident /\ T[j].shared = tree[j].shared
  BY <1>1 DEF IsCompleted
<1>3. i \in 1..l /\ (\A j \in 1..(i - 1) : j \in 1..l) /\ (\A j \in 2..(i - 1) : j \in 1..l)
  BY <1>1
<1>4. {j \in 1..(i - 1) : T[j].depth < T[i].depth} = {j \in 1..(i - 1) : tree[j].depth < tree[i].depth}
  BY <1>2, <1>3
<1>5. Up(T, i) = Up(tree, i)
  BY <1>4, Zenon DEF Up
<1>6. (\E j \in 2..(i - 1) : T[i].shared /\ T[j].shared /\ T[j].ident = T[i].ident)
      <=> (\E j \in 2..(i - 1) : tree[i].shared /\ tree[j].shared /\ tree[j].ident = tree[i].ident)
  BY <1>2, <1>3, Zenon
<1>7. T[i].ident = tree[i].ident
  BY <1>2, <1>3
<1>8. Suffix(T, i) = Suffix(tree, i)
  BY <1>6, <1>7, Zenon DEF Suffix
<1> QED
  BY <1>5, <1>8

\* Completing changes nothing of a node but its OID.
LEMMA OidCompleteKeeps ==
  ASSUME IInv, OidComplete
  PROVE  \A x \in AllBare' : \E y \in AllBare :
           x.id = y.id /\ x.ident = y.ident /\ x.parent = y.parent
<1>1. phase = "oid" /\ theTree' = theTree
  BY DEF OidComplete
<1>2. theTree = <<>> /\ Len(trees) = 1 /\ 1 \in 1..Len(trees)
  BY <1>1 DEF IInv, Typed
<1>3. PICK tree : tree = trees[1]
  OBVIOUS
<1>4. GoodTree(tree) /\ Bare(tree) \subseteq AllBare
  BY <1>2, <1>3, InvFacts, ForestFacts DEF AllBare
<1>5. CASE trees' = <<Completed(trees[1])>>
  <2>1. PICK T : T = Completed(tree)
    OBVIOUS
  <2>2. IsCompleted(T, tree)
    BY <1>4, <2>1, CompletedIs
  <2>3. PICK l \in Nat : l = Len(tree) /\ Len(T) = l /\ tree \in Seq(Nodes) /\ T \in Seq(Nodes)
    BY <1>4, <2>2, TreeFacts DEF GoodTree, Shaped, IsCompleted
  <2>4. AllBare' = Bare(T)
    <3>1. PICK us : us = <<T>>
      OBVIOUS
    <3>2. 1..Len(us) = {1} /\ us[1] = T
      BY <2>3, <3>1
    <3>3. \A x : x \in Bares(us, <<>>) <=> x \in Bare(T)
      BY <3>2, InForest, NoTree
    <3> QED
      BY <1>1, <1>2, <1>3, <1>5, <2>1, <3>1, <3>3 DEF AllBare
  <2> SUFFICES ASSUME NEW x \in AllBare'
               PROVE  \E y \in AllBare : x.id = y.id /\ x.ident = y.ident /\ x.parent = y.parent
    OBVIOUS
  <2>5. PICK i \in 1..l : x.id = T[i].id /\ x.ident = T[i].ident /\ x.parent = T[i].parent
    BY <2>3, <2>4, BareIds
  <2>6. PICK y : y = [tree[i] EXCEPT !.depth = 0]
    OBVIOUS
  <2>7. tree[i] \in Nodes
    BY <2>3
  <2>8. y \in AllBare /\ y.id = tree[i].id /\ y.ident = tree[i].ident /\ y.parent = tree[i].parent
    BY <1>4, <2>3, <2>6, <2>7, BareNode DEF Bare
  <2> QED
    BY <2>2, <2>3, <2>5, <2>8 DEF IsCompleted
<1>6. CASE UNCHANGED trees
  BY <1>1, <1>6 DEF AllBare
<1> QED
  BY <1>5, <1>6 DEF OidComplete

LEMMA OidCompleteOids ==
  ASSUME IInv, OidInv, OidComplete
  PROVE  OidInv'
<1>1. /\ phase = "oid"
      /\ UNCHANGED <<symTable, wall, last, numOfTree, theTree, scan, merged, built, atEnd>>
  BY DEF OidComplete
<1>2. theTree = <<>> /\ Len(trees) = 1 /\ 1 \in 1..Len(trees)
  BY <1>1 DEF IInv, Typed
<1>3. PICK tree : tree = trees[1]
  OBVIOUS
<1>4. GoodTree(tree) /\ Bare(tree) \subseteq AllBare
  BY <1>2, <1>3, InvFacts, ForestFacts DEF AllBare
<1>5. CASE trees' = <<Completed(trees[1])>> /\ phase' = "done"
  <2>1. PICK T : T = Completed(tree)
    OBVIOUS
  <2>2. IsCompleted(T, tree)
    BY <1>4, <2>1, CompletedIs
  <2>3. PICK l \in Nat : l = Len(tree) /\ l >= 1 /\ Len(T) = l /\ tree \in Seq(Nodes) /\ T \in Seq(Nodes)
    BY <1>4, <2>2, TreeFacts DEF GoodTree, Shaped, IsCompleted
  <2>5. ASSUME NEW n \in AllBare' PROVE Origin(n)'
    <3>1. PICK m \in AllBare : n.ident = m.ident /\ n.parent = m.parent
      BY <2>5, OidCompleteKeeps
    <3>2. Origin(m)
      BY <1>1, <3>1 DEF OidInv
    <3> QED
      BY <1>1, <3>1, <3>2, OriginStays
  <2>6. OidsBuilt(T)
    <3>1. tree[1] \in Nodes /\ 1 \in 1..Len(tree)
      BY <2>3
    <3>2. tree[1].oid = <<tree[1].ident>>
      <4>1. PICK m : m = [tree[1] EXCEPT !.depth = 0]
        OBVIOUS
      <4>2. m \in AllBare /\ m.ident = tree[1].ident /\ m.oid = tree[1].oid
        BY <1>4, <3>1, <4>1, BareNode DEF Bare
      <4> QED
        BY <1>1, <4>2 DEF OidInv
    <3>3. T[1].parent = tree[1].parent /\ T[1].ident = tree[1].ident /\ T[1].oid = tree[1].oid
      BY <2>2, <3>1 DEF IsCompleted
    <3>4. tree[1].parent \notin DOMAIN symTable
      BY <1>1, <1>3 DEF OidInv
    <3>5. ASSUME NEW i \in 2..Len(T) PROVE T[i].oid = T[Up(T, i)].oid \o <<Suffix(T, i)>>
      <4>1. i \in 2..Len(tree)
        BY <2>3
      <4>2. Up(T, i) = Up(tree, i) /\ Suffix(T, i) = Suffix(tree, i)
        BY <1>4, <2>2, <4>1, CompletedPlaces
      <4>3. T[i].oid = T[Up(tree, i)].oid \o <<Suffix(tree, i)>>
        BY <2>2, <4>1 DEF IsCompleted
      <4> QED
        BY <4>2, <4>3, Zenon
    <3> QED
      BY <3>2, <3>3, <3>4, <3>5 DEF OidsBuilt
  <2>7. OidsBuilt(T)' /\ trees'[1] = T
    <3>1. <<T>>[1] = T
      OBVIOUS
    <3>2. trees'[1] = T
      BY <1>3, <1>5, <2>1, <3>1, Zenon
    <3>3. OidsBuilt(T)'
      BY <1>1, <2>6 DEF OidsBuilt
    <3> QED
      BY <3>2, <3>3
  <2>8. OidsBuilt(trees[1])'
    BY <2>7, Zenon DEF OidsBuilt
  <2> QED
    BY <1>5, <2>5, <2>8 DEF OidInv
<1>6. CASE phase' = "crashed" /\ UNCHANGED trees
  <2>1. Sourced
    BY <1>1, <1>6 DEF Sourced, AllBare
  <2> QED
    BY <1>1, <1>6, <2>1, SourcedStep
<1> QED
  BY <1>5, <1>6 DEF OidComplete

LEMMA OidInvNext == IInv /\ OidInv /\ [Next]_vars => OidInv'
<1> SUFFICES ASSUME IInv, OidInv, [Next]_vars PROVE OidInv'
  OBVIOUS
<1>1. CASE \E ident \in Defined, parent \in Name : HeadAppend(ident, parent)
  <2>1. PICK ident \in Defined, parent \in Name : HeadAppend(ident, parent)
    BY <1>1
  <2>2. \A x \in AllBare' : x \in AllBare \/ x.oid = <<x.ident>>
    BY <2>1, HeadAppendStep
  <2>3. phase = "read" /\ phase' = "read"
    BY <2>1 DEF HeadAppend
  <2> QED
    BY <2>2, <2>3 DEF OidInv
<1>2. CASE EndReading
  BY <1>2, FoundByEnd
<1>3. CASE MergeNext
  <2>1. Sourced
    BY <1>3, MergeNextStep
  <2>2. phase = "merge" /\ phase' = "merge" /\ symTable' = symTable /\ atEnd' = atEnd
    BY <1>3 DEF MergeNext
  <2> QED
    BY <2>1, <2>2, SourcedStep
<1>4. CASE EndScan
  <2>1. Sourced
    BY <1>4, EndScanStep DEF Sourced
  <2>2. phase = "merge" /\ phase' \in {"merge", "complete"} /\ symTable' = symTable /\ atEnd' = atEnd
    BY <1>4 DEF EndScan
  <2> QED
    BY <2>1, <2>2, SourcedStep
<1>5. CASE HeadComplete
  <2>1. /\ Sourced /\ phase' # "done"
        /\ phase' = "oid" => trees'[1][1].parent \notin DOMAIN symTable
    BY <1>5, HeadCompleteStep
  <2>2. phase = "complete" /\ symTable' = symTable /\ atEnd' = atEnd
    BY <1>5 DEF HeadComplete
  <2> QED
    BY <2>1, <2>2, SourcedStep
<1>6. CASE OidComplete
  BY <1>6, OidCompleteOids
<1>7. CASE UNCHANGED vars
  <2>1. AllBare' = AllBare /\ phase' = phase /\ symTable' = symTable /\ trees' = trees /\ atEnd' = atEnd
    BY <1>7 DEF vars, AllBare
  <2>2. \A n : Origin(n)' <=> Origin(n)
    BY <2>1 DEF Origin, Definitions
  <2>3. \A tree : OidsBuilt(tree)' <=> OidsBuilt(tree)
    BY <2>1 DEF OidsBuilt
  <2> QED
    BY <2>1, <2>2, <2>3, Zenon DEF OidInv
<1> QED
  BY <1>1, <1>2, <1>3, <1>4, <1>5, <1>6, <1>7 DEF Next

LEMMA OidInvariant == Spec => []OidInv
<1>1. Init => OidInv
  <2> SUFFICES ASSUME Init PROVE OidInv
    OBVIOUS
  <2>1. phase = "read" /\ AllBare = {}
    <3>1. trees = <<>> /\ theTree = <<>> /\ 1..Len(<<>>) = {}
      BY DEF Init
    <3>2. \A x : x \notin Bares(<<>>, <<>>)
      BY <3>1, InForest, NoTree
    <3> QED
      BY <3>1, <3>2 DEF Init, AllBare
  <2> QED
    BY <2>1 DEF OidInv
<1>2. IInv /\ OidInv /\ [Next]_vars => OidInv'
  BY OidInvNext
<1> QED
  BY <1>1, <1>2, Invariant, PTL DEF Spec

-----------------------------------------------------------------------------
(***************************************************************************)
(* What the OIDs say.                                                      *)
(***************************************************************************)
\* The OID of ident: a list of names, each of which has the one before it as its
\* parent, from one with nothing known above it.
IsOid(o, ident) ==
  /\ o \in Seq(Name) /\ o # <<>> /\ o[Len(o)] = ident
  /\ \A k \in 1..(Len(o) - 1) : ParentOf(o[k + 1]) = o[k]
  /\ ParentOf(o[1]) \notin DOMAIN symTable

LEMMA OidOfChild ==
  ASSUME NEW o, NEW up, IsOid(o, up), NEW ident \in Name, ParentOf(ident) = up
  PROVE  IsOid(o \o <<ident>>, ident)
<1>1. PICK n \in Nat : n = Len(o) /\ n >= 1
  <2>1. o \in Seq(Name) /\ o # <<>>
    BY DEF IsOid
  <2> QED
    BY <2>1, EmptySeq
<1>2. PICK p : p = o \o <<ident>>
  OBVIOUS
<1>3. /\ p \in Seq(Name) /\ Len(p) = n + 1 /\ p[n + 1] = ident
      /\ \A k \in 1..n : p[k] = o[k]
  BY <1>1, <1>2 DEF IsOid
<1>4. p # <<>> /\ p[Len(p)] = ident
  BY <1>1, <1>3, EmptySeq
<1>5. ASSUME NEW k \in 1..(Len(p) - 1) PROVE ParentOf(p[k + 1]) = p[k]
  <2>1. CASE k = n
    <3>1. p[k + 1] = ident /\ p[k] = o[n] /\ o[n] = up
      BY <1>1, <1>3, <2>1 DEF IsOid
    <3> QED
      BY <3>1
  <2>2. CASE k # n
    <3>1. k \in 1..(Len(o) - 1) /\ k \in 1..n /\ k + 1 \in 1..n
      BY <1>1, <1>3, <2>2
    <3>2. ParentOf(o[k + 1]) = o[k]
      BY <3>1 DEF IsOid
    <3>3. p[k + 1] = o[k + 1] /\ p[k] = o[k]
      BY <1>3, <3>1
    <3> QED
      BY <3>2, <3>3
  <2> QED
    BY <2>1, <2>2
<1>6. ParentOf(p[1]) \notin DOMAIN symTable
  <2>1. p[1] = o[1]
    BY <1>1, <1>3
  <2> QED
    BY <2>1 DEF IsOid
<1> QED
  BY <1>2, <1>3, <1>4, <1>5, <1>6 DEF IsOid

\* Where no name is defined twice, a node names the parent that its name has.
LEMMA ParentIs ==
  ASSUME Regular, NEW n, Origin(n)
  PROVE  ParentOf(n.ident) = n.parent
<1>1. PICK d : d = {x \in Definitions : x.ident = n.ident}
  OBVIOUS
<1>2. ParentOf(n.ident) =
        IF d # {} THEN (CHOOSE x \in d : TRUE).parent
        ELSE IF n.ident \in DOMAIN symTable THEN symTable[n.ident] ELSE NULL
  <2>1. ParentOf(n.ident) =
          IF {x \in Definitions : x.ident = n.ident} # {}
          THEN (CHOOSE x \in {x \in Definitions : x.ident = n.ident} : TRUE).parent
          ELSE IF n.ident \in DOMAIN symTable THEN symTable[n.ident] ELSE NULL
    BY DEF ParentOf
  <2> QED
    BY <1>1, <2>1
<1>3. CASE \E e \in Definitions : e.ident = n.ident /\ e.parent = n.parent
  <2>1. PICK e \in Definitions : e.ident = n.ident /\ e.parent = n.parent
    BY <1>3
  <2>2. d = {e}
    BY <1>1, <2>1, Zenon DEF Regular
  <2>3. (CHOOSE x \in d : TRUE) = e
    <3>1. PICK c : c = CHOOSE x \in d : TRUE
      OBVIOUS
    <3>2. c \in d
      BY <2>2, <3>1, Zenon
    <3> QED
      BY <2>2, <3>1, <3>2
  <2> QED
    BY <1>2, <2>1, <2>2, <2>3, Zenon
<1>4. CASE n.ident \in DOMAIN symTable /\ n.parent = symTable[n.ident]
  <2>1. d = {}
    BY <1>1, <1>4, Zenon DEF Regular
  <2> QED
    BY <1>2, <1>4, <2>1, Zenon
<1> QED
  BY <1>3, <1>4 DEF Origin

LEMMA OidsFollow == IInv /\ OidInv => OidsTrue
<1> SUFFICES ASSUME IInv, OidInv, phase = "done", numOfTree = 1, Regular, NoTwins
             PROVE  \A i \in DOMAIN trees[1] :
                      LET o == trees[1][i].oid IN
                        /\ o[Len(o)] = trees[1][i].ident
                        /\ \A k \in 1..(Len(o) - 1) : ParentOf(o[k + 1]) = o[k]
                        /\ ParentOf(o[1]) \notin DOMAIN symTable
  BY Zenon DEF OidsTrue
<1>1. theTree = <<>> /\ Len(trees) = 1 /\ 1 \in 1..Len(trees)
  BY DEF IInv, Typed
<1>2. PICK tree : tree = trees[1]
  OBVIOUS
<1>3. GoodTree(tree) /\ Bare(tree) \subseteq AllBare /\ OidsBuilt(tree)
  BY <1>1, <1>2, InvFacts, ForestFacts DEF AllBare, OidInv
<1>4. PICK l \in Nat : l = Len(tree) /\ DOMAIN tree = 1..l /\ tree \in Seq(Nodes) /\ l >= 1
  BY <1>3, TreeFacts DEF GoodTree, Shaped
<1>5. ASSUME NEW i \in 1..l
      PROVE  tree[i].ident \in Name /\ ParentOf(tree[i].ident) = tree[i].parent
  <2>1. tree[i] \in Nodes
    BY <1>4
  <2>2. PICK m : m = [tree[i] EXCEPT !.depth = 0]
    OBVIOUS
  <2>3. m \in AllBare /\ m.ident = tree[i].ident /\ m.parent = tree[i].parent
    BY <1>3, <1>4, <2>1, <2>2, BareNode DEF Bare
  <2>4. Origin(m)
    BY <2>3 DEF OidInv
  <2>5. ParentOf(m.ident) = m.parent
    BY <2>4, ParentIs
  <2>6. tree[i].ident \in Name
    BY <2>1 DEF Nodes
  <2> QED
    BY <2>3, <2>5, <2>6
<1>6. ASSUME NEW i \in 2..l PROVE Suffix(tree, i) = tree[i].ident
  <2>1. 1 \in DOMAIN Forest /\ Forest[1] = tree
    <3>1. trees \in Seq(Seq(Nodes))
      BY InvFacts DEF IsForest
    <3>2. trees \o <<>> = trees
      BY <3>1, ConcatEmptySeq
    <3>3. Forest = trees
      BY <1>1, <3>2 DEF Forest
    <3>4. DOMAIN trees = 1..Len(trees)
      BY <3>1
    <3> QED
      BY <1>1, <1>2, <3>3, <3>4
  <2>2. \A j \in 2..(i - 1) : j \in DOMAIN tree /\ i \in DOMAIN tree /\ j # i
    BY <1>4
  <2>3. \A j \in 2..(i - 1) : tree[j].ident # tree[i].ident
    <3>1. \A a, b \in DOMAIN Forest[1] : Forest[1][a].ident = Forest[1][b].ident => a = b
      <4>1. \A t, u \in DOMAIN Forest : \A a \in DOMAIN Forest[t], b \in DOMAIN Forest[u] :
              Forest[t][a].ident = Forest[u][b].ident => t = u /\ a = b
        BY DEF NoTwins
      <4>2. \A u \in DOMAIN Forest : \A a \in DOMAIN Forest[1], b \in DOMAIN Forest[u] :
              Forest[1][a].ident = Forest[u][b].ident => a = b
        BY <2>1, <4>1
      <4> QED
        BY <2>1, <4>2
    <3>2. \A a, b \in DOMAIN tree : tree[a].ident = tree[b].ident => a = b
      BY <2>1, <3>1, Zenon
    <3> QED
      BY <2>2, <3>2, Zenon
  <2> QED
    BY <2>3, Zenon DEF Suffix
<1>7. PICK S : S = {k \in Nat : \A i \in 1..l : i <= k => IsOid(tree[i].oid, tree[i].ident)}
  OBVIOUS
<1>8. 0 \in S
  <2>1. \A i \in 1..l : ~(i <= 0)
    OBVIOUS
  <2> QED
    BY <1>7, <2>1
<1>9. ASSUME NEW k \in Nat, k \in S PROVE k + 1 \in S
  <2>1. \A i \in 1..l : i <= k => IsOid(tree[i].oid, tree[i].ident)
    BY <1>7, <1>9
  <2>2. ASSUME NEW i \in 1..l, i <= k + 1 PROVE IsOid(tree[i].oid, tree[i].ident)
    <3>1. CASE i = 1
      <4>1. PICK a \in Name : a = tree[1].ident
        BY <1>4, <1>5
      <4>2. tree[1].oid = <<a>> /\ ParentOf(a) \notin DOMAIN symTable
        BY <1>3, <1>4, <1>5, <4>1 DEF OidsBuilt
      <4>3. IsOid(<<a>>, a)
        BY <4>2 DEF IsOid
      <4> QED
        BY <3>1, <4>1, <4>2, <4>3
    <3>2. CASE i # 1
      <4>1. i \in 2..Len(tree) /\ i \in 2..l
        BY <1>4, <3>2
      <4>2. PICK j \in 1..(i - 1) : j = Up(tree, i) /\ tree[j].ident = tree[i].parent
        BY <1>3, <4>1, UpIn
      <4>3. j \in 1..l /\ j <= k
        BY <1>4, <2>2, <4>2
      <4>4. IsOid(tree[j].oid, tree[i].parent)
        BY <2>1, <4>2, <4>3
      <4>5. PICK a \in Name : a = tree[i].ident /\ ParentOf(a) = tree[i].parent
        BY <1>5
      <4>6. tree[i].oid = tree[j].oid \o <<a>>
        BY <1>3, <1>6, <4>1, <4>2, <4>5 DEF OidsBuilt
      <4>7. IsOid(tree[j].oid \o <<a>>, a)
        BY <4>4, <4>5, OidOfChild
      <4> QED
        BY <4>5, <4>6, <4>7
    <3> QED
      BY <3>1, <3>2
  <2>3. k + 1 \in Nat
    OBVIOUS
  <2> QED
    BY <1>7, <2>2, <2>3
<1>10. ASSUME NEW i \in 1..l PROVE IsOid(tree[i].oid, tree[i].ident)
  <2>1. l \in S
    BY <1>8, <1>9, Grows
  <2>2. i <= l
    OBVIOUS
  <2> QED
    BY <1>7, <2>1, <2>2
<1> QED
  BY <1>2, <1>4, <1>10, Zenon DEF IsOid

\* Whatever the order of the definitions, the OID of every node of the document
\* lists the suffixes from the topmost known ancestor down, as the definitions and the
\* symbol table have it, if END made one tree in which no name stands twice.
THEOREM OidsAreTrue == Spec => []OidsTrue
<1>1. IInv /\ OidInv => OidsTrue
  BY OidsFollow
<1> QED
  BY <1>1, Invariant, OidInvariant, PTL

-----------------------------------------------------------------------------
(***************************************************************************)
(* Symbols that are met on the way up are different.                       *)
(***************************************************************************)
IsRank(rank) ==
  /\ rank \in [Name \cup {NULL} -> Nat]
  /\ \A n \in DOMAIN symTable : rank[symTable[n]] < rank[n]

LEMMA RankIs ==
  ASSUME symTable \in SymbolTables
  PROVE  \E rank : IsRank(rank)
<1>1. PICK rank \in [Name \cup {NULL} -> 0..Cardinality(Name)] :
        \A n \in DOMAIN symTable : rank[symTable[n]] < rank[n]
  BY Ranked
<1>2. rank \in [Name \cup {NULL} -> Nat]
  BY <1>1
<1> QED
  BY <1>1, <1>2 DEF IsRank

LEMMA ClimbRank ==
  ASSUME symTable \in SymbolTables, NEW rank, IsRank(rank), NEW c, IsClimb(c),
         NEW i \in 1..Len(c), NEW j \in 1..Len(c), i < j
  PROVE  rank[c[j]] < rank[c[i]]
<1>1. PICK l \in Nat : l = Len(c)
  BY DEF IsClimb
<1>2. \A k \in 1..l : c[k] \in DOMAIN symTable /\ rank[c[k]] \in Nat
  BY <1>1, Ranked DEF IsClimb, IsRank
<1>3. \A k \in 1..(l - 1) : rank[c[k + 1]] < rank[c[k]]
  <2> SUFFICES ASSUME NEW k \in 1..(l - 1) PROVE rank[c[k + 1]] < rank[c[k]]
    OBVIOUS
  <2>1. c[k + 1] = symTable[c[k]] /\ k \in 1..l
    BY <1>1 DEF IsClimb
  <2> QED
    BY <1>2, <2>1 DEF IsRank
<1>4. PICK S : S = {k \in Nat : \A m \in 1..l : m = i + k + 1 => rank[c[m]] < rank[c[i]]}
  OBVIOUS
<1>5. 0 \in S
  <2>1. \A m \in 1..l : m = i + 0 + 1 => i \in 1..(l - 1) /\ m = i + 1
    BY <1>1
  <2> QED
    BY <1>3, <1>4, <2>1
<1>6. ASSUME NEW k \in Nat, k \in S PROVE k + 1 \in S
  <2>1. ASSUME NEW m \in 1..l, m = i + (k + 1) + 1 PROVE rank[c[m]] < rank[c[i]]
    <3>1. PICK p \in 1..(l - 1) : p = i + k + 1 /\ m = p + 1 /\ p \in 1..l
      BY <1>1, <2>1
    <3>2. rank[c[p]] < rank[c[i]] /\ rank[c[m]] < rank[c[p]]
      BY <1>3, <1>4, <1>6, <3>1
    <3> QED
      BY <1>1, <1>2, <3>1, <3>2
  <2> QED
    BY <1>4, <2>1
<1>7. PICK k \in Nat : j = i + k + 1
  <2>1. j - i - 1 \in Nat /\ j = i + (j - i - 1) + 1
    BY <1>1
  <2> QED
    BY <2>1
<1>8. k \in S
  BY <1>5, <1>6, Grows
<1> QED
  BY <1>1, <1>4, <1>7, <1>8

LEMMA ClimbOnce ==
  ASSUME symTable \in SymbolTables, NEW c, IsClimb(c),
         NEW i \in 1..Len(c), NEW j \in 1..Len(c), c[i] = c[j]
  PROVE  i = j
<1>1. PICK rank : IsRank(rank)
  BY RankIs
<1>2. i \in Int /\ j \in Int
  OBVIOUS
<1>3. rank[c[i]] \in Nat /\ rank[c[j]] \in Nat
  <2>1. c[i] \in DOMAIN symTable /\ c[j] \in DOMAIN symTable
    BY DEF IsClimb
  <2> QED
    BY <1>1, <2>1, Ranked DEF IsRank
<1>4. ~(i < j) /\ ~(j < i)
  BY <1>1, <1>3, ClimbRank
<1> QED
  BY <1>2, <1>4

LEMMA PathClimbs ==
  ASSUME symTable \in SymbolTables, NEW name \in Name \cup {NULL}
  PROVE  /\ IsClimb(Path(name)) /\ Path(name) \in Seq(DOMAIN symTable) /\ Len(Path(name)) \in Nat
         /\ ToSet(Path(name)) = {Path(name)[k] : k \in 1..Len(Path(name))}
         /\ name \in DOMAIN symTable => Len(Path(name)) >= 1 /\ Path(name)[1] = name
         /\ name \notin DOMAIN symTable => ToSet(Path(name)) = {}
<1>1. PICK p : p = Path(name)
  OBVIOUS
<1>2. IsPath(p, name)
  BY <1>1, PathIs
<1>3. p \in Seq(DOMAIN symTable) /\ Len(p) \in Nat /\ DOMAIN p = 1..Len(p)
  BY <1>2 DEF IsPath
<1>4. ToSet(p) = {p[k] : k \in 1..Len(p)}
  BY <1>3 DEF ToSet
<1>5. name \in DOMAIN symTable => Len(p) >= 1 /\ p[1] = name
  BY <1>2, <1>3, EmptySeq DEF IsPath
<1>6. name \notin DOMAIN symTable => ToSet(p) = {}
  <2>1. name \notin DOMAIN symTable => p = <<>>
    BY <1>2 DEF IsPath
  <2>2. Len(<<>>) = 0 /\ 1..0 = {}
    OBVIOUS
  <2> QED
    BY <1>4, <2>1, <2>2
<1> QED
  BY <1>1, <1>2, <1>3, <1>4, <1>5, <1>6 DEF IsPath, IsClimb

\* What is met before a symbol, and the symbol, are not above its parent.
LEMMA NotAbove ==
  ASSUME symTable \in SymbolTables, NEW c, IsClimb(c),
         NEW k \in 1..Len(c), NEW j \in 1..Len(c), j <= k
  PROVE  c[j] \notin ToSet(Path(symTable[c[k]]))
<1>1. PICK rank : IsRank(rank)
  BY RankIs
<1>2. c[j] \in DOMAIN symTable /\ c[k] \in DOMAIN symTable
  BY DEF IsClimb
<1>3. PICK name \in Name \cup {NULL} : name = symTable[c[k]]
  BY <1>2, Ranked
<1>4. \A x \in DOMAIN symTable : rank[x] \in Nat
  BY <1>1, Ranked DEF IsRank
<1>5. rank[name] \in Nat /\ rank[name] < rank[c[k]]
  BY <1>1, <1>2, <1>3 DEF IsRank
<1>6. rank[c[k]] <= rank[c[j]]
  <2>1. k = j \/ j < k
    OBVIOUS
  <2>2. j < k => rank[c[k]] < rank[c[j]]
    BY <1>1, ClimbRank
  <2> QED
    BY <1>2, <1>4, <2>1, <2>2
<1>7. PICK p : p = Path(name)
  OBVIOUS
<1>8. /\ IsClimb(p) /\ Len(p) \in Nat /\ ToSet(p) = {p[m] : m \in 1..Len(p)}
      /\ name \in DOMAIN symTable => p[1] = name
      /\ name \notin DOMAIN symTable => ToSet(p) = {}
  BY <1>7, PathClimbs
<1>9. ASSUME NEW m \in 1..Len(p) PROVE rank[p[m]] <= rank[name]
  <2>1. p[m] \in DOMAIN symTable /\ p[m] \in ToSet(p)
    BY <1>8 DEF IsClimb
  <2>2. p[1] = name
    BY <1>8, <2>1
  <2>3. m = 1 \/ (1 < m /\ 1 \in 1..Len(p))
    BY <1>8
  <2>4. 1 < m /\ 1 \in 1..Len(p) => rank[p[m]] < rank[p[1]]
    BY <1>1, <1>8, ClimbRank
  <2> QED
    BY <1>4, <1>5, <2>1, <2>2, <2>3, <2>4
<1>10. \A m \in 1..Len(p) : p[m] # c[j]
  <2> SUFFICES ASSUME NEW m \in 1..Len(p), p[m] = c[j] PROVE FALSE
    OBVIOUS
  <2>1. rank[c[j]] <= rank[name]
    BY <1>9
  <2> QED
    BY <1>2, <1>4, <1>5, <1>6, <2>1
<1> QED
  BY <1>3, <1>7, <1>8, <1>10

-----------------------------------------------------------------------------
(***************************************************************************)
(* Simple trees.                                                           *)
(***************************************************************************)
IsDefinition(n) == \E d \in Definitions : d.id = n.id /\ d.ident = n.ident /\ d.parent = n.parent

\* No node was built yet but those of the definitions.
Raw == \A x \in AllBare : IsDefinition(x)

OneName == \A x, y \in AllBare : x.ident = y.ident => x.id = y.id

\* What would be built on top of the tree is not in it.
Above(tree) ==
  \A x \in AllBare : x.ident \in DOMAIN symTable => x.ident \notin ToSet(Path(tree[1].parent))

\* All trees hang below P, which is a node of the big tree as soon as that has grown.
SameParent(P) ==
  /\ \A t \in 1..Len(trees) : trees[t][1].parent = P
  /\ Has(theTree, P) \/ (Raw /\ theTree[1].parent = P)
  /\ IF P \in DOMAIN symTable THEN scan = 1 ELSE CommonAncestors = {}

Unmarked == \A n \in DOMAIN symTable : wall[n] = 0

\* One tree is left to be merged, and if it was tried there is no common ancestor.
TwoLeft ==
  /\ Len(trees) = 1 /\ merged = FALSE /\ Raw
  /\ CommonAncestors \subseteq ToSet(Path(theTree[1].parent)) \cap ToSet(Path(trees[1][1].parent))
  /\ IF scan = 1 THEN Unmarked ELSE CommonAncestors = {}

Merging == trees = <<>> \/ (\E P \in Name \cup {NULL} : SameParent(P)) \/ TwoLeft

SimpleInv ==
  /\ phase = "read" => merged = FALSE /\ Unmarked
  /\ phase # "read" /\ Simple /\ Regular => OneName
  /\ phase = "merge" /\ Simple => Merging /\ (Regular => Above(theTree))
  /\ phase = "complete" /\ Simple =>
       /\ CommonAncestors # {} => Len(trees) = 1
       /\ Regular /\ Len(trees) = 1 => Above(trees[1])
  /\ phase = "aborted" /\ Simple => CommonAncestors = {}

\* The definitions and the symbols stay as END found them, and what is said of them.
LEMMA SameData ==
  ASSUME symTable' = symTable, atEnd' = atEnd
  PROVE  /\ \A name : Path(name)' = Path(name)
         /\ CommonAncestors' = CommonAncestors
         /\ Simple' <=> Simple
         /\ Regular' <=> Regular
         /\ \A n : IsDefinition(n)' <=> IsDefinition(n)
<1>1. \A name : Path(name)' = Path(name)
  BY DEF Path
<1>2. CommonAncestors' = CommonAncestors
  <2>1. \A t : Path(atEnd[t][1].parent)' = Path(atEnd[t][1].parent)
    BY DEF Path
  <2> QED
    BY <2>1 DEF CommonAncestors
<1>3. Definitions' = Definitions
  BY DEF Definitions
<1> QED
  BY <1>1, <1>2, <1>3 DEF Simple, Regular, IsDefinition

\* A definition is no symbol and has its name alone.
LEMMA RawNames ==
  ASSUME Regular, Raw
  PROVE  /\ OneName
         /\ \A x \in AllBare : x.ident \notin DOMAIN symTable
<1>1. ASSUME NEW x \in AllBare
      PROVE  \E d \in Definitions : d.id = x.id /\ d.ident = x.ident
  BY DEF Raw, IsDefinition
<1>2. ASSUME NEW x \in AllBare PROVE x.ident \notin DOMAIN symTable
  BY <1>1 DEF Regular
<1>3. ASSUME NEW x \in AllBare, NEW y \in AllBare, x.ident = y.ident PROVE x.id = y.id
  BY <1>1, <1>3 DEF Regular
<1> QED
  BY <1>2, <1>3 DEF OneName

LEMMA HasBare ==
  ASSUME NEW tree \in Seq(Nodes), NEW ident
  PROVE  Has(tree, ident) <=> \E x \in Bare(tree) : x.ident = ident
<1>1. DOMAIN tree = 1..Len(tree)
  OBVIOUS
<1>2. ASSUME NEW i \in 1..Len(tree) PROVE [tree[i] EXCEPT !.depth = 0].ident = tree[i].ident
  <2>1. tree[i] \in Nodes
    BY ElementOfSeq
  <2> QED
    BY <2>1, BareNode
<1>3. ASSUME Has(tree, ident) PROVE \E x \in Bare(tree) : x.ident = ident
  BY <1>1, <1>2, <1>3 DEF Has, Bare
<1>4. ASSUME NEW x \in Bare(tree), x.ident = ident PROVE Has(tree, ident)
  BY <1>1, <1>4, BareIds DEF Has
<1> QED
  BY <1>3, <1>4

-----------------------------------------------------------------------------
(***************************************************************************)
(* The symbol that is met is the nearest one.                              *)
(***************************************************************************)
\* A symbol at place i of the one path and j of the other is met in turn i or j.
LEMMA MetAt ==
  ASSUME NEW X, NEW left \in Seq(X), NEW right \in Seq(X), NEW lid, NEW rid,
         NEW i \in 1..Len(left), NEW j \in 1..Len(right), left[i] = right[j]
  PROVE  \E k \in 1..(Len(left) + Len(right)) :
           /\ k = i \/ k = j
           /\ k >= i /\ k >= j
           /\ MetByLeft(left, right, rid, k) \/ MetByRight(left, right, lid, k)
<1>1. PICK l \in Nat : l = Len(left) /\ DOMAIN left = 1..l
  OBVIOUS
<1>2. PICK r \in Nat : r = Len(right) /\ DOMAIN right = 1..r
  OBVIOUS
<1>3. CASE i > j
  <2>1. i \in 1..(l + r) /\ j \in 1..(i - 1) /\ i >= i /\ i >= j
    BY <1>1, <1>2, <1>3
  <2>2. MetByLeft(left, right, rid, i)
    BY <1>1, <1>2, <2>1 DEF MetByLeft
  <2> QED
    BY <1>1, <1>2, <2>1, <2>2
<1>4. CASE ~(i > j)
  <2>1. j \in 1..(l + r) /\ i \in 1..j /\ j >= i /\ j >= j
    BY <1>1, <1>2, <1>4
  <2>2. MetByRight(left, right, lid, j)
    BY <1>1, <1>2, <2>1 DEF MetByRight
  <2> QED
    BY <1>1, <1>2, <2>1, <2>2
<1> QED
  BY <1>3, <1>4

\* Two trees below the same symbol meet there, whatever the marks.
LEMMA FirstMetSame ==
  ASSUME symTable \in SymbolTables, NEW p \in Seq(DOMAIN symTable), Len(p) >= 1,
         NEW sym, NEW l, NEW r, FirstMet(sym, p, p, l, r)
  PROVE  sym = p[1]
<1>1. PICK n \in Nat : n = Len(p) /\ DOMAIN p = 1..n /\ n >= 1
  OBVIOUS
<1>2. 1 \in 1..(Len(p) + Len(p)) /\ MetByRight(p, p, l[1].id, 1)
  BY <1>1 DEF MetByRight
<1>3. PICK stop \in 1..(Len(p) + Len(p)) :
        /\ sym = p[stop]
        /\ \A k \in 1..(Len(p) + Len(p)) : k < stop => ~MetByRight(p, p, l[1].id, k)
  BY <1>2 DEF FirstMet
<1>4. stop \in Nat /\ ~(1 < stop) /\ stop >= 1
  BY <1>1, <1>2, <1>3
<1>5. stop = 1
  BY <1>4
<1> QED
  BY <1>3, <1>5

\* Where nothing is marked, nothing is common to the two paths if no symbol is met,
\* and nothing below the symbol that is met.
LEMMA NearestIs ==
  ASSUME symTable \in SymbolTables, Unmarked,
         NEW left, IsClimb(left), NEW right, IsClimb(right),
         NEW sym, NEW l, NEW r, l[1].id # 0, r[1].id # 0, FirstMet(sym, left, right, l, r)
  PROVE  /\ sym = NULL => \A i \in 1..Len(left), j \in 1..Len(right) : left[i] # right[j]
         /\ \A m \in 1..Len(left), n \in 1..Len(right) : left[m] = sym /\ right[n] = sym =>
              \A i \in 1..(m - 1), j \in 1..(n - 1) : left[i] # right[j]
<1>1. left \in Seq(DOMAIN symTable) /\ right \in Seq(DOMAIN symTable)
  BY DEF IsClimb
<1>2. PICK ll \in Nat : ll = Len(left) /\ DOMAIN left = 1..ll
  BY <1>1
<1>3. PICK lr \in Nat : lr = Len(right) /\ DOMAIN right = 1..lr
  BY <1>1
<1>4. /\ \A k \in 1..ll : left[k] \in DOMAIN symTable /\ left[k] # NULL
      /\ \A k \in 1..lr : right[k] \in DOMAIN symTable /\ right[k] # NULL
  <2>1. NULL \notin DOMAIN symTable
    BY Ranked, ForestAssumption
  <2> QED
    BY <1>1, <1>2, <1>3, <2>1
<1>5. \A k : MetByLeft(left, right, r[1].id, k) =>
        k \in 1..ll /\ \E j \in 1..(k - 1) : j \in 1..lr /\ right[j] = left[k]
  BY <1>2, <1>3, <1>4 DEF MetByLeft, Unmarked
<1>6. \A k : MetByRight(left, right, l[1].id, k) =>
        k \in 1..lr /\ \E j \in 1..k : j \in 1..ll /\ left[j] = right[k]
  BY <1>2, <1>3, <1>4 DEF MetByRight, Unmarked
<1>7. CASE \A k \in 1..(Len(left) + Len(right)) :
             ~MetByLeft(left, right, r[1].id, k) /\ ~MetByRight(left, right, l[1].id, k)
  <2>1. ASSUME NEW i \in 1..Len(left), NEW j \in 1..Len(right), left[i] = right[j] PROVE FALSE
    <3>1. \E k \in 1..(Len(left) + Len(right)) :
            MetByLeft(left, right, r[1].id, k) \/ MetByRight(left, right, l[1].id, k)
      BY <1>1, <2>1, MetAt
    <3> QED
      BY <1>7, <3>1
  <2>2. \A m \in 1..ll, n \in 1..lr :
          (\A i \in 1..(m - 1) : i \in 1..ll) /\ (\A j \in 1..(n - 1) : j \in 1..lr)
    OBVIOUS
  <2> QED
    BY <1>2, <1>3, <2>1, <2>2
<1>8. CASE \E stop \in 1..(Len(left) + Len(right)) :
             /\ \/ MetByLeft(left, right, r[1].id, stop) /\ sym = left[stop]
                \/ MetByRight(left, right, l[1].id, stop) /\ sym = right[stop]
             /\ \A k \in 1..(Len(left) + Len(right)) : k < stop =>
                  ~MetByLeft(left, right, r[1].id, k) /\ ~MetByRight(left, right, l[1].id, k)
  <2>1. PICK stop \in 1..(Len(left) + Len(right)) :
             /\ \/ MetByLeft(left, right, r[1].id, stop) /\ sym = left[stop]
                \/ MetByRight(left, right, l[1].id, stop) /\ sym = right[stop]
             /\ \A k \in 1..(Len(left) + Len(right)) : k < stop =>
                  ~MetByLeft(left, right, r[1].id, k) /\ ~MetByRight(left, right, l[1].id, k)
    BY <1>8
  <2>2. \E a \in 1..ll, b \in 1..lr : left[a] = sym /\ right[b] = sym /\ a <= stop /\ b <= stop
    <3>1. CASE MetByLeft(left, right, r[1].id, stop) /\ sym = left[stop]
      <4>1. stop \in 1..ll /\ \E j \in 1..(stop - 1) : j \in 1..lr /\ right[j] = left[stop]
        BY <1>5, <3>1
      <4> QED
        BY <3>1, <4>1
    <3>2. CASE MetByRight(left, right, l[1].id, stop) /\ sym = right[stop]
      <4>1. stop \in 1..lr /\ \E j \in 1..stop : j \in 1..ll /\ left[j] = right[stop]
        BY <1>6, <3>2
      <4> QED
        BY <3>2, <4>1
    <3> QED
      BY <2>1, <3>1, <3>2
  <2>3. PICK a \in 1..ll, b \in 1..lr : left[a] = sym /\ right[b] = sym /\ a <= stop /\ b <= stop
    BY <2>2
  <2>4. sym # NULL
    BY <1>4, <2>3
  <2>5. ASSUME NEW m \in 1..Len(left), NEW n \in 1..Len(right), left[m] = sym, right[n] = sym,
               NEW i \in 1..(m - 1), NEW j \in 1..(n - 1), left[i] = right[j]
        PROVE  FALSE
    <3>1. m = a /\ n = b
      BY <1>2, <1>3, <2>3, <2>5, ClimbOnce
    <3>2. i \in 1..Len(left) /\ j \in 1..Len(right) /\ i < stop /\ j < stop
      BY <1>2, <1>3, <2>3, <3>1
    <3>3. PICK k \in 1..(Len(left) + Len(right)) :
            /\ k = i \/ k = j
            /\ k >= i /\ k >= j
            /\ MetByLeft(left, right, r[1].id, k) \/ MetByRight(left, right, l[1].id, k)
      <4>1. left[i] = right[j] /\ i \in 1..Len(left) /\ j \in 1..Len(right)
        BY <2>5, <3>2
      <4> QED
        BY <1>1, <4>1, MetAt, Zenon
    <3>4. k < stop
      BY <3>2, <3>3
    <3> QED
      BY <2>1, <3>3, <3>4
  <2> QED
    BY <2>4, <2>5
<1> QED
  BY <1>7, <1>8 DEF FirstMet

-----------------------------------------------------------------------------
(***************************************************************************)
(* Merging simple trees.                                                   *)
(***************************************************************************)
\* What a merge has to establish.
MergedSimply == Merging /\ (Regular => OneName /\ Above(theTree))

LEMMA MergeFacts ==
  ASSUME IInv, phase = "merge", scan \in DOMAIN trees, NEW r, r = trees[scan]
  PROVE  /\ GoodTree(theTree) /\ GoodTree(r) /\ Ids(theTree) \cap Ids(r) = {}
         /\ Ids(theTree) \subseteq 1..built /\ Ids(r) \subseteq 1..built
         /\ Bare(theTree) \subseteq AllBare /\ Bare(r) \subseteq AllBare
         /\ theTree[1].id # 0 /\ theTree[1].parent \in Name \cup {NULL}
         /\ r[1].id # 0 /\ r[1].parent \in Name \cup {NULL}
         /\ scan \in 1..Len(trees)
<1>1. built \in Nat /\ IsForest(trees, theTree, built) /\ DOMAIN trees = 1..Len(trees)
  BY InvFacts
<1>2. PICK s \in 1..Len(trees) : s = scan
  BY <1>1
<1>3. GoodTree(theTree)
  BY <1>1 DEF IInv, Typed, IsForest
<1>4. /\ GoodTree(r) /\ Ids(r) \subseteq 1..built /\ Ids(theTree) \subseteq 1..built
      /\ Bare(r) \subseteq AllBare /\ Bare(theTree) \subseteq AllBare
  BY <1>1, <1>2, ForestFacts DEF AllBare
<1>5. Ids(theTree) \cap Ids(r) = {}
  BY <1>1, <1>2 DEF IsForest
<1>6. /\ theTree[1].id \in 1..built /\ theTree[1].parent \in Name \cup {NULL}
      /\ r[1].id \in 1..built /\ r[1].parent \in Name \cup {NULL}
  BY <1>3, <1>4, RootIs
<1>7. theTree[1].id # 0 /\ r[1].id # 0
  BY <1>1, <1>6
<1> QED
  BY <1>2, <1>3, <1>4, <1>5, <1>6, <1>7

\* The trees and nodes after a merge.
LEMMA JoinedTrees ==
  ASSUME IInv, scan \in DOMAIN trees, NEW T, theTree' = T, trees' = RemoveAt(trees, scan)
  PROVE  /\ Len(trees) = 1 => trees' = <<>>
         /\ \A t \in 1..Len(trees') : \E u \in 1..Len(trees) : trees'[t] = trees[u]
         /\ \A x \in AllBare' : x \in Bare(T) \/ x \in AllBare
<1>1. /\ trees \in Seq(Seq(Nodes)) /\ DOMAIN trees = 1..Len(trees) /\ Len(trees) \in Nat
      /\ IsForest(trees, theTree, built)
  BY InvFacts DEF IsForest
<1>2. PICK s \in 1..Len(trees) : s = scan
  BY <1>1
<1>3. /\ trees' \in Seq(Seq(Nodes)) /\ Len(trees') = Len(trees) - 1
      /\ \A p \in 1..(Len(trees) - 1) : trees'[p] = IF p < s THEN trees[p] ELSE trees[p + 1]
  <2>1. trees \in Seq(Seq(Nodes))
    BY <1>1
  <2>2. /\ RemoveAt(trees, s) \in Seq(Seq(Nodes)) /\ Len(RemoveAt(trees, s)) = Len(trees) - 1
        /\ \A p \in 1..(Len(trees) - 1) :
             RemoveAt(trees, s)[p] = IF p < s THEN trees[p] ELSE trees[p + 1]
    BY <2>1, RemoveAtIs, Zenon
  <2>3. trees' = RemoveAt(trees, s)
    BY <1>2
  <2> QED
    BY <2>2, <2>3
<1>4. Len(trees) = 1 => trees' = <<>>
  BY <1>3, EmptySeq
<1>5. ASSUME NEW t \in 1..Len(trees') PROVE \E u \in 1..Len(trees) : trees'[t] = trees[u]
  <2>1. t \in 1..(Len(trees) - 1) /\ t \in 1..Len(trees) /\ t + 1 \in 1..Len(trees)
    BY <1>1, <1>3
  <2> QED
    BY <1>3, <2>1
<1>6. ASSUME NEW x \in AllBare' PROVE x \in Bare(T) \/ x \in AllBare
  <2>1. PICK ts : ts = trees'
    OBVIOUS
  <2>2. x \in Bares(ts, T)
    BY <1>6, <2>1 DEF AllBare
  <2>3. x \in Bare(T) \/ \E t \in 1..Len(ts) : x \in Bare(ts[t])
    BY <2>2, InForest
  <2>4. \A t \in 1..Len(trees) : Bare(trees[t]) \subseteq AllBare
    BY <1>1, ForestFacts DEF AllBare
  <2> QED
    BY <1>5, <2>1, <2>3, <2>4
<1> QED
  BY <1>4, <1>5, <1>6

LEMMA InsertKeeps ==
  ASSUME NEW tree, GoodTree(tree), NEW sub, GoodTree(sub), Has(tree, sub[1].parent),
         Ids(tree) \cap Ids(sub) = {}, NEW T, T = Insert(tree, sub, sub[1].parent)
  PROVE  /\ T[1] = tree[1] /\ Bare(T) = Bare(tree) \cup Bare(sub)
         /\ \A name : Has(tree, name) => Has(T, name)
<1>1. Joins(T, tree, sub) /\ T[1] = tree[1]
  BY InsertGood
<1>2. tree \in Seq(Nodes) /\ T \in Seq(Nodes) /\ Bare(T) = Bare(tree) \cup Bare(sub)
  BY <1>1 DEF Joins, GoodTree, Shaped
<1>3. ASSUME NEW name, Has(tree, name) PROVE Has(T, name)
  BY <1>2, <1>3, HasBare
<1> QED
  BY <1>1, <1>2, <1>3

\* The tree that the scan has reached hangs below a node of the big one.
LEMMA HungSimply ==
  ASSUME IInv, phase = "merge", Merging, Regular => OneName /\ Above(theTree),
         scan \in DOMAIN trees, NEW r, r = trees[scan],
         Has(theTree, r[1].parent), theTree' = Insert(theTree, r, r[1].parent),
         trees' = RemoveAt(trees, scan), UNCHANGED <<scan, symTable, atEnd>>
  PROVE  MergedSimply'
<1>1. /\ GoodTree(theTree) /\ GoodTree(r) /\ Ids(theTree) \cap Ids(r) = {}
      /\ Bare(theTree) \subseteq AllBare /\ Bare(r) \subseteq AllBare
      /\ scan \in 1..Len(trees)
  BY MergeFacts
<1>2. PICK T : T = Insert(theTree, r, r[1].parent)
  OBVIOUS
<1>3. /\ T[1] = theTree[1] /\ Bare(T) = Bare(theTree) \cup Bare(r)
      /\ \A name : Has(theTree, name) => Has(T, name)
  BY <1>1, <1>2, InsertKeeps
<1>4. /\ Len(trees) = 1 => trees' = <<>>
      /\ \A t \in 1..Len(trees') : \E u \in 1..Len(trees) : trees'[t] = trees[u]
      /\ \A x \in AllBare' : x \in AllBare
  BY <1>1, <1>2, <1>3, JoinedTrees
<1>5. /\ \A name : Path(name)' = Path(name)
      /\ CommonAncestors' = CommonAncestors /\ (Regular' <=> Regular)
  BY SameData
<1>6. ASSUME Regular PROVE OneName' /\ Above(theTree)'
  <2>1. OneName'
    BY <1>4, <1>6 DEF OneName
  <2>2. PICK p : p = theTree[1].parent /\ p = theTree'[1].parent
    BY <1>2, <1>3
  <2>3. \A x \in AllBare' : x.ident \in DOMAIN symTable => x.ident \notin ToSet(Path(p))
    BY <1>4, <1>6, <2>2 DEF Above
  <2>4. Above(theTree)'
    BY <1>5, <2>2, <2>3 DEF Above
  <2> QED
    BY <2>1, <2>4
<1>7. Merging'
  <2>1. CASE trees = <<>>
    <3>1. Len(trees) = 0
      BY <2>1
    <3> QED
      BY <1>1, <3>1
  <2>2. CASE \E P \in Name \cup {NULL} : SameParent(P)
    <3>1. PICK P \in Name \cup {NULL} : SameParent(P)
      BY <2>2
    <3>2. r[1].parent = P
      BY <1>1, <3>1 DEF SameParent
    <3>3. Has(theTree', P)
      BY <1>2, <1>3, <3>2
    <3>4. \A t \in 1..Len(trees') : trees'[t][1].parent = P
      BY <1>4, <3>1 DEF SameParent
    <3>5. SameParent(P)'
      BY <1>5, <3>1, <3>3, <3>4 DEF SameParent
    <3> QED
      BY <3>5 DEF Merging
  <2>3. CASE TwoLeft
    BY <1>4, <2>3 DEF TwoLeft, Merging
  <2> QED
    BY <2>1, <2>2, <2>3 DEF Merging
<1> QED
  BY <1>5, <1>6, <1>7 DEF MergedSimply

\* The big tree, which is not big yet, hangs below a node of the one reached.
LEMMA HungInSimply ==
  ASSUME IInv, phase = "merge", Merging, Regular => OneName /\ Above(theTree),
         scan \in DOMAIN trees, NEW r, r = trees[scan], ~Has(theTree, r[1].parent),
         Has(r, theTree[1].parent), theTree' = Insert(r, theTree, theTree[1].parent),
         trees' = RemoveAt(trees, scan), UNCHANGED <<scan, symTable, atEnd>>
  PROVE  MergedSimply'
<1>1. /\ GoodTree(theTree) /\ GoodTree(r) /\ Ids(r) \cap Ids(theTree) = {}
      /\ Bare(theTree) \subseteq AllBare /\ Bare(r) \subseteq AllBare
      /\ scan \in 1..Len(trees)
  BY MergeFacts
<1>2. PICK T : T = Insert(r, theTree, theTree[1].parent)
  OBVIOUS
<1>3. /\ Bare(T) = Bare(r) \cup Bare(theTree)
      /\ \A name : Has(r, name) => Has(T, name)
  BY <1>1, <1>2, InsertKeeps
<1>4. /\ Len(trees) = 1 => trees' = <<>>
      /\ \A t \in 1..Len(trees') : \E u \in 1..Len(trees) : trees'[t] = trees[u]
      /\ \A x \in AllBare' : x \in AllBare
  BY <1>1, <1>2, <1>3, JoinedTrees
<1>5. /\ \A name : Path(name)' = Path(name)
      /\ CommonAncestors' = CommonAncestors /\ (Regular' <=> Regular)
  BY SameData
<1>6. Raw /\ Merging'
  <2>1. CASE trees = <<>>
    <3>1. Len(trees) = 0
      BY <2>1
    <3> QED
      BY <1>1, <3>1
  <2>2. CASE \E P \in Name \cup {NULL} : SameParent(P)
    <3>1. PICK P \in Name \cup {NULL} : SameParent(P)
      BY <2>2
    <3>2. r[1].parent = P
      BY <1>1, <3>1 DEF SameParent
    <3>3. Raw /\ theTree[1].parent = P
      BY <3>1, <3>2 DEF SameParent
    <3>4. Has(theTree', P)
      BY <1>2, <1>3, <3>3
    <3>5. \A t \in 1..Len(trees') : trees'[t][1].parent = P
      BY <1>4, <3>1 DEF SameParent
    <3>6. SameParent(P)'
      BY <1>5, <3>1, <3>4, <3>5 DEF SameParent
    <3> QED
      BY <3>3, <3>6 DEF Merging
  <2>3. CASE TwoLeft
    BY <1>4, <2>3 DEF TwoLeft, Merging
  <2> QED
    BY <2>1, <2>2, <2>3 DEF Merging
<1>7. ASSUME Regular PROVE OneName' /\ Above(theTree)'
  <2>1. \A x \in AllBare' : x.ident \notin DOMAIN symTable'
    BY <1>4, <1>6, <1>7, RawNames
  <2> QED
    BY <1>4, <1>7, <2>1 DEF OneName, Above
<1> QED
  BY <1>5, <1>6, <1>7 DEF MergedSimply

\* The nodes that a merge builds have names of their own if what is above the two
\* trees has nothing in common below the symbol where they are joined.
LEMMA BuiltNames ==
  ASSUME symTable \in SymbolTables, built \in Nat, Regular, Raw,
         NEW l, NEW r, Bare(l) \cup Bare(r) \subseteq AllBare,
         NEW left, IsClimb(left), NEW right, IsClimb(right),
         NEW m \in 1..Len(left), NEW n \in 1..Len(right), left[m] = right[n],
         \A i \in 1..(m - 1), j \in 1..(n - 1) : left[i] # right[j],
         NEW T, BuiltUpTo(T, l, r, left, right, m, n), theTree' = T,
         UNCHANGED <<symTable, atEnd>>,
         \A x \in AllBare' : x \in Bare(T) \/ x \in AllBare
  PROVE  OneName' /\ Above(theTree)'
<1>1. left \in Seq(DOMAIN symTable) /\ right \in Seq(DOMAIN symTable)
  BY DEF IsClimb
<1>2. PICK ll \in Nat : ll = Len(left)
  BY <1>1
<1>3. PICK lr \in Nat : lr = Len(right)
  BY <1>1
<1>4. /\ \A k \in 1..ll : left[k] \in DOMAIN symTable
      /\ \A k \in 1..lr : right[k] \in DOMAIN symTable
  BY <1>1, <1>2, <1>3
<1>5. /\ \A i, j \in 1..ll : left[i] = left[j] => i = j
      /\ \A i, j \in 1..lr : right[i] = right[j] => i = j
  BY <1>2, <1>3, ClimbOnce
<1>6. PICK c \in Nat, e \in Nat : \A x \in Bare(T) :
         \/ x \in Bare(l) \cup Bare(r)
         \/ \E k \in 1..(m - 1) : x.ident = left[k] /\ x.id = built + k
         \/ \E k \in 1..(n - 1) : x.ident = right[k] /\ x.id = c + k
         \/ x.ident = left[m] /\ x.id = e
  BY Zenon DEF BuiltUpTo
<1>7. \A x \in AllBare' :
         \/ x \in AllBare
         \/ \E k \in 1..(m - 1) : x.ident = left[k] /\ x.id = built + k
         \/ \E k \in 1..(n - 1) : x.ident = right[k] /\ x.id = c + k
         \/ x.ident = left[m] /\ x.id = e
  BY <1>6
<1>8. /\ m \in 1..ll /\ n \in 1..lr
      /\ \A k \in 1..(m - 1) : k \in 1..ll /\ k # m
      /\ \A k \in 1..(n - 1) : k \in 1..lr /\ k # n
  BY <1>2, <1>3
<1>9. OneName /\ \A x \in AllBare : x.ident \notin DOMAIN symTable
  BY RawNames
<1>10. ASSUME NEW x \in AllBare', NEW y \in AllBare', x.ident = y.ident PROVE x.id = y.id
  <2>1. CASE x \in AllBare
    <3>1. x.ident \notin DOMAIN symTable
      BY <1>9, <2>1
    <3>2. y \in AllBare
      BY <1>4, <1>7, <1>8, <1>10, <3>1
    <3> QED
      BY <1>9, <1>10, <2>1, <3>2 DEF OneName
  <2>2. CASE \E k \in 1..(m - 1) : x.ident = left[k] /\ x.id = built + k
    <3>1. PICK k \in 1..(m - 1) : x.ident = left[k] /\ x.id = built + k
      BY <2>2
    <3>2. y \notin AllBare
      BY <1>4, <1>8, <1>9, <1>10, <3>1
    <3>3. y.ident # left[m]
      BY <1>5, <1>8, <1>10, <3>1
    <3>4. \A i \in 1..(n - 1) : y.ident # right[i]
      BY <1>10, <3>1
    <3>5. PICK i \in 1..(m - 1) : y.ident = left[i] /\ y.id = built + i
      BY <1>7, <3>2, <3>3, <3>4, Zenon
    <3>6. i = k
      BY <1>5, <1>8, <1>10, <3>1, <3>5
    <3> QED
      BY <3>1, <3>5, <3>6
  <2>3. CASE \E k \in 1..(n - 1) : x.ident = right[k] /\ x.id = c + k
    <3>1. PICK k \in 1..(n - 1) : x.ident = right[k] /\ x.id = c + k
      BY <2>3
    <3>2. y \notin AllBare
      BY <1>4, <1>8, <1>9, <1>10, <3>1
    <3>3. y.ident # left[m]
      BY <1>5, <1>8, <1>10, <3>1
    <3>4. \A i \in 1..(m - 1) : y.ident # left[i]
      BY <1>10, <3>1
    <3>5. PICK i \in 1..(n - 1) : y.ident = right[i] /\ y.id = c + i
      BY <1>7, <3>2, <3>3, <3>4, Zenon
    <3>6. i = k
      BY <1>5, <1>8, <1>10, <3>1, <3>5
    <3> QED
      BY <3>1, <3>5, <3>6
  <2>4. CASE x.ident = left[m] /\ x.id = e
    <3>1. y \notin AllBare
      BY <1>4, <1>8, <1>9, <1>10, <2>4
    <3>2. \A i \in 1..(m - 1) : y.ident # left[i]
      BY <1>5, <1>8, <1>10, <2>4
    <3>3. \A i \in 1..(n - 1) : y.ident # right[i]
      BY <1>5, <1>8, <1>10, <2>4
    <3> QED
      BY <1>7, <2>4, <3>1, <3>2, <3>3
  <2> QED
    BY <1>7, <2>1, <2>2, <2>3, <2>4
<1>11. PICK p : p = T[1].parent /\ p = symTable[left[m]]
  BY DEF BuiltUpTo
<1>12. \A k \in 1..m : left[k] \notin ToSet(Path(p))
  <2> SUFFICES ASSUME NEW k \in 1..m PROVE left[k] \notin ToSet(Path(p))
    OBVIOUS
  <2>1. k \in 1..Len(left) /\ k <= m
    BY <1>2
  <2> QED
    BY <1>11, <2>1, NotAbove
<1>13. \A k \in 1..n : right[k] \notin ToSet(Path(p))
  <2> SUFFICES ASSUME NEW k \in 1..n PROVE right[k] \notin ToSet(Path(p))
    OBVIOUS
  <2>1. k \in 1..Len(right) /\ k <= n
    BY <1>3
  <2> QED
    BY <1>11, <2>1, NotAbove
<1>14. ASSUME NEW x \in AllBare', x.ident \in DOMAIN symTable PROVE x.ident \notin ToSet(Path(p))
  <2>1. x \notin AllBare
    BY <1>9, <1>14
  <2>2. \/ \E k \in 1..m : x.ident = left[k]
        \/ \E k \in 1..n : x.ident = right[k]
    <3>1. m \in 1..m /\ (\A k \in 1..(m - 1) : k \in 1..m) /\ (\A k \in 1..(n - 1) : k \in 1..n)
      BY <1>8
    <3> QED
      BY <1>7, <2>1, <3>1
  <2> QED
    BY <1>12, <1>13, <2>2
<1>15. \A name : Path(name)' = Path(name)
  BY SameData
<1>16. Above(theTree)'
  <2>1. theTree'[1].parent = p
    BY <1>11
  <2> QED
    BY <1>14, <1>15, <2>1 DEF Above
<1> QED
  BY <1>10, <1>16 DEF OneName

\* The two trees are expanded to a common ancestor.
LEMMA ExpandedSimply ==
  ASSUME IInv, phase = "merge", Merging, scan \in DOMAIN trees,
         NEW r, r = trees[scan], ~Has(theTree, r[1].parent),
         NEW sym, sym # NULL,
         FirstMet(sym, Path(theTree[1].parent), Path(r[1].parent), theTree, r),
         sym \in ToSet(Path(theTree[1].parent)), sym \in ToSet(Path(r[1].parent)),
         theTree' = MergeByComplete(theTree, r, sym),
         trees' = RemoveAt(trees, scan), UNCHANGED <<scan, symTable, atEnd>>
  PROVE  MergedSimply'
<1>1. /\ GoodTree(theTree) /\ GoodTree(r) /\ Ids(theTree) \cap Ids(r) = {}
      /\ Ids(theTree) \subseteq 1..built /\ Ids(r) \subseteq 1..built
      /\ Bare(theTree) \subseteq AllBare /\ Bare(r) \subseteq AllBare
      /\ theTree[1].id # 0 /\ theTree[1].parent \in Name \cup {NULL}
      /\ r[1].id # 0 /\ r[1].parent \in Name \cup {NULL}
      /\ scan \in 1..Len(trees)
  BY MergeFacts
<1>2. symTable \in SymbolTables /\ built \in Nat
  BY InvFacts
<1>3. PICK left : left = Path(theTree[1].parent)
  OBVIOUS
<1>4. PICK right : right = Path(r[1].parent)
  OBVIOUS
<1>5. IsClimb(left) /\ left \in Seq(DOMAIN symTable) /\ IsClimb(right)
  BY <1>1, <1>2, <1>3, <1>4, PathClimbs
<1>6. PICK T : T = MergeByComplete(theTree, r, sym)
  OBVIOUS
<1>7. /\ GoodTree(T)
      /\ \E m \in 1..Len(left), n \in 1..Len(right) :
           left[m] = sym /\ right[n] = sym /\ BuiltUpTo(T, theTree, r, left, right, m, n)
  BY <1>1, <1>2, <1>3, <1>4, <1>6, MergeByCompleteIs DEF Merges
<1>8. PICK m \in 1..Len(left), n \in 1..Len(right) :
        left[m] = sym /\ right[n] = sym /\ BuiltUpTo(T, theTree, r, left, right, m, n)
  BY <1>7
<1>9. /\ Len(trees) = 1 => trees' = <<>>
      /\ \A t \in 1..Len(trees') : \E u \in 1..Len(trees) : trees'[t] = trees[u]
      /\ \A x \in AllBare' : x \in Bare(T) \/ x \in AllBare
  BY <1>1, <1>6, JoinedTrees
<1>10. CommonAncestors' = CommonAncestors /\ (Regular' <=> Regular)
  BY SameData
<1>11. /\ Raw /\ Merging'
       /\ \A i \in 1..(m - 1), j \in 1..(n - 1) : left[i] # right[j]
  <2>1. CASE trees = <<>>
    <3>1. Len(trees) = 0
      BY <2>1
    <3> QED
      BY <1>1, <3>1
  <2>2. CASE \E P \in Name \cup {NULL} : SameParent(P)
    <3>1. PICK P \in Name \cup {NULL} : SameParent(P)
      BY <2>2
    <3>2. r[1].parent = P
      BY <1>1, <3>1 DEF SameParent
    <3>3. Raw /\ theTree[1].parent = P
      BY <3>1, <3>2 DEF SameParent
    <3>4. left = Path(P) /\ right = left
      BY <1>3, <1>4, <3>2, <3>3
    <3>5. P \in DOMAIN symTable /\ Len(left) >= 1 /\ left[1] = P
      BY <1>2, <1>3, <3>3, <3>4, PathClimbs
    <3>6. sym = left[1]
      BY <1>2, <1>3, <1>4, <1>5, <3>4, <3>5, FirstMetSame
    <3>7. m = 1 /\ n = 1
      <4>1. 1 \in 1..Len(left) /\ n \in 1..Len(left) /\ left[m] = left[1] /\ left[n] = left[1]
        BY <1>5, <1>8, <3>4, <3>5, <3>6
      <4> QED
        BY <1>2, <1>5, <4>1, ClimbOnce
    <3>8. Has(theTree', P)
      <4>1. T[1].ident = P /\ 1 \in DOMAIN T
        BY <1>7, <1>8, <3>5, <3>6, TreeFacts DEF BuiltUpTo, GoodTree
      <4> QED
        BY <1>6, <4>1 DEF Has
    <3>9. \A t \in 1..Len(trees') : trees'[t][1].parent = P
      BY <1>9, <3>1 DEF SameParent
    <3>10. SameParent(P)'
      BY <1>10, <3>1, <3>5, <3>8, <3>9 DEF SameParent
    <3>11. Merging'
      BY <3>10 DEF Merging
    <3>12. \A i \in 1..(m - 1), j \in 1..(n - 1) : left[i] # right[j]
      BY <3>7
    <3> QED
      BY <3>3, <3>11, <3>12
  <2>3. CASE TwoLeft
    <3>1. Len(trees) = 1 /\ Raw
      BY <2>3 DEF TwoLeft
    <3>2. scan = 1
      BY <1>1, <3>1
    <3>3. Unmarked
      BY <2>3, <3>2 DEF TwoLeft
    <3>4. \A i \in 1..(m - 1), j \in 1..(n - 1) : left[i] # right[j]
      <4>1. FirstMet(sym, left, right, theTree, r)
        BY <1>3, <1>4
      <4> QED
        BY <1>1, <1>2, <1>5, <1>8, <3>3, <4>1, NearestIs
    <3> QED
      BY <1>9, <3>1, <3>4 DEF Merging
  <2> QED
    BY <2>1, <2>2, <2>3 DEF Merging
<1>12. ASSUME Regular PROVE OneName' /\ Above(theTree)'
  <2>1. /\ symTable \in SymbolTables /\ built \in Nat /\ Regular /\ Raw
        /\ Bare(theTree) \cup Bare(r) \subseteq AllBare
        /\ IsClimb(left) /\ IsClimb(right)
        /\ left[m] = right[n]
        /\ BuiltUpTo(T, theTree, r, left, right, m, n) /\ theTree' = T /\ UNCHANGED <<symTable, atEnd>>
    BY <1>1, <1>2, <1>5, <1>6, <1>8, <1>11, <1>12
  <2>2. \A i \in 1..(m - 1), j \in 1..(n - 1) : left[i] # right[j]
    BY <1>11
  <2>3. \A x \in AllBare' : x \in Bare(T) \/ x \in AllBare
    BY <1>9
  <2> QED
    BY <2>1, <2>2, <2>3, BuiltNames
<1> QED
  BY <1>10, <1>11, <1>12 DEF MergedSimply

\* The trees have no common ancestor.
LEMMA PassedSimply ==
  ASSUME IInv, phase = "merge", Merging, Regular => OneName /\ Above(theTree),
         scan \in DOMAIN trees, NEW r, r = trees[scan], ~Has(theTree, r[1].parent),
         FirstMet(NULL, Path(theTree[1].parent), Path(r[1].parent), theTree, r),
         scan' = scan + 1, UNCHANGED <<theTree, trees, merged, symTable, atEnd>>
  PROVE  MergedSimply'
<1>1. /\ theTree[1].id # 0 /\ theTree[1].parent \in Name \cup {NULL}
      /\ r[1].id # 0 /\ r[1].parent \in Name \cup {NULL}
      /\ scan \in 1..Len(trees)
  BY MergeFacts
<1>2. symTable \in SymbolTables
  BY InvFacts
<1>3. /\ \A name : Path(name)' = Path(name)
      /\ CommonAncestors' = CommonAncestors /\ (Regular' <=> Regular)
      /\ \A x : IsDefinition(x)' <=> IsDefinition(x)
  BY SameData
<1>4. AllBare' = AllBare
  BY DEF AllBare
<1>5. OneName' <=> OneName
  BY <1>4 DEF OneName
<1>6. Above(theTree)' <=> Above(theTree)
  <2>1. PICK p : p = theTree[1].parent /\ p = theTree'[1].parent
    OBVIOUS
  <2> QED
    BY <1>3, <1>4, <2>1 DEF Above
<1>7. Raw' <=> Raw
  BY <1>3, <1>4 DEF Raw
<1>8. PICK left : left = Path(theTree[1].parent)
  OBVIOUS
<1>9. PICK right : right = Path(r[1].parent)
  OBVIOUS
<1>10. /\ IsClimb(left) /\ left \in Seq(DOMAIN symTable)
       /\ ToSet(left) = {left[k] : k \in 1..Len(left)}
       /\ theTree[1].parent \in DOMAIN symTable =>
            Len(left) >= 1 /\ left[1] = theTree[1].parent
       /\ IsClimb(right) /\ ToSet(right) = {right[k] : k \in 1..Len(right)}
  BY <1>1, <1>2, <1>8, <1>9, PathClimbs
<1>11. Merging'
  <2>1. CASE trees = <<>>
    <3>1. Len(trees) = 0
      BY <2>1
    <3> QED
      BY <1>1, <3>1
  <2>2. CASE \E P \in Name \cup {NULL} : SameParent(P)
    <3>1. PICK P \in Name \cup {NULL} : SameParent(P)
      BY <2>2
    <3>2. r[1].parent = P
      BY <1>1, <3>1 DEF SameParent
    <3>3. Raw /\ theTree[1].parent = P
      BY <3>1, <3>2 DEF SameParent
    <3>4. P \notin DOMAIN symTable
      <4> SUFFICES ASSUME P \in DOMAIN symTable PROVE FALSE
        OBVIOUS
      <4>1. Len(left) >= 1 /\ left[1] = P /\ right = left
        BY <1>8, <1>9, <1>10, <3>2, <3>3
      <4>2. FirstMet(NULL, left, left, theTree, r)
        BY <1>8, <1>9, <4>1
      <4>3. NULL = P
        BY <1>2, <1>10, <4>1, <4>2, FirstMetSame
      <4> QED
        BY <1>2, <4>3, Ranked, ForestAssumption
    <3>5. CommonAncestors = {}
      BY <3>1, <3>4 DEF SameParent
    <3>6. \A t \in 1..Len(trees') : trees'[t][1].parent = P
      BY <3>1 DEF SameParent
    <3>7. SameParent(P)'
      BY <1>3, <1>7, <3>3, <3>4, <3>5, <3>6 DEF SameParent
    <3> QED
      BY <3>7 DEF Merging
  <2>3. CASE TwoLeft
    <3>1. Len(trees) = 1 /\ Raw /\ merged = FALSE
      BY <2>3 DEF TwoLeft
    <3>2. scan = 1 /\ scan' = 2
      BY <1>1, <3>1
    <3>3. Unmarked
      BY <2>3, <3>2 DEF TwoLeft
    <3>4. \A i \in 1..Len(left), j \in 1..Len(right) : left[i] # right[j]
      <4>1. FirstMet(NULL, left, right, theTree, r)
        BY <1>8, <1>9
      <4> QED
        BY <1>1, <1>2, <1>10, <3>3, <4>1, NearestIs
    <3>5. CommonAncestors = {}
      <4>1. CommonAncestors \subseteq ToSet(left) \cap ToSet(right)
        BY <1>8, <1>9, <2>3, <3>2 DEF TwoLeft
      <4> QED
        BY <1>10, <3>4, <4>1
    <3>6. CommonAncestors' = {} /\ scan' # 1
      BY <1>3, <3>2, <3>5
    <3>7. TwoLeft'
      BY <1>7, <3>1, <3>6 DEF TwoLeft
    <3> QED
      BY <3>7 DEF Merging
  <2> QED
    BY <2>1, <2>2, <2>3 DEF Merging
<1> QED
  BY <1>3, <1>5, <1>6, <1>11 DEF MergedSimply

LEMMA SimpleMerge ==
  ASSUME IInv, SimpleInv, MergeNext
  PROVE  SimpleInv'
<1>1. /\ phase = "merge" /\ phase' = "merge" /\ scan \in DOMAIN trees
      /\ UNCHANGED <<symTable, atEnd>>
  BY DEF MergeNext
<1>2. Simple' <=> Simple
  BY <1>1, SameData
<1>3. ASSUME Simple PROVE MergedSimply'
  <2>1. Merging /\ (Regular => OneName /\ Above(theTree))
    BY <1>1, <1>3 DEF SimpleInv
  <2>2. PICK r : r = trees[scan]
    OBVIOUS
  <2>3. CASE /\ Has(theTree, r[1].parent)
             /\ theTree' = Insert(theTree, r, r[1].parent)
             /\ trees' = RemoveAt(trees, scan) /\ scan' = scan
    BY <1>1, <2>1, <2>2, <2>3, HungSimply
  <2>4. CASE /\ ~Has(theTree, r[1].parent) /\ Has(r, theTree[1].parent)
             /\ theTree' = Insert(r, theTree, theTree[1].parent)
             /\ trees' = RemoveAt(trees, scan) /\ scan' = scan
    BY <1>1, <2>1, <2>2, <2>4, HungInSimply
  <2>5. PICK ac : ac = AncestorCommon(theTree, r)
    OBVIOUS
  <2>6. /\ ac.symbol # NULL => /\ ac.symbol \in ToSet(Path(theTree[1].parent))
                               /\ ac.symbol \in ToSet(Path(r[1].parent))
        /\ FirstMet(ac.symbol, Path(theTree[1].parent), Path(r[1].parent), theTree, r)
    <3>1. /\ symTable \in SymbolTables /\ wall \in [DOMAIN symTable -> Nat] /\ WallTrue /\ OneNode
      BY InvFacts
    <3>2. /\ GoodTree(theTree) /\ Bare(theTree) \subseteq AllBare /\ theTree[1].id # 0
          /\ GoodTree(r) /\ Bare(r) \subseteq AllBare /\ r[1].id # 0
      BY <1>1, <2>2, MergeFacts
    <3> QED
      BY <2>5, <3>1, <3>2, AncestorCommonIs
  <2>7. PICK sym : sym = ac.symbol
    OBVIOUS
  <2>8. CASE /\ ~Has(theTree, r[1].parent) /\ sym # NULL
             /\ theTree' = MergeByComplete(theTree, r, sym)
             /\ trees' = RemoveAt(trees, scan) /\ scan' = scan
    <3>1. /\ FirstMet(sym, Path(theTree[1].parent), Path(r[1].parent), theTree, r)
          /\ sym \in ToSet(Path(theTree[1].parent)) /\ sym \in ToSet(Path(r[1].parent))
      BY <2>6, <2>7, <2>8
    <3> QED
      BY <1>1, <2>1, <2>2, <2>8, <3>1, ExpandedSimply
  <2>9. CASE /\ ~Has(theTree, r[1].parent) /\ sym = NULL
             /\ scan' = scan + 1 /\ UNCHANGED <<theTree, trees, merged>>
    <3>1. FirstMet(NULL, Path(theTree[1].parent), Path(r[1].parent), theTree, r)
      BY <2>6, <2>7, <2>9
    <3> QED
      BY <1>1, <2>1, <2>2, <2>9, <3>1, PassedSimply
  <2> QED
    BY <2>2, <2>3, <2>4, <2>5, <2>7, <2>8, <2>9 DEF MergeNext, Without
<1> QED
  BY <1>1, <1>2, <1>3 DEF SimpleInv, MergedSimply

-----------------------------------------------------------------------------
(***************************************************************************)
(* The other actions.                                                      *)
(***************************************************************************)
\* END finds no nodes but those of the definitions.
LEMMA FoundRaw ==
  ASSUME IInv, EndReading
  PROVE  Raw'
<1>1. AllBare' = AllBare
  BY EndReadingStep
<1>2. atEnd' = trees /\ theTree = <<>>
  BY DEF EndReading, IInv, Typed
<1>3. IsForest(trees, <<>>, built) /\ DOMAIN trees = 1..Len(trees)
  BY <1>2, InvFacts
<1>4. ASSUME NEW n \in AllBare PROVE IsDefinition(n)'
  <2>1. PICK t \in 1..Len(trees) : n \in Bare(trees[t])
    BY <1>2, InForest, NoTree DEF AllBare
  <2>2. GoodTree(trees[t])
    BY <1>3, ForestFacts
  <2>3. trees[t] \in Seq(Nodes) /\ DOMAIN trees[t] = 1..Len(trees[t])
    BY <2>2, TreeFacts DEF GoodTree, Shaped
  <2>4. PICK i \in 1..Len(trees[t]) :
          n.id = trees[t][i].id /\ n.ident = trees[t][i].ident /\ n.parent = trees[t][i].parent
    BY <2>1, <2>3, BareIds
  <2>5. trees[t][i] \in ToSet(trees[t])
    BY <2>3, <2>4, Zenon DEF ToSet
  <2>6. trees[t][i] \in Definitions'
    BY <1>2, <1>3, <2>1, <2>5, Zenon DEF Definitions
  <2> QED
    BY <2>4, <2>6 DEF IsDefinition
<1> QED
  BY <1>1, <1>4 DEF Raw

\* The merging starts with one tree, with two, or with trees that have one parent.
LEMMA StartsSimply ==
  ASSUME IInv, merged = FALSE, Unmarked, EndReading, Simple', numOfTree > 0, Raw'
  PROVE  Merging'
<1>1. /\ phase = "read" /\ theTree = <<>> /\ scan = 1 /\ numOfTree = Len(trees)
      /\ symTable \in SymbolTables /\ IsForest(trees, <<>>, built)
      /\ Len(trees) \in Nat /\ DOMAIN trees = 1..Len(trees) /\ trees \in Seq(Seq(Nodes))
  BY InvFacts DEF EndReading, IInv, Typed, IsForest
<1>2. /\ theTree' = Head(trees) /\ trees' = Tail(trees) /\ atEnd' = trees
      /\ UNCHANGED <<symTable, wall, scan, merged>>
  BY DEF EndReading
<1>3. Len(trees) >= 1 /\ trees # <<>> /\ 1 \in 1..Len(trees)
  BY <1>1
<1>4. theTree' = trees[1]
  BY <1>2
<1>5. /\ Len(trees') = Len(trees) - 1
      /\ \A t \in 1..Len(trees') : t + 1 \in 1..Len(trees) /\ trees'[t] = trees[t + 1]
  BY <1>1, <1>2, <1>3
<1>6. CASE \A t, u \in DOMAIN trees : trees[t][1].parent = trees[u][1].parent
  <2>1. PICK P : P = trees[1][1].parent
    OBVIOUS
  <2>2. P \in Name \cup {NULL}
    <3>1. GoodTree(trees[1])
      BY <1>1, <1>3, ForestFacts
    <3> QED
      BY <2>1, <3>1, RootIs
  <2>3. \A t \in 1..Len(trees') : trees'[t][1].parent = P
    <3> SUFFICES ASSUME NEW t \in 1..Len(trees') PROVE trees'[t][1].parent = P
      OBVIOUS
    <3>1. PICK u \in 1..Len(trees) : trees'[t] = trees[u]
      BY <1>5
    <3>2. trees[u][1].parent = P
      BY <1>1, <1>3, <1>6, <2>1
    <3> QED
      BY <3>1, <3>2, Zenon
  <2>4. theTree'[1].parent = P
    BY <1>4, <2>1
  <2>5. P \notin DOMAIN symTable' => CommonAncestors' = {}
    <3> SUFFICES ASSUME P \notin DOMAIN symTable PROVE CommonAncestors' = {}
      BY <1>2
    <3>1. ToSet(Path(P)) = {}
      BY <1>1, <2>2, PathClimbs
    <3>2. Path(P)' = Path(P)
      BY <1>2 DEF Path
    <3>3. 1 \in DOMAIN atEnd' /\ atEnd'[1][1].parent = P
      BY <1>1, <1>2, <1>3, <2>1
    <3>4. ASSUME NEW n \in CommonAncestors' PROVE FALSE
      <4>1. n \in ToSet(Path(P)')
        BY <3>3, <3>4 DEF CommonAncestors
      <4> QED
        BY <3>1, <3>2, <4>1
    <3> QED
      BY <3>4
  <2>6. SameParent(P)'
    BY <1>1, <1>2, <2>3, <2>4, <2>5 DEF SameParent
  <2> QED
    BY <2>2, <2>6 DEF Merging
<1>7. CASE Len(trees) = 1
  <2>1. trees' = <<>>
    <3>1. Len(trees') = 0 /\ trees' \in Seq(Seq(Nodes))
      BY <1>1, <1>2, <1>3, <1>5, <1>7
    <3> QED
      BY <3>1, EmptySeq
  <2> QED
    BY <2>1 DEF Merging
<1>8. CASE Len(trees) = 2
  <2>1. Len(trees') = 1 /\ trees'[1] = trees[2] /\ 2 \in 1..Len(trees)
    BY <1>5, <1>8
  <2>2. \A name : Path(name)' = Path(name)
    BY <1>2 DEF Path
  <2>3. PICK p : p = theTree'[1].parent /\ p = trees[1][1].parent
    BY <1>4
  <2>4. PICK q : q = trees'[1][1].parent /\ q = trees[2][1].parent
    BY <2>1
  <2>5. CommonAncestors' \subseteq ToSet(Path(p)') \cap ToSet(Path(q)')
    <3>1. /\ 1 \in DOMAIN atEnd' /\ atEnd'[1][1].parent = p
          /\ 2 \in DOMAIN atEnd' /\ atEnd'[2][1].parent = q
      BY <1>1, <1>2, <1>3, <2>1, <2>3, <2>4
    <3> QED
      BY <3>1 DEF CommonAncestors
  <2>6. Unmarked'
    BY <1>2 DEF Unmarked
  <2>7. TwoLeft'
    BY <1>1, <1>2, <2>1, <2>3, <2>4, <2>5, <2>6 DEF TwoLeft
  <2> QED
    BY <2>7 DEF Merging
<1>9. \/ Len(trees) <= 2
      \/ \A t, u \in DOMAIN trees : trees[t][1].parent = trees[u][1].parent
  BY <1>2 DEF Simple
<1>10. Len(trees) <= 2 => Len(trees) = 1 \/ Len(trees) = 2
  BY <1>1, <1>3
<1> QED
  BY <1>6, <1>7, <1>8, <1>9, <1>10

LEMMA SimpleStart ==
  ASSUME IInv, SimpleInv, EndReading
  PROVE  SimpleInv'
<1>1. phase = "read" /\ phase' \in {"merge", "done"} /\ UNCHANGED symTable
  BY DEF EndReading
<1>2. merged = FALSE /\ Unmarked
  BY <1>1 DEF SimpleInv
<1>3. Raw'
  BY FoundRaw
<1>4. Regular' => OneName' /\ Above(theTree)'
  <2> SUFFICES ASSUME Regular' PROVE OneName' /\ Above(theTree)'
    OBVIOUS
  <2>1. ASSUME NEW x \in AllBare'
        PROVE  \E d \in Definitions' : d.id = x.id /\ d.ident = x.ident
    BY <1>3 DEF Raw, IsDefinition
  <2>2. ASSUME NEW x \in AllBare' PROVE x.ident \notin DOMAIN symTable'
    BY <2>1 DEF Regular
  <2>3. ASSUME NEW x \in AllBare', NEW y \in AllBare', x.ident = y.ident PROVE x.id = y.id
    BY <2>1, <2>3 DEF Regular
  <2> QED
    BY <2>2, <2>3 DEF OneName, Above
<1>5. phase' = "merge" /\ Simple' => Merging'
  <2> SUFFICES ASSUME phase' = "merge", Simple' PROVE Merging'
    OBVIOUS
  <2>1. numOfTree > 0
    BY DEF EndReading
  <2> QED
    BY <1>2, <1>3, <2>1, StartsSimply
<1> QED
  BY <1>1, <1>4, <1>5 DEF SimpleInv

LEMMA SimpleEndScan ==
  ASSUME IInv, SimpleInv, EndScan
  PROVE  SimpleInv'
<1>1. /\ phase = "merge" /\ scan \notin DOMAIN trees
      /\ UNCHANGED <<symTable, wall, last, built, atEnd>>
  BY DEF EndScan
<1>2. /\ \A name : Path(name)' = Path(name)
      /\ CommonAncestors' = CommonAncestors /\ (Simple' <=> Simple) /\ (Regular' <=> Regular)
      /\ \A x : IsDefinition(x)' <=> IsDefinition(x)
  BY <1>1, SameData
<1>3. AllBare' = AllBare
  BY EndScanStep
<1>4. OneName' <=> OneName
  BY <1>3 DEF OneName
<1>5. Raw' <=> Raw
  BY <1>2, <1>3 DEF Raw
<1>6. /\ Len(trees) \in Nat /\ DOMAIN trees = 1..Len(trees) /\ trees \in Seq(Seq(Nodes))
  BY InvFacts DEF IsForest
<1>7. CASE merged
  <2>1. scan' = 1 /\ merged' = FALSE /\ UNCHANGED <<phase, trees, theTree>>
    BY <1>7 DEF EndScan
  <2>2. Above(theTree)' <=> Above(theTree)
    <3>1. PICK p : p = theTree[1].parent /\ p = theTree'[1].parent
      BY <2>1
    <3> QED
      BY <1>1, <1>2, <1>3, <3>1 DEF Above
  <2>3. Merging => Merging'
    <3>1. ~TwoLeft
      BY <1>7 DEF TwoLeft
    <3>2. ASSUME NEW P \in Name \cup {NULL}, SameParent(P) PROVE SameParent(P)'
      BY <1>1, <1>2, <1>5, <2>1, <3>2 DEF SameParent
    <3> QED
      BY <2>1, <3>1, <3>2 DEF Merging
  <2> QED
    BY <1>1, <1>2, <1>4, <2>1, <2>2, <2>3 DEF SimpleInv
<1>8. CASE ~merged
  <2>1. phase' = "complete" /\ trees' = Append(trees, theTree)
    BY <1>8 DEF EndScan
  <2>2. Len(trees') = Len(trees) + 1 /\ trees'[Len(trees) + 1] = theTree
    BY <1>6, <2>1
  <2>3. ASSUME Simple, CommonAncestors # {} PROVE Len(trees') = 1
    <3>1. Merging
      BY <1>1, <2>3 DEF SimpleInv
    <3>2. CASE trees = <<>>
      BY <2>2, <3>2
    <3>3. CASE \E P \in Name \cup {NULL} : SameParent(P)
      <4>1. scan = 1
        BY <2>3, <3>3 DEF SameParent
      <4>2. Len(trees) = 0
        BY <1>1, <1>6, <4>1
      <4> QED
        BY <2>2, <4>2
    <3>4. CASE TwoLeft
      <4>1. scan = 1 /\ Len(trees) = 1
        BY <2>3, <3>4 DEF TwoLeft
      <4> QED
        BY <1>1, <1>6, <4>1
    <3> QED
      BY <3>1, <3>2, <3>3, <3>4 DEF Merging
  <2>4. ASSUME Simple, Regular, Len(trees') = 1 PROVE Above(trees[1])'
    <3>1. Len(trees) = 0
      <4>1. PICK n \in Nat : n = Len(trees)
        BY <1>6
      <4>2. n + 1 = 1
        BY <2>2, <2>4, <4>1, Zenon
      <4> QED
        BY <4>1, <4>2, SMTT(30)
    <3>2. PICK p : p = theTree[1].parent /\ p = trees'[1][1].parent
      BY <2>2, <3>1
    <3>3. Above(theTree)
      BY <1>1, <2>4 DEF SimpleInv
    <3>4. \A x \in AllBare' : x.ident \in DOMAIN symTable => x.ident \notin ToSet(Path(p))
      BY <1>3, <3>2, <3>3 DEF Above
    <3> QED
      BY <1>1, <1>2, <3>2, <3>4 DEF Above
  <2> QED
    BY <1>1, <1>2, <1>4, <2>1, <2>3, <2>4 DEF SimpleInv
<1> QED
  BY <1>7, <1>8

LEMMA SimpleHeadComplete ==
  ASSUME IInv, SimpleInv, HeadComplete
  PROVE  SimpleInv'
<1>1. /\ phase = "complete" /\ phase' \in {"aborted", "crashed", "oid"}
      /\ UNCHANGED <<symTable, atEnd>>
  BY DEF HeadComplete
<1>2. CommonAncestors' = CommonAncestors /\ (Simple' <=> Simple) /\ (Regular' <=> Regular)
  BY <1>1, SameData
<1>3. phase' = "aborted" /\ Simple => CommonAncestors = {}
  <2> SUFFICES ASSUME phase' = "aborted", Simple PROVE CommonAncestors = {}
    OBVIOUS
  <2>1. Len(trees) # 1
    BY DEF HeadComplete, IInv, Typed
  <2> QED
    BY <1>1, <2>1 DEF SimpleInv
<1>4. ASSUME Simple, Regular PROVE OneName'
  <2>1. OneName
    BY <1>1, <1>4 DEF SimpleInv
  <2>2. CASE AllBare' = AllBare
    BY <2>1, <2>2 DEF OneName
  <2>3. CASE RaisedToTop
    <3>1. PICK p : p = trees[1][1].parent
      OBVIOUS
    <3>2. PICK T : Raised(T, trees[1], Path(p), built) /\ AllBare' = Bare(T)
      BY <2>3, <3>1 DEF RaisedToTop
    <3>3. Len(trees) = 1 /\ AllBare = Bare(trees[1])
      BY <2>3 DEF RaisedToTop
    <3>4. \A x \in AllBare : x.ident \in DOMAIN symTable => x.ident \notin ToSet(Path(p))
      BY <1>1, <1>4, <3>1, <3>3 DEF SimpleInv, Above
    <3>5. symTable \in SymbolTables /\ p \in Name \cup {NULL}
      <4>1. IsForest(trees, theTree, built) /\ symTable \in SymbolTables
        BY InvFacts
      <4>2. GoodTree(trees[1])
        <5>1. 1 \in 1..Len(trees)
          BY <3>3
        <5> QED
          BY <4>1, <5>1, ForestFacts
      <4> QED
        BY <3>1, <4>1, <4>2, RootIs
    <3>6. PICK path : path = Path(p)
      OBVIOUS
    <3>7. /\ IsClimb(path) /\ path \in Seq(DOMAIN symTable)
          /\ ToSet(path) = {path[k] : k \in 1..Len(path)}
      BY <3>5, <3>6, PathClimbs
    <3>8. \A x \in AllBare' : \/ x \in AllBare
                              \/ \E k \in 1..Len(path) : x.ident = path[k] /\ x.id = built + k
      BY <3>2, <3>3, <3>6, Zenon DEF Raised, Climbed
    <3>9. \A x \in AllBare : \A k \in 1..Len(path) : x.ident # path[k]
      <4>1. \A k \in 1..Len(path) : path[k] \in DOMAIN symTable /\ path[k] \in ToSet(path)
        BY <3>7
      <4> QED
        BY <3>4, <3>6, <4>1
    <3>10. \A i, j \in 1..Len(path) : path[i] = path[j] => i = j
      BY <3>5, <3>7, ClimbOnce
    <3>11. ASSUME NEW x \in AllBare', NEW y \in AllBare', x.ident = y.ident PROVE x.id = y.id
      <4>1. CASE x \in AllBare
        <5>1. y \in AllBare
          BY <3>8, <3>9, <3>11, <4>1
        <5> QED
          BY <2>1, <3>11, <4>1, <5>1 DEF OneName
      <4>2. CASE \E k \in 1..Len(path) : x.ident = path[k] /\ x.id = built + k
        <5>1. PICK k \in 1..Len(path) : x.ident = path[k] /\ x.id = built + k
          BY <4>2
        <5>2. y \notin AllBare
          BY <3>9, <3>11, <5>1
        <5>3. PICK i \in 1..Len(path) : y.ident = path[i] /\ y.id = built + i
          BY <3>8, <5>2, Zenon
        <5>4. i = k
          BY <3>10, <3>11, <5>1, <5>3
        <5> QED
          BY <5>1, <5>3, <5>4
      <4> QED
        BY <3>8, <4>1, <4>2
    <3> QED
      BY <3>11 DEF OneName
  <2> QED
    BY <2>2, <2>3, HeadCompleteStep
<1> QED
  BY <1>1, <1>2, <1>3, <1>4 DEF SimpleInv

LEMMA SimpleOidComplete ==
  ASSUME IInv, SimpleInv, OidComplete
  PROVE  SimpleInv'
<1>1. phase = "oid" /\ phase' \in {"done", "crashed"} /\ UNCHANGED <<symTable, atEnd>>
  BY DEF OidComplete
<1>2. (Simple' <=> Simple) /\ (Regular' <=> Regular)
  BY <1>1, SameData
<1>3. OneName => OneName'
  <2> SUFFICES ASSUME OneName, NEW x \in AllBare', NEW y \in AllBare', x.ident = y.ident
               PROVE  x.id = y.id
    BY DEF OneName
  <2>1. PICK u \in AllBare : x.id = u.id /\ x.ident = u.ident
    BY OidCompleteKeeps
  <2>2. PICK v \in AllBare : y.id = v.id /\ y.ident = v.ident
    BY OidCompleteKeeps
  <2> QED
    BY <2>1, <2>2 DEF OneName
<1> QED
  BY <1>1, <1>2, <1>3 DEF SimpleInv

LEMMA SimpleStutter ==
  ASSUME IInv, SimpleInv, UNCHANGED vars
  PROVE  SimpleInv'
<1>1. /\ UNCHANGED <<phase, symTable, wall, trees, theTree, scan, merged, atEnd>>
      /\ AllBare' = AllBare
  BY DEF vars, AllBare
<1>2. /\ \A name : Path(name)' = Path(name)
      /\ CommonAncestors' = CommonAncestors /\ (Simple' <=> Simple) /\ (Regular' <=> Regular)
      /\ \A x : IsDefinition(x)' <=> IsDefinition(x)
  BY <1>1, SameData
<1>3. (Raw' <=> Raw) /\ (OneName' <=> OneName) /\ (Unmarked' <=> Unmarked)
  BY <1>1, <1>2 DEF Raw, OneName, Unmarked
<1>4. \A tree : Above(tree)' <=> Above(tree)
  BY <1>1, <1>2 DEF Above
<1>5. Above(theTree)' <=> Above(theTree)
  <2>1. PICK p : p = theTree[1].parent /\ p = theTree'[1].parent
    BY <1>1
  <2> QED
    BY <1>1, <1>2, <2>1 DEF Above
<1>6. Above(trees[1])' <=> Above(trees[1])
  <2>1. PICK p : p = trees[1][1].parent /\ p = trees'[1][1].parent
    BY <1>1
  <2> QED
    BY <1>1, <1>2, <2>1 DEF Above
<1>7. Merging' <=> Merging
  <2>1. \A P : SameParent(P)' <=> SameParent(P)
    BY <1>1, <1>2, <1>3 DEF SameParent
  <2>2. TwoLeft' <=> TwoLeft
    <3>1. PICK p : p = theTree[1].parent /\ p = theTree'[1].parent
      BY <1>1
    <3>2. PICK q : q = trees[1][1].parent /\ q = trees'[1][1].parent
      BY <1>1
    <3> QED
      BY <1>1, <1>2, <1>3, <3>1, <3>2 DEF TwoLeft
  <2> QED
    BY <1>1, <2>1, <2>2 DEF Merging
<1> QED
  BY <1>1, <1>2, <1>3, <1>5, <1>6, <1>7 DEF SimpleInv

LEMMA SimpleInvNext == IInv /\ SimpleInv /\ [Next]_vars => SimpleInv'
<1> SUFFICES ASSUME IInv, SimpleInv, [Next]_vars PROVE SimpleInv'
  OBVIOUS
<1>1. CASE \E ident \in Defined, parent \in Name : HeadAppend(ident, parent)
  <2>1. phase = "read" /\ phase' = "read" /\ UNCHANGED <<symTable, wall, merged>>
    BY <1>1 DEF HeadAppend
  <2>2. Unmarked' <=> Unmarked
    BY <2>1 DEF Unmarked
  <2> QED
    BY <2>1, <2>2 DEF SimpleInv
<1>2. CASE EndReading
  BY <1>2, SimpleStart
<1>3. CASE MergeNext
  BY <1>3, SimpleMerge
<1>4. CASE EndScan
  BY <1>4, SimpleEndScan
<1>5. CASE HeadComplete
  BY <1>5, SimpleHeadComplete
<1>6. CASE OidComplete
  BY <1>6, SimpleOidComplete
<1>7. CASE UNCHANGED vars
  BY <1>7, SimpleStutter
<1> QED
  BY <1>1, <1>2, <1>3, <1>4, <1>5, <1>6, <1>7 DEF Next

LEMMA SimpleInvariant == Spec => []SimpleInv
<1>1. Init => SimpleInv
  BY DEF Init, SimpleInv, Unmarked
<1>2. IInv /\ SimpleInv /\ [Next]_vars => SimpleInv'
  BY SimpleInvNext
<1> QED
  BY <1>1, <1>2, Invariant, PTL DEF Spec

LEMMA SimpleFollow == IInv /\ SimpleInv => SimpleTreesBecomeOne
<1> SUFFICES ASSUME IInv, SimpleInv PROVE SimpleTreesBecomeOne
  OBVIOUS
<1>1. ASSUME phase # "read", Simple, Regular PROVE NoTwins
  <2>1. OneName
    BY <1>1 DEF SimpleInv
  <2>2. /\ \A t \in DOMAIN Forest : GoodTree(Forest[t]) /\ Bare(Forest[t]) \subseteq AllBare
        /\ \A t, u \in DOMAIN Forest : t # u => Ids(Forest[t]) \cap Ids(Forest[u]) = {}
    BY ForestIs
  <2> SUFFICES ASSUME NEW t \in DOMAIN Forest, NEW u \in DOMAIN Forest,
                      NEW i \in DOMAIN Forest[t], NEW j \in DOMAIN Forest[u],
                      Forest[t][i].ident = Forest[u][j].ident
               PROVE  t = u /\ i = j
    BY DEF NoTwins
  <2>3. PICK l : l = Forest[t]
    OBVIOUS
  <2>4. PICK r : r = Forest[u]
    OBVIOUS
  <2>5. GoodTree(l) /\ Bare(l) \subseteq AllBare /\ GoodTree(r) /\ Bare(r) \subseteq AllBare
    BY <2>2, <2>3, <2>4
  <2>6. i \in 1..Len(l) /\ l[i] \in Nodes /\ j \in 1..Len(r) /\ r[j] \in Nodes
    BY <2>3, <2>4, <2>5, TreeFacts DEF GoodTree
  <2>7. PICK x \in AllBare : x.id = l[i].id /\ x.ident = l[i].ident
    <3>1. PICK m : m = [l[i] EXCEPT !.depth = 0]
      OBVIOUS
    <3>2. m.id = l[i].id /\ m.ident = l[i].ident
      BY <2>6, <3>1, BareNode
    <3>3. m \in AllBare
      BY <2>5, <2>6, <3>1, Zenon DEF Bare
    <3> QED
      BY <3>2, <3>3
  <2>8. PICK y \in AllBare : y.id = r[j].id /\ y.ident = r[j].ident
    <3>1. PICK m : m = [r[j] EXCEPT !.depth = 0]
      OBVIOUS
    <3>2. m.id = r[j].id /\ m.ident = r[j].ident
      BY <2>6, <3>1, BareNode
    <3>3. m \in AllBare
      BY <2>5, <2>6, <3>1, Zenon DEF Bare
    <3> QED
      BY <3>2, <3>3
  <2>9. l[i].id = r[j].id
    BY <2>1, <2>3, <2>4, <2>7, <2>8 DEF OneName
  <2>10. l[i].id \in Ids(l) /\ r[j].id \in Ids(r)
    BY <2>6 DEF Ids
  <2>11. t = u
    BY <2>2, <2>3, <2>4, <2>9, <2>10
  <2>12. i = j
    BY <2>3, <2>4, <2>5, <2>6, <2>9, <2>11 DEF GoodTree, Distinct
  <2> QED
    BY <2>11, <2>12
<1> QED
  BY <1>1 DEF SimpleTreesBecomeOne, SimpleTreesMerge, SimpleTreesHaveNoTwins, SimpleInv

\* Two trees, and any number that hang below the same node, become one if they have a
\* common ancestor, whatever the order of the definitions; and if no name is defined
\* twice, by the MIB or by a symbol, merging and completing build no node twice.
THEOREM SimpleTreesUnite == Spec => []SimpleTreesBecomeOne
<1>1. IInv /\ SimpleInv => SimpleTreesBecomeOne
  BY SimpleFollow
<1> QED
  BY <1>1, Invariant, SimpleInvariant, PTL
=============================================================================
