--------------------------- MODULE DocumentGenProofs ---------------------------
(***************************************************************************)
(* The travel through a tree of any size stays below its begin node, meets *)
(* each node once, and writes the rows in order and under the caption they *)
(* belong to.                                                              *)
(***************************************************************************)
EXTENDS DocumentGen, FiniteSetTheorems, WellFoundedInduction, SequenceTheorems,
        TLAPS

Kinds == {"NODE", "TABLE", "ENTRY", "LEAF"}

TreeOK ==
  /\ tree \in Seq([kind : Kinds, parent : Nat, oid : Nat \ {0}])
  /\ tree # <<>> /\ IsTree(tree)

-----------------------------------------------------------------------------
(***************************************************************************)
(* Trees.                                                                  *)
(***************************************************************************)
Upto(S) == {0..n : n \in S}

LEMMA Least ==
  ASSUME NEW S \in SUBSET Nat, S # {}
  PROVE  Min(S) \in S /\ \A x \in S : Min(S) <= x
<1>1. Upto(S) # {}
  BY DEF Upto
<1>2. ASSUME NEW t \in Upto(S) PROVE t \in FiniteSubsetsOf(Nat)
  <2>1. PICK n \in S : t = 0..n
    BY DEF Upto
  <2>2. n \in Nat
    OBVIOUS
  <2>3. IsFiniteSet(0..n) /\ 0..n \in SUBSET Nat
    BY <2>2, FS_Interval
  <2> QED
    BY <2>1, <2>3 DEF FiniteSubsetsOf
<1>3. PICK t \in Upto(S) : \A y \in Upto(S) : <<y, t>> \notin StrictSubsetOrdering(Nat)
  <2>1. Upto(S) \subseteq FiniteSubsetsOf(Nat)
    BY <1>2
  <2> QED
    BY <1>1, <2>1, FS_StrictSubsetOrderingWellFounded, WFMin, Zenon
<1>4. PICK m \in S : t = 0..m
  BY DEF Upto
<1>5. ASSUME NEW x \in S, x < m PROVE FALSE
  <2>1. 0..x \in Upto(S)
    BY DEF Upto
  <2>2. 0..x \subseteq 0..m /\ 0..x \in SUBSET Nat /\ 0..m \in SUBSET Nat
    BY <1>5
  <2>3. m \in 0..m /\ m \notin 0..x
    BY <1>5
  <2>4. <<0..x, 0..m>> \in StrictSubsetOrdering(Nat)
    BY <2>2, <2>3 DEF StrictSubsetOrdering
  <2> QED
    BY <1>3, <1>4, <2>1, <2>4
<1>6. \A x \in S : m <= x
  <2>1. \A x \in S : x \in Nat /\ m \in Nat
    OBVIOUS
  <2> QED
    BY <1>5, <2>1
<1> QED
  BY <1>6, Zenon DEF Min

LEMMA TreeFacts ==
  ASSUME TreeOK
  PROVE  /\ Len(tree) \in Nat /\ 1 \in Nodes /\ Nodes \subseteq Nat \ {0}
         /\ parent(1) = 0 /\ kind(1) = "NODE"
         /\ \A n \in Nodes : parent(n) \in Nat /\ kind(n) \in Kinds
         /\ \A n \in Nodes : n # 1 =>
              /\ parent(n) \in Nodes /\ parent(n) < n
              /\ \A k \in (parent(n) + 1)..(n - 1) : parent(k) >= parent(n)
              /\ kind(n) \in MayHold(kind(parent(n)))
<1>1. Len(tree) \in Nat /\ Len(tree) # 0 /\ DOMAIN tree = Nodes
  BY DEF TreeOK, Nodes
<1>2. 1 \in Nodes /\ Nodes \subseteq Nat \ {0}
  BY <1>1 DEF Nodes
<1>3. \A n \in Nodes : parent(n) \in Nat /\ kind(n) \in Kinds
  <2>1. ASSUME NEW n \in Nodes
        PROVE  tree[n] \in [kind : Kinds, parent : Nat, oid : Nat \ {0}]
    BY <1>1, ElementOfSeq DEF TreeOK, Nodes
  <2> QED
    BY <2>1 DEF parent, kind
<1>4. parent(1) = 0 /\ kind(1) = "NODE"
  BY DEF TreeOK, IsTree, parent, kind
<1>5. ASSUME NEW n \in Nodes, n # 1
      PROVE  /\ parent(n) \in 1..(n - 1)
             /\ \A k \in (parent(n) + 1)..(n - 1) : parent(k) >= parent(n)
             /\ kind(n) \in MayHold(kind(parent(n)))
  <2>1. n \in 2..Len(tree)
    BY <1>1, <1>5 DEF Nodes
  <2> QED
    BY <2>1, Zenon DEF TreeOK, IsTree, parent, kind
<1>6. \A n \in Nodes : n # 1 => parent(n) \in Nodes /\ parent(n) < n
  BY <1>1, <1>5 DEF Nodes
<1> QED
  BY <1>1, <1>2, <1>3, <1>4, <1>5, <1>6

LEMMA NodesAre == ASSUME TreeOK, NEW n \in Nodes, NEW m \in 1..n PROVE m \in Nodes
BY TreeFacts DEF Nodes

LEMMA AboveSelf == ASSUME TreeOK, NEW n \in Nodes PROVE n \in Above(n)
BY TreeFacts DEF Above

LEMMA AboveIs ==
  ASSUME TreeOK, NEW n \in Nodes, NEW p \in Above(n)
  PROVE  /\ p \in Nodes /\ p <= n
         /\ \A k \in (p + 1)..n : k \in Nodes /\ parent(k) >= p
BY TreeFacts, NodesAre DEF Above

LEMMA AboveTrans ==
  ASSUME TreeOK, NEW n \in Nodes, NEW q \in Above(n), NEW p \in Above(q)
  PROVE  p \in Above(n)
<1>1. q \in Nodes /\ q <= n /\ \A k \in (q + 1)..n : k \in Nodes /\ parent(k) >= q
  BY AboveIs
<1>2. p \in Nodes /\ p <= q /\ \A k \in (p + 1)..q : k \in Nodes /\ parent(k) >= p
  BY <1>1, AboveIs
<1>3. ASSUME NEW k \in (p + 1)..n PROVE parent(k) >= p
  <2>1. k \in Nodes /\ parent(k) \in Nat /\ p \in Nat /\ q \in Nat /\ n \in Nat
    BY <1>1, <1>2, TreeFacts, NodesAre
  <2>2. CASE k <= q
    BY <1>2, <2>1, <2>2
  <2>3. CASE k > q
    <3>1. parent(k) >= q
      BY <1>1, <2>1, <2>3
    <3> QED
      BY <1>2, <2>1, <3>1
  <2> QED
    BY <2>1, <2>2, <2>3
<1>4. p \in 1..n
  BY <1>1, <1>2, TreeFacts
<1> QED
  BY <1>3, <1>4 DEF Above

LEMMA ParentAbove ==
  ASSUME TreeOK, NEW n \in Nodes, parent(n) # 0
  PROVE  /\ n # 1 /\ parent(n) \in Nodes /\ parent(n) < n
         /\ parent(n) \in Above(n)
<1>1. n # 1 /\ parent(n) \in Nodes /\ parent(n) < n
  BY TreeFacts
<1>2. ASSUME NEW k \in (parent(n) + 1)..n PROVE parent(k) >= parent(n)
  BY <1>1, TreeFacts
<1> QED
  BY <1>1, <1>2, TreeFacts DEF Above

LEMMA AboveParent ==
  ASSUME TreeOK, NEW n \in Nodes, NEW p \in Above(n), p # n
  PROVE  parent(n) # 0 /\ p \in Above(parent(n))
<1>1. p \in Nodes /\ p <= n /\ \A k \in (p + 1)..n : k \in Nodes /\ parent(k) >= p
  BY AboveIs
<1>2. n \in Nat /\ p \in Nat \ {0} /\ n \in (p + 1)..n
  BY <1>1, TreeFacts
<1>3. parent(n) >= p /\ parent(n) \in Nat
  BY <1>1, <1>2, TreeFacts
<1>4. parent(n) # 0
  BY <1>2, <1>3
<1>5. parent(n) < n
  BY <1>4, ParentAbove
<1> QED
  BY <1>1, <1>2, <1>3, <1>4, <1>5 DEF Above

LEMMA ChildFacts ==
  ASSUME TreeOK, NEW n \in Nodes
  PROVE  /\ child(n) # 0 => child(n) = n + 1 /\ n + 1 \in Nodes /\ parent(n + 1) = n
         /\ child(n) = 0 => \A m \in Nodes : n \in Above(m) => m = n
<1>1. ASSUME child(n) # 0 PROVE child(n) = n + 1 /\ n + 1 \in Nodes /\ parent(n + 1) = n
  BY <1>1, TreeFacts DEF child, Nodes
<1>2. ASSUME child(n) = 0, NEW m \in Nodes, n \in Above(m), m # n PROVE FALSE
  <2>1. n <= m /\ n \in Nat /\ m \in Nat /\ n < Len(tree) /\ n + 1 \in (n + 1)..m
    BY <1>2, AboveIs, TreeFacts DEF Nodes
  <2>2. n + 1 \in Nodes /\ parent(n + 1) >= n
    BY <1>2, <2>1, AboveIs
  <2>3. parent(n + 1) \in Nat /\ parent(n + 1) < n + 1
    BY <2>1, <2>2, TreeFacts
  <2>4. parent(n + 1) = n
    BY <2>1, <2>2, <2>3
  <2>5. child(n) = n + 1
    BY <2>1, <2>4 DEF child
  <2> QED
    BY <1>2, <2>1, <2>5
<1> QED
  BY <1>1, <1>2

LEMMA SiblingFacts ==
  ASSUME TreeOK, NEW n \in Nodes
  PROVE  /\ sibling(n) # 0 =>
              /\ sibling(n) \in Nodes /\ sibling(n) > n
              /\ parent(sibling(n)) = parent(n)
              /\ \A m \in (n + 1)..(sibling(n) - 1) : parent(m) # parent(n)
         /\ sibling(n) = 0 => \A m \in Nodes : m > n => parent(m) # parent(n)
<1> DEFINE after == {m \in (n + 1)..Len(tree) : parent(m) = parent(n)}
<1>1. n \in Nat \ {0} /\ Len(tree) \in Nat /\ after \in SUBSET Nat
  BY TreeFacts
<1>2. \A m \in Nodes : m > n => m \in (n + 1)..Len(tree)
  BY <1>1 DEF Nodes
<1>3. CASE after = {}
  <2>1. sibling(n) = 0
    BY <1>3 DEF sibling
  <2>2. \A m \in Nodes : m > n => parent(m) # parent(n)
    BY <1>2, <1>3
  <2> QED
    BY <2>1, <2>2
<1>4. CASE after # {}
  <2>1. sibling(n) = Min(after)
    BY <1>4 DEF sibling
  <2>2. sibling(n) \in after /\ \A x \in after : sibling(n) <= x
    BY <1>1, <1>4, <2>1, Least
  <2> HIDE DEF after
  <2>3. PICK s : s = sibling(n)
    OBVIOUS
  <2>4. s \in (n + 1)..Len(tree) /\ parent(s) = parent(n)
    BY <2>2, <2>3 DEF after
  <2>5. s \in Nodes /\ s > n /\ s # 0
    BY <1>1, <2>4 DEF Nodes
  <2>6. ASSUME NEW m \in (n + 1)..(s - 1), parent(m) = parent(n) PROVE FALSE
    <3>1. m \in (n + 1)..Len(tree) /\ m < s
      BY <1>1, <2>4
    <3>2. m \in after
      BY <2>6, <3>1 DEF after
    <3> QED
      BY <1>1, <2>2, <2>3, <2>4, <3>1, <3>2
  <2> QED
    BY <2>3, <2>4, <2>5, <2>6
<1> QED
  BY <1>3, <1>4

\* A later node that hangs between a node and its parent hangs at the parent.
LEMMA Between ==
  ASSUME TreeOK, NEW n \in Nodes, NEW k \in Nodes, n < k,
         parent(n) <= parent(k), parent(k) < n
  PROVE  parent(k) = parent(n)
<1>1. /\ n \in Nat /\ k \in Nat /\ parent(n) \in Nat /\ parent(k) \in Nat
      /\ n \in Nat \ {0} /\ k # 1
  BY TreeFacts
<1>2. \A j \in (parent(k) + 1)..(k - 1) : parent(j) >= parent(k)
  BY <1>1, TreeFacts
<1>3. n \in (parent(k) + 1)..(k - 1)
  BY <1>1
<1> QED
  BY <1>1, <1>2, <1>3

-----------------------------------------------------------------------------
(***************************************************************************)
(* The nodes a travel has met.                                             *)
(***************************************************************************)
Met(o, v) == {n \in Nodes : n < o \/ (v # "pre" /\ o \in Above(n))}

LEMMA MetDown ==
  ASSUME TreeOK, NEW o \in Nodes, child(o) # 0
  PROVE  Met(child(o), "pre") = Met(o, "pre") \cup {o}
BY ChildFacts, TreeFacts DEF Met

LEMMA MetLeaf ==
  ASSUME TreeOK, NEW o \in Nodes, child(o) = 0
  PROVE  Met(o, "in") = Met(o, "pre") \cup {o}
BY ChildFacts, AboveSelf DEF Met

LEMMA MetAcross ==
  ASSUME TreeOK, NEW o \in Nodes, sibling(o) # 0
  PROVE  Met(sibling(o), "pre") = Met(o, "in")
<1>1. PICK s : s = sibling(o)
  OBVIOUS
<1>2. /\ s \in Nodes /\ s > o /\ parent(s) = parent(o)
      /\ \A m \in (o + 1)..(s - 1) : parent(m) # parent(o)
  BY <1>1, SiblingFacts
<1>3. /\ o \in Nat \ {0} /\ s \in Nat /\ s # 1
      /\ parent(o) \in Nat /\ parent(o) < o
      /\ \A k \in (parent(o) + 1)..(s - 1) : parent(k) >= parent(o)
  BY <1>2, TreeFacts
<1>4. ASSUME NEW n \in Nodes, n < s, ~(n < o) PROVE o \in Above(n)
  <2>1. n \in Nat
    BY TreeFacts
  <2>2. ASSUME NEW k \in (o + 1)..n PROVE parent(k) >= o
    <3>1. k \in Nodes /\ k \in Nat /\ o < k /\ k \in (o + 1)..(s - 1)
      BY <1>3, <1>4, <2>1, NodesAre
    <3>2. parent(k) \in Nat /\ parent(k) # parent(o)
      BY <1>2, <3>1, TreeFacts
    <3>3. parent(k) >= parent(o)
      BY <1>3, <3>1
    <3> QED
      BY <1>3, <3>1, <3>2, <3>3, Between
  <2> QED
    BY <1>3, <1>4, <2>1, <2>2 DEF Above
<1>5. ASSUME NEW n \in Nodes, o \in Above(n) PROVE n < s
  <2>1. n \in Nat /\ \A k \in (o + 1)..n : parent(k) >= o
    BY <1>5, AboveIs, TreeFacts
  <2>2. CASE n >= s
    <3>1. parent(s) >= o
      BY <1>2, <1>3, <2>1, <2>2
    <3> QED
      BY <1>2, <1>3, <3>1
  <2> QED
    BY <1>3, <2>1, <2>2
<1>6. ASSUME NEW n \in Nodes, n < o PROVE n < s
  BY <1>2, <1>3, <1>6, TreeFacts
<1>7. \A n \in Nodes : n < s <=> n < o \/ o \in Above(n)
  BY <1>4, <1>5, <1>6
<1> QED
  BY <1>1, <1>7 DEF Met

LEMMA MetUp ==
  ASSUME TreeOK, NEW o \in Nodes, sibling(o) = 0, parent(o) # 0
  PROVE  Met(parent(o), "post") = Met(o, "post")
<1>1. PICK p : p = parent(o)
  OBVIOUS
<1>2. p \in Nodes /\ p < o /\ p \in Above(o)
  BY <1>1, ParentAbove
<1>3. o \in Nat /\ p \in Nat /\ \A k \in (p + 1)..o : parent(k) >= p
  BY <1>2, AboveIs, TreeFacts
<1>4. ASSUME NEW n \in Nodes, n < o, ~(n < p) PROVE p \in Above(n)
  BY <1>2, <1>3, <1>4, TreeFacts DEF Above
<1>5. ASSUME NEW n \in Nodes, o \in Above(n) PROVE p \in Above(n)
  BY <1>2, <1>5, AboveTrans
<1>6. ASSUME NEW n \in Nodes, p \in Above(n), ~(n < o) PROVE o \in Above(n)
  <2>1. n \in Nat /\ \A k \in (p + 1)..n : parent(k) >= p
    BY <1>6, AboveIs, TreeFacts
  <2>2. ASSUME NEW k \in (o + 1)..n PROVE parent(k) >= o
    <3>1. k \in Nodes /\ k \in Nat /\ o < k /\ k \in (p + 1)..n
      BY <1>2, <1>3, <2>1, NodesAre
    <3>2. parent(k) \in Nat /\ parent(k) # p /\ parent(k) >= p
      BY <1>1, <2>1, <3>1, SiblingFacts, TreeFacts
    <3> QED
      BY <1>1, <1>3, <3>1, <3>2, Between
  <2>3. o \in 1..n
    BY <1>3, <1>6, <2>1, TreeFacts
  <2> QED
    BY <2>2, <2>3 DEF Above
<1>7. ASSUME NEW n \in Nodes, n < p PROVE n < o
  BY <1>2, <1>3, <1>7, TreeFacts
<1>8. \A n \in Nodes : n < p \/ p \in Above(n) <=> n < o \/ o \in Above(n)
  BY <1>4, <1>5, <1>6, <1>7
<1> QED
  BY <1>1, <1>8 DEF Met

-----------------------------------------------------------------------------
(***************************************************************************)
(* The items of a document o, with the rows q that wait behind them.       *)
(***************************************************************************)
Section(S) == [node : S, level : 1..5]
Table(S)   == [title : S, rows : Seq(S)]

B(o, q, i) ==
  IF i > Len(o) THEN q
  ELSE IF "node" \in DOMAIN o[i] THEN <<o[i].node>> ELSE o[i].rows

Within(x, o, q) == \E i \in 1..(Len(o) + 1) : \E k \in DOMAIN B(o, q, i) : B(o, q, i)[k] = x

Ordered(o, q, R) ==
  \A i, j \in 1..(Len(o) + 1) : \A k \in DOMAIN B(o, q, i), l \in DOMAIN B(o, q, j) :
    /\ i < j \/ (i = j /\ k < l)
    /\ B(o, q, i)[k] \in R /\ B(o, q, j)[l] \in R
    => B(o, q, i)[k] < B(o, q, j)[l]

LEMMA ItemFacts ==
  ASSUME NEW S, NEW s \in Section(S) \cup Table(S)
  PROVE  \/ s \in Section(S) /\ "node" \in DOMAIN s /\ "rows" \notin DOMAIN s /\ s.node \in S
            /\ s.level \in 1..5
         \/ s \in Table(S) /\ "node" \notin DOMAIN s /\ "rows" \in DOMAIN s
            /\ s.title \in S /\ s.rows \in Seq(S)
BY DEF Section, Table

LEMMA BatchFacts ==
  ASSUME NEW S, NEW o \in Seq(Section(S) \cup Table(S)), NEW q \in Seq(S),
         NEW i \in 1..(Len(o) + 1)
  PROVE  B(o, q, i) \in Seq(S)
<1>1. Len(o) \in Nat
  OBVIOUS
<1>2. CASE i > Len(o)
  BY <1>2 DEF B
<1>3. CASE i <= Len(o)
  <2>1. o[i] \in Section(S) \cup Table(S)
    BY <1>1, <1>3, ElementOfSeq
  <2>2. CASE "node" \in DOMAIN o[i]
    <3>1. o[i].node \in S
      BY <2>1, <2>2, ItemFacts
    <3> QED
      BY <1>1, <1>3, <2>2, <3>1 DEF B
  <2>3. CASE "node" \notin DOMAIN o[i]
    <3>1. o[i].rows \in Seq(S)
      BY <2>1, <2>3, ItemFacts
    <3> QED
      BY <1>1, <1>3, <2>3, <3>1 DEF B
  <2> QED
    BY <2>2, <2>3
<1> QED
  BY <1>1, <1>2, <1>3

\* q2 is q with the row n behind it.
Waits(o, q, n, q2) ==
  /\ Len(o) \in Nat /\ Len(q) \in Nat
  /\ \A i \in 1..Len(o) : B(o, q2, i) = B(o, q, i)
  /\ B(o, q2, Len(o) + 1) = q2 /\ B(o, q, Len(o) + 1) = q
  /\ DOMAIN q2 = DOMAIN q \cup {Len(q) + 1} /\ q2[Len(q) + 1] = n
  /\ \A k \in DOMAIN q : k \in Nat /\ k <= Len(q) /\ q2[k] = q[k]

LEMMA RowWaits ==
  ASSUME NEW S \in SUBSET Nat, NEW o \in Seq(Section(S) \cup Table(S)),
         NEW q \in Seq(S), NEW n \in S
  PROVE  Waits(o, q, n, Append(q, n))
<1> DEFINE q2 == Append(q, n)
<1>1. Len(o) \in Nat /\ Len(q) \in Nat
  OBVIOUS
<1>2. /\ DOMAIN q2 = DOMAIN q \cup {Len(q) + 1} /\ q2[Len(q) + 1] = n
      /\ \A k \in DOMAIN q : k \in Nat /\ k <= Len(q) /\ q2[k] = q[k]
  BY AppendProperties
<1> HIDE DEF q2
<1>3. Waits(o, q, n, q2)
  BY <1>1, <1>2 DEF B, Waits
<1> QED
  BY <1>3 DEF q2

\* A row is collected.
LEMMA CollectWithin ==
  ASSUME NEW S \in SUBSET Nat, NEW o \in Seq(Section(S) \cup Table(S)),
         NEW q \in Seq(S), NEW n \in S, NEW x
  PROVE  Within(x, o, Append(q, n)) <=> Within(x, o, q) \/ x = n
<1> PICK q2 : q2 = Append(q, n)
  OBVIOUS
<1>1. Waits(o, q, n, q2)
  BY RowWaits
<1>2. \A i \in 1..(Len(o) + 1) : i \in 1..Len(o) \/ i = Len(o) + 1
  OBVIOUS
<1>3. ASSUME Within(x, o, q2) PROVE Within(x, o, q) \/ x = n
  <2>1. PICK i \in 1..(Len(o) + 1) : \E k \in DOMAIN B(o, q2, i) : B(o, q2, i)[k] = x
    BY <1>3 DEF Within
  <2> QED
    BY <1>1, <1>2, <2>1 DEF Within, Waits
<1>4. ASSUME Within(x, o, q) PROVE Within(x, o, q2)
  <2>1. PICK i \in 1..(Len(o) + 1) : \E k \in DOMAIN B(o, q, i) : B(o, q, i)[k] = x
    BY <1>4 DEF Within
  <2>2. \E k \in DOMAIN B(o, q2, i) : B(o, q2, i)[k] = x
    BY <1>1, <1>2, <2>1 DEF Waits
  <2> QED
    BY <2>2 DEF Within
<1>5. Within(n, o, q2)
  <2>1. Len(o) + 1 \in 1..(Len(o) + 1)
    OBVIOUS
  <2> QED
    BY <1>1, <2>1 DEF Within, Waits
<1> QED
  BY <1>3, <1>4, <1>5

LEMMA CollectOrdered ==
  ASSUME NEW S \in SUBSET Nat, NEW o \in Seq(Section(S) \cup Table(S)),
         NEW q \in Seq(S), NEW n \in S, NEW R,
         Ordered(o, q, R), \A x \in R : Within(x, o, q) => x < n
  PROVE  Ordered(o, Append(q, n), R)
<1> PICK q2 : q2 = Append(q, n)
  OBVIOUS
<1>1. Waits(o, q, n, q2)
  BY RowWaits
<1>0. \A i \in 1..(Len(o) + 1) : i \in 1..Len(o) \/ i = Len(o) + 1
  OBVIOUS
<1> SUFFICES ASSUME NEW i \in 1..(Len(o) + 1), NEW j \in 1..(Len(o) + 1),
                    NEW k \in DOMAIN B(o, q2, i), NEW l \in DOMAIN B(o, q2, j),
                    i < j \/ (i = j /\ k < l),
                    B(o, q2, i)[k] \in R, B(o, q2, j)[l] \in R
             PROVE  B(o, q2, i)[k] < B(o, q2, j)[l]
  BY DEF Ordered
<1>2. /\ i \in 1..Len(o) \/ i = Len(o) + 1
      /\ j \in 1..Len(o) \/ j = Len(o) + 1
  BY <1>0
<1>3. CASE j = Len(o) + 1 /\ l = Len(q) + 1
  <2>1. k \in DOMAIN B(o, q, i) /\ B(o, q2, i)[k] = B(o, q, i)[k]
    BY <1>1, <1>2, <1>3 DEF Waits
  <2>2. Within(B(o, q, i)[k], o, q)
    BY <2>1 DEF Within
  <2> QED
    BY <1>1, <1>3, <2>1, <2>2 DEF Waits
<1>4. CASE ~(j = Len(o) + 1 /\ l = Len(q) + 1)
  <2>1. l \in DOMAIN B(o, q, j) /\ B(o, q2, j)[l] = B(o, q, j)[l]
    BY <1>1, <1>2, <1>4 DEF Waits
  <2>2. k \in DOMAIN B(o, q, i) /\ B(o, q2, i)[k] = B(o, q, i)[k]
    BY <1>1, <1>2, <1>4 DEF Waits
  <2>3. B(o, q, i)[k] < B(o, q, j)[l]
    BY <2>1, <2>2, Zenon DEF Ordered
  <2> QED
    BY <2>1, <2>2, <2>3
<1> QED
  BY <1>3, <1>4

\* o2 is o with an item more, whose nodes are b.
Added(o, r, b, o2, q) ==
  /\ Len(o) \in Nat /\ Len(o2) = Len(o) + 1
  /\ \A i \in 1..Len(o) : B(o2, q, i) = B(o, r, i)
  /\ B(o2, q, Len(o) + 1) = b
  /\ B(o2, q, Len(o) + 2) = q /\ B(o, r, Len(o) + 1) = r

LEMMA ItemAdded ==
  ASSUME NEW S, NEW o \in Seq(Section(S) \cup Table(S)), NEW q, NEW r,
         NEW s \in Section(S) \cup Table(S)
  PROVE  Added(o, r, IF "node" \in DOMAIN s THEN <<s.node>> ELSE s.rows, Append(o, s), q)
<1> DEFINE o2 == Append(o, s)
<1>1. /\ Len(o) \in Nat /\ Len(o2) = Len(o) + 1 /\ o2[Len(o) + 1] = s
      /\ \A i \in 1..Len(o) : o2[i] = o[i]
  BY AppendProperties
<1> HIDE DEF o2
<1>2. Added(o, r, IF "node" \in DOMAIN s THEN <<s.node>> ELSE s.rows, o2, q)
  BY <1>1 DEF B, Added
<1> QED
  BY <1>2 DEF o2

LEMMA SectionAdded ==
  ASSUME NEW S, NEW o \in Seq(Section(S) \cup Table(S)), NEW q, NEW n \in S, NEW l \in 1..5
  PROVE  /\ Append(o, [node |-> n, level |-> l]) \in Seq(Section(S) \cup Table(S))
         /\ Added(o, q, <<n>>, Append(o, [node |-> n, level |-> l]), q)
<1>1. PICK s : s = [node |-> n, level |-> l]
  OBVIOUS
<1>2. s \in Section(S) \cup Table(S) /\ "node" \in DOMAIN s /\ s.node = n
  BY <1>1 DEF Section
<1>3. Added(o, q, IF "node" \in DOMAIN s THEN <<s.node>> ELSE s.rows, Append(o, s), q)
  BY <1>2, ItemAdded
<1>4. (IF "node" \in DOMAIN s THEN <<s.node>> ELSE s.rows) = <<n>>
  BY <1>2
<1>5. Append(o, s) \in Seq(Section(S) \cup Table(S))
  BY <1>2, AppendProperties
<1> QED
  BY <1>1, <1>3, <1>4, <1>5

LEMMA TableAdded ==
  ASSUME NEW S, NEW o \in Seq(Section(S) \cup Table(S)), NEW r \in Seq(S), NEW t \in S
  PROVE  /\ Append(o, [title |-> t, rows |-> r]) \in Seq(Section(S) \cup Table(S))
         /\ Added(o, r, r, Append(o, [title |-> t, rows |-> r]), <<>>)
<1>1. PICK s : s = [title |-> t, rows |-> r]
  OBVIOUS
<1>2. s \in Section(S) \cup Table(S) /\ "node" \notin DOMAIN s /\ s.rows = r
  BY <1>1 DEF Table
<1>3. Added(o, r, IF "node" \in DOMAIN s THEN <<s.node>> ELSE s.rows, Append(o, s), <<>>)
  BY <1>2, ItemAdded
<1>4. (IF "node" \in DOMAIN s THEN <<s.node>> ELSE s.rows) = r
  BY <1>2
<1>5. Append(o, s) \in Seq(Section(S) \cup Table(S))
  BY <1>2, AppendProperties
<1> QED
  BY <1>1, <1>3, <1>4, <1>5

\* Rows are printed: the nodes and their order remain.
LEMMA PrintedSame ==
  ASSUME NEW o, NEW r, NEW o2, Added(o, r, r, o2, <<>>)
  PROVE  /\ \A x : Within(x, o2, <<>>) <=> Within(x, o, r)
         /\ \A R : Ordered(o, r, R) => Ordered(o2, <<>>, R)
<1>1. /\ Len(o) \in Nat /\ Len(o2) = Len(o) + 1
      /\ \A i \in 1..(Len(o) + 1) : B(o2, <<>>, i) = B(o, r, i)
      /\ DOMAIN B(o2, <<>>, Len(o) + 2) = {}
  BY DEF Added
<1>2. /\ \A i \in 1..(Len(o2) + 1) : i \in 1..(Len(o) + 1) \/ i = Len(o) + 2
      /\ \A i \in 1..(Len(o) + 1) : i \in 1..(Len(o2) + 1)
  BY <1>1
<1>3. ASSUME NEW x PROVE Within(x, o2, <<>>) <=> Within(x, o, r)
  BY <1>1, <1>2, Zenon DEF Within
<1>4. ASSUME NEW R, Ordered(o, r, R) PROVE Ordered(o2, <<>>, R)
  <2> SUFFICES ASSUME NEW i \in 1..(Len(o2) + 1), NEW j \in 1..(Len(o2) + 1),
                      NEW k \in DOMAIN B(o2, <<>>, i), NEW l \in DOMAIN B(o2, <<>>, j),
                      i < j \/ (i = j /\ k < l),
                      B(o2, <<>>, i)[k] \in R, B(o2, <<>>, j)[l] \in R
               PROVE  B(o2, <<>>, i)[k] < B(o2, <<>>, j)[l]
    BY DEF Ordered
  <2>1. i \in 1..(Len(o) + 1) /\ j \in 1..(Len(o) + 1)
    BY <1>1, <1>2, Zenon
  <2>2. B(o2, <<>>, i) = B(o, r, i) /\ B(o2, <<>>, j) = B(o, r, j)
    BY <1>1, <2>1
  <2> QED
    BY <1>4, <2>1, <2>2, Zenon DEF Ordered
<1> QED
  BY <1>3, <1>4

LEMMA SectionWithin ==
  ASSUME NEW o, NEW q, NEW n, NEW o2, Added(o, q, <<n>>, o2, q), NEW x
  PROVE  Within(x, o2, q) <=> Within(x, o, q) \/ x = n
<1>1. /\ Len(o) \in Nat /\ Len(o2) = Len(o) + 1
      /\ \A i \in 1..Len(o) : B(o2, q, i) = B(o, q, i)
      /\ B(o2, q, Len(o) + 1) = <<n>>
      /\ B(o2, q, Len(o) + 2) = B(o, q, Len(o) + 1)
  BY DEF Added
<1>2. /\ \A i \in 1..(Len(o2) + 1) :
           i \in 1..Len(o) \/ i = Len(o) + 1 \/ i = Len(o) + 2
      /\ \A i \in 1..(Len(o) + 1) : i \in 1..Len(o) \/ i = Len(o) + 1
      /\ \A i \in 1..Len(o) : i \in 1..(Len(o2) + 1) /\ i \in 1..(Len(o) + 1)
      /\ Len(o) + 1 \in 1..(Len(o) + 1)
      /\ Len(o) + 1 \in 1..(Len(o2) + 1) /\ Len(o) + 2 \in 1..(Len(o2) + 1)
  BY <1>1
<1>3. DOMAIN <<n>> = {1} /\ <<n>>[1] = n
  OBVIOUS
<1>4. ASSUME Within(x, o2, q) PROVE Within(x, o, q) \/ x = n
  <2>1. PICK i \in 1..(Len(o2) + 1) : \E k \in DOMAIN B(o2, q, i) : B(o2, q, i)[k] = x
    BY <1>4 DEF Within
  <2>2. CASE i = Len(o) + 1
    BY <1>1, <1>3, <2>1, <2>2
  <2>3. CASE i \in 1..Len(o)
    BY <1>1, <1>2, <2>1, <2>3, Zenon DEF Within
  <2>4. CASE i = Len(o) + 2
    BY <1>1, <1>2, <2>1, <2>4, Zenon DEF Within
  <2> QED
    BY <1>2, <2>2, <2>3, <2>4
<1>5. ASSUME Within(x, o, q) PROVE Within(x, o2, q)
  <2>1. PICK i \in 1..(Len(o) + 1) : \E k \in DOMAIN B(o, q, i) : B(o, q, i)[k] = x
    BY <1>5 DEF Within
  <2>2. CASE i \in 1..Len(o)
    BY <1>1, <1>2, <2>1, <2>2, Zenon DEF Within
  <2>3. CASE i = Len(o) + 1
    BY <1>1, <1>2, <2>1, <2>3, Zenon DEF Within
  <2> QED
    BY <1>2, <2>2, <2>3
<1>6. Within(n, o2, q)
  <2>1. 1 \in DOMAIN B(o2, q, Len(o) + 1) /\ B(o2, q, Len(o) + 1)[1] = n
    BY <1>1, <1>3
  <2> QED
    BY <1>2, <2>1, Zenon DEF Within
<1> QED
  BY <1>4, <1>5, <1>6

\* A section that is none of the nodes looked at.
LEMMA SectionAside ==
  ASSUME NEW o, NEW q, NEW n, NEW o2, Added(o, q, <<n>>, o2, q),
         NEW R, Ordered(o, q, R), n \notin R
  PROVE  Ordered(o2, q, R)
<1>1. /\ Len(o) \in Nat /\ Len(o2) = Len(o) + 1
      /\ \A i \in 1..Len(o) : B(o2, q, i) = B(o, q, i)
      /\ B(o2, q, Len(o) + 1) = <<n>>
      /\ B(o2, q, Len(o) + 2) = B(o, q, Len(o) + 1)
  BY DEF Added
<1>2. \A i \in 1..(Len(o2) + 1) :
        i \in 1..Len(o) \/ i = Len(o) + 1 \/ i = Len(o) + 2
  BY <1>1
<1>3. DOMAIN <<n>> = {1} /\ <<n>>[1] = n
  OBVIOUS
<1> DEFINE old(i) == IF i = Len(o) + 2 THEN Len(o) + 1 ELSE i
<1>4. ASSUME NEW i \in 1..(Len(o2) + 1), i # Len(o) + 1
      PROVE  old(i) \in 1..(Len(o) + 1) /\ B(o2, q, i) = B(o, q, old(i))
  BY <1>1, <1>2, <1>4
<1>5. ASSUME NEW i \in 1..(Len(o2) + 1), NEW j \in 1..(Len(o2) + 1),
             i # Len(o) + 1, j # Len(o) + 1
      PROVE  (i < j => old(i) < old(j)) /\ (i = j => old(i) = old(j))
  BY <1>1, <1>2, <1>5
<1> SUFFICES ASSUME NEW i \in 1..(Len(o2) + 1), NEW j \in 1..(Len(o2) + 1),
                    NEW k \in DOMAIN B(o2, q, i), NEW l \in DOMAIN B(o2, q, j),
                    i < j \/ (i = j /\ k < l),
                    B(o2, q, i)[k] \in R, B(o2, q, j)[l] \in R
             PROVE  B(o2, q, i)[k] < B(o2, q, j)[l]
  BY DEF Ordered
<1> HIDE DEF old
<1>6. i # Len(o) + 1 /\ j # Len(o) + 1
  BY <1>1, <1>3, Zenon
<1>7. /\ old(i) \in 1..(Len(o) + 1) /\ B(o2, q, i) = B(o, q, old(i))
      /\ old(j) \in 1..(Len(o) + 1) /\ B(o2, q, j) = B(o, q, old(j))
      /\ old(i) < old(j) \/ (old(i) = old(j) /\ k < l)
  BY <1>4, <1>5, <1>6, Zenon
<1> QED
  BY <1>7, Zenon DEF Ordered

\* A section behind all that was shown, while no row waits.
LEMMA SectionOrdered ==
  ASSUME NEW o, NEW n, NEW o2, Added(o, <<>>, <<n>>, o2, <<>>),
         NEW R, Ordered(o, <<>>, R), \A x \in R : Within(x, o, <<>>) => x < n
  PROVE  Ordered(o2, <<>>, R)
<1>1. /\ Len(o) \in Nat /\ Len(o2) = Len(o) + 1
      /\ \A i \in 1..Len(o) : B(o2, <<>>, i) = B(o, <<>>, i)
      /\ B(o2, <<>>, Len(o) + 1) = <<n>>
      /\ DOMAIN B(o2, <<>>, Len(o) + 2) = {}
  BY DEF Added
<1>2. /\ \A i \in 1..(Len(o2) + 1) :
           i \in 1..Len(o) \/ i = Len(o) + 1 \/ i = Len(o) + 2
      /\ \A i \in 1..Len(o) : i \in 1..(Len(o) + 1) /\ i < Len(o) + 1
                               /\ ~(Len(o) + 1 < i) /\ i # Len(o) + 1
  BY <1>1
<1>3. DOMAIN <<n>> = {1} /\ <<n>>[1] = n /\ ~(1 < 1) /\ ~(Len(o) + 1 < Len(o) + 1)
  BY <1>1
<1> SUFFICES ASSUME NEW i \in 1..(Len(o2) + 1), NEW j \in 1..(Len(o2) + 1),
                    NEW k \in DOMAIN B(o2, <<>>, i), NEW l \in DOMAIN B(o2, <<>>, j),
                    i < j \/ (i = j /\ k < l),
                    B(o2, <<>>, i)[k] \in R, B(o2, <<>>, j)[l] \in R
             PROVE  B(o2, <<>>, i)[k] < B(o2, <<>>, j)[l]
  BY DEF Ordered
<1>4. i # Len(o) + 2 /\ j # Len(o) + 2
  BY <1>1, Zenon
<1>5. CASE j = Len(o) + 1
  <2>1. l = 1 /\ B(o2, <<>>, j)[l] = n
    BY <1>1, <1>3, <1>5, Zenon
  <2>2. i # Len(o) + 1
    <3>1. ASSUME i = Len(o) + 1 PROVE FALSE
      <4>1. k = 1
        BY <1>1, <1>3, <3>1, Zenon
      <4>2. i = j /\ ~(i < j)
        BY <1>3, <1>5, <3>1, Zenon
      <4> QED
        BY <1>3, <2>1, <4>1, <4>2, Zenon
    <3> QED
      BY <3>1
  <2>3. i \in 1..Len(o)
    BY <1>2, <1>4, <2>2, Zenon
  <2>4. B(o2, <<>>, i) = B(o, <<>>, i) /\ i \in 1..(Len(o) + 1)
    BY <1>1, <1>2, <2>3, Zenon
  <2>5. Within(B(o, <<>>, i)[k], o, <<>>)
    BY <2>4, Zenon DEF Within
  <2> QED
    BY <2>1, <2>4, <2>5, Zenon
<1>6. CASE j \in 1..Len(o)
  <2>1. i \in 1..Len(o)
    BY <1>2, <1>4, <1>6, Zenon
  <2>2. /\ B(o2, <<>>, i) = B(o, <<>>, i) /\ i \in 1..(Len(o) + 1)
        /\ B(o2, <<>>, j) = B(o, <<>>, j) /\ j \in 1..(Len(o) + 1)
    BY <1>1, <1>2, <1>6, <2>1, Zenon
  <2> QED
    BY <2>2, Zenon DEF Ordered
<1> QED
  BY <1>2, <1>4, <1>5, <1>6, Zenon

-----------------------------------------------------------------------------
(***************************************************************************)
(* Rows and their captions.                                                *)
(***************************************************************************)
LEMMA MaxIs ==
  ASSUME NEW S \in SUBSET Int, NEW m \in S, \A x \in S : x <= m
  PROVE  Max(S) = m
<1>1. Max(S) \in S /\ \A x \in S : Max(S) >= x
  BY DEF Max
<1>2. Max(S) <= m /\ Max(S) >= m
  BY <1>1
<1>3. Max(S) \in Int /\ m \in Int
  BY <1>1
<1> QED
  BY <1>2, <1>3

LEMMA RowFacts ==
  ASSUME TreeOK, NEW n \in Nodes, IsRow(n)
  PROVE  /\ n # 1 /\ parent(n) # 0 /\ parent(n) \in Nodes
         /\ kind(parent(n)) = IF kind(n) = "ENTRY" THEN "TABLE"
                              ELSE IF kind(parent(n)) = "ENTRY" THEN "ENTRY" ELSE "NODE"
<1>1. n # 1
  BY TreeFacts DEF IsRow
<1>2. /\ parent(n) \in Nodes /\ parent(n) # 0 /\ kind(n) \in MayHold(kind(parent(n)))
      /\ kind(parent(n)) \in Kinds
  BY <1>1, TreeFacts
<1>3. kind(n) = "ENTRY" \/ kind(n) = "LEAF"
  BY DEF IsRow
<1> QED
  BY <1>1, <1>2, <1>3 DEF MayHold, Kinds

LEMMA CaptionFacts ==
  ASSUME TreeOK, NEW n \in Nodes, IsRow(n)
  PROVE  caption(n) \in Nodes /\ Group(n) = caption(n)
<1> DEFINE heads == {p \in Above(n) \ {n} : kind(p) \in {"NODE", "TABLE"}}
<1> DEFINE c == caption(n)
<1>1. /\ parent(n) \in Nodes /\ parent(n) \in Above(n) /\ parent(n) # n
      /\ kind(parent(n)) \in {"NODE", "TABLE", "ENTRY"}
  BY RowFacts, ParentAbove, TreeFacts
<1>2. \A p \in heads : p \in Above(parent(n))
  BY AboveParent
<1>3. ASSUME kind(parent(n)) # "ENTRY"
      PROVE  c \in Nodes /\ c \in heads /\ \A p \in heads : p <= c
  <2>1. c = parent(n)
    BY <1>3 DEF caption
  <2>2. c \in heads /\ \A p \in heads : p <= c
    BY <1>1, <1>2, <1>3, <2>1, AboveIs
  <2> QED
    BY <1>1, <2>1, <2>2
<1>4. ASSUME kind(parent(n)) = "ENTRY"
      PROVE  c \in Nodes /\ c \in heads /\ \A p \in heads : p <= c
  <2>1. c = parent(parent(n)) /\ IsRow(parent(n))
    BY <1>4 DEF caption, IsRow
  <2>2. /\ c \in Nodes /\ c # 0 /\ kind(c) = "TABLE" /\ c < parent(n)
        /\ c \in Above(parent(n))
    BY <1>1, <1>4, <2>1, RowFacts, ParentAbove
  <2>3. c \in Above(n) /\ c # n
    BY <1>1, <2>2, AboveTrans, ParentAbove, TreeFacts
  <2>4. ASSUME NEW p \in heads PROVE p <= c
    <3>1. p # parent(n) /\ p \in Above(parent(n))
      BY <1>2, <1>4
    <3>2. p \in Above(c)
      BY <1>1, <2>1, <3>1, AboveParent
    <3> QED
      BY <2>2, <3>2, AboveIs
  <2> QED
    BY <2>2, <2>3, <2>4
<1>5. c \in Nodes /\ c \in heads /\ \A p \in heads : p <= c
  BY <1>3, <1>4
<1>6. heads \cup {0} \in SUBSET Int /\ \A p \in heads \cup {0} : p <= c
  <2>1. \A p \in heads : p \in Nodes
    BY AboveIs
  <2> QED
    BY <1>5, <2>1, TreeFacts
<1>7. Group(n) = Max(heads \cup {0})
  BY DEF Group
<1> QED
  BY <1>5, <1>6, <1>7, MaxIs

LEMMA SameCaption ==
  ASSUME TreeOK, NEW n \in Nodes, NEW m \in Nodes
  PROVE  /\ parent(m) = parent(n) => caption(m) = caption(n)
         /\ kind(n) = "ENTRY" /\ parent(m) = n =>
              IsRow(m) /\ caption(m) = caption(n)
<1>1. parent(m) = parent(n) => caption(m) = caption(n)
  BY DEF caption
<1>2. ASSUME kind(n) = "ENTRY", parent(m) = n PROVE IsRow(m) /\ caption(m) = caption(n)
  <2>1. m # 1 /\ kind(m) \in MayHold("ENTRY")
    BY <1>2, TreeFacts
  <2>2. kind(parent(n)) = "TABLE"
    BY <1>2, RowFacts DEF IsRow
  <2> QED
    BY <1>2, <2>1, <2>2 DEF MayHold, IsRow, caption
<1> QED
  BY <1>1, <1>2

-----------------------------------------------------------------------------
(***************************************************************************)
(* What latexGen does with a node.                                         *)
(***************************************************************************)
Typed ==
  /\ TreeOK /\ from \in Nodes
  /\ obj \in Nodes \cup {0} /\ visit \in {"pre", "in", "post"}
  /\ infoQueue \in Seq(Nodes) /\ Len(infoQueue) < SIZE_OF_QUEUE
  /\ output \in Seq(Section(Nodes) \cup Table(Nodes))
  /\ phase \in {"travel", "done", "fault"}

LEMMA AcceptFacts ==
  ASSUME Typed, NEW n \in Nodes, NEW q2, q2 = Queue!Accepted(infoQueue, n)
  PROVE  /\ q2 \in Seq(Nodes) /\ Len(q2) < SIZE_OF_QUEUE
         /\ q2 = infoQueue \/ q2 = Append(infoQueue, n)
         /\ Len(infoQueue) + 1 < SIZE_OF_QUEUE => q2 = Append(infoQueue, n)
<1>1. Len(infoQueue) \in Nat /\ SIZE_OF_QUEUE \in Nat /\ infoQueue \in Seq(Nodes)
  BY DocumentAssumption DEF Typed
<1>2. CASE Len(infoQueue) = SIZE_OF_QUEUE - 1
  BY <1>1, <1>2 DEF Queue!Accepted, Typed
<1>3. CASE Len(infoQueue) # SIZE_OF_QUEUE - 1
  <2>1. q2 = Append(infoQueue, n)
    BY <1>3 DEF Queue!Accepted
  <2>2. q2 \in Seq(Nodes) /\ Len(q2) = Len(infoQueue) + 1
    BY <1>1, <2>1, AppendProperties
  <2> QED
    BY <1>1, <1>3, <2>1, <2>2 DEF Typed
<1> QED
  BY <1>2, <1>3

AsTable(n) ==
  /\ kind(n) = "LEAF" /\ infoQueue' = <<>>
  /\ output' = Append(output, [title |-> caption(n), rows |-> Queue!Accepted(infoQueue, n)])

AsRow(n) ==
  /\ IsRow(n)
  /\ kind(n) = "LEAF" => sibling(n) # 0 /\ kind(sibling(n)) # "TABLE"
  /\ infoQueue' = Queue!Accepted(infoQueue, n) /\ output' = output

AsSection(n) ==
  /\ ~IsRow(n) /\ infoQueue' = infoQueue
  /\ \E l \in 1..5 : output' = Append(output, [node |-> n, level |-> l])

LEMMA GenCases ==
  ASSUME Typed, NEW n \in Nodes, latexGen(n)
  PROVE  AsTable(n) \/ AsRow(n) \/ AsSection(n)
<1>1. kind(n) \in Kinds
  BY TreeFacts DEF Typed
<1>2. CASE makeDecision(n) = "TABLE" /\ latexTable(Queue!Accepted(infoQueue, n), caption(n))
  <2>1. kind(n) = "LEAF"
    BY <1>1, <1>2 DEF makeDecision, Kinds
  <2> QED
    BY <1>2, <2>1 DEF latexTable, AsTable
<1>3. CASE /\ makeDecision(n) = "COLLECTING" /\ UNCHANGED output
           /\ infoQueue' = Queue!Accepted(infoQueue, n)
  <2>1. IsRow(n) /\ (kind(n) = "LEAF" => sibling(n) # 0 /\ kind(sibling(n)) # "TABLE")
    BY <1>1, <1>3 DEF makeDecision, Kinds, IsRow
  <2> QED
    BY <1>3, <2>1 DEF AsRow
<1>4. CASE makeDecision(n) = "SECTION" /\ latexSection(n) /\ UNCHANGED infoQueue
  <2>1. ~IsRow(n)
    BY <1>1, <1>4 DEF makeDecision, Kinds, IsRow
  <2>2. \E l \in 1..5 : output' = Append(output, [node |-> n, level |-> l])
    BY <1>4 DEF latexSection
  <2> QED
    BY <1>4, <2>1, <2>2 DEF AsSection
<1> QED
  BY <1>2, <1>3, <1>4 DEF latexGen

ShownBefore(n) == \A x : Within(x, output, infoQueue) => x \in Nodes /\ x < n

RowNodes == {n \in Nodes : IsRow(n)}

LEMMA AcceptDocument ==
  ASSUME Typed, NEW n \in Nodes, NEW q2, q2 = Queue!Accepted(infoQueue, n), ShownBefore(n)
  PROVE  /\ \A x : Within(x, output, q2) => Within(x, output, infoQueue) \/ x = n
         /\ \A R : Ordered(output, infoQueue, R) => Ordered(output, q2, R)
         /\ Len(infoQueue) + 1 < SIZE_OF_QUEUE =>
              \A x : Within(x, output, infoQueue) \/ x = n => Within(x, output, q2)
<1>1. /\ Nodes \in SUBSET Nat /\ infoQueue \in Seq(Nodes)
      /\ output \in Seq(Section(Nodes) \cup Table(Nodes))
  BY TreeFacts DEF Typed
<1>2. \A x : Within(x, output, Append(infoQueue, n)) <=> Within(x, output, infoQueue) \/ x = n
  BY <1>1, CollectWithin
<1>3. ASSUME NEW R, Ordered(output, infoQueue, R)
      PROVE  Ordered(output, Append(infoQueue, n), R)
  <2>1. \A x \in R : Within(x, output, infoQueue) => x < n
    BY DEF ShownBefore
  <2> QED
    BY <1>1, <1>3, <2>1, CollectOrdered
<1>4. CASE q2 = infoQueue /\ ~(Len(infoQueue) + 1 < SIZE_OF_QUEUE)
  BY <1>4
<1>5. CASE q2 = Append(infoQueue, n)
  BY <1>2, <1>3, <1>5
<1> QED
  BY <1>4, <1>5, AcceptFacts

\* A step of latexGen keeps the rows in order, whatever the tree.
LEMMA GenDocument ==
  ASSUME Typed, NEW n \in Nodes, latexGen(n), ShownBefore(n),
         Ordered(output, infoQueue, RowNodes)
  PROVE  /\ infoQueue' \in Seq(Nodes) /\ Len(infoQueue') < SIZE_OF_QUEUE
         /\ output' \in Seq(Section(Nodes) \cup Table(Nodes))
         /\ \A x : Within(x, output', infoQueue') => Within(x, output, infoQueue) \/ x = n
         /\ Ordered(output', infoQueue', RowNodes)
<1>1. PICK q2 : q2 = Queue!Accepted(infoQueue, n)
  OBVIOUS
<1>2. /\ q2 \in Seq(Nodes) /\ Len(q2) < SIZE_OF_QUEUE
      /\ infoQueue \in Seq(Nodes) /\ Len(infoQueue) < SIZE_OF_QUEUE
      /\ output \in Seq(Section(Nodes) \cup Table(Nodes)) /\ SIZE_OF_QUEUE \in Nat \ {0}
  BY <1>1, AcceptFacts, DocumentAssumption DEF Typed
<1>3. /\ \A x : Within(x, output, q2) => Within(x, output, infoQueue) \/ x = n
      /\ Ordered(output, q2, RowNodes)
  BY <1>1, AcceptDocument
<1>4. CASE AsTable(n)
  <2>1. /\ infoQueue' = <<>> /\ kind(n) = "LEAF"
        /\ output' = Append(output, [title |-> caption(n), rows |-> q2])
    BY <1>1, <1>4 DEF AsTable
  <2>2. caption(n) \in Nodes
    BY <2>1, CaptionFacts DEF IsRow, Typed
  <2>3. /\ output' \in Seq(Section(Nodes) \cup Table(Nodes))
        /\ Added(output, q2, q2, output', <<>>)
    BY <1>2, <2>1, <2>2, TableAdded
  <2>4. /\ \A x : Within(x, output', <<>>) <=> Within(x, output, q2)
        /\ Ordered(output', <<>>, RowNodes)
    BY <1>3, <2>3, PrintedSame
  <2>5. <<>> \in Seq(Nodes) /\ Len(<<>>) < SIZE_OF_QUEUE
    BY <1>2
  <2> QED
    BY <1>3, <2>1, <2>3, <2>4, <2>5
<1>5. CASE AsRow(n)
  BY <1>1, <1>2, <1>3, <1>5 DEF AsRow
<1>6. CASE AsSection(n)
  <2>1. PICK l \in 1..5 : output' = Append(output, [node |-> n, level |-> l])
    BY <1>6 DEF AsSection
  <2>2. infoQueue' = infoQueue /\ n \notin RowNodes
    BY <1>6 DEF AsSection, RowNodes
  <2>3. /\ output' \in Seq(Section(Nodes) \cup Table(Nodes))
        /\ Added(output, infoQueue, <<n>>, output', infoQueue)
    BY <1>2, <2>1, SectionAdded
  <2>4. \A x : Within(x, output', infoQueue) <=> Within(x, output, infoQueue) \/ x = n
    BY <2>3, SectionWithin
  <2>5. Ordered(output', infoQueue, RowNodes)
    BY <2>2, <2>3, SectionAside
  <2> QED
    BY <1>2, <2>2, <2>3, <2>4, <2>5
<1> QED
  BY <1>4, <1>5, <1>6, GenCases

\* The rows that wait when n is met, and the title of every table.
Waiting(q, n) == \A k \in DOMAIN q : IsRow(q[k]) /\ caption(q[k]) = caption(n)

Titled(o) ==
  \A i \in DOMAIN o : "rows" \in DOMAIN o[i] =>
    \A k \in DOMAIN o[i].rows : IsRow(o[i].rows[k]) /\ o[i].title = caption(o[i].rows[k])

\* A queue that holds rows of one group has a place for another.
LEMMA PlaceLeft ==
  ASSUME Typed, Fits, NEW n \in Chosen, IsRow(n), Waiting(infoQueue, n), ShownBefore(n),
         \A x : Within(x, output, infoQueue) => x \in Chosen,
         Ordered(output, infoQueue, Nodes)
  PROVE  Len(infoQueue) + 1 < SIZE_OF_QUEUE
<1> DEFINE group == {m \in Chosen : IsRow(m) /\ Group(m) = caption(n)}
<1> DEFINE L == Len(infoQueue)
<1> DEFINE f == [k \in 1..(L + 1) |-> IF k = L + 1 THEN n ELSE infoQueue[k]]
<1>1. /\ n \in Nodes /\ TreeOK /\ Nodes \in SUBSET Nat /\ Chosen \subseteq Nodes
      /\ infoQueue \in Seq(Nodes) /\ L \in Nat /\ Len(output) \in Nat
      /\ DOMAIN infoQueue = 1..L
  BY TreeFacts DEF Typed, Chosen
<1>2. /\ Len(output) + 1 \in 1..(Len(output) + 1)
      /\ B(output, infoQueue, Len(output) + 1) = infoQueue
  BY <1>1 DEF B
<1>3. ASSUME NEW k \in 1..L
      PROVE  infoQueue[k] \in group /\ infoQueue[k] < n /\ infoQueue[k] \in Nat
  <2>1. Within(infoQueue[k], output, infoQueue)
    BY <1>1, <1>2 DEF Within
  <2>2. infoQueue[k] \in Chosen /\ infoQueue[k] < n /\ infoQueue[k] \in Nodes
    BY <2>1 DEF ShownBefore
  <2>3. IsRow(infoQueue[k]) /\ caption(infoQueue[k]) = caption(n)
    BY <1>1 DEF Waiting
  <2>4. Group(infoQueue[k]) = caption(n)
    BY <1>1, <2>2, <2>3, CaptionFacts
  <2> QED
    BY <1>1, <2>2, <2>3, <2>4
<1>4. ASSUME NEW k \in 1..L, NEW l \in 1..L, k < l PROVE infoQueue[k] < infoQueue[l]
  <2>1. infoQueue[k] \in Nodes /\ infoQueue[l] \in Nodes
    BY <1>1, ElementOfSeq
  <2> QED
    BY <1>1, <1>2, <1>4, <2>1 DEF Ordered
<1>5. n \in group /\ caption(n) \in Nodes
  BY <1>1, CaptionFacts
<1>6. f \in Injection(1..(L + 1), group)
  <2>1. \A k \in 1..(L + 1) : f[k] \in group
    BY <1>1, <1>3, <1>5
  <2>2. ASSUME NEW k \in 1..(L + 1), NEW l \in 1..(L + 1), k < l PROVE f[k] # f[l]
    <3>1. k \in 1..L /\ f[k] = infoQueue[k]
      BY <1>1, <2>2
    <3>2. CASE l = L + 1
      BY <1>1, <1>3, <3>1, <3>2
    <3>3. CASE l # L + 1
      <4>1. l \in 1..L /\ f[l] = infoQueue[l]
        BY <1>1, <3>3
      <4> QED
        BY <1>3, <1>4, <2>2, <3>1, <4>1
    <3> QED
      BY <3>2, <3>3
  <2>3. \A k, l \in 1..(L + 1) : f[k] = f[l] => k = l
    <3> HIDE DEF f
    <3>1. \A k, l \in 1..(L + 1) : k = l \/ k < l \/ l < k
      BY <1>1
    <3> QED
      BY <2>2, <3>1
  <2>4. f \in [1..(L + 1) -> group]
    BY <2>1
  <2> QED
    BY <2>3, <2>4 DEF Injection, IsInjective
<1>7. IsFiniteSet(group)
  <2>1. group \subseteq 1..Len(tree) /\ Len(tree) \in Nat
    BY <1>1, TreeFacts DEF Nodes
  <2>2. IsFiniteSet(1..Len(tree))
    BY <2>1, FS_Interval
  <2> QED
    BY <2>1, <2>2, FS_Subset
<1>8. Cardinality(1..(L + 1)) <= Cardinality(group)
  BY <1>6, <1>7, FS_Injection
<1>9. Cardinality(1..(L + 1)) = L + 1
  BY <1>1, FS_Interval
<1>10. Cardinality(group) < SIZE_OF_QUEUE /\ Cardinality(group) \in Nat
  BY <1>5, <1>7, FS_CardinalityType DEF Fits
<1> HIDE DEF group
<1> QED
  BY <1>1, <1>8, <1>9, <1>10, DocumentAssumption

\* A step of latexGen in a tidy tree: no row waits when a section is written.
LEMMA GenTidy ==
  ASSUME Typed, NEW n \in Chosen, latexGen(n), ShownBefore(n),
         Waiting(infoQueue, n), infoQueue # <<>> => IsRow(n), Titled(output),
         \A x : Within(x, output, infoQueue) => x \in Chosen,
         Ordered(output, infoQueue, Nodes)
  PROVE  /\ Waiting(infoQueue', n) /\ Titled(output')
         /\ infoQueue' # <<>> =>
              /\ IsRow(n)
              /\ kind(n) = "LEAF" => sibling(n) # 0 /\ kind(sibling(n)) # "TABLE"
         /\ Ordered(output', infoQueue', Nodes)
         /\ Fits => \A x : Within(x, output, infoQueue) \/ x = n
                             => Within(x, output', infoQueue')
<1>1. PICK q2 : q2 = Queue!Accepted(infoQueue, n)
  OBVIOUS
<1>2. /\ n \in Nodes /\ q2 \in Seq(Nodes) /\ TreeOK
      /\ infoQueue \in Seq(Nodes)
      /\ output \in Seq(Section(Nodes) \cup Table(Nodes))
      /\ q2 = infoQueue \/ q2 = Append(infoQueue, n)
  BY <1>1, AcceptFacts DEF Typed, Chosen
<1>3. Ordered(output, q2, Nodes)
  BY <1>1, <1>2, AcceptDocument
<1>4. ASSUME IsRow(n) PROVE Waiting(q2, n)
  <2>1. CASE q2 = infoQueue
    BY <2>1
  <2>2. CASE q2 = Append(infoQueue, n)
    <3>1. ASSUME NEW k \in DOMAIN q2 PROVE q2[k] = n \/ \E j \in DOMAIN infoQueue : q2[k] = infoQueue[j]
      BY <1>2, <2>2, AppendProperties
    <3> QED
      BY <1>4, <3>1 DEF Waiting
  <2> QED
    BY <1>2, <2>1, <2>2
<1>5. ASSUME IsRow(n), Fits
      PROVE  \A x : Within(x, output, infoQueue) \/ x = n => Within(x, output, q2)
  <2>1. Len(infoQueue) + 1 < SIZE_OF_QUEUE
    BY <1>5, PlaceLeft
  <2> QED
    BY <1>1, <1>2, <2>1, AcceptDocument
<1>6. ASSUME NEW s, output' = Append(output, s),
             "rows" \in DOMAIN s => \A k \in DOMAIN s.rows : IsRow(s.rows[k]) /\ s.title = caption(s.rows[k])
      PROVE  Titled(output')
  <2>1. /\ DOMAIN output' = DOMAIN output \cup {Len(output) + 1}
        /\ output'[Len(output) + 1] = s
        /\ \A i \in DOMAIN output : output'[i] = output[i]
    BY <1>2, <1>6, AppendProperties
  <2> QED
    BY <1>6, <2>1 DEF Titled
<1>7. CASE AsTable(n)
  <2>1. /\ infoQueue' = <<>> /\ kind(n) = "LEAF" /\ IsRow(n)
        /\ output' = Append(output, [title |-> caption(n), rows |-> q2])
    BY <1>1, <1>7 DEF AsTable, IsRow
  <2>2. caption(n) \in Nodes
    BY <1>2, <2>1, CaptionFacts
  <2>3. Added(output, q2, q2, output', <<>>)
    BY <1>2, <2>1, <2>2, TableAdded
  <2>4. /\ \A x : Within(x, output', <<>>) <=> Within(x, output, q2)
        /\ Ordered(output', <<>>, Nodes)
    BY <1>3, <2>3, PrintedSame
  <2>5. Titled(output')
    <3>1. PICK s : s = [title |-> caption(n), rows |-> q2]
      OBVIOUS
    <3>2. s.title = caption(n) /\ s.rows = q2
      BY <3>1
    <3>3. \A k \in DOMAIN s.rows : IsRow(s.rows[k]) /\ s.title = caption(s.rows[k])
      BY <1>4, <2>1, <3>2 DEF Waiting
    <3> QED
      BY <1>6, <2>1, <3>1, <3>3
  <2>6. Waiting(<<>>, n)
    BY DEF Waiting
  <2> QED
    BY <1>5, <2>1, <2>4, <2>5, <2>6
<1>8. CASE AsRow(n)
  <2>1. /\ IsRow(n) /\ output' = output /\ infoQueue' = q2
        /\ kind(n) = "LEAF" => sibling(n) # 0 /\ kind(sibling(n)) # "TABLE"
    BY <1>1, <1>8 DEF AsRow
  <2> QED
    BY <1>3, <1>4, <1>5, <2>1
<1>9. CASE AsSection(n)
  <2>1. PICK l \in 1..5 : output' = Append(output, [node |-> n, level |-> l])
    BY <1>9 DEF AsSection
  <2>2. infoQueue' = <<>> /\ infoQueue = <<>>
    BY <1>9 DEF AsSection
  <2>3. Added(output, <<>>, <<n>>, output', <<>>)
    BY <1>2, <2>1, SectionAdded
  <2>4. \A x : Within(x, output', <<>>) <=> Within(x, output, <<>>) \/ x = n
    BY <2>3, SectionWithin
  <2>5. Ordered(output', <<>>, Nodes)
    BY <2>2, <2>3, SectionOrdered DEF ShownBefore
  <2>6. Titled(output')
    <3>1. PICK s : s = [node |-> n, level |-> l]
      OBVIOUS
    <3>2. "rows" \notin DOMAIN s
      BY <3>1
    <3> QED
      BY <1>6, <2>1, <3>1, <3>2
  <2> QED
    BY <2>2, <2>4, <2>5, <2>6
<1> QED
  BY <1>2, <1>7, <1>8, <1>9, GenCases

-----------------------------------------------------------------------------
(***************************************************************************)
(* The inductive invariant.                                                *)
(***************************************************************************)
\* From a begin node that is astray the travel goes on behind it.
TravelInv ==
  /\ phase = "done" => obj = from /\ visit = "post"
  /\ ~Astray =>
       /\ from \in Above(obj) /\ phase # "fault"
       /\ obj = from /\ phase = "travel" => visit = "pre" \/ (visit = "in" /\ child(from) = 0)
  /\ Astray =>
       /\ phase # "done"
       /\ \/ obj = 0
          \/ obj = from /\ visit # "post"
          \/ obj # from /\ from \in Met(obj, visit)

\* What is in the document has been met.
DocInv ==
  /\ obj # 0 => \A x : Within(x, output, infoQueue) => x \in Met(obj, visit)
  /\ Ordered(output, infoQueue, RowNodes)

\* In a tidy tree, what has been met is in the document, and rows wait only
\* between two rows of one group.
QueueInv ==
  /\ Waiting(infoQueue, obj)
  /\ infoQueue # <<>> =>
       /\ IsRow(obj)
       /\ \/ visit = "pre"
          \/ visit = "in" /\ sibling(obj) # 0 /\ kind(sibling(obj)) # "TABLE"

ChosenInv ==
  /\ \A x : Within(x, output, infoQueue) => x \in Chosen
  /\ Fits => \A x \in Chosen : x \in Met(obj, visit) => Within(x, output, infoQueue)

TidyInv ==
  Tidy /\ ~Astray =>
    /\ QueueInv /\ ChosenInv
    /\ Titled(output) /\ Ordered(output, infoQueue, Nodes)

IInv == Typed /\ TravelInv /\ DocInv /\ TidyInv

-----------------------------------------------------------------------------
(***************************************************************************)
(* The tree and the begin node do not change.                              *)
(***************************************************************************)
LEMMA TreeKept ==
  ASSUME tree' = tree, from' = from
  PROVE  /\ TreeOK' <=> TreeOK
         /\ Nodes' = Nodes /\ RowNodes' = RowNodes /\ Chosen' = Chosen
         /\ Tidy' <=> Tidy
         /\ Fits' <=> Fits
         /\ Astray' <=> Astray
         /\ child(from)' = child(from)
<1>1. TreeOK' <=> TreeOK
  BY DEF TreeOK, IsTree
<1>2. Nodes' = Nodes
  BY DEF Nodes
<1>3. RowNodes' = RowNodes
  BY DEF RowNodes, Nodes, IsRow, kind
<1>4. Chosen' = Chosen
  BY DEF Chosen, Nodes, Above, parent
<1>5. Tidy' <=> Tidy
  BY DEF Tidy, Chosen, Nodes, Above, parent, kind, child, sibling
<1>6. Fits' <=> Fits
  BY DEF Fits, Chosen, IsRow, Group, Nodes, kind, Above, parent
<1>7. Astray' <=> Astray
  BY DEF Astray, child, sibling, parent
<1>8. child(from)' = child(from)
  BY DEF child, parent
<1> QED
  BY <1>1, <1>2, <1>3, <1>4, <1>5, <1>6, <1>7, <1>8

LEMMA PlaceKept ==
  ASSUME tree' = tree, from' = from
  PROVE  /\ Above(obj)' = Above(obj') /\ Met(obj, visit)' = Met(obj', visit')
         /\ sibling(obj)' = sibling(obj') /\ kind(sibling(obj))' = kind(sibling(obj'))
         /\ IsRow(obj)' <=> IsRow(obj')
         /\ Waiting(infoQueue, obj)' <=> Waiting(infoQueue', obj')
         /\ Titled(output)' <=> Titled(output')
<1>1. Above(obj)' = Above(obj')
  BY DEF Above, parent
<1>2. Met(obj, visit)' = Met(obj', visit')
  BY DEF Met, Nodes, Above, parent
<1>3. sibling(obj)' = sibling(obj')
  BY DEF sibling, parent
<1>4. kind(sibling(obj))' = kind(sibling(obj'))
  BY DEF sibling, parent, kind
<1>5. IsRow(obj)' <=> IsRow(obj')
  BY DEF IsRow, kind
<1>6. Waiting(infoQueue, obj)' <=> Waiting(infoQueue', obj')
  BY DEF Waiting, IsRow, kind, caption, parent
<1>7. Titled(output)' <=> Titled(output')
  BY DEF Titled, IsRow, kind, caption, parent
<1> QED
  BY <1>1, <1>2, <1>3, <1>4, <1>5, <1>6, <1>7

-----------------------------------------------------------------------------
(***************************************************************************)
(* The travel.                                                             *)
(***************************************************************************)
Down   == visit = "pre" /\ child(obj) # 0 /\ obj' = child(obj) /\ visit' = "pre"
Leaf   == visit = "pre" /\ child(obj) = 0 /\ obj' = obj /\ visit' = "in"
Across == visit = "in" /\ sibling(obj) # 0 /\ obj' = sibling(obj) /\ visit' = "pre"
Leave  == visit = "in" /\ sibling(obj) = 0 /\ obj' = obj /\ visit' = "post"
Back   == visit = "post" /\ sibling(obj) # 0 /\ obj' = obj /\ visit' = "in"
Up     == visit = "post" /\ sibling(obj) = 0 /\ obj' = parent(obj) /\ visit' = "post"

LEMMA Moves ==
  ASSUME visit \in {"pre", "in", "post"}, travel_step
  PROVE  Down \/ Leaf \/ Across \/ Leave \/ Back \/ Up
BY DEF travel_step, Down, Leaf, Across, Leave, Back, Up

LEMMA MetStep ==
  ASSUME Typed, obj \in Nodes, travel_step
  PROVE  /\ obj' \in Nodes \cup {0} /\ visit' \in {"pre", "in", "post"}
         /\ obj' # 0 =>
              Met(obj', visit') = Met(obj, visit) \cup IF visit = "pre" THEN {obj} ELSE {}
<1>1. TreeOK /\ visit \in {"pre", "in", "post"} /\ obj # 0
  BY TreeFacts DEF Typed
<1>2. CASE Down
  BY <1>1, <1>2, ChildFacts, MetDown DEF Down
<1>3. CASE Leaf
  BY <1>1, <1>3, MetLeaf DEF Leaf
<1>4. CASE Across
  BY <1>1, <1>4, SiblingFacts, MetAcross DEF Across
<1>5. CASE Leave
  BY <1>5 DEF Leave, Met
<1>6. CASE Back
  BY <1>6 DEF Back, Met
<1>7. CASE Up
  BY <1>1, <1>7, ParentAbove, MetUp DEF Up
<1> QED
  BY <1>1, <1>2, <1>3, <1>4, <1>5, <1>6, <1>7, Moves

LEMMA StaysInside ==
  ASSUME IInv, ~Astray, phase = "travel", obj \in Nodes, travel_step
  PROVE  /\ from \in Above(obj')
         /\ obj' = from => \/ visit' = "pre" \/ visit' = "post"
                           \/ visit' = "in" /\ child(from) = 0
<1>1. /\ TreeOK /\ visit \in {"pre", "in", "post"} /\ obj # 0 /\ from \in Above(obj)
      /\ obj = from => visit = "pre" \/ (visit = "in" /\ child(from) = 0)
  BY TreeFacts DEF IInv, Typed, TravelInv
<1>2. CASE Down
  <2>1. obj' \in Nodes /\ parent(obj') = obj /\ visit' = "pre"
    BY <1>1, <1>2, ChildFacts DEF Down
  <2>2. obj \in Above(obj')
    BY <1>1, <2>1, ParentAbove
  <2> QED
    BY <1>1, <2>1, <2>2, AboveTrans
<1>3. CASE Leaf
  BY <1>1, <1>3 DEF Leaf
<1>4. CASE Across
  <2>1. obj # from
    BY <1>1, <1>4 DEF Across, Astray
  <2>2. parent(obj) # 0 /\ from \in Above(parent(obj))
    BY <1>1, <2>1, AboveParent
  <2>3. obj' \in Nodes /\ parent(obj') = parent(obj) /\ visit' = "pre"
    BY <1>1, <1>4, SiblingFacts DEF Across
  <2>4. parent(obj) \in Above(obj')
    BY <1>1, <2>2, <2>3, ParentAbove
  <2> QED
    BY <1>1, <2>2, <2>3, <2>4, AboveTrans
<1>5. CASE Leave
  BY <1>1, <1>5 DEF Leave
<1>6. CASE Back
  BY <1>1, <1>6 DEF Back
<1>7. CASE Up
  <2>1. obj # from
    BY <1>1, <1>7 DEF Up
  <2> QED
    BY <1>1, <1>7, <2>1, AboveParent DEF Up
<1> QED
  BY <1>1, <1>2, <1>3, <1>4, <1>5, <1>6, <1>7, Moves

LEMMA GoesAstray ==
  ASSUME IInv, Astray, phase = "travel", obj \in Nodes, travel_step
  PROVE  /\ ~(obj' = from /\ visit' = "post")
         /\ \/ obj' = 0
            \/ obj' = from /\ visit' # "post"
            \/ obj' # from /\ from \in Met(obj', visit')
<1>1. /\ TreeOK /\ visit \in {"pre", "in", "post"} /\ obj # 0 /\ from \in Nodes
      /\ child(from) = 0 /\ sibling(from) # 0
      /\ \/ obj = from /\ visit # "post"
         \/ obj # from /\ from \in Met(obj, visit)
  BY TreeFacts DEF IInv, Typed, TravelInv, Astray
<1>2. obj' \in Nodes \cup {0} /\ (obj' # 0 => Met(obj, visit) \subseteq Met(obj', visit'))
  BY MetStep DEF IInv
<1>3. CASE obj = from /\ visit = "pre"
  BY <1>1, <1>3, Moves DEF Down, Leaf, Across, Leave, Back, Up
<1>4. CASE obj = from /\ visit = "in"
  <2>1. Across
    BY <1>1, <1>4, Moves DEF Down, Leaf, Across, Leave, Back, Up
  <2>2. obj' \in Nodes /\ obj' > from
    BY <1>1, <1>4, <2>1, SiblingFacts DEF Across
  <2>3. from \in Met(obj, visit) /\ from \in Nat
    BY <1>1, <1>4, AboveSelf, TreeFacts DEF Met
  <2>4. obj' # 0 /\ obj' # from
    BY <2>2, <2>3, <1>1, TreeFacts
  <2> QED
    BY <1>2, <2>3, <2>4
<1>5. CASE obj # from /\ from \in Met(obj, visit)
  <2>1. ASSUME obj' # 0 PROVE from \in Met(obj', visit')
    BY <1>2, <1>5, <2>1
  <2>2. ASSUME obj' = from PROVE FALSE
    <3>1. from # 0 /\ from \in Nat
      BY <1>1, TreeFacts
    <3>2. visit' # "pre"
      BY <2>1, <2>2, <3>1 DEF Met
    <3>3. obj' = parent(obj)
      BY <1>1, <1>5, <2>2, <3>2, Moves DEF Down, Leaf, Across, Leave, Back, Up
    <3>4. from \in Above(obj)
      BY <1>1, <2>2, <3>1, <3>3, ParentAbove
    <3> QED
      BY <1>1, <1>5, <3>4, ChildFacts
  <2> QED
    BY <2>1, <2>2
<1> QED
  BY <1>1, <1>3, <1>4, <1>5

LEMMA TravelStep ==
  ASSUME IInv, Turn
  PROVE  TravelInv'
<1>1. /\ obj \in Nodes /\ travel_step /\ phase = "travel"
      /\ phase' = IF obj' = from /\ visit' = "post" THEN "done" ELSE "travel"
      /\ tree' = tree /\ from' = from
  BY DEF IInv, Typed, Turn, AtEnd
<1>2. /\ Astray' <=> Astray
      /\ Above(obj)' = Above(obj') /\ Met(obj, visit)' = Met(obj', visit')
      /\ child(from)' = child(from)
  BY <1>1, TreeKept, PlaceKept
<1>3. CASE ~Astray
  BY <1>1, <1>2, <1>3, StaysInside DEF TravelInv
<1>4. CASE Astray
  BY <1>1, <1>2, <1>4, GoesAstray DEF TravelInv
<1> QED
  BY <1>3, <1>4

-----------------------------------------------------------------------------
(***************************************************************************)
(* Each step keeps the invariant.                                          *)
(***************************************************************************)
LEMMA MetBefore ==
  ASSUME IInv, obj \in Nodes, visit = "pre"
  PROVE  ShownBefore(obj)
BY TreeFacts DEF IInv, Typed, DocInv, ShownBefore, Met

LEMMA DocStep ==
  ASSUME IInv, Turn
  PROVE  Typed' /\ DocInv'
<1>1. /\ obj \in Nodes /\ travel_step /\ tree' = tree /\ from' = from
      /\ phase' \in {"travel", "done", "fault"} /\ obj # 0 /\ TreeOK /\ from \in Nodes
  BY TreeFacts DEF IInv, Typed, Turn
<1>2. /\ TreeOK' /\ Nodes' = Nodes /\ RowNodes' = RowNodes
      /\ Met(obj, visit)' = Met(obj', visit')
  BY <1>1, TreeKept, PlaceKept
<1>3. /\ obj' \in Nodes \cup {0} /\ visit' \in {"pre", "in", "post"}
      /\ obj' # 0 =>
           Met(obj', visit') = Met(obj, visit) \cup IF visit = "pre" THEN {obj} ELSE {}
  BY <1>1, MetStep DEF IInv
<1>4. /\ infoQueue' \in Seq(Nodes) /\ Len(infoQueue') < SIZE_OF_QUEUE
      /\ output' \in Seq(Section(Nodes) \cup Table(Nodes))
      /\ obj' # 0 => \A x : Within(x, output', infoQueue') => x \in Met(obj', visit')
      /\ Ordered(output', infoQueue', RowNodes)
  <2>1. /\ \A x : Within(x, output, infoQueue) => x \in Met(obj, visit)
        /\ Ordered(output, infoQueue, RowNodes) /\ Typed
    BY <1>1 DEF IInv, DocInv
  <2>2. CASE visit = "pre"
    <3>1. latexGen(obj) /\ ShownBefore(obj)
      BY <1>1, <2>2, MetBefore DEF Turn
    <3>2. /\ infoQueue' \in Seq(Nodes) /\ Len(infoQueue') < SIZE_OF_QUEUE
          /\ output' \in Seq(Section(Nodes) \cup Table(Nodes))
          /\ \A x : Within(x, output', infoQueue') => Within(x, output, infoQueue) \/ x = obj
          /\ Ordered(output', infoQueue', RowNodes)
      BY <1>1, <2>1, <3>1, GenDocument
    <3> QED
      BY <1>3, <2>1, <2>2, <3>2
  <2>3. CASE visit # "pre"
    <3>1. infoQueue' = infoQueue /\ output' = output
      BY <2>3 DEF Turn
    <3> QED
      BY <1>3, <2>1, <2>3, <3>1 DEF Typed
  <2> QED
    BY <2>2, <2>3
<1>5. Typed'
  BY <1>1, <1>2, <1>3, <1>4 DEF Typed
<1>6. DocInv'
  BY <1>2, <1>4 DEF DocInv
<1> QED
  BY <1>5, <1>6

LEMMA AboveSome == ASSUME TreeOK, NEW n \in Nodes \cup {0}, from \in Above(n) PROVE n \in Nodes
BY DEF Above

LEMMA QueueStep ==
  ASSUME Typed, Tidy, obj \in Chosen, Waiting(infoQueue', obj), travel_step,
         visit = "pre" /\ infoQueue' # <<>> =>
           /\ IsRow(obj)
           /\ kind(obj) = "LEAF" => sibling(obj) # 0 /\ kind(sibling(obj)) # "TABLE",
         visit # "pre" /\ infoQueue' # <<>> =>
           /\ visit = "in" /\ IsRow(obj)
           /\ sibling(obj) # 0 /\ kind(sibling(obj)) # "TABLE",
         infoQueue' \in Seq(Nodes)
  PROVE  /\ Waiting(infoQueue', obj')
         /\ infoQueue' # <<>> =>
              /\ IsRow(obj')
              /\ \/ visit' = "pre"
                 \/ visit' = "in" /\ sibling(obj') # 0 /\ kind(sibling(obj')) # "TABLE"
<1>1. /\ TreeOK /\ obj \in Nodes /\ visit \in {"pre", "in", "post"}
      /\ kind(obj) \in Kinds
  BY TreeFacts DEF Typed, Chosen
<1>2. CASE infoQueue' = <<>>
  BY <1>2 DEF Waiting
<1>3. CASE infoQueue' # <<>>
  <2>1. IsRow(obj) /\ (kind(obj) = "ENTRY" \/ kind(obj) = "LEAF")
    BY <1>1, <1>3 DEF IsRow
  <2>2. CASE Down
    <3>1. obj' \in Nodes /\ parent(obj') = obj /\ obj' # 1
      BY <1>1, <2>2, ChildFacts, TreeFacts DEF Down
    <3>2. kind(obj') \in MayHold(kind(obj))
      BY <1>1, <3>1, TreeFacts
    <3>3. kind(obj) = "ENTRY"
      BY <2>1, <3>2 DEF MayHold
    <3>4. IsRow(obj') /\ caption(obj') = caption(obj)
      BY <1>1, <3>1, <3>3, SameCaption
    <3> QED
      BY <2>2, <3>4 DEF Down, Waiting
  <2>3. CASE Leaf
    <3>1. kind(obj) = "LEAF"
      BY <2>1, <2>3 DEF Leaf, Tidy
    <3> QED
      BY <1>3, <2>1, <2>3, <3>1 DEF Leaf
  <2>4. CASE Across
    <3>1. /\ obj' \in Nodes /\ parent(obj') = parent(obj) /\ obj' = sibling(obj)
          /\ visit' = "pre" /\ kind(obj') # "TABLE" /\ sibling(obj) # 0
      BY <1>1, <1>3, <2>4, SiblingFacts DEF Across
    <3>2. caption(obj') = caption(obj)
      BY <1>1, <3>1, SameCaption
    <3>3. /\ parent(obj) # 0 /\ kind(parent(obj)) \in {"NODE", "TABLE", "ENTRY"}
          /\ kind(obj) = "ENTRY" => kind(parent(obj)) = "TABLE"
      BY <1>1, <2>1, RowFacts
    <3>4. obj' # 1 /\ kind(obj') \in MayHold(kind(parent(obj)))
      BY <1>1, <3>1, <3>3, TreeFacts
    <3>5. kind(obj) = "LEAF" => kind(obj') # "NODE"
      BY <3>1 DEF Tidy
    <3>6. IsRow(obj')
      BY <2>1, <3>1, <3>3, <3>4, <3>5 DEF MayHold, IsRow
    <3> QED
      BY <3>1, <3>2, <3>6 DEF Waiting
  <2>5. CASE Leave \/ Back \/ Up
    BY <1>3, <2>5 DEF Leave, Back, Up
  <2> QED
    BY <1>1, <2>2, <2>3, <2>4, <2>5, Moves
<1> QED
  BY <1>2, <1>3

LEMMA TidyStep ==
  ASSUME IInv, Turn
  PROVE  TidyInv'
<1>1. /\ obj \in Nodes /\ travel_step /\ phase = "travel" /\ obj # 0
      /\ tree' = tree /\ from' = from /\ Typed /\ TreeOK
  BY TreeFacts DEF IInv, Typed, Turn
<1>2. /\ Nodes' = Nodes /\ Chosen' = Chosen
      /\ Astray' <=> Astray
      /\ Tidy' <=> Tidy
      /\ Fits' <=> Fits
      /\ Met(obj, visit)' = Met(obj', visit')
      /\ sibling(obj)' = sibling(obj') /\ kind(sibling(obj))' = kind(sibling(obj'))
      /\ IsRow(obj)' <=> IsRow(obj')
      /\ Waiting(infoQueue, obj)' <=> Waiting(infoQueue', obj')
      /\ Titled(output)' <=> Titled(output')
  BY <1>1, TreeKept, PlaceKept
<1> SUFFICES ASSUME Tidy, ~Astray
             PROVE  QueueInv' /\ ChosenInv' /\ Titled(output)' /\ Ordered(output, infoQueue, Nodes)'
  BY <1>2 DEF TidyInv
<1>3. /\ from \in Above(obj) /\ from \in Above(obj')
      /\ obj' \in Nodes \cup {0}
  BY <1>1, StaysInside, MetStep DEF IInv, TravelInv
<1>4. obj \in Chosen /\ obj' # 0
  <2>1. obj' \in Nodes
    BY <1>1, <1>3, AboveSome
  <2> QED
    BY <1>1, <1>3, <2>1, TreeFacts DEF Chosen
<1>5. Met(obj', visit') = Met(obj, visit) \cup IF visit = "pre" THEN {obj} ELSE {}
  BY <1>1, <1>4, MetStep
<1>6. /\ Waiting(infoQueue, obj) /\ Titled(output)
      /\ infoQueue # <<>> =>
           /\ IsRow(obj)
           /\ \/ visit = "pre"
              \/ visit = "in" /\ sibling(obj) # 0 /\ kind(sibling(obj)) # "TABLE"
      /\ \A x : Within(x, output, infoQueue) => x \in Chosen
      /\ Ordered(output, infoQueue, Nodes)
      /\ Fits => \A x \in Chosen : x \in Met(obj, visit) => Within(x, output, infoQueue)
  BY DEF IInv, TidyInv, QueueInv, ChosenInv
<1>7. infoQueue' \in Seq(Nodes)
  <2>1. (infoQueue \in Seq(Nodes))'
    <3>1. Typed'
      BY DocStep
    <3> QED
      BY <3>1 DEF Typed
  <2>2. Nodes' = Nodes
    BY <1>2
  <2> QED
    BY <2>1, <2>2
<1>8. CASE visit = "pre"
  <2>1. latexGen(obj) /\ ShownBefore(obj)
    BY <1>1, <1>8, MetBefore DEF Turn
  <2>2. /\ Waiting(infoQueue', obj) /\ Titled(output')
        /\ infoQueue' # <<>> =>
             /\ IsRow(obj)
             /\ kind(obj) = "LEAF" => sibling(obj) # 0 /\ kind(sibling(obj)) # "TABLE"
        /\ Ordered(output', infoQueue', Nodes)
        /\ Fits => \A x : Within(x, output, infoQueue) \/ x = obj
                            => Within(x, output', infoQueue')
    BY <1>1, <1>4, <1>6, <2>1, GenTidy
  <2>3. /\ Waiting(infoQueue', obj')
        /\ infoQueue' # <<>> =>
              /\ IsRow(obj')
              /\ \/ visit' = "pre"
                 \/ visit' = "in" /\ sibling(obj') # 0 /\ kind(sibling(obj')) # "TABLE"
    BY <1>1, <1>4, <1>7, <1>8, <2>2, QueueStep
  <2>4. \A x : Within(x, output', infoQueue') => x \in Chosen
    <3>1. \A x : Within(x, output', infoQueue') => Within(x, output, infoQueue) \/ x = obj
      BY <1>1, <2>1, GenDocument DEF IInv, DocInv
    <3> QED
      BY <1>4, <1>6, <3>1
  <2>5. Fits => \A x \in Chosen : x \in Met(obj', visit') => Within(x, output', infoQueue')
    BY <1>5, <1>6, <1>8, <2>2
  <2>6. QueueInv'
    BY <1>2, <2>3 DEF QueueInv
  <2>7. ChosenInv'
    BY <1>2, <2>4, <2>5 DEF ChosenInv
  <2>8. Ordered(output, infoQueue, Nodes)'
    BY <1>2, <2>2
  <2> QED
    BY <1>2, <2>2, <2>6, <2>7, <2>8
<1>9. CASE visit # "pre"
  <2>1. infoQueue' = infoQueue /\ output' = output
    BY <1>9 DEF Turn
  <2>2. /\ Waiting(infoQueue', obj')
        /\ infoQueue' # <<>> =>
              /\ IsRow(obj')
              /\ \/ visit' = "pre"
                 \/ visit' = "in" /\ sibling(obj') # 0 /\ kind(sibling(obj')) # "TABLE"
    BY <1>1, <1>4, <1>6, <1>7, <1>9, <2>1, QueueStep
  <2>3. QueueInv'
    BY <1>2, <2>2 DEF QueueInv
  <2>4. ChosenInv'
    BY <1>2, <1>5, <1>6, <1>9, <2>1 DEF ChosenInv
  <2>5. Ordered(output, infoQueue, Nodes)'
    BY <1>2, <1>6, <2>1
  <2> QED
    BY <1>2, <1>6, <2>1, <2>3, <2>4, <2>5
<1> QED
  BY <1>8, <1>9

LEMMA StepIInv == IInv /\ [Next]_vars => IInv'
<1> SUFFICES ASSUME IInv, [Next]_vars PROVE IInv'
  OBVIOUS
<1>1. CASE Turn
  BY <1>1, DocStep, TravelStep, TidyStep DEF IInv
<1>2. CASE Fault \/ UNCHANGED vars
  <2>1. /\ UNCHANGED <<tree, from, obj, visit, infoQueue, output>>
        /\ phase' = phase \/ (phase' = "fault" /\ obj = 0)
    BY <1>2 DEF Fault, vars
  <2>2. /\ TreeOK' <=> TreeOK
        /\ Nodes' = Nodes /\ RowNodes' = RowNodes /\ Chosen' = Chosen
        /\ Tidy' <=> Tidy
        /\ Fits' <=> Fits
        /\ Astray' <=> Astray
        /\ child(from)' = child(from)
        /\ Above(obj)' = Above(obj) /\ Met(obj, visit)' = Met(obj, visit)
        /\ sibling(obj)' = sibling(obj) /\ kind(sibling(obj))' = kind(sibling(obj))
        /\ IsRow(obj)' <=> IsRow(obj)
        /\ Waiting(infoQueue, obj)' <=> Waiting(infoQueue, obj)
        /\ Titled(output)' <=> Titled(output)
    BY <2>1, TreeKept, PlaceKept
  <2>3. Typed'
    BY <2>1, <2>2 DEF IInv, Typed
  <2>4. TravelInv'
    <3>1. obj = 0 => from \notin Above(obj)
      BY AboveSome, TreeFacts DEF IInv, Typed
    <3> QED
      BY <2>1, <2>2, <3>1 DEF IInv, TravelInv
  <2>5. DocInv'
    BY <2>1, <2>2 DEF IInv, DocInv
  <2>6. TidyInv'
    <3>1. QueueInv' <=> QueueInv
      BY <2>1, <2>2 DEF QueueInv
    <3>2. ChosenInv' <=> ChosenInv
      BY <2>1, <2>2 DEF ChosenInv
    <3> QED
      BY <2>1, <2>2, <3>1, <3>2 DEF IInv, TidyInv
  <2> QED
    BY <2>3, <2>4, <2>5, <2>6 DEF IInv
<1> QED
  BY <1>1, <1>2 DEF Next

LEMMA InitIInv == Init => IInv
<1> SUFFICES ASSUME Init PROVE IInv
  OBVIOUS
<1>1. /\ tree \in Trees /\ from \in Nodes /\ obj = from /\ visit = "pre"
      /\ infoQueue = <<>> /\ output = <<>> /\ phase = "travel"
  BY DEF Init
<1>2. TreeOK
  BY <1>1, DocumentAssumption DEF TreeOK, Kinds
<1>3. Typed
  <2>1. /\ infoQueue \in Seq(Nodes) /\ Len(infoQueue) < SIZE_OF_QUEUE
        /\ output \in Seq(Section(Nodes) \cup Table(Nodes))
    BY <1>1, DocumentAssumption
  <2> QED
    BY <1>1, <1>2, <2>1 DEF Typed
<1>4. /\ \A x : ~Within(x, output, infoQueue)
      /\ Ordered(output, infoQueue, RowNodes) /\ Ordered(output, infoQueue, Nodes)
  <2>1. \A i \in 1..(Len(output) + 1) : B(output, infoQueue, i) = <<>>
    BY <1>1 DEF B
  <2> QED
    BY <2>1 DEF Within, Ordered
<1>5. TravelInv
  BY <1>1, <1>2, AboveSelf DEF TravelInv
<1>6. DocInv
  BY <1>4 DEF DocInv
<1>7. ASSUME NEW x \in Chosen PROVE x \notin Met(obj, visit)
  <2>1. x \in Nodes /\ from <= x
    BY <1>2, AboveIs DEF Chosen
  <2> QED
    BY <1>1, <1>2, <2>1, TreeFacts DEF Met
<1>8. TidyInv
  <2>1. QueueInv /\ Titled(output)
    BY <1>1 DEF QueueInv, Waiting, Titled
  <2>2. ChosenInv
    BY <1>4, <1>7 DEF ChosenInv
  <2> QED
    BY <1>4, <2>1, <2>2 DEF TidyInv
<1> QED
  BY <1>3, <1>5, <1>6, <1>8 DEF IInv

-----------------------------------------------------------------------------
(***************************************************************************)
(* What the invariant says of the document.                                *)
(***************************************************************************)
LEMMA BatchIs ==
  ASSUME Typed, NEW i \in 1..(Len(output) + 1)
  PROVE  Batch(i) = B(output, infoQueue, i)
<1>1. Len(output) \in Nat
  BY DEF Typed
<1>2. CASE i > Len(output)
  BY <1>2 DEF Batch, B
<1>3. CASE i <= Len(output)
  <2>1. i \in DOMAIN output /\ output[i] \in Items
    BY <1>1, <1>3 DEF Items, Typed
  <2>2. output[i] \in Sections <=> "node" \in DOMAIN output[i]
    BY <2>1 DEF Sections
  <2> QED
    BY <1>1, <1>3, <2>2 DEF Batch, B
<1> QED
  BY <1>1, <1>2, <1>3

LEMMA PlacesAre ==
  ASSUME Typed
  PROVE  /\ \A p \in Places :
              /\ p[1] \in 1..(Len(output) + 1) /\ p[2] \in DOMAIN B(output, infoQueue, p[1])
              /\ Shown(p) = B(output, infoQueue, p[1])[p[2]] /\ Shown(p) \in Nodes
         /\ \A x : Within(x, output, infoQueue) <=> \E p \in Places : Shown(p) = x
<1>1. ASSUME NEW p \in Places
      PROVE  /\ p[1] \in 1..(Len(output) + 1) /\ p[2] \in DOMAIN B(output, infoQueue, p[1])
             /\ Shown(p) = B(output, infoQueue, p[1])[p[2]] /\ Shown(p) \in Nodes
  <2>1. PICK i \in 1..(Len(output) + 1) : p \in {i} \X DOMAIN Batch(i)
    BY DEF Places
  <2>2. p[1] = i /\ p[2] \in DOMAIN Batch(i) /\ Batch(i) = B(output, infoQueue, i)
    BY <2>1, BatchIs
  <2>3. B(output, infoQueue, i) \in Seq(Nodes)
    BY BatchFacts DEF Typed
  <2> QED
    BY <2>2, <2>3 DEF Shown
<1>2. ASSUME NEW x, Within(x, output, infoQueue) PROVE \E p \in Places : Shown(p) = x
  <2>1. PICK i \in 1..(Len(output) + 1) :
          \E k \in DOMAIN B(output, infoQueue, i) : B(output, infoQueue, i)[k] = x
    BY <1>2 DEF Within
  <2>2. PICK k \in DOMAIN B(output, infoQueue, i) : B(output, infoQueue, i)[k] = x
    BY <2>1
  <2>3. <<i, k>> \in Places /\ Shown(<<i, k>>) = x
    BY <2>2, BatchIs DEF Places, Shown
  <2> QED
    BY <2>3
<1>3. ASSUME NEW p \in Places PROVE Within(Shown(p), output, infoQueue)
  BY <1>1 DEF Within
<1> QED
  BY <1>1, <1>2, <1>3

LEMMA OrderIs ==
  ASSUME Typed, NEW kinds, NEW R, Ordered(output, infoQueue, R),
         \A n \in Nodes : kind(n) \in kinds => n \in R
  PROVE  InOrder(kinds)
<1> SUFFICES ASSUME NEW p \in Places, NEW q \in Places, Before(p, q),
                    {kind(Shown(p)), kind(Shown(q))} \subseteq kinds
             PROVE  Shown(p) < Shown(q)
  BY DEF InOrder
<1>1. /\ p[1] \in 1..(Len(output) + 1) /\ p[2] \in DOMAIN B(output, infoQueue, p[1])
      /\ Shown(p) = B(output, infoQueue, p[1])[p[2]] /\ Shown(p) \in R
  BY PlacesAre
<1>2. /\ q[1] \in 1..(Len(output) + 1) /\ q[2] \in DOMAIN B(output, infoQueue, q[1])
      /\ Shown(q) = B(output, infoQueue, q[1])[q[2]] /\ Shown(q) \in R
  BY PlacesAre
<1> QED
  BY <1>1, <1>2 DEF Ordered, Before

LEMMA IInvOrder == IInv => ShownInOrder
<1> SUFFICES ASSUME IInv PROVE ShownInOrder
  OBVIOUS
<1>1. RowsInOrder
  BY OrderIs DEF IInv, DocInv, RowNodes, IsRow, RowsInOrder
<1>2. ASSUME phase = "done", Tidy, Fits
      PROVE  /\ {Shown(p) : p \in Places} = Chosen
             /\ InOrder({"NODE", "TABLE", "ENTRY", "LEAF"})
             /\ infoQueue = <<>>
  <2>1. obj = from /\ visit = "post" /\ ~Astray /\ from \in Nodes
    BY <1>2 DEF IInv, TravelInv, Typed
  <2>2. QueueInv /\ ChosenInv /\ Ordered(output, infoQueue, Nodes)
    BY <1>2, <2>1 DEF IInv, TidyInv
  <2>3. infoQueue = <<>>
    BY <2>1, <2>2 DEF QueueInv
  <2>4. \A x \in Chosen : x \in Met(obj, visit)
    BY <2>1 DEF Chosen, Met
  <2>5. \A x : Within(x, output, infoQueue) <=> x \in Chosen
    BY <1>2, <2>2, <2>4 DEF ChosenInv
  <2>6. {Shown(p) : p \in Places} = Chosen
    BY <2>5, PlacesAre DEF IInv
  <2>7. InOrder({"NODE", "TABLE", "ENTRY", "LEAF"})
    BY <2>2, OrderIs DEF IInv
  <2> QED
    BY <2>3, <2>6, <2>7
<1> QED
  BY <1>1, <1>2 DEF ShownInOrder, Complete

LEMMA TablesAre ==
  ASSUME Typed
  PROVE  /\ \A s \in Sections : s \in Section(Nodes)
         /\ \A s \in Tables : s \in Table(Nodes) /\ \E i \in DOMAIN output : s = output[i]
<1>1. ASSUME NEW s \in Items
      PROVE  s \in Section(Nodes) \cup Table(Nodes) /\ \E i \in DOMAIN output : s = output[i]
  <2>1. PICK i \in DOMAIN output : s = output[i]
    BY DEF Items
  <2>2. output \in Seq(Section(Nodes) \cup Table(Nodes))
    BY DEF Typed
  <2> QED
    BY <2>1, <2>2, ElementOfSeq
<1>2. ASSUME NEW s \in Sections PROVE s \in Section(Nodes)
  BY <1>1, ItemFacts DEF Sections
<1>3. ASSUME NEW s \in Tables
      PROVE  s \in Table(Nodes) /\ \E i \in DOMAIN output : s = output[i]
  BY <1>1, ItemFacts DEF Tables
<1> QED
  BY <1>2, <1>3

LEMMA IInvTypes == IInv => TypeOK
<1> SUFFICES ASSUME IInv PROVE TypeOK
  OBVIOUS
<1>1. Typed /\ IsTree(tree)
  BY DEF IInv, Typed, TreeOK
<1>2. \A s \in Sections : s.node \in Nodes /\ s.level \in 1..5
  BY <1>1, TablesAre DEF Section
<1>3. \A s \in Tables : s.title \in Nodes /\ s.rows \in Seq(Nodes)
  BY <1>1, TablesAre DEF Table
<1> QED
  BY <1>1, <1>2, <1>3 DEF TypeOK, Typed

LEMMA IInvCaptions == IInv => CaptionsTrue
<1> SUFFICES ASSUME IInv, Tidy, ~Astray, NEW s \in Tables, NEW k \in DOMAIN s.rows
             PROVE  s.title = Group(s.rows[k])
  BY DEF CaptionsTrue
<1>1. Typed /\ TreeOK /\ Titled(output)
  BY DEF IInv, Typed, TidyInv
<1>2. s \in Table(Nodes) /\ "rows" \in DOMAIN s
  BY <1>1, TablesAre DEF Tables
<1>3. PICK i \in DOMAIN output : s = output[i]
  BY <1>1, TablesAre
<1>4. IsRow(s.rows[k]) /\ s.title = caption(s.rows[k])
  BY <1>1, <1>2, <1>3 DEF Titled
<1>5. s.rows \in Seq(Nodes)
  BY <1>2 DEF Table
<1>6. s.rows[k] \in Nodes
  BY <1>5
<1> QED
  BY <1>1, <1>4, <1>6, CaptionFacts

-----------------------------------------------------------------------------
(***************************************************************************)
(* The levels of the sections.                                             *)
(***************************************************************************)
Level(n) == IF depth(n) \in 1..5 THEN depth(n) ELSE 5

\* A section was written with the level of its node.
Leveled ==
  \A i \in DOMAIN output :
    "node" \in DOMAIN output[i] => output[i].level = Level(output[i].node)

LEMMA LeveledInit == Init => Leveled
BY DEF Init, Leveled

LEMMA LeveledStep == IInv /\ Leveled /\ [Next]_vars => Leveled'
<1> SUFFICES ASSUME IInv, Leveled, [Next]_vars PROVE Leveled'
  OBVIOUS
<1>1. /\ output \in Seq(Section(Nodes) \cup Table(Nodes)) /\ Len(output) \in Nat
      /\ DOMAIN output = 1..Len(output)
  BY LenProperties DEF IInv, Typed
<1>2. tree' = tree /\ from' = from
  BY DEF Next, Turn, Fault, vars
<1>3. \A n : Level(n)' = Level(n)
  BY <1>2 DEF Level, depth, oidLength
<1>4. ASSUME NEW item, output' = Append(output, item),
             "node" \in DOMAIN item => item.level = Level(item.node)
      PROVE  Leveled'
  <2>1. /\ DOMAIN output' = 1..(Len(output) + 1) /\ output'[Len(output) + 1] = item
        /\ \A i \in 1..Len(output) : output'[i] = output[i]
    BY <1>1, <1>4
  <2>2. \A i \in 1..(Len(output) + 1) : i \in 1..Len(output) \/ i = Len(output) + 1
    BY <1>1
  <2> QED
    BY <1>1, <1>3, <1>4, <2>1, <2>2 DEF Leveled
<1>5. CASE output' = output
  BY <1>3, <1>5 DEF Leveled
<1>6. CASE output' # output
  <2>1. Turn /\ latexGen(obj)
    BY <1>6 DEF Next, Turn, Fault, vars
  <2>2. CASE latexSection(obj)
    <3>1. PICK item : item = [node |-> obj, level |-> Level(obj)]
      OBVIOUS
    <3>2. output' = Append(output, item) /\ item.level = Level(item.node)
      BY <2>2, <3>1 DEF latexSection, Level
    <3> QED
      BY <1>4, <3>2
  <2>3. CASE latexTable(Queue!Accepted(infoQueue, obj), caption(obj))
    <3>1. PICK item : item = [title |-> caption(obj), rows |-> Queue!Accepted(infoQueue, obj)]
      OBVIOUS
    <3>2. output' = Append(output, item) /\ "node" \notin DOMAIN item
      BY <2>3, <3>1 DEF latexTable
    <3> QED
      BY <1>4, <3>2
  <2> QED
    BY <1>6, <2>1, <2>2, <2>3 DEF latexGen
<1> QED
  BY <1>5, <1>6

LEMMA OidFacts ==
  ASSUME TreeOK, NEW n \in Nodes
  PROVE  /\ oidLength(n) \in Nat
         /\ parent(n) # 0 => oidLength(n) >= oidLength(parent(n)) + 2
<1>1. \A m \in Nodes : oidLength(m) \in Nat
  <2>1. \A m \in Nodes : tree[m] \in [kind : Kinds, parent : Nat, oid : Nat \ {0}]
    BY ElementOfSeq DEF TreeOK, Nodes
  <2> QED
    BY <2>1 DEF oidLength
<1>2. ASSUME parent(n) # 0 PROVE oidLength(n) >= oidLength(parent(n)) + 2
  <2>1. n \in 2..Len(tree)
    BY <1>2, TreeFacts DEF Nodes
  <2> QED
    BY <2>1, Zenon DEF TreeOK, IsTree, oidLength, parent
<1> QED
  BY <1>1, <1>2

\* The OID of a node is longer than that of every node above it.
LEMMA OidGrows ==
  ASSUME TreeOK, NEW n \in Nodes, NEW p \in Above(n), p # n
  PROVE  oidLength(p) + 2 <= oidLength(n)
<1>1. PICK Bad : Bad = {m \in Nodes : \E q \in Above(m) : /\ q # m
                                                         /\ ~(oidLength(q) + 2 <= oidLength(m))}
  OBVIOUS
<1>2. ASSUME Bad # {} PROVE FALSE
  <2>1. PICK m \in Bad : \A x \in Bad : m <= x
    <3>1. Bad \in SUBSET Nat
      BY <1>1, TreeFacts
    <3> QED
      BY <1>2, <3>1, Least
  <2>2. PICK q \in Above(m) : q # m /\ ~(oidLength(q) + 2 <= oidLength(m))
    BY <1>1, <2>1
  <2>3. m \in Nodes /\ parent(m) # 0 /\ q \in Above(parent(m))
    BY <1>1, <2>1, <2>2, AboveParent
  <2>4. parent(m) \in Nodes /\ parent(m) < m
    BY <2>3, ParentAbove
  <2>5. parent(m) \notin Bad
    <3>1. m \in Nat /\ parent(m) \in Nat
      BY <2>3, <2>4, TreeFacts
    <3> QED
      BY <2>1, <2>4, <3>1
  <2>6. q = parent(m) \/ oidLength(q) + 2 <= oidLength(parent(m))
    BY <1>1, <2>3, <2>4, <2>5
  <2>7. q \in Nodes
    BY <2>3, <2>4, AboveIs
  <2>8. /\ oidLength(q) \in Nat /\ oidLength(m) \in Nat /\ oidLength(parent(m)) \in Nat
        /\ oidLength(m) >= oidLength(parent(m)) + 2
    BY <2>3, <2>4, <2>7, OidFacts
  <2> QED
    BY <2>2, <2>6, <2>8
<1> QED
  BY <1>1, <1>2

\* The nodes from the begin node down to a chosen one.
Branch(n) == Above(n) \cap Chosen

LEMMA BranchFacts ==
  ASSUME TreeOK, from \in Nodes, NEW n \in Chosen
  PROVE  /\ IsFiniteSet(Branch(n)) /\ Cardinality(Branch(n)) \in Nat \ {0}
         /\ n = from => Cardinality(Branch(n)) = 1
         /\ n # from => /\ parent(n) \in Chosen /\ parent(n) < n
                        /\ Cardinality(Branch(n)) = Cardinality(Branch(parent(n))) + 1
<1>1. n \in Nodes /\ from \in Above(n) /\ n \in Nat
  BY TreeFacts DEF Chosen
<1>2. ASSUME NEW m \in Nodes PROVE IsFiniteSet(Branch(m)) /\ Cardinality(Branch(m)) \in Nat
  <2>1. IsFiniteSet(1..m)
    BY TreeFacts, FS_Interval
  <2>2. Branch(m) \subseteq 1..m
    BY DEF Branch, Above
  <2> QED
    BY <2>1, <2>2, FS_Subset, FS_CardinalityType
<1>3. n \in Branch(n)
  BY <1>1, AboveSelf DEF Branch
<1>4. ASSUME n = from PROVE Cardinality(Branch(n)) = 1
  <2>1. ASSUME NEW p \in Branch(n) PROVE p = n
    <3>1. p \in Nodes /\ p <= n /\ from <= p
      BY <1>1, AboveIs DEF Branch, Chosen
    <3> QED
      BY <1>1, <1>4, <3>1, TreeFacts
  <2>2. Branch(n) = {n}
    BY <1>3, <2>1
  <2> QED
    BY <2>2, FS_Singleton
<1>5. ASSUME n # from
      PROVE  /\ parent(n) \in Chosen /\ parent(n) < n
             /\ Cardinality(Branch(n)) = Cardinality(Branch(parent(n))) + 1
  <2>1. parent(n) # 0 /\ from \in Above(parent(n))
    BY <1>1, <1>5, AboveParent
  <2>2. parent(n) \in Nodes /\ parent(n) < n /\ parent(n) \in Above(n)
    BY <1>1, <2>1, ParentAbove
  <2>3. n \notin Above(parent(n)) /\ Above(parent(n)) \subseteq Above(n)
    <3>1. \A p \in Above(parent(n)) : p <= parent(n) /\ p \in Nat /\ parent(n) \in Nat
      BY <2>2, AboveIs, TreeFacts
    <3>2. n \notin Above(parent(n))
      BY <1>1, <2>2, <3>1
    <3> QED
      BY <1>1, <2>2, <3>2, AboveTrans
  <2>4. \A p \in Above(n) : p = n \/ p \in Above(parent(n))
    BY <1>1, AboveParent
  <2>5. Branch(n) = Branch(parent(n)) \cup {n} /\ n \notin Branch(parent(n))
    BY <1>3, <2>3, <2>4 DEF Branch
  <2>6. Cardinality(Branch(n)) = Cardinality(Branch(parent(n))) + 1
    BY <1>2, <2>2, <2>5, FS_AddElement
  <2> QED
    BY <2>1, <2>2, <2>6 DEF Chosen
<1>6. Cardinality(Branch(n)) # 0
  BY <1>1, <1>2, <1>3, FS_EmptySet
<1> QED
  BY <1>1, <1>2, <1>4, <1>5, <1>6

\* With suffixes of one digit the length of the OID counts the nodes above.
LEMMA OidCounts ==
  ASSUME TreeOK, from \in Nodes, NEW n \in Chosen,
         \A m \in Nodes \ {1} : oidLength(m) = oidLength(parent(m)) + 2
  PROVE  oidLength(n) = oidLength(from) + 2 * (Cardinality(Branch(n)) - 1)
<1>1. PICK Bad : Bad = {m \in Chosen :
                         oidLength(m) # oidLength(from) + 2 * (Cardinality(Branch(m)) - 1)}
  OBVIOUS
<1>2. ASSUME Bad # {} PROVE FALSE
  <2>1. PICK m \in Bad : \A x \in Bad : m <= x
    <3>1. Bad \in SUBSET Nat
      BY <1>1, TreeFacts DEF Chosen
    <3> QED
      BY <1>2, <3>1, Least
  <2>2. m \in Chosen /\ m \in Nodes /\ m \in Nat /\ oidLength(from) \in Nat
    BY <1>1, <2>1, TreeFacts, OidFacts DEF Chosen
  <2>3. CASE m = from
    <3>1. Cardinality(Branch(m)) = 1
      BY <2>2, <2>3, BranchFacts
    <3> QED
      BY <1>1, <2>1, <2>2, <2>3, <3>1
  <2>4. CASE m # from
    <3>1. /\ parent(m) \in Chosen /\ parent(m) < m
          /\ Cardinality(Branch(m)) = Cardinality(Branch(parent(m))) + 1
      BY <2>2, <2>4, BranchFacts
    <3>2. /\ parent(m) \in Nodes /\ parent(m) \in Nat \ {0} /\ m # 1
          /\ Cardinality(Branch(parent(m))) \in Nat \ {0}
      BY <2>2, <3>1, BranchFacts, TreeFacts DEF Chosen
    <3>3. parent(m) \notin Bad
      BY <2>1, <2>2, <3>1, <3>2
    <3>4. oidLength(parent(m)) = oidLength(from) + 2 * (Cardinality(Branch(parent(m))) - 1)
      BY <1>1, <3>1, <3>3
    <3>5. oidLength(m) = oidLength(parent(m)) + 2
      BY <2>2, <3>2
    <3>6. PICK a, c : a = oidLength(from) /\ c = Cardinality(Branch(parent(m)))
      OBVIOUS
    <3>7. a \in Nat /\ c \in Nat /\ (a + 2 * (c - 1)) + 2 = a + 2 * ((c + 1) - 1)
      BY <2>2, <3>2, <3>6
    <3>8. oidLength(m) = oidLength(from) + 2 * (Cardinality(Branch(m)) - 1)
      BY <3>1, <3>4, <3>5, <3>6, <3>7
    <3> QED
      BY <1>1, <2>1, <3>8
  <2> QED
    BY <2>3, <2>4
<1> QED
  BY <1>1, <1>2

\* depth counts from the begin node, and grows with the OID.
LEMMA DepthIs ==
  ASSUME TreeOK, from \in Nodes, NEW n \in Chosen
  PROVE  /\ depth(n) = (oidLength(n) - oidLength(from)) \div 2 + 1
         /\ oidLength(from) \in Nat /\ oidLength(n) \in Nat
         /\ oidLength(from) <= oidLength(n) /\ depth(n) \in Nat \ {0}
<1>1. n \in Nodes /\ from \in Above(n)
  BY DEF Chosen
<1>2. oidLength(from) \in Nat /\ oidLength(n) \in Nat
  BY <1>1, OidFacts
<1>3. oidLength(from) <= oidLength(n)
  <2>1. n # from => oidLength(from) + 2 <= oidLength(n)
    BY <1>1, OidGrows
  <2> QED
    BY <1>2, <2>1
<1>4. depth(n) = (oidLength(n) - oidLength(from)) \div 2 + 1
  BY <1>2, <1>3 DEF depth
<1>5. PICK a : a = oidLength(n) - oidLength(from)
  OBVIOUS
<1>6. a \in Nat /\ a \div 2 \in Nat
  BY <1>2, <1>3, <1>5
<1>7. depth(n) \in Nat \ {0}
  BY <1>4, <1>5, <1>6
<1> QED
  BY <1>2, <1>3, <1>4, <1>7

LEMMA LevelNests ==
  ASSUME TreeOK, from \in Nodes, NEW n \in Chosen, NEW r \in Above(n) \cap Chosen, r # n
  PROVE  Level(r) < Level(n) \/ (Level(r) = 5 /\ Level(n) = 5)
<1>1. PICK a, b : a = oidLength(r) - oidLength(from) /\ b = oidLength(n) - oidLength(from)
  OBVIOUS
<1>2. /\ depth(r) = a \div 2 + 1 /\ depth(n) = b \div 2 + 1 /\ a \in Nat /\ b \in Nat
      /\ oidLength(from) \in Nat /\ oidLength(n) \in Nat /\ oidLength(r) \in Nat
  BY <1>1, DepthIs
<1>3. oidLength(r) + 2 <= oidLength(n)
  BY OidGrows DEF Chosen
<1>4. a + 2 <= b
  BY <1>1, <1>2, <1>3
<1>5. a \div 2 \in Nat /\ b \div 2 \in Nat /\ a \div 2 + 1 <= b \div 2
  BY <1>2, <1>4
<1> QED
  BY <1>2, <1>5 DEF Level

LEMMA LevelCounts ==
  ASSUME TreeOK, from \in Nodes, NEW n \in Chosen,
         \A m \in Nodes \ {1} : oidLength(m) = oidLength(parent(m)) + 2
  PROVE  Level(n) = Min({5, Cardinality(Branch(n))})
<1>1. PICK c : c = Cardinality(Branch(n))
  OBVIOUS
<1>2. c \in Nat \ {0}
  BY <1>1, BranchFacts
<1>3. depth(n) = c
  <2>1. PICK a : a = oidLength(from)
    OBVIOUS
  <2>2. a \in Nat /\ oidLength(n) = a + 2 * (c - 1)
    BY <1>1, <2>1, OidCounts, OidFacts
  <2>3. oidLength(n) - a = 2 * (c - 1) /\ (2 * (c - 1)) \div 2 + 1 = c
    BY <1>2, <2>2
  <2> QED
    BY <2>1, <2>3, DepthIs
<1>4. Min({5, c}) \in {5, c} /\ \A x \in {5, c} : Min({5, c}) <= x
  <2>1. {5, c} \in SUBSET Nat /\ {5, c} # {}
    BY <1>2
  <2> QED
    BY <2>1, Least
<1>5. Min({5, c}) = IF c \in 1..5 THEN c ELSE 5
  BY <1>2, <1>4
<1> QED
  BY <1>1, <1>3, <1>5 DEF Level

LEMMA LeveledNests ==
  ASSUME IInv, Leveled
  PROVE  SectionsNest
<1>1. Typed /\ TreeOK /\ from \in Nodes
  BY DEF IInv, Typed
<1>2. ASSUME NEW s \in Sections PROVE s.node \in Nodes /\ s.level = Level(s.node)
  <2>1. s \in Section(Nodes)
    BY <1>1, TablesAre
  <2>2. PICK i \in DOMAIN output : s = output[i] /\ "node" \in DOMAIN output[i]
    BY DEF Sections, Items
  <2> QED
    BY <2>1, <2>2 DEF Leveled, Section
<1> SUFFICES ASSUME NEW s \in Sections, s.node \in Chosen
             PROVE  /\ s.node = from => s.level = 1
                    /\ \A r \in Sections : r.node \in (Above(s.node) \ {s.node}) \cap Chosen =>
                         r.level < s.level \/ (r.level = 5 /\ s.level = 5)
                    /\ (\A n \in Nodes \ {1} : oidLength(n) = oidLength(parent(n)) + 2) =>
                         s.level = Min({5, Cardinality(Above(s.node) \cap Chosen)})
  BY DEF SectionsNest
<1>3. ASSUME s.node = from PROVE s.level = 1
  <2>1. depth(from) = (oidLength(from) - oidLength(from)) \div 2 + 1 /\ oidLength(from) \in Nat
    BY <1>1, <1>3, DepthIs
  <2>2. depth(from) = 1
    BY <2>1
  <2> QED
    BY <1>2, <1>3, <2>2 DEF Level
<1>4. ASSUME NEW r \in Sections, r.node \in (Above(s.node) \ {s.node}) \cap Chosen
      PROVE  r.level < s.level \/ (r.level = 5 /\ s.level = 5)
  BY <1>1, <1>2, <1>4, LevelNests
<1>5. ASSUME \A n \in Nodes \ {1} : oidLength(n) = oidLength(parent(n)) + 2
      PROVE  s.level = Min({5, Cardinality(Above(s.node) \cap Chosen)})
  BY <1>1, <1>2, <1>5, LevelCounts DEF Branch
<1> QED
  BY <1>3, <1>4, <1>5

-----------------------------------------------------------------------------
(***************************************************************************)
(* The theorems: for every tree, begin node and size of the queue.         *)
(***************************************************************************)
LEMMA AlwaysIInv == FairSpec => []IInv
BY InitIInv, StepIInv, PTL DEF FairSpec, Spec

\* The types of what travel_MibTree and latexGen keep: every section and table
\* names nodes of the tree, the level is one of the five of LaTeX, and the rows
\* that wait never reach the size of the ring.
THEOREM DocumentTypes == FairSpec => []TypeOK
BY AlwaysIInv, IInvTypes, PTL

\* latexTable prints no row twice or before one that comes first in the tree; and
\* when the travel of a tidy tree is done, the document shows every node below the
\* begin node once, in the order of the travel, and infoQueue is empty.
THEOREM DocumentInOrder == FairSpec => []ShownInOrder
BY AlwaysIInv, IInvOrder, PTL

\* In a tidy tree the caption that the row that ends a table gives to it is that
\* of every row that was collected before.
THEOREM CaptionsAreTrue == FairSpec => []CaptionsTrue
BY AlwaysIInv, IInvCaptions, PTL

\* The captions of a tidy tree's tables are true, and the sections nest: latexSection
\* gives the begin node the first level and a node a deeper one than any above it,
\* whatever the number of digits in the suffixes.
THEOREM HeadingsAreTrue == FairSpec => []HeadingsTrue
<1>1. IInv /\ Leveled => HeadingsTrue
  BY IInvCaptions, LeveledNests DEF HeadingsTrue
<1> QED
  BY <1>1, AlwaysIInv, LeveledInit, LeveledStep, PTL DEF FairSpec, Spec

\* travel_step never leaves the nodes below the begin node, and never reaches the
\* null pointer above the root, unless the begin node has a sibling and no child.
THEOREM TravelStaysBelow == FairSpec => []StaysBelow
<1>1. IInv => StaysBelow
  BY DEF IInv, TravelInv, StaysBelow
<1> QED
  BY <1>1, AlwaysIInv, PTL
=============================================================================
