------------------------------ MODULE MibForest ------------------------------
(***************************************************************************)
(* The MIB trees: mibTreeHeadAppend hangs every definition of the main MIB *)
(* below its parent, if that is known already, and starts a tree with it   *)
(* otherwise; END merges the trees, with the help of the symbol table,     *)
(* into one, adds the ancestors that other modules define, and completes   *)
(* the OIDs.                                                               *)
(*                                                                         *)
(* A tree is the sequence of its nodes in the order in which               *)
(* travel_MibTree visits them, each with its depth: this determines        *)
(* parents, children and siblings.                                         *)
(***************************************************************************)
EXTENDS Naturals, Sequences, FiniteSetsExt, SequencesExt

CONSTANTS
  Name,      \* identifiers of nodes
  Defined,   \* those the main MIB may define
  SymbolTables,  \* symbol tables at END: name |-> parent, a name or NULL
  MaxDefs,   \* bound: definitions of the main MIB
  NULL,      \* no parent: the head of an OID chain
  JUNK,      \* a suffix read after it was freed
  OidCap     \* suffixes that the 256 characters of oidComplement hold

\* No symbol is its own ancestor: the search for ancestors would not end.
ASSUME ForestAssumption ==
  /\ IsFiniteSet(Name) /\ Defined \subseteq Name /\ NULL \notin Name /\ JUNK \notin Name
  /\ MaxDefs \in Nat /\ OidCap \in Nat \ {0}
  /\ \A table \in SymbolTables :
       /\ DOMAIN table \subseteq Name
       /\ \A n \in DOMAIN table : table[n] \in Name \cup {NULL}
       /\ \E rank \in [Name \cup {NULL} -> 0..Cardinality(Name)] :
            \A n \in DOMAIN table : rank[table[n]] < rank[n]

VARIABLES
  phase,      \* "read"ing definitions; in END: "merge", "complete", "oid";
              \* then "done", "aborted" by an assertion or "crashed"
  symTable,   \* SYMBOL_TBL_R: name |-> parent
  wall,       \* the mark of each symbol: the node whose ancestor it is, or 0
  trees,      \* the list of trees
  last,       \* treeHead->last: the tree that grew last, 0 for none
  numOfTree,  \* treeHead->numOfTree; the local copy of it while merging
  theTree,    \* the tree that the others are merged into
  scan,       \* currentMerge: the tree that is tried next
  merged,     \* this scan merged a tree: numOfTree_prev > num
  built,      \* nodes built, which are numbered in this order
  atEnd       \* history: the trees that END found

vars == <<phase, symTable, wall, trees, last, numOfTree, theTree, scan, merged, built, atEnd>>

Init ==
  /\ phase = "read"
  /\ symTable \in SymbolTables /\ wall = [n \in DOMAIN symTable |-> 0]
  /\ trees = <<>> /\ last = 0 /\ numOfTree = 0
  /\ theTree = <<>> /\ scan = 1 /\ merged = FALSE
  /\ built = 0 /\ atEnd = <<>>

-----------------------------------------------------------------------------
(***************************************************************************)
(* Trees.                                                                  *)
(***************************************************************************)
\* mibNodeBuild.  A suffix is known by the node it was written for; a node may
\* share it with the symbol it is built from.
Node(id, ident, parent, shared) ==
  [id |-> id, ident |-> ident, parent |-> parent, depth |-> 0,
   oid |-> <<ident>>, shared |-> shared]

Has(tree, ident) == \E i \in DOMAIN tree : tree[i].ident = ident

\* search_MibTree: the first node of that name.
Find(tree, ident) == Min({i \in DOMAIN tree : tree[i].ident = ident})

\* travel_step: what follows deeper belongs to node i.
LastBelow(tree, i) ==
  Max({j \in i..Len(tree) : \A k \in (i + 1)..j : tree[k].depth > tree[i].depth})

\* The parent of node i of a tree.
Up(tree, i) == Max({j \in 1..(i - 1) : tree[j].depth < tree[i].depth})

Deepened(tree, d) == [i \in DOMAIN tree |-> [tree[i] EXCEPT !.depth = @ + d]]

\* Slip: the new node becomes a sibling of its parent.
Insert_Beside(tree, sub, ident) ==
  LET i == Find(tree, ident) e == LastBelow(tree, i) IN
    SubSeq(tree, 1, e) \o Deepened(sub, tree[i].depth) \o SubSeq(tree, e + 1, Len(tree))

\* insert_MibTree: sub becomes the last child of the node called ident.
Insert(tree, sub, ident) ==
  LET i == Find(tree, ident) e == LastBelow(tree, i) IN
    SubSeq(tree, 1, e) \o Deepened(sub, tree[i].depth + 1) \o SubSeq(tree, e + 1, Len(tree))

\* mibTreeSetRoot.
SetRoot(tree, node) == <<node>> \o Deepened(tree, 1)

\* mibTreeHeadAppend: the tree that grew last is tried first.
HeadAppend(ident, parent) ==
  LET node == Node(built + 1, ident, parent, FALSE)
      at   == {i \in DOMAIN trees : Has(trees[i], parent)}
      tree == IF last \in at THEN last ELSE Min(at)
  IN
  /\ phase = "read" /\ built < MaxDefs
  /\ built' = built + 1
  /\ IF at = {}
     THEN /\ trees' = Append(trees, <<node>>)
          /\ last' = Len(trees) + 1 /\ numOfTree' = numOfTree + 1
     ELSE /\ trees' = [trees EXCEPT ![tree] = Insert(@, <<node>>, parent)]
          /\ last' = tree /\ UNCHANGED numOfTree
  /\ UNCHANGED <<phase, symTable, wall, theTree, scan, merged, atEnd>>

-----------------------------------------------------------------------------
(***************************************************************************)
(* Common ancestors.                                                       *)
(***************************************************************************)
\* The symbols above a name, bottom-up.
Path(name) ==
  LET up[n \in Name \cup {NULL}] ==
        IF n \in DOMAIN symTable THEN <<n>> \o up[symTable[n]] ELSE <<>>
  IN up[name]

\* Slip: the right tree does not see what the left one marked in this turn.
MetByRight_Late(left, right, l, k) ==
  k \in DOMAIN right /\ (wall[right[k]] = l \/ \E j \in 1..(k - 1) :
                           j \in DOMAIN left /\ left[j] = right[k])

MetByRight(left, right, l, k) ==
  k \in DOMAIN right /\ (wall[right[k]] = l \/ \E j \in 1..k :
                           j \in DOMAIN left /\ left[j] = right[k])

MetByLeft(left, right, r, k) ==
  k \in DOMAIN left /\ (wall[left[k]] = r \/ \E j \in 1..(k - 1) :
                          j \in DOMAIN right /\ right[j] = left[k])

\* ancestorCommon of the roots of two trees: both climb one symbol per turn, the
\* left one first, and put their node on the wall of each, until one finds the
\* other's there, of this or of an earlier search.  Pairs of the symbol, or
\* NULL, and of the walls afterwards.
AncestorCommon(l, r) ==
  LET left  == Path(l[1].parent)
      right == Path(r[1].parent)
      turns == 1..(Len(left) + Len(right))
      met   == {k \in turns : MetByLeft(left, right, r[1].id, k)
                              \/ MetByRight(left, right, l[1].id, k)}
      stop  == IF met = {} THEN Len(left) + Len(right) + 1 ELSE Min(met)
      byL   == met # {} /\ MetByLeft(left, right, r[1].id, stop)
      wallL == {left[k] : k \in {j \in DOMAIN left : j < stop \/ (j = stop /\ ~byL)}}
      wallR == {right[k] : k \in {j \in DOMAIN right : j < stop}}
  IN [symbol |-> IF met = {} THEN NULL ELSE IF byL THEN left[stop] ELSE right[stop],
      wall   |-> [n \in DOMAIN wall |-> IF n \in wallL THEN l[1].id
                                        ELSE IF n \in wallR THEN r[1].id ELSE wall[n]]]

\* The nodes for some symbols, given bottom-up, as a tree that is a single line.
Line(names, id, shared) ==
  LET n == Len(names) IN
    [i \in 1..n |-> [Node(id + n - i + 1, names[n - i + 1], symTable[names[n - i + 1]], shared)
                       EXCEPT !.depth = i - 1]]

\* Expand tree up to common ancestor.
Expanded(tree, ancestor, id) ==
  LET path  == Path(tree[1].parent)
      names == SubSeq(path, 1, (CHOOSE k \in DOMAIN path : path[k] = ancestor) - 1)
  IN Line(names, id, TRUE) \o Deepened(tree, Len(names))

\* mergeByComplete, when there is a common ancestor.
MergeByComplete(l, r, ancestor) ==
  LET left  == Expanded(l, ancestor, built)
      right == Expanded(r, ancestor, built + Len(left) - Len(l))
      root  == Node(built + Len(left) - Len(l) + Len(right) - Len(r) + 1,
                    ancestor, symTable[ancestor], TRUE)
  IN SetRoot(left, root) \o Deepened(right, 1)

-----------------------------------------------------------------------------
(***************************************************************************)
(* END.                                                                    *)
(***************************************************************************)
\* mibTreeHeadMerge takes the first tree out of the list.
EndReading ==
  /\ phase = "read"
  /\ atEnd' = trees
  /\ IF numOfTree > 0
     THEN /\ phase' = "merge"
          /\ theTree' = Head(trees) /\ trees' = Tail(trees) /\ numOfTree' = numOfTree - 1
     ELSE /\ phase' = "done" /\ UNCHANGED <<theTree, trees, numOfTree>>
  /\ UNCHANGED <<symTable, wall, last, scan, merged, built>>

\* Slip: mibTreeDelete of the first tree of the set.
Without_First(list, i) == Tail(list)

\* mibTreeDelete.
Without(list, i) == RemoveAt(list, i)

\* One turn of __mergeHelper: mibTreeMerge in either direction, or
\* mergeByComplete.  Nothing points to the merged tree but treeHead->last, which
\* nothing reads any more.
MergeNext ==
  LET r  == trees[scan]
      ac == AncestorCommon(theTree, r)
      Joined(tree) == /\ theTree' = tree
                      /\ trees' = Without(trees, scan)
                      /\ numOfTree' = numOfTree - 1 /\ merged' = TRUE
                      /\ built' = built + (Len(tree) - Len(theTree) - Len(r))
                      /\ UNCHANGED scan
  IN
  /\ phase = "merge" /\ scan \in DOMAIN trees
  /\ \/ /\ Has(theTree, r[1].parent)
        /\ Joined(Insert(theTree, r, r[1].parent)) /\ UNCHANGED wall
     \/ /\ ~Has(theTree, r[1].parent) /\ Has(r, theTree[1].parent)
        /\ Joined(Insert(r, theTree, theTree[1].parent)) /\ UNCHANGED wall
     \/ /\ ~Has(theTree, r[1].parent) /\ ~Has(r, theTree[1].parent)
        /\ wall' = ac.wall
        /\ IF ac.symbol # NULL
           THEN Joined(MergeByComplete(theTree, r, ac.symbol))
           ELSE /\ scan' = scan + 1
                /\ UNCHANGED <<theTree, trees, numOfTree, merged, built>>
  /\ UNCHANGED <<phase, symTable, last, atEnd>>

\* Slip: the loop goes on until the number of trees grows.
EndScan_Forever ==
  /\ phase = "merge" /\ scan \notin DOMAIN trees
  /\ scan' = 1 /\ merged' = FALSE
  /\ UNCHANGED <<phase, symTable, wall, trees, last, numOfTree, theTree, built, atEnd>>

\* The end of a scan: another one if this merged anything, or back to the list.
EndScan ==
  /\ phase = "merge" /\ scan \notin DOMAIN trees
  /\ IF merged
     THEN /\ scan' = 1 /\ merged' = FALSE
          /\ UNCHANGED <<phase, trees, theTree, numOfTree>>
     ELSE /\ trees' = Append(trees, theTree) /\ theTree' = <<>>
          /\ numOfTree' = numOfTree + 1 /\ phase' = "complete"
          /\ UNCHANGED <<scan, merged>>
  /\ UNCHANGED <<symTable, wall, last, built, atEnd>>

\* mibTreeHeadComplete: the ancestors of the root, with copies of their strings;
\* strdup of the missing parent of the head of a chain crashes.
HeadComplete ==
  LET path == Path(trees[1][1].parent) IN
  /\ phase = "complete"
  /\ IF numOfTree # 1 THEN phase' = "aborted" /\ UNCHANGED <<trees, built>>
     ELSE IF path # <<>> /\ symTable[Last(path)] = NULL
          THEN phase' = "crashed" /\ UNCHANGED <<trees, built>>
          ELSE /\ trees' = <<Line(path, built, FALSE) \o Deepened(trees[1], Len(path))>>
               /\ built' = built + Len(path)
               /\ phase' = "oid"
  /\ UNCHANGED <<symTable, wall, last, numOfTree, theTree, scan, merged, atEnd>>

\* The suffix that oidComplete reads in node i: that of a symbol was freed when
\* an earlier node with the same symbol was completed.
Suffix(tree, i) ==
  IF \E j \in 2..(i - 1) : tree[i].shared /\ tree[j].shared /\ tree[j].ident = tree[i].ident
  THEN JUNK ELSE tree[i].ident

\* Slip: children are completed before their parents.
Completed_BottomUp(tree) ==
  [i \in DOMAIN tree |->
     IF i = 1 THEN tree[1]
     ELSE [tree[i] EXCEPT !.oid = tree[Up(tree, i)].oid \o <<Suffix(tree, i)>>]]

\* oidComplete of every node, in the order of travel_MibTree.
Completed(tree) ==
  LET oids[i \in DOMAIN tree] ==
        IF i = 1 THEN tree[1].oid ELSE oids[Up(tree, i)] \o <<Suffix(tree, i)>>
  IN [i \in DOMAIN tree |-> [tree[i] EXCEPT !.oid = oids[i]]]

\* oidComplement allots room by the length of the parent's OID alone, and writes
\* behind it when an OID is longer.
Overrun(tree) == \E i \in DOMAIN tree : Len(Completed(tree)[i].oid) > OidCap

\* mibTreeHeadOidComplete.  Freeing a suffix twice may also end the program, and
\* what an overrun leaves is not followed.
OidComplete ==
  /\ phase = "oid"
  /\ \/ /\ ~Overrun(trees[1])
        /\ trees' = <<Completed(trees[1])>>
        /\ phase' = "done"
     \/ /\ Overrun(trees[1]) \/ \E i \in DOMAIN trees[1] : Suffix(trees[1], i) = JUNK
        /\ phase' = "crashed" /\ UNCHANGED trees
  /\ UNCHANGED <<symTable, wall, last, numOfTree, theTree, scan, merged, built, atEnd>>

Ended == phase \in {"done", "aborted", "crashed"}

Next ==
  \/ \E ident \in Defined, parent \in Name : HeadAppend(ident, parent)
  \/ EndReading
  \/ MergeNext
  \/ EndScan
  \/ HeadComplete
  \/ OidComplete
  \/ Ended /\ UNCHANGED vars

\* WF_vars(Next), where Next can change something exactly until the end, which
\* is easier to evaluate than ENABLED: every other state has a next one.
Spec == Init /\ [][Next]_vars /\ ([]<><<TRUE>>_vars \/ <>[]Ended)
-----------------------------------------------------------------------------
(***************************************************************************)
(* Properties.                                                             *)
(***************************************************************************)
Forest == trees \o (IF theTree = <<>> THEN <<>> ELSE <<theTree>>)

IsNode(node) ==
  /\ node.id \in 1..built /\ node.ident \in Name
  /\ node.parent \in Name \cup {NULL} /\ node.shared \in BOOLEAN
  /\ node.oid \in Seq(Name \cup {JUNK})

\* Every variable has its type, and every tree has one root and no gaps.
TypeOK ==
  /\ phase \in {"read", "merge", "complete", "oid", "done", "aborted", "crashed"}
  /\ symTable \in SymbolTables /\ wall \in [DOMAIN symTable -> 0..built]
  /\ \A t \in DOMAIN Forest :
       LET tree == Forest[t] IN
         /\ tree # <<>> /\ tree[1].depth = 0
         /\ \A i \in DOMAIN tree : IsNode(tree[i])
         /\ \A i \in 2..Len(tree) : tree[i].depth \in 1..(tree[i - 1].depth + 1)
  /\ last \in 0..(IF phase = "read" THEN Len(trees) ELSE Len(atEnd))
  /\ scan \in 1..(Len(trees) + 1) /\ merged \in BOOLEAN /\ built \in Nat

NodesKept ==
  /\ \A id \in 1..built : \E t \in DOMAIN Forest : \E i \in DOMAIN Forest[t] :
       /\ Forest[t][i].id = id
       /\ \A u \in DOMAIN Forest : \A j \in DOMAIN Forest[u] :
            Forest[u][j].id = id => u = t /\ j = i
  /\ numOfTree = Len(trees)

LinksTrue ==
  \A t \in DOMAIN Forest : \A i \in 2..Len(Forest[t]) :
    Forest[t][Up(Forest[t], i)].ident = Forest[t][i].parent

\* Appending, merging and completing keep every node that was ever built in one
\* place of one tree, below a node that it names as its parent, and the trees are
\* counted: whichever trees are taken from the list while it is scanned.
NodesInPlace == NodesKept /\ LinksTrue

Definitions == UNION {ToSet(atEnd[t]) : t \in DOMAIN atEnd}

\* No name is defined twice, in the main MIB or by a symbol.
Regular ==
  /\ \A d, e \in Definitions : d.ident = e.ident => d = e
  /\ \A d \in Definitions : d.ident \notin DOMAIN symTable

\* No two nodes have one name.
NoTwins ==
  \A t, u \in DOMAIN Forest : \A i \in DOMAIN Forest[t], j \in DOMAIN Forest[u] :
    Forest[t][i].ident = Forest[u][j].ident => t = u /\ i = j

\* What the definitions and the symbol table say of a node's parent.
ParentOf(ident) ==
  LET d == {x \in Definitions : x.ident = ident} IN
    IF d # {} THEN (CHOOSE x \in d : TRUE).parent
    ELSE IF ident \in DOMAIN symTable THEN symTable[ident] ELSE NULL

\* The OID of every node of the document is the list of the suffixes from the
\* topmost known ancestor down, as the definitions have it, whatever their order.
OidsTrue ==
  phase = "done" /\ numOfTree = 1 /\ Regular /\ NoTwins =>
    \A i \in DOMAIN trees[1] :
      LET o == trees[1][i].oid IN
        /\ o[Len(o)] = trees[1][i].ident
        /\ \A k \in 1..(Len(o) - 1) : ParentOf(o[k + 1]) = o[k]
        /\ ParentOf(o[1]) \notin DOMAIN symTable

\* The symbols that are ancestors of all trees.
CommonAncestors ==
  {n \in DOMAIN symTable : \A t \in DOMAIN atEnd : n \in ToSet(Path(atEnd[t][1].parent))}

\* The trees that the merging handles whatever their order: two, or any number
\* that hang below the same node.
Simple ==
  \/ Len(atEnd) <= 2
  \/ \A t, u \in DOMAIN atEnd : atEnd[t][1].parent = atEnd[u][1].parent

SimpleTreesMerge == phase = "aborted" /\ Simple => CommonAncestors = {}

SimpleTreesHaveNoTwins == phase # "read" /\ Simple /\ Regular => NoTwins

\* Simple trees become one if they have a common ancestor, whatever the order of
\* the definitions and the marks that earlier searches left; and they are expanded
\* to the nearest one, so that nothing is built twice.
SimpleTreesBecomeOne == SimpleTreesMerge /\ SimpleTreesHaveNoTwins

\* END comes to an end.
Terminates == <>Ended

=============================================================================
