----------------------------- MODULE DocumentGen -----------------------------
(***************************************************************************)
(* docGenerate.c and format.c: one travel through the finished tree writes *)
(* the document.  Inner nodes and tables become sections, the other leaves *)
(* become rows, which wait in infoQueue until latexTable prints them.  A   *)
(* row is the number of its node.  typeCheck has accepted every type, so   *)
(* isMibNodeType_ENTRY finds the category of each.                         *)
(***************************************************************************)
EXTENDS Integers, Sequences, FiniteSetsExt, SequencesExt

CONSTANTS
  Trees,          \* trees, as the sequence in which a travel meets their nodes
  SIZE_OF_QUEUE   \* places of the ring, 512

(***************************************************************************)
(* What SMI allows: scalars and tables below inner nodes, one entry below  *)
(* a table, columns below an entry.  oid is the length of the OID that     *)
(* oidComplete has put together: that of the parent, a dot and a suffix.   *)
(***************************************************************************)
MayHold(kind) ==
  CASE kind = "NODE"  -> {"NODE", "TABLE", "LEAF"}
    [] kind = "TABLE" -> {"ENTRY"}
    [] kind = "ENTRY" -> {"LEAF"}
    [] kind = "LEAF"  -> {}

\* parent is 0 for the root, else a node of the branch that ends before.
IsTree(t) ==
  /\ t[1].kind = "NODE" /\ t[1].parent = 0
  /\ \A i \in 2..Len(t) :
       /\ t[i].parent \in 1..(i - 1)
       /\ \A k \in (t[i].parent + 1)..(i - 1) : t[k].parent >= t[i].parent
       /\ t[i].kind \in MayHold(t[t[i].parent].kind)
       /\ t[i].kind = "ENTRY" => t[i].parent = i - 1
       /\ t[i].oid >= t[t[i].parent].oid + 2

ASSUME DocumentAssumption ==
  /\ SIZE_OF_QUEUE \in Nat \ {0}
  /\ \A t \in Trees :
       /\ IsTree(t) /\ t # <<>>
       /\ t \in Seq([kind : {"NODE", "TABLE", "ENTRY", "LEAF"}, parent : Nat,
                     oid : Nat \ {0}])

VARIABLES
  tree, from,     \* the tree and the begin node
  obj, visit,     \* the travel: a node or 0 (null), VISIT_PRE, _IN, _POST
  infoQueue,      \* rows collected
  output,         \* sections and tables written
  phase           \* "travel", "done" or "fault" (null dereferenced)

vars == <<tree, from, obj, visit, infoQueue, output, phase>>

Queue == INSTANCE BoundedFifo WITH
           Data <- Nat, Capacity <- SIZE_OF_QUEUE - 1, NULL <- 0,
           fifo <- infoQueue, got <- 0

Nodes == 1..Len(tree)
kind(n) == tree[n].kind

\* The pointers of a node, 0 for none.
parent(n) == tree[n].parent
child(n) == IF n < Len(tree) /\ parent(n + 1) = n THEN n + 1 ELSE 0
sibling(n) ==
  LET after == {m \in (n + 1)..Len(tree) : parent(m) = parent(n)}
  IN  IF after = {} THEN 0 ELSE Min(after)

\* The node itself and what is above it.
Above(n) == {p \in 1..n : \A k \in (p + 1)..n : parent(k) >= p}

\* strlen of getOidFromInfo, the completed OID.
oidLength(n) == tree[n].oid

\* documentGen: from the root or the node the user names.
Init ==
  /\ tree \in Trees
  /\ from \in Nodes
  /\ obj = from /\ visit = "pre"
  /\ infoQueue = <<>> /\ output = <<>> /\ phase = "travel"
-----------------------------------------------------------------------------
makeDecision(n) ==
  IF kind(n) \in {"NODE", "TABLE"} THEN "SECTION"
  ELSE IF (sibling(n) # 0 /\ kind(sibling(n)) # "TABLE") \/ kind(n) = "ENTRY"
  THEN "COLLECTING"
  ELSE "TABLE"

\* Slip: the depth is that in the whole tree.
depth_Whole(n) == oidLength(n) \div 2 + 1

\* An int from the unsigned difference: 0 for a node that is shorter than the
\* begin node, by the wrap-around and the truncation.
depth(n) ==
  IF oidLength(n) < oidLength(from) THEN 0
  ELSE (oidLength(n) - oidLength(from)) \div 2 + 1

\* Slip: no default.
latexSection_NoDefault(n) ==
  output' = Append(output, [node |-> n, level |-> depth(n)])

\* section to subparagraph.
latexSection(n) ==
  output' = Append(output,
    [node |-> n, level |-> IF depth(n) \in 1..5 THEN depth(n) ELSE 5])

caption(n) ==
  IF kind(parent(n)) = "ENTRY" THEN parent(parent(n)) ELSE parent(n)

\* Slip: the rows are printed and not taken out.
latexTable_Keeps(queue, title) ==
  /\ output' = Append(output, [title |-> title, rows |-> queue])
  /\ infoQueue' = queue

latexTable(queue, title) ==
  /\ output' = Append(output, [title |-> title, rows |-> queue])
  /\ infoQueue' = <<>>

latexGen(n) ==
  \/ /\ makeDecision(n) = "TABLE"
     /\ latexTable(Queue!Accepted(infoQueue, n), caption(n))
  \/ /\ makeDecision(n) = "COLLECTING"
     /\ infoQueue' = Queue!Accepted(infoQueue, n)
     /\ UNCHANGED output
  \/ /\ makeDecision(n) = "SECTION"
     /\ latexSection(n)
     /\ UNCHANGED infoQueue

\* Slip: the last of the siblings does not go up.
travel_step_Stays ==
  LET next ==
        CASE visit = "pre" /\ child(obj) # 0     -> <<child(obj), "pre">>
          [] visit = "pre" /\ child(obj) = 0     -> <<obj, "in">>
          [] visit = "in" /\ sibling(obj) # 0    -> <<sibling(obj), "pre">>
          [] visit = "in" /\ sibling(obj) = 0    -> <<obj, "post">>
          [] visit = "post" /\ sibling(obj) # 0  -> <<obj, "in">>
          [] visit = "post" /\ sibling(obj) = 0  -> <<obj, "post">>
  IN obj' = next[1] /\ visit' = next[2]

travel_step ==
  LET next ==
        CASE visit = "pre" /\ child(obj) # 0     -> <<child(obj), "pre">>
          [] visit = "pre" /\ child(obj) = 0     -> <<obj, "in">>
          [] visit = "in" /\ sibling(obj) # 0    -> <<sibling(obj), "pre">>
          [] visit = "in" /\ sibling(obj) = 0    -> <<obj, "post">>
          [] visit = "post" /\ sibling(obj) # 0  -> <<obj, "in">>
          [] visit = "post" /\ sibling(obj) = 0  -> <<parent(obj), "post">>
  IN obj' = next[1] /\ visit' = next[2]

AtEnd(n, v) == n = from /\ v = "post"

\* One turn of the loop of travel_MibTree.
Turn ==
  /\ phase = "travel" /\ obj # 0
  /\ IF visit = "pre" THEN latexGen(obj) ELSE UNCHANGED <<infoQueue, output>>
  /\ travel_step
  /\ phase' = IF AtEnd(obj', visit') THEN "done" ELSE "travel"
  /\ UNCHANGED <<tree, from>>

\* travel_step of what is above the root.
Fault ==
  /\ phase = "travel" /\ obj = 0
  /\ phase' = "fault"
  /\ UNCHANGED <<tree, from, obj, visit, infoQueue, output>>

Next == Turn \/ Fault

Spec == Init /\ [][Next]_vars

FairSpec == Spec /\ WF_vars(Next)
-----------------------------------------------------------------------------
Items == {output[i] : i \in DOMAIN output}
Sections == {s \in Items : "node" \in DOMAIN s}
Tables == {s \in Items : "rows" \in DOMAIN s}

TypeOK ==
  /\ IsTree(tree) /\ from \in Nodes
  /\ obj \in Nodes \cup {0} /\ visit \in {"pre", "in", "post"}
  /\ infoQueue \in Seq(Nodes) /\ Len(infoQueue) < SIZE_OF_QUEUE
  /\ \A s \in Sections : s.node \in Nodes /\ s.level \in 1..5
  /\ \A s \in Tables : s.title \in Nodes /\ s.rows \in Seq(Nodes)
  /\ phase \in {"travel", "done", "fault"}

Chosen == {n \in Nodes : from \in Above(n)}
IsRow(n) == kind(n) \in {"ENTRY", "LEAF"}

\* The section a row belongs to: its table, or the group of a scalar.
Group(n) ==
  Max({p \in Above(n) \ {n} : kind(p) \in {"NODE", "TABLE"}} \cup {0})

\* A begin node from which the travel does not come back.
Astray == child(from) = 0 /\ sibling(from) # 0

(***************************************************************************)
(* Trees of which the document is complete: no scalar is followed by an    *)
(* inner node, every entry has a column, and no group has more rows than   *)
(* the queue has places.                                                   *)
(***************************************************************************)
Tidy ==
  \A n \in Chosen :
    /\ kind(n) = "LEAF" /\ sibling(n) # 0 => kind(sibling(n)) # "NODE"
    /\ kind(n) = "ENTRY" => child(n) # 0

Fits ==
  \A g \in Nodes : Cardinality({n \in Chosen : IsRow(n) /\ Group(n) = g})
                     < SIZE_OF_QUEUE

\* The nodes of an item of the document; those in the queue come last.
Batch(i) ==
  IF i > Len(output) THEN infoQueue
  ELSE IF output[i] \in Sections THEN <<output[i].node>>
  ELSE output[i].rows

Places       == UNION {{i} \X DOMAIN Batch(i) : i \in 1..(Len(output) + 1)}
Before(p, q) == p[1] < q[1] \/ (p[1] = q[1] /\ p[2] < q[2])
Shown(p)     == Batch(p[1])[p[2]]

InOrder(kinds) ==
  \A p, q \in Places :
    Before(p, q) /\ {kind(Shown(p)), kind(Shown(q))} \subseteq kinds
      => Shown(p) < Shown(q)

Complete ==
  phase = "done" /\ Tidy /\ Fits =>
    /\ {Shown(p) : p \in Places} = Chosen
    /\ InOrder({"NODE", "TABLE", "ENTRY", "LEAF"})
    /\ infoQueue = <<>>

CaptionsTrue ==
  Tidy /\ ~Astray =>
    \A s \in Tables : \A i \in DOMAIN s.rows : s.title = Group(s.rows[i])

RowsInOrder == InOrder({"ENTRY", "LEAF"})

\* Whatever the tree, no row is printed twice or before one that comes first; and
\* of a tidy tree that fits, the document shows every node below the begin node
\* once, in the order of the travel, and no row is left in the queue.
ShownInOrder == RowsInOrder /\ Complete

SectionsNest ==
  \A s \in Sections : s.node \in Chosen =>
    /\ s.node = from => s.level = 1
    /\ \A r \in Sections : r.node \in (Above(s.node) \ {s.node}) \cap Chosen =>
         r.level < s.level \/ (r.level = 5 /\ s.level = 5)
    /\ (\A n \in Nodes \ {1} : oidLength(n) = oidLength(parent(n)) + 2) =>
         s.level = Min({5, Cardinality(Above(s.node) \cap Chosen)})

\* Of a tidy tree, the table of a row carries the name of the row's own table or
\* group (the parent, or for a column its grandparent, of the row that ended it).
\* The section of the begin node has the first level, and that of a node below
\* another a deeper one until subparagraph; with suffixes of one digit the level
\* is the distance from the begin node.
HeadingsTrue == CaptionsTrue /\ SectionsNest

\* The travel does not leave the part that was asked for: only from a begin node
\* that has a sibling and no child it does, and ends at a null pointer.
StaysBelow == ~Astray => from \in Above(obj) /\ phase # "fault"

\* The travel ends, without having left the part that was asked for.
TravelReturns == <>(phase # "travel") /\ []StaysBelow

=============================================================================
