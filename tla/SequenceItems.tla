---------------------------- MODULE SequenceItems ----------------------------
(***************************************************************************)
(* The columns of a SEQUENCE: yy_syn.def.c, and the productions SEQ_ITEM   *)
(* and SEQUENCE, which use it.  A sequence holds the node of an item of    *)
(* its own, the head of the chain, so that its address stands for that of  *)
(* the head; the identifier and the type of an item are one value.         *)
(* Calls on sequences that are not there return at once and are left out.  *)
(***************************************************************************)
EXTENDS NodeHeap

CONSTANTS
  Seqs,      \* the sequences that are allocated
  YYVAL,     \* the sequence that bison computes a value in
  Columns    \* identifier and type of an item

ASSUME ItemAssumption ==
  /\ Given \in Seq(Columns) /\ NULL \notin Columns
  /\ (Seqs \cup {YYVAL}) \cap (Nat \cup {NULL}) = {} /\ YYVAL \notin Seqs

Sequences == Seqs \cup {YYVAL}

VARIABLES
  identifier,  \* the identifier of each sequence, or NULL
  length,      \* its length, as it is counted
  seqItem,     \* the first item of the value of SEQ_ITEM
  undefined    \* memory that is freed was used, or is named by a sequence, or
               \* strdup was given no string

itemVars == <<heap, allocated, identifier, length, seqItem, answer, undefined>>

Item(c) == [column |-> c, next |-> NULL, prev |-> NULL]
Alive(s)   == s \in DOMAIN heap
First(s)   == heap[s].next
ItemsOf(s) == Chain(heap, First(s))
ColumnsOf(s) == LET items == ItemsOf(s) IN [i \in DOMAIN items |-> heap[items[i]].column]

ItemInit ==
  /\ heap = <<>> /\ allocated = 0
  /\ identifier = [[s \in Sequences |-> NULL] EXCEPT ![YYVAL] = YYVAL]
  /\ length = [s \in Sequences |-> 0]
  /\ seqItem = NULL /\ answer = NULL /\ undefined = FALSE
-----------------------------------------------------------------------------
seqConst(s) ==
  /\ ~Alive(s)
  /\ heap' = With(heap, s, Item(NULL))
  /\ identifier' = [identifier EXCEPT ![s] = NULL]
  /\ length' = [length EXCEPT ![s] = 0]
  /\ answer' = NULL /\ UNCHANGED <<allocated, seqItem, undefined>>

\* Whoever constructs a sequence may name it, once.
SetIdentifier(s) ==
  /\ identifier[s] = NULL /\ identifier' = [identifier EXCEPT ![s] = s]
  /\ answer' = NULL /\ UNCHANGED <<heap, allocated, length, seqItem, undefined>>

\* Only the first item is released with the sequence.
seqDestructor(s) ==
  /\ heap' = Free(heap, {s, First(s)})
  /\ identifier' = [identifier EXCEPT ![s] = NULL]
  /\ answer' = NULL /\ UNCHANGED <<allocated, length, seqItem, undefined>>

seqAddItem(s, c) ==
  /\ allocated' = Fresh(1)
  /\ heap' = listNodeAppend(With(heap, Fresh(1), Item(c)), s, Fresh(1))
  /\ length' = [length EXCEPT ![s] = @ + 1]
  /\ answer' = NULL /\ UNCHANGED <<identifier, seqItem, undefined>>

\* The head has no identifier and is passed over.
seqItemSearch(s, c) == listNodeSearch(heap, s, [n \in DOMAIN heap |-> heap[n].column = c])

\* The length stays what it was.
seqDelItem(s, c) ==
  /\ UNCHANGED <<allocated, identifier, length, seqItem, undefined>>
  /\ LET item == seqItemSearch(s, c) IN
       /\ answer' = (item # NULL)
       /\ heap' = IF item = NULL THEN heap
                  ELSE Free(listNodeDelete(heap, item), {item})

seqSearch(s, c) ==
  /\ UNCHANGED <<heap, allocated, identifier, length, seqItem, undefined>>
  /\ answer' = (seqItemSearch(s, c) # NULL)
-----------------------------------------------------------------------------
\* Slip: seqItemCopy returns an item with nothing in it.
Copied_Blank(h, s, t) ==
  LET n      == Len(ItemsOf(s))
      copies == [i \in Fresh(1)..Fresh(n) |->
                   [column |-> NULL,
                    next   |-> IF i = Fresh(n) THEN NULL ELSE i + 1,
                    prev   |-> IF i = Fresh(1) THEN t ELSE i - 1]]
  IN [a \in DOMAIN h \cup DOMAIN copies |->
        IF a \in DOMAIN copies THEN copies[a]
        ELSE IF a = t THEN [h[t] EXCEPT !.next = Fresh(1)] ELSE h[a]]

\* seqItemsCopy of the items of s behind the head of t.
Copied(h, s, t) ==
  LET n      == Len(ItemsOf(s))
      old    == ColumnsOf(s)
      copies == [i \in Fresh(1)..Fresh(n) |->
                   [column |-> old[i - allocated],
                    next   |-> IF i = Fresh(n) THEN NULL ELSE i + 1,
                    prev   |-> IF i = Fresh(1) THEN t ELSE i - 1]]
  IN [a \in DOMAIN h \cup DOMAIN copies |->
        IF a \in DOMAIN copies THEN copies[a]
        ELSE IF a = t THEN [h[t] EXCEPT !.next = Fresh(1)] ELSE h[a]]

\* Slip: the copy names the items of the original.
seqCopy_Shared(s, t) ==
  /\ ~Alive(t) /\ identifier[s] # NULL
  /\ heap' = With(heap, t, heap[s])
  /\ length' = [length EXCEPT ![t] = length[s]]
  /\ identifier' = [identifier EXCEPT ![t] = identifier[s]]
  /\ answer' = NULL /\ UNCHANGED <<allocated, seqItem, undefined>>

\* strdup of an identifier that is not set is undefined.  A sequence without items
\* is not copied.
seqCopy(s, t) ==
  /\ ~Alive(t)
  /\ \/ /\ identifier[s] = NULL /\ undefined' = TRUE
        /\ UNCHANGED <<heap, allocated, length, identifier>>
     \/ /\ identifier[s] # NULL /\ First(s) # NULL
        /\ Memory(Len(ItemsOf(s))) /\ allocated' = Fresh(Len(ItemsOf(s)))
        /\ heap' = Copied(With(heap, t, Item(NULL)), s, t)
        /\ length' = [length EXCEPT ![t] = length[s]]
        /\ identifier' = [identifier EXCEPT ![t] = identifier[s]]
        /\ UNCHANGED undefined
  /\ answer' = NULL /\ UNCHANGED seqItem

\* Only the first item of l is released; l still names it, and the copies are put
\* behind what follows it, if there are any.  A sequence that is assigned to itself
\* loses its identifier first, and one that has none cannot be assigned.  Without
\* items in r the length stays as it was.
seqAssignment(l, r) ==
  /\ identifier' = [identifier EXCEPT ![l] = identifier[r]]
  /\ \/ /\ l = r \/ First(l) # NULL \/ identifier[r] = NULL
        /\ undefined' = TRUE
        /\ UNCHANGED <<heap, allocated, length>>
     \/ /\ l # r /\ First(l) = NULL /\ identifier[r] # NULL /\ First(r) = NULL
        /\ UNCHANGED <<heap, allocated, length, undefined>>
     \/ /\ l # r /\ First(l) = NULL /\ identifier[r] # NULL /\ First(r) # NULL
        /\ Memory(Len(ItemsOf(r))) /\ allocated' = Fresh(Len(ItemsOf(r)))
        /\ heap' = Copied(heap, r, l)
        /\ length' = [length EXCEPT ![l] = length[r]]
        /\ UNCHANGED undefined
  /\ answer' = NULL /\ UNCHANGED seqItem

\* Equal identifiers are strings.
SameName(l, r) == identifier[l] # NULL /\ identifier[l] = identifier[r]

\* Slip: the last item is not compared.
seqIsEqual_Short(l, r) ==
  /\ UNCHANGED <<heap, allocated, identifier, length, seqItem, undefined>>
  /\ LET a == ColumnsOf(l) b == ColumnsOf(r) IN
       answer' = /\ SameName(l, r) /\ length[l] = length[r]
                 /\ \A i \in 1..(length[l] - 1) : i <= Len(a) /\ i <= Len(b) /\ a[i] = b[i]

\* As many items are compared as are counted; one that is not there equals none.
seqIsEqual(l, r) ==
  /\ UNCHANGED <<heap, allocated, identifier, length, seqItem, undefined>>
  /\ LET a == ColumnsOf(l) b == ColumnsOf(r) IN
       answer' = /\ SameName(l, r) /\ length[l] = length[r]
                 /\ \A i \in 1..length[l] : i <= Len(a) /\ i <= Len(b) /\ a[i] = b[i]

\* seqItemsDestruct of a chain of items that seqItemsCopy returned: the first is
\* released and the second passed over; of the third, when it is released, the
\* next is asked for.  Nothing is left that names the copies.
CopyAndDestruct(s) ==
  /\ First(s) # NULL
  /\ Memory(Len(ItemsOf(s))) /\ allocated' = Fresh(Len(ItemsOf(s)))
  /\ undefined' = (Len(ItemsOf(s)) > 2)
  /\ answer' = NULL /\ UNCHANGED <<heap, identifier, length, seqItem>>

\* The item at the front of l takes over the column of the one at the front of r.
seqItemAssignment(l, r) ==
  /\ First(l) # NULL /\ First(r) # NULL
  /\ heap' = [heap EXCEPT ![First(l)].column = heap[First(r)].column]
  /\ answer' = NULL
  /\ UNCHANGED <<allocated, identifier, length, seqItem, undefined>>
-----------------------------------------------------------------------------
\* The value of the production is preset to that of its IDENTIFIER, behind which
\* there are no items: those of the SEQ_ITEM on the right, read before, are lost.
SEQ_ITEM(c) ==
  /\ allocated' = Fresh(1) /\ seqItem' = Fresh(1)
  /\ heap' = With(Free(heap, {YYVAL}), Fresh(1), [Item(c) EXCEPT !.prev = YYVAL])
  /\ answer' = NULL /\ UNCHANGED <<identifier, length, undefined>>

\* The type table is given the address of the value.
SEQUENCE ==
  /\ seqItem # NULL /\ seqItem' = NULL
  /\ heap' = listNodeAppend(With(heap, YYVAL, Item(NULL)), YYVAL, seqItem)
  /\ length' = [length EXCEPT ![YYVAL] = -1]
  /\ answer' = NULL /\ UNCHANGED <<allocated, identifier, undefined>>

\* The value of the next production is put in the place of the sequence, of
\* which the type table has the address.
Reduce ==
  /\ Alive(YYVAL) /\ heap' = Free(heap, {YYVAL})
  /\ answer' = NULL
  /\ UNCHANGED <<allocated, identifier, length, seqItem, undefined>>

SequenceCall(s) ==
  \/ SetIdentifier(s) \/ seqDestructor(s) \/ CopyAndDestruct(s)
  \/ Memory(1) /\ seqAddItem(s, Given[Fresh(1)])
  \/ \E c \in Columns : seqDelItem(s, c) \/ seqSearch(s, c)

\* s is one that calls may change, and t any sequence.
SequencesCall(s, t) ==
  \/ seqCopy(t, s)
  \/ Alive(s) /\ (seqAssignment(s, t) \/ seqIsEqual(s, t) \/ seqItemAssignment(s, t))

ItemNext ==
  /\ ~undefined
  /\ \/ \E s \in Seqs :
          \/ seqConst(s)
          \/ Alive(s) /\ SequenceCall(s)
          \/ \E t \in Sequences : Alive(t) /\ SequencesCall(s, t)
     \/ Memory(1) /\ SEQ_ITEM(Given[Fresh(1)])
     \/ SEQUENCE \/ Reduce

ItemSpec == ItemInit /\ [][ItemNext]_itemVars
-----------------------------------------------------------------------------
ItemTypeOK ==
  /\ DOMAIN heap \subseteq (1..allocated) \cup Sequences
  /\ allocated \in 0..MaxNodes
  /\ \A n \in DOMAIN heap :
       /\ heap[n].column \in Columns \cup {NULL}
       /\ heap[n].column = NULL <=> n \in Sequences
  /\ identifier \in [Sequences -> Sequences \cup {NULL}] /\ length \in [Sequences -> Nat \cup {-1}]
  /\ (YYVAL \in DOMAIN heap => seqItem = NULL) /\ seqItem \in (1..allocated) \cup {NULL} /\ undefined \in BOOLEAN

\* The items of a sequence are allocated and its own, and can be walked both
\* ways: a copy does not depend on the original, and deleting an item from the
\* one leaves no trace in the other.
ChainsAreOwn ==
  /\ \A s \in Sequences : Alive(s) =>
       LET items == ItemsOf(s) IN
         /\ ToSet(items) \subseteq 1..allocated /\ ToSet(items) \subseteq DOMAIN heap
         /\ \A i \in DOMAIN items :
              heap[items[i]].prev = IF i = 1 THEN s ELSE items[i - 1]
  /\ \A s, t \in Sequences : s # t /\ Alive(s) /\ Alive(t) =>
       ToSet(ItemsOf(s)) \cap ToSet(ItemsOf(t)) = {}

\* Whether the length is that of the chain: nothing was deleted, and the
\* sequence does not come from the parser.
Counted(s) == length[s] = Len(ItemsOf(s))

\* What each call promises.  Equality is that of the columns while they are
\* counted; a sequence that counts more than it has does not equal itself.
ItemsKeepPromises ==
  [][\A s \in Sequences : Alive(s) =>
       LET old == ColumnsOf(s) IN
       /\ Memory(1) /\ seqAddItem(s, Given[Fresh(1)]) =>
            ColumnsOf(s)' = Append(old, Given[Fresh(1)])
       /\ \A c \in Columns :
            /\ seqDelItem(s, c) =>
                 ColumnsOf(s)' = RemoveFirst(old, c) /\ answer' = (c \in ToSet(old))
            /\ seqSearch(s, c) => answer' = (c \in ToSet(old))
       /\ \A t \in Sequences :
            /\ seqCopy(s, t) =>
                 undefined' \/ (ColumnsOf(t)' = old /\ ColumnsOf(s)' = old)
            /\ Alive(t) /\ seqAssignment(s, t) =>
                 undefined' \/ ColumnsOf(s)' = ColumnsOf(t)
            /\ Alive(t) /\ seqIsEqual(s, t) =>
                 /\ Counted(s) /\ Counted(t) =>
                      answer' = (SameName(s, t) /\ old = ColumnsOf(t))
                 /\ s = t => answer' = (SameName(s, s) /\ length[s] <= Len(old))
    ]_itemVars
=============================================================================
