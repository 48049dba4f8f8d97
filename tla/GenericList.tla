----------------------------- MODULE GenericList -----------------------------
(***************************************************************************)
(* The generic list of list.c: entries in a chain, with the address of the *)
(* first one and their number beside them.  Calls are made on lists that   *)
(* are intact; which calls leave a list that is not is part of the model.  *)
(* A null list makes every call return at once, and is left out.           *)
(***************************************************************************)
EXTENDS NodeHeap

CONSTANTS
  Lists, Elements,
  WILD,         \* an address that holds no entry
  Overwritten   \* what is left of an element that a node's link was written into

ASSUME ListAssumption ==
  /\ Given \in Seq(Elements) /\ WILD \notin Nat \cup {NULL}
  /\ DOMAIN Overwritten = Elements
  /\ \A e \in Elements : Overwritten[e] \notin Elements \cup {NULL}

VARIABLES
  entry,       \* the first entry of each list
  size,        \* the number of its entries
  iter,        \* an iterator: its list and the entry it stands at
  crashed      \* an address that is not mapped was used

vars == <<heap, allocated, entry, size, iter, answer, crashed>>

Init ==
  /\ heap = <<>> /\ allocated = 0
  /\ entry = [l \in Lists |-> NULL] /\ size = [l \in Lists |-> 0]
  /\ iter \in [l : Lists, entry : {NULL}]
  /\ answer = NULL /\ crashed = FALSE

ChainOf(l)    == Chain(heap, entry[l])
ElementsOf(l) == LET chain == ChainOf(l)
                 IN [i \in DOMAIN chain |-> heap[chain[i]].element]

\* The chain of a list can be walked both ways, and has its size.
Intact(l) ==
  LET chain == ChainOf(l) IN
    /\ ToSet(chain) \subseteq DOMAIN heap /\ Len(chain) = size[l]
    /\ \A i \in DOMAIN chain :
         heap[chain[i]].prev = IF i = 1 THEN NULL ELSE chain[i - 1]

\* An iterator that stands at no entry of its list must not be used.
Stands == iter.entry = NULL \/ iter.entry \in ToSet(ChainOf(iter.l))

Entry(e) == [element |-> e, next |-> NULL, prev |-> NULL]
-----------------------------------------------------------------------------
listAppend(l, e) ==
  /\ allocated' = Fresh(1)
  /\ heap' = LET h == With(heap, Fresh(1), Entry(e))
             IN IF entry[l] = NULL THEN h ELSE listNodeAppend(h, entry[l], Fresh(1))
  /\ entry' = [entry EXCEPT ![l] = IF @ = NULL THEN Fresh(1) ELSE @]
  /\ size' = [size EXCEPT ![l] = @ + 1]
  /\ answer' = NULL /\ UNCHANGED <<iter, crashed>>

\* Slip: the list still begins at the entry that was the first.
listPush_SameEntry(l, e) ==
  /\ allocated' = Fresh(1)
  /\ heap' = LET h == With(heap, Fresh(1), Entry(e))
             IN IF entry[l] = NULL THEN h ELSE listNodeAppend(h, Fresh(1), entry[l])
  /\ entry' = [entry EXCEPT ![l] = IF @ = NULL THEN Fresh(1) ELSE @]
  /\ size' = [size EXCEPT ![l] = @ + 1]
  /\ answer' = NULL /\ UNCHANGED <<iter, crashed>>

listPush(l, e) ==
  /\ allocated' = Fresh(1)
  /\ heap' = LET h == With(heap, Fresh(1), Entry(e))
             IN IF entry[l] = NULL THEN h ELSE listNodeAppend(h, Fresh(1), entry[l])
  /\ entry' = [entry EXCEPT ![l] = Fresh(1)]
  /\ size' = [size EXCEPT ![l] = @ + 1]
  /\ answer' = NULL /\ UNCHANGED <<iter, crashed>>

\* Slip: the size goes down even if there is nothing to take.
listRetriveTail_SizeFirst(l) ==
  /\ size' = [size EXCEPT ![l] = @ - 1]
  /\ \/ entry[l] = NULL /\ answer' = NULL /\ UNCHANGED <<heap, entry>>
     \/ /\ entry[l] # NULL
        /\ LET tail == listNodeTail(heap, entry[l]) IN
             /\ answer' = heap[tail].element
             /\ heap' = Free(listNodeDelete(heap, tail), {tail})
        /\ entry' = [entry EXCEPT ![l] = IF size'[l] = 1 THEN NULL ELSE @]
  /\ UNCHANGED <<allocated, iter, crashed>>

\* The list lets go of its entries when one is left, not when none is.
listRetriveTail(l) ==
  /\ \/ entry[l] = NULL /\ answer' = NULL /\ UNCHANGED <<heap, entry, size>>
     \/ /\ entry[l] # NULL
        /\ LET tail == listNodeTail(heap, entry[l]) IN
             /\ answer' = heap[tail].element
             /\ heap' = Free(listNodeDelete(heap, tail), {tail})
        /\ size' = [size EXCEPT ![l] = @ - 1]
        /\ entry' = [entry EXCEPT ![l] = IF size'[l] = 1 THEN NULL ELSE @]
  /\ UNCHANGED <<allocated, iter, crashed>>

\* listNodeDelete is given the entry instead of its node: the element is taken
\* for the next node and the next node for the one before.  The next of the latter
\* is written, and in any case the place in the element where a node has its prev:
\* what is returned is Overwritten, if the element is at least as long as a node.
DeletedAsNode(h, first) ==
  IF h[first].next = NULL THEN h ELSE [h EXCEPT ![h[first].next].next = WILD]

listPop(l) ==
  /\ \/ size[l] = 0 /\ answer' = NULL /\ UNCHANGED <<heap, entry, size>>
     \/ /\ size[l] # 0
        /\ answer' = Overwritten[heap[entry[l]].element]
        /\ size' = [size EXCEPT ![l] = @ - 1]
        /\ entry' = [entry EXCEPT ![l] = IF size'[l] = 0 THEN NULL ELSE heap[@].next]
        /\ heap' = Free(DeletedAsNode(heap, entry[l]), {entry[l]})
  /\ UNCHANGED <<allocated, iter, crashed>>

\* The entries go, and the list still names the first.
listRelease(l) ==
  /\ entry[l] # NULL
  /\ heap' = Free(heap, ToSet(ChainOf(l)))
  /\ answer' = NULL /\ UNCHANGED <<allocated, entry, size, iter, crashed>>
-----------------------------------------------------------------------------
\* The entries that listCopyHelper appends to an empty list, for those of l.
Copies(l) ==
  [n \in Fresh(1)..Fresh(size[l]) |->
     [element |-> ElementsOf(l)[n - allocated],
      next    |-> IF n = Fresh(size[l]) THEN NULL ELSE n + 1,
      prev    |-> IF n = Fresh(1) THEN NULL ELSE n - 1]]
Both(h, g) == [n \in DOMAIN h \cup DOMAIN g |-> IF n \in DOMAIN g THEN g[n] ELSE h[n]]

\* Slip: the copy shares the entries.
listCopy_Shared(l, r) ==
  /\ Memory(size[l]) /\ allocated' = Fresh(size[l])
  /\ entry' = [entry EXCEPT ![r] = entry[l]]
  /\ size' = [size EXCEPT ![r] = size[l]]
  /\ iter' = IF iter.l = r THEN [iter EXCEPT !.entry = WILD] ELSE iter
  /\ answer' = NULL /\ UNCHANGED <<heap, crashed>>

\* r is the copy; whatever it was before is not looked at.
listCopy(l, r) ==
  /\ Memory(size[l]) /\ allocated' = Fresh(size[l])
  /\ heap' = Both(heap, Copies(l))
  /\ entry' = [entry EXCEPT ![r] = IF entry[l] = NULL THEN NULL ELSE Fresh(1)]
  /\ size' = [size EXCEPT ![r] = size[l]]
  /\ iter' = IF iter.l = r THEN [iter EXCEPT !.entry = WILD] ELSE iter
  /\ answer' = NULL /\ UNCHANGED crashed

\* The entries of l go, but l keeps the address of the first one, behind which
\* the copies would be appended.
listAssignment(l, r) ==
  /\ entry[r] # NULL
  /\ Memory(size[r]) /\ allocated' = Fresh(size[r])
  /\ heap' = Both(Free(heap, ToSet(ChainOf(l))), Copies(r))
  /\ entry' = [entry EXCEPT ![l] = IF @ = NULL THEN Fresh(1) ELSE @]
  /\ size' = [size EXCEPT ![l] = size[r]]
  /\ answer' = NULL /\ UNCHANGED <<iter, crashed>>

listIsEqual(l, r) ==
  /\ size[l] = size[r] => entry[l] # NULL
  /\ answer' = (size[l] = size[r] /\ ElementsOf(l) = ElementsOf(r))
  /\ UNCHANGED <<heap, allocated, entry, size, iter, crashed>>

listConcate(l, r) ==
  /\ entry[l] # NULL /\ entry[r] # NULL
  /\ heap' = listNodeAppend(heap, entry[l], entry[r])
  /\ size' = [size EXCEPT ![l] = @ + size[r]]
  /\ answer' = NULL /\ UNCHANGED <<allocated, entry, iter, crashed>>

\* The node of an entry that is not there has the address of no node.  It is used
\* when two empty lists are compared, when an empty list is assigned, and when one
\* of the lists that are concatenated is empty.
EmptyListUsed(l, r) ==
  /\ entry[l] = NULL \/ entry[r] = NULL
  /\ crashed' = TRUE
  /\ answer' = NULL /\ UNCHANGED <<heap, allocated, entry, size, iter>>
-----------------------------------------------------------------------------
\* What the callers of the iterator see of the entry it stands at.
ElementAt(n) == IF n = NULL THEN NULL ELSE heap[n].element

listGetIter(l) ==
  /\ iter' = [l |-> l, entry |-> entry[l]]
  /\ answer' = NULL /\ UNCHANGED <<heap, allocated, entry, size, crashed>>

listNext ==
  /\ answer' = ElementAt(iter.entry)
  /\ iter' = [iter EXCEPT !.entry = listNodeNext(heap, @)]
  /\ UNCHANGED <<heap, allocated, entry, size, crashed>>

listPrev ==
  /\ answer' = ElementAt(iter.entry)
  /\ iter' = [iter EXCEPT !.entry = listNodePrev(heap, @)]
  /\ UNCHANGED <<heap, allocated, entry, size, crashed>>

\* The entry of an iterator that is not initialised: none, or some address.
Uninitialised == {NULL, WILD} \cup ToSet(ChainOf(iter.l))

\* The two functions ask for a node before, and the first goes to the next.
listPredecessor ==
  /\ \E n \in Uninitialised :
       /\ listNodePrev(heap, iter.entry) # NULL =>
            n = IF heap[iter.entry].next = NULL THEN WILD ELSE heap[iter.entry].next
       /\ iter' = [iter EXCEPT !.entry = n]
  /\ answer' = NULL /\ UNCHANGED <<heap, allocated, entry, size, crashed>>

listSuccessor ==
  /\ \E n \in Uninitialised :
       /\ listNodePrev(heap, iter.entry) # NULL => n = heap[iter.entry].prev
       /\ iter' = [iter EXCEPT !.entry = n]
  /\ answer' = NULL /\ UNCHANGED <<heap, allocated, entry, size, crashed>>

\* The other iterator is one that listGetIter gives for r.
listSink(r) ==
  /\ heap' = IF iter.entry = NULL \/ entry[r] = NULL THEN heap
             ELSE [heap EXCEPT ![iter.entry].element = heap[entry[r]].element]
  /\ answer' = NULL /\ UNCHANGED <<allocated, entry, size, iter, crashed>>

CallOf(l) ==
  \/ Memory(1) /\ (listAppend(l, Given[Fresh(1)]) \/ listPush(l, Given[Fresh(1)]))
  \/ listRetriveTail(l) \/ listPop(l) \/ listRelease(l) \/ listGetIter(l)
  \/ /\ iter.l = l /\ Stands
     /\ listNext \/ listPrev \/ listPredecessor \/ listSuccessor

CallOfBoth(l, r) ==
  \/ listCopy(l, r)
  \/ Intact(r) /\ ( \/ listAssignment(l, r) \/ listIsEqual(l, r)
                    \/ listConcate(l, r) \/ EmptyListUsed(l, r) )
  \/ iter.l = l /\ Stands /\ Intact(r) /\ listSink(r)

Next ==
  /\ ~crashed
  /\ \E l \in Lists :
       Intact(l) /\ (CallOf(l) \/ \E r \in Lists \ {l} : CallOfBoth(l, r))

Spec == Init /\ [][Next]_vars
-----------------------------------------------------------------------------
Addresses == {NULL, WILD} \cup 1..MaxNodes

TypeOK ==
  /\ DOMAIN heap \subseteq 1..allocated /\ allocated \in 0..MaxNodes
  /\ \A n \in DOMAIN heap :
       heap[n] \in [element : Elements, next : Addresses, prev : Addresses]
  /\ entry \in [Lists -> Addresses] /\ iter \in [l : Lists, entry : Addresses]
  /\ size \in [Lists -> Nat]
  /\ answer \in Elements \cup {Overwritten[e] : e \in Elements} \cup {NULL} \cup BOOLEAN
  /\ crashed \in BOOLEAN

\* An entry belongs to one list: releasing or changing a list that is intact
\* does nothing to another, copies and assignments included.
Apart ==
  \A l, r \in Lists : l # r /\ Intact(l) /\ Intact(r) =>
    ToSet(ChainOf(l)) \cap ToSet(ChainOf(r)) = {}

\* What each call on an intact list promises, and up to where the code keeps it:
\* the last element is taken safely only when two stay behind it, the first only
\* when it is the only one, and never as it was put in; a list is assigned to only
\* when it is empty.
Becomes(l, s) == Intact(l)' /\ ElementsOf(l)' = s

\* Where the iterator stands in its list, 0 if at the end.
Place ==
  IF iter.entry = NULL THEN 0
  ELSE CHOOSE i \in DOMAIN ChainOf(iter.l) : ChainOf(iter.l)[i] = iter.entry

Adds(l, s) ==
  LET e == Given[Fresh(1)] IN
    Memory(1) =>
      /\ listAppend(l, e) => Becomes(l, Append(s, e))
      /\ listPush(l, e)   => Becomes(l, <<e>> \o s)

Takes(l, s) ==
  /\ listRetriveTail(l) =>
       /\ answer' = IF s = <<>> THEN NULL ELSE Last(s)
       /\ Len(s) > 2 => Becomes(l, Front(s))
  /\ listPop(l) =>
       /\ answer' = IF s = <<>> THEN NULL ELSE Overwritten[Head(s)]
       /\ Len(s) = 1 => Becomes(l, <<>>)

Combines(l, r, s, t) ==
  /\ listCopy(l, r) => Becomes(l, s) /\ Becomes(r, s)
  /\ Intact(r) =>
       /\ s = <<>> /\ listAssignment(l, r) => Becomes(l, t) /\ Becomes(r, t)
       /\ listIsEqual(l, r) => answer' = (s = t)
       /\ listConcate(l, r) => Becomes(l, s \o t)

Walks(s) ==
  /\ listNext \/ listPrev => answer' = IF Place = 0 THEN NULL ELSE s[Place]
  /\ listNext => Place' = IF Place \in {0, Len(s)} THEN 0 ELSE Place + 1
  /\ listPrev => Place' = IF Place = 0 THEN 0 ELSE Place - 1

CallsKeepPromises ==
  [][\A l \in Lists : Intact(l) =>
       LET s == ElementsOf(l) IN
         /\ Adds(l, s) /\ Takes(l, s)
         /\ \A r \in Lists \ {l} : Combines(l, r, s, ElementsOf(r))
         /\ iter.l = l /\ Stands => Walks(s)]_vars
=============================================================================
