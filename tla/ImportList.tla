------------------------------ MODULE ImportList ------------------------------
(***************************************************************************)
(* What becomes of the memory of an IMPORTS statement: ITEMS chains the    *)
(* symbols of a clause behind importParam, MODULES_CONTENT puts them into  *)
(* a map and releases the chain, importWorks copies the map for the file   *)
(* that is read and releases it, symbolCollecting asks the copy and        *)
(* deletes from it, and switchToPrevModule releases the copy.              *)
(*                                                                         *)
(* A block is what is allocated and freed in one go: a dispatchParam, or   *)
(* the key and the value of a pair, which the value field of the map is    *)
(* the number of.                                                          *)
(***************************************************************************)
EXTENDS HashBucket

CONSTANTS
  StackSize,   \* what importInfoStack holds
  MaxItems,    \* bound: symbols in all the clauses
  MaxClauses   \* bound: clauses

ASSUME ImportAssumption ==
  /\ StackSize \in Nat \ {0} /\ MaxItems \in Nat /\ MaxClauses \in Nat
  /\ NULL \notin Nat

VARIABLES
  phase,            \* what yyparse does, or how it ended
  importParam,      \* the symbols of the clause that is read
  importInfoStack,  \* the clauses that are read
  imports,          \* the files that are read: the import lists of swState
  last,             \* blocks allocated so far
  freed,            \* those that are freed
  twice,            \* those that are freed again
  clauses, items    \* history: clauses and items read, for the bounds

vars == <<phase, importParam, importInfoStack, imports, last, freed, twice,
          clauses, items>>

\* The blocks of the pairs of a map, where a value is a block.
PairsOf(s)  == UNION {BucketPairs(s[i]) : i \in Index}
BlocksOf(s) == {p.val : p \in PairsOf(s)}
KeysOf(s)   == {p.key : p \in PairsOf(s)}

free(blocks) == freed' = freed \cup blocks /\ twice' = twice \cup (freed \cap blocks)

Init ==
  /\ phase = "parse" /\ importParam = <<>> /\ importInfoStack = <<>>
  /\ imports = <<>> /\ last = 0 /\ freed = {} /\ twice = {}
  /\ clauses = 0 /\ items = 0
-----------------------------------------------------------------------------
\* ITEMS: the last symbol of a clause is reduced, and so stored, first.
disParamStore(symbol) ==
  /\ phase = "parse" /\ items < MaxItems /\ clauses < MaxClauses
  /\ importParam' = Append(importParam, [param |-> symbol, block |-> last + 1])
  /\ last' = last + 1 /\ items' = items + 1
  /\ UNCHANGED <<phase, importInfoStack, imports, freed, twice, clauses>>

\* The first pair of a bucket is its head, the next are appended to the chain.
hashMapPut(s, k, block) ==
  LET e == s[Slot(k)] IN
  [s EXCEPT ![Slot(k)] = IF e.used THEN Chained(e, k, block) ELSE Filled(e, k, block)]

\* A map of the parameters of a chain, with the blocks from base on.
Collected(params, base) ==
  LET map[n \in 0..Len(params)] ==
        IF n = 0 THEN Empty ELSE hashMapPut(map[n - 1], params[n].param, base + n)
  IN map[Len(params)]

\* The chain names a symbol again: collectInfo_add refuses.
Conflict(params) ==
  \E i, j \in DOMAIN params : i < j /\ params[i].param = params[j].param

\* Of two parameters and more the last is not reached.
disParamRelease(params) ==
  {params[i].block : i \in {j \in DOMAIN params : j = 1 \/ j < Len(params)}}

disParamRelease_Static == <<>>

\* MODULES_CONTENT: a clause that does not fit the stack is forgotten.
MODULES_CONTENT ==
  /\ phase = "parse" /\ clauses < MaxClauses
  /\ ~Conflict(importParam)
  /\ importInfoStack' =
       IF Len(importInfoStack) = StackSize THEN importInfoStack
       ELSE Append(importInfoStack,
              [symbols |-> Collected(importParam, last),
               asked   |-> {importParam[i].param : i \in DOMAIN importParam}])
  /\ last' = last + Len(importParam)
  /\ free(disParamRelease(importParam))
  /\ importParam' = disParamRelease_Static
  /\ clauses' = clauses + 1
  /\ UNCHANGED <<phase, imports, items>>

SymbolConflict ==
  /\ phase = "parse" /\ Conflict(importParam)
  /\ phase' = "exit"
  /\ UNCHANGED <<importParam, importInfoStack, imports, last, freed, twice,
                 clauses, items>>

\* IMPORT: the semicolon.
IMPORT ==
  /\ phase = "parse" /\ importParam = <<>> /\ importInfoStack # <<>>
  /\ phase' = "import"
  /\ UNCHANGED <<importParam, importInfoStack, imports, last, freed, twice,
                 clauses, items>>
-----------------------------------------------------------------------------
\* Slip: the copy of the chain is not put behind the head.
hashMapDup_NoChain(s) ==
  [i \in Index |-> [s[i] EXCEPT !.val   = IF @ = NULL THEN NULL ELSE last + @,
                               !.chain = <<>>]]

\* Every pair is copied, and goes where it was.
hashMapDup(s) ==
  [i \in Index |->
     [s[i] EXCEPT !.val   = IF @ = NULL THEN NULL ELSE last + @,
                  !.chain = [j \in DOMAIN @ |-> [key |-> @[j].key, val |-> last + @[j].val]]]]

\* The loop that releases a chain moves on twice in each turn.
hashChainRelease(chain) ==
  {chain[j].val : j \in {n \in DOMAIN chain : n % 2 = 1}}

\* Slip: the head is released whether or not there is one.
hashMapRelease_Unguarded(s) ==
  {s[i].val : i \in Index} \cup UNION {hashChainRelease(s[i].chain) : i \in Index}

hashMapRelease(s) ==
  {s[i].val : i \in {n \in Index : s[n].key # NULL}}
    \cup UNION {hashChainRelease(s[i].chain) : i \in Index}

\* Slip: the map itself is handed on.
Handed_Original(s) == s

Handed(s) == hashMapDup(s)

\* One turn of the loop: the clause read last is the file read first.
importWorks ==
  /\ phase = "import"
  /\ \/ /\ importInfoStack = <<>> /\ phase' = "parse"
        /\ UNCHANGED <<importInfoStack, imports, last, freed, twice>>
     \/ /\ importInfoStack # <<>>
        /\ LET info == Last(importInfoStack) IN
             /\ imports' = Append(imports, [symbols |-> Handed(info.symbols),
                  asked |-> info.asked, found |-> {}])
             /\ free(hashMapRelease(info.symbols))
        /\ last' = last + last
        /\ importInfoStack' = Front(importInfoStack)
        /\ UNCHANGED phase
  /\ UNCHANGED <<importParam, clauses, items>>
-----------------------------------------------------------------------------
Reading == phase = "parse" /\ imports # <<>>
Symbols == Last(imports).symbols

Struck(list, symbol, bucket) ==
  [list EXCEPT !.symbols = [@ EXCEPT ![Slot(symbol)] = bucket],
               !.found   = @ \cup ({symbol} \cap list.asked)]

\* hashMapDelete of the head releases the pair, of a pair in the chain only the
\* node around it.
collectInfo_del(symbol) ==
  LET e == Symbols[Slot(symbol)]
      Becomes(bucket) ==
        imports' = [imports EXCEPT ![Len(imports)] = Struck(@, symbol, bucket)] IN
  /\ \/ e.key = symbol /\ Becomes(Beheaded(e)) /\ free({e.val})
     \/ /\ e.key # symbol /\ hashChainSearch(e.chain, symbol) # {}
        /\ Becomes(Unchained(e, symbol)) /\ free({})
     \/ /\ e.key # symbol /\ hashChainSearch(e.chain, symbol) = {}
        /\ UNCHANGED <<imports, freed, twice>>
  /\ UNCHANGED <<phase, importParam, importInfoStack, last, clauses, items>>

collectInfo_exists(symbol) == Got(Symbols[Slot(symbol)], symbol) # NULL

\* symbolCollecting: a leaf is looked up before it is taken off the list.
CollectLeave(symbol) == Reading /\ collectInfo_exists(symbol) /\ collectInfo_del(symbol)

\* An inner node that the symbol table does not have is taken off unasked.
CollectNode(symbol) == Reading /\ collectInfo_del(symbol)

switchToPrevModule ==
  /\ Reading
  /\ free(hashMapRelease(Symbols))
  /\ imports' = Front(imports)
  /\ UNCHANGED <<phase, importParam, importInfoStack, last, clauses, items>>

Next ==
  \/ \E k \in Keys : disParamStore(k) \/ CollectLeave(k) \/ CollectNode(k)
  \/ MODULES_CONTENT \/ SymbolConflict \/ IMPORT \/ importWorks
  \/ switchToPrevModule

Spec == Init /\ [][Next]_vars
-----------------------------------------------------------------------------
Bucket == [used : BOOLEAN, collide : BOOLEAN, key : Keys \cup {NULL},
           val : Nat \cup {NULL}, chain : Seq([key : Keys, val : Nat])]

TypeOK ==
  /\ phase \in {"parse", "import", "exit"}
  /\ importParam \in Seq([param : Keys, block : 1..last])
  /\ \A i \in DOMAIN importInfoStack :
       /\ importInfoStack[i].symbols \in [Index -> Bucket]
       /\ importInfoStack[i].asked \subseteq Keys
  /\ \A i \in DOMAIN imports :
       /\ imports[i].symbols \in [Index -> Bucket]
       /\ imports[i].found \subseteq Keys
  /\ last \in Nat /\ freed \subseteq 1..last /\ twice \subseteq freed

Maps == {importInfoStack[i].symbols : i \in DOMAIN importInfoStack}
          \cup {imports[i].symbols : i \in DOMAIN imports}

\* What is named is not freed, and what is freed is not freed again: the chain
\* of a clause is not used after disParamRelease_Static, the copy of a map lives
\* on when the map is released, and a deleted pair is not released with the rest.
NothingDangles ==
  /\ twice = {}
  /\ \A i \in DOMAIN importParam : importParam[i].block \notin freed
  /\ \A s \in Maps : BlocksOf(s) \cap freed = {}

\* Two maps, and a map and the chain of a clause, have no block in common, and a
\* file keeps what its own clause asked for until it is found.
ListsAreOwn ==
  /\ \A i \in DOMAIN imports :
       KeysOf(imports[i].symbols) = imports[i].asked \ imports[i].found
  /\ \A i \in DOMAIN importInfoStack :
       KeysOf(importInfoStack[i].symbols) = importInfoStack[i].asked
  /\ \A i, j \in DOMAIN imports :
       i # j => BlocksOf(imports[i].symbols) \cap BlocksOf(imports[j].symbols) = {}
==============================================================================
