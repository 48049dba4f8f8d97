-------------------------- MODULE SymbolStageProofs --------------------------
(***************************************************************************)
(* SymbolStage keeps the parts of definitions apart for every set of names *)
(* and chains, and for any number of definitions and imports.              *)
(***************************************************************************)
EXTENDS SymbolStage, SequenceTheorems, TLAPS

\* A type staged by a textual convention is still staged only while nothing but
\* conventions has been read of the main MIB.
StaleType ==
  ~crashed /\ "TYPE" \in DOMAIN sliceContainer =>
    /\ sliceContainer["TYPE"] \in Origin
    /\ \A i \in sliceContainer["TYPE"]..Len(defs) :
         defs[i].depth = 0 => defs[i].kind = "TEXTUAL-CONVENTION"

IInv == TypeOK /\ SlicesClean /\ StaleType /\ NodesOwnTheirParts /\ SymbolsOwnTheirParts

-----------------------------------------------------------------------------
LEMMA Positive == \A d \in Nat : d # 0 => d > 0
OBVIOUS

\* What reading a definition does to the text read so far.
LEMMA ReadFacts ==
  ASSUME TypeOK, NEW kind \in Kind, NEW name \in Name, NEW parts \in SUBSET Key,
         NEW chain \in Chain, Read(kind, name, parts, chain)
  PROVE  /\ Len(defs) \in Nat /\ Len(defs') = This /\ This \in Nat
         /\ defs' \in Seq(Definition)
         /\ \A i \in 1..Len(defs) : defs'[i] = defs[i]
         /\ defs'[This].kind = kind /\ defs'[This].name = name
         /\ defs'[This].parts = parts /\ defs'[This].chain = chain
         /\ defs'[This].depth = Depth
<1> DEFINE d == [kind |-> kind, name |-> name, parts |-> parts, chain |-> chain,
                 depth |-> Depth]
<1>1. Depth \in Nat /\ defs \in Seq(Definition)
  BY LenProperties DEF TypeOK, Depth
<1>3. d \in Definition
  BY <1>1 DEF Definition
<1>4. defs' = Append(defs, d)
  BY DEF Read
<1>5. d.kind = kind /\ d.name = name /\ d.parts = parts /\ d.chain = chain /\ d.depth = Depth
  OBVIOUS
<1> HIDE DEF d
<1>6. /\ Append(defs, d) \in Seq(Definition)
      /\ Len(Append(defs, d)) = Len(defs) + 1
      /\ \A i \in 1..Len(defs) : Append(defs, d)[i] = defs[i]
      /\ Append(defs, d)[Len(defs) + 1] = d
  BY <1>1, <1>3, AppendProperties
<1>7. Len(defs) \in Nat
  BY <1>1, LenProperties
<1> QED
  BY <1>4, <1>5, <1>6, <1>7 DEF This

\* The staged parts of a definition of the main MIB: all its own, except a type.
LEMMA StagedFacts ==
  ASSUME SlicesClean, NEW parts \in SUBSET Key
  PROVE  LET s == Staged(sliceContainer, parts) IN
         /\ DOMAIN s = DOMAIN sliceContainer \cup parts
         /\ \A k \in parts \ {"TYPE"} : s[k] = This
         /\ "TYPE" \in DOMAIN sliceContainer => s["TYPE"] = sliceContainer["TYPE"]
         /\ "TYPE" \in parts /\ "TYPE" \notin DOMAIN sliceContainer => s["TYPE"] = This
BY DEF SlicesClean, Staged

\* The staged parts of a definition of an imported file: all its own.
LEMMA CollectedFacts ==
  ASSUME SlicesClean, NEW parts \in SUBSET Key
  PROVE  Staged(symCollectSlice, parts) = [k \in parts |-> This]
BY DEF SlicesClean, Staged, Empty

LEMMA InitIInv == Init => IInv
<1> SUFFICES ASSUME Init PROVE IInv
  OBVIOUS
<1>1. defs = <<>> /\ imports = <<>> /\ sliceContainer = Empty /\ symCollectSlice = Empty
      /\ symTable = Empty /\ trees = {} /\ crashed = FALSE
  BY DEF Init
<1>2. DOMAIN Empty = {}
  BY DEF Empty
<1>3. TypeOK
  BY <1>1, <1>2, EmptySeq DEF TypeOK, Empty, Origin
<1> QED
  BY <1>1, <1>2, <1>3 DEF IInv, SlicesClean, StaleType, NodesOwnTheirParts, SymbolsOwnTheirParts

-----------------------------------------------------------------------------
(***************************************************************************)
(* Reading a definition leaves alone what was built before it.             *)
(***************************************************************************)
LEMMA BuiltStays ==
  ASSUME IInv, NEW kind \in Kind, NEW name \in Name, NEW parts \in SUBSET Key,
         NEW chain \in Chain, Read(kind, name, parts, chain)
  PROVE  /\ \A node \in trees : OwnNode(node)'
         /\ \A n \in DOMAIN symTable : \A s : s = symTable[n] => OwnSymbol(n, s)'
         /\ Origin' = Origin \cup {This}
<1>0. TypeOK /\ NodesOwnTheirParts /\ SymbolsOwnTheirParts
  BY DEF IInv
<1>1. /\ Len(defs) \in Nat /\ Len(defs') = This /\ This \in Nat
      /\ \A i \in 1..Len(defs) : defs'[i] = defs[i]
  BY <1>0, ReadFacts
<1>2. This = Len(defs) + 1
  BY DEF This
<1>3. Origin = 1..Len(defs) /\ Origin' = 1..This
  BY <1>1 DEF Origin
<1>4. Origin' = Origin \cup {This}
  BY <1>1, <1>2, <1>3
<1>5. ASSUME NEW node \in trees PROVE OwnNode(node)'
  <2>1. OwnNode(node)
    BY <1>0 DEF NodesOwnTheirParts
  <2>2. node["IDENTIFIER"] \in Origin /\ node["IDENTIFIER"] \in 1..Len(defs)
    BY <2>1, <1>3 DEF OwnNode
  <2>3. \A i \in 1..(node["IDENTIFIER"] - 1) : i \in 1..Len(defs)
    BY <2>2, <1>1
  <2>4. node["TYPE"] \in 1..(node["IDENTIFIER"] - 1) =>
          \A i \in node["TYPE"]..(node["IDENTIFIER"] - 1) : i \in 1..Len(defs)
    BY <2>2, <1>1
  <2> QED
    BY <2>1, <2>2, <2>4, <1>1, <1>4 DEF OwnNode
<1>6. ASSUME NEW n \in DOMAIN symTable, NEW s, s = symTable[n] PROVE OwnSymbol(n, s)'
  <2>1. OwnSymbol(n, s)
    BY <1>0, <1>6 DEF SymbolsOwnTheirParts
  <2>2. s["IDENTIFIER"] \in 1..Len(defs)
    BY <2>1, <1>3 DEF OwnSymbol
  <2> QED
    BY <2>1, <2>2, <1>1, <1>4 DEF OwnSymbol
<1> QED
  BY <1>4, <1>5, <1>6

\* The symbol table after the OID chain of a definition.
LEMMA ChainFacts ==
  ASSUME TypeOK, NEW chain \in Chain
  PROVE  LET table == WithChain(chain) IN
         /\ DOMAIN symTable \subseteq DOMAIN table /\ DOMAIN table \subseteq Name
         /\ \A n \in DOMAIN symTable : table[n] = symTable[n]
         /\ \A n \in DOMAIN table \ DOMAIN symTable :
              /\ \E i \in DOMAIN chain : chain[i] = n
              /\ table[n] = ChainSymbol(chain[1], n)
<1> DEFINE new == [n \in {chain[i] : i \in DOMAIN chain} |-> ChainSymbol(chain[1], n)]
<1>1. chain \in Seq(Name) /\ DOMAIN symTable \subseteq Name
  BY StageAssumption DEF TypeOK
<1>2. {chain[i] : i \in DOMAIN chain} \subseteq Name
  <2>1. SUFFICES ASSUME NEW i \in DOMAIN chain PROVE chain[i] \in Name
    OBVIOUS
  <2>2. DOMAIN chain = 1..Len(chain)
    BY <1>1, LenProperties
  <2> QED
    BY <1>1, <2>2, ElementOfSeq
<1>3. DOMAIN new = {chain[i] : i \in DOMAIN chain}
      /\ \A n \in DOMAIN new : new[n] = ChainSymbol(chain[1], n)
  OBVIOUS
<1>4. WithChain(chain) = Added(symTable, new)
  BY DEF WithChain
<1> HIDE DEF new
<1>5. /\ DOMAIN WithChain(chain) = DOMAIN symTable \cup DOMAIN new
      /\ \A n \in DOMAIN symTable : WithChain(chain)[n] = symTable[n]
      /\ \A n \in DOMAIN new \ DOMAIN symTable : WithChain(chain)[n] = new[n]
  BY <1>4 DEF Added
<1>6. \A n \in DOMAIN new : \E i \in DOMAIN chain : chain[i] = n
  BY <1>3
<1> QED
  BY <1>1, <1>2, <1>3, <1>5, <1>6

\* The symbols that a chain adds are the definition's own.
LEMMA ChainSymbolsOwn ==
  ASSUME IInv, NEW kind \in Kind, NEW name \in Name, NEW parts \in SUBSET Key,
         NEW chain \in Chain, Read(kind, name, parts, chain)
  PROVE  \A n \in DOMAIN WithChain(chain) : \A s : s = WithChain(chain)[n] =>
           OwnSymbol(n, s)' /\ s \in [Inner -> Origin' \cup {NULL}]
<1> SUFFICES ASSUME NEW n \in DOMAIN WithChain(chain), NEW s, s = WithChain(chain)[n]
             PROVE  OwnSymbol(n, s)' /\ s \in [Inner -> Origin' \cup {NULL}]
  OBVIOUS
<1>0. TypeOK
  BY DEF IInv
<1>1. Origin' = Origin \cup {This}
  BY BuiltStays
<1>2. CASE n \in DOMAIN symTable
  <2>1. s = symTable[n]
    BY <1>0, <1>2, ChainFacts
  <2>2. OwnSymbol(n, s)'
    BY <1>2, <2>1, BuiltStays
  <2>3. s \in [Inner -> Origin \cup {NULL}]
    BY <1>0, <1>2, <2>1 DEF TypeOK
  <2> QED
    BY <1>1, <2>2, <2>3
<1>3. CASE n \notin DOMAIN symTable
  <2>1. s = ChainSymbol(chain[1], n) /\ \E i \in DOMAIN chain : chain[i] = n
    BY <1>0, <1>3, ChainFacts
  <2>2. defs'[This].chain = chain /\ This \in Nat
    BY <1>0, ReadFacts
  <2>3. s["PARENT"] = NULL => n = chain[1]
    BY <2>1, <2>2, StageAssumption DEF ChainSymbol
  <2>4. s["IDENTIFIER"] = This /\ s["OID_SUFFIX"] = This
    BY <2>1 DEF ChainSymbol
  <2>5. OwnSymbol(n, s)'
    BY <1>1, <2>1, <2>2, <2>3, <2>4 DEF OwnSymbol
  <2>6. s \in [Inner -> Origin' \cup {NULL}]
    BY <1>1, <2>1 DEF ChainSymbol, Inner, Mount
  <2> QED
    BY <2>5, <2>6
<1> QED
  BY <1>2, <1>3

\* mibLeaveBuild and mibNodeBuild of what a definition of the main MIB staged.
LEMMA NodeOwns ==
  ASSUME IInv, DocMode, NEW kind \in Kind \ {"TEXTUAL-CONVENTION", "PLAIN"},
         NEW name \in Name, NEW parts \in SUBSET Key, "IDENTIFIER" \in parts,
         NEW chain \in Chain, Read(kind, name, parts, chain),
         NEW slice, slice = Staged(sliceContainer, parts)
  PROVE  LET leaf == [k \in Key |-> IF k \in DOMAIN slice THEN slice[k] ELSE JUNK] IN
         OwnNode(leaf)' /\ leaf \in [Key -> Origin' \cup {JUNK}]
<1> DEFINE leaf == [k \in Key |-> IF k \in DOMAIN slice THEN slice[k] ELSE JUNK]
<1>0. TypeOK /\ SlicesClean /\ StaleType /\ ~crashed
  BY DEF IInv, Read
<1>1. Origin' = Origin \cup {This}
  BY BuiltStays
<1>2. /\ Len(defs) \in Nat /\ This = Len(defs) + 1
      /\ \A i \in 1..Len(defs) : defs'[i] = defs[i]
      /\ defs'[This].parts = parts /\ defs'[This].depth = 0
  BY <1>0, ReadFacts DEF This, DocMode
<1>3. /\ DOMAIN slice = DOMAIN sliceContainer \cup parts
      /\ \A k \in parts \ {"TYPE"} : slice[k] = This
      /\ "TYPE" \in DOMAIN sliceContainer => slice["TYPE"] = sliceContainer["TYPE"]
      /\ "TYPE" \in parts /\ "TYPE" \notin DOMAIN sliceContainer => slice["TYPE"] = This
  BY <1>0, StagedFacts
<1>4. DOMAIN sliceContainer \subseteq {"TYPE"}
  BY <1>0 DEF SlicesClean
<1>5. /\ "TYPE" \in Key /\ "IDENTIFIER" \in Key
  BY DEF Key, Inner
<1>6. /\ DOMAIN leaf = Key
      /\ \A k \in parts \ {"TYPE"} : leaf[k] = This
      /\ \A k \in Key \ (parts \cup {"TYPE"}) : leaf[k] = JUNK
  BY <1>3, <1>4
<1>7. \/ leaf["TYPE"] = This
      \/ leaf["TYPE"] = JUNK /\ "TYPE" \notin parts
      \/ "TYPE" \in DOMAIN sliceContainer /\ leaf["TYPE"] = sliceContainer["TYPE"]
  BY <1>3, <1>4, <1>5
<1>8. leaf["IDENTIFIER"] = This
  BY <1>6
<1>9. ASSUME "TYPE" \in DOMAIN sliceContainer, leaf["TYPE"] = sliceContainer["TYPE"]
      PROVE  /\ leaf["TYPE"] \in Origin
             /\ \A i \in leaf["TYPE"]..(This - 1) :
                  defs'[i].depth = 0 => defs'[i].kind = "TEXTUAL-CONVENTION"
  <2>1. leaf["TYPE"] \in 1..Len(defs)
    BY <1>0, <1>9 DEF StaleType, Origin
  <2>2. \A i \in leaf["TYPE"]..(This - 1) : i \in leaf["TYPE"]..Len(defs) /\ i \in 1..Len(defs)
    BY <2>1, <1>2
  <2> QED
    BY <2>1, <2>2, <1>0, <1>2, <1>9 DEF StaleType, Origin
<1> HIDE DEF leaf
<1>10. leaf \in [Key -> Origin' \cup {JUNK}]
  <2>1. \A k \in Key : leaf[k] \in Origin' \cup {JUNK}
    BY <1>1, <1>6, <1>7, <1>9
  <2>2. leaf = [k \in Key |-> leaf[k]]
    BY <1>6 DEF leaf
  <2> QED
    BY <2>1, <2>2
<1>11. OwnNode(leaf)'
  <2>1. leaf["TYPE"] \in Origin => leaf["TYPE"] \in 1..(This - 1)
    BY <1>2 DEF Origin
  <2> QED
    BY <2>1, <1>1, <1>2, <1>6, <1>7, <1>8, <1>9 DEF OwnNode
<1> QED
  BY <1>10, <1>11 DEF leaf

\* A symbol table made by a chain keeps the invariant.
LEMMA ChainStep ==
  ASSUME IInv, NEW kind \in Kind, NEW name \in Name, NEW parts \in SUBSET Key,
         NEW chain \in Chain, Read(kind, name, parts, chain), symTable' = WithChain(chain)
  PROVE  /\ SymbolsOwnTheirParts'
         /\ DOMAIN symTable' \subseteq Name
         /\ \A n \in DOMAIN symTable' : symTable'[n] \in [Inner -> Origin' \cup {NULL}]
<1>1. \A n \in DOMAIN symTable' : \A s : s = symTable'[n] =>
        OwnSymbol(n, s)' /\ s \in [Inner -> Origin' \cup {NULL}]
  BY ChainSymbolsOwn
<1>2. SymbolsOwnTheirParts'
  BY <1>1 DEF SymbolsOwnTheirParts, OwnSymbol
<1>3. DOMAIN symTable' \subseteq Name
  BY ChainFacts DEF IInv
<1> QED
  BY <1>1, <1>2, <1>3

\* The list of an imported file stays a list when a name is taken off it.
LEMMA WantType ==
  ASSUME TypeOK, ~DocMode, NEW x, Want(Asked \ {x}) \/ UNCHANGED imports
  PROVE  imports' \in Seq([left : SUBSET Name])
<1> DEFINE Frame == [left : SUBSET Name]
<1>1. imports \in Seq(Frame) /\ Depth \in Nat /\ Depth # 0
  BY LenProperties DEF TypeOK, DocMode, Depth
<1>2. Depth \in 1..Len(imports)
  BY <1>1 DEF Depth
<1>3. imports[Depth] \in Frame
  BY <1>1, <1>2, ElementOfSeq
<1>4. [imports[Depth] EXCEPT !.left = Asked \ {x}] \in Frame
  BY <1>3 DEF Asked
<1>5. Want(Asked \ {x}) =>
        imports' = [imports EXCEPT ![Depth] = [imports[Depth] EXCEPT !.left = Asked \ {x}]]
  BY DEF Want
<1> HIDE DEF Frame
<1>6. [imports EXCEPT ![Depth] = [imports[Depth] EXCEPT !.left = Asked \ {x}]] \in Seq(Frame)
  BY <1>1, <1>2, <1>4, ExceptSeq
<1>7. imports' \in Seq(Frame)
  BY <1>1, <1>5, <1>6
<1> QED
  BY <1>7 DEF Frame

\* A step that reads a definition keeps the rest of the types.
LEMMA ReadTypes ==
  ASSUME IInv, NEW kind \in Kind, NEW name \in Name, NEW parts \in SUBSET Key,
         NEW chain \in Chain, Read(kind, name, parts, chain),
         imports' \in Seq([left : SUBSET Name]),
         DOMAIN symTable' \subseteq Name,
         \A n \in DOMAIN symTable' : symTable'[n] \in [Inner -> Origin' \cup {NULL}],
         \/ sliceContainer' \in {Empty, sliceContainer}
         \/ sliceContainer' = Staged(sliceContainer, {"TYPE"}),
         symCollectSlice' = Empty,
         \A node \in trees' \ trees :
           node \in [Inner -> Origin'] \cup [Key -> Origin' \cup {JUNK}],
         crashed' \in BOOLEAN
  PROVE  TypeOK'
<1>0. TypeOK
  BY DEF IInv
<1>1. defs' \in Seq(Definition)
  BY <1>0, ReadFacts
<1>2. Origin' = Origin \cup {This}
  BY BuiltStays
<1>3. trees' \subseteq [Inner -> Origin'] \cup [Key -> Origin' \cup {JUNK}]
  <2>1. trees \subseteq [Inner -> Origin] \cup [Key -> Origin \cup {JUNK}]
    BY <1>0 DEF TypeOK
  <2>2. [Inner -> Origin] \subseteq [Inner -> Origin']
    BY <1>2
  <2>3. [Key -> Origin \cup {JUNK}] \subseteq [Key -> Origin' \cup {JUNK}]
    BY <1>2
  <2> QED
    BY <2>1, <2>2, <2>3
<1>4. /\ DOMAIN sliceContainer' \subseteq Key
      /\ \A k \in DOMAIN sliceContainer' : sliceContainer'[k] \in Origin'
  <2>1. /\ DOMAIN sliceContainer \subseteq Key
        /\ \A k \in DOMAIN sliceContainer : sliceContainer[k] \in Origin'
    BY <1>0, <1>2 DEF TypeOK
  <2>2. CASE sliceContainer' = Empty
    BY <2>2 DEF Empty
  <2>3. CASE sliceContainer' = sliceContainer
    BY <2>1, <2>3
  <2>4. CASE sliceContainer' = Staged(sliceContainer, {"TYPE"})
    BY <1>2, <2>1, <2>4 DEF Staged, Key
  <2> QED
    BY <2>2, <2>3, <2>4
<1>5. /\ DOMAIN symCollectSlice' \subseteq Key
      /\ \A k \in DOMAIN symCollectSlice' : symCollectSlice'[k] \in Origin'
  BY DEF Empty
<1> QED
  BY <1>1, <1>3, <1>4, <1>5 DEF TypeOK

\* A definition of an imported file does not make a staged type older.
LEMMA ImportedStale ==
  ASSUME IInv, ~DocMode, NEW kind \in Kind, NEW name \in Name, NEW parts \in SUBSET Key,
         NEW chain \in Chain, Read(kind, name, parts, chain),
         UNCHANGED <<sliceContainer, crashed>>
  PROVE  StaleType'
<1>0. TypeOK /\ StaleType
  BY DEF IInv
<1>1. /\ Len(defs) \in Nat /\ Len(defs') = This /\ This = Len(defs) + 1
      /\ \A i \in 1..Len(defs) : defs'[i] = defs[i]
      /\ defs'[This].depth = Depth
  BY <1>0, ReadFacts DEF This
<1>2. Depth # 0
  BY DEF DocMode
<1>3. Origin' = Origin \cup {This} /\ Origin = 1..Len(defs)
  BY BuiltStays DEF Origin
<1> SUFFICES ASSUME ~crashed, "TYPE" \in DOMAIN sliceContainer
             PROVE  /\ sliceContainer["TYPE"] \in Origin'
                    /\ \A i \in sliceContainer["TYPE"]..Len(defs') :
                         defs'[i].depth = 0 => defs'[i].kind = "TEXTUAL-CONVENTION"
  BY DEF StaleType
<1>4. /\ sliceContainer["TYPE"] \in 1..Len(defs)
      /\ \A i \in sliceContainer["TYPE"]..Len(defs) :
           defs[i].depth = 0 => defs[i].kind = "TEXTUAL-CONVENTION"
  BY <1>0, <1>3 DEF StaleType
<1>5. \A i \in sliceContainer["TYPE"]..Len(defs') :
        \/ i = This
        \/ i \in 1..Len(defs) /\ i \in sliceContainer["TYPE"]..Len(defs)
  BY <1>1, <1>4
<1> QED
  BY <1>1, <1>2, <1>3, <1>4, <1>5

\* What the steps that release or leave sliceContainer do to SlicesClean.
LEMMA CleanStays ==
  ASSUME IInv, NEW kind \in Kind, NEW name \in Name, NEW parts \in SUBSET Key,
         NEW chain \in Chain, Read(kind, name, parts, chain),
         sliceContainer' \in {Empty, sliceContainer}, symCollectSlice' = Empty
  PROVE  SlicesClean'
<1>0. TypeOK /\ SlicesClean
  BY DEF IInv
<1>1. \A k \in DOMAIN sliceContainer : sliceContainer[k] \in 1..Len(defs)
  BY <1>0 DEF TypeOK, Origin
<1>2. \A i \in 1..Len(defs) : defs'[i] = defs[i]
  BY <1>0, ReadFacts
<1> QED
  BY <1>0, <1>1, <1>2 DEF SlicesClean, Empty

-----------------------------------------------------------------------------
(***************************************************************************)
(* One lemma per kind of step.                                             *)
(***************************************************************************)
\* OBJ_TYPE and OBJ_IDENTITY_DEFINED.
LEMMA ObjectStep ==
  ASSUME IInv, NEW kind \in {"OBJECT-TYPE", "OBJECT-IDENTITY"}, NEW name \in Name,
         NEW parts \in SUBSET Key, "IDENTIFIER" \in parts, NEW chain \in Chain,
         Read(kind, name, parts, chain), symTable' = WithChain(chain),
         GenerateObject(name, parts)
  PROVE  IInv'
<1>0. TypeOK /\ SlicesClean /\ NodesOwnTheirParts /\ crashed = FALSE
  BY DEF IInv, Read, TypeOK
<1>1. kind \in Kind /\ kind \in Kind \ {"TEXTUAL-CONVENTION", "PLAIN"}
  BY DEF Kind
<1>2. /\ SymbolsOwnTheirParts'
      /\ DOMAIN symTable' \subseteq Name
      /\ \A n \in DOMAIN symTable' : symTable'[n] \in [Inner -> Origin' \cup {NULL}]
  BY <1>1, ChainStep
<1>3. \A node \in trees : OwnNode(node)'
  BY <1>1, BuiltStays
<1>5. CASE DocMode
  <2>0. PICK slice : slice = Staged(sliceContainer, parts)
    OBVIOUS
  <2>l. PICK leaf : leaf = [k \in Key |-> IF k \in DOMAIN slice THEN slice[k] ELSE JUNK]
    OBVIOUS
  <2>1. BuildLeave(slice) /\ UNCHANGED <<imports, symCollectSlice>>
    BY <1>5, <2>0 DEF GenerateObject
  <2>2. OwnNode(leaf)' /\ leaf \in [Key -> Origin' \cup {JUNK}]
    BY <1>1, <1>5, <2>0, <2>l, NodeOwns
  <2>3. imports' \in Seq([left : SUBSET Name]) /\ symCollectSlice' = Empty
    BY <1>0, <2>1 DEF TypeOK, SlicesClean
  <2>4. \/ trees' = trees \cup {leaf} /\ sliceContainer' = Empty /\ crashed' = crashed
        \/ trees' = trees /\ sliceContainer' = sliceContainer /\ crashed' = TRUE
    BY <2>1, <2>l DEF BuildLeave
  <2>5. \A node \in trees' : OwnNode(node)'
    BY <1>3, <2>2, <2>4
  <2>6. NodesOwnTheirParts'
    BY <2>5 DEF NodesOwnTheirParts
  <2>7. TypeOK'
    <3>1. \A node \in trees' \ trees :
             node \in [Inner -> Origin'] \cup [Key -> Origin' \cup {JUNK}]
      BY <2>2, <2>4
    <3>2. crashed' \in BOOLEAN /\ sliceContainer' \in {Empty, sliceContainer}
      BY <1>0, <2>4
    <3> QED
      BY <1>1, <1>2, <2>3, <3>1, <3>2, ReadTypes
  <2>8. SlicesClean'
    BY <1>1, <2>3, <2>4, CleanStays
  <2>9. StaleType'
    BY <2>4 DEF StaleType, Empty
  <2> QED
    BY <1>2, <2>6, <2>7, <2>8, <2>9 DEF IInv
<1>6. CASE ~DocMode
  <2>1. /\ CollectLeave(Staged(symCollectSlice, SyntaxKeys(parts)), name)
        /\ UNCHANGED <<sliceContainer, trees, crashed>>
    BY <1>6 DEF GenerateObject
  <2>2. symCollectSlice' = Empty
    BY <2>1 DEF CollectLeave
  <2>3. PICK n : Want(Asked \ {n}) \/ UNCHANGED imports
    BY <2>1 DEF CollectLeave
  <2>4. imports' \in Seq([left : SUBSET Name])
    BY <1>0, <1>6, <2>3, WantType
  <2>5. NodesOwnTheirParts'
    BY <1>3, <2>1 DEF NodesOwnTheirParts, OwnNode
  <2>6. TypeOK'
    BY <1>0, <1>1, <1>2, <2>1, <2>2, <2>4, ReadTypes
  <2>7. SlicesClean'
    BY <1>1, <2>1, <2>2, CleanStays
  <2>8. StaleType'
    BY <1>1, <1>6, <2>1, ImportedStale
  <2> QED
    BY <1>2, <2>5, <2>6, <2>7, <2>8 DEF IInv
<1> QED
  BY <1>5, <1>6

\* The symbol that BUILD_INNER_NODE adds is the definition's own.
LEMMA CollectedOwns ==
  ASSUME IInv, ~DocMode, NEW name \in Name, NEW chain \in Chain,
         Read("OBJECT IDENTIFIER", name, Inner, chain),
         CollectNode(Staged(symCollectSlice, Inner), name, WithChain(chain))
  PROVE  /\ SymbolsOwnTheirParts'
         /\ DOMAIN symTable' \subseteq Name
         /\ \A n \in DOMAIN symTable' : symTable'[n] \in [Inner -> Origin' \cup {NULL}]
         /\ imports' \in Seq([left : SUBSET Name])
         /\ symCollectSlice' = Empty
<1>0. TypeOK /\ SlicesClean
  BY DEF IInv
<1>1. Inner \in SUBSET Key /\ "OBJECT IDENTIFIER" \in Kind
  BY DEF Key, Kind
<1>2. PICK slice : slice = Staged(symCollectSlice, Inner) /\ slice = [k \in Inner |-> This]
  BY <1>0, <1>1, CollectedFacts
<1>3. NameOf(slice, name) = name
  BY <1>2 DEF NameOf, Inner
<1>4. PICK sym : sym = [k \in Inner |-> This] /\ sym = Symbol(slice)
  BY <1>2 DEF Symbol
<1>5. PICK table : table = WithChain(chain)
  OBVIOUS
<1>6. /\ symTable' = Added(table, [x \in {name} |-> sym])
      /\ Want(Asked \ {name}) \/ UNCHANGED imports
      /\ symCollectSlice' = Empty
  BY <1>2, <1>3, <1>4, <1>5 DEF CollectNode
<1>7. /\ DOMAIN symTable' = DOMAIN table \cup {name}
      /\ \A n \in DOMAIN table : symTable'[n] = table[n]
      /\ name \notin DOMAIN table => symTable'[name] = sym
  BY <1>6 DEF Added
<1>8. \A n \in DOMAIN table : \A s : s = table[n] =>
        OwnSymbol(n, s)' /\ s \in [Inner -> Origin' \cup {NULL}]
  BY <1>1, <1>5, ChainSymbolsOwn
<1>9. This \in Origin'
  BY <1>1, BuiltStays
<1>10. /\ defs'[This].kind = "OBJECT IDENTIFIER" /\ defs'[This].depth > 0
       /\ defs'[This].name = name
  <2>1. Depth \in Nat /\ Depth # 0
    BY <1>0, LenProperties DEF TypeOK, DocMode, Depth
  <2>2. /\ defs'[This].kind = "OBJECT IDENTIFIER" /\ defs'[This].name = name
        /\ defs'[This].depth = Depth
    BY <1>0, <1>1, ReadFacts
  <2> QED
    BY <2>1, <2>2, Positive
<1>11. OwnSymbol(name, sym)'
  BY <1>4, <1>9, <1>10 DEF OwnSymbol, Inner, Mount
<1>12. sym \in [Inner -> Origin' \cup {NULL}]
  BY <1>4, <1>9
<1>13. \A n \in DOMAIN symTable' : \A s : s = symTable'[n] =>
         OwnSymbol(n, s)' /\ s \in [Inner -> Origin' \cup {NULL}]
  BY <1>7, <1>8, <1>11, <1>12
<1>14. SymbolsOwnTheirParts'
  BY <1>13 DEF SymbolsOwnTheirParts, OwnSymbol
<1>15. DOMAIN symTable' \subseteq Name
  BY <1>0, <1>5, <1>7, ChainFacts
<1>16. imports' \in Seq([left : SUBSET Name])
  BY <1>0, <1>6, WantType
<1> QED
  BY <1>6, <1>13, <1>14, <1>15, <1>16

\* OBJ_DEAL and MODULE_DEF.
LEMMA IdentifierStep ==
  ASSUME IInv, NEW name \in Name, NEW chain \in Chain, ObjectIdentifier(name, chain)
  PROVE  IInv'
<1>0. TypeOK /\ SlicesClean /\ crashed = FALSE /\ Read("OBJECT IDENTIFIER", name, Inner, chain)
  BY DEF IInv, Read, TypeOK, ObjectIdentifier
<1>1. Inner \in SUBSET Key /\ "OBJECT IDENTIFIER" \in Kind \ {"TEXTUAL-CONVENTION", "PLAIN"}
  BY DEF Key, Kind
<1>3. \A node \in trees : OwnNode(node)'
  BY <1>0, <1>1, BuiltStays
<1>5. CASE DocMode
  <2>1. PICK node : node = [k \in Inner |-> This]
    OBVIOUS
  <2>2. /\ trees' = trees \cup {node} /\ sliceContainer' = Empty
        /\ symTable' = WithChain(chain)
        /\ UNCHANGED <<imports, symCollectSlice, crashed>>
    <3>1. [k \in Inner |-> Staged(sliceContainer, Inner)[k]] = node
      BY <1>0, <1>1, <2>1, StagedFacts DEF Inner, Mount
    <3> QED
      BY <3>1, <1>5 DEF ObjectIdentifier, BuildNode
  <2>3. /\ SymbolsOwnTheirParts'
        /\ DOMAIN symTable' \subseteq Name
        /\ \A n \in DOMAIN symTable' : symTable'[n] \in [Inner -> Origin' \cup {NULL}]
    BY <1>0, <1>1, <2>2, ChainStep
  <2>4. This \in Origin'
    BY <1>0, <1>1, BuiltStays
  <2>5. defs'[This].depth = 0 /\ defs'[This].parts = Inner
    BY <1>0, <1>1, <1>5, ReadFacts DEF DocMode
  <2>6. OwnNode(node)'
    BY <2>1, <2>4, <2>5 DEF OwnNode, Inner, Mount
  <2>7. NodesOwnTheirParts'
    BY <1>3, <2>2, <2>6 DEF NodesOwnTheirParts, OwnNode
  <2>8. node \in [Inner -> Origin']
    BY <2>1, <2>4
  <2>9. symCollectSlice' = Empty
    BY <1>0, <2>2 DEF SlicesClean
  <2>10. TypeOK'
    <3>1. \A x \in trees' \ trees : x \in [Inner -> Origin'] \cup [Key -> Origin' \cup {JUNK}]
      BY <2>2, <2>8
    <3>2. /\ imports' \in Seq([left : SUBSET Name])
          /\ sliceContainer' \in {Empty, sliceContainer} /\ crashed' \in BOOLEAN
      BY <1>0, <2>2 DEF TypeOK
    <3> QED
      BY <1>0, <1>1, <2>3, <2>9, <3>1, <3>2, ReadTypes
  <2>11. SlicesClean'
    BY <1>0, <1>1, <2>2, <2>9, CleanStays
  <2>12. StaleType'
    BY <2>2 DEF StaleType, Empty
  <2> QED
    BY <2>3, <2>7, <2>10, <2>11, <2>12 DEF IInv
<1>6. CASE ~DocMode
  <2>1. /\ CollectNode(Staged(symCollectSlice, Inner), name, WithChain(chain))
        /\ UNCHANGED <<sliceContainer, trees, crashed>>
    BY <1>6 DEF ObjectIdentifier
  <2>2. /\ SymbolsOwnTheirParts'
        /\ DOMAIN symTable' \subseteq Name
        /\ \A n \in DOMAIN symTable' : symTable'[n] \in [Inner -> Origin' \cup {NULL}]
        /\ imports' \in Seq([left : SUBSET Name])
        /\ symCollectSlice' = Empty
    BY <1>0, <1>6, <2>1, CollectedOwns
  <2>3. NodesOwnTheirParts'
    BY <1>3, <2>1 DEF NodesOwnTheirParts, OwnNode
  <2>4. TypeOK'
    BY <1>0, <1>1, <2>1, <2>2, ReadTypes
  <2>5. SlicesClean'
    BY <1>0, <1>1, <2>1, <2>2, CleanStays
  <2>6. StaleType'
    BY <1>0, <1>1, <1>6, <2>1, ImportedStale
  <2> QED
    BY <2>2, <2>3, <2>4, <2>5, <2>6 DEF IInv
<1> QED
  BY <1>5, <1>6

\* TC_DEFINED: in the main MIB, a type is staged unless one still is.
LEMMA ConventionStep ==
  ASSUME IInv, NEW name \in Name, TextualConvention(name)
  PROVE  IInv'
<1>0. /\ TypeOK /\ SlicesClean /\ StaleType /\ crashed = FALSE
      /\ Read("TEXTUAL-CONVENTION", name, {"TYPE"}, <<>>)
      /\ UNCHANGED <<imports, symTable, trees, crashed>>
  BY DEF IInv, Read, TypeOK, TextualConvention
<1>1. /\ {"TYPE"} \in SUBSET Key /\ "TEXTUAL-CONVENTION" \in Kind /\ <<>> \in Chain
  BY StageAssumption DEF Key, Kind
<1>2. /\ \A node \in trees : OwnNode(node)'
      /\ \A n \in DOMAIN symTable : \A s : s = symTable[n] => OwnSymbol(n, s)'
      /\ Origin' = Origin \cup {This}
  BY <1>0, <1>1, BuiltStays
<1>3. /\ Len(defs) \in Nat /\ Len(defs') = This /\ This = Len(defs) + 1
      /\ \A i \in 1..Len(defs) : defs'[i] = defs[i]
      /\ defs'[This].kind = "TEXTUAL-CONVENTION" /\ defs'[This].depth = Depth
  BY <1>0, <1>1, ReadFacts DEF This
<1>4. NodesOwnTheirParts'
  BY <1>0, <1>2 DEF NodesOwnTheirParts, OwnNode
<1>5. SymbolsOwnTheirParts'
  BY <1>0, <1>2 DEF SymbolsOwnTheirParts, OwnSymbol
<1>6. \/ ~DocMode /\ sliceContainer' = sliceContainer
      \/ DocMode /\ sliceContainer' = Staged(sliceContainer, {"TYPE"})
  BY DEF TextualConvention, SyntaxKeys
<1>7. symCollectSlice' = Empty
  <2>1. CASE DocMode
    BY <1>0, <2>1 DEF TextualConvention, SlicesClean
  <2>2. CASE ~DocMode
    <3>1. symCollectSlice' = Staged(symCollectSlice, {"TYPE"} \ {"TYPE"})
      BY <2>2 DEF TextualConvention, SyntaxKeys
    <3>2. {"TYPE"} \ {"TYPE"} = {} /\ {} \in SUBSET Key
      OBVIOUS
    <3>3. symCollectSlice' = Staged(symCollectSlice, {})
      BY <3>1, <3>2
    <3>4. Staged(symCollectSlice, {}) = [k \in {} |-> This]
      BY <1>0, <3>2, CollectedFacts
    <3> QED
      BY <3>3, <3>4 DEF Empty
  <2> QED
    BY <2>1, <2>2
<1>8. TypeOK'
  <2>1. \A n \in DOMAIN symTable' : symTable'[n] \in [Inner -> Origin' \cup {NULL}]
    <3>1. \A n \in DOMAIN symTable : symTable[n] \in [Inner -> Origin \cup {NULL}]
      BY <1>0 DEF TypeOK
    <3>2. [Inner -> Origin \cup {NULL}] \subseteq [Inner -> Origin' \cup {NULL}]
      BY <1>2
    <3> QED
      BY <1>0, <3>1, <3>2
  <2>2. /\ imports' \in Seq([left : SUBSET Name])
        /\ DOMAIN symTable' \subseteq Name /\ crashed' \in BOOLEAN /\ trees' \ trees = {}
    BY <1>0 DEF TypeOK
  <2>3. \/ sliceContainer' \in {Empty, sliceContainer}
        \/ sliceContainer' = Staged(sliceContainer, {"TYPE"})
    BY <1>6
  <2> QED
    BY <1>0, <1>1, <1>7, <2>1, <2>2, <2>3, ReadTypes
<1>9. CASE ~DocMode
  <2>1. SlicesClean'
    BY <1>0, <1>1, <1>6, <1>7, <1>9, CleanStays
  <2>2. StaleType'
    BY <1>0, <1>1, <1>6, <1>9, ImportedStale
  <2> QED
    BY <1>4, <1>5, <1>8, <2>1, <2>2 DEF IInv
<1>10. CASE DocMode
  <2>1. DOMAIN sliceContainer' = {"TYPE"}
    BY <1>0, <1>6, <1>10 DEF Staged, SlicesClean
  <2>2. CASE "TYPE" \in DOMAIN sliceContainer
    <3>1. sliceContainer'["TYPE"] = sliceContainer["TYPE"]
      BY <1>6, <1>10, <2>2 DEF Staged
    <3>2. /\ sliceContainer["TYPE"] \in 1..Len(defs)
          /\ defs[sliceContainer["TYPE"]].kind = "TEXTUAL-CONVENTION"
          /\ \A i \in sliceContainer["TYPE"]..Len(defs) :
               defs[i].depth = 0 => defs[i].kind = "TEXTUAL-CONVENTION"
      BY <1>0, <2>2 DEF TypeOK, StaleType, SlicesClean, Origin
    <3>3. SlicesClean'
      BY <1>3, <1>7, <2>1, <3>1, <3>2 DEF SlicesClean, Empty
    <3>4. \A i \in sliceContainer["TYPE"]..Len(defs') :
            \/ i = This
            \/ i \in 1..Len(defs) /\ i \in sliceContainer["TYPE"]..Len(defs)
      BY <1>3, <3>2
    <3>5. sliceContainer["TYPE"] \in Origin'
      BY <1>2, <3>2 DEF Origin
    <3>6. \A i \in sliceContainer["TYPE"]..Len(defs') :
            defs'[i].depth = 0 => defs'[i].kind = "TEXTUAL-CONVENTION"
      BY <1>3, <3>2, <3>4
    <3>7. StaleType'
      BY <3>1, <3>5, <3>6 DEF StaleType
    <3> QED
      BY <1>4, <1>5, <1>8, <3>3, <3>7 DEF IInv
  <2>3. CASE "TYPE" \notin DOMAIN sliceContainer
    <3>1. sliceContainer'["TYPE"] = This
      BY <1>0, <1>1, <1>6, <1>10, <2>3, StagedFacts
    <3>2. SlicesClean'
      BY <1>3, <1>7, <2>1, <3>1 DEF SlicesClean, Empty
    <3>3. \A i \in This..Len(defs') : i = This
      BY <1>3
    <3>4. This \in Origin'
      BY <1>2
    <3>5. StaleType'
      BY <1>3, <3>1, <3>3, <3>4 DEF StaleType
    <3> QED
      BY <1>4, <1>5, <1>8, <3>2, <3>5 DEF IInv
  <2> QED
    BY <2>2, <2>3
<1> QED
  BY <1>9, <1>10

\* Groups, notifications and compliances.
LEMMA PlainStep ==
  ASSUME IInv, NEW name \in Name, NEW chain \in Chain, Plain(name, chain)
  PROVE  IInv'
<1>0. /\ TypeOK /\ Read("PLAIN", name, Mount, chain) /\ symTable' = WithChain(chain)
      /\ sliceContainer' = Empty /\ symCollectSlice' = Empty
      /\ UNCHANGED <<imports, trees, crashed>>
  BY DEF IInv, Plain, PARAM_FLUSH
<1>1. Mount \in SUBSET Key /\ "PLAIN" \in Kind
  BY DEF Key, Inner, Kind
<1>2. /\ SymbolsOwnTheirParts'
      /\ DOMAIN symTable' \subseteq Name
      /\ \A n \in DOMAIN symTable' : symTable'[n] \in [Inner -> Origin' \cup {NULL}]
  BY <1>0, <1>1, ChainStep
<1>3. NodesOwnTheirParts'
  <2>1. \A node \in trees : OwnNode(node)'
    BY <1>0, <1>1, BuiltStays
  <2> QED
    BY <1>0, <2>1 DEF NodesOwnTheirParts, OwnNode
<1>4. TypeOK'
  <2>1. /\ imports' \in Seq([left : SUBSET Name])
        /\ crashed' \in BOOLEAN /\ trees' \ trees = {}
        /\ sliceContainer' \in {Empty, sliceContainer}
    BY <1>0 DEF TypeOK
  <2> QED
    BY <1>0, <1>1, <1>2, <2>1, ReadTypes
<1>5. SlicesClean'
  BY <1>0, <1>1, CleanStays
<1>6. StaleType'
  BY <1>0 DEF StaleType, Empty
<1> QED
  BY <1>2, <1>3, <1>4, <1>5, <1>6 DEF IInv

\* The steps that only move between files.
LEMMA FileStep ==
  ASSUME IInv,
         UNCHANGED <<defs, sliceContainer, symCollectSlice, symTable, trees, crashed>>,
         imports' \in Seq([left : SUBSET Name])
  PROVE  IInv'
<1>1. TypeOK'
  BY DEF IInv, TypeOK, Origin
<1>2. SlicesClean' /\ StaleType'
  BY DEF IInv, SlicesClean, StaleType, Origin
<1>3. NodesOwnTheirParts' /\ SymbolsOwnTheirParts'
  BY DEF IInv, NodesOwnTheirParts, OwnNode, SymbolsOwnTheirParts, OwnSymbol, Origin
<1> QED
  BY <1>1, <1>2, <1>3 DEF IInv

LEMMA StepIInv == IInv /\ [Next]_vars => IInv'
<1> SUFFICES ASSUME IInv, [Next]_vars PROVE IInv'
  OBVIOUS
<1> DEFINE Frame == [left : SUBSET Name]
<1>0. imports \in Seq(Frame)
  BY DEF IInv, TypeOK
<1>1. ASSUME NEW name \in Name, NEW parts \in SUBSET Key, NEW chain \in Chain,
             ObjectType(name, parts, chain)
      PROVE  IInv'
  <2>1. "IDENTIFIER" \in parts
    BY <1>1 DEF ObjectType, Key, Inner
  <2> QED
    BY <1>1, <2>1, ObjectStep DEF ObjectType
<1>2. ASSUME NEW name \in Name, NEW chain \in Chain, ObjectIdentity(name, chain)
      PROVE  IInv'
  <2>1. "IDENTIFIER" \in Inner /\ Inner \in SUBSET Key
    BY DEF Inner, Key
  <2> QED
    BY <1>2, <2>1, ObjectStep DEF ObjectIdentity
<1>3. ASSUME NEW names \in Wanted, BeginImport(names) PROVE IInv'
  <2>1. Len(defs) \in Nat
    BY LenProperties DEF IInv, TypeOK
  <2>2. [left |-> names] \in Frame
    BY <2>1, StageAssumption
  <2>3. imports' = Append(imports, [left |-> names])
    BY <1>3 DEF BeginImport
  <2>4. imports' \in Seq(Frame)
    <3> HIDE DEF Frame
    <3> QED
      BY <1>0, <2>2, <2>3, AppendProperties
  <2> QED
    BY <1>3, <2>4, FileStep DEF BeginImport
<1>4. ASSUME EndImport PROVE IInv'
  <2>1. Depth \in Nat /\ Depth # 0 /\ Depth = Len(imports)
    BY <1>0, <1>4, LenProperties DEF EndImport, DocMode, Depth
  <2>2. imports' = SubSeq(imports, 1, Depth - 1)
    BY <1>4 DEF EndImport
  <2>3. \A i \in 1..(Depth - 1) : imports[i] \in Frame
    <3> HIDE DEF Frame
    <3>1. \A i \in 1..(Depth - 1) : i \in 1..Len(imports)
      BY <2>1
    <3> QED
      BY <1>0, <3>1, ElementOfSeq
  <2>4. imports' \in Seq(Frame)
    <3> HIDE DEF Frame
    <3> QED
      BY <1>0, <2>1, <2>2, <2>3, SubSeqProperties
  <2> QED
    BY <1>4, <2>4, FileStep DEF EndImport
<1>5. CASE UNCHANGED vars
  BY <1>0, <1>5, FileStep DEF vars
<1> QED
  BY <1>1, <1>2, <1>3, <1>4, <1>5, IdentifierStep, ConventionStep, PlainStep DEF Next
-----------------------------------------------------------------------------
\* Whatever is staged, built or collected was written in a definition that has
\* been read (TypeOK), for every number of definitions and nested imports.
THEOREM StageTypes == Spec => []TypeOK
<1>1. IInv => TypeOK
  BY DEF IInv
<1> QED
  BY <1>1, InitIInv, StepIInv, PTL DEF Spec

\* No definition finds parts of an earlier one in a slice, except the type of a
\* textual convention (SlicesClean): every production of yy_syn.y that stages
\* parts ends in a dispatch that takes them.
THEOREM SlicesStayClean == Spec => []SlicesClean
<1>1. IInv => SlicesClean
  BY DEF IInv
<1> QED
  BY <1>1, InitIInv, StepIInv, PTL DEF Spec

\* mibNodeBuild and mibLeaveBuild mix no two definitions, conventions' types
\* aside (NodesOwnTheirParts).
THEOREM NodesAreWhole == Spec => []NodesOwnTheirParts
<1>1. IInv => NodesOwnTheirParts
  BY DEF IInv
<1> QED
  BY <1>1, InitIInv, StepIInv, PTL DEF Spec

\* Symbols come from imported files or from chains, each from one definition
\* (SymbolsOwnTheirParts).
THEOREM SymbolsAreWhole == Spec => []SymbolsOwnTheirParts
<1>1. IInv => SymbolsOwnTheirParts
  BY DEF IInv
<1> QED
  BY <1>1, InitIInv, StepIInv, PTL DEF Spec

\* Whatever productions, modes and imports follow each other, no node and no
\* symbol is made of the parts of two definitions (PartsTogether).
THEOREM PartsStayTogether == Spec => []PartsTogether
<1>1. IInv => PartsTogether
  BY DEF IInv, PartsTogether
<1> QED
  BY <1>1, InitIInv, StepIInv, PTL DEF Spec

-----------------------------------------------------------------------------
SymbolsStayStep ==
  \A n \in DOMAIN symTable : n \in DOMAIN symTable' /\ symTable'[n] = symTable[n]

\* BUILD_INNER_NODE finds its name in symCollectSlice as it was just staged.
LEMMA CollectNodeStays ==
  ASSUME TypeOK, NEW slice, NEW name, NEW chain \in Chain,
         CollectNode(slice, name, WithChain(chain))
  PROVE  SymbolsStayStep
<1>1. PICK table : table = WithChain(chain)
  OBVIOUS
<1>2. /\ DOMAIN symTable \subseteq DOMAIN table
      /\ \A n \in DOMAIN symTable : table[n] = symTable[n]
  BY <1>1, ChainFacts
<1>3. PICK new : symTable' = Added(table, new)
  BY <1>1 DEF CollectNode
<1>4. \A n \in DOMAIN table : n \in DOMAIN symTable' /\ symTable'[n] = table[n]
  BY <1>3 DEF Added
<1> QED
  BY <1>2, <1>4 DEF SymbolsStayStep

LEMMA ChainStays ==
  ASSUME TypeOK, NEW chain \in Chain, symTable' = WithChain(chain)
  PROVE  SymbolsStayStep
BY ChainFacts DEF SymbolsStayStep

\* A known symbol is never replaced or forgotten: the first definition of a name
\* wins, whatever module defines it again (SymbolsStay).
THEOREM SymbolsArePermanent == Spec => SymbolsStay
<1>1. ASSUME TypeOK, [Next]_vars PROVE [SymbolsStayStep]_vars
  <2>1. ASSUME NEW name \in Name, NEW parts \in SUBSET Key, NEW chain \in Chain,
               ObjectType(name, parts, chain)
        PROVE  SymbolsStayStep
    BY <1>1, <2>1, ChainStays DEF ObjectType
  <2>2. ASSUME NEW name \in Name, NEW chain \in Chain, ObjectIdentity(name, chain)
        PROVE  SymbolsStayStep
    BY <1>1, <2>2, ChainStays DEF ObjectIdentity
  <2>3. ASSUME NEW name \in Name, NEW chain \in Chain, ObjectIdentifier(name, chain)
        PROVE  SymbolsStayStep
    <3>1. CASE DocMode
      BY <1>1, <2>3, <3>1, ChainStays DEF ObjectIdentifier
    <3>2. CASE ~DocMode
      BY <1>1, <2>3, <3>2, CollectNodeStays DEF ObjectIdentifier
    <3> QED
      BY <3>1, <3>2
  <2>4. ASSUME NEW name \in Name, TextualConvention(name) PROVE SymbolsStayStep
    BY <2>4 DEF TextualConvention, SymbolsStayStep
  <2>5. ASSUME NEW name \in Name, NEW chain \in Chain, Plain(name, chain)
        PROVE  SymbolsStayStep
    BY <1>1, <2>5, ChainStays DEF Plain
  <2>6. ASSUME NEW names \in Wanted, BeginImport(names) PROVE SymbolsStayStep
    BY <2>6 DEF BeginImport, SymbolsStayStep
  <2>7. ASSUME EndImport PROVE SymbolsStayStep
    BY <2>7 DEF EndImport, SymbolsStayStep
  <2> QED
    BY <1>1, <2>1, <2>2, <2>3, <2>4, <2>5, <2>6, <2>7 DEF Next
<1> QED
  BY <1>1, StageTypes, PTL DEF Spec, SymbolsStay, SymbolsStayStep
-----------------------------------------------------------------------------
(***************************************************************************)
(* Nothing that was read is lost.                                          *)
(***************************************************************************)
Placed(i) ==
  /\ defs[i].depth = 0 /\ defs[i].kind \notin {"TEXTUAL-CONVENTION", "PLAIN"} =>
       \E node \in trees : node["IDENTIFIER"] = i
  /\ defs[i].depth > 0 /\ defs[i].kind = "OBJECT IDENTIFIER" =>
       /\ defs[i].name \in DOMAIN symTable
       /\ symTable[defs[i].name]["IDENTIFIER"] <= i

\* The definition being read goes where its mode sends it.
PutInPlace(kind, name) ==
  /\ DocMode /\ kind \notin {"TEXTUAL-CONVENTION", "PLAIN"} =>
       \E node \in trees' : node["IDENTIFIER"] = This
  /\ ~DocMode /\ kind = "OBJECT IDENTIFIER" => name \in DOMAIN symTable'

\* A step that reads a definition keeps NothingLost when it builds on what is
\* there and puts the new definition in its place.
LEMMA LostNot ==
  ASSUME IInv, NothingLost, NEW kind \in Kind, NEW name \in Name, NEW parts \in SUBSET Key,
         NEW chain \in Chain, Read(kind, name, parts, chain),
         trees \subseteq trees', SymbolsStayStep,
         PutInPlace(kind, name),
         SymbolsOwnTheirParts'
  PROVE  NothingLost'
<1>0. TypeOK /\ ~crashed
  BY DEF IInv, Read
<1>1. /\ Len(defs) \in Nat /\ Len(defs') = This /\ This = Len(defs) + 1
      /\ \A i \in 1..Len(defs) : defs'[i] = defs[i]
      /\ defs'[This].kind = kind /\ defs'[This].name = name /\ defs'[This].depth = Depth
      /\ defs' \in Seq(Definition)
  BY <1>0, ReadFacts DEF This
<1>2. DOMAIN defs = 1..Len(defs) /\ DOMAIN defs' = 1..Len(defs')
  BY <1>0, <1>1, LenProperties DEF TypeOK
<1>3. Depth \in Nat
  BY <1>0, LenProperties DEF TypeOK, Depth
<1>4. ASSUME NEW i \in 1..Len(defs) PROVE Placed(i)'
  <2>1. defs'[i] = defs[i]
    BY <1>1
  <2>2. Placed(i)
    BY <1>0, <1>2 DEF NothingLost, Placed
  <2> QED
    BY <2>1, <2>2 DEF Placed, SymbolsStayStep
<1>5. ASSUME NEW n \in DOMAIN symTable'
      PROVE  symTable'[n]["IDENTIFIER"] \in Int /\ symTable'[n]["IDENTIFIER"] \in 1..This
  <2>1. symTable'[n]["IDENTIFIER"] \in 1..Len(defs')
    BY <1>5 DEF SymbolsOwnTheirParts, OwnSymbol, Origin
  <2> QED
    BY <1>1, <2>1
<1>7. PICK t : t = This
  OBVIOUS
<1>8. Placed(t)'
  <2>1. defs'[t].kind = kind /\ defs'[t].name = name /\ defs'[t].depth = Depth
    BY <1>1, <1>7
  <2>2. ~(0 > 0)
    OBVIOUS
  <2>3. (Depth = 0 => DocMode) /\ (Depth > 0 => ~DocMode)
    BY <2>2 DEF DocMode
  <2>4. CASE ~DocMode /\ kind = "OBJECT IDENTIFIER"
    <3>0. name \in DOMAIN symTable'
      BY <2>4 DEF PutInPlace
    <3>n. \A o \in 1..This : o \in Int /\ o <= This
      BY <1>1
    <3>1. PICK o \in Int : o = symTable'[name]["IDENTIFIER"] /\ o <= t
      BY <1>5, <1>7, <3>0, <3>n, Zenon
    <3> QED
      BY <2>1, <2>3, <2>4, <3>1, Zenon DEF Placed, PutInPlace
  <2>5. CASE DocMode /\ kind \notin {"TEXTUAL-CONVENTION", "PLAIN"}
    BY <1>7, <2>1, <2>3, <2>5 DEF Placed, PutInPlace
  <2>6. CASE DocMode /\ kind \in {"TEXTUAL-CONVENTION", "PLAIN"}
    BY <2>1, <2>3, <2>6 DEF Placed
  <2>7. CASE ~DocMode /\ kind # "OBJECT IDENTIFIER"
    BY <2>1, <2>3, <2>7 DEF Placed
  <2> QED
    BY <2>4, <2>5, <2>6, <2>7
<1>6. \A i \in DOMAIN defs' : i = t \/ i \in 1..Len(defs)
  <2>1. \A i \in 1..(Len(defs) + 1) : i = Len(defs) + 1 \/ i \in 1..Len(defs)
    BY <1>1
  <2> QED
    BY <1>1, <1>2, <1>7, <2>1
<1>9. \A i \in DOMAIN defs' : Placed(i)'
  BY <1>4, <1>6, <1>8
<1> QED
  BY <1>9 DEF NothingLost, Placed

LEMMA ChainLost ==
  ASSUME IInv, NothingLost, IInv', NEW kind \in Kind, NEW name \in Name,
         NEW parts \in SUBSET Key, NEW chain \in Chain, Read(kind, name, parts, chain),
         symTable' = WithChain(chain), trees \subseteq trees', PutInPlace(kind, name)
  PROVE  NothingLost'
<1>1. SymbolsStayStep
  BY ChainStays DEF IInv
<1>2. SymbolsOwnTheirParts'
  BY DEF IInv
<1> QED
  BY <1>1, <1>2, LostNot

\* OBJ_TYPE and OBJ_IDENTITY_DEFINED: unless the assertion fails, the leaf is there.
LEMMA ObjectLost ==
  ASSUME IInv, NothingLost, IInv', NEW kind \in {"OBJECT-TYPE", "OBJECT-IDENTITY"},
         NEW name \in Name, NEW parts \in SUBSET Key, "IDENTIFIER" \in parts,
         NEW chain \in Chain, Read(kind, name, parts, chain),
         symTable' = WithChain(chain), GenerateObject(name, parts)
  PROVE  NothingLost'
<1>1. kind \in Kind /\ kind # "OBJECT IDENTIFIER"
  BY DEF Kind
<1>2. CASE ~DocMode
  <2>1. trees' = trees
    BY <1>2 DEF GenerateObject
  <2>2. PutInPlace(kind, name)
    BY <1>1, <1>2 DEF PutInPlace
  <2> QED
    BY <1>1, <2>1, <2>2, ChainLost
<1>3. CASE DocMode
  <2>0. PICK slice : slice = Staged(sliceContainer, parts)
    OBVIOUS
  <2>1. PICK leaf : leaf = [k \in Key |-> IF k \in DOMAIN slice THEN slice[k] ELSE JUNK]
    OBVIOUS
  <2>2. trees' = trees \cup {leaf} \/ crashed' = TRUE
    BY <1>3, <2>0, <2>1 DEF GenerateObject, BuildLeave
  <2>3. CASE crashed' = TRUE
    BY <2>3 DEF NothingLost
  <2>4. CASE trees' = trees \cup {leaf}
    <3>1. leaf["IDENTIFIER"] = This
      BY <2>0, <2>1, StagedFacts DEF IInv, Key, Inner
    <3>2. PutInPlace(kind, name)
      BY <1>1, <2>4, <3>1 DEF PutInPlace
    <3> QED
      BY <1>1, <2>4, <3>2, ChainLost
  <2> QED
    BY <2>2, <2>3, <2>4
<1> QED
  BY <1>2, <1>3

\* OBJ_DEAL and MODULE_DEF: a node of the main MIB, or a symbol.
LEMMA IdentifierLost ==
  ASSUME IInv, NothingLost, IInv', NEW name \in Name, NEW chain \in Chain,
         ObjectIdentifier(name, chain)
  PROVE  NothingLost'
<1>0. /\ TypeOK /\ SlicesClean /\ SymbolsOwnTheirParts'
      /\ Read("OBJECT IDENTIFIER", name, Inner, chain)
  BY DEF IInv, ObjectIdentifier
<1>1. /\ Inner \in SUBSET Key /\ "OBJECT IDENTIFIER" \in Kind
      /\ "IDENTIFIER" \in Inner /\ "IDENTIFIER" # "TYPE"
  BY DEF Key, Kind, Inner
<1>2. CASE DocMode
  <2>1. PICK node : node = [k \in Inner |-> Staged(sliceContainer, Inner)[k]]
    OBVIOUS
  <2>2. trees' = trees \cup {node} /\ symTable' = WithChain(chain)
    BY <1>2, <2>1 DEF ObjectIdentifier, BuildNode
  <2>3. node["IDENTIFIER"] = This
    BY <1>0, <1>1, <2>1, StagedFacts
  <2>4. PutInPlace("OBJECT IDENTIFIER", name)
    BY <1>2, <2>2, <2>3 DEF PutInPlace
  <2> QED
    BY <1>0, <1>1, <2>2, <2>4, ChainLost
<1>3. CASE ~DocMode
  <2>1. /\ CollectNode(Staged(symCollectSlice, Inner), name, WithChain(chain))
        /\ trees' = trees
    BY <1>3 DEF ObjectIdentifier
  <2>2. SymbolsStayStep
    BY <1>0, <2>1, CollectNodeStays
  <2>3. Staged(symCollectSlice, Inner) = [k \in Inner |-> This]
    BY <1>0, <1>1, CollectedFacts
  <2>4. NameOf(Staged(symCollectSlice, Inner), name) = name
    BY <1>1, <2>3 DEF NameOf
  <2>5. name \in DOMAIN symTable'
    BY <2>1, <2>4 DEF CollectNode, Added
  <2>6. PutInPlace("OBJECT IDENTIFIER", name)
    BY <1>3, <2>5 DEF PutInPlace
  <2> QED
    BY <1>0, <1>1, <2>1, <2>2, <2>6, LostNot
<1> QED
  BY <1>2, <1>3

\* TC_DEFINED, groups, notifications and compliances have no place.
LEMMA RestLost ==
  ASSUME IInv, NothingLost, IInv', NEW name \in Name,
         \/ TextualConvention(name)
         \/ \E chain \in Chain : Plain(name, chain)
  PROVE  NothingLost'
<1>1. CASE TextualConvention(name)
  <2>1. /\ {"TYPE"} \in SUBSET Key /\ "TEXTUAL-CONVENTION" \in Kind /\ <<>> \in Chain
    BY StageAssumption DEF Key, Kind
  <2>2. /\ Read("TEXTUAL-CONVENTION", name, {"TYPE"}, <<>>)
        /\ symTable' = symTable /\ trees' = trees
    BY <1>1 DEF TextualConvention
  <2>3. SymbolsStayStep /\ SymbolsOwnTheirParts' /\ PutInPlace("TEXTUAL-CONVENTION", name)
    BY <2>2 DEF SymbolsStayStep, IInv, PutInPlace
  <2> QED
    BY <2>1, <2>2, <2>3, LostNot
<1>2. ASSUME NEW chain \in Chain, Plain(name, chain) PROVE NothingLost'
  <2>1. Mount \in SUBSET Key /\ "PLAIN" \in Kind
    BY DEF Key, Inner, Kind
  <2>2. /\ Read("PLAIN", name, Mount, chain)
        /\ symTable' = WithChain(chain) /\ trees' = trees
    BY <1>2 DEF Plain
  <2>3. PutInPlace("PLAIN", name)
    BY DEF PutInPlace
  <2> QED
    BY <2>1, <2>2, <2>3, ChainLost
<1> QED
  BY <1>1, <1>2

\* Unless a node could not be built, every definition of the main MIB has its
\* node and every inner node of an imported file its symbol, by the first
\* definition of the name, for any number of definitions and nested imports
\* (NothingLost).
THEOREM NothingIsLost == Spec => []NothingLost
<1>1. Init => NothingLost
  <2>1. \A d : d = <<>> => DOMAIN d = {}
    OBVIOUS
  <2> QED
    BY <2>1 DEF Init, NothingLost
<1>2. ASSUME IInv, IInv', NothingLost, [Next]_vars PROVE NothingLost'
  <2>1. ASSUME NEW name \in Name, NEW parts \in SUBSET Key, NEW chain \in Chain,
               ObjectType(name, parts, chain)
        PROVE  NothingLost'
    <3>1. "IDENTIFIER" \in parts
      BY <2>1 DEF ObjectType, Key, Inner
    <3> QED
      BY <1>2, <2>1, <3>1, ObjectLost DEF ObjectType
  <2>2. ASSUME NEW name \in Name, NEW chain \in Chain, ObjectIdentity(name, chain)
        PROVE  NothingLost'
    <3>1. "IDENTIFIER" \in Inner /\ Inner \in SUBSET Key
      BY DEF Inner, Key
    <3> QED
      BY <1>2, <2>2, <3>1, ObjectLost DEF ObjectIdentity
  <2>3. ASSUME NEW names \in Wanted, BeginImport(names) PROVE NothingLost'
    BY <1>2, <2>3 DEF BeginImport, NothingLost
  <2>4. ASSUME EndImport PROVE NothingLost'
    BY <1>2, <2>4 DEF EndImport, NothingLost
  <2>5. CASE UNCHANGED vars
    BY <1>2, <2>5 DEF vars, NothingLost
  <2> QED
    BY <1>2, <2>1, <2>2, <2>3, <2>4, <2>5, IdentifierLost, RestLost DEF Next
<1> QED
  BY <1>1, <1>2, InitIInv, StepIInv, PTL DEF Spec
=============================================================================
