----------------------------- MODULE SymbolStage -----------------------------
(***************************************************************************)
(* Staging: the productions of yy_syn.y hand the parts of a definition one *)
(* by one to dispatch, which collects them in a slice (sliceContainer for  *)
(* the MIB trees, symCollectSlice for the symbol table); a last dispatch   *)
(* builds a node or a symbol from whatever the slice holds.                *)
(*                                                                         *)
(* A staged value is represented by its origin, the number of the          *)
(* definition it was written in: the hazard is that the parts of one       *)
(* definition end up in another.                                           *)
(***************************************************************************)
EXTENDS Naturals, Sequences

CONSTANTS
  Name,      \* identifiers of definitions
  Chain,     \* OID chains: none, or at least two names
  Wanted,    \* the import lists a FROM clause may ask for, sets of names
  MaxDefs,   \* bound: definitions read in one run
  MaxDepth,  \* bound: nesting of imported files
  JUNK,      \* a pointer nobody set
  NULL       \* no parent

Mount  == {"PARENT", "OID_SUFFIX"}
Inner  == Mount \cup {"IDENTIFIER"}
Key    == Inner \cup {"TYPE", "PERMISSION", "DESCRIPTION"}

\* What a definition is, as far as staging tells it apart: PLAIN are the groups,
\* notifications and compliances, whose parts are thrown away.
Kind == {"OBJECT-TYPE", "OBJECT-IDENTITY", "OBJECT IDENTIFIER",
         "TEXTUAL-CONVENTION", "PLAIN"}

ASSUME StageAssumption ==
  /\ Wanted \subseteq SUBSET Name
  /\ Chain \subseteq Seq(Name) /\ <<>> \in Chain /\ \A c \in Chain : Len(c) # 1
  /\ MaxDefs \in Nat /\ MaxDepth \in Nat
  /\ JUNK \notin Nat /\ NULL \notin Nat

VARIABLES
  defs,             \* the definitions read so far
  imports,          \* the imported files being read: the names still wanted
                    \* (importInfo.symbols) and the definitions read before
  sliceContainer,   \* parts staged for the MIB trees
  symCollectSlice,  \* parts staged for the symbol table
  symTable,         \* name |-> the origins of the symbol's parts
  trees,            \* the nodes handed to mibTreeHeadAppend
  crashed           \* a null node was dereferenced

vars == <<defs, imports, sliceContainer, symCollectSlice, symTable, trees, crashed>>

Empty == [k \in {} |-> 0]

\* SW_STATE: the mode follows the file (ModeFollowsFile of ModuleSwitch).
Depth   == Len(imports)
DocMode == Depth = 0
This    == Len(defs) + 1
Asked   == imports[Depth].left

Init ==
  /\ defs = <<>> /\ imports = <<>>
  /\ sliceContainer = Empty /\ symCollectSlice = Empty
  /\ symTable = Empty /\ trees = {}
  /\ crashed = FALSE

-----------------------------------------------------------------------------
\* sliceStore: the first value stored under a key stays.
Staged(slice, keys) ==
  [k \in DOMAIN slice \cup keys |-> IF k \in DOMAIN slice THEN slice[k] ELSE This]

\* Slip: a SYNTAX is staged in both modes.
SyntaxKeys_BothModes(keys) == keys

\* SYNTAX_VALUE stages its type in the document mode only.
SyntaxKeys(keys) == IF DocMode THEN keys ELSE keys \ {"TYPE"}

\* Slip: the latest definition of a name replaces the one that is there.
Added_Replace(table, new) ==
  [n \in DOMAIN table \cup DOMAIN new |-> IF n \in DOMAIN new THEN new[n] ELSE table[n]]

\* symbolTableAdd of what symbolTableSearch does not find.
Added(table, new) ==
  [n \in DOMAIN table \cup DOMAIN new |-> IF n \in DOMAIN table THEN table[n] ELSE new[n]]

\* Slip: the empty OID_ATTACH sets no value.
ChainSymbol_NoAttach(left, n) ==
  [IDENTIFIER |-> This, OID_SUFFIX |-> JUNK, PARENT |-> IF n = left THEN NULL ELSE This]

\* OID_CHAIN: "{ left right 3 }" puts left and right into the symbol table, in
\* either mode; what precedes left is not known.
ChainSymbol(left, n) ==
  [IDENTIFIER |-> This, OID_SUFFIX |-> This, PARENT |-> IF n = left THEN NULL ELSE This]
WithChain(chain) ==
  Added(symTable, [n \in {chain[i] : i \in DOMAIN chain} |-> ChainSymbol(chain[1], n)])

\* A definition is read; its parts are staged by the same step.
Read(kind, name, parts, chain) ==
  /\ ~crashed /\ This <= MaxDefs
  /\ defs' = Append(defs, [kind |-> kind, name |-> name, parts |-> parts, chain |-> chain,
                           depth |-> Depth])

-----------------------------------------------------------------------------
(***************************************************************************)
(* Document mode: mibObjGen.                                               *)
(***************************************************************************)
\* mibLeaveBuild of the six parts.  A part that is not staged is the
\* uninitialised val of sliceRetriVal: any pointer, or null, and then there is
\* no node and the next line dereferences it.
BuildLeave(slice) ==
  \/ /\ trees' = trees \cup {[k \in Key |-> IF k \in DOMAIN slice THEN slice[k] ELSE JUNK]}
     /\ sliceContainer' = Empty
     /\ UNCHANGED crashed
  \/ /\ DOMAIN slice # Key
     /\ crashed' = TRUE
     /\ UNCHANGED <<trees, sliceContainer>>

\* mibNodeBuild of the three parts that every inner node has staged; what else
\* is in the slice is released with them.
BuildNode(slice) ==
  /\ trees' = trees \cup {[k \in Inner |-> slice[k]]}
  /\ sliceContainer' = Empty

-----------------------------------------------------------------------------
(***************************************************************************)
(* Symbol collecting mode: symbolCollecting.                               *)
(***************************************************************************)
NameOf(slice, name) ==
  LET o == slice["IDENTIFIER"] IN IF o = This THEN name ELSE defs[o].name

Symbol(slice) == [k \in Inner |-> slice[k]]

Want(names) == imports' = [imports EXCEPT ![Depth].left = names]

\* A leaf is only taken off the list, if it is on it: BUILD_LEAVE_NODE.
CollectLeave(slice, name) ==
  LET n == NameOf(slice, name) IN
    /\ IF n \in Asked THEN Want(Asked \ {n}) ELSE UNCHANGED imports
    /\ symCollectSlice' = Empty

\* Slip: only inner nodes on the list enter the symbol table, as for leaves.
CollectNode_OnlyAsked(slice, name, table) ==
  LET n == NameOf(slice, name) IN
      /\ symTable' = IF n \in Asked THEN Added(table, [x \in {n} |-> Symbol(slice)]) ELSE table
      /\ IF n \in DOMAIN table THEN UNCHANGED imports ELSE Want(Asked \ {n})
      /\ symCollectSlice' = Empty

\* BUILD_INNER_NODE: every inner node enters the symbol table, asked for or not.
\* A known one is not taken off the list: its name is released before the jump
\* to the cleaning that would do it.
CollectNode(slice, name, table) ==
  LET n == NameOf(slice, name) IN
      /\ symTable' = Added(table, [x \in {n} |-> Symbol(slice)])
      /\ IF n \in DOMAIN table THEN UNCHANGED imports ELSE Want(Asked \ {n})
      /\ symCollectSlice' = Empty

-----------------------------------------------------------------------------
(***************************************************************************)
(* The productions.                                                        *)
(***************************************************************************)
\* dispatch(MIBTREE_GENERATION, OBJECT) in either mode.
GenerateObject(name, parts) ==
  IF DocMode
  THEN /\ BuildLeave(Staged(sliceContainer, parts))
       /\ UNCHANGED <<imports, symCollectSlice>>
  ELSE /\ CollectLeave(Staged(symCollectSlice, SyntaxKeys(parts)), name)
       /\ UNCHANGED <<sliceContainer, trees, crashed>>

\* OBJ_TYPE.  "SYNTAX OBJECT IDENTIFIER" stages no type; PROPERTY may be empty.
ObjectType(name, parts, chain) ==
  /\ \/ parts \in {Key, Key \ {"TYPE"}}
     \/ parts = {"IDENTIFIER"} /\ chain = <<>>
  /\ Read("OBJECT-TYPE", name, parts, chain)
  /\ symTable' = WithChain(chain)
  /\ GenerateObject(name, parts)

\* OBJ_IDENTITY_DEFINED has no syntax, access or staged description.
ObjectIdentity(name, chain) ==
  /\ Read("OBJECT-IDENTITY", name, Inner, chain)
  /\ symTable' = WithChain(chain)
  /\ GenerateObject(name, Inner)

\* OBJ_DEAL and MODULE_DEF.
ObjectIdentifier(name, chain) ==
  /\ Read("OBJECT IDENTIFIER", name, Inner, chain)
  /\ IF DocMode
     THEN /\ BuildNode(Staged(sliceContainer, Inner))
          /\ symTable' = WithChain(chain)
          /\ UNCHANGED <<imports, symCollectSlice, crashed>>
     ELSE /\ CollectNode(Staged(symCollectSlice, Inner), name, WithChain(chain))
          /\ UNCHANGED <<sliceContainer, trees, crashed>>

\* TC_DEFINED: its SYNTAX_VALUE stages a type that nothing takes or flushes.
TextualConvention(name) ==
  /\ Read("TEXTUAL-CONVENTION", name, {"TYPE"}, <<>>)
  /\ LET keys == SyntaxKeys({"TYPE"}) IN
       IF DocMode
       THEN sliceContainer' = Staged(sliceContainer, keys) /\ UNCHANGED symCollectSlice
       ELSE symCollectSlice' = Staged(symCollectSlice, keys) /\ UNCHANGED sliceContainer
  /\ UNCHANGED <<imports, symTable, trees, crashed>>

\* Slip: PARAM_FLUSH empties one slice only.
PARAM_FLUSH_Half ==
  /\ sliceContainer' = Empty
  /\ symCollectSlice' = IF DocMode THEN symCollectSlice ELSE Staged(symCollectSlice, Mount)

PARAM_FLUSH == sliceContainer' = Empty /\ symCollectSlice' = Empty

\* OBJ_GRP_DEFINED, NOTIFY_GRP_DEFINED, COMPLIANCE_DEFINED, NOTIFY_TYPE_DEFINED:
\* what MOUNT staged is flushed, from both slices.
Plain(name, chain) ==
  /\ Read("PLAIN", name, Mount, chain)
  /\ symTable' = WithChain(chain)
  /\ PARAM_FLUSH
  /\ UNCHANGED <<imports, trees, crashed>>

\* importWorks and switchToPrevModule: neither touches a slice.
BeginImport(names) ==
  /\ ~crashed /\ Depth < MaxDepth
  /\ imports' = Append(imports, [left |-> names])
  /\ UNCHANGED <<defs, sliceContainer, symCollectSlice, symTable, trees, crashed>>

EndImport ==
  /\ ~crashed /\ ~DocMode
  /\ imports' = SubSeq(imports, 1, Depth - 1)
  /\ UNCHANGED <<defs, sliceContainer, symCollectSlice, symTable, trees, crashed>>

Next ==
  \/ \E name \in Name, parts \in SUBSET Key, chain \in Chain : ObjectType(name, parts, chain)
  \/ \E name \in Name, chain \in Chain : ObjectIdentity(name, chain)
  \/ \E name \in Name, chain \in Chain : ObjectIdentifier(name, chain)
  \/ \E name \in Name : TextualConvention(name)
  \/ \E name \in Name, chain \in Chain : Plain(name, chain)
  \/ \E names \in Wanted : BeginImport(names)
  \/ EndImport

Spec == Init /\ [][Next]_vars
-----------------------------------------------------------------------------
(***************************************************************************)
(* Properties.                                                             *)
(***************************************************************************)
Definition == [kind : Kind, name : Name, parts : SUBSET Key, chain : Chain,
               depth : Nat]
Origin     == 1..Len(defs)

\* Every variable has its type; whatever is staged, or was built, was written in
\* some definition that has been read.
TypeOK ==
  /\ defs \in Seq(Definition)
  /\ imports \in Seq([left : SUBSET Name])
  /\ DOMAIN sliceContainer \subseteq Key
  /\ \A k \in DOMAIN sliceContainer : sliceContainer[k] \in Origin
  /\ DOMAIN symCollectSlice \subseteq Key
  /\ \A k \in DOMAIN symCollectSlice : symCollectSlice[k] \in Origin
  /\ DOMAIN symTable \subseteq Name
  /\ \A n \in DOMAIN symTable : symTable[n] \in [Inner -> Origin \cup {NULL}]
  /\ trees \subseteq [Inner -> Origin] \cup [Key -> Origin \cup {JUNK}]
  /\ crashed \in BOOLEAN

\* Between two definitions nothing is left over for the next one to pick up, in
\* either mode and across imports, except the type of a textual convention.
SlicesClean ==
  /\ symCollectSlice = Empty
  /\ DOMAIN sliceContainer \subseteq {"TYPE"}
  /\ \A k \in DOMAIN sliceContainer : defs[sliceContainer[k]].kind = "TEXTUAL-CONVENTION"

OwnNode(node) ==
  LET o == node["IDENTIFIER"] IN
    /\ o \in Origin /\ defs[o].depth = 0
    /\ \A k \in (DOMAIN node \cap defs[o].parts) \ {"TYPE"} : node[k] = o
    /\ \A k \in (DOMAIN node \ defs[o].parts) \ {"TYPE"} : node[k] = JUNK
    /\ "TYPE" \in DOMAIN node =>
         \/ node["TYPE"] = o
         \/ node["TYPE"] = JUNK /\ "TYPE" \notin defs[o].parts
         \/ /\ node["TYPE"] \in 1..(o - 1)
            /\ \A i \in node["TYPE"]..(o - 1) :
                 defs[i].depth = 0 => defs[i].kind = "TEXTUAL-CONVENTION"

NodesOwnTheirParts == \A node \in trees : OwnNode(node)

OwnSymbol(n, s) ==
  LET o == s["IDENTIFIER"] IN
    /\ o \in Origin /\ s["OID_SUFFIX"] = o
    /\ \/ /\ s["PARENT"] = o
          /\ defs[o].kind = "OBJECT IDENTIFIER" /\ defs[o].depth > 0
          /\ defs[o].name = n
       \/ \E i \in DOMAIN defs[o].chain :
            defs[o].chain[i] = n /\ (s["PARENT"] = NULL => n = defs[o].chain[1])

SymbolsOwnTheirParts == \A n \in DOMAIN symTable : OwnSymbol(n, symTable[n])

\* The parts of two definitions are never mixed.  A node of the document is made
\* of the parts of one definition of the main MIB, the one that names it; its type
\* is its own unless a textual convention left one, and then no node was built in
\* between.  A symbol is made of the parts of one definition of an imported file,
\* unless an OID chain mentions it; only the head of a chain has no parent.
PartsTogether == NodesOwnTheirParts /\ SymbolsOwnTheirParts

\* Every definition ends up where its mode sends it: those of the main MIB in
\* the trees, the inner nodes of the imported files in the symbol table, by the
\* first definition of the name, asked for or not.
NothingLost ==
  ~crashed =>
    \A i \in DOMAIN defs :
      /\ defs[i].depth = 0 /\ defs[i].kind \notin {"TEXTUAL-CONVENTION", "PLAIN"} =>
           \E node \in trees : node["IDENTIFIER"] = i
      /\ defs[i].depth > 0 /\ defs[i].kind = "OBJECT IDENTIFIER" =>
           /\ defs[i].name \in DOMAIN symTable
           /\ symTable[defs[i].name]["IDENTIFIER"] <= i

\* A symbol, once known, keeps its definition: two modules that define the same
\* name do not fight over it, and re-reading a module changes nothing.
SymbolsStay ==
  [][\A n \in DOMAIN symTable : n \in DOMAIN symTable' /\ symTable'[n] = symTable[n]]_vars

\* "assert(newNode != NULL)" in mibObjGen: every definition it is called for has
\* the parts its node needs.
NewNodeExists == ~crashed

=============================================================================
