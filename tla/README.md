# Verification of mib2doc

mib2doc reads an SMI MIB (and, through its IMPORTS, other MIBs) and writes a
LaTeX document of the objects the MIB defines.  It is one sequential C program:
what is hard in it is not concurrency but a parser that is re-entered through a
stack of suspended files, global staging areas that productions fill piece by
piece, trees that are assembled from definitions in any order, and error
results that nobody looks at.

This directory holds TLA+ models of its core, TLC configurations that check
them on small instances, and TLAPS proofs for every instance.

## Inventory

| Component (source) | State | Operations | Hard behaviour | What makes it correct |
|---|---|---|---|---|
| Import stack and dispatcher (`dispatcher.c`, `stack.c`, `moduleAlias.c`, `main.c`) | `swState` (mode, current file, stack), `importInfoStack`, flex's buffer and `yylineno` | `importWorks`, `switchToModule`, `switchToPrevModule`, `dispatch` | nesting, repetition and cycles of imports; capacities; failure of `fopen` | mode, buffer, line and purpose belong to one file; imports are read before what follows them |
| Scanner (`yy_lex.l`) | flex buffers | tokens, `<<EOF>>` | end of file drives the switch back and the type check | no buffer is used after it is deleted |
| Grammar (`yy_syn.y`) | `importParam`, `lastProcessed` | one action per production | reductions wait for a lookahead token | a definition is dispatched in its file's mode |
| Type check (`typeCheck.c`, `mibTreeGen.c`) | `mibTypeTbl`, `pendingTypes` | first pass on use, second at end of file | types defined after use, in another file | sound and complete |
| Staging and symbol collecting (`mibTreeGen.c`, `list.c`) | `sliceContainer`, `symCollectSlice`, `symTable`, the import list | `sliceStore`, `PARAM_FLUSH`, `mibObjGen`, `symbolCollecting` | left-over parts, missing parts, early returns | a node or symbol has the parts of one definition |
| MIB trees (`mibTreeObjTree.c`) | a list of trees | append, merge, complete, OID completion, travel | definitions in any order, common ancestors, freed suffixes | each node once, where its definition puts it, its OID complete |
| Hash map (`hash.c`, `pair.c`) | buckets with chains | put, get, delete, dup, release | deletion of a bucket's head; what dup and release reach | behaves as a map, and owns its pairs |
| LaTeX output (`format.c`, `queue.c`, `docGenerate.c`) | `infoQueue`, the file | `latexGen`, `latexTable`, `latexSection`, `appendQueue`, `getQueue` | rows wait for a later node to print them; the ring is bounded; levels come from lengths of OIDs | every node below the begin node once, in order, in its section or table |
| Options (`options.c`, `optRegister.h`, `optRegister_procedures.h`) | the relation matrix, the pieces, `optionsManager` | checking, splitting, processing | three walks over one line; a sentinel that is a word; values that look like options or are missing | the walks agree; every argument goes to its option |
| Lists (`list.c`) | a chain, its first entry and its size; iterators | append, push, take, copy, assign, compare, walk | empty lists, the last entries, a node taken for an entry | a list has its own entries, in both directions |
| Sequence items (`yy_syn.def.c`, SEQUENCE in `yy_syn.y`) | chains of columns with a counted length | add, delete, copy, assign, compare | the value of a production as the head of a chain | a copy is its own; the length is that of the chain |
| Utilities (`util.c`, `misc.c`) | none of their own | | | |
| Regular expressions (`re.c`) | vendored | | | |

Components interact by calls only.  `yyparse` calls the scanner, whose end of
file rule calls `switchToPrevModule`; the action of IMPORT calls `importWorks`;
every definition goes through `dispatch`, which `swState.state` sends either to
`mibObjGen` (trees) or to `symbolCollecting` (symbol table).  END merges and
completes the trees with the help of the symbol table.  When `yyparse` returns,
`documentGen` travels the tree.  `symbolTbl.c` and `typeTable.c` are not in the
repository; their tables are taken for the maps their callers use them as.

The hazards, each at its line, are listed in `PROJECT.json`.

## Modules

### ModuleSwitch

The import stack.  A file is a sequence of lines, each a significant construct
(a FROM clause, the `;` of IMPORTS, a definition, a use of a type, a definition
of a type, END, a syntax error); the file system is a constant chosen by `Init`.

| Model | Code |
|---|---|
| `phase` | in `yyparse`, in the loop of `importWorks`, or ended (`documented`, `clash`, `noFile`, `badType`) |
| `buffers`, `flex` | flex buffers in order of creation, `YY_CURRENT_BUFFER` |
| `mode`, `cur`, `swStack` | `swState.state`, `.currentSwitchInfo`, `.swStack` |
| `From`, `Clash`, `Import` | MODULES_CONTENT (and its conflict exit), IMPORT |
| `importWorks`, `CannotOpen` | one turn of the loop; `lexBufferSwitching` exits |
| `Define`, `End` | `dispatch` in either mode, the END production |
| `UseType`, `DefineType` | TYPE; TC_DEFINED, TYPE_DEFINED and SEQUENCE |
| `EofOfImport`, `EofOfMain`, `EofBadType` | the `<<EOF>>` rule with its three outcomes |
| `SyntaxError` | `yyparse` returns 1 and `main` goes on |

Three assumptions on constants: `StackFits` (a process runs out of descriptors
before the 5120 frames of `swStack`, 128 times the 40 bytes of a `switchInfo`, are
full, since no file is closed), `FilesEnd` (each file ends with END: bison reduces
the last definition when it sees the token behind it, which without an END belongs to another file) and
`ImportsClosed` (between an IMPORTS and its `;` the grammar takes only clauses:
anything else is a syntax error, a line of kind BAD).

`DependencyOrder` is the abstract specification: a module is finished only after
the modules it imports, and a line of the main MIB is published only after those
imported above it.  `RespectsImports` is the refinement.

### SymbolStage

How the parts of a definition are staged and consumed.  A staged value is
represented by its *origin*, the number of the definition it was written in, so
"the parts of two definitions are mixed" is visible.  A step is a whole
production: between two definitions any number of imports may begin or end, and
the mode is the one `StateFollowsFile` establishes.  The list of wanted symbols is
a set here; `HashMap` is about what implements it.  An uninitialised value is nondeterministic: `JUNK`, or
null, which crashes.

### MibForest

What END does with the definitions of the main MIB.  A tree is the sequence of
its nodes in the order of a travel, each with its depth, which determines the
pointers `parent`, `child` and `sibling`; the symbol table is a constant map from
a name to its parent.

| Model | Code |
|---|---|
| `trees`, `last`, `numOfTree` | the list of `mibTreeHead`, `.last`, `.numOfTree` |
| `HeadAppend` | `mibTreeHeadAppend`: below a known parent, else a new tree |
| `EndReading`, `MergeNext`, `EndScan` | `mibTreeHeadMerge`: one tree tried, one scan ended, scans repeated while they merge something |
| `AncestorCommon`, `MergeByComplete`, `wall` | the search that alternates between two chains of symbols and marks what it has met; the nodes built for the symbols between |
| `HeadComplete`, `OidComplete` | the ancestors above the last root, the OIDs |

Three conditions say when the result is as one expects.  `Regular`: no name is
defined twice.  `Simple`: at most two trees, or all below one node.  `NoTwins`: no
node was built twice.  Other forests go wrong in this code: with three trees the
third may not find the root the first two were given, or be expanded past it, after which a symbol stands in the document twice and its suffix is
freed twice.  `ForestAssumption` excludes symbols that are their own ancestor;
`HeadAppend` is for definitions that have a parent, and for one END.  `oidComplement`
allots 256 characters for an OID whatever the suffix; `OidCap` is the number of
suffixes they hold, taking suffixes for equally long, and completing a tree with a
longer OID (`Overrun`) ends in `crashed`: what is written behind the buffer, and what
that does to other OIDs, is not followed.

### RingQueue and BoundedFifo

`queue.c`, and the bounded first-in-first-out queue it implements (`IsFifo`), with
the ring's content as the refinement mapping.

### DocumentGen

One travel through the finished tree and what it writes.  A tree is again a
sequence in the order of a travel, with the parent of each node; `Init` chooses
any tree that SMI allows and any begin node (`--from`).  `Turn` is one turn of the
loop of `travel_MibTree`: `latexGen` for a node that is met first, then
`travel_step`.  The queue is that of `BoundedFifo`, which `RingQueue` implements;
`latexTable` takes out as many rows as `count` says, which `RingTrue` shows to be
all.  That every node is shown (`ShownInOrder`) under its own caption
(`HeadingsTrue`) is for trees that are `Tidy`: no scalar is followed by an inner
node, no entry is without columns.  In the others the row of such a scalar waits for
the next table, which may never come.

### HashMap and SymbolMap

`hash.c` against a map.  The refinement (`IsMapWithHeads`) exempts the calls for
keys of a bucket that lost its head and still has a chain: they do go wrong, the
keys behind are not found any more.  `SymbolStage` takes the list of wanted
symbols, which is such a map, for a set; symbols are deleted from it one by one as
they are found, so two wanted symbols of one bucket are enough for the second to be
missed.  What an operation does to one bucket is in `HashBucket`, which `ImportList`
shares.  It takes `isEqual` for equality, which `symbolKeyEqual` with its
two uninitialised lengths is only by luck.

### ImportList

The memory of an IMPORTS statement, from ITEMS to the end of the file that is
read, over maps of the buckets of `HashBucket`.

| Model | Code |
|---|---|
| a block | a `dispatchParam`, or key and value of a pair; freed in one go |
| `importParam`, `importInfoStack` | the chain of the clause that is read, the clauses |
| `imports` | the copies of the maps, one for each file that is read |
| `MODULES_CONTENT` | `collectInfo_add` for each symbol, `disParamRelease_Static`, `push` |
| `importWorks` | one turn: `hashMapDup`, then `collectInfo_release` of the original |
| `CollectLeave`, `CollectNode`, `switchToPrevModule` | what deletes pairs, and what releases the rest |

What is never freed (the last parameter of a chain, every second node of a bucket's
chain, the pair of a deleted chain node) is in the model: `freed` holds exactly the
blocks the code reaches.  The model may end a file between any two symbols, and a
clause may name nothing.

### NodeChain, NodeHeap, GenericList and SequenceItems

`NodeChain` has the operations on `listNode` as operators on a heap, a function
from the addresses that are allocated to records; `containerOf` leaves no trace.
`listNodeInsert` sets no `prev` in the middle of a chain there as in the code, which
no caller of the lists gets to: all insert behind a tail.
`NodeHeap` is the memory of the nodes: what `malloc` hands out is numbered, and no
address is used twice.

`GenericList` makes any sequence of calls on lists that are `Intact`; a call that
leaves a list in pieces is made, and the list not used any more.  What is promised,
and up to where, is in `CallsKeepPromises`: `listRetriveTail` is safe with more than
two entries, `listPop` with one, `listAssignment` into an empty list.  What `listPop`
returns is `Overwritten`: `listNodeDelete` takes the element for a node and writes its
`prev`.  Elements are taken to be as long as a node, and not constant.  An address
that no entry has is `WILD`; `EmptyListUsed` is the access through the node of an
entry that is not there, after which the program is gone.

`SequenceItems` is `yy_syn.def.c` on two sequences, next to the one that bison
computes in `yyval` (`YYVAL`): SEQ_ITEM chains a new item behind the value of the
production, SEQUENCE takes over what is behind that value, and the next reduction
overwrites it (`Reduce`).  `seqConst` leaves the identifier null, and `SetIdentifier` is
the assignment of its caller, which may come late or never.  `undefined` ends a
behaviour in which the code used memory it had released, or gave null to `strdup`.

### CommandLine

What `main` learns from its arguments.  A state is a position in one of three
walks: `argumentChecking` (`phase` is `check`), `argumentSplit` (`split`),
`optionProcessing` (`process`).  Each has its own idea of how far an option reaches,
and the second and the third take the attributes of a word without asking whether
it has any: `NeverCrashes` says that they see the same options.  `AcceptsValid`
compares what is accepted, and `ParsedAsWritten` what `main` reads, with a reference
parse of the line (`IsOption`).  The pieces end with the string T, so that what
stands behind a value T is not seen; the promise is made up to there.
`optionProcessing` returns nothing, and what `optionsInit` makes of that is
nondeterministic.  `PathString`, the words that match the pattern of a path, is a
constant; `pathArgumentCheck` accepts any of them, an option included.

## Runs

| Run | Expected | Question |
|---|---|---|
| `module_switch` | pass | everything `ModuleSwitch` promises, over 316 file systems |
| `parse_error` | violation | does a parse error stop the program?  It does not |
| `symbol_stage` | pass | are nodes and symbols made of one definition, and all of them there? |
| `new_node_exists` | violation | the assertion of `mibObjGen` |
| `mib_forest` | pass | is every node kept and linked, every OID complete, and does END end? |
| `ring_queue` | pass | is the ring a bounded queue? |
| `document` | pass | is every node shown once, in order, in the right section and table? |
| `hash_map` | pass | does the hash map behave as a map while its buckets have heads? |
| `import_list` | pass | is no symbol of an IMPORTS used after it was freed, freed twice, or lost before it is found? |
| `command_line` | pass | do the three walks agree, and does `main` read what was written? |
| `generic_list` | pass | which calls keep a list whole, and do lists share entries? |
| `sequence_items` | pass | which calls keep a sequence's columns and length, and is a copy its own? |

Deadlock is checked in `mib_forest`, where only an ended phase may stutter, and in
`ring_queue`; in the others the program ends.

Bounds.  `module_switch`: a main MIB with up to two clauses and two further MIBs
that import each other, themselves, the main MIB, an alias or an absent file, with
at most six files open.  This has every shape of nesting (a diamond, a cycle, a
repeat, a failure below a suspended clause) and both orders of "type used" and
"type defined"; longer chains repeat them.  The other file systems put a conflict,
a syntax error or a second IMPORTS in each place.  `ImportCap` is 20 as in the
code and no IMPORTS has as many clauses: the 21st would be lost (hazard at
`yy_syn.y:178`).  `symbol_stage`: three definitions of two names suffice for "left
by one, survived by the next, picked up by the third", in either mode, with one
import open at a time; what the mode does does not depend on the depth.
`mib_forest`: three definitions, in any order, below each other, below the symbols
of a fork, a line or an OID chain, or below an unknown name; three trees are the
least for which a scan must be repeated, a mark of an earlier search be met, or a
tree be found whose root was replaced.  `OidCap` is 5, so that the longest of these
OIDs, of six suffixes, does not fit and all others do.  `ring_queue`: a ring of four places, which
wraps around with any number of rows in it.  `document`: all trees of up to six
nodes, which hold a table with two columns next to a scalar, and more rows than the
queue, of three rows, can take; and the trees of sections of up to four nodes with
suffixes of one or two digits.  `hash_map`: three keys of one bucket and one of
another, so the first, a middle and the last node of a chain can be deleted.
`import_list`: four symbols in two buckets, so that a chain has up to three nodes
and the loop of `hashChainRelease` passes one over; up to three clauses and a stack
of two, so that one does not fit.  `command_line`: all lines of up to five words of
seven, which hold an option of each kind with all its values twice, a value that is
an option or T, and a missing one.  `generic_list`: four entries in all, two lists
and an iterator; two entries are what the wrong calls need, three what the right
ones need to show an order, and a copy doubles two.  `sequence_items`: four items
of two columns in two sequences; three items are the least that `seqItemsDestruct`
goes wrong with, and two equal columns tell which one is deleted.

Fairness.  `ModuleSwitch`, `MibForest` and `DocumentGen` have weak fairness of
`Next`: a sequential program that can take a step takes one.  Nothing waits for
input or for another process.  `MibForest` spells ENABLED out, as the comment
there says; that `Next` has a successor in every other state is the deadlock check
of its run.  The other modules have no fairness and claim no liveness.

## Proofs

`ModuleSwitchProofs` proves, for every file system, alias table and capacity
that satisfies the named assumptions, `TypeOK`, `StateFollowsFile` (mode, import list
and line number), `SuspendedBuffersLive` and `DocumentIsMainText`.

None of the last three is inductive.  `switchToPrevModule` sets the mode from the
purpose of the frame it pops, so the frames must be right while they lie on the
stack: `FramesOwnFiles` says that a frame is the main MIB's exactly if its buffer
is the first, and that its import list is that of its buffer; `StackBelowBuffers`
bounds the stack by the number of buffers, so that with `StackFits` no push is
dropped.  `IInv` is the conjunction of all.  The proof goes by groups of actions
that touch the same variables: a step that reads a line (`ReadStep`, from
`ReadFacts`), one that stops (`StopStep`), one that opens a file (`ImportStep`),
one that returns (`ResumeStep`).

On top of `IInv` the module proves that files are read in the order of their
imports: `ImportsResolved`, the refinement `RespectsImports` and `TypeErrorsTrue`.
`OrderInv` follows a clause from the line that names it to the file it opens: while
a file is parsed the clauses that wait are the lines read last (`ClausesQueued`); a
clause that was read waits there or stands above a `;` (`ClausesClosed`), and then
it has opened a file *after* its own or is still to be served by the loop
(`ClausesServed`).  Files nest (`FilesNest`), so what was opened after the file being
read was read to its end, and all it defines was collected or entered
(`AllCollected`, `TypesEntered`).  `UnknownAreOwn` says that a type that waits for
the second pass was used in the file being read; the files opened since contain all
it imports, and that is why an unknown type is an error of this file.
Two predicates on the files are hypotheses of these theorems, and the code needs them.
`ClausesFit`: no more clauses in a row than `importInfoStack` holds, since `push`
drops the others and nobody looks.  `ImportsFirst` (for the soundness of the type
check only): the grammar takes an IMPORTS anywhere, and one below a use of a type
would have the second pass of the imported file refuse that type before the file
that uses it is read on.  `TypesAreKnown`, that the type check is complete, needs
neither.

`SymbolStageProofs` proves, for any number of names, definitions and nested
imports, `TypeOK`, `SlicesClean`, `PartsTogether`, `NothingLost` and `SymbolsStay`.
The first three are inductive only together, and with `StaleType`:
`SlicesClean` says that nothing is staged between two definitions but the type a
textual convention left in the slice of its mode; a node that takes that type must
be shown to take it from the last such convention, with no node built between,
which is what `StaleType` records.  Each production has a lemma for what it does to
the slices, and one for the node or the symbol it makes.  `NothingLost` is then
inductive next to them: a step keeps the trees and the symbols there are, and puts
the definition it ends in its place (`Placed`), or leaves the definitions alone.

`ContainerProofs` proves what the ring, the generic list and the sequences promise.
The ring first, for every size: `RingTrue` (types, a row in
every place from `head` to `tail`, and a true count), which is inductive, and from
it the refinement `IsFifo`.  `PlaceFacts`
says where `Qnext` leads in terms of the distance from `head`; `AppendStep` and
`GetStep` say what a call does to that distance and to the i-th place, and
`ContentFacts` that the content is a sequence of rows, which turns them into
`Append` and `Tail`.

For the list and the sequences the same module first says what `NodeChain` computes.
`Chain` follows pointers recursively; that it has a value is induction on the length
of the way, done with sets (`WayExists`, by `Grows`), and it is a *row* (`IsRow`): a
sequence of different nodes, each of which names the next, and all but the first the
one before (`RowIsChain`, `ChainIsRow`; no walk without repetition is longer than the
heap has nodes).  The operations then are operations on sequences: `RowsJoin` says that
`listNodeAppend` concatenates two rows that have nothing in common, `RowCut` that
`listNodeDelete` removes one element, `RowStays` that a row does not change while its
links do not, `RowsApart` that rows with different beginnings are disjoint, and
`FieldsJoin` and `FieldsCut` what becomes of the values.

`TypeOK`, `Apart` and `CallsKeepPromises` of `GenericList` are proved for any number of
lists, of entries and of calls.  `Apart` is not inductive: two lists may begin at the same
entry, and it must be shown that neither will be whole again.  `ListInv` says that such
an entry is gone for good, freed or with a `next` into memory no entry has
(`SharedAt`); no call ever brings a node back (`KeepsGone`).  Each call has a lemma
(`AppendCall` to `SinkCall`) that gives both the invariant and what the call promises.

`ItemTypeOK`, `ChainsAreOwn` and `ItemsKeepPromises` of `SequenceItems` are proved for any
number of sequences and items.  `ChainsAreOwn` is not inductive: it does not know the item
of a SEQ_ITEM, which SEQUENCE puts behind a head of its own, and which must not be in a
chain already.  `ItemInv` says where that item is (`Waits`): its `prev` names the value of
the production, which is not a sequence while the item waits, and so it is in no row
(`NotWaiting`).  Of each sequence it says that a row begins at its head, whose `prev` is
null, so that the rows of two sequences are disjoint (`ItemRowsApart`).  `OneRowChanges`
carries the invariant over a step that touches one row, `OneRowMore` over one that makes
a sequence; a lemma for each call and production (`ConstStep` to `ReduceStep`) says which
of the two it is.

`HashMapProofs` proves, for every number of buckets, keys and values and every hash
function, `TypeOK`, `KeysOnce` and the refinement `IsMapWithHeads`.  The invariant,
`AllWell`, says of each bucket on its own what `KeysOnce` says of the map: a key has
one pair, and it stands in the bucket of its hash.  There is a lemma for what each
operation on a bucket does to the set of its pairs (`ChainedKeeps`, `FilledKeeps`,
`BeheadedKeeps`, `UnchainedKeeps`); `OneBucket` carries it from the bucket to the
map, since a pair of one bucket is in no other; `MapAdd` and `MapDrop` turn the pairs
into a function.  A step then is a step of `SymbolMap`, unless its key is one that
the statement exempts.

`CommandLineProofs` proves, for every command line and every set of words, all that
the run checks.  First `TypeOK` and `NeverCrashes`.  `argumentChecking` passes a line only if it could walk
from option to option to its end; the walk is remembered (`Walk`, `WalkEnd`).
`argumentSplit` has written the pieces of a part of that walk (`Written`), so that
`optionProcessing`, whose iterator stands before an option, at a value that is
missing, or at a T, never takes the attributes of a word that has none.  The
invariant has one conjunct for each walk (`InCheck`, `InSplit`, `InProcess`).
On top of it `AcceptsValid` and `ParsedAsWritten` are proved, which compare the
passes with a reading of the whole line: `IsOption` decides recursively which words are
options.  That the recursion has a solution, and so says the same of a word and of
the option before it (`OptionsFollow`), needs induction on the line; it is done with
sets (`Grows`, `LeastNat`).  `Sound` says that argumentChecking stands at an option and
that all before it pass; its matrix of conflicts never changes, since it doubles zeros
(`Independent`).  `Parsing` says that the manager describes the words before the
iterator (`Describes`), which is carried from option to option by `DescribesOption`
and `DescribesValue`, and that no value T is among them; where it stops, at a T or at
the end, is where `Seen` cuts the line.

`DocumentGenProofs` proves, for every tree, begin node and size of the ring, `TypeOK`,
`ShownInOrder`, `HeadingsTrue` and `StaysBelow`.  The nodes are numbered in the
order of the travel, so a place of the travel determines which nodes it has met
(`Met`; `MetDown` to `MetUp` follow one step of it), and the invariant says that the
document and the queue hold rows that have been met, in order, and in a tidy tree
all chosen nodes that have been.  Two things make that inductive.  Rows wait only
between two rows of one group (`QueueInv`), so the queue is empty when a section is
written, and the last row of a group gives all of them their caption; `CaptionFacts`
shows that `caption`, which looks two levels up, finds the nearest table or inner node.
And a queue that holds rows of one group has a place for the next, by
counting (`PlaceLeft`): the rows are different chosen rows of a group that fits.
`TravelInv` keeps the travel below the begin node, and says where it is when it
does not come back.
`Leveled`, inductive next to the others, says that a section has the level of its
node; `OidGrows` and `OidCounts`, by the least node that would be a counterexample,
compare the lengths of the OIDs along a branch, and give `SectionsNest`, so that
`HeadingsTrue` is proved for suffixes of any number of digits.

`MibForestProofs` proves, for every order of definitions, every symbol table without
a cycle and every number of trees, `TypeOK`, `NodesInPlace`, `OidsTrue` and
`SimpleTreesBecomeOne`.  The invariant has three parts.  `IsForest` says of the trees as sequences what the code
says with pointers: each has one root and no gaps in its depths (`Shaped`), each node
stands below the one it names (`Linked`), and the ids of all nodes are 1 to `built`,
each in one place.  `Typed` ties the cursor of the merge to the list.  `WallTrue` says
that a mark on a symbol names a node that was built with that symbol above it;
without it `MergeByComplete` could be sent to a symbol that is above neither tree.
Everything rests on what happens when a tree is put into another: `GraftPlaces` and
`GraftParts` say where each node comes to stand, `GraftShaped` and `GraftLinked` that
nothing loses its parent, `MergedForest` that no node is lost or doubled.  `Path`, the
symbols above a name, is recursive over the symbol table; it is defined because no
symbol is its own ancestor, so symbols can be ranked (`PathSolution`).  That names are
finitely many is assumed, as a MIB is a file.  `OidInv` is inductive on top: each node
is a definition or a symbol (`Origin`), before the last phase its OID is its own
suffix, and then that of its parent with its suffix (`OidsBuilt`); `OidsFollow` reads
off the OID from the root down, by the least node where it would be wrong.

`SimpleInv`, inductive next to `IInv`, is what makes simple trees unite, and it differs
by phase.  Until trees are expanded the forest has definitions only (`Raw`), so the
first search for a common symbol starts without marks.  During the merge either all
trees that are left hang below one node, which the big tree has from its first
expansion on and where the others are put (`SameParent`), or one tree is left that was
not tried yet (`TwoLeft`).  The
merge passes a tree by only if there is no common ancestor.  Symbols above a name
differ because they are ranked (`ClimbOnce`), so the search stops at the nearest
symbol that is above both (`NearestIs`), and the symbols up to it are not
above the new root (`NotAbove`).  Hence nothing that is built later is in the tree
already (`Above`), and `OneName` survives both the expansion and the completion.  For
three trees with different parents this fails, as the traces of the merge show, which
is why the property is about simple ones.

`ImportListProofs` proves, for every set of symbols, number of buckets, hash function
and bounds, `TypeOK`, `NothingDangles` and `ListsAreOwn`.  What put and delete do to the
pairs of a map is cited from `HashMapProofs`, as an instance whose values are blocks
(`PutIs`, `TakenOut`); `CollectedIs` goes along the chain of a clause, `CopyIs` and
`DupIs` say that a copy has the pairs of the map with blocks that are new, `ReleaseIs`
that nothing is released that is not in the map.  `NothingDangles` is not inductive: a
release is harmless only if no other list names what it frees.  `Owned` says so of all
the lists at once: the blocks of the chain, of every clause and of every file are
allocated, not freed and disjoint, and within a map each is named once, which a
deleted head needs since the rest of its map lives on.  Each step then either adds a
list of fresh blocks (`ParamOwned`, `ClauseOwned`, `FileOwned`) or takes one away and
frees no more than its blocks (`ClauseForgotten`, `ClausePopped`, `FilePopped`,
`FileChanged`).

Model-checked only: the liveness properties `Terminates` (of `ModuleSwitch` and of
`MibForest`) and `TravelReturns`, which are out of the prover's reach, and that the code
violates what the two other runs ask.  Every other property of a run is a theorem.

## What is not modelled

- Tokenisation, the text of diagnostics, the text of the document, and re.c, a
  vendored matcher.
- The tables of `symbolTbl.c` and `typeTable.c`, which are not in the repository.
- Code that nothing calls: `upperTreeGeneration` (compiled out), `mibObjGen_Leave`,
  `mibObjGen_InnerNode`, `mibObjGen_trap`, `mibTreeHeadMerge_LAST`,
  `mibTreeSearch`, `mibTreeDeleteByName`, the deletion, copy and release of options,
  and the holders of clauses at the end of `yy_syn.def.c`.
- Which name of an OID chain becomes the parent of the symbol (`yy_syn.y:591`):
  `SymbolStage` has the origin of a part, not its text.
- Calls with null pointers, which all operations answer by returning at once.

## Order of the work

1. `ModuleSwitch`, `DependencyOrder` and their proofs; `SymbolStage` and its proofs:
   a wrong mode or a mixed-up part makes every document wrong.
2. `MibForest`, `RingQueue` and `DocumentGen` with their proofs: from the definitions
   to the document.
3. `HashBucket` and `HashMap`, `ImportList`, and `NodeChain`, `NodeHeap`, `GenericList`,
   `SequenceItems` with their proofs: the containers underneath, and who owns what is in
   them.
4. `CommandLine` with its proofs.
5. To do: the composition of `SymbolStage` with `ImportList`.
