---------------------------- MODULE ModuleSwitch ----------------------------
(***************************************************************************)
(* How mib2doc reads a MIB and the MIBs it imports: one bison parser, one  *)
(* flex scanner and a stack of suspended files (dispatcher.c, the IMPORTS  *)
(* and END productions of yy_syn.y, the <<EOF>> rule of yy_lex.l).         *)
(*                                                                         *)
(* A file is a sequence of lines, one significant construct per line, so   *)
(* that "how far has the file been read" and "which line number does an    *)
(* error message print" are the position of a buffer and yylineno.  Line i *)
(* of the sequence stands on line i + 1 of the file: line 1 is its header  *)
(* "<name> DEFINITIONS ::= BEGIN".                                         *)
(***************************************************************************)
EXTENDS Integers, Sequences

CONSTANTS
  Module,     \* module names, as they appear in IMPORTS and in file names
  Type,       \* names of types
  BuiltIn,    \* the types typeTableInit installs
  Main,       \* the MIB given on the command line
  Texts,      \* the possible contents of the file system
  Alias,      \* aliasArray of moduleAlias.c, a function on module names
  ImportCap,  \* units of importInfoStack (20 in syntaxParserInit)
  SwitchCap,  \* units of swStack (128 * sizeof(switchInfo) in switchInit)
  OpenMax,    \* files the process may open: no FILE of an import is closed
  NONE        \* no module, no argument

(***************************************************************************)
(* FROM: a "symbols FROM module" clause, CLASH one whose symbols repeat,   *)
(* SEMI the ";" ending IMPORTS, DEF a definition that is dispatched, USE a *)
(* type named in a SYNTAX, TYPE the definition of a type, BAD a syntax     *)
(* error.                                                                  *)
(***************************************************************************)
Line == [kind : {"FROM"}, arg : Module]
          \cup [kind : {"USE", "TYPE"}, arg : Type]
          \cup [kind : {"CLASH", "SEMI", "DEF", "END", "BAD"}, arg : {NONE}]

ASSUME SwitchAssumption ==
  /\ Main \in Module /\ NONE \notin Module
  /\ BuiltIn \subseteq Type
  /\ ImportCap \in Nat \ {0} /\ SwitchCap \in Nat \ {0} /\ OpenMax \in Nat \ {0}
  /\ DOMAIN Alias \subseteq Module /\ \A m \in DOMAIN Alias : Alias[m] \in Module
  /\ \A t \in Texts : /\ Main \in DOMAIN t /\ DOMAIN t \subseteq Module
                      /\ \A m \in DOMAIN t : t[m] \in Seq(Line)

\* A file pushed on swStack was opened first and files are never closed, so the
\* descriptors run out (about a thousand) before the 5120 units of swStack do.
ASSUME StackFits == OpenMax <= SwitchCap

\* Every file ends with END.  bison reduces the last definition of a file when it
\* has seen the token behind it; without an END that would be a token of the
\* next file, and the definition would be dispatched in the next file's mode.
ASSUME FilesEnd ==
  \A t \in Texts : \A m \in DOMAIN t : t[m] # <<>> /\ t[m][Len(t[m])].kind = "END"

\* Nothing but clauses stands between an IMPORTS and its ";": anything else there
\* is a syntax error (IMPORT and MODULES of the grammar).
ASSUME ImportsClosed ==
  \A t \in Texts : \A m \in DOMAIN t : \A i \in 1..(Len(t[m]) - 1) :
    t[m][i].kind = "FROM" => t[m][i + 1].kind \in {"FROM", "CLASH", "SEMI", "BAD"}

VARIABLES
  text,             \* the files on disk; never changes
  phase,            \* "parse" in yyparse, "import" in importWorks, or the end
  buffers,          \* the flex buffers created so far, in order
  flex,             \* YY_CURRENT_BUFFER, an index into buffers
  yylineno,         \* the line flex is at, one counter for all buffers
  mode,             \* swState.state
  cur,              \* swState.currentSwitchInfo
  swStack,          \* swState.swStack
  importInfoStack,  \* the FROM clauses of the current IMPORTS
  typeTbl,          \* mibTypeTbl: the types known so far
  pendingTypes,     \* types that were not known when used
  generated,        \* <<buffer, line>> of what reached the MIB trees
  collected         \* <<module, line>> of what reached symbolCollecting

vars == <<text, phase, buffers, flex, yylineno, mode, cur, swStack,
          importInfoStack, typeTbl, pendingTypes, generated, collected>>

moduleAliasTrans(m) == IF m \in DOMAIN Alias THEN Alias[m] ELSE m

\* push drops a unit that does not fit, and no caller looks at its result.
push(stack, unit, cap) == IF Len(stack) < cap THEN Append(stack, unit) ELSE stack
Top(stack)  == stack[Len(stack)]
pop(stack)  == SubSeq(stack, 1, Len(stack) - 1)

\* Slip: SW_STATE_REFRESH is forgotten and the mode stays what it was.
ModeOf_NoRefresh(purpose) == mode

\* SW_STATE_REFRESH: the mode a file is dispatched in follows its purpose.
ModeOf(purpose) == IF purpose = "INC" THEN "SYMBOL_COLLECTING" ELSE "DOC_GENERATING"

Init ==
  /\ text \in Texts
  /\ phase = "parse"
  /\ buffers = <<[mod |-> Main, pos |-> 0, live |-> TRUE]>>
  /\ flex = 1
  /\ yylineno = 1
  /\ mode = "DOC_GENERATING"
  /\ cur = [fileName |-> Main, lineNo |-> 1, purpose |-> "GEN",
            importInfo |-> NONE, bufferInfo |-> 0]
  /\ swStack = <<>>
  /\ importInfoStack = <<>>
  /\ typeTbl = BuiltIn
  /\ pendingTypes = {}
  /\ generated = {}
  /\ collected = {}

-----------------------------------------------------------------------------
(***************************************************************************)
(* Reading a line of the current buffer.                                   *)
(***************************************************************************)
TextOf(b)  == text[buffers[b].mod]
AtEof      == buffers[flex].pos = Len(TextOf(flex))
NextLine   == TextOf(flex)[buffers[flex].pos + 1]

Read(kind) ==
  /\ phase = "parse" /\ ~AtEof /\ NextLine.kind = kind
  /\ buffers' = [buffers EXCEPT ![flex].pos = @ + 1]
  /\ yylineno' = yylineno + 1
  /\ UNCHANGED <<text, flex, cur, swStack, mode>>

\* MODULES_CONTENT: the clause is queued until the ";" of IMPORTS.
From ==
  /\ Read("FROM")
  /\ importInfoStack' = push(importInfoStack, moduleAliasTrans(NextLine.arg), ImportCap)
  /\ UNCHANGED <<phase, typeTbl, pendingTypes, generated, collected>>

\* MODULES_CONTENT: collectInfo_add refuses a repeated symbol; exit(1).
Clash ==
  /\ Read("CLASH")
  /\ phase' = "clash"
  /\ UNCHANGED <<importInfoStack, typeTbl, pendingTypes, generated, collected>>

\* IMPORT calls importWorks, a loop over importInfoStack.
Import ==
  /\ Read("SEMI")
  /\ phase' = IF importInfoStack = <<>> THEN "parse" ELSE "import"
  /\ UNCHANGED <<importInfoStack, typeTbl, pendingTypes, generated, collected>>

Openable(m) == m \in DOMAIN text /\ Len(buffers) < OpenMax

\* switchToModule: suspend the current file, read the new one from its start.
switchToModule(m) ==
  /\ swStack' = push(swStack, [cur EXCEPT !.bufferInfo = flex, !.lineNo = yylineno],
                     SwitchCap)
  /\ buffers' = Append(buffers, [mod |-> m, pos |-> 0, live |-> TRUE])
  /\ flex' = Len(buffers) + 1
  /\ yylineno' = 1

\* Slips: the loop of importWorks runs once; it runs once too often.
LastClause_Once    == TRUE
LastClause_TooLate == Len(importInfoStack) = 0

\* The loop of importWorks ends when the stack of clauses is empty.
LastClause == Len(importInfoStack) = 1

\* One turn of the loop of importWorks: the clause pushed last is served first.
importWorks ==
  /\ phase = "import"
  /\ LET m == Top(importInfoStack) IN
       /\ Openable(m)
       /\ switchToModule(m)
       /\ cur' = [fileName |-> m, lineNo |-> 1, purpose |-> "INC",
                  importInfo |-> m, bufferInfo |-> Len(buffers) + 1]
  /\ mode' = "SYMBOL_COLLECTING"
  /\ importInfoStack' = pop(importInfoStack)
  /\ phase' = IF LastClause THEN "parse" ELSE "import"
  /\ UNCHANGED <<text, typeTbl, pendingTypes, generated, collected>>

\* lexBufferSwitching: fopen fails; exit(1).
CannotOpen ==
  /\ phase = "import" /\ ~Openable(Top(importInfoStack))
  /\ phase' = "noFile"
  /\ UNCHANGED <<text, buffers, flex, yylineno, mode, cur, swStack,
                 importInfoStack, typeTbl, pendingTypes, generated, collected>>

-----------------------------------------------------------------------------
(***************************************************************************)
(* Definitions, types and the end of a file.                               *)
(***************************************************************************)
Here    == <<flex, buffers[flex].pos + 1>>
HereMod == <<buffers[flex].mod, buffers[flex].pos + 1>>

\* dispatch through dispatchMakeChoice: the mode decides who gets it.
Define ==
  /\ Read("DEF")
  /\ IF mode = "DOC_GENERATING"
     THEN generated' = generated \cup {Here} /\ UNCHANGED collected
     ELSE collected' = collected \cup {HereMod} /\ UNCHANGED generated
  /\ UNCHANGED <<phase, importInfoStack, typeTbl, pendingTypes>>

\* END: the trees are merged and completed, but only in the document mode.
End ==
  /\ Read("END")
  /\ generated' = IF mode = "DOC_GENERATING" THEN generated \cup {Here} ELSE generated
  /\ UNCHANGED <<phase, importInfoStack, typeTbl, pendingTypes, collected>>

\* TYPE: a name that is not a known type waits for the second pass.
UseType ==
  /\ Read("USE")
  /\ pendingTypes' = IF NextLine.arg \in typeTbl THEN pendingTypes
                     ELSE pendingTypes \cup {NextLine.arg}
  /\ UNCHANGED <<phase, importInfoStack, typeTbl, generated, collected>>

\* TC_DEFINED, TYPE_DEFINED and SEQUENCE add to the type table.
DefineType ==
  /\ Read("TYPE")
  /\ typeTbl' = typeTbl \cup {NextLine.arg}
  /\ UNCHANGED <<phase, importInfoStack, pendingTypes, generated, collected>>

\* yyparse returns 1, which main takes for success: the document is written.
SyntaxError ==
  /\ Read("BAD")
  /\ phase' = "documented"
  /\ UNCHANGED <<importInfoStack, typeTbl, pendingTypes, generated, collected>>

\* Slip: the frame is popped before its predecessor's buffer is deleted.
switchToPrevModule_PopFirst ==
  /\ buffers' = [buffers EXCEPT ![Top(swStack).bufferInfo].live = FALSE]
  /\ cur' = Top(swStack)
  /\ swStack' = pop(swStack)
  /\ flex' = Top(swStack).bufferInfo
  /\ yylineno' = Top(swStack).lineNo
  /\ mode' = ModeOf(Top(swStack).purpose)

\* Slip: yylineno keeps counting from the imported file.
switchToPrevModule_KeepLine ==
  /\ buffers' = [buffers EXCEPT ![cur.bufferInfo].live = FALSE]
  /\ cur' = Top(swStack)
  /\ swStack' = pop(swStack)
  /\ flex' = Top(swStack).bufferInfo
  /\ yylineno' = yylineno
  /\ mode' = ModeOf(Top(swStack).purpose)

\* switchToPrevModule: release the file read and resume the suspended one.
switchToPrevModule ==
  /\ buffers' = [buffers EXCEPT ![cur.bufferInfo].live = FALSE]
  /\ cur' = Top(swStack)
  /\ swStack' = pop(swStack)
  /\ flex' = Top(swStack).bufferInfo
  /\ yylineno' = Top(swStack).lineNo
  /\ mode' = ModeOf(Top(swStack).purpose)

\* Slip: no second pass.
SecondPass_None == TRUE

\* The second pass: every type that was unknown when used is known by now.
SecondPass == pendingTypes \subseteq typeTbl

\* <<EOF>>, with a suspended file to go back to.
EofOfImport ==
  /\ phase = "parse" /\ AtEof /\ SecondPass
  /\ swStack # <<>>
  /\ switchToPrevModule
  /\ UNCHANGED <<text, phase, importInfoStack, typeTbl, pendingTypes,
                 generated, collected>>

\* Slip: the end of the main MIB is not reported to yyparse.
EofOfMain_NoTerminate ==
  /\ phase = "parse" /\ AtEof /\ SecondPass
  /\ swStack = <<>>
  /\ UNCHANGED vars

\* <<EOF>>, with none: yyterminate, and main goes on to documentGen.
EofOfMain ==
  /\ phase = "parse" /\ AtEof /\ SecondPass
  /\ swStack = <<>>
  /\ phase' = "documented"
  /\ UNCHANGED <<text, buffers, flex, yylineno, mode, cur, swStack,
                 importInfoStack, typeTbl, pendingTypes, generated, collected>>

\* <<EOF>>, the second pass over the types fails; exit(1).
EofBadType ==
  /\ phase = "parse" /\ AtEof /\ ~SecondPass
  /\ phase' = "badType"
  /\ UNCHANGED <<text, buffers, flex, yylineno, mode, cur, swStack,
                 importInfoStack, typeTbl, pendingTypes, generated, collected>>

Next == \/ From \/ Clash \/ Import \/ importWorks \/ CannotOpen
        \/ Define \/ End \/ UseType \/ DefineType \/ SyntaxError
        \/ EofOfImport \/ EofOfMain \/ EofBadType

\* A sequential program: while it can take a step, it takes one.
Spec == Init /\ [][Next]_vars /\ WF_vars(Next)
-----------------------------------------------------------------------------
(***************************************************************************)
(* Properties.                                                             *)
(***************************************************************************)
SwitchInfo == [fileName : Module, lineNo : Nat, purpose : {"INC", "GEN"},
               importInfo : Module \cup {NONE}, bufferInfo : Nat]
Buffer == [mod : DOMAIN text, pos : Nat, live : BOOLEAN]

\* Every variable has its type; cur and the frames of swStack are switchInfos.
TypeOK ==
  /\ text \in Texts
  /\ phase \in {"parse", "import", "documented", "clash", "noFile", "badType"}
  /\ buffers \in Seq(Buffer)
  /\ \A b \in DOMAIN buffers : buffers[b].pos <= Len(TextOf(b))
  /\ flex \in DOMAIN buffers
  /\ yylineno \in Nat
  /\ mode \in {"SYMBOL_COLLECTING", "DOC_GENERATING"}
  /\ cur \in SwitchInfo
  /\ swStack \in Seq(SwitchInfo)
  /\ importInfoStack \in Seq(Module)
  /\ phase = "import" => importInfoStack # <<>>
  /\ typeTbl \subseteq Type /\ pendingTypes \subseteq Type
  /\ generated \subseteq Nat \X Nat
  /\ collected \subseteq Module \X Nat

ModeFollowsFile ==
  /\ mode = "DOC_GENERATING" <=> flex = 1
  /\ cur.purpose = "GEN" <=> flex = 1
  /\ flex # 1 => /\ cur.bufferInfo = flex
                 /\ cur.importInfo = buffers[flex].mod

\* No buffer is read, or waits to be resumed, after yy_delete_buffer released it,
\* and no two suspended files share one: the files nest, the main MIB outermost.
SuspendedBuffersLive ==
  /\ buffers[flex].live
  /\ swStack = <<>> <=> flex = 1
  /\ swStack # <<>> => swStack[1].bufferInfo = 1
  /\ \A i \in DOMAIN swStack :
       LET b == swStack[i].bufferInfo IN
         b \in DOMAIN buffers /\ buffers[b].live /\ b < flex
  /\ \A i, j \in DOMAIN swStack :
       i < j => swStack[i].bufferInfo < swStack[j].bufferInfo

LineNumbersTrue ==
  /\ yylineno = buffers[flex].pos + 1
  /\ \A i \in DOMAIN swStack :
       swStack[i].lineNo = buffers[swStack[i].bufferInfo].pos + 1

\* The parser generates the document from the main MIB and collects symbols
\* from every other file, against the import list of the very file it reads:
\* after any nesting of switchToModule, importWorks and switchToPrevModule the
\* mode, the purpose, the import list, the flex buffer and the line number that a
\* diagnostic prints still belong to one file.
StateFollowsFile == ModeFollowsFile /\ LineNumbersTrue

\* What has reached the MIB trees is exactly what the main MIB has defined so
\* far: nothing of an imported file, and nothing of the main MIB is missing.
DocumentIsMainText ==
  generated = {<<1, i>> : i \in {j \in 1..buffers[1].pos :
                                   text[Main][j].kind \in {"DEF", "END"}}}

\* When a line below an IMPORTS is read, every definition of every module that
\* IMPORTS names has been through symbolCollecting.
ImportsResolved ==
  phase = "parse" =>
    \A i, k \in 1..buffers[flex].pos :
      i < k /\ TextOf(flex)[i].kind = "FROM" /\ TextOf(flex)[k].kind = "SEMI" =>
        LET m == moduleAliasTrans(TextOf(flex)[i].arg) IN
          \A j \in DOMAIN text[m] : text[m][j].kind = "DEF" => <<m, j>> \in collected

\* importInfoStack drops the clauses that it has no room for, and nobody notices: no
\* file has more clauses in a row than fit.
ClausesFit ==
  \A m \in DOMAIN text : \A i \in 1..(Len(text[m]) - ImportCap) :
    \E k \in i..(i + ImportCap) : text[m][k].kind # "FROM"

\* The IMPORTS of every file stand above its first use of a type, as SMI has it;
\* the grammar takes them anywhere.
ImportsFirst ==
  \A m \in DOMAIN text : \A i, k \in DOMAIN text[m] :
    text[m][i].kind = "USE" /\ text[m][k].kind = "SEMI" => k < i

ParsedAll == /\ phase = "documented" /\ AtEof
             /\ \A i \in 1..buffers[flex].pos : TextOf(flex)[i].kind # "BAD"

UsedTypesKnown ==
  ParsedAll => \A b \in DOMAIN buffers : \A i \in 1..buffers[b].pos :
                 TextOf(b)[i].kind = "USE" => TextOf(b)[i].arg \in typeTbl

Named(m, kind) == {text[m][i].arg : i \in {j \in DOMAIN text[m] : text[m][j].kind = kind}}
ImportsOf(m)   == {moduleAliasTrans(x) : x \in Named(m, "FROM")}

\* The files a file depends on: the least set closed under imports.
Visible(m) == {x \in DOMAIN text :
                 \A S \in SUBSET DOMAIN text :
                   m \in S /\ (\A y \in S : ImportsOf(y) \subseteq S) => x \in S}

NoSpuriousTypeError ==
  phase = "badType" =>
    \E t \in Named(buffers[flex].mod, "USE") \ BuiltIn :
      \A m \in Visible(buffers[flex].mod) : t \notin Named(m, "TYPE")

\* Two-pass type checking is complete: when all was parsed, every type that any
\* file used is in the type table.  And it is sound: "Unknow type" stops the program
\* only when the file at its end uses a type that neither it, nor any file it
\* imports, directly or not, defines.
TypeErrorsTrue == UsedTypesKnown /\ NoSpuriousTypeError

\* Every run ends, whatever the files import: a cycle of imports ends when no
\* further file can be opened.
Terminates == <>(phase \notin {"parse", "import"})

\* main.c takes a parse failure for a reason to stop: a document is written only
\* if the main MIB was read to its end.
ParseErrorStops == phase = "documented" => flex = 1 /\ AtEof

Order == INSTANCE DependencyOrder WITH
  needs     <- [m \in DOMAIN text |-> ImportsOf(m)],
  needsAt   <- [i \in DOMAIN text[Main] |->
                  {moduleAliasTrans(text[Main][j].arg) :
                     j \in {k \in 1..i : text[Main][k].kind = "FROM"}}],
  finished  <- {buffers[b].mod : b \in {c \in DOMAIN buffers : ~buffers[c].live}},
  published <- {d[2] : d \in generated}

\* The files are read in an order that respects their imports.
RespectsImports == Order!Spec
=============================================================================
