------------------------- MODULE ModuleSwitchProofs -------------------------
(***************************************************************************)
(* For every set of modules, every content of the files and every          *)
(* capacity: the parser's mode, buffer, line number and import list stay   *)
(* together across any nesting of imports, and the document is made of the *)
(* main MIB only.  Where the clauses of an IMPORTS fit into                *)
(* importInfoStack the files are read in the order of their imports: the   *)
(* parser implements DependencyOrder.                                      *)
(***************************************************************************)
EXTENDS ModuleSwitch, SequenceTheorems, TLAPS

\* What the frames of swStack remember besides their buffers: the purpose each
\* file is read for and its import list.  switchToPrevModule restores both.
FramesOwnFiles ==
  /\ \A i \in DOMAIN swStack :
       /\ swStack[i].purpose = "GEN" <=> swStack[i].bufferInfo = 1
       /\ swStack[i].bufferInfo # 1 =>
            swStack[i].importInfo = buffers[swStack[i].bufferInfo].mod

\* A file is opened before it is suspended, so the stack is shorter than buffers.
StackBelowBuffers == Len(swStack) < Len(buffers) /\ buffers[1].mod = Main

IInv == /\ TypeOK /\ ModeFollowsFile /\ SuspendedBuffersLive /\ LineNumbersTrue
        /\ DocumentIsMainText /\ FramesOwnFiles /\ StackBelowBuffers

-----------------------------------------------------------------------------
\* pop and Top of a stack that is not empty.
LEMMA PopFacts ==
  ASSUME NEW S, NEW s \in Seq(S), s # <<>>
  PROVE  /\ Top(s) \in S /\ pop(s) \in Seq(S)
         /\ Len(pop(s)) = Len(s) - 1 /\ Len(s) \in Nat \ {0}
         /\ \A i \in 1..Len(s) - 1 : pop(s)[i] = s[i]
  <1>1. Len(s) \in Nat \ {0}
    BY EmptySeq
  <1>2. s[Len(s)] \in S
    BY <1>1, ElementOfSeq
  <1>3. /\ SubSeq(s, 1, Len(s) - 1) \in Seq(S)
        /\ Len(SubSeq(s, 1, Len(s) - 1)) = Len(s) - 1
        /\ \A i \in 1..Len(s) - 1 : SubSeq(s, 1, Len(s) - 1)[i] = s[i]
    <2>1. \A i \in 1..(Len(s) - 1) : s[i] \in S
      BY <1>1, ElementOfSeq
    <2>2. 1 \in Int /\ Len(s) - 1 \in Int
      BY <1>1
    <2>3. /\ SubSeq(s, 1, Len(s) - 1) \in Seq(S)
          /\ Len(SubSeq(s, 1, Len(s) - 1))
               = IF 1 <= Len(s) - 1 THEN (Len(s) - 1) - 1 + 1 ELSE 0
          /\ \A i \in 1..((Len(s) - 1) - 1 + 1) :
               SubSeq(s, 1, Len(s) - 1)[i] = s[1 + i - 1]
      BY <2>1, <2>2, SubSeqProperties
    <2>4. \A i \in 1..Len(s) - 1 : i \in 1..((Len(s) - 1) - 1 + 1) /\ 1 + i - 1 = i
      BY <1>1
    <2> DEFINE front == SubSeq(s, 1, Len(s) - 1)
               n == Len(s)
    <2>5. Len(front) = n - 1
      <3>1. n \in Nat \ {0} /\ Len(front) = IF 1 <= n - 1 THEN (n - 1) - 1 + 1 ELSE 0
        BY <1>1, <2>3
      <3>2. QED
        <4> HIDE DEF front, n
        <4> QED BY <3>1
    <2>6. \A i \in 1..Len(s) - 1 : front[i] = s[i]
      <3> HIDE DEF front
      <3>1. TAKE i \in 1..Len(s) - 1
      <3>2. front[i] = s[1 + i - 1]
        BY <2>3, <2>4 DEF front
      <3>3. QED
        BY <2>4, <3>2
    <2>7. QED
      BY <2>3, <2>5, <2>6
  <1>4. QED
    BY <1>1, <1>2, <1>3 DEF Top, pop

\* push keeps the units below and adds the new one when there is room.
LEMMA PushFacts ==
  ASSUME NEW S, NEW s \in Seq(S), NEW u \in S, NEW cap \in Nat
  PROVE  /\ push(s, u, cap) \in Seq(S)
         /\ Len(s) < cap => push(s, u, cap) = Append(s, u)
  BY AppendProperties DEF push

\* The current buffer and the file it reads.
LEMMA Current ==
  ASSUME TypeOK
  PROVE  /\ Len(buffers) \in Nat /\ DOMAIN buffers = 1..Len(buffers)
         /\ flex \in 1..Len(buffers) /\ flex \in Nat
         /\ \A b \in 1..Len(buffers) :
              /\ buffers[b] \in Buffer
              /\ buffers[b].mod \in DOMAIN text /\ buffers[b].mod \in Module
              /\ buffers[b].pos \in Nat /\ buffers[b].live \in BOOLEAN
              /\ TextOf(b) \in Seq(Line)
         /\ Main \in DOMAIN text
  <1>1. buffers \in Seq(Buffer) /\ flex \in DOMAIN buffers /\ text \in Texts
    BY DEF TypeOK
  <1>2. Len(buffers) \in Nat /\ DOMAIN buffers = 1..Len(buffers)
    BY <1>1, LenProperties
  <1>3. \A b \in 1..Len(buffers) : buffers[b] \in Buffer
    BY <1>1, ElementOfSeq
  <1>4. \A b \in 1..Len(buffers) : /\ buffers[b].mod \in DOMAIN text
                                   /\ buffers[b].pos \in Nat
                                   /\ buffers[b].live \in BOOLEAN
    BY <1>3 DEF Buffer
  <1>5. /\ DOMAIN text \subseteq Module /\ Main \in DOMAIN text
        /\ \A m \in DOMAIN text : text[m] \in Seq(Line)
    BY <1>1, SwitchAssumption
  <1>6. QED
    BY <1>1, <1>2, <1>3, <1>4, <1>5 DEF TextOf

\* Reading a line moves one buffer by one line, inside its file.
LEMMA ReadFacts ==
  ASSUME TypeOK, NEW kind, Read(kind)
  PROVE  /\ text' = text /\ flex' = flex /\ cur' = cur /\ swStack' = swStack
         /\ mode' = mode /\ yylineno' = yylineno + 1 /\ phase = "parse"
         /\ buffers' \in Seq(Buffer) /\ Len(buffers') = Len(buffers)
         /\ \A b \in 1..Len(buffers) : /\ buffers'[b].mod = buffers[b].mod
                                       /\ buffers'[b].live = buffers[b].live
                                       /\ b # flex => buffers'[b].pos = buffers[b].pos
                                       /\ buffers'[b].pos <= Len(TextOf(b))
         /\ buffers'[flex].pos = buffers[flex].pos + 1
         /\ NextLine \in Line /\ NextLine.kind = kind
  <1>1. /\ text' = text /\ flex' = flex /\ cur' = cur /\ swStack' = swStack
        /\ mode' = mode /\ yylineno' = yylineno + 1 /\ phase = "parse"
        /\ buffers' = [buffers EXCEPT ![flex].pos = @ + 1]
        /\ buffers[flex].pos # Len(TextOf(flex)) /\ NextLine.kind = kind
    BY DEF Read, AtEof
  <1>2. /\ buffers \in Seq(Buffer)
        /\ \A b \in DOMAIN buffers : buffers[b].pos <= Len(TextOf(b))
    BY DEF TypeOK
  <1>3. /\ flex \in 1..Len(buffers) /\ Len(buffers) \in Nat
        /\ DOMAIN buffers = 1..Len(buffers)
        /\ buffers[flex] \in Buffer /\ TextOf(flex) \in Seq(Line)
        /\ \A b \in 1..Len(buffers) : buffers[b].pos \in Nat
    BY Current
  <1>4. Len(TextOf(flex)) \in Nat /\ buffers[flex].pos + 1 \in 1..Len(TextOf(flex))
    BY <1>1, <1>2, <1>3, LenProperties
  <1>5. NextLine \in Line
    BY <1>3, <1>4, ElementOfSeq DEF NextLine
  <1> DEFINE e == [buffers[flex] EXCEPT !.pos = @ + 1]
  <1>6. e \in Buffer /\ e.mod = buffers[flex].mod /\ e.live = buffers[flex].live
        /\ e.pos = buffers[flex].pos + 1
    BY <1>3 DEF Buffer
  <1>7. buffers' = [buffers EXCEPT ![flex] = e]
    BY <1>1
  <1>8. buffers' \in Seq(Buffer) /\ Len(buffers') = Len(buffers)
        /\ \A b \in 1..Len(buffers) : buffers'[b] = IF b = flex THEN e ELSE buffers[b]
    <2> HIDE DEF e
    <2> QED BY <1>2, <1>3, <1>6, <1>7, ExceptSeq
  <1>9. QED
    BY <1>1, <1>2, <1>3, <1>4, <1>5, <1>6, <1>8

-----------------------------------------------------------------------------
(***************************************************************************)
(* The part of the invariant that is about switching files.                *)
(***************************************************************************)
SwitchPart == /\ ModeFollowsFile /\ SuspendedBuffersLive /\ LineNumbersTrue
              /\ FramesOwnFiles /\ StackBelowBuffers

LEMMA InitIInv == Init => IInv
  <1> SUFFICES ASSUME Init PROVE IInv
    OBVIOUS
  <1> USE DEF Init
  <1>1. /\ Len(buffers) = 1 /\ buffers[1] = [mod |-> Main, pos |-> 0, live |-> TRUE]
        /\ DOMAIN buffers = {1} /\ flex = 1 /\ Len(swStack) = 0 /\ DOMAIN swStack = {}
    OBVIOUS
  <1>2. Main \in DOMAIN text /\ text[Main] \in Seq(Line) /\ Len(text[Main]) \in Nat
    BY SwitchAssumption, LenProperties
  <1>3. TypeOK
    <2>1. buffers \in Seq(Buffer)
      BY <1>2 DEF Buffer
    <2>2. cur \in SwitchInfo
      BY SwitchAssumption DEF SwitchInfo
    <2>3. \A b \in DOMAIN buffers : buffers[b].pos <= Len(TextOf(b))
      BY <1>1, <1>2 DEF TextOf
    <2>4. swStack \in Seq(SwitchInfo) /\ importInfoStack \in Seq(Module)
      OBVIOUS
    <2>5. QED
      BY <1>1, <2>1, <2>2, <2>3, <2>4, SwitchAssumption DEF TypeOK
  <1>4. ModeFollowsFile /\ SuspendedBuffersLive /\ LineNumbersTrue
    BY <1>1 DEF ModeFollowsFile, SuspendedBuffersLive, LineNumbersTrue
  <1>5. FramesOwnFiles /\ StackBelowBuffers
    BY <1>1 DEF FramesOwnFiles, StackBelowBuffers
  <1>6. DocumentIsMainText
    BY <1>1 DEF DocumentIsMainText
  <1>7. QED
    BY <1>3, <1>4, <1>5, <1>6 DEF IInv

\* A line that is read leaves the files where they are and moves yylineno along.
LEMMA ReadKeepsSwitch ==
  ASSUME IInv, NEW kind, Read(kind)
  PROVE  SwitchPart'
  <1> USE DEF IInv
  <1>1. /\ flex \in 1..Len(buffers) /\ Len(buffers) \in Nat
        /\ DOMAIN buffers = 1..Len(buffers)
        /\ \A b \in 1..Len(buffers) : buffers[b].pos \in Nat
    BY Current
  <1>2. /\ flex' = flex /\ cur' = cur /\ swStack' = swStack
        /\ mode' = mode /\ yylineno' = yylineno + 1
        /\ buffers' \in Seq(Buffer) /\ Len(buffers') = Len(buffers)
        /\ \A b \in 1..Len(buffers) : /\ buffers'[b].mod = buffers[b].mod
                                      /\ buffers'[b].live = buffers[b].live
                                      /\ b # flex => buffers'[b].pos = buffers[b].pos
        /\ buffers'[flex].pos = buffers[flex].pos + 1
    BY ReadFacts
  <1>3. DOMAIN buffers' = DOMAIN buffers
    BY <1>1, <1>2, LenProperties
  <1>4. ModeFollowsFile'
    BY <1>1, <1>2 DEF ModeFollowsFile
  <1>5. SuspendedBuffersLive'
    BY <1>1, <1>2, <1>3 DEF SuspendedBuffersLive
  <1>6. \A i \in DOMAIN swStack : swStack[i].bufferInfo \in 1..Len(buffers)
    BY <1>1 DEF SuspendedBuffersLive
  <1>7. \A i \in DOMAIN swStack : swStack[i].bufferInfo # flex
    BY <1>1, <1>6 DEF SuspendedBuffersLive
  <1>8. LineNumbersTrue'
    BY <1>1, <1>2, <1>6, <1>7 DEF LineNumbersTrue
  <1>9. FramesOwnFiles'
    BY <1>2, <1>6 DEF FramesOwnFiles
  <1>10. StackBelowBuffers'
    BY <1>1, <1>2 DEF StackBelowBuffers
  <1>11. QED
    BY <1>4, <1>5, <1>8, <1>9, <1>10 DEF SwitchPart

\* After a line is read, the main MIB has defined what it had, and that line too
\* when it is the main MIB's and is a DEF or an END.
LEMMA ReadKeepsDocument ==
  ASSUME IInv, NEW kind, Read(kind),
         generated' = IF kind \in {"DEF", "END"} /\ mode = "DOC_GENERATING"
                      THEN generated \cup {Here} ELSE generated
  PROVE  DocumentIsMainText'
  <1> USE DEF IInv
  <1> DEFINE Doc(n) == {<<1, i>> : i \in {j \in 1..n :
                                       text[Main][j].kind \in {"DEF", "END"}}}
  <1>1. /\ flex \in 1..Len(buffers) /\ Len(buffers) \in Nat
        /\ 1 \in 1..Len(buffers) /\ buffers[1].pos \in Nat
    BY Current
  <1>2. /\ text' = text /\ NextLine.kind = kind
        /\ 1 # flex => buffers'[1].pos = buffers[1].pos
        /\ buffers'[flex].pos = buffers[flex].pos + 1
    BY <1>1, ReadFacts
  <1>3. generated = Doc(buffers[1].pos)
    BY DEF DocumentIsMainText
  <1>4. SUFFICES generated' = Doc(buffers'[1].pos)
    BY <1>2 DEF DocumentIsMainText
  <1>5. mode = "DOC_GENERATING" <=> flex = 1
    BY DEF ModeFollowsFile
  <1>6. CASE flex # 1
    BY <1>2, <1>3, <1>5, <1>6
  <1>7. CASE flex = 1
    <2> DEFINE n == buffers[1].pos
    <2>1. NextLine = text[Main][n + 1]
      BY <1>7 DEF NextLine, TextOf, StackBelowBuffers
    <2>2. n \in Nat /\ 1..(n + 1) = (1..n) \cup {n + 1}
      BY <1>1
    <2>3. Doc(n + 1) = Doc(n) \cup (IF kind \in {"DEF", "END"} THEN {<<1, n + 1>>} ELSE {})
      <3> HIDE DEF n
      <3> QED BY <1>2, <2>1, <2>2
    <2>4. Here = <<1, n + 1>>
      BY <1>7 DEF Here
    <2>5. QED
      BY <1>2, <1>3, <1>5, <1>7, <2>3, <2>4
  <1>8. QED
    BY <1>6, <1>7

\* The types of the variables every Read action leaves to the reading itself.
LEMMA ReadKeepsTypes ==
  ASSUME TypeOK, NEW kind, Read(kind)
  PROVE  /\ text' \in Texts /\ buffers' \in Seq(Buffer') /\ flex' \in DOMAIN buffers'
         /\ \A b \in DOMAIN buffers' : buffers'[b].pos <= Len(TextOf(b)')
         /\ yylineno' \in Nat /\ mode' \in {"SYMBOL_COLLECTING", "DOC_GENERATING"}
         /\ cur' \in SwitchInfo /\ swStack' \in Seq(SwitchInfo)
         /\ Here \in Nat \X Nat /\ HereMod \in Module \X Nat
  <1>1. /\ flex \in 1..Len(buffers) /\ Len(buffers) \in Nat /\ flex \in Nat
        /\ buffers[flex].mod \in Module /\ buffers[flex].pos \in Nat
        /\ buffers \in Seq(Buffer) /\ yylineno \in Nat /\ text \in Texts
        /\ cur \in SwitchInfo /\ swStack \in Seq(SwitchInfo)
        /\ mode \in {"SYMBOL_COLLECTING", "DOC_GENERATING"}
    BY Current DEF TypeOK
  <1>2. /\ text' = text /\ flex' = flex /\ cur' = cur /\ swStack' = swStack
        /\ mode' = mode /\ yylineno' = yylineno + 1
        /\ buffers' \in Seq(Buffer) /\ Len(buffers') = Len(buffers)
        /\ \A b \in 1..Len(buffers) : /\ buffers'[b].mod = buffers[b].mod
                                      /\ buffers'[b].pos <= Len(TextOf(b))
    BY ReadFacts
  <1>3. DOMAIN buffers' = 1..Len(buffers)
    BY <1>2, LenProperties
  <1>4. Buffer' = Buffer /\ \A b \in 1..Len(buffers) : TextOf(b)' = TextOf(b)
    BY <1>2 DEF Buffer, TextOf
  <1>5. Here \in Nat \X Nat /\ HereMod \in Module \X Nat
    BY <1>1 DEF Here, HereMod
  <1>6. QED
    BY <1>1, <1>2, <1>3, <1>4, <1>5

\* Every action that reads a line preserves the invariant.
LEMMA ReadStep ==
  ASSUME IInv,
         From \/ Clash \/ Import \/ Define \/ End \/ UseType \/ DefineType \/ SyntaxError
  PROVE  IInv'
  <1> USE DEF IInv
  <1>1. CASE From
    <2>1. Read("FROM") /\ generated' = generated
      BY <1>1 DEF From
    <2>2. NextLine \in Line /\ NextLine.kind = "FROM"
      BY <2>1, ReadFacts
    <2>3. NextLine.arg \in Module
      BY <2>2 DEF Line
    <2>4. moduleAliasTrans(NextLine.arg) \in Module
      BY <2>3, SwitchAssumption DEF moduleAliasTrans
    <2>5. importInfoStack' \in Seq(Module)
      BY <1>1, <2>4, PushFacts, SwitchAssumption DEF From, TypeOK
    <2>6. phase = "parse" /\ phase' = phase
      BY <1>1, <2>1, ReadFacts DEF From
    <2>7. TypeOK'
      BY <1>1, <2>1, <2>5, <2>6, ReadKeepsTypes DEF TypeOK, From
    <2>8. QED
      BY <2>1, <2>7, ReadKeepsSwitch, ReadKeepsDocument DEF SwitchPart
  <1>2. CASE Clash
    <2>1. Read("CLASH") /\ generated' = generated
      BY <1>2 DEF Clash
    <2>2. TypeOK'
      BY <1>2, <2>1, ReadKeepsTypes DEF TypeOK, Clash
    <2>3. QED
      BY <2>1, <2>2, ReadKeepsSwitch, ReadKeepsDocument DEF SwitchPart
  <1>3. CASE Import
    <2>1. Read("SEMI") /\ generated' = generated
      BY <1>3 DEF Import
    <2>2. TypeOK'
      BY <1>3, <2>1, ReadKeepsTypes DEF TypeOK, Import
    <2>3. QED
      BY <2>1, <2>2, ReadKeepsSwitch, ReadKeepsDocument DEF SwitchPart
  <1>4. CASE Define
    <2>1. Read("DEF")
      BY <1>4 DEF Define
    <2>2. /\ generated' = IF mode = "DOC_GENERATING" THEN generated \cup {Here}
                          ELSE generated
          /\ collected' \in {collected, collected \cup {HereMod}}
      BY <1>4 DEF Define
    <2>3. phase = "parse" /\ phase' = phase
      BY <1>4, <2>1, ReadFacts DEF Define
    <2>4. TypeOK'
      BY <1>4, <2>1, <2>2, <2>3, ReadKeepsTypes DEF TypeOK, Define
    <2>5. QED
      BY <2>1, <2>2, <2>4, ReadKeepsSwitch, ReadKeepsDocument DEF SwitchPart
  <1>5. CASE End
    <2>1. Read("END") /\ generated' = IF mode = "DOC_GENERATING"
                                      THEN generated \cup {Here} ELSE generated
      BY <1>5 DEF End
    <2>2. phase = "parse" /\ phase' = phase
      BY <1>5, <2>1, ReadFacts DEF End
    <2>3. TypeOK'
      BY <1>5, <2>1, <2>2, ReadKeepsTypes DEF TypeOK, End
    <2>4. QED
      BY <2>1, <2>3, ReadKeepsSwitch, ReadKeepsDocument DEF SwitchPart
  <1>6. CASE UseType
    <2>1. Read("USE") /\ generated' = generated
      BY <1>6 DEF UseType
    <2>2. NextLine \in Line /\ NextLine.kind = "USE" /\ phase = "parse" /\ phase' = phase
      BY <1>6, <2>1, ReadFacts DEF UseType
    <2>3. NextLine.arg \in Type
      BY <2>2 DEF Line
    <2>4. TypeOK'
      BY <1>6, <2>1, <2>2, <2>3, ReadKeepsTypes DEF TypeOK, UseType
    <2>5. QED
      BY <2>1, <2>4, ReadKeepsSwitch, ReadKeepsDocument DEF SwitchPart
  <1>7. CASE DefineType
    <2>1. Read("TYPE") /\ generated' = generated
      BY <1>7 DEF DefineType
    <2>2. NextLine \in Line /\ NextLine.kind = "TYPE" /\ phase = "parse" /\ phase' = phase
      BY <1>7, <2>1, ReadFacts DEF DefineType
    <2>3. NextLine.arg \in Type
      BY <2>2 DEF Line
    <2>4. TypeOK'
      BY <1>7, <2>1, <2>2, <2>3, ReadKeepsTypes DEF TypeOK, DefineType
    <2>5. QED
      BY <2>1, <2>4, ReadKeepsSwitch, ReadKeepsDocument DEF SwitchPart
  <1>8. CASE SyntaxError
    <2>1. Read("BAD") /\ generated' = generated
      BY <1>8 DEF SyntaxError
    <2>2. TypeOK'
      BY <1>8, <2>1, ReadKeepsTypes DEF TypeOK, SyntaxError
    <2>3. QED
      BY <2>1, <2>2, ReadKeepsSwitch, ReadKeepsDocument DEF SwitchPart
  <1>9. QED
    BY <1>1, <1>2, <1>3, <1>4, <1>5, <1>6, <1>7, <1>8

-----------------------------------------------------------------------------
\* The program stops: the files stay as they are.
LEMMA StopStep ==
  ASSUME IInv, CannotOpen \/ EofOfMain \/ EofBadType
  PROVE  IInv'
  <1>1. /\ UNCHANGED <<text, buffers, flex, yylineno, mode, cur, swStack,
                       importInfoStack, typeTbl, pendingTypes, generated, collected>>
        /\ phase' \in {"noFile", "documented", "badType"}
    BY DEF CannotOpen, EofOfMain, EofBadType
  <1>2. TypeOK'
    BY <1>1 DEF IInv, TypeOK, Buffer, TextOf
  <1>3. SwitchPart' /\ DocumentIsMainText'
    BY <1>1 DEF IInv, SwitchPart, ModeFollowsFile, SuspendedBuffersLive,
                LineNumbersTrue, FramesOwnFiles, StackBelowBuffers, DocumentIsMainText
  <1>4. QED
    BY <1>2, <1>3 DEF IInv, SwitchPart

\* importWorks opens a file: the frame of the file it suspends fits on the stack.
LEMMA ImportStep ==
  ASSUME IInv, importWorks
  PROVE  IInv'
  <1> USE DEF IInv
  <1> DEFINE m == Top(importInfoStack)
             n == Len(buffers)
             fresh == [mod |-> m, pos |-> 0, live |-> TRUE]
             frame == [cur EXCEPT !.bufferInfo = flex, !.lineNo = yylineno]
             k == Len(swStack)
  <1>1. /\ phase = "import" /\ m \in DOMAIN text /\ n < OpenMax
        /\ swStack' = push(swStack, frame, SwitchCap)
        /\ buffers' = Append(buffers, fresh)
        /\ flex' = n + 1 /\ yylineno' = 1
        /\ cur' = [fileName |-> m, lineNo |-> 1, purpose |-> "INC",
                   importInfo |-> m, bufferInfo |-> n + 1]
        /\ mode' = "SYMBOL_COLLECTING" /\ importInfoStack' = pop(importInfoStack)
        /\ phase' = IF LastClause THEN "parse" ELSE "import"
        /\ UNCHANGED <<text, typeTbl, pendingTypes, generated, collected>>
    BY DEF importWorks, switchToModule, Openable
  <1>2. /\ n \in Nat /\ DOMAIN buffers = 1..n /\ flex \in 1..n /\ flex \in Nat
        /\ \A b \in 1..n : buffers[b] \in Buffer /\ buffers[b].pos \in Nat
        /\ buffers \in Seq(Buffer) /\ swStack \in Seq(SwitchInfo)
        /\ k \in Nat /\ DOMAIN swStack = 1..k /\ k < n
        /\ cur \in SwitchInfo /\ yylineno \in Nat
    BY Current, LenProperties DEF TypeOK, StackBelowBuffers
  <1>3. fresh \in Buffer
    BY <1>1 DEF Buffer
  <1>4. /\ frame \in SwitchInfo /\ frame.bufferInfo = flex /\ frame.lineNo = yylineno
        /\ frame.purpose = cur.purpose /\ frame.importInfo = cur.importInfo
    BY <1>2 DEF SwitchInfo
  <1>5. /\ swStack' \in Seq(SwitchInfo) /\ Len(swStack') = k + 1
        /\ \A i \in 1..k : swStack'[i] = swStack[i]
        /\ swStack'[k + 1] = frame
    <2>1. OpenMax \in Nat /\ SwitchCap \in Nat
      BY SwitchAssumption
    <2>2. k < SwitchCap
      BY <1>1, <1>2, <2>1, StackFits
    <2>3. swStack' = Append(swStack, frame)
      <3> HIDE DEF frame, k
      <3> QED BY <1>1, <1>2, <1>4, <2>1, <2>2, PushFacts DEF k
    <2>4. QED
      <3> HIDE DEF frame
      <3> QED BY <1>2, <1>4, <2>3, AppendProperties
  <1>6. /\ buffers' \in Seq(Buffer) /\ Len(buffers') = n + 1
        /\ \A b \in 1..n : buffers'[b] = buffers[b]
        /\ buffers'[n + 1] = fresh
    <2> HIDE DEF fresh
    <2> QED BY <1>1, <1>2, <1>3, AppendProperties
  <1>7. /\ DOMAIN buffers' = 1..(n + 1) /\ DOMAIN swStack' = 1..(k + 1)
        /\ 1..(n + 1) = (1..n) \cup {n + 1} /\ 1..(k + 1) = (1..k) \cup {k + 1}
    BY <1>2, <1>5, <1>6, LenProperties
  <1>8. ASSUME NEW i \in 1..k
        PROVE  /\ swStack[i].bufferInfo \in 1..n /\ swStack[i].bufferInfo < flex
               /\ buffers[swStack[i].bufferInfo].live
    BY <1>2 DEF SuspendedBuffersLive
  <1> HIDE DEF k, n, frame
  <1>9. TypeOK'
    <2>1. m \in Module /\ text \in Texts /\ n + 1 \in Nat
      BY <1>1, <1>2, SwitchAssumption DEF TypeOK
    <2>2. cur' \in SwitchInfo
      BY <1>1, <2>1 DEF SwitchInfo
    <2>3. /\ importInfoStack' \in Seq(Module)
          /\ phase' = "import" => importInfoStack' # <<>>
      <3>1. importInfoStack \in Seq(Module) /\ importInfoStack # <<>>
        BY <1>1 DEF TypeOK
      <3>2. /\ pop(importInfoStack) \in Seq(Module)
            /\ Len(pop(importInfoStack)) = Len(importInfoStack) - 1
            /\ Len(importInfoStack) \in Nat \ {0}
        BY <3>1, PopFacts
      <3>3. QED
        BY <1>1, <3>2, EmptySeq DEF LastClause
    <2>4. Buffer' = Buffer
      BY <1>1 DEF Buffer
    <2>5. \A b \in DOMAIN buffers' : buffers'[b].pos <= Len(TextOf(b)')
      <3>1. \A b \in 1..n : buffers'[b].pos <= Len(text'[buffers'[b].mod])
        BY <1>1, <1>2, <1>6 DEF TypeOK, TextOf
      <3>2. \A x \in DOMAIN text : text[x] \in Seq(Line)
        BY <2>1, SwitchAssumption
      <3>3. Len(text[m]) \in Nat
        BY <1>1, <3>2, LenProperties
      <3>4. buffers'[n + 1].pos <= Len(text'[buffers'[n + 1].mod])
        BY <1>1, <1>6, <3>3
      <3>5. QED
        BY <1>7, <3>1, <3>4 DEF TextOf
    <2>6. flex' \in DOMAIN buffers' /\ yylineno' \in Nat
      BY <1>1, <1>2, <1>7
    <2>7. QED
      BY <1>1, <1>5, <1>6, <2>1, <2>2, <2>3, <2>4, <2>5, <2>6 DEF TypeOK
  <1>10. ModeFollowsFile'
    BY <1>1, <1>2, <1>6 DEF ModeFollowsFile
  <1>11. SuspendedBuffersLive'
    <2>1. buffers'[flex'].live /\ (swStack' = <<>> <=> flex' = 1)
      BY <1>1, <1>2, <1>5, <1>6, EmptySeq DEF k
    <2>2. swStack'[1].bufferInfo = 1
      <3>1. CASE k = 0
        <4>1. swStack = <<>>
          BY <1>2, <3>1, EmptySeq DEF k
        <4>2. flex = 1
          BY <4>1 DEF SuspendedBuffersLive
        <4>3. QED
          BY <1>4, <1>5, <3>1, <4>2
      <3>2. CASE k # 0
        BY <1>2, <1>5, <3>2 DEF SuspendedBuffersLive, k
      <3>3. QED
        BY <3>1, <3>2
    <2>3. \A i \in DOMAIN swStack' :
            LET b == swStack'[i].bufferInfo IN
              b \in DOMAIN buffers' /\ buffers'[b].live /\ b < flex'
      <3>1. ASSUME NEW i \in 1..k
            PROVE  /\ swStack'[i].bufferInfo \in DOMAIN buffers'
                   /\ buffers'[swStack'[i].bufferInfo].live
                   /\ swStack'[i].bufferInfo < flex'
        BY <1>1, <1>2, <1>5, <1>6, <1>7, <1>8
      <3>2. flex \in DOMAIN buffers' /\ buffers'[flex].live /\ flex < flex'
        BY <1>1, <1>2, <1>6, <1>7 DEF SuspendedBuffersLive
      <3>3. QED
        BY <1>4, <1>5, <1>7, <3>1, <3>2
    <2>4. \A i, j \in DOMAIN swStack' :
            i < j => swStack'[i].bufferInfo < swStack'[j].bufferInfo
      <3> SUFFICES ASSUME NEW i \in 1..(k + 1), NEW j \in 1..(k + 1), i < j
                   PROVE  swStack'[i].bufferInfo < swStack'[j].bufferInfo
        BY <1>7
      <3>1. i \in 1..k
        BY <1>2
      <3>2. CASE j \in 1..k
        BY <1>2, <1>5, <3>1, <3>2 DEF SuspendedBuffersLive
      <3>3. CASE j = k + 1
        BY <1>4, <1>5, <1>8, <3>1, <3>3
      <3>4. QED
        BY <1>7, <3>2, <3>3
    <2>5. QED
      BY <2>1, <2>2, <2>3, <2>4 DEF SuspendedBuffersLive
  <1>12. LineNumbersTrue'
    <2>1. yylineno' = buffers'[flex'].pos + 1
      BY <1>1, <1>6
    <2>2. ASSUME NEW i \in 1..k
          PROVE  swStack'[i].lineNo = buffers'[swStack'[i].bufferInfo].pos + 1
      BY <1>2, <1>5, <1>6, <1>8 DEF LineNumbersTrue
    <2>3. swStack'[k + 1].lineNo = buffers'[swStack'[k + 1].bufferInfo].pos + 1
      BY <1>2, <1>4, <1>5, <1>6 DEF LineNumbersTrue
    <2>4. QED
      BY <1>7, <2>1, <2>2, <2>3 DEF LineNumbersTrue
  <1>13. FramesOwnFiles'
    <2>1. ASSUME NEW i \in 1..k
          PROVE  /\ swStack'[i].purpose = "GEN" <=> swStack'[i].bufferInfo = 1
                 /\ swStack'[i].bufferInfo # 1 =>
                      swStack'[i].importInfo = buffers'[swStack'[i].bufferInfo].mod
      <3>1. /\ swStack'[i] = swStack[i] /\ i \in DOMAIN swStack
            /\ buffers'[swStack[i].bufferInfo] = buffers[swStack[i].bufferInfo]
        BY <1>2, <1>5, <1>6, <1>8
      <3>2. QED
        BY <3>1 DEF FramesOwnFiles
    <2>2. /\ frame.purpose = "GEN" <=> frame.bufferInfo = 1
          /\ frame.bufferInfo # 1 => frame.importInfo = buffers'[frame.bufferInfo].mod
      BY <1>2, <1>4, <1>6 DEF ModeFollowsFile
    <2>3. QED
      BY <1>5, <1>7, <2>1, <2>2 DEF FramesOwnFiles
  <1>14. StackBelowBuffers'
    BY <1>2, <1>5, <1>6 DEF StackBelowBuffers, k, n
  <1>15. DocumentIsMainText'
    BY <1>1, <1>2, <1>6 DEF DocumentIsMainText
  <1>16. QED
    BY <1>9, <1>10, <1>11, <1>12, <1>13, <1>14, <1>15

\* switchToPrevModule releases the buffer that was read, and no other: what the
\* popped frame remembers is still true of the file it resumes.
LEMMA ResumeStep ==
  ASSUME IInv, EofOfImport
  PROVE  IInv'
  <1> USE DEF IInv
  <1> DEFINE n == Len(buffers)
             k == Len(swStack)
             t == Top(swStack)
             dead == [buffers[flex] EXCEPT !.live = FALSE]
  <1>1. /\ swStack # <<>> /\ phase = "parse"
        /\ buffers' = [buffers EXCEPT ![cur.bufferInfo].live = FALSE]
        /\ cur' = t /\ swStack' = pop(swStack) /\ flex' = t.bufferInfo
        /\ yylineno' = t.lineNo /\ mode' = ModeOf(t.purpose)
        /\ UNCHANGED <<text, phase, importInfoStack, typeTbl, pendingTypes,
                       generated, collected>>
    BY DEF EofOfImport, switchToPrevModule
  <1>2. /\ n \in Nat /\ DOMAIN buffers = 1..n /\ flex \in 1..n /\ flex \in Nat
        /\ \A b \in 1..n : buffers[b] \in Buffer /\ buffers[b].pos \in Nat
        /\ buffers \in Seq(Buffer) /\ swStack \in Seq(SwitchInfo)
        /\ k \in Nat \ {0} /\ DOMAIN swStack = 1..k /\ k < n
    BY <1>1, Current, LenProperties, EmptySeq DEF TypeOK, StackBelowBuffers
  <1>3. flex # 1 /\ cur.bufferInfo = flex
    BY <1>1 DEF SuspendedBuffersLive, ModeFollowsFile
  <1>4. /\ t = swStack[k] /\ t \in SwitchInfo /\ swStack' \in Seq(SwitchInfo)
        /\ Len(swStack') = k - 1 /\ \A i \in 1..k - 1 : swStack'[i] = swStack[i]
    <2>1. /\ Top(swStack) \in SwitchInfo /\ pop(swStack) \in Seq(SwitchInfo)
          /\ Len(pop(swStack)) = Len(swStack) - 1
          /\ \A i \in 1..Len(swStack) - 1 : pop(swStack)[i] = swStack[i]
      BY <1>1, <1>2, PopFacts
    <2>2. QED
      BY <1>1, <2>1 DEF Top
  <1>5. /\ dead \in Buffer /\ dead.mod = buffers[flex].mod
        /\ dead.pos = buffers[flex].pos
    BY <1>2 DEF Buffer
  <1>6. /\ buffers' \in Seq(Buffer) /\ Len(buffers') = n
        /\ \A b \in 1..n : buffers'[b] = IF b = flex THEN dead ELSE buffers[b]
    <2>1. buffers' = [buffers EXCEPT ![flex] = dead]
      BY <1>1, <1>3
    <2>2. QED
      <3> HIDE DEF dead
      <3> QED BY <1>2, <1>5, <2>1, ExceptSeq
  <1>7. /\ DOMAIN buffers' = 1..n /\ DOMAIN swStack' = 1..(k - 1)
        /\ k \in 1..k /\ \A i \in 1..(k - 1) : i \in 1..k /\ i < k
    BY <1>2, <1>4, <1>6, LenProperties
  <1>8. ASSUME NEW i \in 1..k
        PROVE  /\ swStack[i].bufferInfo \in 1..n /\ swStack[i].bufferInfo < flex
               /\ buffers[swStack[i].bufferInfo].live
               /\ buffers'[swStack[i].bufferInfo] = buffers[swStack[i].bufferInfo]
    <2>1. /\ swStack[i].bufferInfo \in 1..n /\ swStack[i].bufferInfo < flex
          /\ buffers[swStack[i].bufferInfo].live
      BY <1>2 DEF SuspendedBuffersLive
    <2>2. swStack[i].bufferInfo # flex
      BY <1>2, <2>1
    <2>3. QED
      BY <1>6, <2>1, <2>2
  <1>9. /\ t.bufferInfo \in 1..n /\ buffers[t.bufferInfo].live
        /\ buffers'[t.bufferInfo] = buffers[t.bufferInfo]
        /\ t.lineNo = buffers[t.bufferInfo].pos + 1
        /\ t.purpose = "GEN" <=> t.bufferInfo = 1
        /\ t.bufferInfo # 1 => t.importInfo = buffers[t.bufferInfo].mod
    BY <1>2, <1>4, <1>7, <1>8 DEF LineNumbersTrue, FramesOwnFiles
  <1> HIDE DEF k, n, dead, t
  <1>10. TypeOK'
    <2>1. Buffer' = Buffer
      BY <1>1 DEF Buffer
    <2>2. \A b \in DOMAIN buffers' : buffers'[b].pos <= Len(TextOf(b)')
      BY <1>1, <1>2, <1>5, <1>6, <1>7 DEF TypeOK, TextOf
    <2>3. yylineno' \in Nat /\ mode' \in {"SYMBOL_COLLECTING", "DOC_GENERATING"}
      BY <1>1, <1>4 DEF SwitchInfo, ModeOf
    <2>4. QED
      BY <1>1, <1>4, <1>6, <1>7, <1>9, <2>1, <2>2, <2>3 DEF TypeOK
  <1>11. ModeFollowsFile'
    <2>1. t.purpose \in {"INC", "GEN"}
      BY <1>4 DEF SwitchInfo
    <2>2. QED
      BY <1>1, <1>9, <2>1 DEF ModeFollowsFile, ModeOf
  <1>12. SuspendedBuffersLive'
    <2>1. \A i \in 1..(k - 1) : /\ swStack[i].bufferInfo < t.bufferInfo
                                /\ swStack'[i] = swStack[i]
      BY <1>2, <1>4, <1>7 DEF SuspendedBuffersLive
    <2>2. k = 1 => t.bufferInfo = 1
      BY <1>1, <1>4 DEF SuspendedBuffersLive
    <2>3. k # 1 => 1 \in 1..(k - 1) /\ swStack'[1].bufferInfo = 1 /\ t.bufferInfo # 1
      <3> SUFFICES ASSUME k # 1
                   PROVE  /\ 1 \in 1..(k - 1) /\ swStack'[1].bufferInfo = 1
                          /\ t.bufferInfo # 1
        OBVIOUS
      <3>1. 1 \in 1..(k - 1)
        BY <1>2
      <3>2. swStack'[1].bufferInfo = 1
        BY <1>1, <2>1, <3>1 DEF SuspendedBuffersLive
      <3>3. 1 < t.bufferInfo
        BY <2>1, <3>1, <3>2
      <3>4. QED
        BY <3>1, <3>2, <3>3
    <2>4. swStack' = <<>> <=> k = 1
      BY <1>2, <1>4, EmptySeq DEF k
    <2>5. /\ buffers'[flex'].live /\ (swStack' = <<>> <=> flex' = 1)
          /\ swStack' # <<>> => swStack'[1].bufferInfo = 1
      BY <1>1, <1>9, <2>2, <2>3, <2>4
    <2>6. \A i \in DOMAIN swStack' :
            LET b == swStack'[i].bufferInfo IN
              b \in DOMAIN buffers' /\ buffers'[b].live /\ b < flex'
      BY <1>1, <1>7, <1>8, <2>1
    <2>7. \A i, j \in DOMAIN swStack' :
            i < j => swStack'[i].bufferInfo < swStack'[j].bufferInfo
      BY <1>2, <1>7, <2>1 DEF SuspendedBuffersLive
    <2>8. QED
      BY <2>5, <2>6, <2>7 DEF SuspendedBuffersLive
  <1>13. LineNumbersTrue'
    BY <1>1, <1>2, <1>4, <1>7, <1>8, <1>9, SMTT(30) DEF LineNumbersTrue
  <1>14. FramesOwnFiles'
    BY <1>2, <1>4, <1>7, <1>8 DEF FramesOwnFiles
  <1>15. StackBelowBuffers'
    <2>1. 1 \in 1..n /\ 1 # flex
      BY <1>2, <1>3
    <2>2. buffers'[1].mod = Main
      BY <1>6, <2>1 DEF StackBelowBuffers
    <2>3. Len(swStack') < Len(buffers')
      BY <1>2, <1>4, <1>6
    <2>4. QED
      BY <2>2, <2>3 DEF StackBelowBuffers
  <1>16. DocumentIsMainText'
    <2>1. 1 \in 1..n /\ 1 # flex
      BY <1>2, <1>3
    <2>2. QED
      BY <1>1, <1>6, <2>1 DEF DocumentIsMainText
  <1>17. QED
    BY <1>10, <1>11, <1>12, <1>13, <1>14, <1>15, <1>16

-----------------------------------------------------------------------------
\* The inductive invariant holds in every reachable state.
LEMMA Invariance == Spec => []IInv
  <1>1. IInv /\ [Next]_vars => IInv'
    <2> SUFFICES ASSUME IInv, [Next]_vars PROVE IInv'
      OBVIOUS
    <2>1. CASE UNCHANGED vars
      BY <2>1 DEF vars, IInv, TypeOK, Buffer, TextOf, ModeFollowsFile,
                  SuspendedBuffersLive, LineNumbersTrue, DocumentIsMainText,
                  FramesOwnFiles, StackBelowBuffers
    <2>2. CASE From \/ Clash \/ Import \/ Define \/ End \/ UseType \/ DefineType
                 \/ SyntaxError
      BY <2>2, ReadStep
    <2>3. CASE importWorks
      BY <2>3, ImportStep
    <2>4. CASE EofOfImport
      BY <2>4, ResumeStep
    <2>5. CASE CannotOpen \/ EofOfMain \/ EofBadType
      BY <2>5, StopStep
    <2>6. QED
      BY <2>1, <2>2, <2>3, <2>4, <2>5 DEF Next
  <1>2. QED
    BY InitIInv, <1>1, PTL DEF Spec

\* The parser always holds well-typed state, whatever the files contain.
THEOREM TypeCorrect == Spec => []TypeOK
  <1>1. IInv => TypeOK
    BY DEF IInv
  <1>2. QED
    BY Invariance, <1>1, PTL

\* After any nesting of imports the dispatch mode, the purpose, the import list
\* and the flex buffer belong to one file, and only the main MIB is documented.
THEOREM ModeIsRight == Spec => []ModeFollowsFile
  <1>1. IInv => ModeFollowsFile
    BY DEF IInv
  <1>2. QED
    BY Invariance, <1>1, PTL

\* After any nesting of imports, mode, purpose, import list, buffer and line number
\* belong to one file (StateFollowsFile).
THEOREM StateIsRight == Spec => []StateFollowsFile
  <1>1. IInv => StateFollowsFile
    BY DEF IInv, StateFollowsFile
  <1>2. QED
    BY Invariance, <1>1, PTL

\* No released buffer is read or waits to be resumed.
THEOREM NoUseAfterDelete == Spec => []SuspendedBuffersLive
  <1>1. IInv => SuspendedBuffersLive
    BY DEF IInv
  <1>2. QED
    BY Invariance, <1>1, PTL

\* The line number of a diagnostic is that of the file being read.
THEOREM LinesAreRight == Spec => []LineNumbersTrue
  <1>1. IInv => LineNumbersTrue
    BY DEF IInv
  <1>2. QED
    BY Invariance, <1>1, PTL

\* The document is made of the definitions of the main MIB, all of them and no
\* other, however many files were read in between.
THEOREM DocumentIsRight == Spec => []DocumentIsMainText
  <1>1. IInv => DocumentIsMainText
    BY DEF IInv
  <1>2. QED
    BY Invariance, <1>1, PTL

-----------------------------------------------------------------------------
(***************************************************************************)
(* The order in which the files are read.  A clause of a file that has     *)
(* been read waits in importInfoStack or has opened a later file; the      *)
(* files behind the current one have been read to their end.               *)
(***************************************************************************)
Kind(b, i) == TextOf(b)[i].kind
Arg(b, i)  == TextOf(b)[i].arg
Need(b, i) == moduleAliasTrans(Arg(b, i))

\* Line i of file b, a clause, lies above a ";" that has been read.
Closed(b, i) == \E k \in (i + 1)..buffers[b].pos : Kind(b, k) = "SEMI"

OpenedAfter(b, m) == \E c \in DOMAIN buffers : c > b /\ buffers[c].mod = m

\* What is open is read or suspended, and what is not was read to its end.
FilesNest ==
  \A b \in DOMAIN buffers :
    IF buffers[b].live
    THEN b = flex \/ \E i \in DOMAIN swStack : swStack[i].bufferInfo = b
    ELSE buffers[b].pos = Len(TextOf(b))

\* Every definition that was read in an imported file has been collected.
AllCollected ==
  \A b \in DOMAIN buffers \ {1} : \A i \in 1..buffers[b].pos :
    Kind(b, i) = "DEF" => <<buffers[b].mod, i>> \in collected

\* The clauses that wait are those read last.
ClausesQueued ==
  LET n == Len(importInfoStack) IN
  phase = "parse" =>
    /\ n <= buffers[flex].pos
    /\ \A j \in 1..n : /\ Kind(flex, buffers[flex].pos - n + j) = "FROM"
                       /\ importInfoStack[j] = Need(flex, buffers[flex].pos - n + j)

ClausesClosed ==
  \A b \in DOMAIN buffers : \A i \in 1..buffers[b].pos :
    Kind(b, i) = "FROM" =>
      \/ Closed(b, i)
      \/ b = flex /\ phase \in {"clash", "documented"}
      \/ b = flex /\ phase = "parse" /\ i > buffers[flex].pos - Len(importInfoStack)

ClausesServed ==
  \A b \in DOMAIN buffers : \A i \in 1..buffers[b].pos :
    Kind(b, i) = "FROM" /\ Closed(b, i) =>
      \/ OpenedAfter(b, Need(b, i))
      \/ /\ phase \in {"import", "noFile"}
         /\ \E j \in 1..Len(importInfoStack) : importInfoStack[j] = Need(b, i)

\* The types that were read, and whose use waits for the second pass.
TypesEntered ==
  /\ BuiltIn \subseteq typeTbl
  /\ \A b \in DOMAIN buffers : \A i \in 1..buffers[b].pos :
       /\ Kind(b, i) = "TYPE" => Arg(b, i) \in typeTbl
       /\ Kind(b, i) = "USE" => Arg(b, i) \in typeTbl \cup pendingTypes

SecondPassDone ==
  /\ phase = "documented" => \/ pendingTypes \subseteq typeTbl
                             \/ \E i \in 1..buffers[flex].pos : Kind(flex, i) = "BAD"
  /\ phase = "badType" => AtEof /\ ~(pendingTypes \subseteq typeTbl)

UnknownAreOwn ==
  /\ phase = "import" => pendingTypes \subseteq typeTbl
  /\ \A t \in pendingTypes \ typeTbl :
       \E i \in 1..buffers[flex].pos : Kind(flex, i) = "USE" /\ Arg(flex, i) = t

OrderInv ==
  /\ FilesNest /\ AllCollected /\ TypesEntered /\ SecondPassDone
  /\ ClausesFit => ClausesQueued /\ ClausesClosed /\ ClausesServed
  /\ ImportsFirst => UnknownAreOwn

-----------------------------------------------------------------------------
(***************************************************************************)
(* What the steps do to the files, as far as the order is concerned.       *)
(***************************************************************************)
Files == 1..Len(buffers)

\* The lines read of the files, and which of them they are, stay what they were.
SameText ==
  \A b \in Files : /\ buffers'[b].mod = buffers[b].mod /\ TextOf(b)' = TextOf(b)
                   /\ \A i : Kind(b, i)' = Kind(b, i) /\ Arg(b, i)' = Arg(b, i)
                             /\ Need(b, i)' = Need(b, i)

LEMMA FileFacts ==
  ASSUME IInv
  PROVE  /\ Len(buffers) \in Nat /\ Files = DOMAIN buffers /\ flex \in Files
         /\ Files \subseteq Nat
         /\ \A b \in Files : /\ buffers[b].pos \in Nat /\ buffers[b].pos <= Len(TextOf(b))
                             /\ buffers[b].mod \in DOMAIN text
                             /\ TextOf(b) = text[buffers[b].mod]
                             /\ Len(TextOf(b)) \in Nat
                             /\ \A i \in 1..Len(TextOf(b)) : TextOf(b)[i] \in Line
         /\ text \in Texts /\ importInfoStack \in Seq(Module) /\ Len(importInfoStack) \in Nat
  <1>1. TypeOK
    BY DEF IInv
  <1>2. \A b \in Files : /\ TextOf(b) \in Seq(Line) /\ Len(TextOf(b)) \in Nat
                         /\ \A i \in 1..Len(TextOf(b)) : TextOf(b)[i] \in Line
    BY <1>1, Current, LenProperties, ElementOfSeq DEF Files
  <1>3. QED
    BY <1>1, <1>2, Current, LenProperties DEF Files, TypeOK, TextOf

LEMMA KindOf ==
  ASSUME IInv, NEW b \in Files, NEW i \in 1..Len(TextOf(b))
  PROVE  /\ Kind(b, i) = "FROM" => Arg(b, i) \in Module
         /\ Kind(b, i) \in {"USE", "TYPE"} => Arg(b, i) \in Type
  <1>1. TextOf(b)[i] \in Line
    BY FileFacts
  <1>2. QED
    BY <1>1 DEF Kind, Arg, Line

LEMMA SameTextIf ==
  ASSUME text' = text, \A b \in Files : buffers'[b].mod = buffers[b].mod
  PROVE  SameText
  <1>1. \A b \in Files : TextOf(b)' = TextOf(b)
    BY DEF TextOf
  <1>2. \A b \in Files : \A i : Kind(b, i)' = Kind(b, i) /\ Arg(b, i)' = Arg(b, i)
    BY <1>1 DEF Kind, Arg
  <1>3. \A b \in Files : \A i : Need(b, i)' = Need(b, i)
    BY <1>2 DEF Need, moduleAliasTrans
  <1>4. QED
    BY <1>1, <1>2, <1>3 DEF SameText

LEMMA ReadShape ==
  ASSUME IInv, NEW kind, Read(kind)
  PROVE  /\ SameText /\ Files' = Files /\ DOMAIN buffers' = Files
         /\ flex' = flex /\ swStack' = swStack /\ text' = text /\ phase = "parse"
         /\ mode' = mode
         /\ \A b \in Files : /\ buffers'[b].live = buffers[b].live
                             /\ buffers'[b].pos = IF b = flex THEN buffers[b].pos + 1
                                                  ELSE buffers[b].pos
         /\ buffers[flex].pos + 1 \in 1..Len(TextOf(flex))
         /\ Kind(flex, buffers[flex].pos + 1) = kind
         /\ NextLine.arg = Arg(flex, buffers[flex].pos + 1)
         /\ Here = <<flex, buffers[flex].pos + 1>>
         /\ HereMod = <<buffers[flex].mod, buffers[flex].pos + 1>>
  <1>1. TypeOK
    BY DEF IInv
  <1>2. /\ text' = text /\ flex' = flex /\ swStack' = swStack /\ phase = "parse"
        /\ mode' = mode /\ buffers' \in Seq(Buffer) /\ Len(buffers') = Len(buffers)
        /\ \A b \in Files : /\ buffers'[b].mod = buffers[b].mod
                            /\ buffers'[b].live = buffers[b].live
                            /\ b # flex => buffers'[b].pos = buffers[b].pos
                            /\ buffers'[b].pos <= Len(TextOf(b))
        /\ buffers'[flex].pos = buffers[flex].pos + 1
        /\ NextLine.kind = kind
    BY <1>1, ReadFacts DEF Files
  <1>3. Files' = Files /\ DOMAIN buffers' = Files
    BY <1>2, LenProperties DEF Files
  <1>4. SameText
    BY <1>2, SameTextIf
  <1>5. buffers[flex].pos + 1 \in 1..Len(TextOf(flex))
    BY <1>2, FileFacts
  <1>6. QED
    BY <1>2, <1>3, <1>4, <1>5 DEF NextLine, Kind, Arg, Here, HereMod

\* importWorks opens file Len(buffers) + 1 and suspends the one that was read.
LEMMA ImportShape ==
  ASSUME IInv, importWorks
  PROVE  /\ SameText /\ DOMAIN buffers' = Files \cup {Len(buffers) + 1}
         /\ flex' = Len(buffers) + 1 /\ flex' \notin Files
         /\ text' = text /\ phase = "import" /\ phase' \in {"parse", "import"}
         /\ \A b \in Files : b < flex' /\ buffers'[b] = buffers[b]
         /\ buffers'[flex'] = [mod |-> Top(importInfoStack), pos |-> 0, live |-> TRUE]
         /\ \E i \in DOMAIN swStack' : swStack'[i].bufferInfo = flex
         /\ \A i \in DOMAIN swStack :
              i \in DOMAIN swStack' /\ swStack'[i] = swStack[i]
         /\ UNCHANGED <<typeTbl, pendingTypes, generated, collected>>
         /\ importInfoStack # <<>> /\ importInfoStack' = pop(importInfoStack)
         /\ phase' = IF LastClause THEN "parse" ELSE "import"
  <1> DEFINE n == Len(buffers)
             k == Len(swStack)
             fresh == [mod |-> Top(importInfoStack), pos |-> 0, live |-> TRUE]
             frame == [cur EXCEPT !.bufferInfo = flex, !.lineNo = yylineno]
  <1>1. /\ phase = "import" /\ n < OpenMax /\ Top(importInfoStack) \in DOMAIN text
        /\ swStack' = push(swStack, frame, SwitchCap)
        /\ buffers' = Append(buffers, fresh)
        /\ flex' = n + 1 /\ importInfoStack' = pop(importInfoStack)
        /\ phase' = IF LastClause THEN "parse" ELSE "import"
        /\ UNCHANGED <<text, typeTbl, pendingTypes, generated, collected>>
    BY DEF importWorks, switchToModule, Openable
  <1>2. /\ n \in Nat /\ buffers \in Seq(Buffer) /\ swStack \in Seq(SwitchInfo)
        /\ k \in Nat /\ k < n /\ DOMAIN swStack = 1..k
        /\ cur \in SwitchInfo /\ flex \in Nat /\ yylineno \in Nat
        /\ importInfoStack # <<>>
    BY <1>1, FileFacts, LenProperties DEF IInv, TypeOK, StackBelowBuffers
  <1>3. frame \in SwitchInfo /\ frame.bufferInfo = flex
    BY <1>2 DEF SwitchInfo
  <1>4. swStack' = Append(swStack, frame)
    <2>1. OpenMax \in Nat /\ SwitchCap \in Nat /\ OpenMax <= SwitchCap
      BY SwitchAssumption, StackFits
    <2> HIDE DEF frame
    <2>2. Len(swStack) < SwitchCap
      BY <1>1, <1>2, <2>1
    <2> QED
      BY <1>1, <1>2, <1>3, <2>1, <2>2, PushFacts
  <1>5. /\ DOMAIN swStack' = 1..(k + 1) /\ swStack'[k + 1] = frame
        /\ \A i \in 1..k : swStack'[i] = swStack[i]
    <2> HIDE DEF frame
    <2> QED
      BY <1>2, <1>3, <1>4, AppendProperties, LenProperties
  <1>6. /\ DOMAIN buffers' = 1..(n + 1) /\ buffers'[n + 1] = fresh
        /\ \A b \in 1..n : buffers'[b] = buffers[b]
    <2>1. fresh \in Buffer
      BY <1>1 DEF Buffer
    <2> HIDE DEF fresh
    <2> QED
      BY <1>1, <1>2, <2>1, AppendProperties, LenProperties
  <1>7. SameText
    BY <1>1, <1>6, SameTextIf DEF Files
  <1>8. \E i \in DOMAIN swStack' : swStack'[i].bufferInfo = flex
    <2>1. k + 1 \in DOMAIN swStack'
      BY <1>2, <1>5
    <2> QED
      BY <1>3, <1>5, <2>1
  <1>9. /\ DOMAIN buffers' = Files \cup {n + 1} /\ n + 1 \notin Files
        /\ \A b \in Files : b < n + 1
    BY <1>2, <1>6 DEF Files
  <1>10. /\ \A b \in Files : b < flex' /\ buffers'[b] = buffers[b]
         /\ buffers'[flex'] = fresh
    BY <1>1, <1>6, <1>9 DEF Files
  <1>11. \A i \in DOMAIN swStack : i \in DOMAIN swStack' /\ swStack'[i] = swStack[i]
    BY <1>2, <1>5
  <1> HIDE DEF fresh, frame, k
  <1>12. QED
    BY <1>1, <1>2, <1>7, <1>8, <1>9, <1>10, <1>11 DEF fresh

\* The end of an imported file: the file suspended last is resumed.
LEMMA ResumeShape ==
  ASSUME IInv, EofOfImport
  PROVE  /\ SameText /\ Files' = Files /\ DOMAIN buffers' = Files
         /\ \A b \in Files : /\ buffers'[b].pos = buffers[b].pos
                             /\ buffers'[b].live = (b # flex /\ buffers[b].live)
         /\ flex # 1 /\ flex' \in Files
         /\ \E k \in DOMAIN swStack : flex' = swStack[k].bufferInfo
         /\ \A i \in DOMAIN swStack :
              swStack[i].bufferInfo = flex' \/ (i \in DOMAIN swStack' /\ swStack'[i] = swStack[i])
         /\ buffers[flex].pos = Len(TextOf(flex)) /\ pendingTypes \subseteq typeTbl
         /\ phase = "parse"
         /\ UNCHANGED <<text, phase, importInfoStack, typeTbl, pendingTypes, generated,
                        collected>>
  <1> DEFINE n == Len(buffers)
             k == Len(swStack)
             dead == [buffers[flex] EXCEPT !.live = FALSE]
  <1>1. /\ swStack # <<>> /\ phase = "parse" /\ AtEof /\ SecondPass
        /\ buffers' = [buffers EXCEPT ![cur.bufferInfo].live = FALSE]
        /\ swStack' = pop(swStack) /\ flex' = Top(swStack).bufferInfo
        /\ UNCHANGED <<text, phase, importInfoStack, typeTbl, pendingTypes,
                       generated, collected>>
    BY DEF EofOfImport, switchToPrevModule
  <1>2. /\ n \in Nat /\ buffers \in Seq(Buffer) /\ swStack \in Seq(SwitchInfo)
        /\ k \in Nat \ {0} /\ DOMAIN swStack = 1..k /\ flex \in Files
        /\ buffers[flex] \in Buffer
    BY <1>1, FileFacts, Current, LenProperties, EmptySeq DEF IInv, TypeOK, Files
  <1>3. flex # 1 /\ cur.bufferInfo = flex
    BY <1>1 DEF IInv, SuspendedBuffersLive, ModeFollowsFile
  <1>4. /\ dead \in Buffer /\ dead.mod = buffers[flex].mod
        /\ dead.pos = buffers[flex].pos /\ dead.live = FALSE
    BY <1>2 DEF Buffer
  <1>5. /\ buffers' \in Seq(Buffer) /\ Len(buffers') = n
        /\ \A b \in 1..n : buffers'[b] = IF b = flex THEN dead ELSE buffers[b]
    <2>1. buffers' = [buffers EXCEPT ![flex] = dead]
      BY <1>1, <1>3
    <2> HIDE DEF dead
    <2> QED
      BY <1>2, <1>4, <2>1, ExceptSeq DEF Files
  <1>6. /\ Len(swStack') = k - 1 /\ swStack' \in Seq(SwitchInfo)
        /\ \A i \in 1..(k - 1) : swStack'[i] = swStack[i]
    BY <1>1, <1>2, PopFacts
  <1>7. /\ DOMAIN swStack' = 1..(k - 1) /\ flex' = swStack[k].bufferInfo
        /\ \A i \in 1..k : i = k \/ i \in 1..(k - 1)
    BY <1>1, <1>2, <1>6, LenProperties DEF Top
  <1>8. \E i \in DOMAIN swStack : flex' = swStack[i].bufferInfo
    <2>1. k \in DOMAIN swStack
      BY <1>2
    <2> HIDE DEF k
    <2> QED
      BY <1>7, <2>1
  <1>9. flex' \in Files
    BY <1>8, FileFacts DEF IInv, SuspendedBuffersLive
  <1>10. Files' = Files /\ DOMAIN buffers' = Files
    BY <1>5, LenProperties DEF Files
  <1>11. \A b \in Files : /\ buffers'[b].pos = buffers[b].pos
                          /\ buffers'[b].mod = buffers[b].mod
                          /\ buffers'[b].live = (b # flex /\ buffers[b].live)
    <2>1. \A b \in Files : buffers[b] \in Buffer
      BY <1>2, ElementOfSeq DEF Files
    <2> HIDE DEF dead
    <2> QED
      BY <1>4, <1>5, <2>1 DEF Files, Buffer
  <1>12. SameText
    BY <1>1, <1>11, SameTextIf
  <1> HIDE DEF dead, k, n
  <1>13. \A i \in DOMAIN swStack :
           swStack[i].bufferInfo = flex' \/ (i \in DOMAIN swStack' /\ swStack'[i] = swStack[i])
    BY <1>2, <1>6, <1>7
  <1>14. QED
    BY <1>1, <1>3, <1>9, <1>10, <1>11, <1>12, <1>8, <1>13 DEF AtEof, SecondPass

\* The steps that end the program, and those that change nothing.
Stops == /\ UNCHANGED <<text, buffers, flex, swStack, importInfoStack, typeTbl,
                        pendingTypes, generated, collected>>
         /\ \/ phase' = phase
            \/ phase = "import" /\ phase' = "noFile"
            \/ /\ phase = "parse" /\ AtEof
               /\ \/ phase' = "documented" /\ pendingTypes \subseteq typeTbl
                  \/ phase' = "badType" /\ ~(pendingTypes \subseteq typeTbl)

LEMMA StopShape ==
  ASSUME CannotOpen \/ EofOfMain \/ EofBadType \/ UNCHANGED vars
  PROVE  Stops
  BY DEF CannotOpen, EofOfMain, EofBadType, vars, Stops, SecondPass

LEMMA StopText ==
  ASSUME Stops
  PROVE  SameText /\ Files' = Files /\ DOMAIN buffers' = DOMAIN buffers
  BY SameTextIf DEF Stops, Files

\* What reading a line does to the rest of the state.
Reads == From \/ Clash \/ Import \/ Define \/ End \/ UseType \/ DefineType \/ SyntaxError

LEMMA ReadsRead ==
  ASSUME Reads
  PROVE  \E kind \in {"FROM", "CLASH", "SEMI", "DEF", "END", "USE", "TYPE", "BAD"} :
           /\ Read(kind)
           /\ importInfoStack' =
                IF kind = "FROM"
                THEN push(importInfoStack, moduleAliasTrans(NextLine.arg), ImportCap)
                ELSE importInfoStack
           /\ phase' = IF kind = "CLASH" THEN "clash"
                       ELSE IF kind = "BAD" THEN "documented"
                       ELSE IF kind = "SEMI" /\ importInfoStack # <<>> THEN "import"
                       ELSE phase
           /\ typeTbl' = IF kind = "TYPE" THEN typeTbl \cup {NextLine.arg} ELSE typeTbl
           /\ pendingTypes' = IF kind = "USE" /\ NextLine.arg \notin typeTbl
                              THEN pendingTypes \cup {NextLine.arg} ELSE pendingTypes
           /\ collected' = IF kind = "DEF" /\ mode # "DOC_GENERATING"
                           THEN collected \cup {HereMod} ELSE collected
           /\ generated' = IF kind \in {"DEF", "END"} /\ mode = "DOC_GENERATING"
                           THEN generated \cup {Here} ELSE generated
  <1>1. CASE From
    BY <1>1 DEF From
  <1>2. CASE Clash
    BY <1>2 DEF Clash
  <1>3. CASE Import
    <2>1. phase = "parse"
      BY <1>3 DEF Import, Read
    <2>2. QED
      BY <1>3, <2>1 DEF Import
  <1>4. CASE Define
    BY <1>4 DEF Define
  <1>5. CASE End
    BY <1>5 DEF End
  <1>6. CASE UseType
    BY <1>6 DEF UseType
  <1>7. CASE DefineType
    BY <1>7 DEF DefineType
  <1>8. CASE SyntaxError
    BY <1>8 DEF SyntaxError
  <1>9. QED
    BY <1>1, <1>2, <1>3, <1>4, <1>5, <1>6, <1>7, <1>8 DEF Reads

LEMMA NextShape ==
  ASSUME [Next]_vars
  PROVE  Reads \/ importWorks \/ EofOfImport \/ Stops
  BY StopShape DEF Next, Reads

-----------------------------------------------------------------------------
(***************************************************************************)
(* Each part of the invariant, over the steps.                             *)
(***************************************************************************)
LEMMA FilesNestStep ==
  ASSUME IInv, OrderInv, [Next]_vars
  PROVE  FilesNest'
  <1>1. FilesNest /\ Files = DOMAIN buffers /\ flex \in Files
    BY FileFacts DEF OrderInv
  <1>2. CASE Reads
    <2>1. PICK kind : Read(kind)
      BY <1>2, ReadsRead
    <2>2. buffers[flex].live
      BY DEF IInv, SuspendedBuffersLive
    <2> QED
      BY <1>1, <2>1, <2>2, ReadShape DEF FilesNest, SameText
  <1>3. CASE importWorks
    <2> SUFFICES ASSUME NEW b \in DOMAIN buffers'
                 PROVE  IF buffers'[b].live
                        THEN b = flex' \/ \E i \in DOMAIN swStack' : swStack'[i].bufferInfo = b
                        ELSE buffers'[b].pos = Len(TextOf(b)')
      BY DEF FilesNest
    <2>1. CASE b = flex'
      BY <1>3, <2>1, ImportShape
    <2>2. CASE b \in Files
      <3>1. buffers'[b] = buffers[b] /\ TextOf(b)' = TextOf(b)
        BY <1>3, <2>2, ImportShape DEF SameText
      <3>2. b = flex \/ (\E i \in DOMAIN swStack : swStack[i].bufferInfo = b)
              => \E i \in DOMAIN swStack' : swStack'[i].bufferInfo = b
        BY <1>3, ImportShape
      <3> QED
        BY <1>1, <2>2, <3>1, <3>2 DEF FilesNest
    <2> QED
      BY <1>3, <2>1, <2>2, ImportShape
  <1>4. CASE EofOfImport
    <2> SUFFICES ASSUME NEW b \in Files
                 PROVE  IF buffers'[b].live
                        THEN b = flex' \/ \E i \in DOMAIN swStack' : swStack'[i].bufferInfo = b
                        ELSE buffers'[b].pos = Len(TextOf(b)')
      BY <1>4, ResumeShape DEF FilesNest
    <2>1. /\ TextOf(b)' = TextOf(b) /\ buffers'[b].pos = buffers[b].pos
          /\ buffers'[b].live = (b # flex /\ buffers[b].live)
          /\ buffers[flex].pos = Len(TextOf(flex))
      BY <1>4, ResumeShape DEF SameText
    <2>2. (\E i \in DOMAIN swStack : swStack[i].bufferInfo = b)
            => b = flex' \/ \E i \in DOMAIN swStack' : swStack'[i].bufferInfo = b
      BY <1>4, ResumeShape
    <2> QED
      BY <1>1, <2>1, <2>2 DEF FilesNest
  <1>5. CASE Stops
    BY <1>1, <1>5, StopText DEF FilesNest, SameText, Stops
  <1>6. QED
    BY <1>2, <1>3, <1>4, <1>5, NextShape

\* The lines of the files that were read before this step, and the new one.
LEMMA ReadLines ==
  ASSUME IInv, NEW kind, Read(kind), NEW b \in Files
  PROVE  /\ 1..buffers'[b].pos = IF b = flex THEN 1..buffers[b].pos \cup {buffers[b].pos + 1}
                                 ELSE 1..buffers[b].pos
         /\ \A i : Closed(b, i) => Closed(b, i)'
  <1>1. /\ buffers[b].pos \in Nat
        /\ buffers'[b].pos = IF b = flex THEN buffers[b].pos + 1 ELSE buffers[b].pos
        /\ \A i : Kind(b, i)' = Kind(b, i)
    BY FileFacts, ReadShape DEF SameText
  <1>2. 1..buffers'[b].pos = IF b = flex THEN 1..buffers[b].pos \cup {buffers[b].pos + 1}
                             ELSE 1..buffers[b].pos
    <2>1. PICK m, n : m = buffers[b].pos /\ n = buffers'[b].pos
      OBVIOUS
    <2>2. m \in Nat /\ n = IF b = flex THEN m + 1 ELSE m
      BY <1>1, <2>1
    <2>3. 1..(m + 1) = 1..m \cup {m + 1}
      BY <2>2
    <2> QED
      BY <2>1, <2>2, <2>3
  <1>3. ASSUME NEW i, Closed(b, i) PROVE Closed(b, i)'
    <2>1. PICK k \in (i + 1)..buffers[b].pos : Kind(b, k) = "SEMI"
      BY <1>3 DEF Closed
    <2>2. k \in (i + 1)..buffers'[b].pos
      BY <1>1, <2>1
    <2> QED
      BY <1>1, <2>1, <2>2 DEF Closed
  <1>4. QED
    BY <1>2, <1>3

LEMMA CollectedStep ==
  ASSUME IInv, OrderInv, [Next]_vars
  PROVE  AllCollected'
  <1>1. AllCollected /\ Files = DOMAIN buffers /\ flex \in Files
    BY FileFacts DEF OrderInv
  <1>2. CASE Reads
    <2>1. PICK kind : Read(kind) /\ collected' = IF kind = "DEF" /\ mode # "DOC_GENERATING"
                                                 THEN collected \cup {HereMod} ELSE collected
      BY <1>2, ReadsRead
    <2> SUFFICES ASSUME NEW b \in Files \ {1}, NEW i \in 1..buffers'[b].pos, Kind(b, i) = "DEF"
                 PROVE  <<buffers[b].mod, i>> \in collected'
      BY <2>1, ReadShape DEF AllCollected, SameText
    <2>2. CASE i \in 1..buffers[b].pos
      BY <1>1, <2>1, <2>2 DEF AllCollected
    <2>3. CASE b = flex /\ i = buffers[b].pos + 1
      <3>1. mode # "DOC_GENERATING"
        BY <2>3 DEF IInv, ModeFollowsFile
      <3>2. kind = "DEF" /\ HereMod = <<buffers[b].mod, i>>
        BY <2>1, <2>3, ReadShape
      <3> QED
        BY <2>1, <3>1, <3>2
    <2> QED
      BY <2>1, <2>2, <2>3, ReadLines
  <1>3. CASE importWorks
    <2> SUFFICES ASSUME NEW b \in DOMAIN buffers' \ {1}, NEW i \in 1..buffers'[b].pos,
                        Kind(b, i)' = "DEF"
                 PROVE  <<buffers'[b].mod, i>> \in collected
      BY <1>3, ImportShape DEF AllCollected
    <2>1. b # flex'
      BY <1>3, ImportShape
    <2>2. b \in Files /\ buffers'[b] = buffers[b] /\ Kind(b, i)' = Kind(b, i)
      BY <1>3, <2>1, ImportShape DEF SameText
    <2> QED
      BY <1>1, <2>2 DEF AllCollected
  <1>4. CASE EofOfImport
    BY <1>1, <1>4, ResumeShape DEF AllCollected, SameText
  <1>5. CASE Stops
    BY <1>1, <1>5, StopText DEF AllCollected, SameText, Stops
  <1>6. QED
    BY <1>2, <1>3, <1>4, <1>5, NextShape

LEMMA TypesStep ==
  ASSUME IInv, OrderInv, [Next]_vars
  PROVE  TypesEntered'
  <1>1. TypesEntered /\ Files = DOMAIN buffers /\ flex \in Files
    BY FileFacts DEF OrderInv
  <1>2. CASE Reads
    <2>1. PICK kind :
            /\ Read(kind)
            /\ typeTbl' = IF kind = "TYPE" THEN typeTbl \cup {NextLine.arg} ELSE typeTbl
            /\ pendingTypes' = IF kind = "USE" /\ NextLine.arg \notin typeTbl
                               THEN pendingTypes \cup {NextLine.arg} ELSE pendingTypes
      BY <1>2, ReadsRead
    <2>2. BuiltIn \subseteq typeTbl'
      BY <1>1, <2>1 DEF TypesEntered
    <2> SUFFICES ASSUME NEW b \in Files, NEW i \in 1..buffers'[b].pos
                 PROVE  /\ Kind(b, i) = "TYPE" => Arg(b, i) \in typeTbl'
                        /\ Kind(b, i) = "USE" => Arg(b, i) \in typeTbl' \cup pendingTypes'
      BY <2>1, <2>2, ReadShape DEF TypesEntered, SameText
    <2>3. CASE i \in 1..buffers[b].pos
      BY <1>1, <2>1, <2>3 DEF TypesEntered
    <2>4. CASE b = flex /\ i = buffers[b].pos + 1
      <3>1. Kind(b, i) = kind /\ Arg(b, i) = NextLine.arg
        BY <2>1, <2>4, ReadShape
      <3> QED
        BY <2>1, <3>1
    <2> QED
      BY <2>1, <2>3, <2>4, ReadLines
  <1>3. CASE importWorks
    <2> SUFFICES ASSUME NEW b \in DOMAIN buffers', NEW i \in 1..buffers'[b].pos
                 PROVE  /\ Kind(b, i)' = "TYPE" => Arg(b, i)' \in typeTbl
                        /\ Kind(b, i)' = "USE" => Arg(b, i)' \in typeTbl \cup pendingTypes
      BY <1>1, <1>3, ImportShape DEF TypesEntered
    <2>1. b # flex'
      BY <1>3, ImportShape
    <2>2. /\ b \in Files /\ buffers'[b] = buffers[b]
          /\ Kind(b, i)' = Kind(b, i) /\ Arg(b, i)' = Arg(b, i)
      BY <1>3, <2>1, ImportShape DEF SameText
    <2> QED
      BY <1>1, <2>2 DEF TypesEntered
  <1>4. CASE EofOfImport
    BY <1>1, <1>4, ResumeShape DEF TypesEntered, SameText
  <1>5. CASE Stops
    BY <1>1, <1>5, StopText DEF TypesEntered, SameText, Stops
  <1>6. QED
    BY <1>2, <1>3, <1>4, <1>5, NextShape

LEMMA SecondPassStep ==
  ASSUME IInv, OrderInv, [Next]_vars
  PROVE  SecondPassDone'
  <1>1. SecondPassDone /\ flex \in Files
    BY FileFacts DEF OrderInv
  <1>2. CASE Reads
    <2>1. PICK kind :
            /\ Read(kind)
            /\ phase' = IF kind = "CLASH" THEN "clash"
                        ELSE IF kind = "BAD" THEN "documented"
                        ELSE IF kind = "SEMI" /\ importInfoStack # <<>> THEN "import"
                        ELSE phase
      BY <1>2, ReadsRead
    <2>2. PICK f, n : f = flex /\ n = buffers[flex].pos + 1
      OBVIOUS
    <2>3. /\ phase = "parse" /\ flex' = f /\ f \in Files /\ n \in 1..buffers'[f].pos
          /\ Kind(f, n)' = kind
      BY <1>1, <2>1, <2>2, ReadShape, FileFacts DEF SameText
    <2>4. kind = "BAD" => \E i \in 1..buffers'[flex'].pos : TextOf(flex)'[i].kind = "BAD"
      BY <2>3 DEF Kind, TextOf
    <2>5. phase' \in {"documented", "badType"} => phase' = "documented" /\ kind = "BAD"
      BY <2>1, <2>3
    <2> QED
      BY <2>4, <2>5 DEF SecondPassDone, Kind
  <1>3. CASE importWorks
    BY <1>3, ImportShape DEF SecondPassDone
  <1>4. CASE EofOfImport
    BY <1>4, ResumeShape DEF SecondPassDone
  <1>5. CASE Stops
    BY <1>1, <1>5, StopText DEF SecondPassDone, SameText, Stops, AtEof, Kind, TextOf
  <1>6. QED
    BY <1>2, <1>3, <1>4, <1>5, NextShape

\* While a file is parsed, the clauses that wait are the lines read last, and
\* what is no clause, "," or ";" finds none waiting.
LEMMA QueueIndex ==
  ASSUME IInv, ClausesQueued, phase = "parse",
         NEW k \in (buffers[flex].pos - Len(importInfoStack) + 1)..buffers[flex].pos
  PROVE  /\ k \in 1..buffers[flex].pos /\ Kind(flex, k) = "FROM"
         /\ \E j \in 1..Len(importInfoStack) : importInfoStack[j] = Need(flex, k)
  <1>1. PICK p, n : p = buffers[flex].pos /\ n = Len(importInfoStack)
    OBVIOUS
  <1>2. /\ p \in Nat /\ n \in Nat /\ n <= p
        /\ \A j \in 1..n : /\ Kind(flex, p - n + j) = "FROM"
                           /\ importInfoStack[j] = Need(flex, p - n + j)
    BY <1>1, FileFacts DEF ClausesQueued
  <1>3. k \in (p - n + 1)..p
    BY <1>1
  <1>4. PICK j \in 1..n : p - n + j = k
    <2>1. k - p + n \in 1..n /\ p - n + (k - p + n) = k
      BY <1>2, <1>3
    <2> QED
      BY <2>1
  <1>5. k \in 1..p
    BY <1>2, <1>3
  <1>6. Kind(flex, k) = "FROM" /\ importInfoStack[j] = Need(flex, k)
    BY <1>2, <1>4
  <1>7. QED
    BY <1>1, <1>5, <1>6

LEMMA QueueEmpty ==
  ASSUME IInv, ClausesQueued, phase = "parse",
         \/ AtEof
         \/ /\ buffers[flex].pos + 1 \in 1..Len(TextOf(flex))
            /\ Kind(flex, buffers[flex].pos + 1) \notin {"FROM", "CLASH", "SEMI", "BAD"}
  PROVE  importInfoStack = <<>>
  <1> SUFFICES ASSUME importInfoStack # <<>>
               PROVE  FALSE
    OBVIOUS
  <1>1. PICK p, n : p = buffers[flex].pos /\ n = Len(importInfoStack)
    OBVIOUS
  <1>2. p \in Nat /\ n \in Nat /\ n # 0
    BY <1>1, FileFacts, EmptySeq
  <1>3. p \in (p - n + 1)..p
    BY <1>2
  <1>4. p \in 1..p /\ Kind(flex, p) = "FROM"
    BY <1>1, <1>3, QueueIndex
  <1>5. PICK m \in DOMAIN text : TextOf(flex) = text[m]
    BY FileFacts
  <1>6. text \in Texts /\ text[m] = TextOf(flex) /\ Len(text[m]) \in Nat
    BY <1>5, FileFacts
  <1>7. CASE AtEof
    <2>1. p = Len(text[m])
      BY <1>1, <1>6, <1>7 DEF AtEof
    <2>2. text[m][p].kind = "END"
      BY <1>6, <2>1, FilesEnd
    <2> QED
      BY <1>4, <1>6, <2>2 DEF Kind
  <1>8. CASE /\ p + 1 \in 1..Len(TextOf(flex))
             /\ Kind(flex, p + 1) \notin {"FROM", "CLASH", "SEMI", "BAD"}
    <2>1. p \in 1..(Len(text[m]) - 1)
      BY <1>4, <1>6, <1>8
    <2>2. text[m][p].kind = "FROM"
      BY <1>4, <1>6 DEF Kind
    <2>3. text[m][p + 1].kind \in {"FROM", "CLASH", "SEMI", "BAD"}
      BY <1>6, <2>1, <2>2, ImportsClosed
    <2> QED
      BY <1>6, <1>8, <2>3 DEF Kind
  <1>9. QED
    BY <1>1, <1>7, <1>8

\* importInfoStack has room for the next clause of an IMPORTS that fits.
LEMMA QueueRoom ==
  ASSUME IInv, ClausesFit, ClausesQueued, Read("FROM")
  PROVE  Len(importInfoStack) < ImportCap
  <1> SUFFICES ASSUME ~(Len(importInfoStack) < ImportCap)
               PROVE  FALSE
    OBVIOUS
  <1>1. PICK p, n : p = buffers[flex].pos /\ n = Len(importInfoStack)
    OBVIOUS
  <1>2. PICK m \in DOMAIN text : TextOf(flex) = text[m]
    BY FileFacts
  <1>3. /\ p \in Nat /\ n \in Nat /\ ImportCap \in Nat /\ ImportCap <= n
        /\ phase = "parse" /\ p + 1 \in 1..Len(text[m]) /\ Len(text[m]) \in Nat
        /\ text[m][p + 1].kind = "FROM"
    <2>1. ImportCap \in Nat
      BY SwitchAssumption
    <2>2. Kind(flex, p + 1) = "FROM" /\ p + 1 \in 1..Len(TextOf(flex)) /\ phase = "parse"
      BY <1>1, ReadShape
    <2> QED
      BY <1>1, <1>2, <2>1, <2>2, FileFacts DEF Kind
  <1>4. n <= p
    BY <1>1, <1>3 DEF ClausesQueued
  <1>5. p + 1 - ImportCap \in 1..(Len(text[m]) - ImportCap)
    BY <1>3, <1>4
  <1>6. PICK k \in (p + 1 - ImportCap)..(p + 1 - ImportCap + ImportCap) : text[m][k].kind # "FROM"
    BY <1>5 DEF ClausesFit
  <1>7. k \in (p - n + 1)..p
    <2>1. k # p + 1
      BY <1>3, <1>6
    <2> QED
      BY <1>3, <1>6, <2>1
  <1>8. Kind(flex, k) = "FROM"
    BY <1>1, <1>3, <1>7, QueueIndex
  <1>9. QED
    BY <1>2, <1>6, <1>8 DEF Kind

\* What a read does to the clauses that wait.
LEMMA QueueRead ==
  ASSUME IInv, ClausesFit, ClausesQueued, Reads
  PROVE  \E kind :
           /\ Read(kind)
           /\ kind = "FROM" =>
                /\ phase' = "parse"
                /\ Len(importInfoStack') = Len(importInfoStack) + 1
                /\ \A j \in 1..Len(importInfoStack) : importInfoStack'[j] = importInfoStack[j]
                /\ importInfoStack'[Len(importInfoStack) + 1]
                     = Need(flex, buffers[flex].pos + 1)
           /\ kind # "FROM" => importInfoStack' = importInfoStack
           /\ kind = "SEMI" => phase' = IF importInfoStack # <<>> THEN "import" ELSE "parse"
           /\ kind = "CLASH" => phase' = "clash"
           /\ kind = "BAD" => phase' = "documented"
           /\ kind \notin {"FROM", "CLASH", "SEMI", "BAD"} =>
                phase' = "parse" /\ importInfoStack = <<>>
  <1>1. PICK kind \in {"FROM", "CLASH", "SEMI", "DEF", "END", "USE", "TYPE", "BAD"} :
          /\ Read(kind)
          /\ importInfoStack' =
               IF kind = "FROM"
               THEN push(importInfoStack, moduleAliasTrans(NextLine.arg), ImportCap)
               ELSE importInfoStack
          /\ phase' = IF kind = "CLASH" THEN "clash"
                      ELSE IF kind = "BAD" THEN "documented"
                      ELSE IF kind = "SEMI" /\ importInfoStack # <<>> THEN "import"
                      ELSE phase
    BY ReadsRead
  <1>2. /\ phase = "parse" /\ buffers[flex].pos + 1 \in 1..Len(TextOf(flex))
        /\ Kind(flex, buffers[flex].pos + 1) = kind
        /\ NextLine.arg = Arg(flex, buffers[flex].pos + 1)
    BY <1>1, ReadShape
  <1>3. CASE kind = "FROM"
    <2>1. PICK u : u = moduleAliasTrans(NextLine.arg)
      OBVIOUS
    <2>2. u \in Module
      <3>1. NextLine.arg \in Module
        BY <1>2, <1>3, KindOf, FileFacts
      <3> QED
        BY <2>1, <3>1, SwitchAssumption DEF moduleAliasTrans
    <2>3. /\ importInfoStack \in Seq(Module) /\ Len(importInfoStack) < ImportCap
          /\ ImportCap \in Nat \ {0}
      BY <1>1, <1>3, QueueRoom, FileFacts, SwitchAssumption
    <2>4. importInfoStack' = Append(importInfoStack, u)
      BY <1>1, <1>3, <2>1, <2>3 DEF push
    <2>5. /\ Len(importInfoStack') = Len(importInfoStack) + 1
          /\ \A j \in 1..Len(importInfoStack) : importInfoStack'[j] = importInfoStack[j]
          /\ importInfoStack'[Len(importInfoStack) + 1] = u
      BY <2>2, <2>3, <2>4, AppendProperties, LenProperties
    <2>6. u = Need(flex, buffers[flex].pos + 1)
      BY <1>2, <2>1 DEF Need
    <2> QED
      BY <1>1, <1>2, <1>3, <2>5, <2>6
  <1>4. CASE kind # "FROM"
    <2>1. kind \notin {"FROM", "CLASH", "SEMI", "BAD"} => importInfoStack = <<>>
      BY <1>2, QueueEmpty
    <2> QED
      BY <1>1, <1>2, <1>4, <2>1
  <1>5. QED
    BY <1>3, <1>4

LEMMA QueuedStep ==
  ASSUME IInv, OrderInv, ClausesFit, [Next]_vars
  PROVE  ClausesQueued'
  <1>1. ClausesQueued /\ flex \in Files /\ importInfoStack \in Seq(Module)
    BY FileFacts DEF OrderInv
  <1>2. CASE Reads
    <2>1. PICK kind :
           /\ Read(kind)
           /\ kind = "FROM" =>
                /\ phase' = "parse"
                /\ Len(importInfoStack') = Len(importInfoStack) + 1
                /\ \A j \in 1..Len(importInfoStack) : importInfoStack'[j] = importInfoStack[j]
                /\ importInfoStack'[Len(importInfoStack) + 1]
                     = Need(flex, buffers[flex].pos + 1)
           /\ kind # "FROM" => importInfoStack' = importInfoStack
           /\ kind = "SEMI" => phase' = IF importInfoStack # <<>> THEN "import" ELSE "parse"
           /\ kind = "CLASH" => phase' = "clash"
           /\ kind = "BAD" => phase' = "documented"
           /\ kind \notin {"FROM", "CLASH", "SEMI", "BAD"} =>
                phase' = "parse" /\ importInfoStack = <<>>
      BY <1>1, <1>2, QueueRead
    <2>2. PICK f, p, n : f = flex /\ p = buffers[flex].pos /\ n = Len(importInfoStack)
      OBVIOUS
    <2>3. /\ phase = "parse" /\ flex' = f /\ f \in Files /\ p \in Nat /\ n \in Nat /\ n <= p
          /\ buffers'[f].pos = p + 1 /\ Kind(f, p + 1) = kind
          /\ \A i : Kind(f, i)' = Kind(f, i) /\ Need(f, i)' = Need(f, i)
          /\ \A j \in 1..n : /\ Kind(f, p - n + j) = "FROM"
                             /\ importInfoStack[j] = Need(f, p - n + j)
      BY <1>1, <2>1, <2>2, ReadShape, FileFacts DEF SameText, ClausesQueued
    <2>4. CASE kind = "FROM"
      <3>1. /\ Len(importInfoStack') = n + 1 /\ n + 1 <= p + 1
            /\ \A j \in 1..n : importInfoStack'[j] = importInfoStack[j]
            /\ importInfoStack'[n + 1] = Need(f, p + 1)
        BY <2>1, <2>2, <2>3, <2>4
      <3>2. \A j \in 1..(n + 1) : /\ Kind(f, (p + 1) - (n + 1) + j)' = "FROM"
                                  /\ importInfoStack'[j] = Need(f, (p + 1) - (n + 1) + j)'
        <4> SUFFICES ASSUME NEW j \in 1..(n + 1)
                     PROVE  /\ Kind(f, (p + 1) - (n + 1) + j)' = "FROM"
                            /\ importInfoStack'[j] = Need(f, (p + 1) - (n + 1) + j)'
          OBVIOUS
        <4>1. PICK i : i = (p + 1) - (n + 1) + j
          OBVIOUS
        <4>2. CASE j \in 1..n
          <5>1. i = p - n + j
            BY <2>3, <4>1
          <5> QED
            BY <2>3, <3>1, <4>1, <4>2, <5>1
        <4>3. CASE j = n + 1
          <5>1. i = p + 1
            BY <2>3, <4>1, <4>3
          <5> QED
            BY <2>3, <2>4, <3>1, <4>1, <4>3, <5>1
        <4> QED
          BY <2>3, <4>2, <4>3
      <3> QED
        BY <2>3, <3>1, <3>2 DEF ClausesQueued, Kind, Need, Arg, TextOf
    <2>5. CASE kind # "FROM"
      <3>1. phase' = "parse" => importInfoStack' = <<>>
        BY <2>1, <2>5
      <3> QED
        BY <2>3, <3>1, EmptySeq DEF ClausesQueued
    <2> QED
      BY <2>4, <2>5
  <1>3. CASE importWorks
    <2>1. /\ phase' = "parse" => Len(importInfoStack) = 1
          /\ importInfoStack' = pop(importInfoStack) /\ importInfoStack # <<>>
          /\ buffers'[flex'].pos = 0
      BY <1>3, ImportShape DEF LastClause
    <2>2. phase' = "parse" => Len(importInfoStack') = 0
      BY <1>1, <2>1, PopFacts
    <2> QED
      BY <2>1, <2>2 DEF ClausesQueued
  <1>4. CASE EofOfImport
    <2>1. /\ AtEof /\ phase = "parse" /\ importInfoStack' = importInfoStack
          /\ flex' \in Files /\ \A b \in Files : buffers'[b].pos \in Nat
      BY <1>4, ResumeShape, FileFacts DEF EofOfImport
    <2>2. importInfoStack' = <<>>
      BY <1>1, <2>1, QueueEmpty
    <2> QED
      BY <2>1, <2>2, EmptySeq DEF ClausesQueued
  <1>5. CASE Stops
    BY <1>1, <1>5 DEF ClausesQueued, Stops, Kind, Need, Arg, TextOf
  <1>6. QED
    BY <1>2, <1>3, <1>4, <1>5, NextShape

LEMMA ClosedStep ==
  ASSUME IInv, OrderInv, ClausesFit, [Next]_vars
  PROVE  ClausesClosed'
  <1>1. /\ ClausesQueued /\ ClausesClosed /\ Files = DOMAIN buffers /\ flex \in Files
        /\ importInfoStack \in Seq(Module)
    BY FileFacts DEF OrderInv
  <1>2. CASE Reads
    <2>1. PICK kind :
           /\ Read(kind)
           /\ kind = "FROM" => /\ phase' = "parse"
                               /\ Len(importInfoStack') = Len(importInfoStack) + 1
           /\ kind # "FROM" => importInfoStack' = importInfoStack
           /\ kind = "CLASH" => phase' = "clash"
           /\ kind = "BAD" => phase' = "documented"
           /\ kind \notin {"FROM", "CLASH", "SEMI", "BAD"} =>
                phase' = "parse" /\ importInfoStack = <<>>
      BY <1>1, <1>2, QueueRead
    <2>2. PICK f, p, n : f = flex /\ p = buffers[flex].pos /\ n = Len(importInfoStack)
      OBVIOUS
    <2>3. /\ phase = "parse" /\ flex' = f /\ f \in Files /\ p \in Nat /\ n \in Nat
          /\ buffers'[f].pos = p + 1 /\ Kind(f, p + 1) = kind
          /\ DOMAIN buffers' = Files
          /\ \A b \in Files : \A i : Kind(b, i)' = Kind(b, i)
      BY <1>1, <2>1, <2>2, ReadShape, FileFacts DEF SameText
    <2> SUFFICES ASSUME NEW b \in Files, NEW i \in 1..buffers'[b].pos, Kind(b, i) = "FROM"
                 PROVE  \/ Closed(b, i)'
                        \/ b = f /\ phase' \in {"clash", "documented"}
                        \/ b = f /\ phase' = "parse" /\ i > (p + 1) - Len(importInfoStack')
      BY <2>3 DEF ClausesClosed
    <2>4. CASE i \in 1..buffers[b].pos
      <3>1. CASE Closed(b, i)
        BY <2>1, <3>1, ReadLines
      <3>2. CASE b = f /\ i > p - n
        <4>1. CASE kind = "FROM"
          BY <2>1, <2>2, <2>3, <3>2, <4>1
        <4>2. CASE kind = "SEMI"
          <5>1. PICK k : k = p + 1
            OBVIOUS
          <5>2. k \in (i + 1)..buffers'[b].pos /\ Kind(b, k)' = "SEMI"
            BY <2>2, <2>3, <2>4, <3>2, <4>2, <5>1
          <5> QED
            BY <5>2 DEF Closed
        <4>3. CASE kind \in {"CLASH", "BAD"}
          BY <2>1, <3>2, <4>3
        <4>4. CASE kind \notin {"FROM", "CLASH", "SEMI", "BAD"}
          <5>1. n = 0
            BY <2>1, <2>2, <4>4, EmptySeq
          <5> QED
            BY <2>2, <2>3, <2>4, <3>2, <5>1
        <4> QED
          BY <4>1, <4>2, <4>3, <4>4
      <3> QED
        BY <1>1, <2>2, <2>3, <2>4, <3>1, <3>2 DEF ClausesClosed
    <2>5. CASE b = f /\ i = p + 1
      <3>1. ClausesQueued
        BY <1>1
      <3>2. kind = "FROM" /\ n <= p
        BY <2>2, <2>3, <2>5, <3>1 DEF ClausesQueued
      <3>3. i > (p + 1) - (n + 1)
        BY <2>3, <2>5
      <3> QED
        BY <2>1, <2>2, <2>5, <3>2, <3>3
    <2> QED
      BY <2>1, <2>2, <2>4, <2>5, ReadLines
  <1>3. CASE importWorks
    <2> SUFFICES ASSUME NEW b \in DOMAIN buffers', NEW i \in 1..buffers'[b].pos,
                        Kind(b, i)' = "FROM"
                 PROVE  Closed(b, i)'
      BY DEF ClausesClosed
    <2>1. b # flex'
      BY <1>3, ImportShape
    <2>2. /\ b \in Files /\ buffers'[b] = buffers[b] /\ phase = "import"
          /\ \A k : Kind(b, k)' = Kind(b, k)
      BY <1>3, <2>1, ImportShape DEF SameText
    <2>3. Closed(b, i)
      BY <1>1, <2>2 DEF ClausesClosed
    <2> QED
      BY <2>2, <2>3 DEF Closed
  <1>4. CASE EofOfImport
    <2>1. /\ AtEof /\ phase = "parse"
          /\ DOMAIN buffers' = Files
          /\ \A b \in Files : /\ buffers'[b].pos = buffers[b].pos
                              /\ \A i : Kind(b, i)' = Kind(b, i)
      BY <1>4, ResumeShape DEF EofOfImport, SameText
    <2>2. Len(importInfoStack) = 0
      BY <1>1, <2>1, QueueEmpty, EmptySeq
    <2> SUFFICES ASSUME NEW b \in Files, NEW i \in 1..buffers'[b].pos, Kind(b, i)' = "FROM"
                 PROVE  Closed(b, i)'
      BY <2>1 DEF ClausesClosed
    <2>3. ~(b = flex /\ i > buffers[flex].pos - Len(importInfoStack))
      BY <1>1, <2>1, <2>2, FileFacts
    <2>4. Closed(b, i)
      BY <1>1, <2>1, <2>3 DEF ClausesClosed
    <2> QED
      BY <2>1, <2>4 DEF Closed
  <1>5. CASE Stops
    <2>1. /\ UNCHANGED <<buffers, flex, importInfoStack>> /\ Files = DOMAIN buffers'
          /\ \A b \in Files : \A i : Kind(b, i)' = Kind(b, i)
      BY <1>1, <1>5, StopText DEF Stops, SameText
    <2>2. phase' = phase \/ phase = "import" \/ (phase = "parse" /\ AtEof)
      BY <1>5 DEF Stops
    <2>3. phase = "parse" /\ AtEof => Len(importInfoStack) = 0
      BY <1>1, QueueEmpty, EmptySeq
    <2> SUFFICES ASSUME NEW b \in Files, NEW i \in 1..buffers[b].pos, Kind(b, i) = "FROM"
                 PROVE  \/ Closed(b, i)'
                        \/ b = flex /\ phase' \in {"clash", "documented"}
                        \/ /\ b = flex /\ phase' = "parse"
                           /\ i > buffers[flex].pos - Len(importInfoStack)
      BY <2>1 DEF ClausesClosed
    <2>4. Closed(b, i) => Closed(b, i)'
      BY <2>1 DEF Closed
    <2>5. \/ Closed(b, i)
          \/ b = flex /\ phase \in {"clash", "documented"}
          \/ b = flex /\ phase = "parse" /\ i > buffers[flex].pos - Len(importInfoStack)
      BY <1>1 DEF ClausesClosed
    <2>6. Len(importInfoStack) = 0 => ~(b = flex /\ i > buffers[flex].pos - Len(importInfoStack))
      BY <1>1, FileFacts
    <2> QED
      BY <2>2, <2>3, <2>4, <2>5, <2>6
  <1>6. QED
    BY <1>2, <1>3, <1>4, <1>5, NextShape

LEMMA ServedStep ==
  ASSUME IInv, OrderInv, ClausesFit, [Next]_vars
  PROVE  ClausesServed'
  <1>1. /\ ClausesQueued /\ ClausesClosed /\ ClausesServed /\ Files = DOMAIN buffers
        /\ flex \in Files /\ importInfoStack \in Seq(Module)
    BY FileFacts DEF OrderInv
  <1>2. CASE Reads
    <2>1. PICK kind :
           /\ Read(kind)
           /\ kind # "FROM" => importInfoStack' = importInfoStack
           /\ kind = "SEMI" => phase' = IF importInfoStack # <<>> THEN "import" ELSE "parse"
      BY <1>1, <1>2, QueueRead
    <2>2. PICK f, p : f = flex /\ p = buffers[flex].pos
      OBVIOUS
    <2>3. /\ phase = "parse" /\ flex' = f /\ f \in Files /\ p \in Nat
          /\ Kind(f, p + 1) = kind /\ DOMAIN buffers' = Files
          /\ \A b \in Files : /\ buffers'[b].mod = buffers[b].mod
                              /\ buffers'[b].pos = IF b = f THEN p + 1 ELSE buffers[b].pos
                              /\ buffers[b].pos \in Nat
                              /\ \A i : Kind(b, i)' = Kind(b, i) /\ Need(b, i)' = Need(b, i)
      BY <1>1, <2>1, <2>2, ReadShape, FileFacts DEF SameText
    <2> SUFFICES ASSUME NEW b \in Files, NEW i \in 1..buffers'[b].pos, Kind(b, i) = "FROM",
                        Closed(b, i)'
                 PROVE  \/ \E c \in Files : c > b /\ buffers[c].mod = Need(b, i)
                        \/ /\ phase' = "import"
                           /\ \E j \in 1..Len(importInfoStack') :
                                importInfoStack'[j] = Need(b, i)
      BY <2>3 DEF ClausesServed, OpenedAfter
    <2>4. PICK k \in (i + 1)..buffers'[b].pos : Kind(b, k) = "SEMI"
      BY <2>3 DEF Closed
    <2>5. i \in 1..buffers[b].pos
      BY <2>2, <2>3, <2>4
    <2>6. CASE Closed(b, i)
      BY <1>1, <2>3, <2>5, <2>6 DEF ClausesServed, OpenedAfter
    <2>7. CASE ~Closed(b, i)
      <3>1. k \notin (i + 1)..buffers[b].pos
        BY <2>4, <2>7 DEF Closed
      <3>2. b = f /\ k = p + 1
        BY <2>2, <2>3, <2>4, <3>1
      <3>3. kind = "SEMI" /\ i > p - Len(importInfoStack)
        BY <1>1, <2>2, <2>3, <2>4, <2>5, <2>7, <3>2 DEF ClausesClosed
      <3>4. i \in (p - Len(importInfoStack) + 1)..p
        BY <1>1, <2>2, <2>3, <2>5, <3>2, <3>3, FileFacts
      <3>5. PICK j \in 1..Len(importInfoStack) : importInfoStack[j] = Need(b, i)
        BY <1>1, <2>2, <2>3, <3>2, <3>4, QueueIndex
      <3>6. importInfoStack # <<>>
        BY <1>1, <3>5, EmptySeq
      <3> QED
        BY <2>1, <3>3, <3>5, <3>6
    <2> QED
      BY <2>6, <2>7
  <1>3. CASE importWorks
    <2>1. PICK n, f : n = Len(importInfoStack) /\ f = flex'
      OBVIOUS
    <2>2. /\ DOMAIN buffers' = Files \cup {f} /\ f \notin Files /\ phase = "import"
          /\ \A b \in Files : b < f /\ buffers'[b] = buffers[b]
          /\ buffers'[f].mod = Top(importInfoStack) /\ buffers'[f].pos = 0
          /\ importInfoStack # <<>> /\ importInfoStack' = pop(importInfoStack)
          /\ phase' = IF n = 1 THEN "parse" ELSE "import"
          /\ \A b \in Files : \A i : Kind(b, i)' = Kind(b, i) /\ Need(b, i)' = Need(b, i)
      BY <1>3, <2>1, ImportShape DEF LastClause, SameText
    <2>3. /\ n \in Nat \ {0} /\ Len(importInfoStack') = n - 1
          /\ \A i \in 1..(n - 1) : importInfoStack'[i] = importInfoStack[i]
      BY <1>1, <2>1, <2>2, PopFacts
    <2> SUFFICES ASSUME NEW b \in DOMAIN buffers', NEW i \in 1..buffers'[b].pos,
                        Kind(b, i)' = "FROM", Closed(b, i)'
                 PROVE  \/ \E c \in DOMAIN buffers' : c > b /\ buffers'[c].mod = Need(b, i)'
                        \/ /\ phase' = "import"
                           /\ \E j \in 1..Len(importInfoStack') :
                                importInfoStack'[j] = Need(b, i)'
      BY DEF ClausesServed, OpenedAfter
    <2>4. b \in Files /\ buffers'[b] = buffers[b]
      BY <2>2
    <2>5. Closed(b, i) /\ Kind(b, i) = "FROM" /\ Need(b, i)' = Need(b, i)
      BY <2>2, <2>4 DEF Closed
    <2>6. CASE OpenedAfter(b, Need(b, i))
      BY <1>1, <2>2, <2>5, <2>6 DEF OpenedAfter
    <2>7. CASE \E j \in 1..n : importInfoStack[j] = Need(b, i)
      <3>1. PICK j \in 1..n : importInfoStack[j] = Need(b, i)
        BY <2>7
      <3>2. CASE j = n
        BY <2>1, <2>2, <2>4, <2>5, <3>1, <3>2 DEF Top
      <3>3. CASE j # n
        <4>1. j \in 1..(n - 1) /\ n # 1
          BY <2>3, <3>3
        <4> QED
          BY <2>2, <2>3, <2>5, <3>1, <4>1
      <3> QED
        BY <3>2, <3>3
    <2> QED
      BY <1>1, <2>1, <2>4, <2>5, <2>6, <2>7 DEF ClausesServed
  <1>4. CASE EofOfImport
    <2>1. /\ phase = "parse" /\ DOMAIN buffers' = Files
          /\ \A b \in Files : /\ buffers'[b].pos = buffers[b].pos
                              /\ buffers'[b].mod = buffers[b].mod
                              /\ \A i : Kind(b, i)' = Kind(b, i) /\ Need(b, i)' = Need(b, i)
      BY <1>4, ResumeShape DEF SameText
    <2> SUFFICES ASSUME NEW b \in Files, NEW i \in 1..buffers[b].pos, Kind(b, i) = "FROM",
                        Closed(b, i)'
                 PROVE  \E c \in Files : c > b /\ buffers'[c].mod = Need(b, i)
      BY <2>1 DEF ClausesServed, OpenedAfter
    <2>2. Closed(b, i)
      BY <2>1 DEF Closed
    <2> QED
      BY <1>1, <2>1, <2>2 DEF ClausesServed, OpenedAfter
  <1>5. CASE Stops
    <2>1. /\ UNCHANGED <<buffers, flex, importInfoStack>> /\ Files = DOMAIN buffers'
          /\ \A b \in Files : \A i : Kind(b, i)' = Kind(b, i) /\ Need(b, i)' = Need(b, i)
      BY <1>1, <1>5, StopText DEF Stops, SameText
    <2>2. phase \in {"import", "noFile"} => phase' \in {"import", "noFile"}
      BY <1>5 DEF Stops
    <2> SUFFICES ASSUME NEW b \in Files, NEW i \in 1..buffers[b].pos, Kind(b, i) = "FROM",
                        Closed(b, i)'
                 PROVE  \/ \E c \in Files : c > b /\ buffers[c].mod = Need(b, i)
                        \/ /\ phase' \in {"import", "noFile"}
                           /\ \E j \in 1..Len(importInfoStack) : importInfoStack[j] = Need(b, i)
      BY <2>1 DEF ClausesServed, OpenedAfter
    <2>3. Closed(b, i)
      BY <2>1 DEF Closed
    <2> QED
      BY <1>1, <2>2, <2>3 DEF ClausesServed, OpenedAfter
  <1>6. QED
    BY <1>2, <1>3, <1>4, <1>5, NextShape

LEMMA UnknownStep ==
  ASSUME IInv, OrderInv, ImportsFirst, [Next]_vars
  PROVE  UnknownAreOwn'
  <1>1. UnknownAreOwn /\ flex \in Files
    BY FileFacts DEF OrderInv
  <1>2. CASE Reads
    <2>1. PICK kind :
            /\ Read(kind)
            /\ phase' = IF kind = "CLASH" THEN "clash"
                        ELSE IF kind = "BAD" THEN "documented"
                        ELSE IF kind = "SEMI" /\ importInfoStack # <<>> THEN "import"
                        ELSE phase
            /\ typeTbl' = IF kind = "TYPE" THEN typeTbl \cup {NextLine.arg} ELSE typeTbl
            /\ pendingTypes' = IF kind = "USE" /\ NextLine.arg \notin typeTbl
                               THEN pendingTypes \cup {NextLine.arg} ELSE pendingTypes
      BY <1>2, ReadsRead
    <2>2. PICK f, p : f = flex /\ p = buffers[flex].pos
      OBVIOUS
    <2>3. /\ phase = "parse" /\ flex' = f /\ f \in Files /\ p \in Nat
          /\ buffers'[f].pos = p + 1 /\ p + 1 \in 1..Len(TextOf(f))
          /\ Kind(f, p + 1) = kind /\ NextLine.arg = Arg(f, p + 1)
          /\ \A i : Kind(f, i)' = Kind(f, i) /\ Arg(f, i)' = Arg(f, i)
      BY <1>1, <2>1, <2>2, ReadShape, FileFacts DEF SameText
    <2>4. ASSUME kind = "SEMI", NEW t \in pendingTypes \ typeTbl PROVE FALSE
      <3>1. PICK i \in 1..p : Kind(f, i) = "USE"
        BY <1>1, <2>2, <2>4 DEF UnknownAreOwn
      <3>2. PICK m \in DOMAIN text : TextOf(f) = text[m] /\ Len(text[m]) \in Nat
                                     /\ DOMAIN text[m] = 1..Len(text[m])
        BY <2>3, FileFacts, LenProperties, SwitchAssumption
      <3>3. i \in DOMAIN text[m] /\ p + 1 \in DOMAIN text[m]
        BY <2>3, <3>1, <3>2
      <3>4. p + 1 < i
        BY <2>3, <2>4, <3>1, <3>2, <3>3 DEF ImportsFirst, Kind
      <3> QED
        BY <2>3, <3>1, <3>4
    <2>5. phase' = "import" => pendingTypes' \subseteq typeTbl'
      BY <2>1, <2>3, <2>4
    <2>6. ASSUME NEW t \in pendingTypes' \ typeTbl'
          PROVE  \E i \in 1..(p + 1) : Kind(f, i) = "USE" /\ Arg(f, i) = t
      <3>1. CASE t \in pendingTypes
        <4>1. PICK i \in 1..p : Kind(f, i) = "USE" /\ Arg(f, i) = t
          BY <1>1, <2>1, <2>2, <2>6, <3>1 DEF UnknownAreOwn
        <4> QED
          BY <2>3, <4>1
      <3>2. CASE t \notin pendingTypes
        BY <2>1, <2>3, <2>6, <3>2
      <3> QED
        BY <3>1, <3>2
    <2>7. \A t \in pendingTypes' \ typeTbl' :
            \E i \in 1..buffers'[f].pos : Kind(f, i)' = "USE" /\ Arg(f, i)' = t
      BY <2>3, <2>6
    <2> QED
      BY <2>3, <2>5, <2>7 DEF UnknownAreOwn, Kind, Arg, TextOf
  <1>3. CASE importWorks
    BY <1>1, <1>3, ImportShape DEF UnknownAreOwn
  <1>4. CASE EofOfImport
    BY <1>4, ResumeShape DEF UnknownAreOwn
  <1>5. CASE Stops
    BY <1>1, <1>5 DEF UnknownAreOwn, Stops, Kind, Arg, TextOf
  <1>6. QED
    BY <1>2, <1>3, <1>4, <1>5, NextShape

LEMMA SameHypotheses ==
  ASSUME [Next]_vars, IInv
  PROVE  text' = text /\ ClausesFit' = ClausesFit /\ ImportsFirst' = ImportsFirst
  <1>1. text' = text
    <2>1. Reads => text' = text
      BY ReadsRead, ReadShape
    <2>2. QED
      BY <2>1, NextShape, ImportShape, ResumeShape DEF Stops
  <1>2. QED
    BY <1>1 DEF ClausesFit, ImportsFirst

LEMMA InitOrderInv ==
  ASSUME Init
  PROVE  OrderInv
  <1>1. /\ DOMAIN buffers = {1} /\ flex = 1 /\ buffers[1].pos = 0 /\ buffers[1].live
        /\ phase = "parse" /\ importInfoStack = <<>> /\ pendingTypes = {}
        /\ typeTbl = BuiltIn
    BY DEF Init
  <1>2. \A b \in DOMAIN buffers : 1..buffers[b].pos = {}
    BY <1>1
  <1>3. FilesNest
    BY <1>1 DEF FilesNest
  <1>4. AllCollected /\ TypesEntered /\ SecondPassDone
    BY <1>1, <1>2 DEF AllCollected, TypesEntered, SecondPassDone
  <1>5. ClausesQueued
    BY <1>1, EmptySeq DEF ClausesQueued
  <1>6. ClausesClosed /\ ClausesServed
    BY <1>2 DEF ClausesClosed, ClausesServed
  <1>7. UnknownAreOwn
    BY <1>1 DEF UnknownAreOwn
  <1>8. QED
    BY <1>3, <1>4, <1>5, <1>6, <1>7 DEF OrderInv

LEMMA OrderInvariance == Spec => [](IInv /\ OrderInv)
  <1>1. IInv /\ OrderInv /\ [Next]_vars => OrderInv'
    <2>1. SUFFICES ASSUME IInv, OrderInv, [Next]_vars PROVE OrderInv'
      OBVIOUS
    <2>2. ClausesFit' = ClausesFit /\ ImportsFirst' = ImportsFirst
      BY <2>1, SameHypotheses
    <2>3. FilesNest' /\ AllCollected' /\ TypesEntered' /\ SecondPassDone'
      BY <2>1, FilesNestStep, CollectedStep, TypesStep, SecondPassStep
    <2>4. ClausesFit => (ClausesQueued' /\ ClausesClosed' /\ ClausesServed')
      BY <2>1, QueuedStep, ClosedStep, ServedStep
    <2>5. ImportsFirst => UnknownAreOwn'
      BY <2>1, UnknownStep
    <2>6. QED
      BY <2>2, <2>3, <2>4, <2>5 DEF OrderInv
  <1>2. Init => OrderInv
    BY InitOrderInv
  <1>3. QED
    BY Invariance, <1>1, <1>2, PTL DEF Spec

-----------------------------------------------------------------------------
(***************************************************************************)
(* What the order of reading gives.                                        *)
(***************************************************************************)
\* A file that was opened after the one being read has been read to its end.
LEMMA LaterFilesRead ==
  ASSUME IInv, OrderInv, NEW c \in Files, c > flex
  PROVE  ~buffers[c].live /\ buffers[c].pos = Len(TextOf(c))
  <1>1. c \in Nat /\ flex \in Nat /\ Files = DOMAIN buffers
    BY FileFacts
  <1>2. ~(c = flex) /\ \A i \in DOMAIN swStack : swStack[i].bufferInfo # c
    <2>1. ASSUME NEW i \in DOMAIN swStack PROVE swStack[i].bufferInfo # c
      <3>1. swStack[i].bufferInfo \in Files /\ swStack[i].bufferInfo < flex
        BY <1>1 DEF IInv, SuspendedBuffersLive
      <3>2. QED
        BY <1>1, <3>1, FileFacts
    <2>2. QED
      BY <1>1, <2>1
  <1>3. QED
    BY <1>1, <1>2 DEF OrderInv, FilesNest

\* When a clause was served, a later file holds the module it names.
LEMMA ImportsFinished ==
  ASSUME IInv, OrderInv, ClausesFit, phase \notin {"import", "noFile"},
         NEW b \in Files, NEW i \in 1..buffers[b].pos, Kind(b, i) = "FROM", Closed(b, i),
         b = flex \/ b > flex
  PROVE  \E c \in Files : /\ c > flex /\ c > b /\ buffers[c].mod = Need(b, i)
                          /\ ~buffers[c].live /\ buffers[c].pos = Len(TextOf(c))
  <1>1. PICK c \in Files : c > b /\ buffers[c].mod = Need(b, i)
    BY FileFacts DEF OrderInv, ClausesServed, OpenedAfter
  <1>2. c > flex
    <2>1. b \in Nat /\ c \in Nat /\ flex \in Nat
      BY FileFacts
    <2>2. QED
      BY <1>1, <2>1
  <1>3. QED
    BY <1>1, <1>2, LaterFilesRead

\* When a line below an IMPORTS is read, the definitions of the modules it names
\* have all been through symbolCollecting, if importInfoStack could hold its clauses.
THEOREM ImportsAreResolved == Spec /\ ClausesFit => []ImportsResolved
  <1>1. IInv /\ OrderInv /\ ClausesFit => ImportsResolved
    <2>1. SUFFICES ASSUME IInv, OrderInv, ClausesFit, phase = "parse",
                          NEW i \in 1..buffers[flex].pos, NEW k \in 1..buffers[flex].pos,
                          i < k, Kind(flex, i) = "FROM", Kind(flex, k) = "SEMI",
                          NEW j \in DOMAIN text[Need(flex, i)],
                          text[Need(flex, i)][j].kind = "DEF"
                   PROVE  <<Need(flex, i), j>> \in collected
      BY DEF ImportsResolved, Kind, Need, Arg
    <2>2. flex \in Files /\ Closed(flex, i)
      <3>1. k \in (i + 1)..buffers[flex].pos
        BY <2>1, FileFacts
      <3>2. QED
        BY <2>1, <3>1, FileFacts DEF Closed
    <2>3. PICK c \in Files : /\ c > flex /\ buffers[c].mod = Need(flex, i)
                             /\ buffers[c].pos = Len(TextOf(c))
      BY <2>1, <2>2, ImportsFinished
    <2>4. c # 1 /\ c \in DOMAIN buffers
      BY <2>1, <2>2, <2>3, FileFacts DEF Files
    <2>5. j \in 1..buffers[c].pos /\ Kind(c, j) = "DEF"
      <3>1. TextOf(c) = text[Need(flex, i)] /\ TextOf(c) \in Seq(Line)
        BY <2>1, <2>3, Current DEF TextOf, IInv, Files
      <3>2. QED
        BY <2>1, <2>3, <3>1, LenProperties DEF Kind
    <2>6. QED
      BY <2>1, <2>3, <2>4, <2>5 DEF OrderInv, AllCollected
  <1>2. IInv /\ ClausesFit /\ [Next]_vars => ClausesFit'
    BY SameHypotheses
  <1>3. QED
    BY OrderInvariance, <1>1, <1>2, PTL DEF Spec

\* When all was parsed, every type that any file used is in the type table.
THEOREM TypesAreKnown == Spec => []UsedTypesKnown
  <1>1. IInv /\ OrderInv => UsedTypesKnown
    <2>1. SUFFICES ASSUME IInv, OrderInv, ParsedAll, NEW b \in DOMAIN buffers,
                          NEW i \in 1..buffers[b].pos, Kind(b, i) = "USE"
                   PROVE  Arg(b, i) \in typeTbl
      BY DEF UsedTypesKnown, Kind, Arg
    <2>2. pendingTypes \subseteq typeTbl
      BY <2>1 DEF OrderInv, SecondPassDone, ParsedAll, Kind
    <2>3. QED
      BY <2>1, <2>2 DEF OrderInv, TypesEntered
  <1>2. QED
    BY OrderInvariance, <1>1, PTL

\* "Unknow type" stops the program only over a type that no visible file defines.
LEMMA OnlyTrueTypeErrors ==
  ASSUME IInv, OrderInv, ClausesFit, ImportsFirst
  PROVE  NoSpuriousTypeError
  <1>1. SUFFICES ASSUME phase = "badType"
                 PROVE  \E t \in Named(buffers[flex].mod, "USE") \ BuiltIn :
                          \A m \in Visible(buffers[flex].mod) : t \notin Named(m, "TYPE")
    BY DEF NoSpuriousTypeError
  <1>2. PICK F : F = {c \in Files : c = flex \/ c > flex}
    OBVIOUS
  <1>3. PICK S : S = {buffers[c].mod : c \in F}
    OBVIOUS
  <1>4. /\ flex \in F /\ F \subseteq Files /\ Files = DOMAIN buffers
        /\ \A c \in F : /\ buffers[c].mod \in DOMAIN text
                        /\ TextOf(c) = text[buffers[c].mod]
                        /\ DOMAIN text[buffers[c].mod] = 1..buffers[c].pos
    <2>1. \A c \in F : buffers[c].pos = Len(TextOf(c))
      BY <1>1, <1>2, LaterFilesRead DEF OrderInv, SecondPassDone, AtEof
    <2>2. \A c \in F : DOMAIN TextOf(c) = 1..Len(TextOf(c))
      BY <1>2, Current, LenProperties DEF IInv, Files
    <2>3. QED
      BY <1>2, <2>1, <2>2, FileFacts
  <1>5. \A y \in S : ImportsOf(y) \subseteq S
    <2>1. SUFFICES ASSUME NEW c \in F, NEW i \in DOMAIN text[buffers[c].mod],
                          text[buffers[c].mod][i].kind = "FROM"
                   PROVE  moduleAliasTrans(text[buffers[c].mod][i].arg) \in S
      BY <1>3 DEF ImportsOf, Named
    <2>2. /\ c \in Files /\ i \in 1..buffers[c].pos /\ Kind(c, i) = "FROM"
          /\ Need(c, i) = moduleAliasTrans(text[buffers[c].mod][i].arg)
      BY <1>4, <2>1 DEF Kind, Need, Arg
    <2>3. Closed(c, i)
      BY <1>1, <1>4, <2>2 DEF OrderInv, ClausesClosed
    <2>4. PICK d \in Files : d > flex /\ buffers[d].mod = Need(c, i)
      BY <1>1, <1>2, <2>1, <2>2, <2>3, ImportsFinished
    <2>5. QED
      BY <1>2, <1>3, <2>2, <2>4
  <1>6. Visible(buffers[flex].mod) \subseteq S
    <2>1. S \in SUBSET DOMAIN text /\ buffers[flex].mod \in S
      BY <1>3, <1>4
    <2>2. QED
      BY <1>5, <2>1 DEF Visible
  <1>7. PICK t \in pendingTypes \ typeTbl : TRUE
    BY <1>1 DEF OrderInv, SecondPassDone
  <1>8. t \in Named(buffers[flex].mod, "USE") \ BuiltIn
    <2>1. PICK i \in 1..buffers[flex].pos : Kind(flex, i) = "USE" /\ Arg(flex, i) = t
      BY <1>7 DEF OrderInv, UnknownAreOwn
    <2>2. t \notin BuiltIn
      BY <1>7 DEF OrderInv, TypesEntered
    <2>3. QED
      BY <1>4, <2>1, <2>2 DEF Named, Kind, Arg
  <1>9. ASSUME NEW m \in S PROVE t \notin Named(m, "TYPE")
    <2>1. PICK c \in F : m = buffers[c].mod
      BY <1>3
    <2>2. ASSUME NEW i \in DOMAIN text[m], text[m][i].kind = "TYPE" PROVE text[m][i].arg # t
      <3>1. i \in 1..buffers[c].pos /\ Kind(c, i) = "TYPE" /\ Arg(c, i) = text[m][i].arg
        BY <1>4, <2>1, <2>2 DEF Kind, Arg
      <3>2. Arg(c, i) \in typeTbl
        BY <1>4, <2>1, <3>1 DEF OrderInv, TypesEntered
      <3>3. QED
        BY <1>7, <3>1, <3>2
    <2>3. QED
      BY <2>2 DEF Named
  <1>10. QED
    BY <1>6, <1>8, <1>9

\* Two-pass type checking is complete, and sound where the IMPORTS of a file stand
\* above its types and importInfoStack holds their clauses.
THEOREM TypeErrorsAreTrue == Spec /\ ClausesFit /\ ImportsFirst => []TypeErrorsTrue
  <1>1. IInv /\ OrderInv /\ ClausesFit /\ ImportsFirst => NoSpuriousTypeError
    BY OnlyTrueTypeErrors
  <1>2. IInv /\ ClausesFit /\ ImportsFirst /\ [Next]_vars => ClausesFit' /\ ImportsFirst'
    BY SameHypotheses
  <1>3. UsedTypesKnown /\ NoSpuriousTypeError => TypeErrorsTrue
    BY DEF TypeErrorsTrue
  <1>4. QED
    BY OrderInvariance, TypesAreKnown, <1>1, <1>2, <1>3, PTL DEF Spec

-----------------------------------------------------------------------------
(***************************************************************************)
(* The order of DependencyOrder, read off the state of the parser.         *)
(***************************************************************************)
Needs     == [m \in DOMAIN text |-> ImportsOf(m)]
NeedsAt   == [i \in DOMAIN text[Main] |->
                {moduleAliasTrans(text[Main][j].arg) :
                   j \in {k \in 1..i : text[Main][k].kind = "FROM"}}]
Finished  == {buffers[b].mod : b \in {c \in DOMAIN buffers : ~buffers[c].live}}
Published == {d[2] : d \in generated}

LEMMA OrderInit ==
  ASSUME Init
  PROVE  Finished = {} /\ Published = {}
  <1>1. DOMAIN buffers = {1} /\ buffers[1].live /\ generated = {}
    BY DEF Init
  <1>2. QED
    BY <1>1 DEF Finished, Published

LEMMA OrderConstants ==
  ASSUME text' = text
  PROVE  Needs' = Needs /\ NeedsAt' = NeedsAt
  BY DEF Needs, NeedsAt, ImportsOf, Named

\* Reading a line of any file leaves the finished files what they are.
LEMMA SameFinished ==
  ASSUME IInv, SameText, Files' = Files, DOMAIN buffers' = Files,
         \A b \in Files : buffers'[b].live = buffers[b].live
  PROVE  Finished' = Finished
  <1>1. Files = DOMAIN buffers /\ \A b \in Files : buffers'[b].mod = buffers[b].mod
    BY FileFacts DEF SameText
  <1>2. QED
    BY <1>1 DEF Finished

\* switchToPrevModule finishes the file it leaves, whose imports are finished.
LEMMA FinishStep ==
  ASSUME IInv, OrderInv, ClausesFit, EofOfImport
  PROVE  \E m \in DOMAIN Needs : /\ Needs[m] \subseteq Finished
                                 /\ Finished' = Finished \cup {m}
                                 /\ Published' = Published
  <1>1. PICK m : m = buffers[flex].mod
    OBVIOUS
  <1>2. /\ flex \in Files /\ Files = DOMAIN buffers /\ m \in DOMAIN text
        /\ TextOf(flex) = text[m] /\ TextOf(flex) \in Seq(Line)
    BY <1>1, FileFacts, Current DEF IInv, Files
  <1>3. /\ DOMAIN buffers' = Files /\ phase = "parse" /\ generated' = generated
        /\ buffers[flex].pos = Len(TextOf(flex)) /\ AtEof
        /\ \A b \in Files : /\ buffers'[b].mod = buffers[b].mod
                            /\ buffers'[b].live = (b # flex /\ buffers[b].live)
    BY ResumeShape DEF SameText, EofOfImport
  <1>4. DOMAIN text[m] = 1..buffers[flex].pos
    BY <1>2, <1>3, LenProperties
  <1>5. Len(importInfoStack) = 0
    BY <1>3, QueueEmpty, EmptySeq DEF OrderInv
  <1>6. Needs[m] \subseteq Finished
    <2>1. SUFFICES ASSUME NEW i \in DOMAIN text[m], text[m][i].kind = "FROM"
                   PROVE  moduleAliasTrans(text[m][i].arg) \in Finished
      BY <1>2 DEF Needs, ImportsOf, Named
    <2>2. /\ i \in 1..buffers[flex].pos /\ Kind(flex, i) = "FROM"
          /\ Need(flex, i) = moduleAliasTrans(text[m][i].arg)
      BY <1>2, <1>4, <2>1 DEF Kind, Need, Arg
    <2>3. ~(i > buffers[flex].pos - Len(importInfoStack))
      BY <1>2, <1>5, <2>2, FileFacts
    <2>4. Closed(flex, i)
      BY <1>2, <1>3, <2>2, <2>3 DEF OrderInv, ClausesClosed
    <2>5. PICK c \in Files : buffers[c].mod = Need(flex, i) /\ ~buffers[c].live
      BY <1>2, <1>3, <2>2, <2>4, ImportsFinished
    <2>6. QED
      BY <1>2, <2>2, <2>5 DEF Finished
  <1>7. Finished' = Finished \cup {m}
    BY <1>1, <1>2, <1>3 DEF Finished
  <1>8. QED
    BY <1>2, <1>3, <1>6, <1>7 DEF Needs, Published

\* A line of the main MIB enters the document when all it needs is finished.
LEMMA PublishStep ==
  ASSUME IInv, OrderInv, ClausesFit, NEW kind \in {"DEF", "END"}, Read(kind),
         mode = "DOC_GENERATING", generated' = generated \cup {Here}
  PROVE  \E i \in DOMAIN NeedsAt : /\ i \notin Published /\ NeedsAt[i] \subseteq Finished
                                   /\ Published' = Published \cup {i}
                                   /\ Finished' = Finished
  <1>1. PICK i : i = buffers[1].pos + 1
    OBVIOUS
  <1>2. /\ flex = 1 /\ swStack = <<>> /\ buffers[1].mod = Main
        /\ generated = {<<1, j>> : j \in {k \in 1..buffers[1].pos :
                                            text[Main][k].kind \in {"DEF", "END"}}}
    BY DEF IInv, ModeFollowsFile, SuspendedBuffersLive, StackBelowBuffers,
           DocumentIsMainText
  <1>3. /\ 1 \in Files /\ Files = DOMAIN buffers /\ buffers[1].pos \in Nat
        /\ TextOf(1) = text[Main] /\ Len(TextOf(1)) \in Nat
        /\ DOMAIN text[Main] = 1..Len(TextOf(1))
    BY <1>2, FileFacts, Current, LenProperties DEF IInv, Files
  <1>4. /\ i \in 1..Len(TextOf(1)) /\ Kind(1, i) = kind /\ phase = "parse"
        /\ Here = <<1, i>> /\ Finished' = Finished
    BY <1>1, <1>2, ReadShape, SameFinished
  <1>5. i \in DOMAIN NeedsAt
    BY <1>3, <1>4 DEF NeedsAt
  <1>6. Len(importInfoStack) = 0
    BY <1>1, <1>2, <1>4, QueueEmpty, EmptySeq DEF OrderInv
  <1>7. NeedsAt[i] \subseteq Finished
    <2>1. SUFFICES ASSUME NEW j \in 1..i, text[Main][j].kind = "FROM"
                   PROVE  moduleAliasTrans(text[Main][j].arg) \in Finished
      BY <1>3, <1>4 DEF NeedsAt
    <2>2. /\ Kind(1, j) = "FROM" /\ Need(1, j) = moduleAliasTrans(text[Main][j].arg)
      BY <1>3, <2>1 DEF Kind, Need, Arg
    <2>3. j \in 1..buffers[1].pos
      <3>1. j # i
        BY <1>4, <2>2
      <3>2. QED
        BY <1>1, <1>3, <3>1
    <2>4. ~(j > buffers[1].pos - Len(importInfoStack))
      BY <1>3, <1>6, <2>3
    <2>5. Closed(1, j)
      BY <1>2, <1>3, <1>4, <2>2, <2>3, <2>4 DEF OrderInv, ClausesClosed
    <2>6. PICK c \in Files : buffers[c].mod = Need(1, j) /\ ~buffers[c].live
      BY <1>2, <1>3, <1>4, <2>2, <2>3, <2>5, ImportsFinished
    <2>7. QED
      BY <1>3, <2>2, <2>6 DEF Finished
  <1>8. i \notin Published
    <2>1. SUFFICES ASSUME NEW d \in generated, d[2] = i
                   PROVE  FALSE
      BY DEF Published
    <2>2. PICK j \in 1..buffers[1].pos : d = <<1, j>>
      BY <1>2
    <2>3. QED
      BY <1>1, <1>3, <2>1, <2>2
  <1>9. Published' = Published \cup {i}
    BY <1>4 DEF Published
  <1>10. QED
    BY <1>4, <1>5, <1>7, <1>8, <1>9

\* Every other step leaves the finished files and the document alone.
LEMMA OrderStep ==
  ASSUME IInv, OrderInv, ClausesFit, [Next]_vars
  PROVE  \/ \E m \in DOMAIN Needs : /\ Needs[m] \subseteq Finished
                                    /\ Finished' = Finished \cup {m}
                                    /\ Published' = Published
         \/ \E i \in DOMAIN NeedsAt : /\ i \notin Published /\ NeedsAt[i] \subseteq Finished
                                      /\ Published' = Published \cup {i}
                                      /\ Finished' = Finished
         \/ Finished' = Finished /\ Published' = Published
  <1>1. CASE Reads
    <2>1. PICK kind \in {"FROM", "CLASH", "SEMI", "DEF", "END", "USE", "TYPE", "BAD"} :
            /\ Read(kind)
            /\ generated' = IF kind \in {"DEF", "END"} /\ mode = "DOC_GENERATING"
                            THEN generated \cup {Here} ELSE generated
      BY <1>1, ReadsRead
    <2>2. CASE kind \in {"DEF", "END"} /\ mode = "DOC_GENERATING"
      BY <2>1, <2>2, PublishStep
    <2>3. CASE ~(kind \in {"DEF", "END"} /\ mode = "DOC_GENERATING")
      BY <2>1, <2>3, ReadShape, SameFinished DEF Published
    <2>4. QED
      BY <2>2, <2>3
  <1>2. CASE importWorks
    <2>1. /\ Files = DOMAIN buffers /\ generated' = generated
          /\ DOMAIN buffers' = Files \cup {flex'} /\ buffers'[flex'].live
          /\ \A b \in Files : buffers'[b] = buffers[b]
      BY <1>2, ImportShape, FileFacts
    <2>2. QED
      BY <2>1 DEF Finished, Published
  <1>3. CASE EofOfImport
    BY <1>3, FinishStep
  <1>4. CASE Stops
    BY <1>4 DEF Stops, Finished, Published
  <1>5. QED
    BY <1>1, <1>2, <1>3, <1>4, NextShape

\* Where importInfoStack holds the clauses, the files are read in an order that
\* respects their imports: the parser implements DependencyOrder.
THEOREM OrderIsImplemented == Spec /\ ClausesFit => RespectsImports
  <1>1. Init => Order!Init
    BY OrderInit DEF Order!Init, Finished, Published
  <1>2. IInv /\ OrderInv /\ ClausesFit /\ [Next]_vars =>
          [Order!Next]_<<Needs, NeedsAt, Finished, Published>>
    <2>1. SUFFICES ASSUME IInv, OrderInv, ClausesFit, [Next]_vars
                   PROVE  [Order!Next]_<<Needs, NeedsAt, Finished, Published>>
      OBVIOUS
    <2>2. Needs' = Needs /\ NeedsAt' = NeedsAt
      BY <2>1, SameHypotheses, OrderConstants
    <2>3. CASE \E m \in DOMAIN Needs : /\ Needs[m] \subseteq Finished
                                       /\ Finished' = Finished \cup {m}
                                       /\ Published' = Published
      BY <2>2, <2>3 DEF Order!Next, Order!Finish, Needs, NeedsAt, Finished, Published
    <2>4. CASE \E i \in DOMAIN NeedsAt : /\ i \notin Published /\ NeedsAt[i] \subseteq Finished
                                         /\ Published' = Published \cup {i}
                                         /\ Finished' = Finished
      BY <2>2, <2>4 DEF Order!Next, Order!Publish, Needs, NeedsAt, Finished, Published
    <2>5. CASE Finished' = Finished /\ Published' = Published
      BY <2>2, <2>5
    <2>6. QED
      BY <2>1, <2>3, <2>4, <2>5, OrderStep
  <1>3. IInv /\ ClausesFit /\ [Next]_vars => ClausesFit'
    BY SameHypotheses
  <1>4. QED
    BY OrderInvariance, <1>1, <1>2, <1>3, PTL
    DEF Spec, RespectsImports, Order!Spec, Needs, NeedsAt, Finished, Published
=============================================================================
