-------------------------- MODULE CommandLineProofs --------------------------
(***************************************************************************)
(* The three passes of options.c over the command line agree, whatever     *)
(* words are on it and however many: argumentSplit stops at the words that *)
(* argumentChecking saw, and optionProcessing takes an option, and never   *)
(* the value of one, from the first half of a piece.                       *)
(***************************************************************************)
EXTENDS CommandLine, FiniteSetTheorems, WellFoundedInduction, SequenceTheorems, TLAPS

N == Len(argv)

TakesValue(i) == optAttr(argv[i]).withArgs

NextOption(i) == IF TakesValue(i) THEN i + 2 ELSE i + 1

Piece(i) == <<argv[i], IF TakesValue(i) THEN WordAt(i + 1) ELSE NULL>>

-----------------------------------------------------------------------------
(***************************************************************************)
(* The option register and the helpers.                                    *)
(***************************************************************************)
LEMMA EntryFacts ==
  ASSUME NEW e \in registerTable
  PROVE  /\ e.withArgs \in BOOLEAN /\ e.index \in optionNumber
         /\ e.index \in WithValue <=> e.withArgs
         /\ e.check \in {"path", "trivial", "trivialOne"}
         /\ e.withArgs <=> e.check # "trivial"
         /\ e.optName # TERMINATOR
<1>1. e.index \in optionNumber
  BY DEF optionNumber
<1>2. CASE e = Entry("-s", TRUE, "SourceMibFile", "path")
  BY <1>1, <1>2 DEF Entry, WithValue, TERMINATOR
<1>3. CASE e = Entry("-t", TRUE, "TargetPdfFile", "path")
  BY <1>1, <1>3 DEF Entry, WithValue, TERMINATOR
<1>4. CASE e = Entry("-I", TRUE, "IncludePath", "path")
  BY <1>1, <1>4 DEF Entry, WithValue, TERMINATOR
<1>5. CASE e = Entry("-p", FALSE, "TreePrint", "trivial")
  BY <1>1, <1>5 DEF Entry, WithValue, TERMINATOR
<1>6. CASE e = Entry("--show-type-defined", FALSE, "ShowTypeDefined", "trivial")
  BY <1>1, <1>6 DEF Entry, WithValue, TERMINATOR
<1>7. CASE e = Entry("--from", TRUE, "BeginFrom", "trivialOne")
  BY <1>1, <1>7 DEF Entry, WithValue, TERMINATOR
<1> QED
  BY <1>2, <1>3, <1>4, <1>5, <1>6, <1>7 DEF registerTable

LEMMA AttrFacts ==
  ASSUME NEW word, Known(word)
  PROVE  optAttr(word) \in registerTable /\ optAttr(word).optName = word
BY Zenon DEF Known, optAttr

LEMMA MinIs ==
  ASSUME NEW S \in SUBSET Int, NEW m \in S, \A x \in S : m <= x
  PROVE  Min(S) = m
<1>1. Min(S) \in S /\ \A x \in S : Min(S) <= x
  BY Zenon DEF Min
<1>2. Min(S) <= m /\ m <= Min(S)
  BY <1>1
<1>3. Min(S) \in Int /\ m \in Int
  BY <1>1
<1> QED
  BY <1>2, <1>3

LEMMA Halves ==
  ASSUME NEW k \in Nat
  PROVE  /\ (2 * k) \div 2 = k /\ (2 * k) % 2 = 0
         /\ (2 * k + 1) \div 2 = k /\ (2 * k + 1) % 2 = 1
OBVIOUS

-----------------------------------------------------------------------------
(***************************************************************************)
(* The inductive invariant.                                                *)
(***************************************************************************)
\* argumentChecking goes from option to option, stepping over their values.
Walk ==
  /\ \A k \in 1..Len(checked) :
       checked[k] \in 1..N /\ k <= checked[k] /\ Known(argv[checked[k]])
  /\ checked # <<>> => checked[1] = 1
  /\ \A k \in 1..(Len(checked) - 1) : checked[k + 1] = NextOption(checked[k])

WalkEnd == IF checked = <<>> THEN 1 ELSE NextOption(checked[Len(checked)])

\* What argumentSplit has written.
Written ==
  /\ numOfOptions <= Len(checked) /\ Len(optArray) = N + 1
  /\ \A k \in 1..numOfOptions : optArray[k] = Piece(checked[k])
  /\ \A k \in (numOfOptions + 1)..(N + 1) : optArray[k] = <<TERMINATOR, NULL>>

InCheck == Walk /\ current = WalkEnd /\ optArray = <<>> /\ numOfOptions = 0 /\ iter = 0

InSplit ==
  /\ Walk /\ checked # <<>> /\ WalkEnd > N
  /\ Written /\ iter = 0
  /\ IF numOfOptions < Len(checked) THEN current = checked[numOfOptions + 1] ELSE current > N

\* The iterator is before an option, at the missing value of one, or at a T.
InProcess ==
  /\ Walk /\ checked # <<>> /\ WalkEnd > N
  /\ Written /\ numOfOptions = Len(checked)
  /\ \E k \in 0..numOfOptions :
       \/ iter = 2 * k
       \/ iter = 2 * k + 1 /\ k < numOfOptions /\ Half(iter) \in {NULL, TERMINATOR}

IInv ==
  /\ TypeOK /\ NeverCrashes
  /\ phase = "check" => InCheck
  /\ phase = "split" => InSplit
  /\ phase = "process" => InProcess

LEMMA InitIInv == Init => IInv
<1> SUFFICES ASSUME Init PROVE IInv
  OBVIOUS
<1>1. /\ argv \in CommandLines /\ phase = "check" /\ current = 1
      /\ optionRelation = [i \in optionNumber |-> [j \in optionNumber |-> REL_INDEPENDENT]]
      /\ checked = <<>> /\ optArray = <<>> /\ numOfOptions = 0 /\ iter = 0
      /\ optionsManager = <<>> /\ srcMib = NULL /\ texPath = NULL
  BY DEF Init
<1>2. argv \in Seq(Words) /\ Len(argv) \in Nat
  BY <1>1, LineAssumption, LenProperties
<1>3. Len(<<>>) = 0 /\ DOMAIN <<>> = {}
  OBVIOUS
<1>4. TypeOK
  <2>1. optionRelation \in [optionNumber -> [optionNumber -> Nat]]
    BY <1>1 DEF REL_INDEPENDENT
  <2>2. checked \in Seq(Nat)
    BY <1>1
  <2>3. optArray \in Seq((Words \cup {TERMINATOR}) \X (Words \cup {NULL}))
    BY <1>1
  <2>4. numOfOptions \in 0..Len(argv) /\ iter \in 0..(2 * Len(optArray))
    BY <1>1, <1>2, <1>3
  <2>5. DOMAIN optionsManager = {}
    BY <1>1, <1>3
  <2>6. current \in Nat \ {0}
    BY <1>1
  <2>7. phase \in {"check", "split", "process", "main", "read", "help", "aborted", "crashed"}
    BY <1>1
  <2> QED
    BY <1>1, <1>2, <2>1, <2>2, <2>3, <2>4, <2>5, <2>6, <2>7 DEF TypeOK
<1>5. InCheck
  BY <1>1, <1>3 DEF InCheck, Walk, WalkEnd
<1> QED
  BY <1>1, <1>4, <1>5 DEF IInv, NeverCrashes

-----------------------------------------------------------------------------
(***************************************************************************)
(* argumentChecking.                                                       *)
(***************************************************************************)
LEMMA LineFacts ==
  ASSUME TypeOK
  PROVE  /\ N \in Nat /\ DOMAIN argv = 1..N /\ current \in Nat /\ current >= 1
         /\ Len(checked) \in Nat
         /\ \A i \in 1..N : argv[i] \in Words
<1>1. argv \in Seq(Words) /\ checked \in Seq(Nat) /\ current \in Nat \ {0}
  BY DEF TypeOK
<1>2. \A i \in 1..Len(argv) : argv[i] \in Words
  BY <1>1, ElementOfSeq
<1> QED
  BY <1>1, <1>2, LenProperties DEF N

LEMMA NextFacts ==
  ASSUME TypeOK, NEW i \in 1..N, Known(argv[i])
  PROVE  /\ NextOption(i) \in {i + 1, i + 2} /\ NextOption(i) \in Nat
         /\ TakesValue(i) \in BOOLEAN
         /\ TakesValue(i) => NextOption(i) = i + 2
         /\ ~TakesValue(i) => NextOption(i) = i + 1
<1>1. TakesValue(i) \in BOOLEAN
  BY AttrFacts, EntryFacts DEF TakesValue
<1>2. i \in Nat
  BY LineFacts
<1> QED
  BY <1>1, <1>2 DEF NextOption

\* A step of argumentChecking to the next option.
LEMMA WalkStep ==
  ASSUME TypeOK, Walk, current = WalkEnd, current <= N, Known(argv[current]),
         checked' = Append(checked, current), argv' = argv
  PROVE  Walk' /\ checked' # <<>> /\ WalkEnd' = NextOption(current)
<1>0. N \in Nat /\ current \in 1..N /\ Len(checked) \in Nat /\ checked \in Seq(Nat)
  BY LineFacts DEF TypeOK
<1>1. PICK L \in Nat : L = Len(checked)
  BY <1>0
<1>2. /\ Len(checked') = L + 1 /\ checked'[L + 1] = current
      /\ \A k \in 1..L : checked'[k] = checked[k]
      /\ checked' \in Seq(Nat)
  BY <1>0, <1>1, AppendProperties
<1>3. \A i : NextOption(i)' = NextOption(i)
  BY DEF NextOption, TakesValue
<1>4. \A k \in 1..(L + 1) : k = L + 1 \/ k \in 1..L
  BY <1>1
<1>5. checked = <<>> <=> L = 0
  BY <1>0, <1>1, EmptySeq
<1>6. L + 1 <= current
  <2>1. CASE L = 0
    BY <2>1, <1>0
  <2>2. CASE L # 0
    <3>1. L \in 1..L
      BY <1>1, <2>2
    <3>2. checked[L] \in 1..N /\ L <= checked[L] /\ Known(argv[checked[L]])
      BY <1>1, <3>1 DEF Walk
    <3>3. current = NextOption(checked[L])
      BY <1>1, <1>5, <2>2 DEF WalkEnd
    <3> QED
      BY <1>0, <1>1, <3>2, <3>3, NextFacts
  <2> QED
    BY <2>1, <2>2
<1>7. \A k \in 1..(L + 1) : checked'[k] \in 1..N /\ k <= checked'[k] /\ Known(argv[checked'[k]])
  <2> SUFFICES ASSUME NEW k \in 1..(L + 1)
               PROVE  checked'[k] \in 1..N /\ k <= checked'[k] /\ Known(argv[checked'[k]])
    OBVIOUS
  <2>1. CASE k = L + 1
    BY <1>0, <1>2, <1>6, <2>1
  <2>2. CASE k \in 1..L
    BY <1>1, <1>2, <2>2 DEF Walk
  <2> QED
    BY <1>4, <2>1, <2>2
<1>8. checked'[1] = 1
  <2>1. CASE L = 0
    BY <1>2, <1>5, <2>1 DEF WalkEnd
  <2>2. CASE L # 0
    <3>1. 1 \in 1..L
      BY <1>1, <2>2
    <3> QED
      BY <1>2, <1>5, <2>2, <3>1 DEF Walk
  <2> QED
    BY <2>1, <2>2
<1>9. \A k \in 1..L : checked'[k + 1] = NextOption(checked'[k])
  <2> SUFFICES ASSUME NEW k \in 1..L
               PROVE  checked'[k + 1] = NextOption(checked'[k])
    OBVIOUS
  <2>1. CASE k = L
    <3>1. L # 0
      BY <1>1, <2>1
    <3>2. current = NextOption(checked[L])
      BY <1>1, <1>5, <3>1 DEF WalkEnd
    <3> QED
      BY <1>2, <2>1, <3>2
  <2>2. CASE k # L
    <3>1. k \in 1..(L - 1) /\ k + 1 \in 1..L
      BY <1>1, <2>2
    <3>2. checked[k + 1] = NextOption(checked[k])
      BY <1>1, <3>1 DEF Walk
    <3> QED
      BY <1>2, <3>1, <3>2
  <2> QED
    BY <2>1, <2>2
<1>10. L + 1 - 1 = L /\ L + 1 # 0
  BY <1>1
<1>11. checked' # <<>>
  BY <1>2, <1>10, EmptySeq
<1>12. N' = N /\ \A w : Known(w)' = Known(w)
  BY DEF N, Known
<1>13. Walk'
  BY <1>2, <1>3, <1>7, <1>8, <1>9, <1>10, <1>12 DEF Walk
<1>14. WalkEnd' = NextOption(current)
  BY <1>2, <1>3, <1>11 DEF WalkEnd
<1> QED
  BY <1>11, <1>13, <1>14

\* The matrix of conflicts keeps its type.
LEMMA MatrixType ==
  ASSUME optionRelation \in [optionNumber -> [optionNumber -> Nat]], NEW opt \in optionNumber
  PROVE  argInUsedStatusSet(optionRelation, opt) \in [optionNumber -> [optionNumber -> Nat]]
<1>1. ASSUME NEW i \in optionNumber
      PROVE  [optionRelation[i] EXCEPT ![opt] = @ * REL_CONFLICT_IN] \in [optionNumber -> Nat]
  <2>1. optionRelation[i] \in [optionNumber -> Nat] /\ optionRelation[i][opt] \in Nat
    OBVIOUS
  <2>2. optionRelation[i][opt] * REL_CONFLICT_IN \in Nat
    BY <2>1 DEF REL_CONFLICT_IN
  <2> QED
    BY <2>1, <2>2
<1> QED
  BY <1>1 DEF argInUsedStatusSet

LEMMA CheckStep == ASSUME IInv, argumentChecking PROVE IInv'
<1>0. /\ TypeOK /\ InCheck /\ phase = "check" /\ current <= N
      /\ checked' = Append(checked, current)
      /\ UNCHANGED <<argv, optArray, numOfOptions, iter, optionsManager, srcMib, texPath>>
  BY DEF IInv, argumentChecking, Parsed, N
<1>1. current \in 1..N /\ N \in Nat
  BY <1>0, LineFacts
<1>2. \/ phase' = "help" /\ current' = current /\ optionRelation' = optionRelation
      \/ /\ Known(argv[current]) /\ phase' \in {"check", "help"}
         /\ current' = NextOption(current)
         /\ optionRelation' \in [optionNumber -> [optionNumber -> Nat]]
  <2>1. CASE ~Known(argv[current])
    BY <2>1 DEF argumentChecking, Refuse
  <2>2. CASE Known(argv[current])
    <3> DEFINE attr == optAttr(argv[current])
    <3>1. /\ attr.index \in optionNumber /\ attr.withArgs \in BOOLEAN
          /\ attr.withArgs <=> attr.check # "trivial"
      BY <2>2, AttrFacts, EntryFacts
    <3>2. \/ attr.check = "path" /\ pathArgumentCheck(attr.index)
          \/ attr.check = "trivial" /\ trivialArgumentCheck
          \/ attr.check = "trivialOne" /\ trivialOneArgumentCheck
      BY <2>2 DEF argumentChecking
    <3>3. /\ attr.check # "trivial" => NextOption(current) = current + 2
          /\ attr.check = "trivial" => NextOption(current) = current + 1
      BY <3>1 DEF NextOption, TakesValue
    <3>4. optionRelation \in [optionNumber -> [optionNumber -> Nat]]
      BY <1>0 DEF TypeOK
    <3>5. argInUsedStatusSet(optionRelation, attr.index)
            \in [optionNumber -> [optionNumber -> Nat]]
      BY <3>1, <3>4, MatrixType
    <3> HIDE DEF attr
    <3>6. CASE attr.check = "path" /\ pathArgumentCheck(attr.index)
      <4>1. CASE Refuse
        BY <4>1 DEF Refuse
      <4>2. CASE ~Refuse
        <5>1. /\ optionRelation' = argInUsedStatusSet(optionRelation, attr.index)
              /\ current' = current + 2
              /\ phase' = IF argConflictCheck(optionRelation', attr.index)
                          THEN phase ELSE "help"
          BY <3>6, <4>2 DEF pathArgumentCheck
        <5> QED
          BY <1>0, <2>2, <3>3, <3>5, <3>6, <5>1
      <4> QED
        BY <4>1, <4>2
    <3>7. CASE attr.check = "trivial" /\ trivialArgumentCheck
      BY <1>0, <2>2, <3>3, <3>4, <3>7 DEF trivialArgumentCheck
    <3>8. CASE attr.check = "trivialOne" /\ trivialOneArgumentCheck
      BY <1>0, <2>2, <3>3, <3>4, <3>8 DEF trivialOneArgumentCheck
    <3> QED
      BY <3>2, <3>6, <3>7, <3>8
  <2> QED
    BY <2>1, <2>2
<1>3. checked' \in Seq(Nat)
  BY <1>0, <1>1, AppendProperties DEF TypeOK
<1>4. current' \in Nat \ {0}
  <2>1. CASE current' = current
    BY <1>0, <2>1 DEF TypeOK
  <2>2. CASE Known(argv[current]) /\ current' = NextOption(current)
    BY <1>0, <1>1, <2>2, NextFacts
  <2> QED
    BY <1>2, <2>1, <2>2
<1>5. TypeOK'
  BY <1>0, <1>2, <1>3, <1>4 DEF TypeOK
<1>6. ASSUME phase' = "check" PROVE InCheck'
  <2>1. Known(argv[current]) /\ current' = NextOption(current)
    BY <1>2, <1>6
  <2>2. Walk' /\ WalkEnd' = NextOption(current)
    BY <1>0, <2>1, WalkStep DEF InCheck
  <2> QED
    BY <1>0, <2>1, <2>2 DEF InCheck
<1>7. phase' \in {"check", "help"}
  BY <1>2
<1> QED
  BY <1>5, <1>6, <1>7 DEF IInv, NeverCrashes

LEMMA WalkStays ==
  ASSUME UNCHANGED <<argv, checked>>
  PROVE  /\ Walk => Walk'
         /\ WalkEnd' = WalkEnd /\ N' = N
         /\ \A i : Piece(i)' = Piece(i)
<1>1. N' = N
  BY DEF N
<1>2. (\A w : Known(w)' = Known(w)) /\ \A i : NextOption(i)' = NextOption(i)
  BY DEF Known, NextOption, TakesValue
<1>3. Walk => Walk'
  BY <1>1, <1>2 DEF Walk
<1>4. WalkEnd' = WalkEnd
  BY <1>2 DEF WalkEnd
<1>5. \A i : Piece(i)' = Piece(i)
  BY DEF Piece, TakesValue, WordAt
<1> QED
  BY <1>1, <1>3, <1>4, <1>5

LEMMA ValidityStep == ASSUME IInv, optionValidity PROVE IInv'
<1>0. /\ TypeOK /\ InCheck /\ phase = "check" /\ current > N
      /\ UNCHANGED <<argv, checked, numOfOptions, iter, optionsManager, srcMib, texPath>>
  BY DEF IInv, optionValidity, N
<1>1. N \in Nat /\ Len(checked) \in Nat
  BY <1>0, LineFacts
<1>2. CASE phase' = "help" /\ UNCHANGED <<current, optionRelation, optArray>>
  <2>1. TypeOK'
    BY <1>0, <1>2 DEF TypeOK
  <2> QED
    BY <1>2, <2>1 DEF IInv, NeverCrashes
<1>3. CASE /\ argv # <<>> /\ phase' = "split" /\ current' = 1
           /\ optArray' = optPiecesConst(Len(argv)) /\ UNCHANGED optionRelation
  <2>1. /\ DOMAIN optArray' = 1..(N + 1)
        /\ \A k \in 1..(N + 1) : optArray'[k] = <<TERMINATOR, NULL>>
    BY <1>3 DEF optPiecesConst, N
  <2>2. /\ optArray' \in Seq((Words \cup {TERMINATOR}) \X (Words \cup {NULL}))
        /\ Len(optArray') = N + 1
    <3> DEFINE P == (Words \cup {TERMINATOR}) \X (Words \cup {NULL})
    <3>1. <<TERMINATOR, NULL>> \in P
      OBVIOUS
    <3>2. PICK m \in Nat : m = N + 1
      BY <1>1
    <3>3. optArray' = [k \in 1..m |-> <<TERMINATOR, NULL>>]
      BY <1>3, <3>2 DEF optPiecesConst, N
    <3> HIDE DEF P
    <3>4. optArray' \in Seq(P)
      BY <3>1, <3>2, <3>3
    <3>5. Len(optArray') = m
      BY <3>2, <3>3, <3>4
    <3> QED
      BY <3>2, <3>4, <3>5 DEF P
  <2>3. argv \in Seq(Words)
    BY <1>0 DEF TypeOK
  <2>4. N # 0
    BY <1>3, <2>3, EmptySeq DEF N
  <2>5. current = WalkEnd /\ numOfOptions = 0 /\ iter = 0 /\ Walk
    BY <1>0 DEF InCheck
  <2>6. checked # <<>>
    <3>1. checked = <<>> => current = 1
      BY <2>5 DEF WalkEnd
    <3> QED
      BY <1>0, <1>1, <2>4, <3>1
  <2>7. checked \in Seq(Nat) /\ Len(checked) > 0
    <3>1. checked \in Seq(Nat)
      BY <1>0 DEF TypeOK
    <3> QED
      BY <1>1, <2>6, <3>1, EmptySeq
  <2>8. TypeOK'
    <3>1. 0 \in 0..(2 * Len(optArray'))
      BY <1>1, <2>2
    <3>2. current' \in Nat \ {0}
      BY <1>3
    <3> QED
      BY <1>0, <1>3, <2>2, <2>5, <3>1, <3>2 DEF TypeOK
  <2>9. Walk' /\ WalkEnd' = WalkEnd /\ N' = N
    BY <1>0, <2>5, WalkStays
  <2>10. Written'
    <3>1. numOfOptions' = 0 /\ 0 <= Len(checked)
      BY <1>0, <1>1, <2>5
    <3>2. 0 + 1 = 1 /\ 1..0 = {}
      OBVIOUS
    <3> QED
      BY <1>0, <2>1, <2>2, <2>9, <3>1, <3>2 DEF Written
  <2>11. current' = checked'[numOfOptions' + 1] /\ numOfOptions' < Len(checked')
    <3>1. checked[1] = 1
      BY <2>5, <2>6 DEF Walk
    <3> QED
      BY <1>0, <1>3, <2>5, <2>7, <3>1
  <2>12. InSplit'
    BY <1>0, <2>5, <2>6, <2>9, <2>10, <2>11 DEF InSplit
  <2> QED
    BY <1>3, <2>8, <2>12 DEF IInv, NeverCrashes
<1> QED
  BY <1>2, <1>3 DEF optionValidity, Refuse

-----------------------------------------------------------------------------
(***************************************************************************)
(* argumentSplit.                                                          *)
(***************************************************************************)
\* It is always at a word that argumentChecking found to be an option.
LEMMA SplitAt ==
  ASSUME IInv, phase = "split", current <= N
  PROVE  /\ TypeOK /\ InSplit /\ numOfOptions \in Nat
         /\ numOfOptions + 1 \in 1..Len(checked) /\ numOfOptions + 1 \in 1..N
         /\ current = checked[numOfOptions + 1] /\ current \in 1..N
         /\ Known(argv[current])
<1>1. TypeOK /\ InSplit
  BY DEF IInv
<1>2. N \in Nat /\ Len(checked) \in Nat /\ current \in Nat /\ numOfOptions \in Nat
  BY <1>1, LineFacts DEF TypeOK, N
<1>3. numOfOptions < Len(checked) /\ current = checked[numOfOptions + 1]
  BY <1>1, <1>2 DEF InSplit
<1>4. numOfOptions + 1 \in 1..Len(checked)
  BY <1>2, <1>3
<1>5. /\ checked[numOfOptions + 1] \in 1..N
      /\ numOfOptions + 1 <= checked[numOfOptions + 1]
      /\ Known(argv[checked[numOfOptions + 1]])
  BY <1>1, <1>4 DEF InSplit, Walk
<1>6. numOfOptions + 1 \in 1..N
  BY <1>2, <1>3, <1>5
<1> QED
  BY <1>1, <1>2, <1>3, <1>4, <1>5, <1>6

\* Where it goes from there: to the next of these words, or past the last.
LEMMA SplitMoves ==
  ASSUME IInv, phase = "split", current <= N
  PROVE  LET next == After(optAttr(argv[current])) IN
         /\ next \in Nat \ {0}
         /\ IF numOfOptions + 1 < Len(checked)
            THEN next = checked[numOfOptions + 2] ELSE next > N
<1> DEFINE next == After(optAttr(argv[current]))
<1>1. /\ TypeOK /\ InSplit /\ numOfOptions \in Nat /\ numOfOptions + 1 \in 1..Len(checked)
      /\ current = checked[numOfOptions + 1] /\ current \in 1..N /\ Known(argv[current])
  BY SplitAt
<1>2. N \in Nat /\ Len(checked) \in Nat
  BY <1>1, LineFacts
<1>3. /\ TakesValue(current) \in BOOLEAN
      /\ TakesValue(current) => NextOption(current) = current + 2
      /\ ~TakesValue(current) => NextOption(current) = current + 1
  BY <1>1, NextFacts
<1>4. next = IF TakesValue(current) /\ current < N THEN current + 2 ELSE current + 1
  BY DEF After, TakesValue, N
<1>5. next \in Nat \ {0} /\ next \in {NextOption(current), N + 1}
      /\ (NextOption(current) <= N => next = NextOption(current))
      /\ (NextOption(current) > N => next > N)
  <2>1. CASE TakesValue(current)
    BY <1>1, <1>2, <1>3, <1>4, <2>1
  <2>2. CASE ~TakesValue(current)
    BY <1>1, <1>2, <1>3, <1>4, <2>2
  <2> QED
    BY <1>3, <2>1, <2>2
<1> HIDE DEF next
<1>6. CASE numOfOptions + 1 < Len(checked)
  <2>1. numOfOptions + 1 \in 1..(Len(checked) - 1) /\ numOfOptions + 2 \in 1..Len(checked)
    BY <1>1, <1>2, <1>6
  <2>2. checked[(numOfOptions + 1) + 1] = NextOption(current)
    BY <1>1, <2>1 DEF InSplit, Walk
  <2>3. (numOfOptions + 1) + 1 = numOfOptions + 2
    BY <1>1
  <2>4. checked[numOfOptions + 2] \in 1..N
    BY <1>1, <2>1 DEF InSplit, Walk
  <2> QED
    BY <1>2, <1>5, <1>6, <2>2, <2>3, <2>4 DEF next
<1>7. CASE ~(numOfOptions + 1 < Len(checked))
  <2>1. Len(checked) = numOfOptions + 1
    BY <1>1, <1>2, <1>7
  <2>2. NextOption(current) > N
    BY <1>1, <2>1 DEF InSplit, WalkEnd
  <2> QED
    BY <1>5, <1>7, <2>2 DEF next
<1> QED
  BY <1>6, <1>7

\* The two halves of a piece are an option and a word, or nothing.
LEMMA PieceType ==
  ASSUME TypeOK, NEW i \in 1..N
  PROVE  Piece(i) \in (Words \cup {TERMINATOR}) \X (Words \cup {NULL})
<1>1. argv[i] \in Words /\ N \in Nat
  BY LineFacts
<1>2. WordAt(i + 1) \in Words \cup {NULL}
  BY LineFacts DEF WordAt, N
<1> QED
  BY <1>1, <1>2 DEF Piece

LEMMA SplitStep == ASSUME IInv, argumentSplit PROVE IInv'
<1>0. phase = "split" /\ current <= N
  BY DEF argumentSplit, N
<1>1. /\ TypeOK /\ InSplit /\ numOfOptions \in Nat
      /\ numOfOptions + 1 \in 1..Len(checked) /\ numOfOptions + 1 \in 1..N
      /\ current = checked[numOfOptions + 1] /\ current \in 1..N
      /\ Known(argv[current])
  BY <1>0, SplitAt
<1>2. N \in Nat /\ Len(checked) \in Nat
  BY <1>1, LineFacts
<1>3. PICK m \in Nat : m = numOfOptions + 1
  BY <1>1
<1>4. /\ optArray' = [optArray EXCEPT ![m] = Piece(current)]
      /\ current' = After(optAttr(argv[current]))
      /\ numOfOptions' = m /\ phase' = "split"
      /\ UNCHANGED <<argv, optionRelation, checked, iter, optionsManager, srcMib, texPath>>
  BY <1>0, <1>1, <1>3 DEF argumentSplit, Piece, TakesValue
<1>5. /\ current' \in Nat \ {0}
      /\ IF m < Len(checked) THEN current' = checked[numOfOptions + 2] ELSE current' > N
  BY <1>0, <1>3, <1>4, SplitMoves
<1>6. numOfOptions + 2 = m + 1
  BY <1>1, <1>3
<1>7. /\ Len(optArray) = N + 1 /\ m \in 1..Len(optArray)
      /\ \A k \in 1..numOfOptions : optArray[k] = Piece(checked[k])
      /\ \A k \in (numOfOptions + 1)..(N + 1) : optArray[k] = <<TERMINATOR, NULL>>
  BY <1>1, <1>2, <1>3 DEF InSplit, Written
<1> DEFINE P == (Words \cup {TERMINATOR}) \X (Words \cup {NULL})
<1>8. optArray \in Seq(P) /\ Piece(current) \in P
  BY <1>1, PieceType DEF TypeOK
<1>9. /\ optArray' \in Seq(P) /\ Len(optArray') = N + 1
      /\ optArray'[m] = Piece(current)
      /\ \A k \in 1..(N + 1) : k # m => optArray'[k] = optArray[k]
  <2> HIDE DEF P
  <2> QED
    BY <1>4, <1>7, <1>8, ExceptSeq
<1>10. TypeOK'
  <2>1. m \in 0..N /\ N' = N
    BY <1>1, <1>2, <1>3, <1>4 DEF N
  <2>2. iter = 0
    BY <1>1 DEF InSplit
  <2>3. 0 \in 0..(2 * Len(optArray'))
    BY <1>2, <1>9
  <2> QED
    BY <1>1, <1>4, <1>5, <1>9, <2>1, <2>2, <2>3 DEF TypeOK, N
<1>11. Walk' /\ WalkEnd' = WalkEnd /\ N' = N /\ \A i : Piece(i)' = Piece(i)
  BY <1>1, <1>4, WalkStays DEF InSplit
<1>12. \A k \in 1..m : optArray'[k] = Piece(checked[k])
  <2> SUFFICES ASSUME NEW k \in 1..m PROVE optArray'[k] = Piece(checked[k])
    OBVIOUS
  <2>1. k = m \/ (k \in 1..numOfOptions /\ k # m /\ k \in 1..(N + 1))
    BY <1>1, <1>2, <1>3
  <2> QED
    BY <1>1, <1>3, <1>7, <1>9, <2>1
<1>13. \A k \in (m + 1)..(N + 1) : optArray'[k] = <<TERMINATOR, NULL>>
  <2> SUFFICES ASSUME NEW k \in (m + 1)..(N + 1)
               PROVE  optArray'[k] = <<TERMINATOR, NULL>>
    OBVIOUS
  <2>1. k # m /\ k \in 1..(N + 1) /\ k \in (numOfOptions + 1)..(N + 1)
    BY <1>1, <1>2, <1>3
  <2> QED
    BY <1>7, <1>9, <2>1
<1>14. Written'
  BY <1>1, <1>2, <1>3, <1>4, <1>9, <1>11, <1>12, <1>13 DEF Written
<1>15. InSplit'
  BY <1>1, <1>4, <1>5, <1>6, <1>11, <1>14 DEF InSplit
<1> QED
  BY <1>4, <1>10, <1>15 DEF IInv, NeverCrashes

LEMMA ArrayStep == ASSUME IInv, optionArrayGen PROVE IInv'
<1>0. /\ TypeOK /\ InSplit /\ current > N /\ phase' = "process"
      /\ UNCHANGED <<argv, current, optionRelation, checked, optArray, numOfOptions,
                     iter, optionsManager, srcMib, texPath>>
  BY DEF IInv, optionArrayGen, Parsed, N
<1>1. N \in Nat /\ Len(checked) \in Nat /\ current \in Nat /\ numOfOptions \in Nat
  BY <1>0, LineFacts DEF TypeOK, N
<1>2. numOfOptions = Len(checked)
  <2>1. numOfOptions < Len(checked) => current \in 1..N
    <3>1. numOfOptions < Len(checked) => numOfOptions + 1 \in 1..Len(checked)
      BY <1>1
    <3> QED
      BY <1>0, <3>1 DEF InSplit, Walk
  <2>2. numOfOptions <= Len(checked)
    BY <1>0 DEF InSplit, Written
  <2> QED
    BY <1>0, <1>1, <2>1, <2>2
<1>3. TypeOK'
  BY <1>0 DEF TypeOK
<1>4. Walk' /\ WalkEnd' = WalkEnd /\ N' = N /\ \A i : Piece(i)' = Piece(i)
  BY <1>0, WalkStays DEF InSplit
<1>5. Written'
  BY <1>0, <1>4 DEF InSplit, Written
<1>6. 0 \in 0..numOfOptions /\ iter = 2 * 0
  BY <1>0, <1>1 DEF InSplit
<1>7. InProcess'
  BY <1>0, <1>2, <1>4, <1>5, <1>6 DEF InSplit, InProcess
<1> QED
  BY <1>0, <1>3, <1>7 DEF IInv, NeverCrashes

-----------------------------------------------------------------------------
(***************************************************************************)
(* optionProcessing.                                                       *)
(***************************************************************************)
\* The iterator at a half that holds something, and at one that does not.
LEMMA NextHere ==
  ASSUME NEW i \in Nat, Len(optArray) \in Nat, i <= 2 * Len(optArray) - 1, Half(i) # NULL
  PROVE  optPiecesNext(i) = IF Half(i) = TERMINATOR
                            THEN [val |-> NULL, iter |-> i]
                            ELSE [val |-> Half(i), iter |-> i + 1]
<1> DEFINE S == {j \in i..(2 * Len(optArray) - 1) : Half(j) # NULL}
<1>1. S \in SUBSET Int /\ i \in S /\ \A x \in S : i <= x
  OBVIOUS
<1>2. Min(S) = i
  <2> HIDE DEF S
  <2> QED
    BY <1>1, MinIs
<1> QED
  BY <1>2 DEF optPiecesNext

LEMMA NextSkips ==
  ASSUME NEW i \in Nat, Len(optArray) \in Nat, i + 1 <= 2 * Len(optArray) - 1,
         Half(i) = NULL, Half(i + 1) # NULL
  PROVE  optPiecesNext(i) = IF Half(i + 1) = TERMINATOR
                            THEN [val |-> NULL, iter |-> i + 1]
                            ELSE [val |-> Half(i + 1), iter |-> (i + 1) + 1]
<1> DEFINE S == {j \in i..(2 * Len(optArray) - 1) : Half(j) # NULL}
<1>1. S \in SUBSET Int /\ i + 1 \in S /\ \A x \in S : i + 1 <= x
  <2>1. \A x \in S : x \in Int /\ i <= x /\ x # i
    OBVIOUS
  <2> QED
    BY <2>1
<1>2. Min(S) = i + 1
  <2> HIDE DEF S
  <2> QED
    BY <1>1, MinIs
<1> QED
  BY <1>2 DEF optPiecesNext

\* What the pieces hold.
LEMMA HalfFacts ==
  ASSUME TypeOK, InProcess
  PROVE  /\ N \in Nat /\ numOfOptions \in Nat /\ numOfOptions <= N /\ Len(optArray) = N + 1
         /\ Half(2 * numOfOptions) = TERMINATOR
         /\ \A k \in 0..(numOfOptions - 1) :
              /\ checked[k + 1] \in 1..N /\ Known(argv[checked[k + 1]])
              /\ Half(2 * k) = argv[checked[k + 1]]
              /\ Half(2 * k) # NULL /\ Half(2 * k) # TERMINATOR
              /\ Half(2 * k + 1) =
                   IF TakesValue(checked[k + 1]) THEN WordAt(checked[k + 1] + 1) ELSE NULL
<1>1. /\ N \in Nat /\ numOfOptions \in Nat /\ numOfOptions = Len(checked)
      /\ \A i \in 1..N : argv[i] \in Words
  BY LineFacts DEF TypeOK, InProcess, N
<1>2. /\ Walk /\ Len(optArray) = N + 1
      /\ \A k \in 1..numOfOptions : optArray[k] = Piece(checked[k])
      /\ \A k \in (numOfOptions + 1)..(N + 1) : optArray[k] = <<TERMINATOR, NULL>>
  BY DEF InProcess, Written
<1>3. numOfOptions <= N
  BY DEF TypeOK, N
<1>4. \A k \in Nat : Half(2 * k) = optArray[k + 1][1] /\ Half(2 * k + 1) = optArray[k + 1][2]
  BY Halves DEF Half
<1>5. Half(2 * numOfOptions) = TERMINATOR
  <2>1. numOfOptions + 1 \in (numOfOptions + 1)..(N + 1)
    BY <1>1, <1>3
  <2> QED
    BY <1>1, <1>2, <1>4, <2>1
<1>6. ASSUME NEW k \in 0..(numOfOptions - 1)
      PROVE  /\ checked[k + 1] \in 1..N /\ Known(argv[checked[k + 1]])
             /\ Half(2 * k) = argv[checked[k + 1]]
             /\ Half(2 * k) # NULL /\ Half(2 * k) # TERMINATOR
             /\ Half(2 * k + 1) =
                  IF TakesValue(checked[k + 1]) THEN WordAt(checked[k + 1] + 1) ELSE NULL
  <2>1. k \in Nat /\ k + 1 \in 1..numOfOptions
    BY <1>1
  <2>2. checked[k + 1] \in 1..N /\ Known(argv[checked[k + 1]])
    BY <1>1, <1>2, <2>1 DEF Walk
  <2>3. optArray[k + 1] = Piece(checked[k + 1])
    BY <1>2, <2>1
  <2>4. argv[checked[k + 1]] # NULL
    BY <1>1, <2>2, LineAssumption
  <2>5. argv[checked[k + 1]] # TERMINATOR
    BY <2>2, AttrFacts, EntryFacts
  <2> QED
    BY <1>4, <2>1, <2>2, <2>3, <2>4, <2>5 DEF Piece
<1> QED
  BY <1>1, <1>2, <1>3, <1>5, <1>6

\* What optionProcessing takes for an option is one, and the iterator then is at
\* its value.
LEMMA TakesOption ==
  ASSUME TypeOK, InProcess, optPiecesNext(iter).val # NULL
  PROVE  \E k \in 0..(numOfOptions - 1) :
           optPiecesNext(iter) = [val |-> argv[checked[k + 1]], iter |-> 2 * k + 1]
<1>0. /\ N \in Nat /\ numOfOptions \in Nat /\ numOfOptions <= N /\ Len(optArray) = N + 1
      /\ Half(2 * numOfOptions) = TERMINATOR /\ TERMINATOR # NULL
  BY HalfFacts, LineAssumption DEF TERMINATOR
<1>1. PICK k \in 0..numOfOptions :
        \/ iter = 2 * k
        \/ iter = 2 * k + 1 /\ k < numOfOptions /\ Half(iter) \in {NULL, TERMINATOR}
  BY DEF InProcess
<1>2. k \in Nat /\ Len(optArray) \in Nat /\ 2 * k \in Nat /\ 2 * k + 1 \in Nat
      /\ 2 * k <= 2 * Len(optArray) - 1 /\ 2 * k + 1 <= 2 * Len(optArray) - 1
  BY <1>0, <1>1
<1>3. CASE iter = 2 * k
  <2>1. k # numOfOptions
    <3>1. k = numOfOptions => optPiecesNext(iter).val = NULL
      BY <1>0, <1>2, <1>3, NextHere
    <3> QED
      BY <3>1
  <2>2. k \in 0..(numOfOptions - 1)
    BY <1>0, <1>1, <2>1
  <2>3. Half(2 * k) = argv[checked[k + 1]] /\ Half(2 * k) # NULL /\ Half(2 * k) # TERMINATOR
    BY <2>2, HalfFacts
  <2> QED
    BY <1>2, <1>3, <2>2, <2>3, NextHere
<1>4. CASE iter = 2 * k + 1 /\ k < numOfOptions /\ Half(iter) = TERMINATOR
  <2>1. optPiecesNext(iter).val = NULL
    BY <1>0, <1>2, <1>4, NextHere
  <2> QED
    BY <2>1
<1>5. CASE iter = 2 * k + 1 /\ k < numOfOptions /\ Half(iter) = NULL
  <2>1. PICK j \in Nat : j = k + 1
    BY <1>2
  <2>2. 2 * j = iter + 1 /\ iter \in Nat /\ iter + 1 <= 2 * Len(optArray) - 1
        /\ j \in 0..numOfOptions
    BY <1>0, <1>1, <1>2, <1>5, <2>1
  <2>3. CASE j = numOfOptions
    <3>1. Half(iter + 1) = TERMINATOR
      BY <1>0, <2>2, <2>3
    <3>2. optPiecesNext(iter).val = NULL
      BY <1>0, <1>2, <1>5, <2>2, <3>1, NextSkips
    <3> QED
      BY <3>2
  <2>4. CASE j # numOfOptions
    <3>1. j \in 0..(numOfOptions - 1)
      BY <1>0, <2>2, <2>4
    <3>2. /\ Half(2 * j) = argv[checked[j + 1]]
          /\ Half(2 * j) # NULL /\ Half(2 * j) # TERMINATOR
      BY <3>1, HalfFacts
    <3>3. optPiecesNext(iter) = [val |-> Half(iter + 1), iter |-> (iter + 1) + 1]
      BY <1>2, <1>5, <2>2, <3>2, NextSkips
    <3> QED
      BY <2>2, <3>1, <3>2, <3>3
  <2> QED
    BY <2>3, <2>4
<1> QED
  BY <1>1, <1>3, <1>4, <1>5

\* And the value it takes is a word or nothing; the iterator then is before the
\* next option, or at a T.
LEMMA TakesValueOf ==
  ASSUME TypeOK, InProcess, NEW k \in 0..(numOfOptions - 1), TakesValue(checked[k + 1])
  PROVE  LET value == optPiecesNext(2 * k + 1) IN
         /\ value.val \in Words \cup {NULL}
         /\ \/ value.iter = 2 * (k + 1)
            \/ value.iter = 2 * k + 1 /\ Half(2 * k + 1) = TERMINATOR
<1>0. /\ N \in Nat /\ numOfOptions \in Nat /\ numOfOptions <= N /\ Len(optArray) = N + 1
      /\ Half(2 * numOfOptions) = TERMINATOR /\ TERMINATOR # NULL
  BY HalfFacts, LineAssumption DEF TERMINATOR
<1>1. /\ checked[k + 1] \in 1..N /\ Known(argv[checked[k + 1]])
      /\ Half(2 * k + 1) = WordAt(checked[k + 1] + 1)
  BY HalfFacts
<1>2. k \in Nat /\ Len(optArray) \in Nat /\ 2 * k + 1 \in Nat
      /\ 2 * k + 1 <= 2 * Len(optArray) - 1 /\ (2 * k + 1) + 1 = 2 * (k + 1)
      /\ (2 * k + 1) + 1 <= 2 * Len(optArray) - 1
  BY <1>0
<1>3. Half(2 * k + 1) \in Words \cup {NULL}
  BY <1>1, LineFacts DEF WordAt, N
<1>4. CASE Half(2 * k + 1) = TERMINATOR
  <2>1. optPiecesNext(2 * k + 1) = [val |-> NULL, iter |-> 2 * k + 1]
    BY <1>0, <1>2, <1>4, NextHere
  <2> QED
    BY <1>4, <2>1
<1>5. CASE Half(2 * k + 1) # TERMINATOR /\ Half(2 * k + 1) # NULL
  <2>1. optPiecesNext(2 * k + 1) = [val |-> Half(2 * k + 1), iter |-> (2 * k + 1) + 1]
    BY <1>2, <1>5, NextHere
  <2> QED
    BY <1>2, <1>3, <2>1
<1>6. CASE Half(2 * k + 1) = NULL
  <2>1. ~(checked[k + 1] + 1 \in 1..N)
    <3>1. checked[k + 1] + 1 \in 1..N => Half(2 * k + 1) \in Words
      BY <1>1, LineFacts DEF WordAt, N
    <3> QED
      BY <1>6, <3>1, LineAssumption
  <2>2. checked[k + 1] = N
    BY <1>0, <1>1, <2>1
  <2>3. k + 1 = numOfOptions
    <3>1. CASE k + 1 # numOfOptions
      <4>1. k + 1 \in 1..(Len(checked) - 1) /\ (k + 1) + 1 \in 1..Len(checked)
        BY <1>0, <3>1 DEF InProcess
      <4>2. checked[(k + 1) + 1] = NextOption(checked[k + 1]) /\ checked[(k + 1) + 1] \in 1..N
        BY <4>1 DEF InProcess, Walk
      <4>3. NextOption(checked[k + 1]) = N + 2
        BY <1>1, <2>2, NextFacts
      <4> QED
        BY <1>0, <4>2, <4>3
    <3> QED
      BY <3>1
  <2>4. Half((2 * k + 1) + 1) = TERMINATOR
    BY <1>0, <1>2, <2>3
  <2>5. optPiecesNext(2 * k + 1) = [val |-> NULL, iter |-> (2 * k + 1) + 1]
    BY <1>0, <1>2, <1>6, <2>4, NextSkips
  <2> QED
    BY <1>2, <2>5
<1> QED
  BY <1>4, <1>5, <1>6

\* The option manager holds options and lists of words.
MngTyped(mng) ==
  /\ DOMAIN mng \subseteq optionNumber
  /\ \A o \in DOMAIN mng : mng[o] \in Seq(Words)

LEMMA AddTyped ==
  ASSUME NEW mng, MngTyped(mng), NEW opt \in optionNumber
  PROVE  MngTyped(optMngAddOpt(mng, opt)) /\ opt \in DOMAIN optMngAddOpt(mng, opt)
<1>1. <<>> \in Seq(Words)
  OBVIOUS
<1>2. CASE opt \in DOMAIN mng
  BY <1>2 DEF optMngAddOpt
<1>3. CASE opt \notin DOMAIN mng
  <2>1. optMngAddOpt(mng, opt) =
          [o \in DOMAIN mng \cup {opt} |-> IF o = opt THEN <<>> ELSE mng[o]]
    BY <1>3 DEF optMngAddOpt
  <2> QED
    BY <1>1, <2>1 DEF MngTyped
<1> QED
  BY <1>2, <1>3

LEMMA AppendTyped ==
  ASSUME NEW mng, MngTyped(mng), NEW opt \in DOMAIN mng, NEW value \in Words \cup {NULL}
  PROVE  MngTyped(optMngAppendOptVal(mng, opt, value))
<1>1. CASE value = NULL
  BY <1>1 DEF optMngAppendOptVal
<1>2. CASE value # NULL
  <2>1. Append(mng[opt], value) \in Seq(Words)
    BY <1>2, AppendProperties DEF MngTyped
  <2>2. optMngAppendOptVal(mng, opt, value) = [mng EXCEPT ![opt] = Append(mng[opt], value)]
    BY <1>2 DEF optMngAppendOptVal
  <2> QED
    BY <2>1, <2>2 DEF MngTyped
<1> QED
  BY <1>1, <1>2

LEMMA ProcessStep == ASSUME IInv, optionProcessing PROVE IInv'
<1>0. /\ TypeOK /\ InProcess /\ phase = "process" /\ optPiecesNext(iter).val # NULL
      /\ UNCHANGED <<argv, current, optionRelation, checked, optArray, numOfOptions,
                     srcMib, texPath>>
  BY DEF IInv, optionProcessing
<1>1. PICK k \in 0..(numOfOptions - 1) :
        optPiecesNext(iter) = [val |-> argv[checked[k + 1]], iter |-> 2 * k + 1]
  BY <1>0, TakesOption
<1>2. PICK at : at = checked[k + 1]
  OBVIOUS
<1>3. /\ N \in Nat /\ numOfOptions \in Nat /\ numOfOptions <= N /\ Len(optArray) = N + 1
      /\ k \in Nat /\ at \in 1..N /\ Known(argv[at])
      /\ Half(2 * k + 1) = IF TakesValue(at) THEN WordAt(at + 1) ELSE NULL
  BY <1>0, <1>2, HalfFacts
<1>4. PICK index : index = optAttr(argv[at]).index
  OBVIOUS
<1>5. index \in optionNumber /\ TakesValue(at) \in BOOLEAN /\ (index \in WithValue <=> TakesValue(at))
  BY <1>3, <1>4, AttrFacts, EntryFacts DEF TakesValue
<1>6. PICK added : added = optMngAddOpt(optionsManager, index)
  OBVIOUS
<1>7. PICK value : value = optPiecesNext(2 * k + 1)
  OBVIOUS
<1>8. /\ phase' = "process"
      /\ IF index \in WithValue
         THEN /\ optionsManager' = optMngAppendOptVal(added, index, value.val)
              /\ iter' = value.iter
         ELSE optionsManager' = added /\ iter' = 2 * k + 1
  BY <1>0, <1>1, <1>2, <1>3, <1>4, <1>6, <1>7 DEF optionProcessing
<1>9. MngTyped(added) /\ index \in DOMAIN added
  BY <1>0, <1>5, <1>6, AddTyped DEF TypeOK, MngTyped
<1>10. /\ MngTyped(optionsManager')
       /\ \/ iter' = 2 * (k + 1)
          \/ iter' = 2 * k + 1 /\ Half(2 * k + 1) \in {NULL, TERMINATOR}
  <2>1. CASE index \in WithValue
    <3>1. /\ value.val \in Words \cup {NULL}
          /\ \/ value.iter = 2 * (k + 1)
             \/ value.iter = 2 * k + 1 /\ Half(2 * k + 1) = TERMINATOR
      BY <1>0, <1>2, <1>5, <1>7, <2>1, TakesValueOf
    <3>2. MngTyped(optMngAppendOptVal(added, index, value.val))
      BY <1>9, <3>1, AppendTyped
    <3> QED
      BY <1>8, <2>1, <3>1, <3>2
  <2>2. CASE index \notin WithValue
    BY <1>3, <1>5, <1>8, <1>9, <2>2
  <2> QED
    BY <2>1, <2>2
<1>11. TypeOK'
  <2>1. iter' \in 0..(2 * Len(optArray))
    BY <1>1, <1>3, <1>10
  <2>2. DOMAIN optionsManager' \subseteq optionNumber
        /\ \A o \in DOMAIN optionsManager' : optionsManager'[o] \in Seq(Words)
    BY <1>10 DEF MngTyped
  <2> QED
    BY <1>0, <1>8, <2>1, <2>2 DEF TypeOK
<1>12. Walk' /\ WalkEnd' = WalkEnd /\ N' = N /\ \A i : Piece(i)' = Piece(i)
  BY <1>0, WalkStays DEF InProcess
<1>13. Written'
  BY <1>0, <1>12 DEF InProcess, Written
<1>14. \E j \in 0..numOfOptions :
         \/ iter' = 2 * j
         \/ iter' = 2 * j + 1 /\ j < numOfOptions /\ Half(iter') \in {NULL, TERMINATOR}
  <2>1. k \in 0..numOfOptions /\ k + 1 \in 0..numOfOptions /\ k < numOfOptions
    BY <1>1, <1>3
  <2>2. CASE iter' = 2 * (k + 1)
    BY <2>1, <2>2
  <2>3. CASE iter' = 2 * k + 1 /\ Half(2 * k + 1) \in {NULL, TERMINATOR}
    BY <2>1, <2>3
  <2> QED
    BY <1>10, <2>2, <2>3
<1>15. InProcess'
  <2>1. \A j : Half(j)' = Half(j)
    BY <1>0 DEF Half
  <2> QED
    BY <1>0, <1>12, <1>13, <1>14, <2>1 DEF InProcess, Half
<1> QED
  BY <1>8, <1>11, <1>15 DEF IInv, NeverCrashes

LEMMA EndStep == ASSUME IInv, optionsInit \/ main PROVE IInv'
<1>0. TypeOK
  BY DEF IInv
<1>1. CASE optionsInit
  <2>1. TypeOK'
    BY <1>0, <1>1 DEF TypeOK, optionsInit, Parsed
  <2> QED
    BY <1>1, <2>1 DEF IInv, NeverCrashes, optionsInit
<1>2. CASE main
  <2>1. \A opt : optMngGetOptVal(opt) \in Words \cup {NULL}
    <3>1. ASSUME NEW opt, optMngIsOptSet(opt), optionsManager[opt] # <<>>
          PROVE  optionsManager[opt][1] \in Words
      <4>1. optionsManager[opt] \in Seq(Words)
        BY <1>0, <3>1 DEF TypeOK, optMngIsOptSet
      <4>2. 1 \in 1..Len(optionsManager[opt])
        BY <3>1, <4>1, LenProperties, EmptySeq
      <4> QED
        BY <4>1, <4>2, ElementOfSeq
    <3> QED
      BY <3>1 DEF optMngGetOptVal
  <2>2. TypeOK'
    BY <1>0, <1>2, <2>1 DEF TypeOK, main
  <2> QED
    BY <1>2, <2>2 DEF IInv, NeverCrashes, main
<1> QED
  BY <1>1, <1>2

LEMMA StepIInv == IInv /\ [Next]_vars => IInv'
<1> SUFFICES ASSUME IInv, [Next]_vars PROVE IInv'
  OBVIOUS
<1>1. CASE UNCHANGED vars
  <2>1. UNCHANGED <<argv, phase, current, optionRelation, checked, optArray, numOfOptions,
                    iter, optionsManager, srcMib, texPath>>
    BY <1>1 DEF vars
  <2>2. TypeOK' /\ NeverCrashes'
    BY <2>1 DEF IInv, TypeOK, NeverCrashes
  <2>3. (Walk => Walk') /\ WalkEnd' = WalkEnd /\ N' = N /\ \A i : Piece(i)' = Piece(i)
    BY <2>1, WalkStays
  <2>4. Written => Written'
    BY <2>1, <2>3 DEF Written
  <2>5. \A j : Half(j)' = Half(j)
    BY <2>1 DEF Half
  <2>6. InCheck => InCheck'
    BY <2>1, <2>3 DEF InCheck
  <2>7. InSplit => InSplit'
    BY <2>1, <2>3, <2>4 DEF InSplit
  <2>8. InProcess => InProcess'
    BY <2>1, <2>3, <2>4, <2>5 DEF InProcess, Half
  <2> QED
    BY <2>1, <2>2, <2>6, <2>7, <2>8 DEF IInv
<1> QED
  BY <1>1, CheckStep, ValidityStep, SplitStep, ArrayStep, ProcessStep, EndStep DEF Next

-----------------------------------------------------------------------------
\* Every variable of the command line's passes has its type, for every set of
\* words and every command line (TypeOK): no pass writes behind the pieces that
\* optPiecesConst allocates, and the iterator stays on them.
THEOREM LineTypes == Spec => []TypeOK
<1>1. IInv => TypeOK
  BY DEF IInv
<1> QED
  BY <1>1, InitIInv, StepIInv, PTL DEF Spec

\* argumentSplit and optionProcessing dereference the attributes of words that
\* they never checked; on every command line these are options (NeverCrashes).
THEOREM LineIsSafe == Spec => []NeverCrashes
<1>1. IInv => NeverCrashes
  BY DEF IInv
<1> QED
  BY <1>1, InitIInv, StepIInv, PTL DEF Spec

-----------------------------------------------------------------------------
(***************************************************************************)
(* Which words of a command line are options.                              *)
(***************************************************************************)
\* Every set of numbers has a least one: the library's principle takes an operator,
\* this one a set.
LEMMA LeastNat ==
  ASSUME NEW S \in SUBSET Nat, S # {}
  PROVE  \E m \in S : \A x \in S : m <= x
<1>1. PICK U : U = {0..n : n \in S}
  OBVIOUS
<1>2. ASSUME NEW t \in U PROVE t \in FiniteSubsetsOf(Nat)
  <2>1. PICK n \in S : t = 0..n
    BY <1>1
  <2>2. IsFiniteSet(0..n) /\ 0..n \in SUBSET Nat
    BY FS_Interval
  <2> QED
    BY <2>1, <2>2 DEF FiniteSubsetsOf
<1>3. PICK t \in U : \A y \in U : <<y, t>> \notin StrictSubsetOrdering(Nat)
  <2>1. U \subseteq FiniteSubsetsOf(Nat) /\ U # {}
    BY <1>1, <1>2
  <2> QED
    BY <2>1, FS_StrictSubsetOrderingWellFounded, WFMin, Zenon
<1>4. PICK m \in S : t = 0..m
  BY <1>1
<1>5. ASSUME NEW x \in S, x < m PROVE FALSE
  <2>1. 0..x \in U
    BY <1>1
  <2>2. 0..x \subseteq 0..m /\ 0..x \in SUBSET Nat /\ 0..m \in SUBSET Nat
    BY <1>5
  <2>3. m \in 0..m /\ m \notin 0..x
    BY <1>5
  <2>4. <<0..x, 0..m>> \in StrictSubsetOrdering(Nat)
    BY <2>2, <2>3 DEF StrictSubsetOrdering
  <2> QED
    BY <1>3, <1>4, <2>1, <2>4
<1>6. \A x \in S : m <= x
  <2>1. \A x \in S : x \in Nat /\ m \in Nat
    OBVIOUS
  <2> QED
    BY <1>5, <2>1
<1> QED
  BY <1>6

\* Induction, for a set.
LEMMA Grows ==
  ASSUME NEW S, 0 \in S, \A n \in Nat : n \in S => n + 1 \in S
  PROVE  Nat \subseteq S
<1>1. SUFFICES ASSUME Nat \ S # {} PROVE FALSE
  OBVIOUS
<1>2. PICK m \in Nat \ S : \A x \in Nat \ S : m <= x
  <2>1. Nat \ S \in SUBSET Nat
    OBVIOUS
  <2> QED
    BY <1>1, <2>1, LeastNat
<1>3. m # 0 /\ m - 1 \in Nat /\ ~(m <= m - 1)
  OBVIOUS
<1>4. m - 1 \in S
  BY <1>2, <1>3
<1> QED
  BY <1>3, <1>4

OptionAt(line, f, i) ==
  i = 1 \/ ~(f[i - 1] /\ Known(line[i - 1]) /\ optAttr(line[i - 1]).withArgs)

IsWalk(line, f, n) == f = [i \in 1..n |-> OptionAt(line, f, i)]

\* The recursion of IsOption has a solution.
LEMMA WalkExists ==
  ASSUME NEW line, NEW n \in Nat
  PROVE  \E f : IsWalk(line, f, n)
<1>1. PICK S : S = {k \in Nat : \E f : IsWalk(line, f, k)}
  OBVIOUS
<1>2. 0 \in S
  <2>1. PICK f : f = [i \in 1..0 |-> TRUE]
    OBVIOUS
  <2>2. f = [i \in 1..0 |-> OptionAt(line, f, i)]
    BY <2>1
  <2> QED
    BY <1>1, <2>2 DEF IsWalk
<1>3. ASSUME NEW k \in Nat, k \in S PROVE k + 1 \in S
  <2>1. PICK f : f = [i \in 1..k |-> OptionAt(line, f, i)]
    BY <1>1, <1>3 DEF IsWalk
  <2>2. PICK g : g = [i \in 1..(k + 1) |-> OptionAt(line, f, i)]
    OBVIOUS
  <2>3. ASSUME NEW i \in 1..(k + 1) PROVE OptionAt(line, f, i) = OptionAt(line, g, i)
    <3>1. CASE i = 1
      BY <3>1 DEF OptionAt
    <3>2. CASE i # 1
      <4>1. i - 1 \in 1..k /\ i - 1 \in 1..(k + 1)
        BY <3>2
      <4>2. f[i - 1] = g[i - 1]
        BY <2>1, <2>2, <4>1
      <4> QED
        BY <4>2 DEF OptionAt
    <3> QED
      BY <3>1, <3>2
  <2>4. g = [i \in 1..(k + 1) |-> OptionAt(line, g, i)]
    BY <2>2, <2>3
  <2> QED
    BY <1>1, <2>4 DEF IsWalk
<1> QED
  BY <1>1, <1>2, <1>3, Grows

LEMMA OptionIs ==
  ASSUME NEW line, Len(line) \in Nat, NEW i \in 1..Len(line)
  PROVE  IsOption(line)[i] = OptionAt(line, IsOption(line), i)
<1>0. PICK f : IsWalk(line, f, Len(line))
  BY WalkExists
<1>1. f = [j \in 1..Len(line) |-> j = 1 \/ ~(f[j - 1] /\ Known(line[j - 1])
                                                    /\ optAttr(line[j - 1]).withArgs)]
  BY <1>0 DEF IsWalk, OptionAt
<1>2. IsOption(line) = [j \in 1..Len(line) |->
          j = 1 \/ ~(IsOption(line)[j - 1] /\ Known(line[j - 1])
                                          /\ optAttr(line[j - 1]).withArgs)]
  BY <1>1, Zenon DEF IsOption
<1> QED
  BY <1>2 DEF OptionAt

-----------------------------------------------------------------------------
(***************************************************************************)
(* argumentChecking accepts the valid command lines, and no other.         *)
(***************************************************************************)
O(i) == IsOption(argv)[i]

\* An option with what it needs.
Passed(i) ==
  /\ Known(argv[i])
  /\ optAttr(argv[i]).check = "path" => i < N /\ argv[i + 1] \in PathString

\* The register declares no conflicts: a doubled REL_INDEPENDENT is no conflict.
Independent ==
  optionRelation = [i \in optionNumber |-> [j \in optionNumber |-> REL_INDEPENDENT]]

\* argumentChecking has found nothing wrong, and stands at an option.
Sound ==
  /\ \A i \in 1..N : i < current /\ O(i) => Passed(i)
  /\ current <= N => O(current)

AcceptInv ==
  /\ Independent
  /\ phase = "check" => Sound
  /\ AcceptsValid

LEMMA ValidIs ==
  ASSUME TypeOK
  PROVE  Valid(argv) <=> argv # <<>> /\ \A i \in 1..N : O(i) => Passed(i)
<1>1. DOMAIN argv = 1..N
  BY LineFacts
<1> QED
  BY <1>1, Zenon DEF Valid, O, Passed, N

\* Where the options stand: at the beginning, and behind an option and its value.
LEMMA OptionsFollow ==
  ASSUME TypeOK
  PROVE  /\ 1 <= N => O(1)
         /\ \A i \in 1..N : i + 1 <= N =>
              (O(i + 1) <=> ~(O(i) /\ Known(argv[i]) /\ TakesValue(i)))
<1>1. N \in Nat /\ Len(argv) = N
  BY LineFacts DEF N
<1>2. ASSUME 1 <= N PROVE O(1)
  <2>1. 1 \in 1..Len(argv) /\ Len(argv) \in Nat
    BY <1>1, <1>2
  <2>2. IsOption(argv)[1] = OptionAt(argv, IsOption(argv), 1)
    BY <2>1, OptionIs
  <2> QED
    BY <2>2 DEF O, OptionAt
<1>3. ASSUME NEW i \in 1..N, i + 1 <= N
      PROVE  O(i + 1) <=> ~(O(i) /\ Known(argv[i]) /\ TakesValue(i))
  <2>1. PICK j \in Nat : j = i + 1
    BY <1>1
  <2>2. j \in 1..Len(argv) /\ Len(argv) \in Nat /\ j # 1 /\ j - 1 = i
    BY <1>1, <1>3, <2>1
  <2>3. IsOption(argv)[j] = OptionAt(argv, IsOption(argv), j)
    BY <2>2, OptionIs
  <2>4. OptionAt(argv, IsOption(argv), j) =
          (~(IsOption(argv)[i] /\ Known(argv[i]) /\ optAttr(argv[i]).withArgs))
    BY <2>2 DEF OptionAt
  <2> QED
    BY <2>1, <2>3, <2>4 DEF O, TakesValue
<1> QED
  BY <1>2, <1>3

LEMMA NoConflict ==
  ASSUME Independent, NEW opt \in optionNumber
  PROVE  /\ argInUsedStatusSet(optionRelation, opt) = optionRelation
         /\ argConflictCheck(optionRelation, opt)
<1>1. \A i \in optionNumber :
        [optionRelation[i] EXCEPT ![opt] = @ * REL_CONFLICT_IN] = optionRelation[i]
  <2> SUFFICES ASSUME NEW i \in optionNumber
               PROVE  [optionRelation[i] EXCEPT ![opt] = @ * REL_CONFLICT_IN] = optionRelation[i]
    OBVIOUS
  <2>1. optionRelation[i] = [j \in optionNumber |-> 0] /\ optionRelation[i][opt] = 0
    BY DEF Independent, REL_INDEPENDENT
  <2>2. optionRelation[i][opt] * REL_CONFLICT_IN = 0
    BY <2>1 DEF REL_CONFLICT_IN
  <2> QED
    BY <2>1, <2>2
<1>2. argInUsedStatusSet(optionRelation, opt) = optionRelation
  <2>1. argInUsedStatusSet(optionRelation, opt) = [i \in optionNumber |-> optionRelation[i]]
    BY <1>1 DEF argInUsedStatusSet
  <2> QED
    BY <2>1 DEF Independent
<1>3. argConflictCheck(optionRelation, opt)
  BY DEF Independent, argConflictCheck, REL_INDEPENDENT, REL_CONFLICT_IN
<1> QED
  BY <1>2, <1>3

\* How a step of argumentChecking ends: it refuses an option that does not pass,
\* and goes to the next one otherwise.
LEMMA CheckCases ==
  ASSUME IInv, Independent, argumentChecking
  PROVE  /\ UNCHANGED <<argv, optionRelation>>
         /\ \/ phase' = "help" /\ ~Passed(current)
            \/ /\ phase' = "check" /\ Passed(current)
               /\ current' = NextOption(current)
<1>0. /\ TypeOK /\ phase = "check" /\ current <= N /\ Len(argv) = N
      /\ UNCHANGED argv
  BY DEF IInv, argumentChecking, N
<1>1. current \in 1..N /\ N \in Nat
  BY <1>0, LineFacts
<1>2. CASE ~Known(argv[current])
  <2>1. phase' = "help" /\ UNCHANGED optionRelation
    BY <1>2 DEF argumentChecking, Refuse
  <2> QED
    BY <1>0, <1>2, <2>1 DEF Passed
<1>3. CASE Known(argv[current])
  <2> DEFINE attr == optAttr(argv[current])
  <2>1. /\ attr.index \in optionNumber
        /\ attr.withArgs \in BOOLEAN
        /\ attr.withArgs <=> attr.check # "trivial"
    BY <1>3, AttrFacts, EntryFacts
  <2>2. \/ attr.check = "path" /\ pathArgumentCheck(attr.index)
        \/ attr.check = "trivial" /\ trivialArgumentCheck
        \/ attr.check = "trivialOne" /\ trivialOneArgumentCheck
    BY <1>3 DEF argumentChecking
  <2>3. /\ attr.check # "trivial" => NextOption(current) = current + 2
        /\ attr.check = "trivial" => NextOption(current) = current + 1
    BY <2>1 DEF NextOption, TakesValue
  <2>4. Passed(current) <=> (attr.check = "path" => PathBehind)
    BY <1>0, <1>3 DEF Passed, PathBehind
  <2>5. /\ argInUsedStatusSet(optionRelation, attr.index) = optionRelation
        /\ argConflictCheck(optionRelation, attr.index)
    BY <2>1, NoConflict
  <2> HIDE DEF attr
  <2>6. CASE attr.check = "path" /\ pathArgumentCheck(attr.index)
    <3>1. CASE ~PathBehind
      BY <1>0, <2>4, <2>6, <3>1 DEF pathArgumentCheck, Refuse
    <3>2. CASE PathBehind
      <4>1. /\ optionRelation' = optionRelation /\ current' = current + 2
            /\ phase' = IF argConflictCheck(optionRelation', attr.index) THEN phase ELSE "help"
        BY <2>5, <2>6, <3>2 DEF pathArgumentCheck
      <4>2. phase' = "check"
        BY <1>0, <2>5, <4>1
      <4> QED
        BY <1>0, <2>3, <2>4, <2>6, <3>2, <4>1, <4>2
    <3> QED
      BY <3>1, <3>2
  <2>7. CASE attr.check = "trivial" /\ trivialArgumentCheck
    BY <1>0, <2>3, <2>4, <2>7 DEF trivialArgumentCheck
  <2>8. CASE attr.check = "trivialOne" /\ trivialOneArgumentCheck
    BY <1>0, <2>3, <2>4, <2>8 DEF trivialOneArgumentCheck
  <2> QED
    BY <2>2, <2>6, <2>7, <2>8
<1> QED
  BY <1>2, <1>3

LEMMA CheckSound ==
  ASSUME IInv, AcceptInv, argumentChecking
  PROVE  /\ phase' = "check" => Sound'
         /\ phase' = "help" => ~Valid(argv)
         /\ phase' \in {"check", "help"} /\ UNCHANGED <<argv, optionRelation>>
<1>0. /\ TypeOK /\ Independent /\ Sound /\ current <= N /\ O(current)
  BY DEF IInv, AcceptInv, Sound, argumentChecking, N
<1>1. current \in 1..N /\ N \in Nat
  BY <1>0, LineFacts
<1>2. /\ UNCHANGED <<argv, optionRelation>>
      /\ \/ phase' = "help" /\ ~Passed(current)
         \/ /\ phase' = "check" /\ Passed(current)
            /\ current' = NextOption(current)
  BY <1>0, CheckCases
<1>3. ASSUME phase' = "help" PROVE ~Valid(argv)
  <2>1. ~Passed(current)
    BY <1>2, <1>3
  <2> QED
    BY <1>0, <1>1, <2>1, ValidIs
<1>4. ASSUME phase' = "check" PROVE Sound'
  <2>1. Passed(current) /\ current' = NextOption(current) /\ Known(argv[current])
    BY <1>2, <1>4 DEF Passed
  <2>2. PICK c \in Nat : c = current
    BY <1>1
  <2>3. /\ TakesValue(c) \in BOOLEAN
        /\ TakesValue(c) => current' = c + 2
        /\ ~TakesValue(c) => current' = c + 1
    BY <1>0, <1>1, <2>1, <2>2, NextFacts
  <2>4. c + 1 <= N => (O(c + 1) <=> ~TakesValue(c))
    BY <1>0, <1>1, <2>1, <2>2, OptionsFollow
  <2>5. ASSUME NEW i \in 1..N, i < current', O(i) PROVE Passed(i)
    <3>1. i < c \/ i = c \/ i = c + 1
      BY <1>1, <2>2, <2>3, <2>5
    <3>2. CASE i < c
      BY <1>0, <2>2, <2>5, <3>2 DEF Sound
    <3>3. CASE i = c
      BY <2>1, <2>2, <3>3
    <3>4. CASE i = c + 1
      <4>1. i <= N
        BY <1>1
      <4>2. ~TakesValue(c)
        BY <2>4, <2>5, <3>4, <4>1
      <4> QED
        BY <1>1, <2>2, <2>3, <2>5, <3>4, <4>2
    <3> QED
      BY <3>1, <3>2, <3>3, <3>4
  <2>6. ASSUME current' <= N PROVE O(current')
    <3>1. CASE ~TakesValue(c)
      BY <2>3, <2>4, <2>6, <3>1
    <3>2. CASE TakesValue(c)
      <4>1. PICK d \in 1..N : d = c + 1
        BY <1>1, <2>2, <2>3, <2>6, <3>2
      <4>2. current' = d + 1 /\ d + 1 <= N /\ c + 1 <= N
        BY <1>1, <2>2, <2>3, <2>6, <3>2, <4>1
      <4>3. ~O(d)
        BY <2>4, <3>2, <4>1, <4>2
      <4>4. O(d + 1)
        BY <1>0, <4>2, <4>3, OptionsFollow
      <4> QED
        BY <4>2, <4>4
    <3> QED
      BY <2>3, <3>1, <3>2
  <2>7. N' = N /\ (\A i : O(i)' = O(i)) /\ \A i : Passed(i)' = Passed(i)
    BY <1>2 DEF N, O, Passed, Known
  <2>8. PICK e : e = current'
    OBVIOUS
  <2>9. (\A i \in 1..N : i < e /\ O(i) => Passed(i)) /\ (e <= N => O(e))
    BY <2>5, <2>6, <2>8
  <2> QED
    BY <2>7, <2>8, <2>9 DEF Sound
<1> QED
  BY <1>2, <1>3, <1>4

LEMMA InitAccept == Init => AcceptInv
<1> SUFFICES ASSUME Init PROVE AcceptInv
  OBVIOUS
<1>1. TypeOK /\ phase = "check" /\ current = 1 /\ Independent
  BY InitIInv DEF Init, IInv, Independent
<1>2. N \in Nat /\ (1 <= N => O(1))
  BY <1>1, LineFacts, OptionsFollow
<1>3. \A i \in 1..N : ~(i < current)
  BY <1>1, <1>2
<1> QED
  BY <1>1, <1>2, <1>3 DEF AcceptInv, Sound, AcceptsValid

LEMMA StepAccept == IInv /\ AcceptInv /\ [Next]_vars => AcceptInv'
<1> SUFFICES ASSUME IInv, AcceptInv, [Next]_vars PROVE AcceptInv'
  OBVIOUS
<1>0. TypeOK /\ Independent
  BY DEF IInv, AcceptInv
<1>1. ASSUME UNCHANGED argv
      PROVE  Valid(argv)' = Valid(argv)
  BY <1>1 DEF Valid
<1>2. CASE argumentChecking
  <2>1. /\ phase' = "check" => Sound'
        /\ phase' = "help" => ~Valid(argv)
        /\ phase' \in {"check", "help"} /\ UNCHANGED <<argv, optionRelation>>
    BY <1>2, CheckSound
  <2>2. Independent'
    BY <1>0, <2>1 DEF Independent
  <2>3. AcceptsValid'
    BY <1>1, <2>1 DEF AcceptsValid
  <2> QED
    BY <2>1, <2>2, <2>3 DEF AcceptInv
<1>3. CASE optionValidity
  <2>1. /\ phase = "check" /\ current > N /\ Sound /\ UNCHANGED <<argv, optionRelation>>
        /\ \/ argv = <<>> /\ phase' = "help"
           \/ argv # <<>> /\ phase' = "split"
    BY <1>3 DEF optionValidity, Refuse, AcceptInv, N
  <2>2. N \in Nat /\ current \in Nat
    BY <1>0, LineFacts
  <2>3. \A i \in 1..N : O(i) => Passed(i)
    <3>1. \A i \in 1..N : i < current
      BY <2>1, <2>2
    <3> QED
      BY <2>1, <3>1 DEF Sound
  <2>4. Valid(argv) <=> argv # <<>>
    BY <1>0, <2>3, ValidIs
  <2>5. AcceptsValid'
    BY <1>1, <2>1, <2>4 DEF AcceptsValid
  <2>6. Independent'
    BY <1>0, <2>1 DEF Independent
  <2> QED
    BY <2>1, <2>5, <2>6 DEF AcceptInv
<1>4. ASSUME UNCHANGED <<argv, optionRelation>>,
             phase \notin {"check", "help"}, phase' \notin {"check", "help"}
      PROVE  AcceptInv'
  <2>1. Independent'
    BY <1>0, <1>4 DEF Independent
  <2>2. AcceptsValid'
    BY <1>1, <1>4 DEF AcceptInv, AcceptsValid
  <2> QED
    BY <1>4, <2>1, <2>2 DEF AcceptInv
<1>5. CASE argumentSplit
  <2>1. /\ UNCHANGED <<argv, optionRelation>> /\ phase = "split"
        /\ phase' = "crashed" \/ phase' = phase
    BY <1>5 DEF argumentSplit
  <2> QED
    BY <1>4, <2>1
<1>6. CASE optionArrayGen
  BY <1>4, <1>6 DEF optionArrayGen
<1>7. CASE optionProcessing
  <2>1. /\ UNCHANGED <<argv, optionRelation>> /\ phase = "process"
        /\ phase' = "crashed" \/ phase' = phase
    BY <1>7 DEF optionProcessing
  <2> QED
    BY <1>4, <2>1
<1>8. CASE optionsInit
  BY <1>4, <1>8 DEF optionsInit
<1>9. CASE main
  <2>1. /\ UNCHANGED <<argv, optionRelation>> /\ phase = "main"
        /\ phase' = "aborted" \/ phase' = "read"
    BY <1>9 DEF main
  <2> QED
    BY <1>4, <2>1
<1>10. CASE UNCHANGED vars
  <2>1. UNCHANGED <<argv, optionRelation, phase, current>>
    BY <1>10 DEF vars
  <2>2. Independent'
    BY <1>0, <2>1 DEF Independent
  <2>3. AcceptsValid'
    BY <1>1, <2>1 DEF AcceptInv, AcceptsValid
  <2>4. N' = N /\ (\A i : O(i)' = O(i)) /\ \A i : Passed(i)' = Passed(i)
    BY <2>1 DEF N, O, Passed, Known
  <2>5. Sound => Sound'
    BY <2>1, <2>4 DEF Sound
  <2> QED
    BY <2>1, <2>2, <2>3, <2>5 DEF AcceptInv
<1> QED
  BY <1>2, <1>3, <1>5, <1>6, <1>7, <1>8, <1>9, <1>10 DEF Next

\* argumentChecking refuses a command line for a word that is neither an option
\* nor the value of one, or for an option without its path, and for no other
\* reason; it accepts every other line (AcceptsValid).
THEOREM LineIsAccepted == Spec => []AcceptsValid
<1>1. Init => IInv /\ AcceptInv
  BY InitIInv, InitAccept
<1>2. (IInv /\ AcceptInv) /\ [Next]_vars => (IInv /\ AcceptInv)'
  BY StepIInv, StepAccept
<1>3. IInv /\ AcceptInv => AcceptsValid
  BY DEF AcceptInv
<1> QED
  BY <1>1, <1>2, <1>3, PTL DEF Spec
-----------------------------------------------------------------------------
(***************************************************************************)
(* optionProcessing fills the option manager as the line is written.       *)
(***************************************************************************)
IndexAt(i) == optAttr(argv[i]).index

\* The first value T, where optionProcessing ends, or the end of the line.
End == Min({i \in DOMAIN argv : argv[i] = TERMINATOR} \cup {N + 1})

\* Where the values of an option stand in the words before b.
Places(o, b) == {j \in 2..(b - 1) : O(j - 1) /\ IndexAt(j - 1) = o}

\* The manager holds what stands in the words before b.
Describes(mng, b) ==
  /\ DOMAIN mng = {IndexAt(i) : i \in {j \in 1..(b - 1) : O(j)}}
  /\ \A o \in DOMAIN mng :
       IF o \in Flags THEN mng[o] = <<>> ELSE InOrder(mng[o], Places(o, b), argv)

\* The option of the piece behind the first k, or the end of the line.
Place(k) == IF k < Len(checked) THEN checked[k + 1] ELSE N + 1

\* The iterator is before the piece behind the first k, if need be before a half
\* that it will skip.
Before(k) ==
  \/ iter = 2 * k
  \/ k > 0 /\ iter = 2 * k - 1 /\ Half(iter) = NULL

Parsing ==
  \E k \in 0..numOfOptions :
    \/ /\ Before(k) /\ Place(k) <= End /\ (Place(k) <= N => O(Place(k)))
       /\ Describes(optionsManager, Place(k))
    \/ /\ k < numOfOptions /\ iter = 2 * k + 1 /\ Half(iter) = TERMINATOR
       /\ Describes(optionsManager, End)

ParseInv ==
  /\ phase \in {"check", "split"} => optionsManager = <<>>
  /\ phase = "process" => Parsing
  /\ phase \in {"main", "read"} => Describes(optionsManager, End)

\* A value behind all others is appended.
LEMMA OneMore ==
  ASSUME NEW values \in Seq(Words), NEW places \in SUBSET Int, NEW line, NEW p \in Int,
         InOrder(values, places, line), \A q \in places : q < p
  PROVE  InOrder(Append(values, line[p]), places \cup {p}, line)
<1>1. PICK n \in Nat : n = Len(values)
  BY LenProperties
<1>2. DOMAIN values = 1..n
  BY <1>1
<1>3. PICK place \in [1..n -> places] :
        /\ \A q \in places : \E k \in 1..n : place[k] = q
        /\ \A k, l \in 1..n : k < l => place[k] < place[l]
        /\ \A k \in 1..n : values[k] = line[place[k]]
  BY <1>2 DEF InOrder
<1>4. PICK more : more = Append(values, line[p])
  OBVIOUS
<1>5. DOMAIN more = 1..(n + 1) /\ more[n + 1] = line[p] /\ \A k \in 1..n : more[k] = values[k]
  BY <1>1, <1>4
<1>6. PICK new : new = [k \in 1..(n + 1) |-> IF k = n + 1 THEN p ELSE place[k]]
  OBVIOUS
<1>7. /\ new[n + 1] = p
      /\ \A k \in 1..n : new[k] = place[k] /\ place[k] \in places /\ k \in 1..(n + 1)
      /\ n + 1 \in 1..(n + 1) /\ \A k \in 1..(n + 1) : k = n + 1 \/ k \in 1..n
  BY <1>1, <1>6, SMTT(30)
<1>8. new \in [1..(n + 1) -> places \cup {p}]
  BY <1>6, <1>7
<1>9. \A q \in places \cup {p} : \E k \in 1..(n + 1) : new[k] = q
  BY <1>3, <1>7
<1>10. \A k, l \in 1..(n + 1) : k < l => new[k] < new[l]
  <2> SUFFICES ASSUME NEW k \in 1..(n + 1), NEW l \in 1..(n + 1), k < l PROVE new[k] < new[l]
    OBVIOUS
  <2>1. k \in 1..n
    BY <1>1
  <2>2. CASE l = n + 1
    BY <1>7, <2>1, <2>2
  <2>3. CASE l \in 1..n
    BY <1>3, <1>7, <2>1, <2>3
  <2> QED
    BY <1>7, <2>2, <2>3
<1>11. \A k \in 1..(n + 1) : more[k] = line[new[k]]
  BY <1>3, <1>5, <1>7
<1>12. InOrder(more, places \cup {p}, line)
  <2>1. PICK Q : Q = places \cup {p}
    OBVIOUS
  <2>2. new \in [DOMAIN more -> Q]
    BY <1>5, <1>8, <2>1
  <2>3. \A q \in Q : \E k \in DOMAIN more : new[k] = q
    BY <1>5, <1>9, <2>1
  <2>4. \A k, l \in DOMAIN more : k < l => new[k] < new[l]
    BY <1>5, <1>10
  <2>5. \A k \in DOMAIN more : more[k] = line[new[k]]
    BY <1>5, <1>11
  <2>6. InOrder(more, Q, line)
    BY <2>2, <2>3, <2>4, <2>5, Zenon DEF InOrder
  <2> QED
    BY <2>1, <2>6
<1> QED
  BY <1>4, <1>12

LEMMA NoValues ==
  ASSUME NEW line
  PROVE  InOrder(<<>>, {}, line)
<1>1. DOMAIN <<>> = {}
  OBVIOUS
<1>2. PICK place : place = [k \in {} |-> k]
  OBVIOUS
<1>3. place \in [DOMAIN <<>> -> {}]
  BY <1>1, <1>2
<1> QED
  BY <1>1, <1>3 DEF InOrder

LEMMA EndFacts ==
  ASSUME TypeOK
  PROVE  /\ End \in 1..(N + 1)
         /\ End <= N => argv[End] = TERMINATOR
         /\ \A i \in 1..N : argv[i] = TERMINATOR => End <= i
<1>1. N \in Nat /\ DOMAIN argv = 1..N
  BY LineFacts
<1>2. PICK S : S = {i \in 1..N : argv[i] = TERMINATOR} \cup {N + 1}
  OBVIOUS
<1>3. S \in SUBSET Nat /\ S # {}
  BY <1>1, <1>2
<1>4. PICK m \in S : \A x \in S : m <= x
  BY <1>3, LeastNat
<1>5. Min(S) = m
  BY <1>4, <1>3, MinIs
<1>6. End = m
  BY <1>1, <1>2, <1>5 DEF End
<1>7. m \in 1..(N + 1) /\ (m <= N => argv[m] = TERMINATOR)
  BY <1>1, <1>2
<1>8. ASSUME NEW i \in 1..N, argv[i] = TERMINATOR PROVE m <= i
  BY <1>2, <1>4, <1>8
<1> QED
  BY <1>6, <1>7, <1>8

\* A word that is no option ends the processing only as a value: an option is no T.
LEMMA EndBehind ==
  ASSUME TypeOK, NEW b \in 1..N, Known(argv[b]), b <= End
  PROVE  b + 1 <= End /\ argv[b] # TERMINATOR
<1>1. argv[b] # TERMINATOR
  BY AttrFacts, EntryFacts
<1>2. End # b
  BY <1>1, EndFacts
<1>3. End \in Int /\ b \in Int
  BY EndFacts, LineFacts
<1> QED
  BY <1>1, <1>2, <1>3

\* The option at b is added.
LEMMA DescribesOption ==
  ASSUME TypeOK, NEW mng, NEW b \in 1..N, O(b), Known(argv[b]), Describes(mng, b),
         \A i \in 1..N : O(i) /\ i < b => Known(argv[i])
  PROVE  Describes(optMngAddOpt(mng, IndexAt(b)), b + 1)
<1>0. N \in Nat /\ b \in Nat
  BY LineFacts
<1>1. PICK index : index = IndexAt(b)
  OBVIOUS
<1>2. PICK added : added = optMngAddOpt(mng, index)
  OBVIOUS
<1>3. /\ DOMAIN mng = {IndexAt(i) : i \in {j \in 1..(b - 1) : O(j)}}
      /\ \A o \in DOMAIN mng :
           IF o \in Flags THEN mng[o] = <<>> ELSE InOrder(mng[o], Places(o, b), argv)
  BY DEF Describes
<1>4. \A j : j \in 1..(b + 1 - 1) <=> j \in 1..(b - 1) \/ j = b
  BY <1>0
<1>5. DOMAIN added = DOMAIN mng \cup {index}
  BY <1>2 DEF optMngAddOpt
<1>6. DOMAIN added = {IndexAt(i) : i \in {j \in 1..(b + 1 - 1) : O(j)}}
  BY <1>1, <1>3, <1>4, <1>5
<1>7. /\ \A o \in DOMAIN mng : added[o] = mng[o]
      /\ index \notin DOMAIN mng => added[index] = <<>>
  BY <1>2 DEF optMngAddOpt
<1>8. ASSUME NEW o, o \notin Flags, o \in DOMAIN added PROVE Places(o, b + 1) = Places(o, b)
  <2>1. \A j : j \in 2..(b + 1 - 1) <=> j \in 2..(b - 1) \/ (b >= 2 /\ j = b)
    BY <1>0
  <2>2. ASSUME b >= 2, O(b - 1), IndexAt(b - 1) = o PROVE FALSE
    <3>1. PICK a \in 1..N : a = b - 1 /\ a + 1 = b /\ a < b
      BY <1>0, <2>2
    <3>2. Known(argv[a]) /\ O(a) /\ IndexAt(a) = o
      BY <2>2, <3>1
    <3>3. ~TakesValue(a)
      BY <3>1, <3>2, OptionsFollow
    <3>4. optAttr(argv[a]) \in registerTable
      BY <3>2, AttrFacts
    <3>5. o \in optionNumber /\ o \notin WithValue
      BY <3>2, <3>3, <3>4, EntryFacts DEF IndexAt, TakesValue
    <3> QED
      BY <1>8, <3>5 DEF optionNumber, registerTable, Entry, WithValue, Flags
  <2> QED
    BY <2>1, <2>2 DEF Places
<1>9. ASSUME NEW o \in DOMAIN added
      PROVE  IF o \in Flags THEN added[o] = <<>> ELSE InOrder(added[o], Places(o, b + 1), argv)
  <2>1. CASE o \in DOMAIN mng
    BY <1>3, <1>7, <1>8, <2>1
  <2>2. CASE o \notin DOMAIN mng
    <3>1. added[o] = <<>>
      BY <1>5, <1>7, <2>2
    <3>2. Places(o, b) = {}
      <4>1. ASSUME NEW j \in 2..(b - 1), O(j - 1), IndexAt(j - 1) = o PROVE FALSE
        <5>1. j - 1 \in 1..(b - 1)
          BY <1>0
        <5> QED
          BY <1>3, <2>2, <4>1, <5>1
      <4> QED
        BY <4>1 DEF Places
    <3>3. InOrder(<<>>, {}, argv)
      BY NoValues
    <3> QED
      BY <1>8, <3>1, <3>2, <3>3
  <2> QED
    BY <2>1, <2>2
<1>10. Describes(added, b + 1)
  BY <1>6, <1>9 DEF Describes
<1> QED
  BY <1>1, <1>2, <1>10

\* The value behind the option at b is appended.
LEMMA DescribesValue ==
  ASSUME TypeOK, NEW mng, MngTyped(mng), NEW b \in 1..N, b + 1 <= N, O(b), Known(argv[b]),
         TakesValue(b), Describes(mng, b + 1)
  PROVE  Describes(optMngAppendOptVal(mng, IndexAt(b), argv[b + 1]), b + 2)
<1>0. N \in Nat /\ b \in Nat /\ b + 1 \in 1..N /\ argv[b + 1] \in Words /\ argv[b + 1] # NULL
  BY LineFacts, LineAssumption
<1>1. PICK index : index = IndexAt(b)
  OBVIOUS
<1>2. PICK p \in Nat : p = b + 1
  BY <1>0
<1>3. /\ p + 1 = b + 2 /\ p + 1 - 1 = p /\ p - 1 = b /\ b \in 1..(p - 1)
      /\ p \in 1..N /\ argv[p] \in Words /\ argv[p] # NULL
  BY <1>0, <1>2
<1>4. /\ DOMAIN mng = {IndexAt(i) : i \in {j \in 1..(p - 1) : O(j)}}
      /\ \A o \in DOMAIN mng :
           IF o \in Flags THEN mng[o] = <<>> ELSE InOrder(mng[o], Places(o, p), argv)
  BY <1>2 DEF Describes
<1>5. index \in DOMAIN mng
  BY <1>1, <1>3, <1>4
<1>6. index \notin Flags
  <2>1. optAttr(argv[b]) \in registerTable
    BY AttrFacts
  <2>2. index \in WithValue
    BY <1>1, <2>1, EntryFacts DEF IndexAt, TakesValue
  <2> QED
    BY <2>2 DEF WithValue, Flags
<1>7. PICK new : new = optMngAppendOptVal(mng, index, argv[p])
  OBVIOUS
<1>8. new = [mng EXCEPT ![index] = Append(mng[index], argv[p])]
  BY <1>3, <1>7 DEF optMngAppendOptVal
<1>9. /\ DOMAIN new = DOMAIN mng /\ new[index] = Append(mng[index], argv[p])
      /\ \A o \in DOMAIN mng : o # index => new[o] = mng[o]
  BY <1>5, <1>8
<1>10. ~O(p)
  BY <1>0, <1>2, OptionsFollow
<1>11. \A j : j \in 1..(p + 1 - 1) <=> j \in 1..(p - 1) \/ j = p
  BY <1>2, <1>3
<1>12. DOMAIN new = {IndexAt(i) : i \in {j \in 1..(p + 1 - 1) : O(j)}}
  BY <1>4, <1>9, <1>10, <1>11
<1>13. \A j : j \in 2..(p + 1 - 1) <=> j \in 2..(p - 1) \/ j = p
  BY <1>0, <1>2
<1>14. /\ Places(index, p + 1) = Places(index, p) \cup {p}
       /\ \A o : o # index => Places(o, p + 1) = Places(o, p)
  BY <1>1, <1>3, <1>13 DEF Places
<1>15. InOrder(new[index], Places(index, p + 1), argv)
  <2>1. InOrder(mng[index], Places(index, p), argv) /\ mng[index] \in Seq(Words)
    BY <1>4, <1>5, <1>6 DEF MngTyped
  <2>2. Places(index, p) \in SUBSET Int /\ \A q \in Places(index, p) : q < p
    BY <1>2 DEF Places
  <2>3. PICK values : values = mng[index]
    OBVIOUS
  <2>4. PICK places : places = Places(index, p)
    OBVIOUS
  <2>5. InOrder(Append(values, argv[p]), places \cup {p}, argv)
    <3>1. /\ InOrder(values, places, argv) /\ values \in Seq(Words)
          /\ places \in SUBSET Int /\ p \in Int /\ \A q \in places : q < p
      BY <2>1, <2>2, <2>3, <2>4
    <3> QED
      BY <3>1, OneMore
  <2> QED
    BY <1>9, <1>14, <2>3, <2>4, <2>5
<1>16. ASSUME NEW o \in DOMAIN new
       PROVE  IF o \in Flags THEN new[o] = <<>> ELSE InOrder(new[o], Places(o, p + 1), argv)
  <2>1. CASE o = index
    BY <1>6, <1>15, <2>1
  <2>2. CASE o # index
    BY <1>4, <1>9, <1>14, <2>2
  <2> QED
    BY <2>1, <2>2
<1>17. Describes(new, p + 1)
  BY <1>12, <1>16 DEF Describes
<1> QED
  BY <1>1, <1>2, <1>3, <1>7, <1>17

LEMMA PlaceNext ==
  ASSUME TypeOK, InProcess
  PROVE  /\ N \in Nat /\ numOfOptions \in Nat /\ Place(numOfOptions) = N + 1
         /\ \A k \in 0..(numOfOptions - 1) :
              /\ Place(k) = checked[k + 1] /\ Place(k) \in 1..N /\ Known(argv[Place(k)])
              /\ Place(k + 1) = IF NextOption(Place(k)) <= N THEN NextOption(Place(k)) ELSE N + 1
<1>1. /\ N \in Nat /\ numOfOptions \in Nat /\ numOfOptions = Len(checked)
      /\ Walk /\ checked # <<>> /\ WalkEnd > N
  BY LineFacts DEF TypeOK, InProcess
<1>2. Place(numOfOptions) = N + 1
  BY <1>1 DEF Place
<1>3. ASSUME NEW k \in 0..(numOfOptions - 1)
      PROVE  /\ Place(k) = checked[k + 1] /\ Place(k) \in 1..N /\ Known(argv[Place(k)])
             /\ Place(k + 1) = IF NextOption(Place(k)) <= N THEN NextOption(Place(k)) ELSE N + 1
  <2>1. PICK j \in 1..Len(checked) : j = k + 1
    BY <1>1
  <2>2. Place(k) = checked[j] /\ checked[j] \in 1..N /\ Known(argv[checked[j]])
    BY <1>1, <2>1 DEF Place, Walk
  <2>3. CASE j < Len(checked)
    <3>1. j \in 1..(Len(checked) - 1) /\ j + 1 \in 1..Len(checked)
      BY <1>1, <2>3
    <3>2. checked[j + 1] = NextOption(checked[j]) /\ checked[j + 1] \in 1..N
      BY <1>1, <3>1 DEF Walk
    <3>3. Place(k + 1) = checked[j + 1] /\ checked[j + 1] <= N
      BY <1>1, <2>1, <2>3, <3>2 DEF Place
    <3> QED
      BY <2>1, <2>2, <3>2, <3>3
  <2>4. CASE j = Len(checked)
    <3>1. WalkEnd = NextOption(checked[j])
      BY <1>1, <2>4 DEF WalkEnd
    <3>2. NextOption(checked[j]) \in Nat
      BY <2>2, NextFacts
    <3>3. ~(NextOption(Place(k)) <= N)
      BY <1>1, <2>2, <3>1, <3>2
    <3>4. Place(k + 1) = N + 1
      BY <1>1, <2>1, <2>4 DEF Place
    <3> QED
      BY <2>1, <2>2, <3>3, <3>4
  <2>5. j < Len(checked) \/ j = Len(checked)
    BY <1>1
  <2> QED
    BY <2>3, <2>4, <2>5
<1> QED
  BY <1>1, <1>2, <1>3

\* What optionProcessing takes up before the piece behind the first k.
LEMMA AtPiece ==
  ASSUME TypeOK, InProcess, NEW k \in 0..numOfOptions, Before(k)
  PROVE  /\ k # numOfOptions =>
              optPiecesNext(iter) = [val |-> argv[checked[k + 1]], iter |-> 2 * k + 1]
         /\ k = numOfOptions => optPiecesNext(iter).val = NULL
<1>0. /\ N \in Nat /\ numOfOptions \in Nat /\ numOfOptions <= N /\ Len(optArray) = N + 1
      /\ Half(2 * numOfOptions) = TERMINATOR /\ TERMINATOR # NULL
  BY HalfFacts, LineAssumption DEF TERMINATOR
<1>1. /\ k \in Nat /\ Len(optArray) \in Nat /\ 2 * k \in Nat
      /\ 2 * k <= 2 * Len(optArray) - 1
  BY <1>0
<1>2. ASSUME k # numOfOptions
      PROVE  /\ Half(2 * k) = argv[checked[k + 1]]
             /\ Half(2 * k) # NULL /\ Half(2 * k) # TERMINATOR
  <2>1. k \in 0..(numOfOptions - 1)
    BY <1>0, <1>2
  <2> QED
    BY <2>1, HalfFacts
<1>3. CASE iter = 2 * k
  <2>1. k = numOfOptions => optPiecesNext(iter).val = NULL
    BY <1>0, <1>1, <1>3, NextHere
  <2>2. k # numOfOptions =>
          optPiecesNext(iter) = [val |-> argv[checked[k + 1]], iter |-> 2 * k + 1]
    BY <1>0, <1>1, <1>2, <1>3, NextHere
  <2> QED
    BY <2>1, <2>2
<1>4. CASE k > 0 /\ iter = 2 * k - 1 /\ Half(iter) = NULL
  <2>1. iter \in Nat /\ iter + 1 = 2 * k /\ iter + 1 <= 2 * Len(optArray) - 1
    BY <1>1, <1>4
  <2>2. k = numOfOptions => optPiecesNext(iter).val = NULL
    <3>1. ASSUME k = numOfOptions PROVE Half(iter + 1) = TERMINATOR
      BY <1>0, <2>1, <3>1
    <3> QED
      BY <1>0, <1>1, <1>4, <2>1, <3>1, NextSkips
  <2>3. ASSUME k # numOfOptions
        PROVE  optPiecesNext(iter) = [val |-> argv[checked[k + 1]], iter |-> 2 * k + 1]
    <3>1. /\ Half(iter + 1) = argv[checked[k + 1]]
          /\ Half(iter + 1) # NULL /\ Half(iter + 1) # TERMINATOR
      BY <1>2, <2>1, <2>3
    <3>2. optPiecesNext(iter) = [val |-> Half(iter + 1), iter |-> (iter + 1) + 1]
      BY <1>1, <1>4, <2>1, <3>1, NextSkips
    <3> QED
      BY <2>1, <3>1, <3>2
  <2> QED
    BY <2>2, <2>3
<1> QED
  BY <1>3, <1>4 DEF Before

\* And what it takes up for the value of that piece.
LEMMA AtValue ==
  ASSUME TypeOK, InProcess, NEW k \in 0..(numOfOptions - 1), NEW b \in 1..N, b = Place(k),
         TakesValue(b)
  PROVE  optPiecesNext(2 * k + 1) =
           IF b + 1 > N THEN [val |-> NULL, iter |-> 2 * (k + 1)]
           ELSE IF argv[b + 1] = TERMINATOR THEN [val |-> NULL, iter |-> 2 * k + 1]
           ELSE [val |-> argv[b + 1], iter |-> 2 * (k + 1)]
<1>0. /\ N \in Nat /\ numOfOptions \in Nat /\ numOfOptions <= N /\ Len(optArray) = N + 1
      /\ Half(2 * numOfOptions) = TERMINATOR /\ TERMINATOR # NULL
  BY HalfFacts, LineAssumption DEF TERMINATOR
<1>1. /\ b = checked[k + 1] /\ Known(argv[b]) /\ b \in Nat
      /\ Place(k + 1) = IF NextOption(b) <= N THEN NextOption(b) ELSE N + 1
  BY <1>0, PlaceNext
<1>2. Half(2 * k + 1) = WordAt(b + 1)
  BY <1>1, HalfFacts
<1>3. k \in Nat /\ Len(optArray) \in Nat /\ 2 * k + 1 \in Nat
      /\ 2 * k + 1 <= 2 * Len(optArray) - 1 /\ (2 * k + 1) + 1 = 2 * (k + 1)
      /\ (2 * k + 1) + 1 <= 2 * Len(optArray) - 1
  BY <1>0
<1>4. CASE b + 1 > N
  <2>1. Half(2 * k + 1) = NULL
    BY <1>0, <1>1, <1>2, <1>4 DEF WordAt, N
  <2>2. Place(k + 1) = N + 1
    <3>1. NextOption(b) = b + 2
      BY <1>1, NextFacts
    <3> QED
      BY <1>0, <1>1, <1>4, <3>1
  <2>3. k + 1 = numOfOptions
    <3>1. CASE k + 1 \in 0..(numOfOptions - 1)
      <4>1. Place(k + 1) \in 1..N
        BY <3>1, PlaceNext
      <4> QED
        BY <1>0, <2>2, <4>1
    <3> QED
      BY <1>0, <3>1
  <2>4. Half((2 * k + 1) + 1) = TERMINATOR
    BY <1>0, <1>3, <2>3
  <2>5. optPiecesNext(2 * k + 1) = [val |-> NULL, iter |-> (2 * k + 1) + 1]
    BY <1>0, <1>3, <2>1, <2>4, NextSkips
  <2> QED
    BY <1>3, <1>4, <2>5
<1>5. CASE ~(b + 1 > N)
  <2>1. b + 1 \in 1..N
    BY <1>0, <1>1, <1>5
  <2>2. Half(2 * k + 1) = argv[b + 1] /\ argv[b + 1] # NULL
    BY <1>2, <2>1, LineFacts, LineAssumption DEF WordAt, N
  <2>3. CASE argv[b + 1] = TERMINATOR
    <3>1. optPiecesNext(2 * k + 1) = [val |-> NULL, iter |-> 2 * k + 1]
      BY <1>0, <1>3, <2>2, <2>3, NextHere
    <3> QED
      BY <1>5, <2>3, <3>1
  <2>4. CASE argv[b + 1] # TERMINATOR
    <3>1. optPiecesNext(2 * k + 1) = [val |-> Half(2 * k + 1), iter |-> (2 * k + 1) + 1]
      BY <1>3, <2>2, <2>4, NextHere
    <3> QED
      BY <1>3, <1>5, <2>2, <2>4, <3>1
  <2> QED
    BY <2>3, <2>4
<1> QED
  BY <1>4, <1>5

LEMMA OptionsKnown ==
  ASSUME TypeOK, AcceptInv, phase \notin {"check", "help"}
  PROVE  \A i \in 1..N : O(i) => Known(argv[i])
<1>1. Valid(argv)
  BY DEF AcceptInv, AcceptsValid
<1> QED
  BY <1>1, ValidIs DEF Passed

\* The state optionProcessing leaves, in the terms of the state it finds.
LEMMA ParseStep ==
  ASSUME IInv, AcceptInv, Parsing, optionProcessing
  PROVE  Parsing'
<1>0. /\ TypeOK /\ InProcess /\ phase = "process" /\ optPiecesNext(iter).val # NULL
      /\ UNCHANGED <<argv, checked, optArray, numOfOptions>>
  BY DEF IInv, optionProcessing
<1>1. PICK k \in 0..numOfOptions :
        \/ /\ Before(k) /\ Place(k) <= End /\ (Place(k) <= N => O(Place(k)))
           /\ Describes(optionsManager, Place(k))
        \/ /\ k < numOfOptions /\ iter = 2 * k + 1 /\ Half(iter) = TERMINATOR
           /\ Describes(optionsManager, End)
  BY DEF Parsing
<1>2. /\ N \in Nat /\ numOfOptions \in Nat /\ numOfOptions <= N /\ Len(optArray) = N + 1
      /\ k \in Nat /\ End \in Nat /\ End <= N + 1
  BY <1>0, HalfFacts, EndFacts
<1>3. ~(k < numOfOptions /\ iter = 2 * k + 1 /\ Half(iter) = TERMINATOR)
  <2>1. ASSUME k < numOfOptions, iter = 2 * k + 1, Half(iter) = TERMINATOR
        PROVE  FALSE
    <3>1. iter \in Nat /\ iter <= 2 * Len(optArray) - 1 /\ Len(optArray) \in Nat
      BY <1>2, <2>1
    <3>2. optPiecesNext(iter).val = NULL
      BY <2>1, <3>1, NextHere, LineAssumption DEF TERMINATOR
    <3> QED
      BY <1>0, <3>2
  <2> QED
    BY <2>1
<1>4. /\ Before(k) /\ Place(k) <= End /\ (Place(k) <= N => O(Place(k)))
      /\ Describes(optionsManager, Place(k))
  BY <1>1, <1>3
<1>5. k # numOfOptions
  BY <1>0, <1>4, AtPiece
<1>6. k \in 0..(numOfOptions - 1)
  BY <1>2, <1>5
<1>7. PICK b : b = Place(k)
  OBVIOUS
<1>8. /\ b = checked[k + 1] /\ b \in 1..N /\ Known(argv[b]) /\ b \in Nat
      /\ Place(k + 1) = IF NextOption(b) <= N THEN NextOption(b) ELSE N + 1
  BY <1>0, <1>2, <1>6, <1>7, PlaceNext
<1>9. O(b) /\ Describes(optionsManager, b) /\ b <= End
  BY <1>2, <1>4, <1>7, <1>8
<1>10. b + 1 <= End
  BY <1>0, <1>8, <1>9, EndBehind
<1>11. optPiecesNext(iter) = [val |-> argv[b], iter |-> 2 * k + 1]
  BY <1>0, <1>4, <1>5, <1>8, AtPiece
<1>12. PICK index : index = IndexAt(b)
  OBVIOUS
<1>13. PICK added : added = optMngAddOpt(optionsManager, index)
  OBVIOUS
<1>14. PICK value : value = optPiecesNext(2 * k + 1)
  OBVIOUS
<1>15. /\ index \in optionNumber /\ TakesValue(b) \in BOOLEAN
       /\ index \in WithValue <=> TakesValue(b)
  BY <1>8, <1>12, AttrFacts, EntryFacts DEF TakesValue, IndexAt
<1>16. IF index \in WithValue
       THEN /\ optionsManager' = optMngAppendOptVal(added, index, value.val)
            /\ iter' = value.iter
       ELSE optionsManager' = added /\ iter' = 2 * k + 1
  <2>1. index = optAttr(argv[b]).index
    BY <1>12 DEF IndexAt
  <2> QED
    BY <1>8, <1>11, <1>13, <1>14, <2>1 DEF optionProcessing
<1>17. Describes(added, b + 1)
  <2>1. \A i \in 1..N : O(i) /\ i < b => Known(argv[i])
    BY <1>0, OptionsKnown
  <2> QED
    BY <1>0, <1>8, <1>9, <1>12, <1>13, <2>1, DescribesOption
<1>18. MngTyped(added)
  BY <1>0, <1>13, <1>15, AddTyped DEF TypeOK, MngTyped
<1>19. b + 1 <= N => (O(b + 1) <=> ~TakesValue(b))
  BY <1>0, <1>8, <1>9, OptionsFollow
<1>20. /\ TakesValue(b) => NextOption(b) = b + 2
       /\ ~TakesValue(b) => NextOption(b) = b + 1
  BY <1>0, <1>8, NextFacts
<1>21. PICK c \in Nat : c = Place(k + 1)
  BY <1>2, <1>8, <1>20, <1>15
<1>22. PICK mng : mng = optionsManager'
  OBVIOUS
<1>23. PICK it : it = iter'
  OBVIOUS
<1>24. \/ /\ it = 2 * (k + 1) \/ (it = 2 * k + 1 /\ Half(2 * k + 1) = NULL)
          /\ c <= End /\ (c <= N => O(c)) /\ Describes(mng, c)
       \/ it = 2 * k + 1 /\ Half(2 * k + 1) = TERMINATOR /\ Describes(mng, End)
  <2>1. CASE ~TakesValue(b)
    <3>1. mng = added /\ it = 2 * k + 1
      BY <1>15, <1>16, <1>22, <1>23, <2>1
    <3>2. Half(2 * k + 1) = NULL
      BY <1>0, <1>6, <1>8, <2>1, HalfFacts
    <3>3. c = b + 1
      BY <1>2, <1>8, <1>20, <1>21, <2>1
    <3> QED
      BY <1>10, <1>17, <1>19, <2>1, <3>1, <3>2, <3>3
  <2>2. CASE TakesValue(b)
    <3>1. mng = optMngAppendOptVal(added, index, value.val) /\ it = value.iter
      BY <1>15, <1>16, <1>22, <1>23, <2>2
    <3>2. value = IF b + 1 > N THEN [val |-> NULL, iter |-> 2 * (k + 1)]
                  ELSE IF argv[b + 1] = TERMINATOR THEN [val |-> NULL, iter |-> 2 * k + 1]
                  ELSE [val |-> argv[b + 1], iter |-> 2 * (k + 1)]
      BY <1>0, <1>6, <1>7, <1>8, <1>14, <2>2, AtValue
    <3>3. CASE b + 1 > N
      <4>1. mng = added /\ it = 2 * (k + 1)
        BY <3>1, <3>2, <3>3 DEF optMngAppendOptVal
      <4>2. c = N + 1 /\ c = b + 1
        BY <1>2, <1>8, <1>20, <1>21, <2>2, <3>3
      <4>3. ~(c <= N)
        BY <1>2, <4>2
      <4> QED
        BY <1>10, <1>17, <4>1, <4>2, <4>3
    <3>4. CASE ~(b + 1 > N) /\ argv[b + 1] = TERMINATOR
      <4>1. mng = added /\ it = 2 * k + 1
        BY <3>1, <3>2, <3>4 DEF optMngAppendOptVal
      <4>2. b + 1 \in 1..N
        BY <1>2, <1>8, <3>4
      <4>3. End <= b + 1
        BY <1>0, <3>4, <4>2, EndFacts
      <4>4. End = b + 1
        BY <1>2, <1>8, <1>10, <4>3
      <4>5. Half(2 * k + 1) = TERMINATOR
        <5>1. Half(2 * k + 1) = WordAt(b + 1)
          BY <1>0, <1>6, <1>8, <2>2, HalfFacts
        <5> QED
          BY <3>4, <4>2, <5>1 DEF WordAt, N
      <4> QED
        BY <1>17, <4>1, <4>4, <4>5
    <3>5. CASE ~(b + 1 > N) /\ argv[b + 1] # TERMINATOR
      <4>1. mng = optMngAppendOptVal(added, index, argv[b + 1]) /\ it = 2 * (k + 1)
        BY <3>1, <3>2, <3>5
      <4>2. b + 1 \in 1..N /\ b + 1 <= N
        BY <1>2, <1>8, <3>5
      <4>3. Describes(mng, b + 2)
        BY <1>0, <1>8, <1>9, <1>12, <1>17, <1>18, <2>2, <4>1, <4>2, DescribesValue
      <4>4. b + 2 <= End
        <5>1. End # b + 1
          BY <1>0, <3>5, <4>2, EndFacts
        <5> QED
          BY <1>2, <1>8, <1>10, <5>1
      <4>5. c = b + 2
        BY <1>2, <1>8, <1>20, <1>21, <2>2, <4>4
      <4>6. ASSUME c <= N PROVE O(c)
        <5>1. PICK d \in 1..N : d = b + 1
          BY <4>2
        <5>2. ~O(d) /\ d + 1 = c /\ d + 1 <= N
          BY <1>8, <1>19, <2>2, <4>2, <4>5, <4>6, <5>1
        <5>3. O(d + 1)
          BY <1>0, <5>2, OptionsFollow
        <5> QED
          BY <5>2, <5>3
      <4> QED
        BY <4>1, <4>3, <4>4, <4>5, <4>6
    <3> QED
      BY <3>3, <3>4, <3>5
  <2> QED
    BY <1>15, <2>1, <2>2
<1>25. /\ N' = N /\ End' = End /\ (\A j : Half(j)' = Half(j)) /\ (\A j : O(j)' = O(j))
       /\ \A j : Place(j)' = Place(j)
  BY <1>0 DEF N, End, Half, O, Place
<1>26. \A m, e : Describes(m, e)' = Describes(m, e)
  BY <1>0 DEF Describes, IndexAt, O, Places
<1>27. k + 1 \in 0..numOfOptions /\ k + 1 > 0 /\ 2 * (k + 1) - 1 = 2 * k + 1 /\ k < numOfOptions
  BY <1>2, <1>6
<1> QED
  BY <1>0, <1>1, <1>21, <1>22, <1>23, <1>24, <1>25, <1>26, <1>27 DEF Parsing, Before

\* The words up to the first value T are options, or not, as on the whole line.
LEMMA SeenFacts ==
  ASSUME TypeOK, NEW line, line = Seen(argv)
  PROVE  /\ DOMAIN line = 1..(End - 1)
         /\ \A i \in 1..(End - 1) : line[i] = argv[i] /\ (IsOption(line)[i] <=> O(i))
<1>0. /\ N \in Nat /\ Len(argv) = N /\ argv \in Seq(Words) /\ End \in 1..(N + 1)
  BY LineFacts, EndFacts DEF TypeOK, N
<1>1. PICK e \in 0..N : e = End - 1
  BY <1>0
<1>2. line = SubSeq(argv, 1, e)
  BY <1>1 DEF Seen, End, N
<1>3. Len(line) = e /\ e \in Nat /\ DOMAIN line = 1..e /\ \A i \in 1..e : line[i] = argv[i]
  BY <1>0, <1>2
<1>4. \A i \in 1..e : IsOption(line)[i] <=> O(i)
  <2>1. PICK S : S = {i \in 1..e : ~(IsOption(line)[i] <=> O(i))}
    OBVIOUS
  <2>2. SUFFICES ASSUME S # {} PROVE FALSE
    BY <2>1
  <2>3. S \in SUBSET Nat
    BY <2>1
  <2>4. PICK m \in S : \A x \in S : m <= x
    BY <2>2, <2>3, LeastNat
  <2>5. m \in 1..e /\ m \in 1..N /\ m \in Nat /\ ~(IsOption(line)[m] <=> O(m))
    BY <1>0, <2>1, <2>4
  <2>6. IsOption(line)[m] = OptionAt(line, IsOption(line), m)
    <3>1. m \in 1..Len(line) /\ Len(line) \in Nat
      BY <1>3, <2>5
    <3> QED
      BY <3>1, OptionIs
  <2>7. O(m) = OptionAt(argv, IsOption(argv), m)
    <3>1. m \in 1..Len(argv) /\ Len(argv) \in Nat
      BY <1>0, <2>5
    <3> QED
      BY <3>1, OptionIs DEF O
  <2>8. CASE m = 1
    BY <2>5, <2>6, <2>7, <2>8 DEF OptionAt
  <2>9. CASE m # 1
    <3>1. PICK a \in 1..e : a = m - 1 /\ a \in Nat
      BY <2>5, <2>9
    <3>2. ~(m <= a)
      BY <2>5, <3>1
    <3>3. IsOption(line)[a] <=> O(a)
      BY <2>1, <2>4, <3>1, <3>2
    <3>4. line[a] = argv[a]
      BY <1>3, <3>1
    <3>5. OptionAt(line, IsOption(line), m) =
            (~(IsOption(line)[a] /\ Known(argv[a]) /\ optAttr(argv[a]).withArgs))
      BY <2>9, <3>1, <3>4 DEF OptionAt
    <3>6. OptionAt(argv, IsOption(argv), m) =
            (~(O(a) /\ Known(argv[a]) /\ optAttr(argv[a]).withArgs))
      BY <2>9, <3>1 DEF OptionAt, O
    <3> QED
      BY <2>5, <2>6, <2>7, <3>3, <3>5, <3>6
  <2> QED
    BY <2>8, <2>9
<1> QED
  BY <1>1, <1>3, <1>4

LEMMA InOrderSeen ==
  ASSUME NEW values, NEW places, NEW line, NEW other, InOrder(values, places, line),
         \A p \in places : line[p] = other[p]
  PROVE  InOrder(values, places, other)
<1>1. PICK place \in [DOMAIN values -> places] :
        /\ \A p \in places : \E k \in DOMAIN values : place[k] = p
        /\ \A k, l \in DOMAIN values : k < l => place[k] < place[l]
        /\ \A k \in DOMAIN values : values[k] = line[place[k]]
  BY DEF InOrder
<1>2. \A k \in DOMAIN values : values[k] = other[place[k]]
  BY <1>1
<1> QED
  BY <1>1, <1>2, Zenon DEF InOrder

LEMMA DescribesSeen ==
  ASSUME TypeOK, Describes(optionsManager, End)
  PROVE  ParsedAsWritten
<1>0. N \in Nat /\ End \in 1..(N + 1)
  BY LineFacts, EndFacts
<1>1. PICK line : line = Seen(argv)
  OBVIOUS
<1>2. PICK e \in Nat : e = End - 1
  BY <1>0
<1>3. /\ DOMAIN line = 1..e
      /\ \A i \in 1..e : line[i] = argv[i] /\ (IsOption(line)[i] <=> O(i))
  BY <1>1, <1>2, SeenFacts
<1>4. /\ DOMAIN optionsManager = {IndexAt(i) : i \in {j \in 1..e : O(j)}}
      /\ \A o \in DOMAIN optionsManager :
           IF o \in Flags THEN optionsManager[o] = <<>>
           ELSE InOrder(optionsManager[o], Places(o, End), argv)
  BY <1>2 DEF Describes
<1>5. DOMAIN optionsManager = {optAttr(line[i]).index : i \in
                                 {j \in DOMAIN line : IsOption(line)[j]}}
  BY <1>3, <1>4 DEF IndexAt
<1>6. ASSUME NEW o
      PROVE  {i + 1 : i \in At(line, o)} \cap DOMAIN line = Places(o, End)
  <2>1. At(line, o) = {i \in 1..e : O(i) /\ IndexAt(i) = o}
    BY <1>3 DEF At, IndexAt
  <2>2. Places(o, End) = {j \in 2..e : O(j - 1) /\ IndexAt(j - 1) = o}
    BY <1>2 DEF Places
  <2>3. ASSUME NEW j \in 2..e, O(j - 1), IndexAt(j - 1) = o
        PROVE  j \in {i + 1 : i \in At(line, o)} \cap DOMAIN line
    <3>1. PICK a \in 1..e : a = j - 1 /\ a + 1 = j
      OBVIOUS
    <3>2. a \in At(line, o) /\ j \in 1..e
      BY <2>1, <2>3, <3>1
    <3> QED
      BY <1>3, <3>1, <3>2
  <2>4. ASSUME NEW a \in At(line, o), a + 1 \in DOMAIN line
        PROVE  a + 1 \in Places(o, End)
    <3>1. a \in 1..e /\ O(a) /\ IndexAt(a) = o
      BY <2>1
    <3>2. PICK j \in 2..e : j = a + 1 /\ j - 1 = a
      BY <1>3, <2>4, <3>1
    <3> QED
      BY <2>2, <3>1, <3>2
  <2> QED
    BY <2>2, <2>3, <2>4
<1>7. ASSUME NEW o \in DOMAIN optionsManager, o \notin Flags
      PROVE  InOrder(optionsManager[o], {i + 1 : i \in At(line, o)} \cap DOMAIN line, line)
  <2>1. \A p \in Places(o, End) : p \in 1..e
    BY <1>3, <1>6
  <2>2. InOrder(optionsManager[o], Places(o, End), argv)
    BY <1>4, <1>7
  <2>3. InOrder(optionsManager[o], Places(o, End), line)
    BY <1>3, <2>1, <2>2, InOrderSeen
  <2> QED
    BY <1>6, <2>3
<1>8. /\ DOMAIN optionsManager = {optAttr(line[i]).index : i \in
                                   {j \in DOMAIN line : IsOption(line)[j]}}
      /\ \A o \in DOMAIN optionsManager :
           IF o \in Flags THEN optionsManager[o] = <<>>
           ELSE InOrder(optionsManager[o], {i + 1 : i \in At(line, o)} \cap DOMAIN line, line)
  BY <1>4, <1>5, <1>7
<1> QED
  BY <1>1, <1>8, Zenon DEF ParsedAsWritten

\* Nothing is processed yet.
LEMMA ParseBegin ==
  ASSUME IInv, AcceptInv, ParseInv, optionArrayGen
  PROVE  Parsing'
<1>0. /\ TypeOK /\ Walk /\ checked # <<>> /\ Written /\ iter = 0
      /\ optionsManager = <<>> /\ UNCHANGED <<argv, iter, checked, numOfOptions, optionsManager>>
  BY DEF IInv, InSplit, ParseInv, optionArrayGen, Parsed
<1>1. N \in Nat /\ Len(checked) \in Nat /\ checked \in Seq(Nat) /\ numOfOptions \in Nat
  BY <1>0, LineFacts DEF TypeOK
<1>2. Len(checked) # 0
  BY <1>0, <1>1, EmptySeq
<1>3. Place(0) = 1 /\ 1 \in 1..N
  <2>1. 1 \in 1..Len(checked) /\ 0 < Len(checked)
    BY <1>1, <1>2
  <2> QED
    BY <1>0, <2>1 DEF Walk, Place
<1>4. O(1) /\ 1 <= End
  BY <1>0, <1>1, <1>3, OptionsFollow, EndFacts
<1>5. Describes(<<>>, 1)
  <2>1. 1..(1 - 1) = {}
    OBVIOUS
  <2> QED
    BY <2>1 DEF Describes
<1>6. N' = N /\ End' = End /\ (\A j : O(j)' = O(j)) /\ \A j : Place(j)' = Place(j)
  BY <1>0 DEF N, End, O, Place
<1>7. \A m, e : Describes(m, e)' = Describes(m, e)
  BY <1>0 DEF Describes, IndexAt, O, Places
<1>8. 0 \in 0..numOfOptions /\ 2 * 0 = 0
  BY <1>1
<1> QED
  BY <1>0, <1>3, <1>4, <1>5, <1>6, <1>7, <1>8 DEF Parsing, Before

\* Everything is processed, or a T stands in front.
LEMMA ParseEnd ==
  ASSUME IInv, Parsing, optionsInit
  PROVE  Describes(optionsManager, End)
<1>0. TypeOK /\ InProcess /\ optPiecesNext(iter).val = NULL
  BY DEF IInv, optionsInit
<1>1. PICK k \in 0..numOfOptions :
        \/ /\ Before(k) /\ Place(k) <= End /\ (Place(k) <= N => O(Place(k)))
           /\ Describes(optionsManager, Place(k))
        \/ /\ k < numOfOptions /\ iter = 2 * k + 1 /\ Half(iter) = TERMINATOR
           /\ Describes(optionsManager, End)
  BY DEF Parsing
<1>2. CASE Before(k) /\ Place(k) <= End /\ Describes(optionsManager, Place(k))
  <2>1. k = numOfOptions
    <3>1. ASSUME k # numOfOptions PROVE FALSE
      <4>1. k \in 0..(numOfOptions - 1)
        BY <1>0, <3>1, HalfFacts
      <4>2. argv[checked[k + 1]] # NULL
        BY <1>0, <4>1, HalfFacts
      <4>3. optPiecesNext(iter).val = argv[checked[k + 1]]
        BY <1>0, <1>2, <3>1, AtPiece
      <4> QED
        BY <1>0, <4>2, <4>3
    <3> QED
      BY <3>1
  <2>2. Place(k) = N + 1 /\ N \in Nat /\ End \in 1..(N + 1)
    BY <1>0, <2>1, PlaceNext, EndFacts
  <2>3. End = N + 1
    BY <1>2, <2>2
  <2> QED
    BY <1>2, <2>2, <2>3
<1> QED
  BY <1>1, <1>2

LEMMA StepParse == IInv /\ AcceptInv /\ ParseInv /\ [Next]_vars => ParseInv'
<1> SUFFICES ASSUME IInv, AcceptInv, ParseInv, [Next]_vars PROVE ParseInv'
  OBVIOUS
<1>1. ASSUME UNCHANGED <<argv, optionsManager>>
      PROVE  Describes(optionsManager, End)' = Describes(optionsManager, End)
  BY <1>1 DEF Describes, IndexAt, O, Places, End, N
<1>2. CASE argumentChecking
  BY <1>2, CheckSound DEF ParseInv, argumentChecking, Parsed
<1>3. CASE optionValidity
  BY <1>3 DEF ParseInv, optionValidity, Refuse
<1>4. CASE argumentSplit
  BY <1>4 DEF ParseInv, argumentSplit
<1>5. CASE optionArrayGen
  BY <1>5, ParseBegin DEF ParseInv, optionArrayGen
<1>6. CASE optionProcessing
  <2>1. phase' = "process"
    <3>1. phase' = "process" \/ phase' = "crashed"
      BY <1>6 DEF optionProcessing
    <3>2. phase' # "crashed"
      BY <1>6, StepIInv DEF IInv, NeverCrashes, Next
    <3> QED
      BY <3>1, <3>2
  <2>2. Parsing
    BY <1>6 DEF ParseInv, optionProcessing
  <2> QED
    BY <1>6, <2>1, <2>2, ParseStep DEF ParseInv
<1>7. CASE optionsInit
  <2>1. /\ phase = "process" /\ phase' \in {"main", "aborted"}
        /\ UNCHANGED <<argv, optionsManager>>
    BY <1>7 DEF optionsInit, Parsed
  <2>2. Describes(optionsManager, End)
    BY <1>7, <2>1, ParseEnd DEF ParseInv
  <2> QED
    BY <1>1, <2>1, <2>2 DEF ParseInv
<1>8. CASE main
  <2>1. /\ phase = "main" /\ phase' \in {"aborted", "read"}
        /\ UNCHANGED <<argv, optionsManager>>
    BY <1>8 DEF main
  <2> QED
    BY <1>1, <2>1 DEF ParseInv
<1>9. CASE UNCHANGED vars
  <2>1. UNCHANGED <<argv, phase, checked, optArray, numOfOptions, iter, optionsManager>>
    BY <1>9 DEF vars
  <2>2. Parsing => Parsing'
    <3>1. /\ N' = N /\ End' = End /\ (\A j : Half(j)' = Half(j)) /\ (\A j : O(j)' = O(j))
          /\ \A j : Place(j)' = Place(j)
      BY <2>1 DEF N, End, Half, O, Place
    <3>2. \A m, e : Describes(m, e)' = Describes(m, e)
      BY <2>1 DEF Describes, IndexAt, O, Places
    <3> QED
      BY <2>1, <3>1, <3>2 DEF Parsing, Before
  <2> QED
    BY <1>1, <2>1, <2>2 DEF ParseInv
<1> QED
  BY <1>2, <1>3, <1>4, <1>5, <1>6, <1>7, <1>8, <1>9 DEF Next

\* When main begins, the option manager holds every option given before a value
\* T, and for each of them its values and no others in the order of the line,
\* for every command line of every length (ParsedAsWritten).
THEOREM LineIsParsed == Spec => []ParsedAsWritten
<1>1. Init => IInv /\ AcceptInv /\ ParseInv
  BY InitIInv, InitAccept DEF Init, ParseInv
<1>2. (IInv /\ AcceptInv /\ ParseInv) /\ [Next]_vars => (IInv /\ AcceptInv /\ ParseInv)'
  BY StepIInv, StepAccept, StepParse
<1>3. IInv /\ AcceptInv /\ ParseInv => ParsedAsWritten
  <2>1. ASSUME IInv, ParseInv, phase \in {"main", "read"} PROVE ParsedAsWritten
    BY <2>1, DescribesSeen DEF IInv, ParseInv
  <2>2. phase \notin {"main", "read"} => ParsedAsWritten
    BY DEF ParsedAsWritten
  <2> QED
    BY <2>1, <2>2
<1> QED
  BY <1>1, <1>2, <1>3, PTL DEF Spec
=============================================================================
