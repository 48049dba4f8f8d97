----------------------------- MODULE CommandLine -----------------------------
(***************************************************************************)
(* options.c with the option register: argumentChecking walks over the     *)
(* command line and refuses or accepts it, argumentSplit cuts it into      *)
(* pieces of an option and its value, and optionProcessing takes the       *)
(* pieces up and fills the option manager, from which main takes the MIB.  *)
(* argv leaves out the name of the program, so that it begins at 1.        *)
(***************************************************************************)
EXTENDS Integers, SequencesExt

CONSTANTS
  Words,         \* what may stand on a command line
  PathString,    \* the words that match VALID_PATH_PATTERN
  CommandLines,  \* the command lines
  NULL           \* null pointer

ASSUME LineAssumption ==
  /\ PathString \subseteq Words /\ NULL \notin Words \cup {"T"}
  /\ CommandLines \subseteq Seq(Words)

VARIABLES
  argv,            \* the command line
  phase,           \* which of the loops runs, or how it ended
  current,         \* the word that is looked at
  optionRelation,  \* which options conflict with which
  checked,         \* history: where argumentChecking saw an option
  optArray,        \* pieces: an option and its value
  numOfOptions,    \* pieces written
  iter,            \* halves of pieces taken up
  optionsManager,  \* the values of each option that was given
  srcMib, texPath  \* what main reads and writes

vars == <<argv, phase, current, optionRelation, checked, optArray, numOfOptions,
          iter, optionsManager, srcMib, texPath>>

Entry(name, args, index, check) ==
  [optName |-> name, withArgs |-> args, index |-> index, check |-> check]

registerTable ==
  { Entry("-s", TRUE, "SourceMibFile", "path"),
    Entry("-t", TRUE, "TargetPdfFile", "path"),
    Entry("-I", TRUE, "IncludePath", "path"),
    Entry("-p", FALSE, "TreePrint", "trivial"),
    Entry("--show-type-defined", FALSE, "ShowTypeDefined", "trivial"),
    Entry("--from", TRUE, "BeginFrom", "trivialOne") }

optionNumber == {e.index : e \in registerTable}

\* The attributes of an option; a word that is no option has none.
Known(word)   == \E e \in registerTable : e.optName = word
optAttr(word) == CHOOSE e \in registerTable : e.optName = word

\* optPieces that are not written hold the string T.
TERMINATOR == "T"

REL_INDEPENDENT == 0
REL_CONFLICT_IN == 2

argInUsedStatusSet(matrix, opt) ==
  [i \in optionNumber |-> [matrix[i] EXCEPT ![opt] = @ * REL_CONFLICT_IN]]

argConflictCheck(matrix, opt) ==
  \A j \in optionNumber : matrix[opt][j] # REL_CONFLICT_IN

Init ==
  /\ argv \in CommandLines
  /\ phase = "check" /\ current = 1
  /\ optionRelation =
       [i \in optionNumber |-> [j \in optionNumber |-> REL_INDEPENDENT]]
  /\ checked = <<>> /\ optArray = <<>> /\ numOfOptions = 0 /\ iter = 0
  /\ optionsManager = <<>> /\ srcMib = NULL /\ texPath = NULL
-----------------------------------------------------------------------------
(***************************************************************************)
(* Step 1, argumentChecking.                                               *)
(***************************************************************************)
Parsed == <<optArray, numOfOptions, iter, optionsManager, srcMib, texPath>>

\* helpInfoPrint and exit.
Refuse == phase' = "help" /\ UNCHANGED <<current, optionRelation>>

\* The word behind the option must be there and look like a path.
PathBehind == current < Len(argv) /\ argv[current + 1] \in PathString

\* Slip: the path is left for the next step.
pathArgumentCheck_NotTaken(opt) ==
  \/ ~PathBehind /\ Refuse
  \/ /\ PathBehind
     /\ optionRelation' = argInUsedStatusSet(optionRelation, opt)
     /\ current' = current + 1
     /\ phase' = IF argConflictCheck(optionRelation', opt) THEN phase ELSE "help"

\* What looks like a path may be an option.
pathArgumentCheck(opt) ==
  \/ ~PathBehind /\ Refuse
  \/ /\ PathBehind
     /\ optionRelation' = argInUsedStatusSet(optionRelation, opt)
     /\ current' = current + 2
     /\ phase' = IF argConflictCheck(optionRelation', opt) THEN phase ELSE "help"

trivialArgumentCheck ==
  current' = current + 1 /\ UNCHANGED <<phase, optionRelation>>

\* Slip: the value is taken for the next option.
trivialOneArgumentCheck_Short ==
  current' = current + 1 /\ UNCHANGED <<phase, optionRelation>>

\* The value may be any word, or missing.
trivialOneArgumentCheck ==
  current' = current + 2 /\ UNCHANGED <<phase, optionRelation>>

argumentChecking ==
  /\ phase = "check" /\ current <= Len(argv)
  /\ \/ ~Known(argv[current]) /\ Refuse
     \/ /\ Known(argv[current])
        /\ LET attr == optAttr(argv[current]) IN
             \/ attr.check = "path" /\ pathArgumentCheck(attr.index)
             \/ attr.check = "trivial" /\ trivialArgumentCheck
             \/ attr.check = "trivialOne" /\ trivialOneArgumentCheck
  /\ checked' = Append(checked, current)
  /\ UNCHANGED <<argv, Parsed>>

\* A piece for each word and one more, none of them written.
optPiecesConst(num) == [i \in 1..(num + 1) |-> <<TERMINATOR, NULL>>]

optionValidity ==
  /\ phase = "check" /\ current > Len(argv)
  /\ \/ argv = <<>> /\ Refuse /\ UNCHANGED optArray
     \/ /\ argv # <<>>
        /\ phase' = "split" /\ current' = 1
        /\ optArray' = optPiecesConst(Len(argv))
        /\ UNCHANGED optionRelation
  /\ UNCHANGED <<argv, checked, numOfOptions, iter, optionsManager, srcMib, texPath>>
-----------------------------------------------------------------------------
(***************************************************************************)
(* Step 2, argumentSplit.                                                  *)
(***************************************************************************)
WordAt(i) == IF i \in 1..Len(argv) THEN argv[i] ELSE NULL

\* optBufferNext moves on only if there was a word.
After(attr) ==
  IF attr.withArgs /\ current < Len(argv) THEN current + 2 ELSE current + 1

argumentSplit ==
  /\ phase = "split" /\ current <= Len(argv)
  /\ \/ ~Known(argv[current]) /\ phase' = "crashed"
        /\ UNCHANGED <<current, optArray, numOfOptions>>
     \/ /\ Known(argv[current])
        /\ LET attr == optAttr(argv[current]) IN
             /\ optArray' = [optArray EXCEPT ![numOfOptions + 1] =
                  <<argv[current], IF attr.withArgs THEN WordAt(current + 1) ELSE NULL>>]
             /\ current' = After(attr)
        /\ numOfOptions' = numOfOptions + 1
        /\ UNCHANGED phase
  /\ UNCHANGED <<argv, optionRelation, checked, iter, optionsManager, srcMib, texPath>>

optionArrayGen ==
  /\ phase = "split" /\ current > Len(argv)
  /\ phase' = "process"
  /\ UNCHANGED <<argv, current, optionRelation, checked, Parsed>>
-----------------------------------------------------------------------------
(***************************************************************************)
(* Step 3, optionProcessing.  The position of the iterator is the number   *)
(* of halves it has passed.                                                *)
(***************************************************************************)
Half(i) == optArray[(i \div 2) + 1][(i % 2) + 1]

\* The next half that is not null; the iterator stays on the terminator.
optPiecesNext(i) ==
  LET next == Min({j \in i..(2 * Len(optArray) - 1) : Half(j) # NULL}) IN
    IF Half(next) = TERMINATOR
    THEN [val |-> NULL, iter |-> next]
    ELSE [val |-> Half(next), iter |-> next + 1]

optMngAddOpt(mng, opt) ==
  IF opt \in DOMAIN mng THEN mng
  ELSE [o \in DOMAIN mng \cup {opt} |-> IF o = opt THEN <<>> ELSE mng[o]]

\* Slip: the last value wins.
optMngAppendOptVal_Replace(mng, opt, value) ==
  IF value = NULL THEN mng ELSE [mng EXCEPT ![opt] = <<value>>]

\* Slip: the missing value is appended too.
optMngAppendOptVal_Null(mng, opt, value) == [mng EXCEPT ![opt] = Append(@, value)]

optMngAppendOptVal(mng, opt, value) ==
  IF value = NULL THEN mng ELSE [mng EXCEPT ![opt] = Append(@, value)]

\* The cases of the switch that append a value.
WithValue == {"SourceMibFile", "TargetPdfFile", "IncludePath", "BeginFrom"}

optionProcessing ==
  /\ phase = "process"
  /\ LET opt == optPiecesNext(iter) IN
     /\ opt.val # NULL
     /\ \/ ~Known(opt.val) /\ phase' = "crashed" /\ UNCHANGED <<iter, optionsManager>>
        \/ /\ Known(opt.val)
           /\ LET index == optAttr(opt.val).index
                  added == optMngAddOpt(optionsManager, index)
                  value == optPiecesNext(opt.iter) IN
                IF index \in WithValue
                THEN /\ optionsManager' = optMngAppendOptVal(added, index, value.val)
                     /\ iter' = value.iter
                ELSE optionsManager' = added /\ iter' = opt.iter
           /\ UNCHANGED phase
  /\ UNCHANGED <<argv, current, optionRelation, checked, optArray, numOfOptions,
                 srcMib, texPath>>

\* optionProcessing returns no value, which optionsInit compares with ERROR.
optionsInit ==
  /\ phase = "process" /\ optPiecesNext(iter).val = NULL
  /\ phase' \in {"main", "aborted"}
  /\ UNCHANGED <<argv, current, optionRelation, checked, Parsed>>
-----------------------------------------------------------------------------
optMngIsOptSet(opt) == opt \in DOMAIN optionsManager

optMngGetOptVal(opt) ==
  IF optMngIsOptSet(opt) /\ optionsManager[opt] # <<>>
  THEN optionsManager[opt][1] ELSE NULL

\* main gives up without a MIB, and has a name for the document.
main ==
  /\ phase = "main"
  /\ srcMib' = optMngGetOptVal("SourceMibFile")
  /\ \/ srcMib' = NULL /\ phase' = "aborted" /\ UNCHANGED texPath
     \/ /\ srcMib' # NULL /\ phase' = "read"
        /\ texPath' = IF optMngGetOptVal("TargetPdfFile") = NULL
                      THEN "./mibDocs.tex" ELSE optMngGetOptVal("TargetPdfFile")
  /\ UNCHANGED <<argv, current, optionRelation, checked, optArray, numOfOptions,
                 iter, optionsManager>>

Next ==
  \/ argumentChecking \/ optionValidity
  \/ argumentSplit \/ optionArrayGen
  \/ optionProcessing \/ optionsInit
  \/ main

Spec == Init /\ [][Next]_vars
-----------------------------------------------------------------------------
TypeOK ==
  /\ argv \in Seq(Words)
  /\ phase \in {"check", "split", "process", "main", "read", "help", "aborted", "crashed"}
  /\ current \in Nat \ {0} /\ checked \in Seq(Nat)
  /\ optionRelation \in [optionNumber -> [optionNumber -> Nat]]
  /\ optArray \in Seq((Words \cup {TERMINATOR}) \X (Words \cup {NULL}))
  /\ numOfOptions \in 0..Len(argv) /\ iter \in 0..(2 * Len(optArray))
  /\ DOMAIN optionsManager \subseteq optionNumber
  /\ \A o \in DOMAIN optionsManager : optionsManager[o] \in Seq(Words)
  /\ srcMib \in Words \cup {NULL} /\ texPath \in Words \cup {NULL, "./mibDocs.tex"}

\* argumentSplit and optionProcessing take the attributes of a word without
\* asking whether it has any: they see the words that argumentChecking saw.
NeverCrashes == phase # "crashed"

\* Whether an option, and not the value of one, stands at i of a command line.
IsOption(line) ==
  LET isOption[i \in 1..Len(line)] ==
        i = 1 \/ ~(isOption[i - 1] /\ Known(line[i - 1])
                                   /\ optAttr(line[i - 1]).withArgs)
  IN isOption

\* A command line is refused if a word that is neither an option nor a value of
\* one is on it, or an option that takes a path has none; and for no other reason.
Valid(line) ==
  /\ line # <<>>
  /\ \A i \in DOMAIN line : IsOption(line)[i] =>
       /\ Known(line[i])
       /\ optAttr(line[i]).check = "path" =>
            i < Len(line) /\ line[i + 1] \in PathString

AcceptsValid == phase # "check" => (phase = "help" <=> ~Valid(argv))

\* The part of the line that is processed: up to the first value that is T.
Seen(line) ==
  SubSeq(line, 1, Min({i \in DOMAIN line : line[i] = TERMINATOR} \cup {Len(line) + 1}) - 1)

At(line, opt) ==
  {i \in DOMAIN line : IsOption(line)[i] /\ optAttr(line[i]).index = opt}

\* The values are the words at these places of the line, in their order.
InOrder(values, places, line) ==
  \E place \in [DOMAIN values -> places] :
    /\ \A p \in places : \E k \in DOMAIN values : place[k] = p
    /\ \A k, l \in DOMAIN values : k < l => place[k] < place[l]
    /\ \A k \in DOMAIN values : values[k] = line[place[k]]

Flags == {"TreePrint", "ShowTypeDefined"}

\* Every option that was given before a value T has all its values, in the
\* order of the command line, and no other: whatever repeats, stands between
\* them or looks like an option.
ParsedAsWritten ==
  phase \in {"main", "read"} =>
    LET line == Seen(argv)
        valuesOf(o) == {i + 1 : i \in At(line, o)} \cap DOMAIN line IN
      /\ DOMAIN optionsManager = {optAttr(line[i]).index : i \in
                                    {j \in DOMAIN line : IsOption(line)[j]}}
      /\ \A o \in DOMAIN optionsManager :
           IF o \in Flags THEN optionsManager[o] = <<>>
           ELSE InOrder(optionsManager[o], valuesOf(o), line)
=============================================================================
