--------------------------- MODULE MCModuleSwitch ---------------------------
(***************************************************************************)
(* File systems for ModuleSwitch: a main MIB "m" with zero, one or two     *)
(* import clauses (repeats, itself and an alias included), two MIBs "a"    *)
(* and "b" that may import each other, themselves or an absent file.       *)
(***************************************************************************)
EXTENDS ModuleSwitch, TLC

L(kind)      == [kind |-> kind, arg |-> NONE]
Use(t)       == [kind |-> "USE", arg |-> t]
Types(t)     == [kind |-> "TYPE", arg |-> t]
Clauses(ms)  == [i \in DOMAIN ms |-> [kind |-> "FROM", arg |-> ms[i]]]
Imports(ms)  == IF ms = <<>> THEN <<>> ELSE Clauses(ms) \o <<L("SEMI")>>
File(ms, body) == Imports(ms) \o body \o <<L("END")>>

MainImports == {<<>>, <<"a">>, <<"a", "b">>, <<"b", "a">>, <<"b", "b">>,
                <<"old", "a">>, <<"m">>}
AImports    == {<<>>, <<"b">>, <<"a">>, <<"m", "b">>, <<"absent">>}
BImports    == {<<>>, <<"a">>}
MainBodies  == {<<L("DEF"), Use("T"), L("DEF")>>}
ABodies     == {<<Use("T"), L("DEF")>>, <<Use("T"), Types("T")>>}
BBodies     == {<<L("DEF"), Types("T")>>, <<L("DEF")>>}

MCTexts ==
  {("m" :> File(i, x)) @@ ("a" :> File(j, y)) @@ ("b" :> File(k, z)) :
     i \in MainImports, x \in MainBodies, j \in AImports, y \in ABodies,
     k \in BImports, z \in BBodies}

\* Constructs that end a run early, and an IMPORTS below a definition.
OddBodies ==
  {<<L("DEF"), L("CLASH"), L("SEMI")>>,
   <<L("BAD"), L("DEF")>>,
   <<L("DEF")>> \o Imports(<<"b">>) \o <<L("DEF")>>}
OddTexts ==
  {("m" :> File(i, x)) @@ ("a" :> File(<<"b">>, y)) @@ ("b" :> File(<<>>, z)) :
     i \in {<<>>, <<"a">>}, x \in OddBodies, y \in OddBodies, z \in BBodies}

AllTexts == MCTexts \cup OddTexts
MCAlias  == "old" :> "b"
=============================================================================
