---------------------------- MODULE MCSymbolStage ----------------------------
(* Two names, so that a definition can repeat, shadow or miss another.       *)
EXTENDS SymbolStage

Names     == {"x", "y"}
Chains    == {<<>>, <<"x", "y">>}
Wanteds   == {{"x"}}
=============================================================================
