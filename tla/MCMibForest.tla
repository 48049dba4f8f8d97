----------------------------- MODULE MCMibForest -----------------------------
(* Symbols a, b and c; z is a name that nobody defines.  The main MIB defines *)
(* t, u and v in any order and below anything, or a symbol once more.        *)
EXTENDS MibForest, TLC

Names   == {"a", "b", "c", "z", "t", "u", "v"}
Main    == {"t", "u", "v", "a"}
Tables  ==
  { <<>>,
    "a" :> "z" @@ "b" :> "a" @@ "c" :> "a",        \* a fork
    "a" :> "z" @@ "b" :> "a" @@ "c" :> "b",        \* a line
    "a" :> NULL @@ "b" :> "a" }                    \* an OID chain
=============================================================================
