-------------------------- MODULE MCSharedParsers --------------------------
(***************************************************************************)
(* Three goroutines and a union with the choices a and default, either of  *)
(* which may be undefined when the goroutines start.                       *)
(***************************************************************************)
EXTENDS SharedParsers, TLC

CONSTANTS g1, g2, g3

MCGoroutines == {g1, g2, g3}
MCTypeNames  == {"A", "D"}
MCChoices    == <<"a", "default">>
MCTypeOf     == [a |-> "A", default |-> "D"]
MCElement    == "A"
MCValues     == {"a", "z"}
Symmetry     == Permutations(MCGoroutines)
=============================================================================
