-------------------------- MODULE MCArrayIterator ---------------------------
(***************************************************************************)
(* Three iterations over an array of a struct and a nested array; the      *)
(* first two share a context.                                              *)
(***************************************************************************)
EXTENDS ArrayIterator

MCIterations == {"i1", "i2", "i3"}
MCContexts   == {"c1", "c2"}
MCContextOf  == [i \in MCIterations |-> IF i = "i3" THEN "c2" ELSE "c1"]
MCArray      == <<[kind |-> "struct", id |-> 1], [kind |-> "array", id |-> 2]>>
=============================================================================
