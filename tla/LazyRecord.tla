----------------------------- MODULE LazyRecord -----------------------------
(***************************************************************************)
(* What a struct promises to those who read its fields: a field may have   *)
(* any value when it is first read, and has that value ever after.         *)
(***************************************************************************)
EXTENDS Naturals, FiniteSets

VARIABLES memo,     \* pairs of a field and the value it was found to have
          answers   \* the pairs that were given to a reader

Init == memo = {} /\ answers = {}

OneValueEach == \A p, q \in memo : p[1] = q[1] => p = q

Next == /\ memo \subseteq memo' /\ Cardinality(memo' \ memo) <= 1
        /\ answers \subseteq answers' /\ Cardinality(answers' \ answers) <= 1
        /\ answers' \subseteq memo'
        /\ OneValueEach'

Spec == Init /\ [][Next]_<<memo, answers>>
=============================================================================
