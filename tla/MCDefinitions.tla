--------------------------- MODULE MCDefinitions ---------------------------
(***************************************************************************)
(* Struct definitions with one part that may be wrong: lists of up to four *)
(* parts, and a field with any shape in any place.                         *)
(***************************************************************************)
EXTENDS Definitions

V(shape) == [shape |-> shape, items |-> <<>>]
L(items) == [shape |-> "list", items |-> items]
Vs(shapes) == {V(s) : s \in shapes}

Scalar == Vs(Shapes \ {"badlambda", "oddlambda", "list"}) \cup {L(<<>>)}
Field3 == L(<<V("string"), V("int"), V("string")>>)
Options == L(<<V("string"), V("lambda"), V("string"), V("map")>>)
FieldDefs ==
    {Field3, Options, V("null"), V("string"), L(<<>>), L(<<V("string"), V("int")>>),
     L(<<V("string"), V("int"), V("string"), V("map"), V("map")>>)}
    \cup {L(<<x, V("int"), V("string")>>) : x \in Scalar}
    \cup {L(<<V("string"), x, V("string")>>) : x \in Scalar}
    \cup {L(<<V("string"), V("int"), x>>) : x \in Scalar}
    \cup {L(<<V("string"), V("int"), V("string"), x>>) : x \in Scalar}
Fields == {L(<<>>), V("null"), V("map")} \cup {L(<<f>>) : f \in FieldDefs}
          \cup {L(<<Field3, f>>) : f \in FieldDefs}

MCLists ==
    {V("null"), V("map"), L(<<>>)}
    \cup {L(<<x>>) : x \in Scalar} \cup {L(<<V("string"), x>>) : x \in Scalar}
    \cup {L(<<x, V("int"), y>>) : x \in Scalar, y \in Fields}
    \cup {L(<<V("string"), x, y>>) : x \in Scalar, y \in Fields}
    \cup {L(<<V("string"), V("int"), x, V("string")>>) : x \in Fields}
MCSample  == L(<<V("string"), V("int"), L(<<Options>>)>>)
MCUnknown == "colour"
MCMaxArgs == 3
=============================================================================
