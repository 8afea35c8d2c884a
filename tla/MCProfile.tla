----------------------------- MODULE MCProfile -----------------------------
(***************************************************************************)
(* A small instance of Profile.  The texts between them take every exit of *)
(* the load: a forward reference, one that is never defined, a duplicate   *)
(* name, a bad size and a bad offset expression, options that New rejects, *)
(* and wrappers over a type that is unknown or defined later.              *)
(***************************************************************************)
EXTENDS Profile

MCNames       == {"uint8", "Array", "A", "B"}
MCModelTypes  == {"uint8", "Array"}
MCOptionTypes == {"Array"}
MCMaxLoads    == 2

T(o, i, n) == [outer |-> o, inner |-> i, leaf |-> n]
F(t) == [type |-> t, badOffset |-> FALSE]
S(n, fs) == [name |-> n, badSize |-> FALSE, fields |-> fs]

Forward    == <<S("A", <<F(T("none", "none", "uint8")), F(T("none", "none", "B"))>>),
                S("B", <<F(T("none", "none", "uint8"))>>)>>
Undefined  == <<S("A", <<F(T("none", "none", "A")), F(T("none", "none", "B"))>>)>>
Duplicate  == <<S("A", <<F(T("none", "none", "uint8"))>>), S("A", <<>>)>>
BadSize    == <<[S("A", <<F(T("none", "none", "uint8"))>>) EXCEPT !.badSize = TRUE]>>
BadField   == <<S("A", <<F(T("none", "none", "B")),
                         [F(T("none", "none", "uint8")) EXCEPT !.badOffset = TRUE]>>),
                S("B", <<>>)>>
BadOptions == <<S("A", <<F(T("none", "none", "B")), F(T("none", "none", "Array"))>>)>>
Masks      == <<S("uint8", <<>>)>>
Lazily     == <<S("A", <<F(T("Array", "Enumeration", "B")), F(T("Pointer", "none", "B"))>>)>>
Strictly   == <<S("A", <<F(T("Flags", "Timestamp", "B")), F(T("BitField", "none", "B"))>>)>>
Masked     == <<S("A", <<F(T("Enumeration", "BitField", "B"))>>)>>
Late       == <<S("A", <<F(T("Profile", "Flags", "B")), F(T("Profile", "Array", "Array"))>>)>>
DefineB    == <<S("B", <<F(T("Array", "none", "uint8"))>>)>>
Again      == <<S("A", <<F(T("none", "none", "uint8"))>>)>>

MCDefinitions == {Forward, Undefined, Duplicate, BadSize, BadField, BadOptions, Masks,
                  Lazily, Strictly, Masked, Late, DefineB, Again}
=============================================================================
