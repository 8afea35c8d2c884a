------------------------------ MODULE MCLayout ------------------------------
(***************************************************************************)
(* A small instance of Layout: four bytes of data, each null, a small      *)
(* number or one with the high bit, which read as a word is negative; an   *)
(* int, a fixed struct, structs and strings of variable size, a varint, an *)
(* enumeration and a pointer, and arrays of most of them.                  *)
(***************************************************************************)
EXTENDS Layout

MCContents    == [1..4 -> {0, 1, 2, 7}]
MCContinues   == {7}
MCLabel       == [b \in {0, 1, 2, 7} |-> b + 2]
MCPointerSize == 1
MCWord        == 8
MCMaxFields   == 2

N(n) == [lambda |-> FALSE, n |-> n]
L(n) == [lambda |-> TRUE, n |-> n]

Str(length, max, term, utf16) ==
    [kind |-> "string", length |-> length, max |-> max, term |-> term, utf16 |-> utf16]

MCElements ==
    [uint8   |-> [kind |-> "int", size |-> 1],
     Pair    |-> [kind |-> "struct", size |-> 2],
     Empty   |-> [kind |-> "struct", size |-> 0],
     Sized   |-> [kind |-> "sized", base |-> -1],
     cstring |-> Str(N(3), 3, <<0>>, FALSE),
     counted |-> Str(L(1), 3, <<>>, FALSE),
     wide    |-> Str(N(4), 3, <<0>>, TRUE),
     ended   |-> Str(N(4), 4, <<1, 2>>, FALSE),
     leb128  |-> [kind |-> "varint"],
     enum    |-> [kind |-> "enum", size |-> 1],
     ptr     |-> [kind |-> "pointer", of |-> "Sized"]]

Arr(n, count, max, sentinel) == [of |-> n, count |-> count, max |-> max, sentinel |-> sentinel]

MCArrays ==
    [uint8s   |-> Arr("uint8", L(0), 2, -1),
     until    |-> Arr("uint8", N(3), 3, 1),
     Pairs    |-> Arr("Pair", N(2), 3, -1),
     Empties  |-> Arr("Empty", N(2), 3, -1),
     Sizeds   |-> Arr("Sized", N(3), 2, 2),
     leb128s  |-> Arr("leb128", N(2), 2, -1),
     ptrs     |-> Arr("ptr", N(2), 2, -1)]

\* The arrays of strings.
MCStringArrays == [cstrings |-> Arr("cstring", N(2), 3, -1)]
=============================================================================
