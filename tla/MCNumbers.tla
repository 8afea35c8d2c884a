----------------------------- MODULE MCNumbers -----------------------------
(***************************************************************************)
(* Numbers of 8 bits in bytes of 4: a word is two bytes and a varint has   *)
(* groups of 3 bits, of which the third is cut by the word.                *)
(***************************************************************************)
EXTENDS Numbers

Nibbles == {0, 1, 7, 10, 15}
MCData  == BoundedSeq(Nibbles, 2) \cup {<<8, 15, 3>>, <<15, 15, 3>>, <<9, 8, 1>>, <<15, 15, 15>>}

I(size, signed, big) == [kind |-> "int", size |-> size, signed |-> signed, big |-> big]
B(kind)  == [kind |-> kind]
MCBases  == {I(1, TRUE, FALSE), I(2, FALSE, FALSE), I(2, TRUE, TRUE),
             B("leb128"), B("sleb128"), B("string")}

MCStarts  == {0, 3, 7}
MCEnds    == {0, 4, 7, 9}
MCBitmaps == {{<<"a", 0>>, <<"b", 3>>}, {<<"a", 7>>, <<"b", 7>>}, {<<"a", 8>>}}
MCEnumerations == {{<<1, "one">>, <<1, "uno">>}, {<<-1, "minus">>}, {<<255, "max">>}}
MCFactors == {-1, 1, 3}
MCYears   == -20..20
=============================================================================
