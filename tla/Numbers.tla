------------------------------ MODULE Numbers ------------------------------
(***************************************************************************)
(* What the parsers of numbers compute: ints and varints from bytes, and   *)
(* the parsers that wrap one of them, bit fields, flags, enumerations and  *)
(* timestamps, each of which first converts the value of the one it wraps  *)
(* with to_int64.                                                          *)
(*                                                                         *)
(* Words and bytes are scaled down; a signed word is an integer, negative  *)
(* if its top bit is set.  Offsets are from 0.                             *)
(***************************************************************************)
EXTENDS Integers, SequencesExt, FiniteSetsExt

CONSTANTS Contents,     \* what the reader may hold: a set of sequences of bytes
          ByteBits,     \* the bits of a byte (8 in the code)
          WordBits,     \* the bits of an int64 (64 in the code)
          Bases,        \* the parsers that wrap no other
          Starts, Ends, \* the start_bit and end_bit options to try
          Bitmaps,      \* the bitmap options to try: sets of <<name, bit>>
          Enumerations, \* the choices and map options to try: sets of <<number, name>>
          Factors,      \* the factor options to try (New makes 1 of 0)
          Second,       \* the nanoseconds of a second (10^9 in the code)
          Tick,         \* the 100 ns ticks of a second (10^7 in the code)
          Epoch,        \* the seconds from 1601 to 1970 (11644473600 in the code)
          Years,        \* the seconds that have a year that JSON can write
          MaxDepth      \* bound: parsers around one another

\* Powers of two.
Bit[i \in Nat] == IF i = 0 THEN 1 ELSE 2 * Bit[i - 1]

Kinds == {"int", "leb128", "sleb128", "string"}

ASSUME NumbersAssumption ==
    /\ ByteBits \in Nat \ {0, 1} /\ WordBits \in Nat
    /\ WordBits % ByteBits = 0 /\ WordBits >= ByteBits
    /\ Second \in Nat \ {0} /\ Tick \in Nat \ {0} /\ Epoch \in Nat /\ MaxDepth \in Nat \ {0}
    /\ \A c \in Contents : c \in Seq(0..Bit[ByteBits] - 1)
    /\ \A b \in Bases :
          /\ b.kind \in Kinds
          /\ b.kind = "int" => /\ b.size \in 1..WordBits \div ByteBits
                              /\ b.signed \in BOOLEAN /\ b.big \in BOOLEAN
    /\ Starts \subseteq Int /\ Ends \subseteq Int /\ Factors \subseteq Int \ {0}
    /\ \A m \in Bitmaps : IsFiniteSet(m) /\ \A b \in m : b[2] \in Int
    /\ \A m \in Enumerations : IsFiniteSet(m) /\ \A e \in m : e[1] \in Int

VARIABLES data,     \* what the reader holds
          parser,   \* a base and the parsers around it, outermost last
          at,       \* the offset it parsed at, -1 before that
          value     \* what it parsed

vars == <<data, parser, at, value>>

-----------------------------------------------------------------------------
\* The sum of f[1] to f[n].
SumTo(f, n) == LET s[i \in 0..n] == IF i = 0 THEN 0 ELSE s[i - 1] + f[i] IN s[n]

Unsigned(n) == n % Bit[WordBits]
Signed(n) == IF Unsigned(n) < Bit[WordBits - 1] THEN Unsigned(n) ELSE Unsigned(n) - Bit[WordBits]
IsSet(n, i) == (Unsigned(n) \div Bit[i]) % 2 = 1

\* Division in Go truncates, and the quotient of the least word by -1 wraps.
Abs(n) == IF n >= 0 THEN n ELSE -n
Truncated(a, b) == LET q == Abs(a) \div Abs(b) IN IF (a >= 0) = (b > 0) THEN q ELSE -q
Quot(a, b) == Signed(Truncated(a, b))
Rem(a, b)  == a - b * Truncated(a, b)

IntOf(n) == [type |-> "int", num |-> n]
VarInt(type, n, size) == [type |-> type, num |-> n, size |-> size]
Null == [type |-> "null"]

\* Mutant: varints are converted too.
IsInt_Varints(v) == v.type \in {"int", "leb128", "sleb128"}

\* to_int64 knows every width of int, but no VarInt, string or null.
IsInt(v) == v.type = "int"
ToInt64(v) == Signed(v.num)

\* A buffer of n bytes read at offset o, zero after the end of the data.
Buffer(o, n) == [i \in 1..n |-> IF o + i <= Len(data) THEN data[o + i] ELSE 0]
InData(o)    == o < Len(data)

LittleEndian(b) == SumTo([i \in DOMAIN b |-> b[i] * Bit[ByteBits * (i - 1)]], Len(b))

\* The converters of the model's ints.
Convert(t, buf) ==
    LET b == SubSeq(buf, 1, t.size)
        n == LittleEndian(IF t.big THEN Reverse(b) ELSE b)
    IN  IF t.signed /\ n >= Bit[ByteBits * t.size - 1] THEN n - Bit[ByteBits * t.size] ELSE n

ParseInt(t, o) ==
    IF InData(o) THEN IntOf(Convert(t, Buffer(o, WordBits \div ByteBits))) ELSE IntOf(0)

-----------------------------------------------------------------------------
(* Varints: groups of all but one bit, least significant first.            *)

Group == ByteBits - 1
Cap   == 1 + WordBits \div Group

Continues(b) == b >= Bit[Group]

\* Mutant: one group too few.
Groups_Short(buf) == Min({i \in 1..Cap : ~Continues(buf[i])} \cup {Cap - 1})

\* The groups of the varint at the front of the buffer.
Groups(buf) == Min({i \in 1..Cap : ~Continues(buf[i])} \cup {Cap})

\* The groups or'ed in their places; what is shifted out of the word is lost.
Base(buf) ==
    LET n == Groups(buf)
    IN  Unsigned(SumTo([i \in 1..n |-> (buf[i] % Bit[Group]) * Bit[Group * (i - 1)]], n))

ParseVarInt(type, o) ==
    LET buf == Buffer(o, Cap)
        n   == Base(buf)
    IN  IF InData(o)
          THEN VarInt(type, IF type = "sleb128" THEN Signed(n) ELSE n, Groups(buf))
          ELSE IntOf(0)

ParseBase(b, o) ==
    CASE b.kind = "int" -> ParseInt(b, o)
      [] b.kind \in {"leb128", "sleb128"} -> ParseVarInt(b.kind, o)
      [] b.kind = "string" -> [type |-> "string"]

-----------------------------------------------------------------------------
(* The wrappers, given the value v of the parser they wrap.                *)

\* Mutant: the last bit is included.
Masked_Inclusive(p, x) ==
    SumTo([i \in 1..WordBits |->
             IF i - 1 \in p.start..p.end /\ IsSet(x, i - 1) THEN Bit[i - 1] ELSE 0], WordBits)

\* The bits from start to before end, in their places.
Masked(p, x) ==
    SumTo([i \in 1..WordBits |->
             IF i - 1 \in p.start..p.end - 1 /\ IsSet(x, i - 1) THEN Bit[i - 1] ELSE 0], WordBits)

\* The shift is that of a signed word.
BitField(p, v) ==
    IF IsInt(v) THEN IntOf(Signed(Masked(p, ToInt64(v))) \div Bit[p.start]) ELSE IntOf(0)

\* Mutant: the number of a bit is used as a mask.
Flags_Unshifted(p, v) ==
    LET NameOf(b) == p.bits[Max({i \in DOMAIN p.bits : p.bits[i][2] = b})][1]
        Listed(n) == {i \in DOMAIN p.bits :
            /\ \E j \in 0..WordBits - 1 : IsSet(p.bits[i][2], j) /\ IsSet(ToInt64(v), j)
            /\ NameOf(p.bits[i][2]) = n}
    IN  [type  |-> "names",
         count |-> [n \in {p.bits[i][1] : i \in DOMAIN p.bits} |->
                       IF IsInt(v) THEN Cardinality(Listed(n)) ELSE 0]]

\* The name of a bit is the last that was given for it; it is listed once for
\* each name that was.
Flags(p, v) ==
    LET NameOf(b) == p.bits[Max({i \in DOMAIN p.bits : p.bits[i][2] = b})][1]
        Listed(n) == {i \in DOMAIN p.bits : IsSet(ToInt64(v), p.bits[i][2])
                                            /\ NameOf(p.bits[i][2]) = n}
    IN  [type  |-> "names",
         count |-> [n \in {p.bits[i][1] : i \in DOMAIN p.bits} |->
                       IF IsInt(v) THEN Cardinality(Listed(n)) ELSE 0]]

\* Mutant: the first name given for a number is kept.
Enumeration_First(p, v) ==
    LET Given == {i \in DOMAIN p.names : p.names[i][1] = ToInt64(v)}
    IN  IF ~IsInt(v) THEN Null
        ELSE IF Given # {} THEN [type |-> "name", name |-> p.names[Min(Given)][2]]
        ELSE [type |-> "hex", num |-> ToInt64(v)]

\* The last name given for the number, or the number itself in hex.
Enumeration(p, v) ==
    LET Given == {i \in DOMAIN p.names : p.names[i][1] = ToInt64(v)}
    IN  IF ~IsInt(v) THEN Null
        ELSE IF Given # {} THEN [type |-> "name", name |-> p.names[Max(Given)][2]]
        ELSE [type |-> "hex", num |-> ToInt64(v)]

Time(sec, nsec) == [type |-> "time", ns |-> sec * Second + nsec]

\* Mutant: the remainder is not taken.
Timestamp_Whole(p, v) ==
    IF IsInt(v) THEN Time(Quot(ToInt64(v), p.factor), Quot(ToInt64(v), p.factor)) ELSE Null

\* The remainder counts as nanoseconds, whatever the factor; a time whose
\* year JSON cannot write is null.
Timestamp(p, v) ==
    LET t == Time(Quot(ToInt64(v), p.factor), Rem(ToInt64(v), p.factor))
    IN  IF IsInt(v) /\ t.ns \div Second \in Years THEN t ELSE Null

\* Ticks of 100 ns since 1601; years are not checked.
WinFileTime(p, v) ==
    IF IsInt(v) THEN Time(Quot(Quot(ToInt64(v), p.factor), Tick) - Epoch, 0) ELSE Null

ParseWrapped(v, p) ==
    CASE p.kind = "BitField"    -> BitField(p, v)
      [] p.kind = "Flags"       -> Flags(p, v)
      [] p.kind = "Enumeration" -> Enumeration(p, v)
      [] p.kind = "Timestamp"   -> Timestamp(p, v)
      [] p.kind = "WinFileTime" -> WinFileTime(p, v)

\* Each parser converts what the one it wraps parsed.
ParseAll(p, v) ==
    LET r[i \in 1..Len(p)] == IF i = 1 THEN v ELSE ParseWrapped(r[i - 1], p[i])
    IN  r[Len(p)]

-----------------------------------------------------------------------------
Init ==
    /\ data \in Contents /\ parser \in {<<b>> : b \in Bases}
    /\ at = -1 /\ value = Null

\* New of a parser that wraps the one there is.
New(p) ==
    /\ at = -1 /\ Len(parser) < MaxDepth /\ parser' = Append(parser, p)
    /\ UNCHANGED <<data, at, value>>

\* An end_bit that is not given is that of a whole word.
EndBit(e) == IF e = 0 THEN WordBits ELSE e

\* Mutant: the bits may be given in any order.
ValidBits_Unordered(s, e) == s \in 0..WordBits /\ e \in 0..WordBits

\* New refuses any other bits.
ValidBits(s, e) == s \in 0..WordBits /\ e \in 0..WordBits /\ e > s

\* There are no options for the wrapped parser, so it wraps no other.
NewBitField(s, e) ==
    /\ ValidBits(s, EndBit(e)) /\ Len(parser) = 1
    /\ New([kind |-> "BitField", start |-> s, end |-> EndBit(e)])

\* The names come in the order of a Go map, which is any.
NewFlags(bitmap) ==
    /\ \A b \in bitmap : b[2] \in 0..WordBits - 1
    /\ \E bits \in SetToSeqs(bitmap) : New([kind |-> "Flags", bits |-> bits])

\* First the choices, whose numbers are read as signed ones, then the map,
\* whose numbers are converted.
NewEnumeration(choices, map) ==
    /\ \A c \in choices : c[1] = Signed(c[1])
    /\ \E first \in SetToSeqs(choices), then \in SetToSeqs({<<Signed(m[1]), m[2]>> : m \in map}) :
          New([kind |-> "Enumeration", names |-> first \o then, mapped |-> Len(then)])

NewTimestamp(kind, factor) == New([kind |-> kind, factor |-> factor])

Parse(o) ==
    /\ at = -1 /\ at' = o /\ value' = ParseAll(parser, ParseBase(parser[1], o))
    /\ UNCHANGED <<data, parser>>

Next ==
    \/ \E s \in Starts, e \in Ends : NewBitField(s, e)
    \/ \E b \in Bitmaps : NewFlags(b)
    \/ \E c, m \in Enumerations : NewEnumeration(c, m)
    \/ \E k \in {"Timestamp", "WinFileTime"}, f \in Factors : NewTimestamp(k, f)
    \/ \E o \in 0..Len(data) : Parse(o)

Spec == Init /\ [][Next]_vars
-----------------------------------------------------------------------------
(* What is checked.                                                        *)

Words == 0..Bit[WordBits] - 1
Wrappers == {"BitField", "Flags", "Enumeration", "Timestamp", "WinFileTime"}

TypeOK ==
    /\ data \in Contents /\ at \in -1..Len(data)
    /\ parser[1] \in Bases /\ Len(parser) <= MaxDepth
    /\ \A i \in 2..Len(parser) :
        /\ parser[i].kind \in Wrappers
        /\ parser[i].kind = "BitField" =>
              i = 2 /\ 0 <= parser[i].start /\ parser[i].start < parser[i].end
                    /\ parser[i].end <= WordBits
    /\ value.type \in {"int", "leb128", "sleb128", "string", "null", "names", "name", "hex", "time"}
    /\ value.type = "int" => value.num \in -Bit[WordBits - 1]..Bit[WordBits] - 1
    /\ value.type = "leb128" => value.num \in Words /\ value.size \in 1..Cap

\* The outermost parser, when it has parsed, and the number it was given.
Outer   == Last(parser)
Parsed(kind) == at # -1 /\ Len(parser) > 1 /\ Outer.kind = kind
Wrapped == ParseAll(Front(parser), ParseBase(parser[1], at))
Given   == ToInt64(Wrapped)

(***************************************************************************)
(* A bit field is the slice of the word from its start bit to before its   *)
(* end bit, as a number that is not negative; only one that includes the   *)
(* top bit has a sign, which its shift extends (bitfield.go:72-76), also   *)
(* when end_bit was left out of the definition.                            *)
(***************************************************************************)
BitFieldIsASlice ==
    Parsed("BitField") /\ IsInt(Wrapped) =>
        LET slice == Given \div Bit[Outer.start]
        IN  value.num = IF Outer.end = WordBits THEN slice
                        ELSE slice % Bit[Outer.end - Outer.start]

(***************************************************************************)
(* A name that flags answer is that of a bit that is set, and each set bit *)
(* is answered as often as it was given a name - but by one of its names   *)
(* only, as flags.go:52 keeps one name for a bit and flags.go:53 all bits. *)
(***************************************************************************)
FlagsNameSetBits ==
    Parsed("Flags") /\ IsInt(Wrapped) =>
        LET set   == {i \in DOMAIN Outer.bits : IsSet(Given, Outer.bits[i][2])}
            names == SetToSeq(DOMAIN value.count)
        IN  /\ \A n \in DOMAIN value.count : value.count[n] > 0 =>
                  n \in {Outer.bits[i][1] : i \in set}
            /\ SumTo([j \in DOMAIN names |-> value.count[names[j]]], Len(names)) = Cardinality(set)

(***************************************************************************)
(* An enumeration answers a name that was given for the number it read,    *)
(* one from its map before one from its choices (enumeration.go:46-71),    *)
(* and the number itself only if there is no name, whatever order the      *)
(* options come in and whatever wraps the number.                          *)
(***************************************************************************)
EnumerationNamesItsNumber ==
    Parsed("Enumeration") /\ IsInt(Wrapped) =>
        LET all    == {i \in DOMAIN Outer.names : Outer.names[i][1] = Given}
            mapped == {i \in all : i > Len(Outer.names) - Outer.mapped}
        IN  IF all = {} THEN value = [type |-> "hex", num |-> Given]
            ELSE value.name \in {Outer.names[i][2] : i \in IF mapped # {} THEN mapped ELSE all}

\* What an encoder writes for n.
Encoding[n \in Nat] ==
    IF n < Bit[Group] THEN <<n>>
                      ELSE <<Bit[Group] + (n % Bit[Group])>> \o Encoding[n \div Bit[Group]]
Encodings == [n \in Words |-> Encoding[n]]

(***************************************************************************)
(* A varint reads back what an encoder wrote, up to the largest word, and  *)
(* takes as many bytes, whatever follows them.  A sleb128 is the same word *)
(* with a sign: varint.go:46 extends none, so a negative number in fewer   *)
(* bytes than all reads as a positive one.                                 *)
(***************************************************************************)
VarintsReadBack ==
    at # -1 /\ value.type \in {"leb128", "sleb128"} =>
        \A n \in Words : IsPrefix(Encodings[n], SubSeq(data, at + 1, Len(data))) =>
            /\ value.size = Len(Encodings[n])
            /\ value.num = IF value.type = "sleb128" THEN Signed(n) ELSE n

(***************************************************************************)
(* No parser that wraps a varint reads it: its result is the one it has    *)
(* for null, whatever the data, as to_int64 (utils.go:11-64) does not know *)
(* VarInt.  A count or an offset that is a leb128 field is 0 likewise.     *)
(***************************************************************************)
VarintsAreNoNumbers ==
    /\ at # -1 /\ Len(parser) > 1 /\ InData(at)
    /\ parser[1].kind \in {"leb128", "sleb128"}
    => value = ParseAll(parser, Null)

(***************************************************************************)
(* A timestamp is in the second that the number is in, divided by the      *)
(* factor, before 1970 too, where the division and the remainder have the  *)
(* sign of the number (timestamp.go:76-77); within the second it is right  *)
(* only for a factor of 10^9, and a larger factor would move it to another *)
(* second.  A WinFileTime is in its second from 1601 on (timestamp.go:120).*)
(***************************************************************************)
TimestampIsInItsSecond ==
    /\ Parsed("Timestamp") /\ IsInt(Wrapped) /\ Outer.factor \in 1..Second =>
        LET second == Given \div Outer.factor
        IN  IF second \in Years THEN value # Null /\ value.ns \div Second = second
                                ELSE value = Null
    /\ Parsed("WinFileTime") /\ IsInt(Wrapped) /\ Outer.factor > 0 /\ Given >= 0 =>
        value.ns = (Given \div (Outer.factor * Tick) - Epoch) * Second
=============================================================================
