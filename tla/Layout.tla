------------------------------- MODULE Layout -------------------------------
(***************************************************************************)
(* Where things are: what the parsers of fixed and variable size take from *)
(* the data, what SizeOf says of them, how an array steps from one element *)
(* to the next, and how a reference ("@field") places the next field of a  *)
(* struct right after the last one, at its RelEndOf.                       *)
(*                                                                         *)
(* A byte is a small number; Continues are those with the high bit of a    *)
(* varint.  Offsets are from 0, so byte o is data[o + 1].                  *)
(***************************************************************************)
EXTENDS Integers, SequencesExt, FiniteSetsExt

CONSTANTS Contents,     \* what the reader may hold: a set of sequences of bytes
          Continues,    \* the bytes after which a varint goes on
          Label,        \* Label[b]: the length of the enumeration's name for b
          PointerSize,  \* the bytes of an address (8 in the code)
          Word,         \* the values an integer has (2^64 in the code)
          Elements,     \* Elements[n]: the definition of type n, not an array
          Arrays,       \* Arrays[n]: the definition of array type n
          MaxFields     \* bound: fields of the struct

(***************************************************************************)
(* An element has a kind, and as its kind needs: the bytes of an int, of a *)
(* struct or of the int under an enumeration; the base to which a struct   *)
(* whose size is a lambda adds its first byte; the options of a string;    *)
(* the type a pointer points to, which is no pointer itself.  An array has *)
(* the name of its element type, a count, a maximum and a sentinel byte.   *)
(* A count or length is a number, or a lambda that reads the byte at a     *)
(* given offset.                                                           *)
(***************************************************************************)
Bytes == DOMAIN Label

IsNumber(e) == e.lambda \in BOOLEAN /\ e.n \in Int

IsElement(t) ==
    \/ t.kind \in {"int", "struct", "enum"} /\ t.size \in Nat
    \/ t.kind = "sized" /\ t.base \in Int
    \/ /\ t.kind = "string" /\ IsNumber(t.length) /\ t.max \in Int
       /\ t.utf16 \in BOOLEAN /\ t.term \in Seq(Bytes)
    \/ t.kind = "varint"
    \/ t.kind = "pointer" /\ t.of \in DOMAIN Elements /\ Elements[t.of].kind # "pointer"

ASSUME LayoutAssumption ==
    /\ Word \in Nat \ {0} /\ PointerSize \in Nat \ {0} /\ MaxFields \in Nat
    /\ Bytes \subseteq Nat /\ 0 \in Bytes /\ \A b \in Bytes : Label[b] \in Nat
    /\ \A c \in Contents : c \in Seq(Bytes)
    /\ DOMAIN Elements \cap DOMAIN Arrays = {}
    /\ \A n \in DOMAIN Elements : IsElement(Elements[n])
    /\ \A n \in DOMAIN Arrays :
          /\ Arrays[n].of \in DOMAIN Elements /\ IsNumber(Arrays[n].count)
          /\ Arrays[n].max \in Nat \ {0} /\ Arrays[n].sentinel \in Int

VARIABLES data,     \* what the reader holds
          fields,   \* the fields placed so far
          panicked  \* a parser called make with a negative length

vars == <<data, fields, panicked>>

-----------------------------------------------------------------------------
\* Up to n bytes at offset o, as many as there are; none at a negative offset.
ReadAt(o, n) ==
    IF o < 0 THEN <<>> ELSE SubSeq(data, o + 1, IF o + n < Len(data) THEN o + n ELSE Len(data))

InData(o) == o \in 0..Len(data) - 1

Byte(o) == IF InData(o) THEN data[o + 1] ELSE 0

\* EvalLambdaAsInt64 of an unsigned word, which is converted to a signed one.
ToInt64(w) == IF 2 * (w % Word) < Word THEN w % Word ELSE (w % Word) - Word

Evaluate(e) == IF e.lambda THEN ToInt64(Byte(e.n)) ELSE e.n

-----------------------------------------------------------------------------
(* Strings.                                                                *)

StringCount(t) == IF Evaluate(t.length) > t.max THEN t.max ELSE Evaluate(t.length)

Step(t) == IF t.utf16 THEN 2 ELSE 1

\* The terminator as bytes: utf16 is little endian.
TermBytes(t) ==
    IF t.utf16 THEN [k \in 1..2 * Len(t.term) |-> IF k % 2 = 1 THEN t.term[(k + 1) \div 2] ELSE 0]
               ELSE t.term

\* Mutant: the search of a utf16 terminator goes byte by byte.
Found_Unaligned(t, w) ==
    {i \in 0..Len(w) - 1 :
        /\ TermBytes(t) # <<>>
        /\ i + Len(TermBytes(t)) <= Len(w)
        /\ SubSeq(w, i + 1, i + Len(TermBytes(t))) = TermBytes(t)}

\* Where the terminator is in the bytes w that were read.
Found(t, w) ==
    {i \in 0..Len(w) - 1 :
        /\ i % Step(t) = 0 /\ TermBytes(t) # <<>>
        /\ i + Len(TermBytes(t)) <= Len(w)
        /\ SubSeq(w, i + 1, i + Len(TermBytes(t))) = TermBytes(t)}

\* The bytes of the string, before they are decoded.
StringBytes(t, o) ==
    LET w == ReadAt(o, StringCount(t))
    IN  IF Found(t, w) = {} THEN w ELSE SubSeq(w, 1, Min(Found(t, w)))

\* Mutant: the size leaves out the terminator.
InstanceSize_NoTerm(t, o) == IF t.kind = "string" THEN Len(StringBytes(t, o)) ELSE 0

\* How much the parser says an instance takes, 0 if it does not say.
InstanceSize(t, o) ==
    IF t.kind # "string" THEN 0
    ELSE LET w == ReadAt(o, StringCount(t))
         IN  IF Found(t, w) = {} THEN Len(w) ELSE Min(Found(t, w)) + Len(TermBytes(t))

\* The bytes of the UTF-8 form of a code unit; the bytes below Continues are
\* taken to be small, those above to be no surrogates.
Utf8Length(lo, hi) ==
    IF hi \in Continues THEN 3 ELSE IF hi = 0 /\ lo \notin Continues THEN 1 ELSE 2

\* The length of the Go string that comes of them: for each code unit, the
\* bytes of its form.
StringLength(t, o) ==
    LET b == StringBytes(t, o)
    IN  IF t.utf16 THEN Cardinality({u \in (1..Len(b) \div 2) \X (1..3) :
                                       u[2] <= Utf8Length(b[2 * u[1] - 1], b[2 * u[1]])})
                   ELSE Len(b)

-----------------------------------------------------------------------------
(* Sizes of the other types, of what they parse to, and of references.     *)

\* The size the parser itself knows, 0 if it does not.
ParserSize(t) == IF t.kind \in {"int", "struct"} THEN t.size ELSE 0

\* A varint ends at its first byte without the high bit.
VarIntSize(o) ==
    LET ends == {i \in 1..10 : Byte(o + i - 1) \notin Continues}
    IN  IF ~ InData(o) THEN 0 ELSE IF ends = {} THEN 10 ELSE Min(ends)

\* SizeOf what t parses to at o: a Go int, uint or time has no size.
FlatSize(t, o) ==
    CASE t.kind = "struct" -> t.size
      [] t.kind = "sized"  -> Byte(o) + t.base
      [] t.kind = "string" -> StringLength(t, o)
      [] t.kind = "enum"   -> Label[Byte(o)]
      [] t.kind = "varint" -> VarIntSize(o)
      [] OTHER             -> 0

\* A pointer is never seen itself, it parses to what it points to.
ValueSize(t, o) ==
    IF t.kind = "pointer"
      THEN IF ~ InData(o) THEN 0 ELSE FlatSize(Elements[t.of], Byte(o))
      ELSE FlatSize(t, o)

\* The array loop's step: the parser may know the size, or else the element.
ElementSize(t, o) == IF ParserSize(t) # 0 THEN ParserSize(t) ELSE ValueSize(t, o)

-----------------------------------------------------------------------------
(* Arrays.                                                                 *)

\* Mutant: the limit is not applied.
ArrayCount_NoMax(a) == IF Evaluate(a.count) < 0 THEN 0 ELSE Evaluate(a.count)

ArrayCount(a) ==
    IF Evaluate(a.count) > a.max THEN a.max
    ELSE IF Evaluate(a.count) < 0 THEN 0 ELSE Evaluate(a.count)

\* The array's elements are [start, size], the loop stops or goes on at next.
Loop0(o) == [items |-> <<>>, next |-> o, stop |-> FALSE]

\* Mutant: an element without a size does not end the loop.
LoopStep_KeepsEmpty(a, s) ==
    LET t == Elements[a.of]
        size == ElementSize(t, s.next)
    IN  IF s.stop THEN s
        ELSE IF Byte(s.next) = a.sentinel THEN [s EXCEPT !.stop = TRUE]
        ELSE [items |-> Append(s.items, [start |-> s.next, size |-> size]),
              next |-> s.next + size, stop |-> FALSE]

\* Mutant: the next element is one past the end of the last.
LoopStep_OffByOne(a, s) ==
    LET t == Elements[a.of]
        size == ElementSize(t, s.next)
    IN  IF s.stop THEN s
        ELSE IF Byte(s.next) = a.sentinel \/ size = 0 THEN [s EXCEPT !.stop = TRUE]
        ELSE [items |-> Append(s.items, [start |-> s.next, size |-> size]),
              next |-> s.next + size + 1, stop |-> FALSE]

LoopStep(a, s) ==
    LET t == Elements[a.of]
        size == ElementSize(t, s.next)
    IN  IF s.stop THEN s
        ELSE IF Byte(s.next) = a.sentinel \/ size = 0 THEN [s EXCEPT !.stop = TRUE]
        ELSE [items |-> Append(s.items, [start |-> s.next, size |-> size]),
              next |-> s.next + size, stop |-> FALSE]

ParseArray(a, o) ==
    LET s[i \in 0..ArrayCount(a)] == IF i = 0 THEN Loop0(o) ELSE LoopStep(a, s[i - 1])
    IN  s[ArrayCount(a)]

-----------------------------------------------------------------------------
(* References.                                                             *)

\* ParseAtOffset.Size, which is the Size of a reference to an element at o.
ReferenceSize(t, o) ==
    IF ParserSize(t) # 0 THEN ParserSize(t)
    ELSE IF InstanceSize(t, o) # 0 THEN InstanceSize(t, o)
    ELSE ValueSize(t, o)

\* A field of the struct: its type, offset, size, and an array's elements.
Field(n, o) ==
    IF n \in DOMAIN Elements
      THEN [type |-> n, start |-> o, size |-> ReferenceSize(Elements[n], o), items |-> <<>>]
      ELSE LET s == ParseArray(Arrays[n], o)
           IN  [type |-> n, start |-> o, size |-> s.next - o, items |-> s.items]

RelEndOf(f) == f.start + f.size

\* make([]byte, n) panics on a negative n; the loop calls it for an element.
StringPanics(t) == t.kind = "string" /\ StringCount(t) < 0
Panics(n) ==
    IF n \in DOMAIN Elements THEN StringPanics(Elements[n])
    ELSE ArrayCount(Arrays[n]) > 0 /\ StringPanics(Elements[Arrays[n].of])

Init == data \in Contents /\ fields = <<>> /\ panicked = FALSE

\* The next field of the struct is at the RelEndOf of the one before.
AddField(n) ==
    /\ ~ panicked /\ Len(fields) < MaxFields
    /\ IF Panics(n)
         THEN panicked' = TRUE /\ UNCHANGED fields
         ELSE LET o == IF fields = <<>> THEN 0 ELSE RelEndOf(fields[Len(fields)])
              IN  fields' = Append(fields, Field(n, o)) /\ UNCHANGED panicked
    /\ UNCHANGED data

Next == \E n \in DOMAIN Elements \cup DOMAIN Arrays : AddField(n)

Spec == Init /\ [][Next]_vars

-----------------------------------------------------------------------------
(* What is checked.                                                        *)

Items == Seq([start : Int, size : Int \ {0}])

TypeOK ==
    /\ data \in Contents /\ panicked \in BOOLEAN
    /\ fields \in Seq([type : DOMAIN Elements \cup DOMAIN Arrays, start : Int, size : Int,
                       items : Items])

ElementFields == {f \in Range(fields) : f.type \in DOMAIN Elements}
ArrayFields   == {f \in Range(fields) : f.type \in DOMAIN Arrays}

(***************************************************************************)
(* The two copies of the search in string.go:69-122 and 157-210 agree: the *)
(* bytes a reference says a string takes are those of the string and then  *)
(* its terminator, aligned, or else all that could be read.                *)
(***************************************************************************)
StringsTile ==
    \A f \in ElementFields : LET t == Elements[f.type] IN t.kind = "string" =>
        LET taken == ReadAt(f.start, f.size)
            b == StringBytes(t, f.start)
        IN  \/ taken = b \o TermBytes(t) /\ Len(b) % Step(t) = 0
            \/ taken = b /\ b = ReadAt(f.start, StringCount(t))

(***************************************************************************)
(* An array is where a chain of fields of its element type would be, each  *)
(* at the RelEndOf of the one before, and ends where the chain ends: the   *)
(* loop's offsets (array.go:121-132) agree with those of references, which *)
(* are computed by other code (struct.go:99-114).  Not so for strings,     *)
(* whose SizeOf leaves out the terminator.                                 *)
(***************************************************************************)
ArrayIsAChain ==
    \A f \in ArrayFields : LET t == Elements[Arrays[f.type].of] IN t.kind # "string" =>
        \A k \in 0..Len(f.items) :
            LET end == IF k = 0 THEN f.start
                       ELSE f.items[k].start + ReferenceSize(t, f.items[k].start)
            IN  end = IF k = Len(f.items) THEN RelEndOf(f) ELSE f.items[k + 1].start

(***************************************************************************)
(* The array has the elements that were asked for, at most its maximum; it *)
(* is shorter only where the next one is the sentinel or has no size, and  *)
(* the sentinel is none of its elements.                                   *)
(***************************************************************************)
ShortForAReason ==
    \A f \in ArrayFields :
        LET a == Arrays[f.type]
            n == Len(f.items)
        IN  /\ n <= a.max
            /\ n < a.max /\ n < Evaluate(a.count) =>
                  \/ Byte(RelEndOf(f)) = a.sentinel
                  \/ ElementSize(Elements[a.of], RelEndOf(f)) = 0
            /\ \A k \in 1..n : Byte(f.items[k].start) # a.sentinel

\* The bytes an element takes from the data.
Extent(t, o) ==
    CASE t.kind \in {"int", "struct", "enum"} -> t.size
      [] t.kind = "sized"   -> Byte(o) + t.base
      [] t.kind = "pointer" -> PointerSize
      [] t.kind = "varint"  -> VarIntSize(o)
      [] t.kind = "string"  ->
            LET w == ReadAt(o, StringCount(t))
                ends == {k \in 0..Len(w) : \E j \in Found(t, w) : k = j + Len(TermBytes(t))}
            IN  IF ends = {} THEN Len(w) ELSE Min(ends)

(***************************************************************************)
(* The size of a field is the bytes it takes, so that the next field can   *)
(* be put after it: README.md:245 and 262-300 for ints, structs of either  *)
(* kind, varints and strings.                                              *)
(***************************************************************************)
Measured == {"int", "struct", "sized", "varint", "string"}
SizeIsExtent ==
    \A f \in ElementFields : Elements[f.type].kind \in Measured =>
        f.size = Extent(Elements[f.type], f.start)

\* README.md:245 says it of every field.
SizeOfFieldInBytes ==
    \A f \in ElementFields : f.size = Extent(Elements[f.type], f.start)

\* README.md:150 says how many elements an array without a sentinel has, as
\* long as there is data for another element.
CountIsTheNumber ==
    \A f \in ArrayFields : LET a == Arrays[f.type] IN
        (a.sentinel = -1 /\ RelEndOf(f) < Len(data)) => Len(f.items) = ArrayCount(a)

\* parser_test.go:324 says that a huge length is clamped to max_length.
LengthIsClamped == ~ panicked
=============================================================================
