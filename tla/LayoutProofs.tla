---------------------------- MODULE LayoutProofs ----------------------------
(***************************************************************************)
(* Proofs about Layout, for any data, types and number of fields: strings  *)
(* tile, sizes are extents, and an array is a chain of its elements that   *)
(* ends where it should.                                                   *)
(*                                                                         *)
(* The loop of an array is a recursive function.  Induction over its turns *)
(* is that over a set of numbers: one that has 0 and with each number the  *)
(* next has all, as what it lacks would have a least element.              *)
(***************************************************************************)
EXTENDS Layout, SequenceTheorems, FiniteSetTheorems, TLAPS

-----------------------------------------------------------------------------
(* Numbers.                                                                *)

LEMMA LeastNumber ==
  ASSUME NEW T, T \subseteq Nat, T # {}
  PROVE  \E x \in T : \A y \in T : x <= y
  <1>. DEFINE R == OpToRel(<, Nat)
  <1>1. IsWellFoundedOn(R, Nat)
    BY NatLessThanWellFounded
  <1>2. \A x, y \in Nat : x < y => <<x, y>> \in R
    BY DEF OpToRel
  <1>. HIDE DEF R
  <1>3. PICK x \in T : \A y \in T : ~(<<y, x>> \in R)
    BY <1>1, WFMin
  <1>4. \A y \in T : x <= y
    <2>. TAKE y \in T
    <2>1. x \in Nat /\ y \in Nat /\ ~(y < x)
      BY <1>2, <1>3
    <2>. QED BY <2>1
  <1>. QED BY <1>3, <1>4

LEMMA SetInduction ==
  ASSUME NEW S, 0 \in S, \A n \in Nat : n \in S => n + 1 \in S
  PROVE  Nat \subseteq S
  <1>. DEFINE T == Nat \ S
  <1>. SUFFICES ASSUME T # {} PROVE FALSE
    OBVIOUS
  <1>1. PICK x \in T : \A y \in T : x <= y
    <2>1. T \subseteq Nat
      OBVIOUS
    <2>. HIDE DEF T
    <2>. QED BY <2>1, LeastNumber
  <1>2. x \in Nat /\ x # 0
    OBVIOUS
  <1>3. x - 1 \in Nat /\ ~(x <= x - 1)
    BY <1>2
  <1>4. x - 1 \in S
    BY <1>1, <1>3
  <1>5. x - 1 + 1 \in S
    BY <1>3, <1>4
  <1>. QED BY <1>2, <1>5

LEMMA MinOfNumbers ==
  ASSUME NEW S, S \subseteq Nat, S # {}
  PROVE  Min(S) \in S /\ \A y \in S : Min(S) <= y
  <1>1. \E x \in S : \A y \in S : x <= y
    BY LeastNumber
  <1>. QED BY <1>1 DEF Min

LEMMA MinIs ==
  ASSUME NEW S, S \subseteq Nat, NEW x \in S, \A y \in S : x <= y
  PROVE  Min(S) = x
  <1>1. Min(S) \in S /\ Min(S) <= x /\ x <= Min(S)
    BY MinOfNumbers
  <1>2. Min(S) \in Nat /\ x \in Nat
    BY <1>1
  <1>. QED BY <1>1, <1>2

-----------------------------------------------------------------------------
(* What is read from data.                                                 *)

DataOK == data \in Seq(Bytes)

LEMMA ConstantsAre ==
  /\ Word \in Nat \ {0} /\ PointerSize \in Nat \ {0}
  /\ Bytes \subseteq Nat /\ 0 \in Bytes /\ \A b \in Bytes : Label[b] \in Nat
  /\ \A n \in DOMAIN Elements : IsElement(Elements[n])
  /\ \A n \in DOMAIN Arrays :
        /\ Arrays[n].of \in DOMAIN Elements /\ IsNumber(Arrays[n].count)
        /\ Arrays[n].max \in Nat \ {0} /\ Arrays[n].sentinel \in Int
        /\ n \notin DOMAIN Elements
  BY LayoutAssumption

LEMMA ByteType ==
  ASSUME DataOK, NEW o \in Int
  PROVE  Byte(o) \in Bytes /\ Byte(o) \in Nat
  <1>1. Byte(o) \in Bytes
    BY ConstantsAre DEF Byte, InData, DataOK
  <1>. QED BY <1>1, ConstantsAre

LEMMA EvaluateType ==
  ASSUME DataOK, NEW e, IsNumber(e)
  PROVE  Evaluate(e) \in Int
  <1>1. Byte(e.n) \in Nat
    BY ByteType DEF IsNumber
  <1>2. \A w \in Nat : ToInt64(w) \in Int
    <2>1. \A w \in Nat : w % Word \in Int
      BY ConstantsAre
    <2>. QED BY <2>1, ConstantsAre DEF ToInt64
  <1>. QED BY <1>1, <1>2 DEF Evaluate, IsNumber

\* Where a read of n bytes at o ends.
End(o, n) == IF o + n < Len(data) THEN o + n ELSE Len(data)

LEMMA ReadAtIs ==
  ASSUME DataOK, NEW o \in Nat, NEW n \in Int
  PROVE  /\ ReadAt(o, n) = SubSeq(data, o + 1, End(o, n)) /\ End(o, n) \in Int
         /\ ReadAt(o, n) \in Seq(Bytes)
         /\ Len(ReadAt(o, n)) = IF o < End(o, n) THEN End(o, n) - o ELSE 0
  <1>1. Len(data) \in Nat /\ \A i \in 1..Len(data) : data[i] \in Bytes
    BY DEF DataOK
  <1>2. ReadAt(o, n) = SubSeq(data, o + 1, End(o, n)) /\ End(o, n) \in Int
    BY <1>1 DEF ReadAt, End
  <1>3. \A i \in o + 1..End(o, n) : data[i] \in Bytes
    BY <1>1 DEF End
  <1>. DEFINE e == End(o, n)
              B == Bytes
  <1>4. e \in Int /\ \A i \in o + 1..e : data[i] \in B
    BY <1>2, <1>3
  <1>. HIDE DEF e, B
  <1>5. /\ SubSeq(data, o + 1, e) \in Seq(B)
        /\ Len(SubSeq(data, o + 1, e)) = IF o + 1 <= e THEN e - (o + 1) + 1 ELSE 0
    BY <1>4, SubSeqProperties
  <1>6. /\ SubSeq(data, o + 1, e) \in Seq(B)
        /\ Len(SubSeq(data, o + 1, e)) = IF o < e THEN e - o ELSE 0
    BY <1>4, <1>5
  <1>. QED BY <1>2, <1>6 DEF e, B

LEMMA ReadAtType ==
  ASSUME DataOK, NEW o \in Int, NEW n \in Int
  PROVE  ReadAt(o, n) \in Seq(Bytes) /\ Len(ReadAt(o, n)) \in Nat
  <1>1. CASE o < 0
    BY <1>1, EmptySeq DEF ReadAt
  <1>2. CASE o >= 0
    <2>1. ReadAt(o, n) \in Seq(Bytes)
      BY <1>2, ReadAtIs
    <2>. QED BY <2>1
  <1>. QED BY <1>1, <1>2

\* A shorter read gives the front of a longer one.
LEMMA ShorterRead ==
  ASSUME DataOK, NEW o \in Int, NEW n \in Int, NEW k \in 0..Len(ReadAt(o, n))
  PROVE  ReadAt(o, k) = SubSeq(ReadAt(o, n), 1, k)
  <1>. DEFINE w == ReadAt(o, n)
  <1>1. Len(w) \in Nat /\ w \in Seq(Bytes)
    BY ReadAtType
  <1>2. CASE o < 0
    <2>1. w = <<>> /\ ReadAt(o, k) = <<>>
      BY <1>2 DEF ReadAt
    <2>2. SubSeq(w, 1, k) = <<>>
      <3>1. k = 0
        BY <2>1, EmptySeq
      <3>. QED BY <3>1, SubSeqEmpty
    <2>. QED BY <2>1, <2>2
  <1>3. CASE o >= 0 /\ k = 0
    <2>1. ReadAt(o, 0) = SubSeq(data, o + 1, End(o, 0)) /\ End(o, 0) \in Int
      BY <1>3, ReadAtIs
    <2>2. End(o, 0) < o + 1
      <3>1. Len(data) \in Nat
        BY DEF DataOK
      <3>. QED BY <1>3, <3>1 DEF End
    <2>3. ReadAt(o, 0) = <<>>
      BY <1>3, <2>1, <2>2, SubSeqEmpty
    <2>4. SubSeq(w, 1, 0) = <<>>
      BY SubSeqEmpty
    <2>. QED BY <1>3, <2>3, <2>4
  <1>4. CASE o >= 0 /\ k > 0
    <2>. DEFINE e == End(o, n)
                B == Bytes
    <2>1. /\ w = SubSeq(data, o + 1, e) /\ e \in Int
          /\ Len(w) = IF o < e THEN e - o ELSE 0
      BY <1>4, ReadAtIs
    <2>2. ReadAt(o, k) = SubSeq(data, o + 1, End(o, k))
      BY <1>4, ReadAtIs
    <2>3. Len(data) \in Nat /\ data \in Seq(B)
      BY DEF DataOK
    <2>4. e <= Len(data)
      BY <1>4, <2>3 DEF End
    <2>. HIDE DEF e, w, B
    <2>5. k \in 1..e - o /\ o < e
      BY <1>1, <1>4, <2>1 DEF w
    <2>6. End(o, k) = o + k
      BY <1>4, <2>1, <2>3, <2>4, <2>5 DEF End
    <2>7. /\ o + 1 \in 1..Len(data) /\ e \in 1..Len(data)
          /\ 1 \in 1..e - (o + 1) + 1 /\ k \in 1..e - (o + 1) + 1
      BY <1>4, <2>1, <2>3, <2>4, <2>5
    <2>8. SubSeq(SubSeq(data, o + 1, e), 1, k) = SubSeq(data, o + 1 + 1 - 1, o + 1 + k - 1)
      BY <2>3, <2>7, SubSeqOfSubSeq
    <2>9. o + 1 + 1 - 1 = o + 1 /\ o + 1 + k - 1 = o + k
      BY <2>5
    <2>. QED BY <2>1, <2>2, <2>6, <2>8, <2>9 DEF w
  <1>. QED BY <1>2, <1>3, <1>4

-----------------------------------------------------------------------------
(* Strings.                                                                *)

IsString(t) == IsElement(t) /\ t.kind = "string"

LEMMA StringIs ==
  ASSUME NEW t, IsString(t)
  PROVE  /\ IsNumber(t.length) /\ t.max \in Int /\ t.utf16 \in BOOLEAN /\ t.term \in Seq(Bytes)
         /\ ParserSize(t) = 0
  BY DEF IsString, IsElement, ParserSize

LEMMA StringCountType ==
  ASSUME DataOK, NEW t, IsString(t)
  PROVE  StringCount(t) \in Int
  BY StringIs, EvaluateType DEF StringCount

LEMMA TermBytesType ==
  ASSUME NEW t, IsString(t)
  PROVE  /\ TermBytes(t) \in Seq(Bytes) /\ Len(TermBytes(t)) \in Nat
         /\ TermBytes(t) # <<>> => Len(TermBytes(t)) > 0
  <1>. DEFINE B == Bytes
              n == 2 * Len(t.term)
              Unit(k) == IF k % 2 = 1 THEN t.term[(k + 1) \div 2] ELSE 0
  <1>1. t.term \in Seq(B) /\ 0 \in B /\ t.utf16 \in BOOLEAN
    BY StringIs, ConstantsAre
  <1>. HIDE DEF B
  <1>2. n \in Nat /\ Len(t.term) \in Nat /\ \A k \in 1..Len(t.term) : t.term[k] \in B
    BY <1>1
  <1>3. \A k \in 1..n : Unit(k) \in B
    <2>. TAKE k \in 1..n
    <2>1. k % 2 = 1 => (k + 1) \div 2 \in 1..Len(t.term)
      BY <1>2
    <2>. QED BY <1>1, <1>2, <2>1
  <1>. DEFINE s == [k \in 1..n |-> Unit(k)]
  <1>4. s \in [1..n -> B]
    BY <1>3
  <1>. HIDE DEF n
  <1>5. s \in Seq(B)
    BY <1>2, <1>4, SeqDef
  <1>6. TermBytes(t) = IF t.utf16 THEN s ELSE t.term
    BY DEF TermBytes, n
  <1>7. TermBytes(t) \in Seq(B)
    BY <1>1, <1>5, <1>6
  <1>8. Len(TermBytes(t)) \in Nat /\ (TermBytes(t) # <<>> => Len(TermBytes(t)) > 0)
    BY <1>7, EmptySeq
  <1>. QED BY <1>7, <1>8 DEF B

\* What was read where the string is, and the terminator in it.
What(t, o) == ReadAt(o, StringCount(t))
Where(t, o) == Min(Found(t, What(t, o)))

LEMMA FoundIs ==
  ASSUME NEW t, IsString(t), NEW w \in Seq(Bytes)
  PROVE  /\ Found(t, w) \subseteq Nat
         /\ \A i \in Found(t, w) :
               /\ i % Step(t) = 0 /\ Len(TermBytes(t)) > 0
               /\ i + Len(TermBytes(t)) <= Len(w)
               /\ SubSeq(w, i + 1, i + Len(TermBytes(t))) = TermBytes(t)
  <1>1. Len(w) \in Nat
    OBVIOUS
  <1>. QED BY <1>1, TermBytesType DEF Found

LEMMA WhatType ==
  ASSUME DataOK, NEW t, IsString(t), NEW o \in Int
  PROVE  What(t, o) \in Seq(Bytes) /\ Len(What(t, o)) \in Nat
  BY StringCountType, ReadAtType DEF What

LEMMA WhereIs ==
  ASSUME DataOK, NEW t, IsString(t), NEW o \in Int, Found(t, What(t, o)) # {}
  PROVE  /\ Where(t, o) \in Found(t, What(t, o)) /\ Where(t, o) \in Nat
         /\ \A i \in Found(t, What(t, o)) : Where(t, o) <= i
  <1>. DEFINE F == Found(t, What(t, o))
  <1>1. F \subseteq Nat
    BY WhatType, FoundIs
  <1>. HIDE DEF F
  <1>2. F # {} => Min(F) \in F /\ Min(F) \in Nat /\ \A i \in F : Min(F) <= i
    BY <1>1, MinOfNumbers
  <1>. QED BY <1>2 DEF F, Where

LEMMA StringLengthType ==
  ASSUME DataOK, NEW t, IsString(t), NEW o \in Int
  PROVE  /\ StringBytes(t, o) \in Seq(Bytes) /\ StringLength(t, o) \in Nat
         /\ StringBytes(t, o) = <<>> => StringLength(t, o) = 0
  <1>. DEFINE w == What(t, o)
              b == StringBytes(t, o)
              B == Bytes
  <1>1. w \in Seq(B) /\ Len(w) \in Nat
    BY WhatType
  <1>2. b \in Seq(B)
    <2>1. CASE Found(t, w) = {}
      BY <1>1, <2>1 DEF StringBytes, What
    <2>2. CASE Found(t, w) # {}
      <3>. DEFINE m == Where(t, o)
      <3>1. b = SubSeq(w, 1, m)
        BY <2>2 DEF StringBytes, What, Where
      <3>2. m \in Nat /\ m <= Len(w)
        <4>1. m \in Found(t, w) /\ m \in Nat
          BY <2>2, WhereIs
        <4>2. m + Len(TermBytes(t)) <= Len(w) /\ Len(TermBytes(t)) > 0 /\ Len(TermBytes(t)) \in Nat
          BY <1>1, <4>1, FoundIs, TermBytesType
        <4>. QED BY <1>1, <4>1, <4>2
      <3>. HIDE DEF m, w, B, b
      <3>3. \A i \in 1..m : w[i] \in B
        BY <1>1, <3>2
      <3>. QED BY <3>1, <3>2, <3>3, SubSeqProperties
    <2>. QED BY <2>1, <2>2
  <1>. HIDE DEF b
  <1>3. Len(b) \in Nat
    BY <1>2
  <1>. DEFINE n == Len(b) \div 2
              U == (1..n) \X (1..3)
              W == {u \in U : u[2] <= Utf8Length(b[2 * u[1] - 1], b[2 * u[1]])}
  <1>4. n \in Nat /\ (Len(b) = 0 => n = 0)
    BY <1>3
  <1>5. StringLength(t, o) = IF t.utf16 THEN Cardinality(W) ELSE Len(b)
    BY DEF StringLength, b
  <1>6. Cardinality(W) \in Nat /\ IsFiniteSet(W)
    <2>. HIDE DEF n
    <2>1. IsFiniteSet(1..n) /\ IsFiniteSet(1..3)
      <3>1. n \in Int /\ 1 \in Int /\ 3 \in Int
        BY <1>4
      <3>. QED BY <3>1, FS_Interval
    <2>2. IsFiniteSet(U)
      BY <2>1, FS_Product
    <2>3. IsFiniteSet(W)
      <3>1. W \in SUBSET U
        OBVIOUS
      <3>. HIDE DEF W, U
      <3>. QED BY <2>2, <3>1, FS_Subset
    <2>. HIDE DEF W
    <2>. QED BY <2>3, FS_CardinalityType
  <1>7. ASSUME b = <<>>
        PROVE  Len(b) = 0 /\ Cardinality(W) = 0
    <2>1. Len(b) = 0
      BY <1>7, EmptySeq
    <2>2. n = 0
      BY <1>4, <2>1
    <2>. HIDE DEF n
    <2>3. U = {}
      BY <2>2
    <2>4. W = {}
      BY <2>3
    <2>. HIDE DEF W
    <2>. QED BY <2>1, <2>4, FS_EmptySet
  <1>8. t.utf16 \in BOOLEAN
    BY StringIs
  <1>. QED BY <1>2, <1>3, <1>5, <1>6, <1>7, <1>8 DEF b

\* The size that a reference says a string has.
LEMMA StringSize ==
  ASSUME DataOK, NEW t, IsString(t), NEW o \in Int
  PROVE  IF Found(t, What(t, o)) = {}
           THEN /\ StringBytes(t, o) = What(t, o)
                /\ ReferenceSize(t, o) = Len(What(t, o))
           ELSE /\ StringBytes(t, o) = SubSeq(What(t, o), 1, Where(t, o))
                /\ ReferenceSize(t, o) = Where(t, o) + Len(TermBytes(t))
  <1>. DEFINE w == What(t, o)
  <1>1. w \in Seq(Bytes) /\ Len(w) \in Nat
    BY WhatType
  <1>2. /\ InstanceSize(t, o) = IF Found(t, w) = {} THEN Len(w) ELSE Where(t, o) + Len(TermBytes(t))
        /\ StringBytes(t, o) = IF Found(t, w) = {} THEN w ELSE SubSeq(w, 1, Where(t, o))
    BY DEF IsString, InstanceSize, StringBytes, What, Where
  <1>3. /\ ParserSize(t) = 0
        /\ ReferenceSize(t, o) = IF InstanceSize(t, o) # 0 THEN InstanceSize(t, o)
                                 ELSE ValueSize(t, o)
    BY StringIs DEF ReferenceSize
  <1>4. ValueSize(t, o) = StringLength(t, o)
    BY DEF ValueSize, FlatSize, IsString
  <1>5. CASE Found(t, w) = {} /\ Len(w) # 0
    BY <1>2, <1>3, <1>5
  <1>6. CASE Found(t, w) = {} /\ Len(w) = 0
    <2>1. StringBytes(t, o) = <<>>
      BY <1>1, <1>2, <1>6, EmptySeq
    <2>. QED BY <1>2, <1>3, <1>4, <1>6, <2>1, StringLengthType
  <1>7. CASE Found(t, w) # {}
    <2>1. Where(t, o) \in Nat /\ Where(t, o) \in Found(t, w)
      BY <1>7, WhereIs
    <2>2. Len(TermBytes(t)) \in Nat /\ Len(TermBytes(t)) > 0
      BY <1>1, <2>1, FoundIs, TermBytesType
    <2>3. Where(t, o) + Len(TermBytes(t)) # 0
      BY <2>1, <2>2
    <2>. QED BY <1>2, <1>3, <1>7, <2>3
  <1>. QED BY <1>5, <1>6, <1>7

\* What StringsTile says of one string.
LEMMA StringTiles ==
  ASSUME DataOK, NEW t, IsString(t), NEW o \in Int
  PROVE  LET taken == ReadAt(o, ReferenceSize(t, o))
             b == StringBytes(t, o)
         IN  \/ taken = b \o TermBytes(t) /\ Len(b) % Step(t) = 0
             \/ taken = b /\ b = ReadAt(o, StringCount(t))
  <1>. DEFINE w == What(t, o)
              B == Bytes
  <1>1. w \in Seq(B) /\ Len(w) \in Nat /\ StringCount(t) \in Int /\ w = ReadAt(o, StringCount(t))
    BY WhatType, StringCountType DEF What
  <1>2. CASE Found(t, w) = {}
    <2>1. StringBytes(t, o) = w /\ ReferenceSize(t, o) = Len(w)
      BY <1>2, StringSize
    <2>2. ReadAt(o, Len(w)) = SubSeq(w, 1, Len(w))
      BY <1>1, ShorterRead
    <2>. HIDE DEF w, B
    <2>3. SubSeq(w, 1, Len(w)) = w
      BY <1>1, SubSeqFull
    <2>. QED BY <1>1, <2>1, <2>2, <2>3
  <1>3. CASE Found(t, w) # {}
    <2>. DEFINE m == Where(t, o)
                n == Len(TermBytes(t))
    <2>1. StringBytes(t, o) = SubSeq(w, 1, m) /\ ReferenceSize(t, o) = m + n
      BY <1>3, StringSize
    <2>2. m \in Found(t, w) /\ m \in Nat
      BY <1>3, WhereIs
    <2>3. /\ m % Step(t) = 0 /\ n > 0 /\ n \in Nat /\ m + n <= Len(w)
          /\ SubSeq(w, m + 1, m + n) = TermBytes(t)
      BY <1>1, <2>2, FoundIs, TermBytesType
    <2>4. ReadAt(o, m + n) = SubSeq(w, 1, m + n)
      <3>1. m + n \in 0..Len(w)
        BY <1>1, <2>2, <2>3
      <3>. QED BY <1>1, <3>1, ShorterRead
    <2>. HIDE DEF w, B, m, n
    <2>5. /\ 1 \in 1..Len(w) + 1 /\ m \in 1 - 1..Len(w) /\ m + n \in m..Len(w)
      BY <1>1, <2>2, <2>3
    <2>6. SubSeq(w, 1, m) \o SubSeq(w, m + 1, m + n) = SubSeq(w, 1, m + n)
      BY <1>1, <2>5, ConcatAdjacentSubSeq
    <2>7. Len(SubSeq(w, 1, m)) = m
      <3>1. \A i \in 1..m : w[i] \in B
        BY <1>1, <2>5
      <3>. QED BY <2>2, <3>1, SubSeqProperties
    <2>. QED BY <2>1, <2>3, <2>4, <2>6, <2>7
  <1>. QED BY <1>2, <1>3

\* The extent of a string is its size.
LEMMA StringExtent ==
  ASSUME DataOK, NEW t, IsString(t), NEW o \in Int
  PROVE  ReferenceSize(t, o) = Extent(t, o)
  <1>. DEFINE w == What(t, o)
              n == Len(TermBytes(t))
              ends == {k \in 0..Len(w) : \E j \in Found(t, w) : k = j + n}
  <1>1. w \in Seq(Bytes) /\ Len(w) \in Nat
    BY WhatType
  <1>2. Extent(t, o) = IF ends = {} THEN Len(w) ELSE Min(ends)
    BY DEF Extent, IsString, What
  <1>3. CASE Found(t, w) = {}
    BY <1>2, <1>3, StringSize
  <1>4. CASE Found(t, w) # {}
    <2>. DEFINE m == Where(t, o)
    <2>1. m \in Found(t, w) /\ m \in Nat /\ \A i \in Found(t, w) : m <= i
      BY <1>4, WhereIs
    <2>2. n \in Nat /\ \A i \in Found(t, w) : i \in Nat /\ i + n <= Len(w)
      BY <1>1, FoundIs, TermBytesType
    <2>3. m + n \in ends /\ ends \subseteq Nat
      BY <1>1, <2>1, <2>2
    <2>4. \A k \in ends : m + n <= k
      BY <2>1, <2>2
    <2>5. Min(ends) = m + n
      <3>. HIDE DEF ends, m, n
      <3>. QED BY <2>3, <2>4, MinIs
    <2>6. ReferenceSize(t, o) = m + n
      BY <1>4, StringSize
    <2>. QED BY <1>2, <2>3, <2>5, <2>6
  <1>. QED BY <1>3, <1>4

-----------------------------------------------------------------------------
(* The sizes of the other types.                                           *)

LEMMA VarIntSizeType ==
  ASSUME DataOK, NEW o \in Int
  PROVE  VarIntSize(o) \in Nat
  <1>. DEFINE ends == {i \in 1..10 : Byte(o + i - 1) \notin Continues}
  <1>1. VarIntSize(o) = IF ~InData(o) THEN 0 ELSE IF ends = {} THEN 10 ELSE Min(ends)
    BY DEF VarIntSize
  <1>2. ends \subseteq Nat
    OBVIOUS
  <1>. HIDE DEF ends
  <1>3. ends # {} => Min(ends) \in Nat
    BY <1>2, MinOfNumbers
  <1>. QED BY <1>1, <1>3

Kinds == {"int", "struct", "enum", "sized", "string", "varint", "pointer"}

LEMMA KindIs == \A t : IsElement(t) => t.kind \in Kinds
  BY DEF IsElement, Kinds

\* What each kind makes of the sizes.
LEMMA FlatSizeIs ==
  ASSUME NEW t, IsElement(t), NEW o
  PROVE  /\ t.kind \in {"int", "pointer"} => FlatSize(t, o) = 0
         /\ t.kind = "struct" => FlatSize(t, o) = t.size
         /\ t.kind = "sized" => FlatSize(t, o) = Byte(o) + t.base
         /\ t.kind = "string" => FlatSize(t, o) = StringLength(t, o)
         /\ t.kind = "enum" => FlatSize(t, o) = Label[Byte(o)]
         /\ t.kind = "varint" => FlatSize(t, o) = VarIntSize(o)
  BY DEF FlatSize

LEMMA FlatSizeType ==
  ASSUME DataOK, NEW t, IsElement(t), NEW o \in Int
  PROVE  FlatSize(t, o) \in Int
  <1>1. CASE t.kind \in {"int", "pointer"}
    BY <1>1, FlatSizeIs
  <1>2. CASE t.kind = "struct"
    BY <1>2, FlatSizeIs DEF IsElement
  <1>3. CASE t.kind = "sized"
    <2>1. t.base \in Int
      BY <1>3 DEF IsElement
    <2>. QED BY <1>3, <2>1, FlatSizeIs, ByteType
  <1>4. CASE t.kind = "string"
    BY <1>4, FlatSizeIs, StringLengthType DEF IsString
  <1>5. CASE t.kind = "enum"
    BY <1>5, FlatSizeIs, ByteType, ConstantsAre
  <1>6. CASE t.kind = "varint"
    BY <1>6, FlatSizeIs, VarIntSizeType
  <1>. QED BY <1>1, <1>2, <1>3, <1>4, <1>5, <1>6, KindIs DEF Kinds

LEMMA ValueSizeType ==
  ASSUME DataOK, NEW t, IsElement(t), NEW o \in Int
  PROVE  ValueSize(t, o) \in Int
  <1>1. CASE t.kind = "pointer"
    <2>1. IsElement(Elements[t.of])
      BY <1>1, ConstantsAre DEF IsElement
    <2>2. Byte(o) \in Int
      BY ByteType
    <2>. QED BY <1>1, <2>1, <2>2, FlatSizeType DEF ValueSize
  <1>. QED BY <1>1, FlatSizeType DEF ValueSize

LEMMA ParserSizeType ==
  ASSUME NEW t, IsElement(t)
  PROVE  ParserSize(t) \in Nat
  BY DEF ParserSize, IsElement

LEMMA ElementSizeType ==
  ASSUME DataOK, NEW t, IsElement(t), NEW o \in Int
  PROVE  ElementSize(t, o) \in Int
  BY ValueSizeType, ParserSizeType DEF ElementSize

\* But for strings the array's step is the size of a reference.
LEMMA ElementSizeIsReferenceSize ==
  ASSUME NEW t, t.kind # "string", NEW o
  PROVE  ElementSize(t, o) = ReferenceSize(t, o)
  BY DEF ElementSize, ReferenceSize, InstanceSize

LEMMA ReferenceSizeType ==
  ASSUME DataOK, NEW t, IsElement(t), NEW o \in Int
  PROVE  ReferenceSize(t, o) \in Int
  <1>1. CASE t.kind = "string"
    <2>1. IsString(t)
      BY <1>1 DEF IsString
    <2>2. Len(What(t, o)) \in Int
      BY <2>1, WhatType
    <2>3. Len(TermBytes(t)) \in Int
      BY <2>1, TermBytesType
    <2>4. CASE Found(t, What(t, o)) = {}
      BY <2>1, <2>2, <2>4, StringSize
    <2>5. CASE Found(t, What(t, o)) # {}
      <3>1. Where(t, o) \in Nat
        BY <2>1, <2>5, WhereIs
      <3>. QED BY <2>1, <2>3, <2>5, <3>1, StringSize
    <2>. QED BY <2>4, <2>5
  <1>2. CASE t.kind # "string"
    BY <1>2, ElementSizeType, ElementSizeIsReferenceSize
  <1>. QED BY <1>1, <1>2

LEMMA SizeIsExtentOf ==
  ASSUME DataOK, NEW t, IsElement(t), t.kind \in Measured, NEW o \in Int
  PROVE  ReferenceSize(t, o) = Extent(t, o)
  <1>1. CASE t.kind = "string"
    BY <1>1, StringExtent DEF IsString
  <1>2. CASE t.kind # "string"
    <2>1. ReferenceSize(t, o) = IF ParserSize(t) # 0 THEN ParserSize(t) ELSE FlatSize(t, o)
      BY <1>2, ElementSizeIsReferenceSize DEF ElementSize, ValueSize, Measured
    <2>2. CASE t.kind \in {"int", "struct"}
      <3>1. ParserSize(t) = t.size /\ Extent(t, o) = t.size
        BY <2>2 DEF ParserSize, Extent
      <3>2. t.size \in Nat
        BY <2>2 DEF IsElement
      <3>. QED BY <2>1, <2>2, <3>1, <3>2, FlatSizeIs
    <2>3. CASE t.kind = "sized"
      BY <2>1, <2>3, FlatSizeIs DEF ParserSize, Extent
    <2>4. CASE t.kind = "varint"
      BY <2>1, <2>4, FlatSizeIs DEF ParserSize, Extent
    <2>. QED BY <1>2, <2>2, <2>3, <2>4 DEF Measured
  <1>. QED BY <1>1, <1>2

-----------------------------------------------------------------------------
(* The loop of an array.                                                   *)

\* One turn after another.
IsLoop(s, a, o, n) ==
    s = [i \in 0..n |-> IF i = 0 THEN Loop0(o) ELSE LoopStep(a, s[i - 1])]

LEMMA LoopExists ==
  ASSUME NEW a, NEW o, NEW n \in Nat
  PROVE  \E s : IsLoop(s, a, o, n)
  <1>. DEFINE S == {k \in Nat : \E s : IsLoop(s, a, o, k)}
  <1>1. 0 \in S
    <2>. DEFINE s == [i \in 0..0 |-> Loop0(o)]
    <2>1. s = [i \in 0..0 |-> IF i = 0 THEN Loop0(o) ELSE LoopStep(a, s[i - 1])]
      OBVIOUS
    <2>2. IsLoop(s, a, o, 0)
      BY <2>1 DEF IsLoop
    <2>. QED BY <2>2
  <1>2. ASSUME NEW k \in Nat, k \in S
        PROVE  k + 1 \in S
    <2>1. PICK s : IsLoop(s, a, o, k)
      BY <1>2
    <2>. DEFINE r == [i \in 0..k + 1 |-> IF i = k + 1 THEN LoopStep(a, s[k]) ELSE s[i]]
    <2>2. DOMAIN s = 0..k
          /\ \A i \in 0..k : s[i] = IF i = 0 THEN Loop0(o) ELSE LoopStep(a, s[i - 1])
      BY <2>1 DEF IsLoop
    <2>3. \A i \in 0..k + 1 : r[i] = IF i = 0 THEN Loop0(o) ELSE LoopStep(a, r[i - 1])
      <3>. TAKE i \in 0..k + 1
      <3>1. CASE i = k + 1
        <4>1. r[i] = LoopStep(a, s[k]) /\ r[k] = s[k] /\ i # 0 /\ i - 1 = k
          BY <3>1
        <4>. QED BY <4>1
      <3>2. CASE i # k + 1
        <4>1. i \in 0..k /\ r[i] = s[i]
          BY <3>2
        <4>2. i # 0 => r[i - 1] = s[i - 1]
          BY <4>1
        <4>. QED BY <2>2, <4>1, <4>2
      <3>. QED BY <3>1, <3>2
    <2>4. r = [i \in 0..k + 1 |-> IF i = 0 THEN Loop0(o) ELSE LoopStep(a, r[i - 1])]
      BY <2>3
    <2>5. IsLoop(r, a, o, k + 1)
      BY <2>4 DEF IsLoop
    <2>. QED BY <2>5
  <1>3. Nat \subseteq S
    <2>. HIDE DEF S
    <2>. QED BY <1>1, <1>2, SetInduction
  <1>. QED BY <1>3

LEMMA ArrayCountType ==
  ASSUME DataOK, NEW n \in DOMAIN Arrays
  PROVE  ArrayCount(Arrays[n]) \in Nat /\ Evaluate(Arrays[n].count) \in Int
  <1>1. Evaluate(Arrays[n].count) \in Int /\ Arrays[n].max \in Nat
    BY ConstantsAre, EvaluateType
  <1>. QED BY <1>1 DEF ArrayCount

LEMMA ParseArrayIs ==
  ASSUME NEW a, ArrayCount(a) \in Nat, NEW o
  PROVE  \E s : IsLoop(s, a, o, ArrayCount(a)) /\ ParseArray(a, o) = s[ArrayCount(a)]
  <1>. DEFINE c == CHOOSE s : IsLoop(s, a, o, ArrayCount(a))
  <1>1. IsLoop(c, a, o, ArrayCount(a))
    BY LoopExists
  <1>2. ParseArray(a, o) = c[ArrayCount(a)]
    BY DEF ParseArray, IsLoop
  <1>. QED BY <1>1, <1>2

Item  == [start : Int, size : Int \ {0}]
Turns == [items : Items, next : Int, stop : BOOLEAN]

\* An item is an element of the array and no sentinel.
ItemOK(a, x) ==
    /\ x.size = ElementSize(Elements[a.of], x.start)
    /\ Byte(x.start) # a.sentinel

\* Each item is where the one before ends, the first at o, and so is next.
IsChain(items, o, next) ==
    /\ items = <<>> => next = o
    /\ items # <<>> => /\ items[1].start = o
                       /\ items[Len(items)].start + items[Len(items)].size = next
    /\ \A k \in 1..Len(items) - 1 : items[k].start + items[k].size = items[k + 1].start

\* Why the loop stops.
Stops(a, next) == Byte(next) = a.sentinel \/ ElementSize(Elements[a.of], next) = 0

(***************************************************************************)
(* After i turns there are i items unless the loop has stopped, and they   *)
(* are a chain.                                                            *)
(***************************************************************************)
TurnOK(a, o, i, s) ==
    /\ s \in Turns
    /\ Len(s.items) <= i /\ (~s.stop => Len(s.items) = i)
    /\ \A k \in 1..Len(s.items) : ItemOK(a, s.items[k])
    /\ IsChain(s.items, o, s.next)
    /\ s.stop => Stops(a, s.next)

LEMMA FirstTurn ==
  ASSUME NEW a, NEW o \in Int
  PROVE  TurnOK(a, o, 0, Loop0(o))
  <1>. DEFINE s == Loop0(o)
  <1>1. s.items = <<>> /\ s.next = o /\ s.stop = FALSE /\ s \in Turns
    <2>1. <<>> \in Items
      BY EmptySeq DEF Items
    <2>. QED BY <2>1 DEF Loop0, Turns
  <1>2. Len(s.items) = 0
    BY <1>1, EmptySeq
  <1>. HIDE DEF s
  <1>3. \A k \in 1..Len(s.items) : ItemOK(a, s.items[k])
    BY <1>2
  <1>4. IsChain(s.items, o, s.next)
    BY <1>1, <1>2 DEF IsChain
  <1>5. TurnOK(a, o, 0, s)
    BY <1>1, <1>2, <1>3, <1>4 DEF TurnOK
  <1>. QED BY <1>5 DEF s

\* A chain goes on with an item at its end.
LEMMA ChainGoesOn ==
  ASSUME NEW items \in Seq(Item), NEW o \in Int, NEW next \in Int, IsChain(items, o, next),
         NEW x \in Item, x.start = next
  PROVE  IsChain(Append(items, x), o, next + x.size)
  <1>. DEFINE r == Append(items, x)
              n == Len(items)
  <1>1. n \in Nat /\ r \in Seq(Item) /\ Len(r) = n + 1 /\ r[n + 1] = x
        /\ \A k \in 1..n : r[k] = items[k]
    BY AppendProperties
  <1>2. r # <<>>
    BY <1>1, EmptySeq
  <1>. HIDE DEF r
  <1>3. r[1].start = o
    <2>1. CASE n = 0
      <3>1. items = <<>>
        BY <2>1, EmptySeq
      <3>. QED BY <1>1, <2>1, <3>1 DEF IsChain
    <2>2. CASE n # 0
      <3>1. items # <<>> /\ 1 \in 1..n
        BY <1>1, <2>2, EmptySeq
      <3>. QED BY <1>1, <3>1 DEF IsChain
    <2>. QED BY <2>1, <2>2
  <1>4. r[Len(r)].start + r[Len(r)].size = next + x.size
    BY <1>1
  <1>5. ASSUME NEW k \in 1..Len(r) - 1
        PROVE  r[k].start + r[k].size = r[k + 1].start
    <2>1. k \in 1..n /\ r[k] = items[k]
      BY <1>1
    <2>2. CASE k = n
      <3>1. items # <<>>
        BY <1>1, <2>1, EmptySeq
      <3>. QED BY <1>1, <2>1, <2>2, <3>1 DEF IsChain
    <2>3. CASE k # n
      <3>1. k \in 1..n - 1 /\ k + 1 \in 1..n
        BY <1>1, <2>1, <2>3
      <3>. QED BY <1>1, <2>1, <3>1 DEF IsChain
    <2>. QED BY <2>2, <2>3
  <1>6. IsChain(r, o, next + x.size)
    BY <1>2, <1>3, <1>4, <1>5 DEF IsChain
  <1>. QED BY <1>6 DEF r

LEMMA NextTurn ==
  ASSUME DataOK, NEW n \in DOMAIN Arrays, NEW o \in Int, NEW i \in Nat, NEW s,
         TurnOK(Arrays[n], o, i, s)
  PROVE  TurnOK(Arrays[n], o, i + 1, LoopStep(Arrays[n], s))
  <1>. DEFINE a == Arrays[n]
              t == Elements[a.of]
              size == ElementSize(t, s.next)
              r == LoopStep(a, s)
              x == [start |-> s.next, size |-> size]
  <1>1. s \in Turns /\ s.items \in Seq(Item) /\ s.next \in Int /\ s.stop \in BOOLEAN
    BY DEF TurnOK, Turns, Items, Item
  <1>2. Len(s.items) \in Nat /\ Len(s.items) <= i + 1
    BY <1>1 DEF TurnOK
  <1>3. CASE s.stop
    <2>1. r = s
      BY <1>3 DEF LoopStep
    <2>. QED BY <1>2, <1>3, <2>1 DEF TurnOK
  <1>4. CASE ~s.stop /\ (Byte(s.next) = a.sentinel \/ size = 0)
    <2>1. r = [s EXCEPT !.stop = TRUE]
      BY <1>4 DEF LoopStep
    <2>2. r \in Turns /\ r.items = s.items /\ r.next = s.next /\ r.stop = TRUE
      BY <1>1, <2>1 DEF Turns
    <2>3. Stops(a, r.next)
      BY <1>4, <2>2 DEF Stops
    <2>. QED BY <1>2, <2>2, <2>3 DEF TurnOK
  <1>5. CASE ~s.stop /\ Byte(s.next) # a.sentinel /\ size # 0
    <2>1. r = [items |-> Append(s.items, x), next |-> s.next + size, stop |-> FALSE]
      BY <1>5 DEF LoopStep
    <2>2. size \in Int
      BY <1>1, ConstantsAre, ElementSizeType
    <2>3. x \in Item /\ x.start = s.next /\ x.size = size
      BY <1>1, <1>5, <2>2 DEF Item
    <2>. HIDE DEF x, r
    <2>4. /\ Append(s.items, x) \in Seq(Item) /\ Len(Append(s.items, x)) = Len(s.items) + 1
          /\ Append(s.items, x)[Len(s.items) + 1] = x
          /\ \A k \in 1..Len(s.items) : Append(s.items, x)[k] = s.items[k]
      BY <1>1, <2>3, AppendProperties
    <2>5. r.items = Append(s.items, x) /\ r.next = s.next + size /\ r.stop = FALSE /\ r \in Turns
      BY <1>1, <2>1, <2>2, <2>4 DEF Turns, Items, Item
    <2>6. Len(r.items) = i + 1
      BY <1>5, <2>4, <2>5 DEF TurnOK
    <2>7. \A k \in 1..Len(r.items) : ItemOK(a, r.items[k])
      <3>1. ItemOK(a, x)
        BY <1>5, <2>3 DEF ItemOK
      <3>2. \A k \in 1..Len(s.items) : ItemOK(a, s.items[k])
        BY DEF TurnOK
      <3>. QED BY <1>2, <2>4, <2>5, <3>1, <3>2
    <2>8. IsChain(r.items, o, r.next)
      BY <1>1, <2>3, <2>5, ChainGoesOn DEF TurnOK
    <2>9. TurnOK(a, o, i + 1, r)
      BY <2>5, <2>6, <2>7, <2>8 DEF TurnOK
    <2>. QED BY <2>9 DEF r
  <1>. QED BY <1>3, <1>4, <1>5

LEMMA ParsedArray ==
  ASSUME DataOK, NEW n \in DOMAIN Arrays, NEW o \in Int
  PROVE  TurnOK(Arrays[n], o, ArrayCount(Arrays[n]), ParseArray(Arrays[n], o))
  <1>. DEFINE a == Arrays[n]
              N == ArrayCount(a)
  <1>1. N \in Nat
    BY ArrayCountType
  <1>2. PICK s : IsLoop(s, a, o, N) /\ ParseArray(a, o) = s[N]
    BY <1>1, ParseArrayIs
  <1>3. \A i \in 0..N : s[i] = IF i = 0 THEN Loop0(o) ELSE LoopStep(a, s[i - 1])
    BY <1>2 DEF IsLoop
  <1>. DEFINE S == {i \in Nat : i <= N => TurnOK(a, o, i, s[i])}
  <1>4. 0 \in S
    BY <1>1, <1>3, FirstTurn
  <1>5. ASSUME NEW i \in Nat, i \in S
        PROVE  i + 1 \in S
    <2>. SUFFICES ASSUME i + 1 <= N PROVE TurnOK(a, o, i + 1, s[i + 1])
      OBVIOUS
    <2>1. TurnOK(a, o, i, s[i])
      BY <1>1, <1>5
    <2>2. s[i + 1] = LoopStep(a, s[i])
      <3>1. i + 1 \in 0..N /\ i + 1 # 0 /\ i + 1 - 1 = i
        BY <1>1
      <3>. QED BY <1>3, <3>1
    <2>. QED BY <2>1, <2>2, NextTurn
  <1>6. N \in S
    <2>1. Nat \subseteq S
      <3>. HIDE DEF S
      <3>. QED BY <1>4, <1>5, SetInduction
    <2>. HIDE DEF S
    <2>. QED BY <1>1, <2>1
  <1>. QED BY <1>1, <1>2, <1>6

-----------------------------------------------------------------------------
(* The invariant.  The data never change, so a field keeps what was true   *)
(* of it when it was placed.                                               *)

PlacedArray(f, stop) == [items |-> f.items, next |-> RelEndOf(f), stop |-> stop]

\* A field has the size of a reference to it, or is what the array's loop
\* leaves after its turns.
FieldOK(f) ==
    /\ f.type \in DOMAIN Elements => f.size = ReferenceSize(Elements[f.type], f.start)
    /\ f.type \in DOMAIN Arrays => \E stop \in BOOLEAN :
          TurnOK(Arrays[f.type], f.start, ArrayCount(Arrays[f.type]), PlacedArray(f, stop))

FieldsOK == \A i \in DOMAIN fields : FieldOK(fields[i])

IInv == TypeOK /\ FieldsOK

\* What a step that leaves the data alone leaves as it was.
LEMMA SameSizes ==
  ASSUME data' = data
  PROVE  /\ \A o : Byte(o)' = Byte(o)
         /\ \A t, o : ElementSize(t, o)' = ElementSize(t, o)
         /\ \A t, o : ReferenceSize(t, o)' = ReferenceSize(t, o)
         /\ \A a : ArrayCount(a)' = ArrayCount(a)
  <1>1. \A o : InData(o)' = InData(o) /\ Byte(o)' = Byte(o)
    BY DEF Byte, InData
  <1>2. \A e : Evaluate(e)' = Evaluate(e)
    BY <1>1 DEF Evaluate
  <1>3. \A o, n : ReadAt(o, n)' = ReadAt(o, n)
    BY DEF ReadAt
  <1>4. \A t : StringCount(t)' = StringCount(t)
    BY <1>2 DEF StringCount
  <1>5. \A t, o : StringBytes(t, o)' = StringBytes(t, o) /\ InstanceSize(t, o)' = InstanceSize(t, o)
    BY <1>3, <1>4 DEF StringBytes, InstanceSize
  <1>6. \A t, o : StringLength(t, o)' = StringLength(t, o)
    BY <1>5 DEF StringLength
  <1>7. \A o : VarIntSize(o)' = VarIntSize(o)
    BY <1>1 DEF VarIntSize
  <1>8. \A t, o : FlatSize(t, o)' = FlatSize(t, o)
    BY <1>1, <1>6, <1>7 DEF FlatSize
  <1>9. \A t, o : ValueSize(t, o)' = ValueSize(t, o)
    BY <1>1, <1>8 DEF ValueSize
  <1>10. \A t, o : ElementSize(t, o)' = ElementSize(t, o)
    BY <1>9 DEF ElementSize
  <1>11. \A t, o : ReferenceSize(t, o)' = ReferenceSize(t, o)
    BY <1>5, <1>9 DEF ReferenceSize
  <1>12. \A a : ArrayCount(a)' = ArrayCount(a)
    BY <1>2 DEF ArrayCount
  <1>. QED BY <1>1, <1>10, <1>11, <1>12

LEMMA FieldStaysOK ==
  ASSUME data' = data, NEW f, FieldOK(f)
  PROVE  FieldOK(f)'
  <1>1. f.type \in DOMAIN Elements => f.size = ReferenceSize(Elements[f.type], f.start)'
    BY SameSizes DEF FieldOK
  <1>2. ASSUME f.type \in DOMAIN Arrays
        PROVE  \E stop \in BOOLEAN :
          TurnOK(Arrays[f.type], f.start, ArrayCount(Arrays[f.type]), PlacedArray(f, stop))'
    <2>1. PICK stop \in BOOLEAN :
            TurnOK(Arrays[f.type], f.start, ArrayCount(Arrays[f.type]), PlacedArray(f, stop))
      BY <1>2 DEF FieldOK
    <2>. DEFINE a == Arrays[f.type]
    <2>2. \A x : ItemOK(a, x) => ItemOK(a, x)'
      BY SameSizes DEF ItemOK
    <2>3. \A next : Stops(a, next) => Stops(a, next)'
      BY SameSizes DEF Stops
    <2>4. ArrayCount(a)' = ArrayCount(a)
      BY SameSizes
    <2>5. TurnOK(a, f.start, ArrayCount(a), PlacedArray(f, stop))'
      BY <2>1, <2>2, <2>3, <2>4 DEF TurnOK
    <2>. QED BY <2>5
  <1>. QED BY <1>1, <1>2 DEF FieldOK

LEMMA DataIsOK == TypeOK => DataOK
  BY LayoutAssumption DEF TypeOK, DataOK

FieldType == [type : DOMAIN Elements \cup DOMAIN Arrays, start : Int, size : Int, items : Items]

LEMMA PlacedField ==
  ASSUME DataOK, NEW n \in DOMAIN Elements \cup DOMAIN Arrays, NEW o \in Int
  PROVE  Field(n, o) \in FieldType /\ FieldOK(Field(n, o))
  <1>1. CASE n \in DOMAIN Elements
    <2>. DEFINE size == ReferenceSize(Elements[n], o)
                f == [type |-> n, start |-> o, size |-> size, items |-> <<>>]
    <2>1. Field(n, o) = f
      BY <1>1 DEF Field
    <2>2. size \in Int
      BY <1>1, LayoutAssumption, ReferenceSizeType
    <2>3. <<>> \in Items
      BY EmptySeq DEF Items
    <2>4. n \notin DOMAIN Arrays
      BY <1>1, LayoutAssumption
    <2>. HIDE DEF size
    <2>5. f \in FieldType
      BY <1>1, <2>2, <2>3 DEF FieldType
    <2>6. f.type = n /\ f.start = o /\ f.size = size
      OBVIOUS
    <2>7. FieldOK(f)
      BY <2>4, <2>6 DEF FieldOK, size
    <2>. QED BY <2>1, <2>5, <2>7
  <1>2. CASE n \notin DOMAIN Elements
    <2>. DEFINE s == ParseArray(Arrays[n], o)
                f == [type |-> n, start |-> o, size |-> s.next - o, items |-> s.items]
    <2>1. Field(n, o) = f
      BY <1>2 DEF Field
    <2>2. n \in DOMAIN Arrays
      BY <1>2
    <2>3. TurnOK(Arrays[n], o, ArrayCount(Arrays[n]), s)
      BY <2>2, ParsedArray
    <2>. HIDE DEF s
    <2>4. s \in Turns /\ s.items \in Items /\ s.next \in Int /\ s.stop \in BOOLEAN
          /\ s = [items |-> s.items, next |-> s.next, stop |-> s.stop]
      BY <2>3 DEF TurnOK, Turns
    <2>5. f \in FieldType
      BY <2>2, <2>4 DEF FieldType
    <2>6. f.type = n /\ f.start = o /\ f.items = s.items /\ RelEndOf(f) = s.next
      BY <2>4 DEF RelEndOf
    <2>. HIDE DEF f
    <2>7. PlacedArray(f, s.stop) = s
      BY <2>4, <2>6 DEF PlacedArray
    <2>8. FieldOK(f)
      BY <1>2, <2>3, <2>4, <2>6, <2>7 DEF FieldOK
    <2>. QED BY <2>1, <2>5, <2>8
  <1>. QED BY <1>1, <1>2

LEMMA Initially == Init => IInv
  <1>. SUFFICES ASSUME Init PROVE IInv
    OBVIOUS
  <1>1. fields \in Seq(FieldType) /\ DOMAIN fields = {}
    BY EmptySeq DEF Init
  <1>2. TypeOK
    BY <1>1 DEF Init, TypeOK, FieldType
  <1>. QED BY <1>1, <1>2 DEF IInv, FieldsOK

LEMMA Stays == IInv /\ [Next]_vars => IInv'
  <1>. SUFFICES ASSUME IInv, [Next]_vars PROVE IInv'
    OBVIOUS
  <1>. USE DEF IInv
  <1>1. DataOK /\ fields \in Seq(FieldType)
    BY DataIsOK DEF TypeOK, FieldType
  <1>2. data' = data
    BY DEF Next, AddField, vars
  <1>3. CASE fields' = fields /\ panicked' \in BOOLEAN
    <2>1. TypeOK'
      BY <1>2, <1>3 DEF TypeOK
    <2>2. FieldsOK'
      <3>1. \A i \in DOMAIN fields : FieldOK(fields[i])'
        <4>. SUFFICES ASSUME NEW i \in DOMAIN fields PROVE FieldOK(fields[i])'
          OBVIOUS
        <4>1. PICK f : f = fields[i]
          OBVIOUS
        <4>2. FieldOK(f)'
          BY <1>2, <4>1, FieldStaysOK DEF FieldsOK
        <4>. QED BY <1>3, <4>1, <4>2
      <3>. QED BY <1>3, <3>1 DEF FieldsOK
    <2>. QED BY <2>1, <2>2
  <1>4. ASSUME NEW n \in DOMAIN Elements \cup DOMAIN Arrays, AddField(n), ~Panics(n)
        PROVE  IInv'
    <2>. DEFINE o == IF fields = <<>> THEN 0 ELSE RelEndOf(fields[Len(fields)])
    <2>1. o \in Int
      <3>1. CASE fields = <<>>
        BY <3>1
      <3>2. CASE fields # <<>>
        <4>1. fields[Len(fields)] \in FieldType
          BY <1>1, <3>2, EmptySeq
        <4>. QED BY <3>2, <4>1 DEF RelEndOf, FieldType
      <3>. QED BY <3>1, <3>2
    <2>2. PICK f : f = Field(n, o)
      OBVIOUS
    <2>3. fields' = Append(fields, f) /\ panicked' = panicked
      BY <1>4, <2>2 DEF AddField
    <2>4. f \in FieldType /\ FieldOK(f)
      BY <1>1, <2>1, <2>2, PlacedField
    <2>5. FieldOK(f)'
      BY <1>2, <2>4, FieldStaysOK
    <2>6. /\ fields' \in Seq(FieldType) /\ DOMAIN fields' = 1..Len(fields) + 1
          /\ fields'[Len(fields) + 1] = f /\ Len(fields) \in Nat /\ DOMAIN fields = 1..Len(fields)
          /\ \A i \in 1..Len(fields) : fields'[i] = fields[i]
      BY <1>1, <2>3, <2>4, AppendProperties
    <2>7. TypeOK'
      BY <1>2, <2>3, <2>6 DEF TypeOK, FieldType
    <2>8. FieldsOK'
      <3>1. \A i \in DOMAIN fields' : FieldOK(fields[i])'
        <4>. SUFFICES ASSUME NEW i \in DOMAIN fields' PROVE FieldOK(fields[i])'
          OBVIOUS
        <4>1. PICK g : g = fields'[i]
          OBVIOUS
        <4>2. FieldOK(g)'
          <5>1. CASE i = Len(fields) + 1
            BY <2>5, <2>6, <4>1, <5>1
          <5>2. CASE i # Len(fields) + 1
            <6>1. i \in DOMAIN fields /\ g = fields[i]
              BY <2>6, <4>1, <5>2
            <6>. QED BY <1>2, <6>1, FieldStaysOK DEF FieldsOK
          <5>. QED BY <5>1, <5>2
        <4>. QED BY <4>1, <4>2
      <3>. QED BY <3>1 DEF FieldsOK
    <2>. QED BY <2>7, <2>8
  <1>5. ASSUME NEW n \in DOMAIN Elements \cup DOMAIN Arrays, AddField(n), Panics(n)
        PROVE  IInv'
    BY <1>3, <1>5 DEF AddField
  <1>6. CASE UNCHANGED vars
    BY <1>3, <1>6 DEF vars, TypeOK
  <1>. QED BY <1>4, <1>5, <1>6 DEF Next

-----------------------------------------------------------------------------
(* The properties hold in every state of the invariant.                    *)

\* A field is one of its list.
LEMMA FieldIs ==
  ASSUME IInv, NEW f \in Range(fields)
  PROVE  f \in FieldType /\ FieldOK(f) /\ DataOK
  <1>1. fields \in Seq(FieldType)
    BY DEF IInv, TypeOK, FieldType
  <1>2. PICK i \in DOMAIN fields : f = fields[i]
    BY DEF Range
  <1>. QED BY <1>1, <1>2, DataIsOK DEF IInv, FieldsOK

LEMMA ElementFieldIs ==
  ASSUME IInv, NEW f \in ElementFields
  PROVE  /\ DataOK /\ IsElement(Elements[f.type]) /\ f.start \in Int
         /\ f.size = ReferenceSize(Elements[f.type], f.start)
  BY FieldIs, LayoutAssumption DEF ElementFields, FieldOK, FieldType

LEMMA ArrayFieldIs ==
  ASSUME IInv, NEW f \in ArrayFields
  PROVE  /\ DataOK /\ f.type \in DOMAIN Arrays /\ f.start \in Int /\ f.size \in Int
         /\ f.items \in Seq(Item) /\ RelEndOf(f) \in Int
         /\ \E stop \in BOOLEAN :
              TurnOK(Arrays[f.type], f.start, ArrayCount(Arrays[f.type]), PlacedArray(f, stop))
  BY FieldIs DEF ArrayFields, FieldOK, FieldType, Items, Item, RelEndOf

LEMMA Tiled == IInv => StringsTile
  <1>. SUFFICES ASSUME IInv, NEW f \in ElementFields, Elements[f.type].kind = "string"
       PROVE  LET t == Elements[f.type]
                  taken == ReadAt(f.start, f.size)
                  b == StringBytes(t, f.start)
              IN  \/ taken = b \o TermBytes(t) /\ Len(b) % Step(t) = 0
                  \/ taken = b /\ b = ReadAt(f.start, StringCount(t))
    BY DEF StringsTile
  <1>. QED BY ElementFieldIs, StringTiles DEF IsString

LEMMA Sized == IInv => SizeIsExtent
  BY ElementFieldIs, SizeIsExtentOf DEF SizeIsExtent

LEMMA Chained == IInv => ArrayIsAChain
  <1>. SUFFICES ASSUME IInv, NEW f \in ArrayFields, Elements[Arrays[f.type].of].kind # "string",
                       NEW k \in 0..Len(f.items)
       PROVE  LET t == Elements[Arrays[f.type].of]
                  end == IF k = 0 THEN f.start
                         ELSE f.items[k].start + ReferenceSize(t, f.items[k].start)
              IN  end = IF k = Len(f.items) THEN RelEndOf(f) ELSE f.items[k + 1].start
    BY DEF ArrayIsAChain
  <1>. DEFINE a == Arrays[f.type]
              t == Elements[a.of]
              n == Len(f.items)
              items == f.items
  <1>1. items \in Seq(Item) /\ n \in Nat
    BY ArrayFieldIs
  <1>2. PICK stop \in BOOLEAN : TurnOK(a, f.start, ArrayCount(a), PlacedArray(f, stop))
    BY ArrayFieldIs
  <1>3. IsChain(items, f.start, RelEndOf(f)) /\ \A i \in 1..n : ItemOK(a, items[i])
    BY <1>2 DEF TurnOK, PlacedArray
  <1>4. \A i \in 1..n : items[i].size = ReferenceSize(t, items[i].start)
    BY <1>3, ElementSizeIsReferenceSize DEF ItemOK
  <1>5. CASE k = 0 /\ n = 0
    <2>1. items = <<>>
      BY <1>1, <1>5, EmptySeq
    <2>. QED BY <1>3, <1>5, <2>1 DEF IsChain
  <1>6. CASE n # 0
    <2>1. items # <<>>
      BY <1>1, <1>6, EmptySeq
    <2>2. items[1].start = f.start /\ items[n].start + items[n].size = RelEndOf(f)
      BY <1>3, <2>1 DEF IsChain
    <2>3. \A i \in 1..n - 1 : items[i].start + items[i].size = items[i + 1].start
      BY <1>3 DEF IsChain
    <2>4. CASE k = 0
      BY <1>6, <2>2, <2>4
    <2>5. CASE k = n
      BY <1>1, <1>4, <1>6, <2>2, <2>5
    <2>6. CASE k # 0 /\ k # n
      <3>1. k \in 1..n - 1 /\ k \in 1..n
        BY <1>1, <2>6
      <3>. QED BY <1>4, <2>3, <2>6, <3>1
    <2>. QED BY <2>4, <2>5, <2>6
  <1>. QED BY <1>1, <1>5, <1>6

LEMMA ShortForNoOtherReason == IInv => ShortForAReason
  <1>. SUFFICES ASSUME IInv, NEW f \in ArrayFields
       PROVE  LET a == Arrays[f.type]
                  n == Len(f.items)
              IN  /\ n <= a.max
                  /\ n < a.max /\ n < Evaluate(a.count) =>
                        \/ Byte(RelEndOf(f)) = a.sentinel
                        \/ ElementSize(Elements[a.of], RelEndOf(f)) = 0
                  /\ \A k \in 1..n : Byte(f.items[k].start) # a.sentinel
    BY DEF ShortForAReason
  <1>. DEFINE a == Arrays[f.type]
              n == Len(f.items)
              count == ArrayCount(a)
  <1>1. n \in Nat /\ count \in Nat /\ a.max \in Nat /\ Evaluate(a.count) \in Int
    BY ArrayFieldIs, ArrayCountType, LayoutAssumption
  <1>2. count <= a.max /\ (n < a.max /\ n < Evaluate(a.count) => n < count)
    BY <1>1 DEF ArrayCount
  <1>3. PICK stop \in BOOLEAN : TurnOK(a, f.start, count, PlacedArray(f, stop))
    BY ArrayFieldIs
  <1>4. /\ n <= count /\ (~stop => n = count) /\ (stop => Stops(a, RelEndOf(f)))
        /\ \A k \in 1..n : ItemOK(a, f.items[k])
    BY <1>3 DEF TurnOK, PlacedArray
  <1>5. n < count => Stops(a, RelEndOf(f))
    BY <1>1, <1>4
  <1>6. n <= a.max
    BY <1>1, <1>2, <1>4
  <1>7. n < a.max /\ n < Evaluate(a.count) =>
          \/ Byte(RelEndOf(f)) = a.sentinel
          \/ ElementSize(Elements[a.of], RelEndOf(f)) = 0
    BY <1>2, <1>5 DEF Stops
  <1>8. \A k \in 1..n : Byte(f.items[k].start) # a.sentinel
    BY <1>4 DEF ItemOK
  <1>. QED BY <1>6, <1>7, <1>8

-----------------------------------------------------------------------------
(* The theorems.                                                           *)

LEMMA AlwaysIInv == Spec => []IInv
  BY Initially, Stays, PTL DEF Spec

\* Every field that is placed has a whole number for its start and size, and
\* an array no element without a size (struct.go:97-114, array.go:101-133).
THEOREM LayoutTypeCorrect == Spec => []TypeOK
  BY AlwaysIInv, PTL DEF IInv

\* What a reference says a string takes is the string and its terminator, or
\* all that could be read: string.go:69-122 and 157-210 search alike.
THEOREM StringsAlwaysTile == Spec => []StringsTile
  BY AlwaysIInv, Tiled, PTL

\* The size of an int, a struct, a varint or a string, by which the next field
\* is placed, is what it takes from the data (struct.go:97-114).
THEOREM SizesAreExtents == Spec => []SizeIsExtent
  BY AlwaysIInv, Sized, PTL

\* The array loop puts each element where a reference to the end of the one
\* before would, and ends where the last one ends (array.go:101-133).
THEOREM ArraysAreChains == Spec => []ArrayIsAChain
  BY AlwaysIInv, Chained, PTL

\* The loop gives as many elements as were asked for, at most the maximum,
\* and fewer only at a sentinel or at an element without a size.
THEOREM ArraysAreShortForAReason == Spec => []ShortForAReason
  BY AlwaysIInv, ShortForNoOtherReason, PTL
=============================================================================
