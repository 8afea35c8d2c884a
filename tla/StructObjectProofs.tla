------------------------- MODULE StructObjectProofs -------------------------
(***************************************************************************)
(* Proofs about StructObject, for any structs, lambdas and number of calls *)
(***************************************************************************)
EXTENDS StructObject, TLAPS, FiniteSetTheorems, SequenceTheorems

(***************************************************************************)
(* The heap h with maps 1..n: an original has the lower number than its    *)
(* copies, which are of its struct, and structs do not share maps.         *)
(***************************************************************************)
ObjectOK(h, n, i) ==
    /\ h[i].orig \in 1..i /\ h[h[i].orig].orig = h[i].orig
    /\ h[h[i].orig].struct = h[i].struct
    /\ h[i].cache <= n /\ h[i].parent <= Len(h)

HeapOK(h, n) ==
    /\ h \in Seq(StructObject)
    /\ \A i \in 1..Len(h) : ObjectOK(h, n, i)
    /\ \A i, j \in 1..Len(h) : h[i].cache = h[j].cache /\ h[i].cache # 0 => h[i].orig = h[j].orig

\* A value among n objects and m arrays.
ValueOK(n, m, v) ==
    /\ v \in Value
    /\ v.type = "object" => v.obj \in 1..n /\ v = Object(v.obj)
    /\ v.type = "array" => v.obj \in 1..m

CachesOK(n, m, c) ==
    /\ c \in Seq([Fields -> Value])
    /\ \A i \in 1..Len(c) : \A f \in Fields : ValueOK(n, m, c[i][f])

ArraysOK(n, a) == a \in Seq(Seq(1..n))

\* The kind of a field in the heap h, "absent" if there is none.
KindOf(h, o, f) == Def[h[o].struct][f].kind

\* An evaluation in a heap h with m arrays.
FrameOK(h, m, fr) ==
    /\ fr \in Frame /\ fr.obj \in 1..Len(h) /\ fr.copy <= Len(h)
    /\ ValueOK(Len(h), m, fr.last) /\ fr.last # Unset
    /\ fr.paths # <<>> =>
          /\ fr.copy # 0 /\ h[fr.copy].orig = h[fr.obj].orig
          /\ ValueOK(Len(h), m, fr.at) /\ fr.at # Unset
    /\ fr.out \in Seq(1..Len(h))
    /\ fr.op \in {"get", "ref"} => fr.field \in Fields /\ KindOf(h, fr.obj, fr.field) # "absent"
    /\ fr.op = "get" => h[fr.obj].cache # 0
    /\ fr.left > 0 => fr.op \in {"get", "ref"} /\ KindOf(h, fr.obj, fr.field) = "array"

\* What an evaluation lo waits for is the one above it, hi.
Awaits(h, lo, hi) ==
    \/ /\ hi.op = "get" /\ lo.paths # <<>> /\ Head(lo.paths) # <<>>
       /\ lo.at.type = "object" /\ lo.at.obj = hi.obj /\ Head(Head(lo.paths)) = hi.field
    \/ /\ hi.op = "size" /\ lo.paths = <<>>
       /\ lo.op \in {"get", "ref"} /\ KindOf(h, lo.obj, lo.field) = "array"
    \/ hi.op = "json" /\ lo.op = "json" /\ lo.paths = <<>>

StackOK(h, m, s) ==
    /\ s \in Seq(Frame)
    /\ \A i \in 1..Len(s) : FrameOK(h, m, s[i])
    /\ \A i \in 1..Len(s) : i > 1 => Awaits(h, s[i-1], s[i])

WellFormed ==
    /\ HeapOK(heap, Len(caches)) /\ CachesOK(Len(heap), Len(arrays), caches)
    /\ ArraysOK(Len(heap), arrays) /\ StackOK(heap, Len(arrays), stack)
    /\ held \subseteq 1..Len(heap) /\ calls \in 0..MaxCalls /\ epoch \in 1..MaxEpoch

(***************************************************************************)
(* The measuring of an element whose size is read from its parent: the     *)
(* copy has none, and every path ends at null.                             *)
(***************************************************************************)
Orphaned(h, fr) ==
    /\ fr.paths # <<>> => h[fr.copy].parent = 0
    /\ fr.last = Null
    /\ \A k \in 1..Len(fr.paths) :
          \/ fr.paths[k] # <<>> /\ Head(fr.paths[k]) = "Parent"
                /\ (k = 1 => fr.at = Object(fr.copy))
          \/ k = 1 /\ fr.at = Null

MeasureOK(h, s, i) ==
    i > 1 /\ s[i].op = "size" /\ SizedByParent(h[s[i].obj].struct)
        => i = Len(s) /\ Orphaned(h, s[i])

\* The elements of the array an evaluation makes are not sized by their parent.
OutOK(h, fr) == fr.op \in {"get", "ref"} => \A o \in Range(fr.out) : ~SizedByParent(h[o].struct)

Measuring ==
    /\ \A i \in 1..Len(stack) : MeasureOK(heap, stack, i) /\ OutOK(heap, stack[i])
    /\ \A a \in 1..Len(arrays) : \A o \in Range(arrays[a]) : ~SizedByParent(heap[o].struct)

\* Field g of o is cached with the value v.
Reads(h, c, o, g, v) == h[o].cache # 0 /\ v # Unset /\ v = c[h[o].cache][g]
-----------------------------------------------------------------------------
(* Constants, and stacks.                                                  *)

LEMMA ConstantTypes ==
    /\ \A s \in Structs, f \in Fields :
          /\ Def[s][f] \in FieldDef /\ Def[s][f].lambda \in Lambda /\ Def[s][f].of \in Structs
          /\ Def[s][f].kind \in {"absent", "int", "struct", "array", "value"}
    /\ \A s \in Structs : SizeLambda[s] \in Lambda /\ Shown[s] \in Seq(Fields)
    /\ Roots \subseteq Structs /\ Count \in Nat /\ MaxCalls \in Nat /\ MaxEpoch \in Nat \ {0}
    /\ "Parent" \notin Fields
  <1>1. \A s \in Structs, f \in Fields : Def[s][f] \in FieldDef
    BY StructAssumption
  <1>2. \A d \in FieldDef : /\ d.lambda \in Lambda /\ d.of \in Structs
                            /\ d.kind \in {"absent", "int", "struct", "array", "value"}
    BY DEF FieldDef
  <1>. QED BY <1>1, <1>2, StructAssumption

LEMMA Below1 ==
  ASSUME NEW S, NEW s \in Seq(S), Len(s) \in Nat \ {0}
  PROVE  LET b == SubSeq(s, 1, Len(s) - 1)
         IN  b \in Seq(S) /\ Len(b) = Len(s) - 1 /\ \A i \in 1..Len(s) - 1 : b[i] = s[i]
  <1>. DEFINE n == Len(s) - 1
  <1>1. n \in Int /\ 1 \in Int /\ n - 1 + 1 = n /\ n = Len(s) - 1 /\ n >= 0
        /\ \A i \in 1..n : s[i] \in S /\ 1 + i - 1 = i
    OBVIOUS
  <1>. HIDE DEF n
  <1>2. /\ SubSeq(s, 1, n) \in Seq(S)
        /\ Len(SubSeq(s, 1, n)) = IF 1 <= n THEN n - 1 + 1 ELSE 0
        /\ \A i \in 1..n - 1 + 1 : SubSeq(s, 1, n)[i] = s[1 + i - 1]
    BY <1>1, SubSeqProperties
  <1>. QED BY <1>1, <1>2

\* The stack with its top replaced by x.
LEMMA ReplaceTop ==
  ASSUME NEW S, NEW s \in Seq(S), s # <<>>, NEW x \in S
  PROVE  LET t == Append(SubSeq(s, 1, Len(s) - 1), x)
         IN  /\ t \in Seq(S) /\ Len(t) = Len(s) /\ t[Len(s)] = x
             /\ \A i \in 1..Len(s) - 1 : t[i] = s[i]
  <1>. DEFINE b == SubSeq(s, 1, Len(s) - 1)
  <1>1. Len(s) \in Nat \ {0}
    BY EmptySeq
  <1>2. b \in Seq(S) /\ Len(b) = Len(s) - 1 /\ \A i \in 1..Len(s) - 1 : b[i] = s[i]
    BY <1>1, Below1
  <1>. HIDE DEF b
  <1>3. Append(b, x) \in Seq(S) /\ Len(Append(b, x)) = Len(b) + 1
        /\ Append(b, x)[Len(b) + 1] = x
        /\ \A i \in 1..Len(b) : Append(b, x)[i] = b[i]
    BY <1>2, AppendProperties
  <1>. QED BY <1>1, <1>2, <1>3 DEF b

\* The stack without its top, the frame under it replaced by x.
LEMMA PopTop ==
  ASSUME NEW S, NEW s \in Seq(S), Len(s) > 1, NEW x \in S
  PROVE  LET b == SubSeq(s, 1, Len(s) - 1)
             t == [b EXCEPT ![Len(b)] = x]
         IN  /\ t \in Seq(S) /\ Len(t) = Len(s) - 1 /\ t[Len(s) - 1] = x
             /\ \A i \in 1..Len(s) - 2 : t[i] = s[i]
             /\ Len(b) = Len(s) - 1 /\ b[Len(b)] = s[Len(s) - 1]
  <1>. DEFINE b == SubSeq(s, 1, Len(s) - 1)
  <1>1. Len(s) \in Nat
    OBVIOUS
  <1>2. b \in Seq(S) /\ Len(b) = Len(s) - 1 /\ \A i \in 1..Len(s) - 1 : b[i] = s[i]
    BY <1>1, Below1
  <1>. HIDE DEF b
  <1>3. Len(b) \in 1..Len(b)
    BY <1>1, <1>2
  <1>. DEFINE t == [b EXCEPT ![Len(b)] = x]
  <1>4. t \in Seq(S) /\ Len(t) = Len(b)
        /\ \A j \in 1..Len(b) : t[j] = IF j = Len(b) THEN x ELSE b[j]
    BY <1>2, <1>3, ExceptSeq
  <1>. HIDE DEF t
  <1>5. /\ t \in Seq(S) /\ Len(t) = Len(s) - 1 /\ t[Len(s) - 1] = x
        /\ \A i \in 1..Len(s) - 2 : t[i] = s[i]
        /\ Len(b) = Len(s) - 1 /\ b[Len(b)] = s[Len(s) - 1]
    BY <1>1, <1>2, <1>4
  <1>. QED BY <1>5 DEF b, t

-----------------------------------------------------------------------------
(* What happens to a heap.                                                 *)

\* The heap h2 is h, in which more structs were made and maps were added.
Grows(h, h2) ==
    /\ Len(h) <= Len(h2)
    /\ \A i \in 1..Len(h) :
          /\ h2[i].struct = h[i].struct /\ h2[i].orig = h[i].orig
          /\ h[i].cache # 0 => h2[i].cache = h[i].cache

LEMMA GrowsSelf == ASSUME NEW h \in Seq(StructObject) PROVE Grows(h, h)
  BY DEF Grows

LEMMA GrowsTransitive ==
  ASSUME NEW h \in Seq(StructObject), NEW h2 \in Seq(StructObject), NEW h3 \in Seq(StructObject),
         Grows(h, h2), Grows(h2, h3)
  PROVE  Grows(h, h3)
  BY DEF Grows

LEMMA ObjectType ==
  ASSUME NEW h, NEW n \in Nat, HeapOK(h, n), NEW i \in 1..Len(h)
  PROVE  /\ h \in Seq(StructObject) /\ Len(h) \in Nat /\ h[i] \in StructObject
         /\ h[i].struct \in Structs /\ h[i].orig \in 1..Len(h) /\ h[i].orig <= i
         /\ h[i].cache \in 0..n /\ h[i].parent \in 0..Len(h)
         /\ h[i] = [struct |-> h[i].struct, orig |-> h[i].orig,
                    cache |-> h[i].cache, parent |-> h[i].parent]
  <1>1. h \in Seq(StructObject) /\ Len(h) \in Nat /\ h[i] \in StructObject /\ ObjectOK(h, n, i)
    BY DEF HeapOK
  <1>2. /\ h[i].struct \in Structs /\ h[i].orig \in Nat /\ h[i].cache \in Nat /\ h[i].parent \in Nat
        /\ h[i] = [struct |-> h[i].struct, orig |-> h[i].orig,
                   cache |-> h[i].cache, parent |-> h[i].parent]
    BY <1>1 DEF StructObject
  <1>. QED BY <1>1, <1>2 DEF ObjectOK

\* The first map of o.
LEMMA SetCache ==
  ASSUME NEW h, NEW n \in Nat, HeapOK(h, n), NEW o \in 1..Len(h), h[o].cache = 0
  PROVE  LET g == [h EXCEPT ![o].cache = n + 1]
         IN  /\ HeapOK(g, n + 1) /\ Grows(h, g) /\ Len(g) = Len(h) /\ g[o].cache = n + 1
             /\ \A i \in 1..Len(h) : /\ g[i].parent = h[i].parent
                                     /\ i # o => g[i] = h[i]
  <1>. DEFINE g == [h EXCEPT ![o].cache = n + 1]
              x == [h[o] EXCEPT !.cache = n + 1]
  <1>0. h \in Seq(StructObject)
    BY DEF HeapOK
  <1>1. h \in Seq(StructObject) /\ Len(h) \in Nat /\ h[o] \in StructObject /\ n + 1 \in Nat
    BY <1>0
  <1>2. x \in StructObject /\ x.cache = n + 1 /\ x.struct = h[o].struct /\ x.orig = h[o].orig
        /\ x.parent = h[o].parent
    BY <1>1 DEF StructObject
  <1>3. g = [h EXCEPT ![o] = x]
    OBVIOUS
  <1>. HIDE DEF x
  <1>4. g \in Seq(StructObject) /\ Len(g) = Len(h)
        /\ \A j \in 1..Len(h) : g[j] = IF j = o THEN x ELSE h[j]
    <2>1. h \in Seq(StructObject) /\ o \in 1..Len(h) /\ x \in StructObject
      BY <1>1, <1>2
    <2>. HIDE DEF g
    <2>. QED BY ONLY <1>3, <2>1, ExceptSeq
  <1>. HIDE DEF g
  <1>5. \A i \in 1..Len(h) : g[i].struct = h[i].struct /\ g[i].orig = h[i].orig
                             /\ g[i].parent = h[i].parent
                             /\ (h[i].cache # 0 => g[i].cache = h[i].cache)
                             /\ g[i].cache = IF i = o THEN n + 1 ELSE h[i].cache
    BY <1>2, <1>4
  <1>6. Grows(h, g)
    BY <1>1, <1>4, <1>5 DEF Grows
  <1>7. \A i \in 1..Len(g) : ObjectOK(g, n + 1, i)
    <2>. SUFFICES ASSUME NEW i \in 1..Len(h) PROVE ObjectOK(g, n + 1, i)
      BY <1>4
    <2>1. ObjectOK(h, n, i) /\ h[i].orig \in 1..Len(h) /\ h[i].cache \in 0..n
      BY ObjectType DEF HeapOK
    <2>. QED BY <1>1, <1>4, <1>5, <2>1 DEF ObjectOK
  <1>8. \A i, j \in 1..Len(g) : g[i].cache = g[j].cache /\ g[i].cache # 0 => g[i].orig = g[j].orig
    <2>. SUFFICES ASSUME NEW i \in 1..Len(h), NEW j \in 1..Len(h),
                         g[i].cache = g[j].cache, g[i].cache # 0
                  PROVE  h[i].orig = h[j].orig
      BY <1>4, <1>5
    <2>1. h[i].cache \in 0..n /\ h[j].cache \in 0..n /\ h[o].cache \in 0..n
      BY ObjectType
    <2>. QED BY <1>5, <2>1 DEF HeapOK
  <1>9. HeapOK(g, n + 1)
    BY <1>4, <1>7, <1>8 DEF HeapOK
  <1>. QED BY <1>2, <1>4, <1>5, <1>6, <1>9 DEF g

LEMMA SameCache ==
  ASSUME NEW h, NEW n \in Nat, HeapOK(h, n), NEW o \in 1..Len(h)
  PROVE  [h EXCEPT ![o].cache = h[o].cache] = h
  <1>0. h \in Seq(StructObject)
    BY DEF HeapOK
  <1>1. h \in Seq(StructObject) /\ h[o] \in StructObject /\ DOMAIN h = 1..Len(h)
    BY <1>0
  <1>2. [h[o] EXCEPT !.cache = h[o].cache] = h[o]
    BY <1>1 DEF StructObject
  <1>. QED BY <1>1, <1>2

\* One more object x, of its own or a copy.
LEMMA AddObject ==
  ASSUME NEW h, NEW n \in Nat, HeapOK(h, n), NEW x \in StructObject,
         \/ x.orig = Len(h) + 1 /\ x.cache = 0 /\ x.parent = 0
         \/ \E o \in 1..Len(h) : x = h[h[o].orig]
  PROVE  LET g == Append(h, x)
         IN  /\ HeapOK(g, n) /\ Grows(h, g) /\ Len(g) = Len(h) + 1 /\ g[Len(h) + 1] = x
             /\ \A i \in 1..Len(h) : g[i] = h[i]
  <1>. DEFINE g == Append(h, x)
  <1>1. h \in Seq(StructObject) /\ Len(h) \in Nat
    BY DEF HeapOK
  <1>2. g \in Seq(StructObject) /\ Len(g) = Len(h) + 1 /\ g[Len(h) + 1] = x
        /\ \A i \in 1..Len(h) : g[i] = h[i]
    BY <1>1, AppendProperties
  <1>. HIDE DEF g
  <1>3. Grows(h, g)
    BY <1>1, <1>2 DEF Grows
  <1>4. \A i \in 1..Len(h) : ObjectOK(g, n, i)
    <2>. TAKE i \in 1..Len(h)
    <2>1. ObjectOK(h, n, i) /\ h[i].orig \in 1..Len(h) /\ h[i].parent \in 0..Len(h)
      BY ObjectType DEF HeapOK
    <2>. QED BY <1>1, <1>2, <2>1 DEF ObjectOK
  <1>. DEFINE Fits == /\ ObjectOK(g, n, Len(h) + 1)
                      /\ \A i \in 1..Len(h) :
                            g[i].cache = x.cache /\ x.cache # 0 => g[i].orig = x.orig
  <1>5. Fits
    <2>1. CASE x.orig = Len(h) + 1 /\ x.cache = 0 /\ x.parent = 0
      BY <1>1, <1>2, <2>1 DEF ObjectOK
    <2>2. ASSUME NEW o \in 1..Len(h), x = h[h[o].orig] PROVE Fits
      <3>1. h[o].orig \in 1..Len(h) /\ h[h[o].orig].orig = h[o].orig
        BY ObjectType DEF HeapOK, ObjectOK
      <3>2. /\ x.cache \in 0..n /\ x.parent \in 0..Len(h) /\ x.orig = h[o].orig
            /\ ObjectOK(h, n, h[o].orig)
        BY <2>2, <3>1, ObjectType DEF HeapOK
      <3>3. ObjectOK(g, n, Len(h) + 1)
        BY <1>1, <1>2, <2>2, <3>1, <3>2 DEF ObjectOK
      <3>4. \A i \in 1..Len(h) : g[i].cache = x.cache /\ x.cache # 0 => g[i].orig = x.orig
        <4>1. \A i \in 1..Len(h) : h[i].cache = h[h[o].orig].cache /\ h[i].cache # 0
                                     => h[i].orig = h[h[o].orig].orig
          BY <3>1 DEF HeapOK
        <4>2. \A i \in 1..Len(h) : g[i] = h[i]
          BY <1>2
        <4>. QED BY ONLY <2>2, <4>1, <4>2
      <3>. QED BY <3>3, <3>4
    <2>. QED BY <2>1, <2>2
  <1>6. \A i \in 1..Len(g) : i \in 1..Len(h) \/ i = Len(h) + 1
    BY <1>1, <1>2
  <1>7. \A i \in 1..Len(g) : ObjectOK(g, n, i)
    BY <1>4, <1>5, <1>6
  <1>8. \A i, j \in 1..Len(g) : g[i].cache = g[j].cache /\ g[i].cache # 0 => g[i].orig = g[j].orig
    BY <1>2, <1>5, <1>6 DEF HeapOK
  <1>. QED BY <1>2, <1>3, <1>7, <1>8 DEF HeapOK, g

\* The heap h where the parent of the objects of A is p.
WithParents(h, A, p) == [i \in DOMAIN h |-> IF i \in A THEN [h[i] EXCEPT !.parent = p] ELSE h[i]]

LEMMA SetParents ==
  ASSUME NEW h, NEW n \in Nat, HeapOK(h, n), NEW p \in 1..Len(h), NEW A
  PROVE  LET g == WithParents(h, A, p)
         IN  /\ HeapOK(g, n) /\ Grows(h, g) /\ Len(g) = Len(h)
             /\ \A i \in 1..Len(h) :
                  /\ g[i].cache = h[i].cache
                  /\ g[i].parent = IF i \in A THEN p ELSE h[i].parent
  <1>. DEFINE e(i) == IF i \in A THEN [h[i] EXCEPT !.parent = p] ELSE h[i]
              g == [i \in 1..Len(h) |-> e(i)]
  <1>1. h \in Seq(StructObject) /\ Len(h) \in Nat /\ DOMAIN h = 1..Len(h)
    BY DEF HeapOK
  <1>2. \A i \in 1..Len(h) :
          /\ e(i) \in StructObject /\ e(i).struct = h[i].struct /\ e(i).orig = h[i].orig
          /\ e(i).cache = h[i].cache /\ e(i).parent = IF i \in A THEN p ELSE h[i].parent
    <2>. TAKE i \in 1..Len(h)
    <2>1. h[i] \in StructObject /\ p \in Nat
      BY <1>1, ObjectType
    <2>. QED BY <2>1 DEF StructObject
  <1>. HIDE DEF e
  <1>3. g \in [1..Len(h) -> StructObject]
    BY <1>2
  <1>4. g \in Seq(StructObject) /\ Len(g) = Len(h)
    BY <1>1, <1>3, SeqDef, LenProperties
  <1>5. \A i \in 1..Len(h) :
          /\ g[i].struct = h[i].struct /\ g[i].orig = h[i].orig /\ g[i].cache = h[i].cache
          /\ g[i].parent = IF i \in A THEN p ELSE h[i].parent
    BY <1>2
  <1>. HIDE DEF g
  <1>6. Grows(h, g)
    BY <1>1, <1>4, <1>5 DEF Grows
  <1>7. \A i \in 1..Len(g) : ObjectOK(g, n, i)
    <2>. SUFFICES ASSUME NEW i \in 1..Len(h) PROVE ObjectOK(g, n, i)
      BY <1>4
    <2>1. ObjectOK(h, n, i) /\ h[i].orig \in 1..Len(h)
      BY ObjectType DEF HeapOK
    <2>. QED BY <1>1, <1>4, <1>5, <2>1 DEF ObjectOK
  <1>8. \A i, j \in 1..Len(g) : g[i].cache = g[j].cache /\ g[i].cache # 0 => g[i].orig = g[j].orig
    BY <1>4, <1>5 DEF HeapOK
  <1>9. g = WithParents(h, A, p)
    BY <1>1 DEF WithParents, g, e
  <1>. QED BY <1>4, <1>5, <1>6, <1>7, <1>8, <1>9 DEF HeapOK

-----------------------------------------------------------------------------
(* Values, lambdas and evaluations.                                        *)

LEMMA ValueTypes ==
    /\ Unset \in Value /\ Null \in Value /\ Unset # Null
    /\ \A o \in Nat : Object(o) \in Value /\ Object(o).type = "object" /\ Object(o).obj = o
                      /\ Object(o) # Unset /\ Array(o) \in Value /\ Array(o).type = "array"
                      /\ Array(o).obj = o /\ Array(o) # Unset /\ Object(o) # Null
    /\ \A t, o \in Nat : Number(t, o) \in Value /\ Number(t, o).type = "int"
                         /\ Number(t, o) # Unset /\ Number(t, o).off = o
    /\ Null.type = "null" /\ Unset.type = "unset"
  BY DEF Value, Unset, Null, Object, Array, Number

LEMMA ValueParts ==
  ASSUME NEW v \in Value
  PROVE  /\ v.type \in {"unset", "null", "int", "object", "array"}
         /\ v.at \in Nat /\ v.off \in Nat /\ v.obj \in Nat
  BY DEF Value

LEMMA ValueGrows ==
  ASSUME NEW n \in Nat, NEW m \in Nat, NEW n2 \in Nat, NEW m2 \in Nat, n <= n2, m <= m2,
         NEW v, ValueOK(n, m, v)
  PROVE  ValueOK(n2, m2, v)
  BY DEF ValueOK

LEMMA LambdaParts ==
  ASSUME NEW l \in Lambda
  PROVE  /\ Len(l) \in Nat /\ \A i \in 1..Len(l) : l[i] \in Path
         /\ l # <<>> => /\ Len(l) > 0 /\ Head(l) = l[1] /\ l[1] \in Path
                        /\ Tail(l) \in Lambda /\ Len(Tail(l)) = Len(l) - 1
                        /\ \A i \in 1..Len(Tail(l)) : Tail(l)[i] = l[i+1]
         /\ Len(l) > 0 => l # <<>>
  <1>1. Len(l) \in Nat /\ \A i \in 1..Len(l) : l[i] \in Path
    BY DEF Lambda
  <1>2. ASSUME l # <<>> PROVE Len(l) > 0 /\ Head(l) = l[1] /\ l[1] \in Path
    BY <1>2, EmptySeq DEF Lambda
  <1>3. ASSUME l # <<>> PROVE /\ Tail(l) \in Lambda /\ Len(Tail(l)) = Len(l) - 1
                              /\ \A i \in 1..Len(Tail(l)) : Tail(l)[i] = l[i+1]
    BY <1>3, HeadTailProperties DEF Lambda
  <1>4. Len(l) > 0 => l # <<>>
    BY EmptySeq
  <1>. QED BY <1>1, <1>2, <1>3, <1>4

LEMMA PathParts ==
  ASSUME NEW p \in Path, p # <<>>
  PROVE  /\ Head(p) \in Fields \cup {"Parent"} /\ Tail(p) \in Path /\ Head(p) = p[1]
         /\ Len(p) \in Nat /\ Len(p) > 0 /\ Len(Tail(p)) = Len(p) - 1
         /\ \A i \in 1..Len(Tail(p)) : Tail(p)[i] = p[i+1]
  <1>1. Head(p) \in Fields \cup {"Parent"} /\ Tail(p) \in Path /\ Len(Tail(p)) = Len(p) - 1
        /\ \A i \in 1..Len(Tail(p)) : Tail(p)[i] = p[i+1]
    BY HeadTailProperties DEF Path
  <1>2. Len(p) \in Nat /\ Len(p) > 0 /\ Head(p) = p[1]
    BY EmptySeq DEF Path
  <1>. QED BY <1>1, <1>2

LEMMA FrameParts ==
  ASSUME NEW fr \in Frame
  PROVE  /\ fr.op \in {"get", "size", "ref", "json"} /\ fr.obj \in Nat /\ fr.copy \in Nat
         /\ fr.field \in Fields \cup {"none"} /\ fr.paths \in Lambda
         /\ fr.at \in Value /\ fr.last \in Value /\ fr.out \in Seq(Nat) /\ fr.left \in Nat
  BY DEF Frame

LEMMA FrameGrows ==
  ASSUME NEW h, NEW n \in Nat, HeapOK(h, n), NEW g \in Seq(StructObject), Grows(h, g),
         NEW m \in Nat, NEW m2 \in Nat, m <= m2, NEW fr, FrameOK(h, m, fr)
  PROVE  FrameOK(g, m2, fr)
  <1>1. Len(h) \in Nat /\ Len(g) \in Nat /\ Len(h) <= Len(g)
    BY DEF HeapOK, Grows
  <1>2. fr \in Frame /\ fr.obj \in 1..Len(g) /\ fr.copy \in 0..Len(h) /\ fr.obj \in 1..Len(h)
    BY <1>1, FrameParts DEF FrameOK
  <1>3. ValueOK(Len(g), m2, fr.last) /\ fr.last # Unset
    BY <1>1, ValueGrows DEF FrameOK
  <1>4. fr.paths # <<>> => /\ fr.copy # 0 /\ g[fr.copy].orig = g[fr.obj].orig
                           /\ ValueOK(Len(g), m2, fr.at) /\ fr.at # Unset
    <2>. SUFFICES ASSUME fr.paths # <<>>
                  PROVE  /\ fr.copy # 0 /\ g[fr.copy].orig = g[fr.obj].orig
                         /\ ValueOK(Len(g), m2, fr.at) /\ fr.at # Unset
      OBVIOUS
    <2>1. /\ fr.copy # 0 /\ h[fr.copy].orig = h[fr.obj].orig
          /\ ValueOK(Len(h), m, fr.at) /\ fr.at # Unset
      BY DEF FrameOK
    <2>2. fr.copy \in 1..Len(h)
      BY <1>1, <1>2, <2>1
    <2>3. g[fr.copy].orig = g[fr.obj].orig
      BY <1>2, <2>1, <2>2 DEF Grows
    <2>4. ValueOK(Len(g), m2, fr.at)
      BY <1>1, <2>1, ValueGrows
    <2>. QED BY <2>1, <2>3, <2>4
  <1>5. fr.out \in Seq(1..Len(g))
    <2>1. fr.out \in Seq(1..Len(h)) /\ 1..Len(h) \subseteq 1..Len(g)
      BY <1>1 DEF FrameOK
    <2>. QED BY <2>1, SeqMonotonic
  <1>6. g[fr.obj].struct = h[fr.obj].struct /\ (h[fr.obj].cache # 0 => g[fr.obj].cache = h[fr.obj].cache)
    BY <1>2 DEF Grows
  <1>. QED BY <1>1, <1>2, <1>3, <1>4, <1>5, <1>6 DEF FrameOK, KindOf

LEMMA AwaitsGrows ==
  ASSUME NEW h, NEW g, Grows(h, g), NEW lo, lo.obj \in 1..Len(h), NEW hi, Awaits(h, lo, hi)
  PROVE  Awaits(g, lo, hi)
  BY DEF Awaits, Grows, KindOf

\* A stack whose frames but the last are those of s, and whose last one waited
\* for is of the same evaluation.
LEMMA StackKept ==
  ASSUME NEW h, NEW n \in Nat, HeapOK(h, n), NEW g \in Seq(StructObject), Grows(h, g),
         NEW m \in Nat, NEW m2 \in Nat, m <= m2, NEW s, StackOK(h, m, s),
         NEW t \in Seq(Frame), Len(t) <= Len(s), t # <<>>,
         \A i \in 1..Len(t) - 1 : t[i] = s[i],
         FrameOK(g, m2, t[Len(t)]),
         t[Len(t)].op = s[Len(t)].op, t[Len(t)].obj = s[Len(t)].obj, t[Len(t)].field = s[Len(t)].field
  PROVE  StackOK(g, m2, t)
  <1>1. Len(t) \in Nat /\ Len(t) > 0 /\ s \in Seq(Frame) /\ Len(s) \in Nat
    BY EmptySeq DEF StackOK
  <1>2. \A i \in 1..Len(t) : FrameOK(g, m2, t[i])
    <2>. SUFFICES ASSUME NEW i \in 1..Len(t), i # Len(t) PROVE FrameOK(g, m2, t[i])
      OBVIOUS
    <2>1. i \in 1..Len(s) /\ t[i] = s[i] /\ FrameOK(h, m, s[i])
      BY <1>1 DEF StackOK
    <2>. QED BY <2>1, FrameGrows
  <1>3. \A i \in 1..Len(t) : i > 1 => Awaits(g, t[i-1], t[i])
    <2>. SUFFICES ASSUME NEW i \in 1..Len(t), i > 1 PROVE Awaits(g, t[i-1], t[i])
      OBVIOUS
    <2>1. i \in 1..Len(s) /\ i - 1 \in 1..Len(s) /\ t[i-1] = s[i-1]
      BY <1>1
    <2>2. Awaits(h, s[i-1], s[i]) /\ s[i-1].obj \in 1..Len(h)
      BY <2>1 DEF StackOK, FrameOK
    <2>3. Awaits(g, s[i-1], s[i])
      BY <2>2, AwaitsGrows
    <2>4. t[i].op = s[i].op /\ t[i].obj = s[i].obj /\ t[i].field = s[i].field
      BY <1>1
    <2>. QED BY <2>1, <2>3, <2>4 DEF Awaits
  <1>. QED BY <1>2, <1>3 DEF StackOK

LEMMA StackPushed ==
  ASSUME NEW g, NEW m \in Nat, NEW t, StackOK(g, m, t), NEW y, FrameOK(g, m, y),
         t # <<>> => Awaits(g, t[Len(t)], y)
  PROVE  LET s == Append(t, y)
         IN  /\ StackOK(g, m, s) /\ Len(s) = Len(t) + 1 /\ s[Len(s)] = y
             /\ \A i \in 1..Len(t) : s[i] = t[i]
  <1>. DEFINE s == Append(t, y)
  <1>1. t \in Seq(Frame) /\ y \in Frame /\ Len(t) \in Nat
    BY DEF StackOK, FrameOK
  <1>2. s \in Seq(Frame) /\ Len(s) = Len(t) + 1 /\ s[Len(t) + 1] = y
        /\ \A i \in 1..Len(t) : s[i] = t[i]
    BY <1>1, AppendProperties
  <1>. HIDE DEF s
  <1>3. \A i \in 1..Len(s) : FrameOK(g, m, s[i])
    <2>. TAKE i \in 1..Len(s)
    <2>1. i \in 1..Len(t) \/ i = Len(t) + 1
      BY <1>1, <1>2
    <2>. QED BY <1>2, <2>1 DEF StackOK
  <1>4. \A i \in 1..Len(s) : i > 1 => Awaits(g, s[i-1], s[i])
    <2>. SUFFICES ASSUME NEW i \in 1..Len(s), i > 1 PROVE Awaits(g, s[i-1], s[i])
      OBVIOUS
    <2>1. CASE i \in 1..Len(t)
      <3>1. i - 1 \in 1..Len(t)
        BY <1>1, <2>1
      <3>. QED BY <1>2, <2>1, <3>1 DEF StackOK
    <2>2. CASE i = Len(t) + 1
      <3>1. i - 1 = Len(t) /\ Len(t) \in 1..Len(t) /\ t # <<>>
        BY <1>1, <2>2, EmptySeq
      <3>. QED BY <1>2, <2>2, <3>1
    <2>3. i \in 1..Len(t) \/ i = Len(t) + 1
      BY <1>1, <1>2
    <2>. QED BY <2>1, <2>2, <2>3
  <1>. QED BY <1>2, <1>3, <1>4 DEF StackOK, s

LEMMA StackGrows ==
  ASSUME NEW h, NEW n \in Nat, HeapOK(h, n), NEW g \in Seq(StructObject), Grows(h, g),
         NEW m \in Nat, NEW m2 \in Nat, m <= m2, NEW s, StackOK(h, m, s)
  PROVE  StackOK(g, m2, s)
  <1>1. s \in Seq(Frame) /\ Len(s) \in Nat
    BY DEF StackOK
  <1>2. \A i \in 1..Len(s) : FrameOK(g, m2, s[i])
    BY FrameGrows DEF StackOK
  <1>3. \A i \in 1..Len(s) : i > 1 => Awaits(g, s[i-1], s[i])
    <2>. SUFFICES ASSUME NEW i \in 1..Len(s), i > 1 PROVE Awaits(g, s[i-1], s[i])
      OBVIOUS
    <2>1. i - 1 \in 1..Len(s)
      BY <1>1
    <2>2. Awaits(h, s[i-1], s[i]) /\ s[i-1].obj \in 1..Len(h)
      BY <2>1 DEF StackOK, FrameOK
    <2>. QED BY <2>2, AwaitsGrows
  <1>. QED BY <1>1, <1>2, <1>3 DEF StackOK

-----------------------------------------------------------------------------
(* WellFormed is inductive.                                                *)

LEMMA Typed ==
  ASSUME WellFormed
  PROVE  /\ Len(heap) \in Nat /\ Len(caches) \in Nat /\ Len(arrays) \in Nat /\ Len(stack) \in Nat
         /\ heap \in Seq(StructObject) /\ DOMAIN heap = 1..Len(heap)
         /\ stack \in Seq(Frame) /\ arrays \in Seq(Seq(1..Len(heap)))
         /\ caches \in Seq([Fields -> Value]) /\ epoch \in Nat
  BY DEF WellFormed, HeapOK, CachesOK, ArraysOK, StackOK

LEMMA TopParts ==
  ASSUME WellFormed, stack # <<>>
  PROVE  /\ Len(stack) > 0 /\ Top = stack[Len(stack)] /\ FrameOK(heap, Len(arrays), Top)
         /\ Top \in Frame /\ Top.obj \in 1..Len(heap)
         /\ HeapOK(heap, Len(caches)) /\ StackOK(heap, Len(arrays), stack)
  <1>1. stack \in Seq(Frame) /\ Len(stack) \in Nat /\ Len(stack) > 0
    BY Typed, EmptySeq
  <1>. QED BY <1>1 DEF WellFormed, StackOK, FrameOK, Top

LEMMA CachedParts ==
  ASSUME WellFormed, NEW o \in 1..Len(heap), NEW f \in Fields
  PROVE  /\ ValueOK(Len(heap), Len(arrays), Cached(o, f)) /\ heap[o].cache \in 0..Len(caches)
         /\ Cached(o, f) # Unset => /\ heap[o].cache \in 1..Len(caches)
                                    /\ Cached(o, f) = caches[heap[o].cache][f]
  <1>1. heap[o].cache \in 0..Len(caches)
    BY Typed, ObjectType DEF WellFormed
  <1>2. CASE heap[o].cache = 0
    BY <1>1, <1>2, ValueTypes DEF Cached, ValueOK
  <1>3. CASE heap[o].cache # 0
    BY <1>1, <1>3, Typed DEF Cached, WellFormed, CachesOK
  <1>. QED BY <1>2, <1>3

\* The frames of the stack when only the top moves, in the same heap.
LEMMA TopMoves ==
  ASSUME WellFormed, stack # <<>>, NEW x, FrameOK(heap, Len(arrays), x),
         x.op = Top.op, x.obj = Top.obj, x.field = Top.field
  PROVE  /\ StackOK(heap, Len(arrays), Append(Below, x))
         /\ Len(Append(Below, x)) = Len(stack) /\ Append(Below, x)[Len(stack)] = x
         /\ \A i \in 1..Len(stack) - 1 : Append(Below, x)[i] = stack[i]
  <1>. DEFINE t == Append(Below, x)
  <1>1. t \in Seq(Frame) /\ Len(t) = Len(stack) /\ t[Len(stack)] = x
        /\ \A i \in 1..Len(stack) - 1 : t[i] = stack[i]
    BY Typed, ReplaceTop DEF FrameOK, Below
  <1>. HIDE DEF t
  <1>2. t # <<>> /\ HeapOK(heap, Len(caches)) /\ StackOK(heap, Len(arrays), stack)
        /\ Len(stack) > 0 /\ Top = stack[Len(stack)]
    BY <1>1, Typed, TopParts, EmptySeq
  <1>3. Grows(heap, heap) /\ Len(arrays) <= Len(arrays) /\ Len(t) <= Len(stack)
    BY <1>1, Typed, GrowsSelf
  <1>4. StackOK(heap, Len(arrays), t)
    BY <1>1, <1>2, <1>3, Typed, StackKept
  <1>. QED BY <1>1, <1>4 DEF t

\* What the rest of the state has to do with a stack that is one.
LEMMA OnlyStack ==
  ASSUME WellFormed, StackOK(heap, Len(arrays), stack'), UNCHANGED <<heap, caches, arrays>>,
         held' \subseteq 1..Len(heap), calls' \in 0..MaxCalls, epoch' \in 1..MaxEpoch
  PROVE  WellFormed'
  BY DEF WellFormed

LEMMA MovedOK ==
  ASSUME NEW h, NEW m \in Nat, NEW fr, FrameOK(h, m, fr), Len(h) \in Nat,
         fr.paths # <<>>, Head(fr.paths) # <<>>, NEW v, ValueOK(Len(h), m, v), v # Unset
  PROVE  /\ FrameOK(h, m, Moved(fr, v))
         /\ Moved(fr, v).op = fr.op /\ Moved(fr, v).obj = fr.obj /\ Moved(fr, v).field = fr.field
         /\ Moved(fr, v).copy = fr.copy /\ Moved(fr, v).last = fr.last /\ Moved(fr, v).at = v
         /\ Moved(fr, v).out = fr.out /\ Moved(fr, v).left = fr.left
         /\ Len(Moved(fr, v).paths) = Len(fr.paths)
         /\ Moved(fr, v).paths[1] = Tail(fr.paths[1])
         /\ \A i \in 2..Len(fr.paths) : Moved(fr, v).paths[i] = fr.paths[i]
  <1>. DEFINE x == Moved(fr, v)
              q == [fr.paths EXCEPT ![1] = Tail(fr.paths[1])]
  <1>1. fr \in Frame /\ fr.paths \in Lambda /\ v \in Value
    BY FrameParts DEF FrameOK, ValueOK
  <1>2. Len(fr.paths) \in Nat /\ Len(fr.paths) > 0 /\ fr.paths[1] \in Path /\ fr.paths[1] # <<>>
        /\ fr.paths \in Seq(Path)
    BY <1>1, LambdaParts DEF Lambda
  <1>3. Tail(fr.paths[1]) \in Path
    BY <1>2, PathParts
  <1>4. /\ q \in Seq(Path) /\ Len(q) = Len(fr.paths)
        /\ \A j \in 1..Len(fr.paths) : q[j] = IF j = 1 THEN Tail(fr.paths[1]) ELSE fr.paths[j]
    BY <1>2, <1>3, ExceptSeq
  <1>5. q # <<>> /\ q \in Lambda
    BY <1>2, <1>4, EmptySeq DEF Lambda
  <1>. HIDE DEF q
  <1>6. x = [fr EXCEPT !.at = v, !.paths = q]
    BY DEF Moved, q
  <1>7. /\ x \in Frame /\ x.op = fr.op /\ x.obj = fr.obj /\ x.field = fr.field /\ x.copy = fr.copy
        /\ x.last = fr.last /\ x.at = v /\ x.out = fr.out /\ x.left = fr.left /\ x.paths = q
    BY <1>1, <1>5, <1>6 DEF Frame
  <1>. HIDE DEF x
  <1>8. FrameOK(h, m, x)
    BY <1>5, <1>7 DEF FrameOK
  <1>9. x.paths[1] = Tail(fr.paths[1]) /\ \A i \in 2..Len(fr.paths) : x.paths[i] = fr.paths[i]
    BY <1>2, <1>4, <1>7
  <1>. QED BY <1>4, <1>7, <1>8, <1>9 DEF x

\* What an access of f of the value at finds.
Found(at, f, v) ==
    \/ at.type # "object" /\ v = Null
    \/ /\ at.type = "object" /\ at.obj \in 1..Len(heap) /\ f = "Parent"
       /\ v = IF heap[at.obj].parent = 0 THEN Null ELSE Object(heap[at.obj].parent)
    \/ /\ at.type = "object" /\ at.obj \in 1..Len(heap) /\ f \in Fields
       /\ KindOf(heap, at.obj, f) = "absent" /\ v = Null
    \/ /\ at.type = "object" /\ at.obj \in 1..Len(heap) /\ f \in Fields
       /\ KindOf(heap, at.obj, f) # "absent" /\ Reads(heap, caches, at.obj, f, v)

LEMMA AccessMoves ==
  ASSUME WellFormed, Access
  PROVE  /\ stack # <<>> /\ Top.paths # <<>> /\ Head(Top.paths) # <<>>
         /\ UNCHANGED <<heap, caches, arrays, epoch, calls, held, answers>>
         /\ \E v : /\ stack' = Append(Below, Moved(Top, v))
                   /\ ValueOK(Len(heap), Len(arrays), v) /\ v # Unset
                   /\ Found(Top.at, Head(Head(Top.paths)), v)
  <1>1. stack # <<>> /\ Top.paths # <<>> /\ Head(Top.paths) # <<>>
        /\ UNCHANGED <<heap, caches, arrays, epoch, calls, held, answers>>
    BY DEF Access
  <1>2. FrameOK(heap, Len(arrays), Top) /\ Top \in Frame
    BY <1>1, TopParts
  <1>. DEFINE f == Head(Head(Top.paths))
              o == Top.at.obj
  <1>3. f \in Fields \cup {"Parent"}
    BY <1>1, <1>2, FrameParts, LambdaParts, PathParts
  <1>4. Top.at.type = "object" => o \in 1..Len(heap)
    BY <1>1, <1>2 DEF FrameOK, ValueOK
  <1>5. ValueOK(Len(heap), Len(arrays), Null) /\ Null # Unset
    BY ValueTypes DEF ValueOK
  <1>6. CASE Top.at.type # "object" /\ stack' = Append(Below, Moved(Top, Null))
    BY <1>1, <1>5, <1>6 DEF Found
  <1>7. CASE Top.at.type = "object" /\ f = "Parent"
             /\ stack' = Append(Below, Moved(Top, IF heap[o].parent = 0 THEN Null ELSE Object(heap[o].parent)))
    <2>1. heap[o].parent \in 0..Len(heap)
      BY <1>4, <1>7, Typed, ObjectType DEF WellFormed
    <2>. DEFINE p == heap[o].parent
    <2>2. heap[o].parent # 0 =>
            ValueOK(Len(heap), Len(arrays), Object(p)) /\ Object(p) # Unset
      <3>1. p \in 0..Len(heap) /\ Len(heap) \in Nat
        BY <2>1, Typed
      <3>. HIDE DEF p
      <3>2. p # 0 => ValueOK(Len(heap), Len(arrays), Object(p)) /\ Object(p) # Unset
        BY ONLY <3>1, ValueTypes DEF ValueOK
      <3>. QED BY <3>2 DEF p
    <2>. DEFINE v == IF heap[o].parent = 0 THEN Null ELSE Object(heap[o].parent)
    <2>3. ValueOK(Len(heap), Len(arrays), v) /\ v # Unset
      BY <1>5, <2>2
    <2>4. Found(Top.at, f, v)
      BY <1>4, <1>7 DEF Found
    <2>5. stack' = Append(Below, Moved(Top, v))
      BY <1>7
    <2>. HIDE DEF v
    <2>. QED BY <1>1, <2>3, <2>4, <2>5
  <1>8. CASE Top.at.type = "object" /\ f # "Parent" /\ ~HasField(o, f)
             /\ stack' = Append(Below, Moved(Top, Null))
    BY <1>1, <1>3, <1>4, <1>5, <1>8 DEF Found, HasField, DefOf, KindOf
  <1>9. CASE Top.at.type = "object" /\ f # "Parent" /\ HasField(o, f) /\ Cached(o, f) # Unset
             /\ stack' = Append(Below, Moved(Top, Cached(o, f)))
    <2>1. /\ ValueOK(Len(heap), Len(arrays), Cached(o, f))
          /\ Reads(heap, caches, o, f, Cached(o, f))
      <3>1. o \in 1..Len(heap) /\ f \in Fields /\ Cached(o, f) # Unset
        BY <1>3, <1>4, <1>9
      <3>. HIDE DEF o, f
      <3>2. /\ ValueOK(Len(heap), Len(arrays), Cached(o, f)) /\ heap[o].cache \in 1..Len(caches)
            /\ Cached(o, f) = caches[heap[o].cache][f]
        BY ONLY WellFormed, <3>1, CachedParts
      <3>. QED BY <3>1, <3>2, Typed DEF Reads
    <2>. DEFINE v == Cached(o, f)
    <2>2. Found(Top.at, f, v)
      BY <1>3, <1>4, <1>9, <2>1 DEF Found, HasField, DefOf, KindOf
    <2>3. ValueOK(Len(heap), Len(arrays), v) /\ v # Unset /\ stack' = Append(Below, Moved(Top, v))
      BY <1>9, <2>1
    <2>. HIDE DEF v
    <2>. QED BY <1>1, <2>2, <2>3
  <1>. QED BY <1>1, <1>6, <1>7, <1>8, <1>9 DEF Access

LEMMA AccessWF == WellFormed /\ Access => WellFormed'
  <1>. SUFFICES ASSUME WellFormed, Access PROVE WellFormed'
    OBVIOUS
  <1>1. stack # <<>> /\ Top.paths # <<>> /\ Head(Top.paths) # <<>>
        /\ UNCHANGED <<heap, caches, arrays, epoch, calls, held, answers>>
    BY AccessMoves
  <1>2. PICK v : /\ stack' = Append(Below, Moved(Top, v))
                 /\ ValueOK(Len(heap), Len(arrays), v) /\ v # Unset
    BY AccessMoves
  <1>3. StackOK(heap, Len(arrays), stack')
    BY <1>1, <1>2, TopParts, MovedOK, TopMoves, Typed
  <1>. QED BY <1>1, <1>3, OnlyStack DEF WellFormed

\* The top after its first path has been read to its end.
Ended(fr, more) ==
    [fr EXCEPT !.last = fr.at, !.paths = Tail(fr.paths), !.at = Object(fr.copy),
               !.out = IF fr.op = "json" THEN fr.out \o more ELSE fr.out]

LEMMA EncodedType ==
  ASSUME WellFormed, NEW o, NEW v, ValueOK(Len(heap), Len(arrays), v)
  PROVE  Encoded(o, v) \in Seq(1..Len(heap))
  <1>1. CASE v.type = "array"
    BY <1>1, Typed DEF Encoded, ValueOK
  <1>2. CASE v.type = "object" /\ v.obj \notin {o, heap[o].parent}
    <2>1. v.obj \in 1..Len(heap) /\ Encoded(o, v) = <<v.obj>>
      BY <1>2 DEF Encoded, ValueOK
    <2>. QED BY <2>1
  <1>3. CASE v.type # "array" /\ ~(v.type = "object" /\ v.obj \notin {o, heap[o].parent})
    BY <1>3, EmptySeq DEF Encoded
  <1>. QED BY <1>1, <1>2, <1>3

LEMMA EndPathMoves ==
  ASSUME WellFormed, EndPath
  PROVE  /\ stack # <<>> /\ Top.paths # <<>> /\ Head(Top.paths) = <<>>
         /\ UNCHANGED <<heap, caches, arrays, epoch, calls, held, answers>>
         /\ LET x == Ended(Top, Encoded(Top.obj, Top.at))
            IN  /\ stack' = Append(Below, x) /\ FrameOK(heap, Len(arrays), x)
                /\ x.op = Top.op /\ x.obj = Top.obj /\ x.field = Top.field /\ x.copy = Top.copy
                /\ x.last = Top.at /\ x.paths = Tail(Top.paths) /\ x.at = Object(Top.copy)
                /\ x.left = Top.left
                /\ x.out = IF Top.op = "json" THEN Top.out \o Encoded(Top.obj, Top.at) ELSE Top.out
  <1>1. stack # <<>> /\ Top.paths # <<>> /\ Head(Top.paths) = <<>>
        /\ UNCHANGED <<heap, caches, arrays, epoch, calls, held, answers>>
    BY DEF EndPath
  <1>. DEFINE fr == Top
              x == Ended(fr, Encoded(fr.obj, fr.at))
  <1>2. stack' = Append(Below, x)
    BY DEF EndPath, Ended
  <1>3. FrameOK(heap, Len(arrays), fr) /\ fr \in Frame
    BY <1>1, TopParts
  <1>. HIDE DEF fr
  <1>4. fr.paths # <<>>
    BY <1>1 DEF fr
  <1>5. /\ Tail(fr.paths) \in Lambda /\ fr.at \in Value /\ fr.copy \in 1..Len(heap)
        /\ fr.obj \in 1..Len(heap)
        /\ ValueOK(Len(heap), Len(arrays), fr.at) /\ Object(fr.copy) \in Value
        /\ ValueOK(Len(heap), Len(arrays), Object(fr.copy)) /\ Object(fr.copy) # Unset
    BY <1>3, <1>4, FrameParts, LambdaParts, ValueTypes, Typed DEF FrameOK, ValueOK
  <1>. DEFINE y == IF fr.op = "json" THEN fr.out \o Encoded(fr.obj, fr.at) ELSE fr.out
  <1>6. y \in Seq(1..Len(heap)) /\ y \in Seq(Nat)
    <2>1. Encoded(fr.obj, fr.at) \in Seq(1..Len(heap)) /\ fr.out \in Seq(1..Len(heap))
      BY <1>3, <1>5, EncodedType DEF FrameOK
    <2>2. y \in Seq(1..Len(heap))
      BY <2>1, ConcatProperties
    <2>3. 1..Len(heap) \subseteq Nat
      BY Typed
    <2>. QED BY <2>2, <2>3, SeqMonotonic
  <1>. HIDE DEF y
  <1>7. x = [fr EXCEPT !.last = fr.at, !.paths = Tail(fr.paths), !.at = Object(fr.copy), !.out = y]
    BY DEF Ended, y
  <1>8. /\ x \in Frame /\ x.op = fr.op /\ x.obj = fr.obj /\ x.field = fr.field /\ x.copy = fr.copy
        /\ x.last = fr.at /\ x.paths = Tail(fr.paths) /\ x.at = Object(fr.copy)
        /\ x.left = fr.left /\ x.out = y
    BY <1>3, <1>5, <1>6, <1>7 DEF Frame
  <1>. HIDE DEF x
  <1>9. FrameOK(heap, Len(arrays), x)
    BY <1>3, <1>4, <1>5, <1>6, <1>8 DEF FrameOK
  <1>. QED BY <1>1, <1>2, <1>8, <1>9 DEF x, fr, y

LEMMA EndPathWF == WellFormed /\ EndPath => WellFormed'
  <1>. SUFFICES ASSUME WellFormed, EndPath PROVE WellFormed'
    OBVIOUS
  <1>1. StackOK(heap, Len(arrays), stack')
    BY EndPathMoves, TopMoves
  <1>2. UNCHANGED <<heap, caches, arrays, epoch, calls, held, answers>>
    BY EndPathMoves
  <1>. QED BY <1>1, <1>2, OnlyStack DEF WellFormed

LEMMA StartOK ==
  ASSUME WellFormed, NEW op \in {"get", "ref", "size"}, NEW h \in Seq(StructObject),
         NEW g \in Seq(StructObject), NEW m \in Nat, NEW o \in 1..Len(g),
         NEW f \in Fields \cup {"none"}, NEW l \in Lambda,
         op # "size" => /\ o \in 1..Len(heap) /\ f \in Fields /\ HasField(o, f)
                        /\ Grows(heap, g) /\ (op = "get" => g[o].cache # 0),
         l # <<>> => Len(g) = Len(h) + 1 /\ g[Len(g)].orig = g[o].orig
  PROVE  LET x == Start(op, h, o, f, l)
         IN  /\ FrameOK(g, m, x) /\ x.op = op /\ x.obj = o /\ x.field = f /\ x.paths = l
             /\ x.last = Null /\ x.out = <<>> /\ (op = "size" => x.left = 0)
             /\ l # <<>> => x.copy = Len(g) /\ x.at = Object(Len(g))
             /\ l = <<>> => x.copy = 0
  <1>. DEFINE c == IF l = <<>> THEN 0 ELSE Len(h) + 1
              n == IF op \in {"get", "ref"} /\ DefOf(o, f).kind = "array" THEN Count ELSE 0
              x == Start(op, h, o, f, l)
              a == Object(Len(h) + 1)
  <1>1. Len(h) \in Nat /\ Len(g) \in Nat /\ o \in Nat /\ Count \in Nat
    BY ConstantTypes
  <1>2. c \in Nat /\ n \in Nat /\ (l # <<>> => c = Len(g)) /\ (l = <<>> => c = 0) /\ c <= Len(g)
    BY <1>1
  <1>3. a \in Value /\ Null \in Value /\ Null # Unset /\ a # Unset
        /\ ValueOK(Len(g), m, Null) /\ (l # <<>> => ValueOK(Len(g), m, a) /\ a = Object(Len(g)))
    BY <1>1, ValueTypes DEF ValueOK
  <1>4. <<>> \in Seq(Nat) /\ <<>> \in Seq(1..Len(g))
    BY EmptySeq
  <1>5. op # "size" => /\ KindOf(g, o, f) # "absent"
                       /\ n > 0 => KindOf(g, o, f) = "array"
    BY <1>1 DEF KindOf, HasField, DefOf, Grows
  <1>6. n > 0 => op # "size"
    BY <1>1
  <1>. HIDE DEF c, n, a
  <1>7. x = [op |-> op, obj |-> o, field |-> f, copy |-> c, paths |-> l, at |-> a,
             last |-> Null, out |-> <<>>, left |-> n]
    BY DEF Start, c, n, a
  <1>. HIDE DEF x
  <1>8. x \in Frame /\ x.op = op /\ x.obj = o /\ x.field = f /\ x.paths = l /\ x.copy = c
        /\ x.last = Null /\ x.out = <<>> /\ x.left = n /\ x.at = a
    BY <1>1, <1>2, <1>3, <1>4, <1>7 DEF Frame
  <1>9. FrameOK(g, m, x)
    BY <1>1, <1>2, <1>3, <1>4, <1>5, <1>6, <1>8 DEF FrameOK
  <1>10. op = "size" => x.left = 0
    BY <1>8 DEF n
  <1>. QED BY <1>2, <1>3, <1>8, <1>9, <1>10 DEF x

\* A map of which nothing has been written.
Blank == [f \in Fields |-> Unset]

LEMMA MapAdded ==
  ASSUME NEW n \in Nat, NEW m \in Nat, NEW c, CachesOK(n, m, c)
  PROVE  LET d == Append(c, Blank)
         IN  /\ CachesOK(n, m, d) /\ Len(d) = Len(c) + 1 /\ d[Len(c) + 1] = Blank
             /\ \A i \in 1..Len(c) : d[i] = c[i]
  <1>. DEFINE d == Append(c, Blank)
  <1>1. Blank \in [Fields -> Value] /\ \A f \in Fields : ValueOK(n, m, Blank[f])
    BY ValueTypes DEF Blank, ValueOK
  <1>2. d \in Seq([Fields -> Value]) /\ Len(d) = Len(c) + 1 /\ d[Len(c) + 1] = Blank
        /\ \A i \in 1..Len(c) : d[i] = c[i]
    BY <1>1, AppendProperties DEF CachesOK
  <1>. HIDE DEF d
  <1>3. \A i \in 1..Len(d) : i \in 1..Len(c) \/ i = Len(c) + 1
    BY <1>2 DEF CachesOK
  <1>. QED BY <1>1, <1>2, <1>3 DEF CachesOK, d

LEMMA CachesGrow ==
  ASSUME NEW n \in Nat, NEW m \in Nat, NEW n2 \in Nat, NEW m2 \in Nat, n <= n2, m <= m2,
         NEW c, CachesOK(n, m, c)
  PROVE  CachesOK(n2, m2, c)
  BY ValueGrows DEF CachesOK

LEMMA ArraysGrow ==
  ASSUME NEW n \in Nat, NEW n2 \in Nat, n <= n2, NEW a, ArraysOK(n, a)
  PROVE  ArraysOK(n2, a)
  <1>1. 1..n \subseteq 1..n2
    OBVIOUS
  <1>2. Seq(1..n) \subseteq Seq(1..n2)
    BY <1>1, SeqMonotonic
  <1>. QED BY <1>2, SeqMonotonic DEF ArraysOK

(***************************************************************************)
(* What Enter does: the map, if there is none, the copy, if there is a     *)
(* lambda, and the frame.                                                  *)
(***************************************************************************)
LEMMA EnterMoves ==
  ASSUME WellFormed, NEW op \in {"get", "ref"}, NEW o \in 1..Len(heap), NEW f \in Fields,
         HasField(o, f), NEW below, Enter(op, o, f, below)
  PROVE  LET l == DefOf(o, f).lambda
             y == Start(op, heap, o, f, l)
         IN  /\ stack' = Append(below, y)
             /\ l \in Lambda /\ FrameOK(heap', Len(arrays), y)
             /\ y.op = op /\ y.obj = o /\ y.field = f /\ y.paths = l /\ y.last = Null /\ y.out = <<>>
             /\ HeapOK(heap', Len(caches')) /\ Grows(heap, heap')
             /\ CachesOK(Len(heap'), Len(arrays), caches')
             /\ heap'[o].cache # 0
             /\ heap[o].cache # 0 => caches' = caches
             /\ heap[o].cache = 0 =>
                   /\ caches' = Append(caches, Blank) /\ Len(caches') = Len(caches) + 1
                   /\ \A i \in 1..Len(caches) : caches'[i] = caches[i]
                   /\ caches'[Len(caches) + 1] = Blank /\ heap'[o].cache = Len(caches) + 1
             /\ \A i \in 1..Len(heap) : /\ heap'[i].parent = heap[i].parent
                                        /\ i # o => heap'[i].cache = heap[i].cache
             /\ l = <<>> => Len(heap') = Len(heap) /\ y.copy = 0
             /\ l # <<>> => /\ Len(heap') = Len(heap) + 1 /\ y.copy = Len(heap')
                            /\ heap'[Len(heap')] = heap'[heap[o].orig]
                            /\ y.at = Object(Len(heap'))
  <1>. DEFINE l == DefOf(o, f).lambda
              m == IF heap[o].cache = 0 THEN Len(caches) + 1 ELSE heap[o].cache
              h == [heap EXCEPT ![o].cache = m]
              k == IF heap[o].cache = 0 THEN Len(caches) + 1 ELSE Len(caches)
  <1>1. /\ HeapOK(heap, Len(caches)) /\ Len(caches) \in Nat /\ Len(heap) \in Nat /\ Len(arrays) \in Nat
        /\ heap[o].cache \in 0..Len(caches) /\ heap[o].struct \in Structs /\ heap[o].orig \in 1..Len(heap)
        /\ CachesOK(Len(heap), Len(arrays), caches) /\ heap \in Seq(StructObject)
    BY Typed, ObjectType DEF WellFormed
  <1>2. l \in Lambda
    BY <1>1, ConstantTypes DEF DefOf
  <1>3. m \in 1..Len(caches) + 1 /\ k \in Nat /\ m # 0
    BY <1>1
  <1>4. caches' = (IF heap[o].cache = 0 THEN Append(caches, Blank) ELSE caches)
        /\ heap' = (IF l = <<>> THEN h ELSE GetThis(h, o))
        /\ stack' = Append(below, Start(op, h, o, f, l))
    <2>1. caches' = (IF heap[o].cache = 0 THEN Append(caches, Blank) ELSE caches)
      BY DEF Enter, WithMap, Blank
    <2>2. heap' = (IF l = <<>> THEN h ELSE GetThis(h, o))
      BY DEF Enter
    <2>3. stack' = Append(below, Start(op, h, o, f, l))
      BY DEF Enter
    <2>. QED BY <2>1, <2>2, <2>3
  <1>. HIDE DEF l
  <1>5. /\ HeapOK(h, k) /\ Grows(heap, h) /\ Len(h) = Len(heap) /\ h[o].cache = m
        /\ \A i \in 1..Len(heap) : h[i].parent = heap[i].parent /\ (i # o => h[i] = heap[i])
    <2>1. CASE heap[o].cache = 0
      <3>. DEFINE g == [heap EXCEPT ![o].cache = Len(caches) + 1]
      <3>1. /\ HeapOK(g, Len(caches) + 1) /\ Grows(heap, g) /\ Len(g) = Len(heap)
            /\ g[o].cache = Len(caches) + 1
            /\ \A i \in 1..Len(heap) : g[i].parent = heap[i].parent /\ (i # o => g[i] = heap[i])
        <4>1. HeapOK(heap, Len(caches)) /\ Len(caches) \in Nat
          BY <1>1
        <4>. QED BY ONLY <4>1, <2>1, o \in 1..Len(heap), SetCache
      <3>2. h = g /\ m = Len(caches) + 1 /\ k = Len(caches) + 1
        BY <2>1
      <3>. HIDE DEF g, h, m, k
      <3>. QED BY <3>1, <3>2
    <2>2. CASE heap[o].cache # 0
      <3>1. h = heap /\ m = heap[o].cache /\ k = Len(caches)
        BY <1>1, <2>2, SameCache
      <3>. HIDE DEF h, m, k
      <3>. QED BY <1>1, <3>1, GrowsSelf
    <2>. QED BY <2>1, <2>2
  <1>6. h \in Seq(StructObject) /\ h[o].orig = heap[o].orig
    BY <1>1, <1>5 DEF HeapOK, Grows
  <1>7. /\ Len(caches') = k /\ CachesOK(Len(heap), Len(arrays), caches')
        /\ heap[o].cache # 0 => caches' = caches
        /\ heap[o].cache = 0 =>
              /\ caches' = Append(caches, Blank) /\ Len(caches') = Len(caches) + 1
              /\ \A i \in 1..Len(caches) : caches'[i] = caches[i]
              /\ caches'[Len(caches) + 1] = Blank
    <2>1. Len(heap) \in Nat /\ Len(arrays) \in Nat /\ CachesOK(Len(heap), Len(arrays), caches)
      BY <1>1
    <2>. DEFINE d == Append(caches, Blank)
    <2>2. /\ CachesOK(Len(heap), Len(arrays), d) /\ Len(d) = Len(caches) + 1
          /\ d[Len(caches) + 1] = Blank /\ \A i \in 1..Len(caches) : d[i] = caches[i]
      BY ONLY <2>1, MapAdded
    <2>. HIDE DEF d, h, m
    <2>3. caches' = (IF heap[o].cache = 0 THEN d ELSE caches)
      BY <1>4 DEF d
    <2>. QED BY ONLY <2>1, <2>2, <2>3 DEF d
  <1>. DEFINE y == Start(op, heap, o, f, l)
  <1>. HIDE DEF h, m, k
  <1>10. stack' = Append(below, y)
    <2>1. Start(op, h, o, f, l) = y
      BY <1>5 DEF Start
    <2>. QED BY <1>4, <2>1
  <1>. HIDE DEF y
  <1>8. CASE l = <<>>
    <2>1. heap' = h
      BY <1>4, <1>8
    <2>2. FrameOK(heap', Len(arrays), y) /\ y.op = op /\ y.obj = o /\ y.field = f /\ y.paths = l
          /\ y.last = Null /\ y.out = <<>> /\ y.copy = 0
      BY <1>1, <1>2, <1>3, <1>5, <1>6, <1>8, <2>1, StartOK DEF y
    <2>3. heap'[o].cache # 0 /\ (heap[o].cache = 0 => heap'[o].cache = Len(caches) + 1)
      BY <1>3, <1>5, <2>1 DEF m
    <2>. QED BY <1>1, <1>2, <1>4, <1>5, <1>7, <1>8, <1>10, <2>1, <2>2, <2>3 DEF l, y
  <1>9. CASE l # <<>>
    <2>1. heap' = Append(h, h[h[o].orig])
      BY <1>4, <1>9 DEF GetThis
    <2>2. o \in 1..Len(h) /\ h[o].orig \in 1..Len(h) /\ h[h[o].orig] \in StructObject
          /\ h[h[o].orig].orig = h[o].orig
      BY <1>1, <1>3, <1>5, <1>6, ObjectType DEF HeapOK, ObjectOK
    <2>3. /\ HeapOK(heap', k) /\ Grows(h, heap') /\ Len(heap') = Len(h) + 1
          /\ heap'[Len(h) + 1] = h[h[o].orig] /\ \A i \in 1..Len(h) : heap'[i] = h[i]
      BY <1>3, <1>5, <2>1, <2>2, AddObject
    <2>4. heap' \in Seq(StructObject) /\ Grows(heap, heap')
      BY <1>1, <1>5, <1>6, <2>3, GrowsTransitive DEF HeapOK
    <2>5. heap'[Len(heap')] = heap'[heap[o].orig] /\ Len(heap') = Len(heap) + 1
          /\ heap'[Len(heap')].orig = heap'[o].orig
      BY <1>1, <1>5, <1>6, <2>2, <2>3
    <2>6. heap'[o].cache = m
      BY <1>5, <2>2, <2>3
    <2>7. FrameOK(heap', Len(arrays), y) /\ y.op = op /\ y.obj = o /\ y.field = f /\ y.paths = l
          /\ y.last = Null /\ y.out = <<>> /\ y.copy = Len(heap') /\ y.at = Object(Len(heap'))
      <3>1. o \in 1..Len(heap') /\ op \in {"get", "ref", "size"} /\ f \in Fields \cup {"none"}
            /\ heap'[o].cache # 0 /\ Len(heap') \in Nat
        BY <1>1, <1>3, <2>5, <2>6
      <3>2. Len(heap') = Len(heap) + 1 /\ heap'[Len(heap')].orig = heap'[o].orig
        BY <2>5
      <3>. QED BY ONLY WellFormed, HasField(o, f), o \in 1..Len(heap), f \in Fields,
                       op \in {"get", "ref"}, <1>1, <1>2, <1>9, <2>4, <3>1, <3>2, StartOK, SMTT(60) DEF y
    <2>8. heap'[o].cache # 0 /\ (heap[o].cache = 0 => heap'[o].cache = Len(caches) + 1)
      BY <1>3, <2>6 DEF m
    <2>9. \A i \in 1..Len(heap) : heap'[i].parent = heap[i].parent
                                  /\ (i # o => heap'[i].cache = heap[i].cache)
      BY <1>5, <2>3
    <2>10. CachesOK(Len(heap'), Len(arrays), caches')
      <3>1. Len(heap') \in Nat /\ Len(heap) <= Len(heap')
        BY <1>1, <2>5
      <3>. QED BY <1>1, <1>7, <3>1, CachesGrow
    <2>11. HeapOK(heap', Len(caches'))
      BY <1>7, <2>3
    <2>. QED BY <1>2, <1>4, <1>7, <1>9, <2>4, <2>5, <2>7, <2>8, <2>9, <2>10, <2>11, <1>10 DEF l, y
  <1>. QED BY <1>8, <1>9

\* WellFormed, part by part.
LEMMA Parts ==
  ASSUME WellFormed
  PROVE  /\ HeapOK(heap, Len(caches)) /\ CachesOK(Len(heap), Len(arrays), caches)
         /\ ArraysOK(Len(heap), arrays) /\ StackOK(heap, Len(arrays), stack)
         /\ held \subseteq 1..Len(heap)
         /\ Len(heap) \in Nat /\ Len(caches) \in Nat /\ Len(arrays) \in Nat
  BY Typed DEF WellFormed

\* A stack of which only the heap and the maps under it changed.
LEMMA StackStays ==
  ASSUME WellFormed, NEW n \in Nat, HeapOK(heap', n), Grows(heap, heap')
  PROVE  /\ StackOK(heap', Len(arrays), stack) /\ ArraysOK(Len(heap'), arrays)
         /\ held \subseteq 1..Len(heap')
  <1>1. /\ HeapOK(heap, Len(caches)) /\ Len(caches) \in Nat /\ Len(heap) \in Nat
        /\ Len(arrays) \in Nat /\ StackOK(heap, Len(arrays), stack)
        /\ ArraysOK(Len(heap), arrays) /\ held \subseteq 1..Len(heap)
    BY Typed DEF WellFormed
  <1>2. heap' \in Seq(StructObject) /\ Len(heap') \in Nat /\ Len(heap) <= Len(heap')
    BY DEF HeapOK, Grows
  <1>3. StackOK(heap', Len(arrays), stack)
    <2>1. Len(arrays) <= Len(arrays)
      BY <1>1
    <2>. QED BY ONLY <1>1, <1>2, <2>1, Grows(heap, heap'), StackGrows
  <1>4. ArraysOK(Len(heap'), arrays)
    BY <1>1, <1>2, ArraysGrow
  <1>. QED BY <1>1, <1>2, <1>3, <1>4

LEMMA EmptyStackOK == ASSUME NEW h, NEW m \in Nat PROVE StackOK(h, m, <<>>)
  BY EmptySeq DEF StackOK

LEMMA DescendMoves ==
  ASSUME WellFormed, Descend
  PROVE  LET f == Head(Head(Top.paths))
             o == Top.at.obj
         IN  /\ stack # <<>> /\ Top.paths # <<>> /\ Head(Top.paths) # <<>> /\ Top.at.type = "object"
             /\ UNCHANGED <<arrays, epoch, calls, held, answers>>
             /\ o \in 1..Len(heap) /\ f \in Fields /\ HasField(o, f) /\ Cached(o, f) = Unset
             /\ Enter("get", o, f, stack)
  <1>1. stack # <<>> /\ Top.paths # <<>> /\ Head(Top.paths) # <<>> /\ Top.at.type = "object"
    BY DEF Descend
  <1>2. FrameOK(heap, Len(arrays), Top) /\ Top \in Frame
    BY <1>1, TopParts
  <1>3. Top.at.obj \in 1..Len(heap)
    BY <1>1, <1>2 DEF FrameOK, ValueOK
  <1>4. Head(Head(Top.paths)) \in Fields \cup {"Parent"}
    BY <1>1, <1>2, FrameParts, LambdaParts, PathParts
  <1>. QED BY <1>1, <1>3, <1>4 DEF Descend

LEMMA DescendWF == WellFormed /\ Descend => WellFormed'
  <1>. SUFFICES ASSUME WellFormed, Descend PROVE WellFormed'
    OBVIOUS
  <1>. DEFINE f == Head(Head(Top.paths))
              o == Top.at.obj
              y == Start("get", heap, o, f, DefOf(o, f).lambda)
  <1>1. /\ stack # <<>> /\ Top.paths # <<>> /\ Head(Top.paths) # <<>> /\ Top.at.type = "object"
        /\ UNCHANGED <<arrays, epoch, calls, held, answers>>
        /\ o \in 1..Len(heap) /\ f \in Fields /\ HasField(o, f) /\ Enter("get", o, f, stack)
    BY DescendMoves
  <1>. HIDE DEF f, o, y
  <1>2. /\ stack' = Append(stack, y) /\ FrameOK(heap', Len(arrays), y)
        /\ y.op = "get" /\ y.obj = o /\ y.field = f
        /\ HeapOK(heap', Len(caches')) /\ Grows(heap, heap')
        /\ CachesOK(Len(heap'), Len(arrays), caches')
    BY <1>1, EnterMoves DEF y
  <1>3. Len(caches') \in Nat
    BY <1>2 DEF CachesOK
  <1>4. StackOK(heap', Len(arrays), stack) /\ ArraysOK(Len(heap'), arrays) /\ held \subseteq 1..Len(heap')
    BY <1>2, <1>3, StackStays
  <1>5. Awaits(heap', stack[Len(stack)], y)
    BY <1>1, <1>2, TopParts DEF Awaits, f, o
  <1>6. StackOK(heap', Len(arrays), stack')
    BY <1>2, <1>4, <1>5, Typed, StackPushed
  <1>. QED BY <1>1, <1>2, <1>4, <1>6 DEF WellFormed

\* A call of the user that begins with the evaluation y.
LEMMA CallStarts ==
  ASSUME WellFormed, NEW y, FrameOK(heap', Len(arrays), y), stack' = <<y>>,
         HeapOK(heap', Len(caches')), Grows(heap, heap'), CachesOK(Len(heap'), Len(arrays), caches'),
         UNCHANGED <<arrays, held, epoch>>, calls' \in 0..MaxCalls
  PROVE  WellFormed'
  <1>1. Len(caches') \in Nat /\ Len(arrays) \in Nat
    BY Typed DEF CachesOK
  <1>2. ArraysOK(Len(heap'), arrays) /\ held \subseteq 1..Len(heap')
    BY <1>1, StackStays
  <1>3. StackOK(heap', Len(arrays), stack')
    <2>1. stack' = Append(<<>>, y)
      OBVIOUS
    <2>2. StackOK(heap', Len(arrays), <<>>)
      BY <1>1, EmptyStackOK
    <2>. QED BY ONLY FrameOK(heap', Len(arrays), y), <1>1, <2>1, <2>2, StackPushed
  <1>. QED BY <1>2, <1>3 DEF WellFormed

LEMMA CallsOK == WellFormed /\ Call => calls' \in 0..MaxCalls /\ stack = <<>>
  BY ConstantTypes DEF WellFormed, Call

LEMMA GetWF == ASSUME WellFormed, NEW o \in held, NEW f \in Fields, Get(o, f) PROVE WellFormed'
  <1>1. o \in 1..Len(heap) /\ HasField(o, f) /\ Call /\ UNCHANGED <<arrays, epoch>>
    BY DEF WellFormed, Get
  <1>2. calls' \in 0..MaxCalls /\ stack = <<>>
    BY <1>1, CallsOK
  <1>3. CASE Cached(o, f) # Unset
    <2>1. held' = Holding(Cached(o, f)) /\ UNCHANGED <<heap, caches, stack>>
      BY <1>3 DEF Get
    <2>2. ValueOK(Len(heap), Len(arrays), Cached(o, f))
      BY <1>1, CachedParts
    <2>3. held' \subseteq 1..Len(heap)
      <3>1. Cached(o, f).type = "array" => Range(arrays[Cached(o, f).obj]) \subseteq 1..Len(heap)
        <4>. SUFFICES ASSUME Cached(o, f).type = "array"
                      PROVE  Range(arrays[Cached(o, f).obj]) \subseteq 1..Len(heap)
          OBVIOUS
        <4>1. Cached(o, f).obj \in 1..Len(arrays)
          BY <2>2 DEF ValueOK
        <4>2. arrays[Cached(o, f).obj] \in Seq(1..Len(heap))
          BY <4>1, Typed
        <4>. QED BY ONLY <4>2, RangeOfSeq DEF Range
      <3>. QED BY <1>1, <2>1, <2>2, <3>1 DEF Holding, ValueOK, WellFormed
    <2>. QED BY <1>1, <1>2, <2>1, <2>3, OnlyStack DEF WellFormed
  <1>4. CASE Cached(o, f) = Unset
    <2>1. Enter("get", o, f, <<>>) /\ UNCHANGED held
      BY <1>4 DEF Get
    <2>. DEFINE y == Start("get", heap, o, f, DefOf(o, f).lambda)
    <2>2. /\ stack' = Append(<<>>, y) /\ FrameOK(heap', Len(arrays), y)
          /\ HeapOK(heap', Len(caches')) /\ Grows(heap, heap')
          /\ CachesOK(Len(heap'), Len(arrays), caches')
      <3>. DEFINE none == <<>>
      <3>1. "get" \in {"get", "ref"} /\ o \in 1..Len(heap) /\ HasField(o, f) /\ Enter("get", o, f, none)
        BY <1>1, <2>1
      <3>. HIDE DEF none
      <3>2. /\ stack' = Append(none, y) /\ FrameOK(heap', Len(arrays), y)
            /\ HeapOK(heap', Len(caches')) /\ Grows(heap, heap')
            /\ CachesOK(Len(heap'), Len(arrays), caches')
        BY ONLY WellFormed, f \in Fields, <3>1, EnterMoves
      <3>. QED BY <3>2 DEF none
    <2>. HIDE DEF y
    <2>3. stack' = <<y>>
      BY <2>2
    <2>. QED BY <1>1, <1>2, <2>1, <2>2, <2>3, CallStarts
  <1>. QED BY <1>3, <1>4

LEMMA RefValueWF == ASSUME WellFormed, NEW o \in held, NEW f \in Fields, RefValue(o, f) PROVE WellFormed'
  <1>1. o \in 1..Len(heap) /\ HasField(o, f) /\ Call /\ Enter("ref", o, f, <<>>)
        /\ UNCHANGED <<arrays, epoch, held>>
    BY DEF WellFormed, RefValue
  <1>. DEFINE y == Start("ref", heap, o, f, DefOf(o, f).lambda)
  <1>2. /\ stack' = Append(<<>>, y) /\ FrameOK(heap', Len(arrays), y)
        /\ HeapOK(heap', Len(caches')) /\ Grows(heap, heap')
        /\ CachesOK(Len(heap'), Len(arrays), caches')
    <2>. DEFINE none == <<>>
    <2>1. "ref" \in {"get", "ref"} /\ o \in 1..Len(heap) /\ HasField(o, f) /\ Enter("ref", o, f, none)
      BY <1>1
    <2>. HIDE DEF none
    <2>2. /\ stack' = Append(none, y) /\ FrameOK(heap', Len(arrays), y)
          /\ HeapOK(heap', Len(caches')) /\ Grows(heap, heap')
          /\ CachesOK(Len(heap'), Len(arrays), caches')
      BY ONLY WellFormed, f \in Fields, <2>1, EnterMoves
    <2>. QED BY <2>2 DEF none
  <1>. HIDE DEF y
  <1>3. stack' = <<y>>
    BY <1>2
  <1>. QED BY <1>1, <1>2, <1>3, CallStarts, CallsOK

\* The copy of o that a size expression is given.
LEMMA CopyMoves ==
  ASSUME NEW h, NEW n \in Nat, HeapOK(h, n), NEW o \in 1..Len(h)
  PROVE  LET g == GetThis(h, o)
         IN  /\ HeapOK(g, n) /\ Grows(h, g) /\ Len(g) = Len(h) + 1
             /\ g[Len(g)] = h[h[o].orig] /\ \A i \in 1..Len(h) : g[i] = h[i]
             /\ g \in Seq(StructObject) /\ g[Len(g)].orig = g[o].orig
  <1>1. /\ h \in Seq(StructObject) /\ h[o].orig \in 1..Len(h) /\ ObjectOK(h, n, o) /\ Len(h) \in Nat
    BY DEF HeapOK, ObjectOK
  <1>2. h[h[o].orig] \in StructObject /\ h[h[o].orig].orig = h[o].orig
    BY <1>1 DEF ObjectOK
  <1>. DEFINE g == Append(h, h[h[o].orig])
  <1>3. /\ HeapOK(g, n) /\ Grows(h, g) /\ Len(g) = Len(h) + 1 /\ g[Len(h) + 1] = h[h[o].orig]
        /\ \A i \in 1..Len(h) : g[i] = h[i]
    BY <1>2, AddObject
  <1>4. GetThis(h, o) = g
    BY DEF GetThis
  <1>. HIDE DEF g
  <1>5. g[Len(g)].orig = g[o].orig /\ g \in Seq(StructObject)
    BY <1>1, <1>2, <1>3 DEF HeapOK
  <1>. QED BY <1>3, <1>4, <1>5

\* The measuring of o, in a heap h that has it.
LEMMA MeasureMoves ==
  ASSUME WellFormed, NEW h, HeapOK(h, Len(caches)), NEW o \in 1..Len(h), NEW m \in Nat,
         SizeLambda[h[o].struct] # <<>>
  PROVE  LET g == GetThis(h, o)
             y == Start("size", h, o, "none", SizeLambda[h[o].struct])
         IN  /\ HeapOK(g, Len(caches)) /\ Grows(h, g) /\ Len(g) = Len(h) + 1
             /\ g[Len(g)] = h[h[o].orig] /\ \A i \in 1..Len(h) : g[i] = h[i]
             /\ FrameOK(g, m, y) /\ y.op = "size" /\ y.obj = o /\ y.field = "none"
             /\ y.paths = SizeLambda[h[o].struct] /\ y.paths \in Lambda
             /\ y.copy = Len(g) /\ y.at = Object(Len(g)) /\ y.last = Null /\ y.out = <<>>
  <1>. DEFINE g == GetThis(h, o)
              l == SizeLambda[h[o].struct]
              y == Start("size", h, o, "none", l)
  <1>1. /\ HeapOK(g, Len(caches)) /\ Grows(h, g) /\ Len(g) = Len(h) + 1
        /\ g[Len(g)] = h[h[o].orig] /\ \A i \in 1..Len(h) : g[i] = h[i]
        /\ g \in Seq(StructObject) /\ g[Len(g)].orig = g[o].orig
    BY Typed, CopyMoves
  <1>2. h \in Seq(StructObject) /\ Len(h) \in Nat
    BY DEF HeapOK
  <1>3. l \in Lambda /\ l # <<>>
    <2>1. h[o] \in StructObject
      BY <1>2
    <2>. QED BY <2>1, ConstantTypes DEF StructObject
  <1>. HIDE DEF g, l
  <1>4. /\ FrameOK(g, m, y) /\ y.op = "size" /\ y.obj = o /\ y.field = "none" /\ y.paths = l
        /\ y.last = Null /\ y.out = <<>> /\ y.copy = Len(g) /\ y.at = Object(Len(g))
    <2>. DEFINE op == "size"
                f == "none"
                x == Start(op, h, o, f, l)
    <2>1. op \in {"get", "ref", "size"} /\ op = "size" /\ f \in Fields \cup {"none"} /\ f = "none"
          /\ o \in 1..Len(g) /\ x = y
      BY <1>1, <1>2
    <2>2. /\ g \in Seq(StructObject) /\ Len(g) = Len(h) + 1 /\ g[Len(g)].orig = g[o].orig
          /\ h \in Seq(StructObject) /\ l \in Lambda /\ l # <<>>
      BY <1>1, <1>2, <1>3
    <2>. HIDE DEF op, f, y
    <2>3. /\ FrameOK(g, m, x) /\ x.op = op /\ x.obj = o /\ x.field = f /\ x.paths = l
          /\ x.last = Null /\ x.out = <<>> /\ x.copy = Len(g) /\ x.at = Object(Len(g))
      BY ONLY WellFormed, m \in Nat, <2>1, <2>2, StartOK, SMTT(60)
    <2>. HIDE DEF x
    <2>. QED BY ONLY <2>1, <2>3
  <1>. QED BY <1>1, <1>3, <1>4 DEF g, l

LEMMA SizeWF == ASSUME WellFormed, NEW o \in held, Size(o) PROVE WellFormed'
  <1>1. /\ o \in 1..Len(heap) /\ Call /\ SizeLambda[heap[o].struct] # <<>>
        /\ heap' = GetThis(heap, o)
        /\ stack' = <<Start("size", heap, o, "none", SizeLambda[heap[o].struct])>>
        /\ UNCHANGED <<caches, arrays, held, epoch>>
    BY DEF WellFormed, Size
  <1>. DEFINE y == Start("size", heap, o, "none", SizeLambda[heap[o].struct])
  <1>2. HeapOK(heap', Len(caches)) /\ Grows(heap, heap') /\ Len(heap') = Len(heap) + 1
        /\ FrameOK(heap', Len(arrays), y)
    BY <1>1, Typed, MeasureMoves DEF WellFormed
  <1>. HIDE DEF y
  <1>3. CachesOK(Len(heap'), Len(arrays), caches')
    <2>1. Len(heap') \in Nat /\ Len(heap) <= Len(heap') /\ CachesOK(Len(heap), Len(arrays), caches)
          /\ Len(heap) \in Nat /\ Len(arrays) \in Nat /\ Len(arrays) <= Len(arrays)
      BY <1>2, Parts
    <2>2. CachesOK(Len(heap'), Len(arrays), caches)
      BY ONLY <2>1, CachesGrow
    <2>. QED BY <1>1, <2>2
  <1>4. stack' = <<y>> /\ HeapOK(heap', Len(caches'))
    BY <1>1, <1>2 DEF y
  <1>. QED BY <1>1, <1>2, <1>3, <1>4, CallStarts, CallsOK

LEMMA ParentWF == ASSUME WellFormed, NEW o \in held, Parent(o) PROVE WellFormed'
  <1>1. /\ o \in 1..Len(heap) /\ heap[o].parent # 0 /\ Call /\ held' = held \cup {heap[o].parent}
        /\ UNCHANGED <<heap, caches, arrays, stack, epoch>>
    BY DEF WellFormed, Parent
  <1>2. heap[o].parent \in 1..Len(heap)
    <2>1. heap[o].parent \in 0..Len(heap) /\ Len(heap) \in Nat
      BY <1>1, Parts, ObjectType
    <2>. QED BY <1>1, <2>1
  <1>. QED BY <1>1, <1>2, CallsOK, OnlyStack DEF WellFormed

LEMMA MarshalMoves ==
  ASSUME WellFormed, NEW o \in 1..Len(heap)
  PROVE  LET y == Marshal(heap, o)
         IN  /\ FrameOK(heap, Len(arrays), y) /\ y.op = "json" /\ y.obj = o /\ y.copy = o
             /\ y.at = Object(o) /\ y.last = Null /\ y.out = <<>> /\ y.left = 0
             /\ \A i \in 1..Len(y.paths) : Len(y.paths[i]) = 1
  <1>. DEFINE s == Shown[heap[o].struct]
              p == [i \in DOMAIN s |-> <<s[i]>>]
              n == Len(heap)
              x == [op |-> "json", obj |-> o, field |-> "none", copy |-> o, paths |-> p,
                    at |-> Object(o), last |-> Null, out |-> <<>>, left |-> 0]
  <1>1. s \in Seq(Fields) /\ n \in Nat /\ o \in Nat
    <2>1. heap[o].struct \in Structs
      BY Parts, ObjectType
    <2>. QED BY <2>1, Parts, ConstantTypes
  <1>2. p \in Lambda /\ \A i \in 1..Len(p) : Len(p[i]) = 1
    <2>. HIDE DEF s
    <2>1. \A i \in 1..Len(s) : <<s[i]>> \in Path /\ Len(<<s[i]>>) = 1
      BY <1>1 DEF Path
    <2>2. DOMAIN s = 1..Len(s) /\ Len(s) \in Nat
      BY <1>1
    <2>3. p \in [1..Len(s) -> Path]
      BY <2>1, <2>2
    <2>4. p \in Seq(Path) /\ Len(p) = Len(s)
      BY <2>2, <2>3, SeqDef, LenProperties
    <2>. QED BY <2>1, <2>2, <2>4 DEF Lambda
  <1>3. Marshal(heap, o) = x
    <2>. DEFINE c == IF p = <<>> THEN 0 ELSE Len(heap) + 1
                a == Object(Len(heap) + 1)
    <2>1. Marshal(heap, o) =
            [[op |-> "json", obj |-> o, field |-> "none", copy |-> c, paths |-> p, at |-> a,
              last |-> Null, out |-> <<>>, left |-> 0] EXCEPT !.copy = o, !.at = Object(o)]
      BY DEF Marshal, Start
    <2>. HIDE DEF c, a, p
    <2>. QED BY <2>1
  <1>4. Object(o) \in Value /\ Null \in Value /\ Null # Unset /\ Object(o) # Unset
        /\ ValueOK(n, Len(arrays), Null) /\ ValueOK(n, Len(arrays), Object(o))
    BY <1>1, Typed, ValueTypes DEF ValueOK
  <1>5. <<>> \in Seq(Nat) /\ <<>> \in Seq(1..n)
    BY EmptySeq
  <1>. HIDE DEF p
  <1>6. /\ x \in Frame /\ x.op = "json" /\ x.obj = o /\ x.field = "none" /\ x.copy = o /\ x.paths = p
        /\ x.at = Object(o) /\ x.last = Null /\ x.out = <<>> /\ x.left = 0
    BY <1>1, <1>2, <1>4, <1>5 DEF Frame
  <1>. HIDE DEF x
  <1>7. FrameOK(heap, Len(arrays), x)
    BY <1>1, <1>4, <1>5, <1>6 DEF FrameOK
  <1>. QED BY <1>2, <1>3, <1>6, <1>7

LEMMA MarshalJSONWF == ASSUME WellFormed, NEW o \in held, MarshalJSON(o) PROVE WellFormed'
  <1>1. o \in 1..Len(heap) /\ Call /\ stack' = <<Marshal(heap, o)>>
        /\ UNCHANGED <<heap, caches, arrays, held, epoch>>
    BY DEF WellFormed, MarshalJSON
  <1>. DEFINE y == Marshal(heap, o)
  <1>2. FrameOK(heap, Len(arrays), y)
    BY <1>1, MarshalMoves
  <1>. HIDE DEF y
  <1>3. HeapOK(heap, Len(caches)) /\ Grows(heap, heap) /\ CachesOK(Len(heap), Len(arrays), caches)
    BY Typed, GrowsSelf DEF WellFormed
  <1>4. stack' = <<y>>
    BY <1>1 DEF y
  <1>5. /\ FrameOK(heap', Len(arrays), y) /\ HeapOK(heap', Len(caches')) /\ Grows(heap, heap')
        /\ CachesOK(Len(heap'), Len(arrays), caches')
    BY <1>1, <1>2, <1>3
  <1>. QED BY <1>1, <1>4, <1>5, CallsOK, CallStarts

\* As TopMoves, in a heap that grew.
LEMMA TopMovesIn ==
  ASSUME WellFormed, stack # <<>>, NEW g, NEW n \in Nat, HeapOK(g, n), Grows(heap, g),
         NEW m \in Nat, Len(arrays) <= m, NEW x, FrameOK(g, m, x),
         x.op = Top.op, x.obj = Top.obj, x.field = Top.field
  PROVE  /\ StackOK(g, m, Append(Below, x))
         /\ Len(Append(Below, x)) = Len(stack) /\ Append(Below, x)[Len(stack)] = x
         /\ \A i \in 1..Len(stack) - 1 : Append(Below, x)[i] = stack[i]
  <1>. DEFINE t == Append(Below, x)
  <1>1. t \in Seq(Frame) /\ Len(t) = Len(stack) /\ t[Len(stack)] = x
        /\ \A i \in 1..Len(stack) - 1 : t[i] = stack[i]
    BY Typed, ReplaceTop DEF FrameOK, Below
  <1>. HIDE DEF t
  <1>2. /\ t # <<>> /\ HeapOK(heap, Len(caches)) /\ StackOK(heap, Len(arrays), stack)
        /\ Top = stack[Len(stack)] /\ Len(t) <= Len(stack) /\ g \in Seq(StructObject)
        /\ Len(caches) \in Nat /\ Len(arrays) \in Nat
    BY <1>1, Typed, TopParts, EmptySeq DEF HeapOK
  <1>3. /\ \A i \in 1..Len(t) - 1 : t[i] = stack[i]
        /\ FrameOK(g, m, t[Len(t)]) /\ t[Len(t)].op = stack[Len(t)].op
        /\ t[Len(t)].obj = stack[Len(t)].obj /\ t[Len(t)].field = stack[Len(t)].field
    BY <1>1, <1>2
  <1>4. StackOK(g, m, t)
    BY ONLY <1>1, <1>2, <1>3, n \in Nat, m \in Nat, Len(arrays) <= m, Grows(heap, g), StackKept
  <1>. QED BY <1>1, <1>4 DEF t

\* The top is gone, the frame x under it goes on.
LEMMA TopEnds ==
  ASSUME WellFormed, Len(stack) > 1, NEW g, NEW n \in Nat, HeapOK(g, n), Grows(heap, g),
         NEW m \in Nat, Len(arrays) <= m, NEW x, FrameOK(g, m, x),
         x.op = stack[Len(stack)-1].op, x.obj = stack[Len(stack)-1].obj,
         x.field = stack[Len(stack)-1].field
  PROVE  LET t == [Below EXCEPT ![Len(Below)] = x]
         IN  /\ StackOK(g, m, t) /\ Len(t) = Len(stack) - 1 /\ t[Len(stack) - 1] = x
             /\ \A i \in 1..Len(stack) - 2 : t[i] = stack[i]
             /\ Len(Below) = Len(stack) - 1 /\ Below[Len(Below)] = stack[Len(stack) - 1]
  <1>. DEFINE t == [Below EXCEPT ![Len(Below)] = x]
  <1>1. /\ t \in Seq(Frame) /\ Len(t) = Len(stack) - 1 /\ t[Len(stack) - 1] = x
        /\ \A i \in 1..Len(stack) - 2 : t[i] = stack[i]
        /\ Len(Below) = Len(stack) - 1 /\ Below[Len(Below)] = stack[Len(stack) - 1]
    BY Typed, PopTop DEF FrameOK, Below
  <1>. HIDE DEF t
  <1>2. /\ t # <<>> /\ HeapOK(heap, Len(caches)) /\ StackOK(heap, Len(arrays), stack)
        /\ Len(t) <= Len(stack) /\ g \in Seq(StructObject)
        /\ Len(caches) \in Nat /\ Len(arrays) \in Nat
    BY <1>1, Parts, Typed, EmptySeq DEF HeapOK
  <1>3. /\ \A i \in 1..Len(t) - 1 : t[i] = stack[i]
        /\ FrameOK(g, m, t[Len(t)]) /\ t[Len(t)].op = stack[Len(t)].op
        /\ t[Len(t)].obj = stack[Len(t)].obj /\ t[Len(t)].field = stack[Len(t)].field
    BY <1>1, <1>2, Typed
  <1>4. StackOK(g, m, t)
    BY ONLY <1>1, <1>2, <1>3, n \in Nat, m \in Nat, Len(arrays) <= m, Grows(heap, g), StackKept
  <1>. QED BY <1>1, <1>4 DEF t

\* A frame with other objects so far and yet to come.
WithOut(fr, out, left) == [fr EXCEPT !.out = out, !.left = left]

LEMMA WithOutOK ==
  ASSUME NEW h \in Seq(StructObject), NEW m \in Nat, NEW fr, FrameOK(h, m, fr), NEW out \in Seq(1..Len(h)),
         NEW left \in Nat, left > 0 => fr.left > 0
  PROVE  LET x == WithOut(fr, out, left)
         IN  /\ FrameOK(h, m, x) /\ x.op = fr.op /\ x.obj = fr.obj /\ x.field = fr.field
             /\ x.copy = fr.copy /\ x.paths = fr.paths /\ x.at = fr.at /\ x.last = fr.last
             /\ x.out = out /\ x.left = left
  <1>. DEFINE x == WithOut(fr, out, left)
  <1>1. fr \in Frame
    BY DEF FrameOK
  <1>2. out \in Seq(Nat)
    <2>1. 1..Len(h) \subseteq Nat
      OBVIOUS
    <2>. QED BY <2>1, SeqMonotonic
  <1>3. /\ x \in Frame /\ x.op = fr.op /\ x.obj = fr.obj /\ x.field = fr.field
        /\ x.copy = fr.copy /\ x.paths = fr.paths /\ x.at = fr.at /\ x.last = fr.last
        /\ x.out = out /\ x.left = left
    BY <1>1, <1>2 DEF Frame, WithOut
  <1>. HIDE DEF x
  <1>4. FrameOK(h, m, x)
    BY <1>3 DEF FrameOK
  <1>. QED BY <1>3, <1>4 DEF x

\* Nothing but one of the two changes.
LEMMA WithOutOne ==
  ASSUME NEW fr \in Frame
  PROVE  /\ \A n : [fr EXCEPT !.left = n] = WithOut(fr, fr.out, n)
         /\ \A s : [fr EXCEPT !.out = s] = WithOut(fr, s, fr.left)
         /\ \A s, n : [[fr EXCEPT !.left = n] EXCEPT !.out = s] = WithOut(fr, s, n)
  BY DEF Frame, WithOut

LEMMA ArrayParts ==
  ASSUME WellFormed, stack # <<>>, InArray(Top)
  PROVE  /\ Top.paths = <<>> /\ Top.left > 0 /\ Top.left \in Nat /\ Top.op \in {"get", "ref"}
         /\ Top.field \in Fields /\ KindOf(heap, Top.obj, Top.field) = "array"
         /\ DefOf(Top.obj, Top.field).of \in Structs
  <1>1. Top.paths = <<>> /\ Top.left > 0 /\ FrameOK(heap, Len(arrays), Top) /\ Top \in Frame
        /\ Top.obj \in 1..Len(heap)
    BY TopParts DEF InArray
  <1>2. /\ Top.left \in Nat /\ Top.op \in {"get", "ref"} /\ Top.field \in Fields
        /\ KindOf(heap, Top.obj, Top.field) = "array"
    BY <1>1, FrameParts DEF FrameOK
  <1>3. heap[Top.obj].struct \in Structs
    BY <1>1, Parts, ObjectType
  <1>. QED BY <1>1, <1>2, <1>3, ConstantTypes DEF DefOf

LEMMA NewObjectAdded ==
  ASSUME WellFormed, NEW s \in Structs
  PROVE  LET h == Append(heap, NewObject(s))
         IN  /\ HeapOK(h, Len(caches)) /\ Grows(heap, h) /\ Len(h) = Len(heap) + 1
             /\ h[Len(heap) + 1] = NewObject(s) /\ \A i \in 1..Len(heap) : h[i] = heap[i]
             /\ h \in Seq(StructObject)
  <1>1. /\ NewObject(s) \in StructObject /\ NewObject(s).orig = Len(heap) + 1
        /\ NewObject(s).cache = 0 /\ NewObject(s).parent = 0
    BY Typed DEF NewObject, StructObject
  <1>. DEFINE x == NewObject(s)
              h == Append(heap, x)
  <1>. HIDE DEF x
  <1>2. /\ HeapOK(heap, Len(caches)) /\ Len(caches) \in Nat /\ x \in StructObject
        /\ (x.orig = Len(heap) + 1 /\ x.cache = 0 /\ x.parent = 0) \/ \E o \in 1..Len(heap) : x = heap[heap[o].orig]
    BY <1>1, Parts DEF x
  <1>3. /\ HeapOK(h, Len(caches)) /\ Grows(heap, h) /\ Len(h) = Len(heap) + 1
        /\ h[Len(heap) + 1] = x /\ \A i \in 1..Len(heap) : h[i] = heap[i]
    BY ONLY <1>2, AddObject
  <1>. QED BY <1>3 DEF x, HeapOK

\* NextElement where the size of the struct s is fixed.
ElementFixed(s) ==
    LET x == WithOut(Top, Append(Top.out, Len(heap) + 1), Top.left - 1)
    IN  /\ SizeLambda[s] = <<>> /\ Len(heap') = Len(heap) + 1
        /\ FrameOK(heap', Len(arrays), x) /\ stack' = Append(Below, x)

\* NextElement where it is not, and the size comes first.
ElementMeasured(s) ==
    LET x == WithOut(Top, Top.out, Top.left - 1)
        h == Append(heap, NewObject(s))
        y == Start("size", h, Len(heap) + 1, "none", SizeLambda[s])
    IN  /\ SizeLambda[s] # <<>> /\ Len(heap') = Len(heap) + 2 /\ heap'[Len(heap) + 2] = NewObject(s)
        /\ FrameOK(heap', Len(arrays), x) /\ FrameOK(heap', Len(arrays), y)
        /\ stack' = Append(Append(Below, x), y)
        /\ y.op = "size" /\ y.obj = Len(heap) + 1 /\ y.field = "none" /\ y.paths = SizeLambda[s]
        /\ y.paths \in Lambda /\ y.copy = Len(heap) + 2 /\ y.at = Object(Len(heap) + 2)
        /\ y.last = Null /\ y.out = <<>>

LEMMA NextElementMoves ==
  ASSUME WellFormed, NextElement
  PROVE  /\ stack # <<>> /\ InArray(Top) /\ UNCHANGED <<caches, arrays, epoch, calls, held, answers>>
         /\ HeapOK(heap', Len(caches)) /\ Grows(heap, heap') /\ heap' \in Seq(StructObject)
         /\ \A i \in 1..Len(heap) : heap'[i] = heap[i]
         /\ LET s == DefOf(Top.obj, Top.field).of
            IN  /\ s \in Structs /\ heap'[Len(heap) + 1] = NewObject(s)
                /\ ElementFixed(s) \/ ElementMeasured(s)
  <1>1. stack # <<>> /\ InArray(Top) /\ UNCHANGED <<caches, arrays, epoch, calls, held, answers>>
    BY DEF NextElement
  <1>2. /\ FrameOK(heap, Len(arrays), Top) /\ Top \in Frame /\ Top.left \in Nat /\ Top.left > 0
        /\ Top.out \in Seq(1..Len(heap)) /\ Len(heap) \in Nat /\ Len(arrays) \in Nat
        /\ HeapOK(heap, Len(caches)) /\ Len(caches) \in Nat
    BY <1>1, TopParts, ArrayParts, Parts DEF FrameOK
  <1>. DEFINE s == DefOf(Top.obj, Top.field).of
              h == Append(heap, NewObject(s))
              a == Len(h)
              rest == [Top EXCEPT !.left = @ - 1]
              y == Start("size", h, Len(h), "none", SizeLambda[s])
  <1>3. s \in Structs
    BY <1>1, ArrayParts
  <1>4. IF SizeLambda[s] = <<>>
          THEN heap' = h /\ stack' = Append(Below, [rest EXCEPT !.out = Append(@, Len(h))])
          ELSE heap' = GetThis(h, Len(h)) /\ stack' = Append(Append(Below, rest), y)
    BY DEF NextElement, Element
  <1>. HIDE DEF s
  <1>5. /\ HeapOK(h, Len(caches)) /\ Grows(heap, h) /\ Len(h) = Len(heap) + 1
        /\ h[Len(heap) + 1] = NewObject(s) /\ \A i \in 1..Len(heap) : h[i] = heap[i]
        /\ h \in Seq(StructObject)
    BY <1>3, NewObjectAdded
  <1>. HIDE DEF h
  <1>6. rest = WithOut(Top, Top.out, Top.left - 1)
        /\ [rest EXCEPT !.out = Append(@, Len(h))] = WithOut(Top, Append(Top.out, Len(heap) + 1), Top.left - 1)
    BY <1>2, <1>5, WithOutOne DEF WithOut, Frame
  <1>. DEFINE z == [rest EXCEPT !.out = Append(@, Len(h))]
  <1>. HIDE DEF rest, z
  <1>7. CASE SizeLambda[s] = <<>>
    <2>1. heap' = h /\ stack' = Append(Below, z)
      BY <1>4, <1>7 DEF z
    <2>2. FrameOK(h, Len(arrays), Top)
      <3>1. Len(arrays) <= Len(arrays)
        BY <1>2
      <3>. QED BY ONLY <1>2, <1>5, <3>1, FrameGrows
    <2>3. FrameOK(h, Len(arrays), z)
      <3>1. Append(Top.out, Len(heap) + 1) \in Seq(1..Len(h))
        <4>1. Top.out \in Seq(1..Len(h))
          BY <2>2 DEF FrameOK
        <4>. QED BY <1>2, <1>5, <4>1
      <3>2. Top.left - 1 \in Nat
        BY <1>2
      <3>3. FrameOK(h, Len(arrays), WithOut(Top, Append(Top.out, Len(heap) + 1), Top.left - 1))
        BY <1>2, <1>5, <2>2, <3>1, <3>2, WithOutOK
      <3>. QED BY <1>6, <3>3 DEF z
    <2>4. ElementFixed(s)
      BY <1>5, <1>6, <1>7, <2>1, <2>3 DEF ElementFixed, z
    <2>. QED BY <1>1, <1>3, <1>5, <2>1, <2>4 DEF s
  <1>8. CASE SizeLambda[s] # <<>>
    <2>1. heap' = GetThis(h, Len(h)) /\ stack' = Append(Append(Below, rest), y)
      BY <1>4, <1>8
    <2>2. NewObject(s).struct = s /\ NewObject(s).orig = Len(heap) + 1
      BY DEF NewObject
    <2>3. Len(h) \in 1..Len(h) /\ h[Len(h)] = NewObject(s) /\ SizeLambda[h[Len(h)].struct] = SizeLambda[s]
          /\ h[h[Len(h)].orig] = NewObject(s)
      BY <1>2, <1>5, <2>2
    <2>4. /\ HeapOK(heap', Len(caches)) /\ Grows(h, heap') /\ Len(heap') = Len(h) + 1
          /\ heap'[Len(heap')] = h[h[Len(h)].orig] /\ \A i \in 1..Len(h) : heap'[i] = h[i]
          /\ FrameOK(heap', Len(arrays), y) /\ y.op = "size" /\ y.obj = Len(h) /\ y.field = "none"
          /\ y.paths = SizeLambda[s] /\ y.paths \in Lambda
          /\ y.copy = Len(heap') /\ y.at = Object(Len(heap')) /\ y.last = Null /\ y.out = <<>>
      <3>. DEFINE o == Len(h)
                  g == GetThis(h, o)
                  z2 == Start("size", h, o, "none", SizeLambda[h[o].struct])
      <3>1. o \in 1..Len(h) /\ SizeLambda[h[o].struct] # <<>> /\ HeapOK(h, Len(caches)) /\ Len(arrays) \in Nat
        BY <1>2, <1>5, <1>8, <2>3
      <3>2. z2 = y /\ g = heap'
        BY <2>1, <2>3
      <3>. HIDE DEF o, y
      <3>3. /\ HeapOK(g, Len(caches)) /\ Grows(h, g) /\ Len(g) = Len(h) + 1
            /\ g[Len(g)] = h[h[o].orig] /\ \A i \in 1..Len(h) : g[i] = h[i]
            /\ FrameOK(g, Len(arrays), z2) /\ z2.op = "size" /\ z2.obj = o /\ z2.field = "none"
            /\ z2.paths = SizeLambda[h[o].struct] /\ z2.paths \in Lambda
            /\ z2.copy = Len(g) /\ z2.at = Object(Len(g)) /\ z2.last = Null /\ z2.out = <<>>
        BY ONLY WellFormed, <3>1, MeasureMoves
      <3>. HIDE DEF g, z2
      <3>. QED BY <2>3, <3>2, <3>3 DEF o
    <2>. HIDE DEF y
    <2>5. heap' \in Seq(StructObject) /\ Grows(heap, heap')
      BY <1>2, <1>5, <2>4, GrowsTransitive DEF HeapOK
    <2>6. FrameOK(heap', Len(arrays), Top)
      <3>1. Len(arrays) <= Len(arrays)
        BY <1>2
      <3>. QED BY ONLY <1>2, <2>5, <3>1, FrameGrows
    <2>7. FrameOK(heap', Len(arrays), rest)
      <3>1. Top.left - 1 \in Nat /\ Top.out \in Seq(1..Len(heap'))
        BY <1>2, <2>6 DEF FrameOK
      <3>2. FrameOK(heap', Len(arrays), WithOut(Top, Top.out, Top.left - 1))
        BY <1>2, <2>5, <2>6, <3>1, WithOutOK
      <3>. QED BY <1>6, <3>2
    <2>8. /\ Len(heap') = Len(heap) + 2 /\ heap'[Len(heap) + 2] = NewObject(s)
          /\ heap'[Len(heap) + 1] = NewObject(s) /\ \A i \in 1..Len(heap) : heap'[i] = heap[i]
      BY <1>2, <1>5, <2>3, <2>4
    <2>9. ElementMeasured(s)
      <3>1. y = Start("size", Append(heap, NewObject(s)), Len(heap) + 1, "none", SizeLambda[s])
        BY <1>5 DEF y, h
      <3>2. /\ y.obj = Len(heap) + 1 /\ y.copy = Len(heap) + 2 /\ y.at = Object(Len(heap) + 2)
        BY <1>2, <1>5, <2>4, <2>8
      <3>. QED BY <1>6, <1>8, <2>1, <2>4, <2>7, <2>8, <3>1, <3>2 DEF ElementMeasured
    <2>. QED BY <1>1, <1>3, <2>4, <2>5, <2>8, <2>9 DEF s
  <1>. QED BY <1>7, <1>8

LEMMA NextElementWF == WellFormed /\ NextElement => WellFormed'
  <1>. SUFFICES ASSUME WellFormed, NextElement PROVE WellFormed'
    OBVIOUS
  <1>. DEFINE s == DefOf(Top.obj, Top.field).of
  <1>1. /\ stack # <<>> /\ InArray(Top) /\ UNCHANGED <<caches, arrays, epoch, calls, held, answers>>
        /\ HeapOK(heap', Len(caches)) /\ Grows(heap, heap')
        /\ ElementFixed(s) \/ ElementMeasured(s)
    BY NextElementMoves
  <1>. HIDE DEF s
  <1>2. /\ Len(heap) \in Nat /\ Len(heap') \in Nat /\ Len(heap) <= Len(heap') /\ Len(caches) \in Nat
        /\ Len(arrays) \in Nat /\ Len(arrays) <= Len(arrays) /\ Top.left \in Nat /\ Top.left > 0
        /\ FrameOK(heap, Len(arrays), Top) /\ Top.out \in Seq(1..Len(heap))
        /\ heap \in Seq(StructObject)
    BY <1>1, Parts, TopParts, ArrayParts DEF HeapOK, Grows, FrameOK
  <1>3. CachesOK(Len(heap'), Len(arrays), caches)
    <2>1. CachesOK(Len(heap), Len(arrays), caches)
      BY Parts
    <2>. QED BY ONLY <1>2, <2>1, CachesGrow
  <1>4. ArraysOK(Len(heap'), arrays) /\ held \subseteq 1..Len(heap')
    BY <1>1, <1>2, StackStays
  <1>5. ASSUME NEW x, FrameOK(heap', Len(arrays), x), x.op = Top.op, x.obj = Top.obj, x.field = Top.field
        PROVE  /\ StackOK(heap', Len(arrays), Append(Below, x))
               /\ Len(Append(Below, x)) = Len(stack) /\ Append(Below, x)[Len(stack)] = x
    BY ONLY WellFormed, <1>1, <1>2, <1>5, TopMovesIn
  <1>6. Top \in Frame
    BY <1>1, TopParts
  <1>7. CASE ElementFixed(s)
    <2>. DEFINE x == WithOut(Top, Append(Top.out, Len(heap) + 1), Top.left - 1)
    <2>1. FrameOK(heap', Len(arrays), x) /\ stack' = Append(Below, x)
      BY <1>7 DEF ElementFixed
    <2>2. x.op = Top.op /\ x.obj = Top.obj /\ x.field = Top.field
      BY <1>6 DEF WithOut, Frame
    <2>. HIDE DEF x
    <2>3. StackOK(heap', Len(arrays), stack')
      BY <1>5, <2>1, <2>2
    <2>. QED BY <1>1, <1>3, <1>4, <2>3, Parts DEF WellFormed
  <1>8. CASE ElementMeasured(s)
    <2>. DEFINE x == WithOut(Top, Top.out, Top.left - 1)
                y == Start("size", Append(heap, NewObject(s)), Len(heap) + 1, "none", SizeLambda[s])
    <2>1. FrameOK(heap', Len(arrays), x) /\ FrameOK(heap', Len(arrays), y)
          /\ stack' = Append(Append(Below, x), y) /\ y.op = "size"
      BY <1>8 DEF ElementMeasured
    <2>2. x.op = Top.op /\ x.obj = Top.obj /\ x.field = Top.field /\ x.paths = Top.paths
      BY <1>6 DEF WithOut, Frame
    <2>. HIDE DEF x, y
    <2>. DEFINE t == Append(Below, x)
    <2>3. StackOK(heap', Len(arrays), t) /\ Len(t) = Len(stack) /\ t[Len(stack)] = x
      BY <1>5, <2>1, <2>2
    <2>. HIDE DEF t
    <2>4. Awaits(heap', t[Len(t)], y)
      <3>1. KindOf(heap', Top.obj, Top.field) = "array"
        BY <1>1, ArrayParts, TopParts DEF KindOf, Grows
      <3>. QED BY <1>1, <2>1, <2>2, <2>3, <3>1, ArrayParts DEF Awaits
    <2>5. StackOK(heap', Len(arrays), Append(t, y))
      BY ONLY <1>2, <2>1, <2>3, <2>4, StackPushed
    <2>. QED BY <1>1, <1>3, <1>4, <2>1, <2>5, Parts DEF WellFormed, t
  <1>. QED BY <1>1, <1>7, <1>8

LEMMA EncodeMoves ==
  ASSUME WellFormed, Encode
  PROVE  LET x == WithOut(Top, Tail(Top.out), Top.left)
             y == Marshal(heap, Head(Top.out))
         IN  /\ stack # <<>> /\ Top.op = "json" /\ Top.paths = <<>> /\ Top.out # <<>>
             /\ UNCHANGED <<heap, caches, arrays, epoch, calls, held, answers>>
             /\ Head(Top.out) \in 1..Len(heap) /\ Tail(Top.out) \in Seq(1..Len(heap))
             /\ FrameOK(heap, Len(arrays), x) /\ stack' = Append(Append(Below, x), y)
             /\ x.op = "json" /\ x.obj = Top.obj /\ x.field = Top.field /\ x.paths = <<>>
             /\ FrameOK(heap, Len(arrays), y) /\ y.op = "json" /\ y.obj = Head(Top.out)
  <1>. DEFINE x == WithOut(Top, Tail(Top.out), Top.left)
              y == Marshal(heap, Head(Top.out))
  <1>1. stack # <<>> /\ Top.op = "json" /\ Top.paths = <<>> /\ Top.out # <<>>
        /\ UNCHANGED <<heap, caches, arrays, epoch, calls, held, answers>>
        /\ stack' = Append(Append(Below, [Top EXCEPT !.out = Tail(Top.out)]), y)
    BY DEF Encode
  <1>2. FrameOK(heap, Len(arrays), Top) /\ Top \in Frame /\ Top.out \in Seq(1..Len(heap))
        /\ Top.left \in Nat /\ heap \in Seq(StructObject) /\ Len(arrays) \in Nat
    BY <1>1, TopParts, FrameParts, Typed DEF FrameOK
  <1>3. [Top EXCEPT !.out = Tail(Top.out)] = x
    BY <1>2, WithOutOne
  <1>4. Head(Top.out) \in 1..Len(heap) /\ Tail(Top.out) \in Seq(1..Len(heap))
    BY <1>1, <1>2, HeadTailProperties
  <1>5. FrameOK(heap, Len(arrays), x) /\ x.op = "json" /\ x.obj = Top.obj /\ x.field = Top.field
        /\ x.paths = <<>>
    <2>1. Top.left > 0 => Top.left > 0
      OBVIOUS
    <2>. DEFINE out == Tail(Top.out)
                z == WithOut(Top, out, Top.left)
    <2>. HIDE DEF out
    <2>2. out \in Seq(1..Len(heap))
      BY <1>4 DEF out
    <2>3. FrameOK(heap, Len(arrays), z) /\ z.op = Top.op /\ z.obj = Top.obj /\ z.field = Top.field
          /\ z.paths = Top.paths
      BY ONLY <1>2, <2>1, <2>2, WithOutOK
    <2>. QED BY <1>1, <2>3 DEF out
  <1>6. FrameOK(heap, Len(arrays), y) /\ y.op = "json" /\ y.obj = Head(Top.out)
    BY <1>4, MarshalMoves
  <1>. HIDE DEF x, y
  <1>7. stack' = Append(Append(Below, x), y)
    BY <1>1, <1>3
  <1>. QED BY <1>1, <1>4, <1>5, <1>6, <1>7 DEF x, y

LEMMA EncodeWF == WellFormed /\ Encode => WellFormed'
  <1>. SUFFICES ASSUME WellFormed, Encode PROVE WellFormed'
    OBVIOUS
  <1>. DEFINE x == WithOut(Top, Tail(Top.out), Top.left)
              y == Marshal(heap, Head(Top.out))
              t == Append(Below, x)
  <1>1. /\ stack # <<>> /\ UNCHANGED <<heap, caches, arrays, epoch, calls, held, answers>>
        /\ FrameOK(heap, Len(arrays), x) /\ stack' = Append(t, y)
        /\ x.op = "json" /\ x.op = Top.op /\ x.obj = Top.obj /\ x.field = Top.field /\ x.paths = <<>>
        /\ FrameOK(heap, Len(arrays), y) /\ y.op = "json"
    BY EncodeMoves
  <1>. HIDE DEF x, y
  <1>2. StackOK(heap, Len(arrays), t) /\ Len(t) = Len(stack) /\ t[Len(stack)] = x
    BY <1>1, TopMoves
  <1>. HIDE DEF t
  <1>3. Awaits(heap, t[Len(t)], y)
    BY <1>1, <1>2 DEF Awaits
  <1>4. StackOK(heap, Len(arrays), Append(t, y))
    BY <1>1, <1>2, <1>3, Parts, StackPushed
  <1>. QED BY <1>1, <1>4, OnlyStack DEF WellFormed

-----------------------------------------------------------------------------
(* Finish.                                                                 *)

\* The heap with the struct that was parsed, and the value.
MadeHeap ==
    IF Kind(Top) = "struct" THEN Append(heap, NewObject(DefOf(Top.obj, Top.field).of)) ELSE heap
Result == Parsed(Top, MadeHeap)

\* The structs whose parent becomes the object of the top.
Taken == IF Top.op = "get" THEN Adopted(Result) ELSE {}

LEMMA KindParts ==
  ASSUME WellFormed, stack # <<>>
  PROVE  /\ Top.op = "size" => Kind(Top) = "size"
         /\ Top.op = "json" => Kind(Top) = "json"
         /\ Top.op \in {"get", "ref"} => /\ Kind(Top) = KindOf(heap, Top.obj, Top.field)
                                         /\ Kind(Top) \in {"int", "struct", "array", "value"}
                                         /\ Top.field \in Fields
                                         /\ DefOf(Top.obj, Top.field).of \in Structs
         /\ Top.op \in {"get", "ref", "size", "json"}
  <1>1. FrameOK(heap, Len(arrays), Top) /\ Top \in Frame /\ Top.obj \in 1..Len(heap)
    BY TopParts
  <1>2. heap[Top.obj].struct \in Structs
    BY <1>1, Parts, ObjectType
  <1>3. Top.op \in {"get", "ref"} =>
          /\ Top.field \in Fields /\ KindOf(heap, Top.obj, Top.field) # "absent"
          /\ KindOf(heap, Top.obj, Top.field) \in {"absent", "int", "struct", "array", "value"}
          /\ DefOf(Top.obj, Top.field).of \in Structs
    BY <1>1, <1>2, ConstantTypes DEF FrameOK, KindOf, DefOf
  <1>. QED BY <1>1, <1>3, FrameParts DEF Kind, KindOf, DefOf

LEMMA MadeHeapOK ==
  ASSUME WellFormed, stack # <<>>
  PROVE  /\ HeapOK(MadeHeap, Len(caches)) /\ Grows(heap, MadeHeap)
         /\ MadeHeap \in Seq(StructObject)
         /\ \A i \in 1..Len(heap) : MadeHeap[i] = heap[i]
         /\ Kind(Top) # "struct" => Len(MadeHeap) = Len(heap)
         /\ Kind(Top) = "struct" =>
               /\ Len(MadeHeap) = Len(heap) + 1 /\ Top.op \in {"get", "ref"}
               /\ MadeHeap[Len(heap) + 1] = NewObject(DefOf(Top.obj, Top.field).of)
  <1>1. CASE Kind(Top) = "struct"
    <2>1. DefOf(Top.obj, Top.field).of \in Structs /\ Top.op \in {"get", "ref"}
      BY <1>1, KindParts
    <2>. DEFINE s == DefOf(Top.obj, Top.field).of
    <2>2. MadeHeap = Append(heap, NewObject(s))
      BY <1>1 DEF MadeHeap
    <2>. HIDE DEF s
    <2>3. s \in Structs
      BY <2>1 DEF s
    <2>. DEFINE h == Append(heap, NewObject(s))
    <2>4. /\ HeapOK(h, Len(caches)) /\ Grows(heap, h) /\ Len(h) = Len(heap) + 1
          /\ h[Len(heap) + 1] = NewObject(s) /\ \A i \in 1..Len(heap) : h[i] = heap[i]
          /\ h \in Seq(StructObject)
      BY <2>3, NewObjectAdded
    <2>. HIDE DEF h
    <2>. QED BY <1>1, <2>1, <2>2, <2>4 DEF h, s
  <1>2. CASE Kind(Top) # "struct"
    BY <1>2, Parts, Typed, GrowsSelf DEF MadeHeap
  <1>. QED BY <1>1, <1>2

LEMMA ResultParts ==
  ASSUME WellFormed, stack # <<>>
  PROVE  /\ Kind(Top) = "int" => Result.type = "int" /\ Result.off = Top.last.at
         /\ Kind(Top) = "struct" => Result = Object(Len(heap) + 1)
         /\ Kind(Top) = "array" => Result = Array(Len(arrays) + 1)
         /\ Kind(Top) = "value" => Result = Top.last
         /\ Kind(Top) = "size" => Result = (IF NonZero(Top.last) THEN Top.last ELSE Null)
         /\ Kind(Top) = "json" => Result = Null
         /\ Result # Unset
         /\ ValueOK(Len(MadeHeap), IF Kind(Top) = "array" THEN Len(arrays) + 1 ELSE Len(arrays), Result)
  <1>1. /\ Len(heap) \in Nat /\ Len(arrays) \in Nat /\ epoch \in Nat
        /\ ValueOK(Len(heap), Len(arrays), Top.last) /\ Top.last # Unset /\ Top.last.at \in Nat
        /\ Kind(Top) \in {"int", "struct", "array", "value", "size", "json"}
        /\ Len(MadeHeap) \in Nat /\ Len(heap) <= Len(MadeHeap)
    BY Typed, TopParts, KindParts, MadeHeapOK, ValueParts DEF FrameOK, ValueOK, Grows
  <1>2. CASE Kind(Top) = "int"
    <2>. DEFINE t == IF epoch \in Unreadable THEN 0 ELSE epoch
    <2>1. t \in Nat /\ Result = Number(t, Top.last.at)
      BY <1>1, <1>2 DEF Result, Parsed
    <2>. HIDE DEF t
    <2>. QED BY <1>1, <1>2, <2>1, ValueTypes DEF ValueOK
  <1>3. CASE Kind(Top) = "struct"
    <2>1. Result = Object(Len(heap) + 1) /\ Len(MadeHeap) = Len(heap) + 1
      BY <1>3, MadeHeapOK DEF Result, Parsed
    <2>2. ValueOK(Len(MadeHeap), Len(arrays), Result) /\ Result # Unset
      BY <1>1, <2>1, ValueTypes DEF ValueOK
    <2>. QED BY <1>3, <2>1, <2>2
  <1>4. CASE Kind(Top) = "array"
    <2>1. Result = Array(Len(arrays) + 1)
      BY <1>4 DEF Result, Parsed
    <2>2. ValueOK(Len(MadeHeap), Len(arrays) + 1, Result) /\ Result # Unset
      BY <1>1, <2>1, ValueTypes DEF ValueOK
    <2>. QED BY <1>4, <2>1, <2>2
  <1>5. ValueOK(Len(MadeHeap), Len(arrays), Top.last) /\ ValueOK(Len(MadeHeap), Len(arrays), Null) /\ Null # Unset
    BY <1>1, ValueTypes DEF ValueOK
  <1>6. CASE Kind(Top) = "value"
    <2>1. Result = Top.last
      BY <1>6 DEF Result, Parsed
    <2>. QED BY <1>1, <1>5, <1>6, <2>1
  <1>7. CASE Kind(Top) = "size"
    <2>1. Result = (IF NonZero(Top.last) THEN Top.last ELSE Null)
      BY <1>7 DEF Result, Parsed
    <2>. QED BY <1>1, <1>5, <1>7, <2>1
  <1>8. CASE Kind(Top) = "json"
    <2>1. Result = Null
      BY <1>8 DEF Result, Parsed
    <2>. QED BY <1>5, <1>8, <2>1
  <1>. QED BY <1>1, <1>2, <1>3, <1>4, <1>6, <1>7, <1>8

LEMMA FinishHeap ==
  ASSUME WellFormed, Finish
  PROVE  /\ stack # <<>> /\ Top.paths = <<>> /\ ~InArray(Top) /\ UNCHANGED <<epoch, calls>>
         /\ Top.op = "json" => Top.out = <<>>
         /\ HeapOK(heap', Len(caches)) /\ Grows(heap, heap') /\ heap' \in Seq(StructObject)
         /\ Len(heap') = Len(MadeHeap)
         /\ \A i \in 1..Len(heap) : heap'[i].cache = heap[i].cache
         /\ Kind(Top) = "struct" => heap'[Len(heap) + 1].cache = 0
         /\ \A i \in 1..Len(heap') :
               /\ heap'[i].parent = IF i \in Taken THEN Top.obj ELSE MadeHeap[i].parent
               /\ heap'[i].orig = MadeHeap[i].orig /\ heap'[i].struct = MadeHeap[i].struct
  <1>1. /\ stack # <<>> /\ Top.paths = <<>> /\ ~InArray(Top) /\ UNCHANGED <<epoch, calls>>
        /\ Top.op = "json" => Top.out = <<>>
        /\ heap' = Adopt(MadeHeap, Top, Result)
    BY DEF Finish, MadeHeap, Result
  <1>. DEFINE h == MadeHeap
              g == WithParents(h, Taken, Top.obj)
  <1>2. heap' = g
    BY <1>1 DEF Adopt, Taken, WithParents
  <1>3. /\ HeapOK(h, Len(caches)) /\ Grows(heap, h) /\ h \in Seq(StructObject)
        /\ \A i \in 1..Len(heap) : h[i] = heap[i]
        /\ Kind(Top) # "struct" => Len(h) = Len(heap)
        /\ Kind(Top) = "struct" =>
               Len(h) = Len(heap) + 1 /\ h[Len(heap) + 1] = NewObject(DefOf(Top.obj, Top.field).of)
    BY <1>1, MadeHeapOK
  <1>. HIDE DEF h
  <1>4. Len(heap) \in Nat /\ Len(caches) \in Nat /\ Len(heap) <= Len(h) /\ Len(h) \in Nat
    BY <1>3, Parts DEF Grows
  <1>5. Top.obj \in 1..Len(h)
    BY <1>1, <1>4, TopParts
  <1>6. /\ HeapOK(g, Len(caches)) /\ Grows(h, g) /\ Len(g) = Len(h)
        /\ \A i \in 1..Len(h) :
              /\ g[i].cache = h[i].cache
              /\ g[i].parent = IF i \in Taken THEN Top.obj ELSE h[i].parent
    <2>1. Top.obj \in 1..Len(h) /\ HeapOK(h, Len(caches)) /\ Len(caches) \in Nat
      BY <1>3, <1>4, <1>5
    <2>. QED BY ONLY <2>1, SetParents
  <1>. HIDE DEF g
  <1>7. heap' \in Seq(StructObject) /\ Grows(heap, heap')
    BY <1>2, <1>3, <1>6, Typed, GrowsTransitive DEF HeapOK
  <1>8. \A i \in 1..Len(heap) : i \in 1..Len(h)
    BY <1>4
  <1>9. Kind(Top) = "struct" => heap'[Len(heap) + 1].cache = 0
    BY <1>2, <1>3, <1>4, <1>6 DEF NewObject
  <1>10. \A i \in 1..Len(heap') : /\ heap'[i].orig = h[i].orig /\ heap'[i].struct = h[i].struct
                                  /\ heap'[i].parent = IF i \in Taken THEN Top.obj ELSE h[i].parent
    BY <1>2, <1>4, <1>6 DEF Grows
  <1>. QED BY <1>1, <1>2, <1>3, <1>6, <1>7, <1>8, <1>9, <1>10 DEF h

LEMMA FinishArrays ==
  ASSUME WellFormed, Finish
  PROVE  /\ Len(arrays) <= Len(arrays') /\ Len(arrays') \in Nat
         /\ \A a \in 1..Len(arrays) : arrays'[a] = arrays[a]
         /\ Kind(Top) # "array" => arrays' = arrays
         /\ Kind(Top) = "array" => Len(arrays') = Len(arrays) + 1 /\ arrays'[Len(arrays) + 1] = Top.out
         /\ ArraysOK(Len(heap'), arrays') /\ Top.out \in Seq(1..Len(heap))
         /\ ValueOK(Len(heap'), Len(arrays'), Result) /\ Result # Unset
  <1>1. /\ stack # <<>> /\ Len(heap') = Len(MadeHeap) /\ Grows(heap, heap') /\ heap' \in Seq(StructObject)
        /\ arrays' = IF Kind(Top) = "array" THEN Append(arrays, Top.out) ELSE arrays
    BY FinishHeap DEF Finish
  <1>2. /\ Len(heap) \in Nat /\ Len(heap') \in Nat /\ Len(heap) <= Len(heap') /\ Len(arrays) \in Nat
        /\ ArraysOK(Len(heap), arrays) /\ Top.out \in Seq(1..Len(heap)) /\ Top.out \in Seq(Nat)
    BY <1>1, Parts, TopParts, FrameParts DEF Grows, FrameOK
  <1>3. ArraysOK(Len(heap'), arrays)
    BY <1>2, ArraysGrow
  <1>4. Top.out \in Seq(1..Len(heap'))
    <2>1. 1..Len(heap) \subseteq 1..Len(heap')
      BY <1>2
    <2>. QED BY <1>2, <2>1, SeqMonotonic
  <1>5. Result # Unset /\ ValueOK(Len(heap'), IF Kind(Top) = "array" THEN Len(arrays) + 1 ELSE Len(arrays), Result)
    BY <1>1, ResultParts
  <1>6. CASE Kind(Top) = "array"
    <2>1. arrays' = Append(arrays, Top.out) /\ arrays \in Seq(Seq(1..Len(heap')))
      BY <1>1, <1>3, <1>6 DEF ArraysOK
    <2>2. /\ Len(arrays') = Len(arrays) + 1 /\ arrays'[Len(arrays) + 1] = Top.out
          /\ \A a \in 1..Len(arrays) : arrays'[a] = arrays[a]
          /\ arrays' \in Seq(Seq(1..Len(heap')))
      BY <1>4, <2>1, AppendProperties
    <2>. QED BY <1>2, <1>5, <1>6, <2>2 DEF ArraysOK
  <1>7. CASE Kind(Top) # "array"
    BY <1>1, <1>2, <1>3, <1>5, <1>7
  <1>. QED BY <1>6, <1>7

LEMMA FinishCaches ==
  ASSUME WellFormed, Finish
  PROVE  /\ Len(caches') = Len(caches) /\ CachesOK(Len(heap'), Len(arrays'), caches')
         /\ Top.op = "get" => heap[Top.obj].cache \in 1..Len(caches) /\ Top.field \in Fields
         /\ \A c \in 1..Len(caches), f \in Fields : caches'[c][f] =
               IF Top.op = "get" /\ c = heap[Top.obj].cache /\ f = Top.field THEN Result
               ELSE caches[c][f]
  <1>. DEFINE c0 == heap[Top.obj].cache
              f0 == Top.field
              v == Result
              row == [caches[c0] EXCEPT ![f0] = v]
  <1>1. /\ stack # <<>> /\ Len(heap') = Len(MadeHeap) /\ Grows(heap, heap') /\ heap' \in Seq(StructObject)
        /\ caches' = IF Top.op = "get" THEN [caches EXCEPT ![c0] = row] ELSE caches
    BY FinishHeap DEF Finish, Result, MadeHeap
  <1>2. /\ Len(heap) \in Nat /\ Len(heap') \in Nat /\ Len(heap) <= Len(heap') /\ Len(arrays) \in Nat
        /\ Len(arrays') \in Nat /\ Len(arrays) <= Len(arrays') /\ CachesOK(Len(heap), Len(arrays), caches)
        /\ ValueOK(Len(heap'), Len(arrays'), v)
    BY <1>1, Parts, FinishArrays DEF Grows
  <1>3. CachesOK(Len(heap'), Len(arrays'), caches)
    BY ONLY <1>2, CachesGrow
  <1>4. Top.op = "get" => c0 \in 1..Len(caches) /\ f0 \in Fields
    <2>. SUFFICES ASSUME Top.op = "get" PROVE c0 \in 1..Len(caches) /\ f0 \in Fields
      OBVIOUS
    <2>1. c0 # 0 /\ f0 \in Fields /\ Top.obj \in 1..Len(heap)
      BY <1>1, TopParts DEF FrameOK
    <2>2. c0 \in 0..Len(caches) /\ Len(caches) \in Nat
      BY <2>1, Parts, ObjectType
    <2>. QED BY <2>1, <2>2
  <1>. HIDE DEF c0, f0, v
  <1>5. CASE Top.op = "get"
    <2>1. caches \in Seq([Fields -> Value]) /\ v \in Value /\ caches[c0] \in [Fields -> Value]
      BY <1>2, <1>4, <1>5 DEF CachesOK, ValueOK
    <2>2. row \in [Fields -> Value] /\ \A f \in Fields : row[f] = IF f = f0 THEN v ELSE caches[c0][f]
      BY <1>4, <1>5, <2>1
    <2>. HIDE DEF row
    <2>3. caches' = [caches EXCEPT ![c0] = row]
      BY <1>1, <1>5
    <2>4. /\ caches' \in Seq([Fields -> Value]) /\ Len(caches') = Len(caches)
          /\ \A c \in 1..Len(caches) : caches'[c] = IF c = c0 THEN row ELSE caches[c]
      BY <1>4, <1>5, <2>1, <2>2, <2>3, ExceptSeq
    <2>5. \A c \in 1..Len(caches), f \in Fields : caches'[c][f] =
               IF c = c0 /\ f = f0 THEN v ELSE caches[c][f]
      BY <2>2, <2>4
    <2>6. CachesOK(Len(heap'), Len(arrays'), caches')
      BY <1>2, <1>3, <2>4, <2>5 DEF CachesOK
    <2>. QED BY <1>4, <1>5, <2>4, <2>5, <2>6 DEF c0, f0, v
  <1>6. CASE Top.op # "get"
    BY <1>1, <1>3, <1>6
  <1>. QED BY <1>5, <1>6

\* The evaluation lo goes on as x when that of the top has ended.
Returned(lo, x) ==
    \/ Top.op = "json" /\ x = lo
    \/ Top.op = "size" /\ Result = Null /\ x = WithOut(lo, lo.out, 0)
    \/ Top.op = "size" /\ Result # Null /\ x = WithOut(lo, Append(lo.out, Top.obj), lo.left)
    \/ Top.op = "get" /\ lo.paths # <<>> /\ Head(lo.paths) # <<>> /\ x = Moved(lo, Result)

LEMMA ResumedMoves ==
  ASSUME WellFormed, Finish, Len(stack) > 1
  PROVE  LET lo == stack[Len(stack) - 1]
             x == Resumed(lo, Top, Result)
         IN  /\ Awaits(heap, lo, Top) /\ FrameOK(heap, Len(arrays), lo) /\ Returned(lo, x)
             /\ FrameOK(heap', Len(arrays'), x)
             /\ x.op = lo.op /\ x.obj = lo.obj /\ x.field = lo.field /\ x.copy = lo.copy
             /\ x.last = lo.last
  <1>. DEFINE lo == stack[Len(stack) - 1]
              x == Resumed(lo, Top, Result)
              h == heap'
              m == Len(arrays')
              v == Result
  <1>1. /\ stack # <<>> /\ Len(stack) \in Nat /\ StackOK(heap, Len(arrays), stack)
        /\ Top = stack[Len(stack)] /\ HeapOK(heap, Len(caches)) /\ Len(caches) \in Nat /\ Len(heap) \in Nat
    BY FinishHeap, Typed, TopParts, Parts
  <1>2. Awaits(heap, lo, Top) /\ FrameOK(heap, Len(arrays), lo)
    <2>1. Len(stack) \in 1..Len(stack) /\ Len(stack) - 1 \in 1..Len(stack)
      BY <1>1
    <2>. QED BY <1>1, <2>1 DEF StackOK
  <1>3. /\ Len(arrays) \in Nat /\ m \in Nat /\ Len(arrays) <= m
        /\ h \in Seq(StructObject) /\ Grows(heap, h) /\ ValueOK(Len(h), m, v) /\ v # Unset
        /\ Len(h) \in Nat
    BY FinishHeap, FinishArrays, Parts
  <1>. HIDE DEF lo, h, m, v
  <1>4. FrameOK(h, m, lo) /\ lo \in Frame /\ lo.out \in Seq(1..Len(h)) /\ lo.left \in Nat
    <2>1. FrameOK(h, m, lo)
      BY ONLY <1>1, <1>2, <1>3, FrameGrows
    <2>. QED BY <2>1, FrameParts DEF FrameOK
  <1>5. CASE Top.op = "json"
    <2>1. x = lo
      BY <1>5 DEF Resumed
    <2>. HIDE DEF x
    <2>2. Returned(lo, x)
      BY <1>5, <2>1 DEF Returned
    <2>. QED BY <1>2, <1>4, <2>1, <2>2 DEF lo, x, h, m, v
  <1>6. CASE Top.op = "size" /\ v = Null
    <2>. DEFINE z == WithOut(lo, lo.out, 0)
    <2>1. x = z
      BY <1>4, <1>6, WithOutOne DEF Resumed, v
    <2>2. /\ FrameOK(h, m, z) /\ z.op = lo.op /\ z.obj = lo.obj /\ z.field = lo.field
          /\ z.copy = lo.copy /\ z.last = lo.last
      BY <1>3, <1>4, WithOutOK
    <2>. HIDE DEF x, z
    <2>3. Returned(lo, x)
      BY <1>6, <2>1 DEF Returned, z, v
    <2>. QED BY <1>2, <2>1, <2>2, <2>3 DEF lo, x, h, m, v
  <1>7. CASE Top.op = "size" /\ v # Null
    <2>. DEFINE out == Append(lo.out, Top.obj)
                z == WithOut(lo, out, lo.left)
    <2>1. x = z
      BY <1>4, <1>7, WithOutOne DEF Resumed, v
    <2>2. out \in Seq(1..Len(h))
      <3>1. Top.obj \in 1..Len(heap) /\ Len(heap) <= Len(h)
        BY <1>1, <1>3, TopParts DEF Grows
      <3>. QED BY <1>1, <1>3, <1>4, <3>1
    <2>. HIDE DEF out
    <2>3. /\ FrameOK(h, m, z) /\ z.op = lo.op /\ z.obj = lo.obj /\ z.field = lo.field
          /\ z.copy = lo.copy /\ z.last = lo.last
      <3>1. lo.left > 0 => lo.left > 0
        OBVIOUS
      <3>. QED BY ONLY <1>3, <1>4, <2>2, <3>1, WithOutOK
    <2>. HIDE DEF x, z
    <2>4. Returned(lo, x)
      BY <1>7, <2>1 DEF Returned, z, v, out
    <2>. QED BY <1>2, <2>1, <2>3, <2>4 DEF lo, x, h, m, v
  <1>8. CASE Top.op = "get"
    <2>1. x = Moved(lo, v) /\ lo.paths # <<>> /\ Head(lo.paths) # <<>>
      BY <1>2, <1>8 DEF Resumed, Awaits, v
    <2>. HIDE DEF x
    <2>. DEFINE z == Moved(lo, v)
    <2>2. FrameOK(h, m, z) /\ z.op = lo.op /\ z.obj = lo.obj /\ z.field = lo.field
          /\ z.copy = lo.copy /\ z.last = lo.last
      BY ONLY <1>3, <1>4, <2>1, MovedOK
    <2>. HIDE DEF z
    <2>3. Returned(lo, x) /\ x = z
      BY <1>8, <2>1 DEF Returned, v, z
    <2>. QED BY <1>2, <2>2, <2>3 DEF lo, x, h, m, v
  <1>9. Top.op \in {"get", "size", "json"}
    BY <1>2 DEF Awaits
  <1>. QED BY <1>5, <1>6, <1>7, <1>8, <1>9

LEMMA FinishStack ==
  ASSUME WellFormed, Finish
  PROVE  /\ StackOK(heap', Len(arrays'), stack')
         /\ Len(stack) = 1 =>
               /\ stack' = <<>> /\ held' = Holding(Result)
               /\ answers' = IF Top.op = "get"
                               THEN answers \cup {<<<<heap[Top.obj].orig, Top.field>>, Result>>}
                               ELSE answers
         /\ Len(stack) # 1 =>
               /\ Len(stack) > 1 /\ Len(stack') = Len(stack) - 1 /\ UNCHANGED <<held, answers>>
               /\ stack'[Len(stack) - 1] = Resumed(stack[Len(stack) - 1], Top, Result)
               /\ \A i \in 1..Len(stack) - 2 : stack'[i] = stack[i]
  <1>0. stack # <<>> /\ Len(stack) \in Nat /\ Len(stack) > 0
    BY FinishHeap, TopParts, Typed
  <1>1. Deliver(Top, Result)
    BY DEF Finish, Result, MadeHeap
  <1>2. /\ HeapOK(heap', Len(caches)) /\ Len(caches) \in Nat /\ Grows(heap, heap')
        /\ Len(arrays') \in Nat /\ Len(arrays) <= Len(arrays')
    BY FinishHeap, FinishArrays, Parts
  <1>3. CASE Len(stack) = 1
    <2>1. /\ stack' = <<>> /\ held' = Holding(Result)
          /\ answers' = IF Top.op = "get"
                          THEN answers \cup {<<<<heap[Top.obj].orig, Top.field>>, Result>>}
                          ELSE answers
      BY <1>1, <1>3 DEF Deliver
    <2>2. StackOK(heap', Len(arrays'), stack')
      BY <1>2, <2>1, EmptyStackOK
    <2>. QED BY <1>3, <2>1, <2>2
  <1>4. CASE Len(stack) # 1
    <2>0. Len(stack) > 1
      <3>. DEFINE n == Len(stack)
      <3>1. n \in Nat /\ n > 0 /\ n # 1
        BY <1>0, <1>4
      <3>. HIDE DEF n
      <3>2. n > 1
        BY ONLY <3>1
      <3>. QED BY <3>2 DEF n
    <2>. DEFINE x == Resumed(stack[Len(stack) - 1], Top, Result)
                t == [Below EXCEPT ![Len(Below)] = x]
    <2>1. Len(stack) > 1 /\ UNCHANGED <<held, answers>>
          /\ stack' = [Below EXCEPT ![Len(Below)] = Resumed(Below[Len(Below)], Top, Result)]
      <3>1. UNCHANGED <<held, answers>>
        BY <1>1, <1>4, Zenon DEF Deliver
      <3>2. stack' = [Below EXCEPT ![Len(Below)] = Resumed(@, Top, Result)]
        BY <1>1, <1>4 DEF Deliver
      <3>. QED BY <2>0, <3>1, <3>2, Zenon
    <2>2. /\ FrameOK(heap', Len(arrays'), x) /\ x.op = stack[Len(stack)-1].op
          /\ x.obj = stack[Len(stack)-1].obj /\ x.field = stack[Len(stack)-1].field
      BY <2>1, ResumedMoves
    <2>. HIDE DEF x
    <2>3. /\ StackOK(heap', Len(arrays'), t) /\ Len(t) = Len(stack) - 1 /\ t[Len(stack) - 1] = x
          /\ \A i \in 1..Len(stack) - 2 : t[i] = stack[i]
          /\ Len(Below) = Len(stack) - 1 /\ Below[Len(Below)] = stack[Len(stack) - 1]
      BY ONLY WellFormed, <1>2, <2>1, <2>2, TopEnds
    <2>4. stack' = t
      BY <2>1, <2>3 DEF x
    <2>. HIDE DEF t
    <2>. QED BY <1>4, <2>1, <2>3, <2>4 DEF x
  <1>. QED BY <1>3, <1>4

LEMMA HoldingOK ==
  ASSUME NEW n \in Nat, held \subseteq 1..n, ArraysOK(n, arrays'), NEW v, ValueOK(n, Len(arrays'), v)
  PROVE  Holding(v) \subseteq 1..n
  <1>1. v.type = "array" => Range(arrays'[v.obj]) \subseteq 1..n
    <2>. SUFFICES ASSUME v.type = "array" PROVE Range(arrays'[v.obj]) \subseteq 1..n
      OBVIOUS
    <2>1. v.obj \in 1..Len(arrays')
      BY DEF ValueOK
    <2>2. arrays'[v.obj] \in Seq(1..n)
      BY <2>1 DEF ArraysOK
    <2>. QED BY ONLY <2>2, RangeOfSeq DEF Range
  <1>. QED BY <1>1 DEF Holding, ValueOK

LEMMA FinishWF == WellFormed /\ Finish => WellFormed'
  <1>. SUFFICES ASSUME WellFormed, Finish PROVE WellFormed'
    OBVIOUS
  <1>1. /\ HeapOK(heap', Len(caches')) /\ CachesOK(Len(heap'), Len(arrays'), caches')
        /\ ArraysOK(Len(heap'), arrays') /\ StackOK(heap', Len(arrays'), stack')
        /\ UNCHANGED <<epoch, calls>>
    BY FinishHeap, FinishArrays, FinishCaches, FinishStack
  <1>2. held' \subseteq 1..Len(heap')
    <2>1. Len(heap) <= Len(heap') /\ Len(heap') \in Nat /\ held \subseteq 1..Len(heap) /\ Len(heap) \in Nat
      BY FinishHeap, Parts DEF Grows
    <2>2. held \subseteq 1..Len(heap')
      BY <2>1
    <2>3. CASE Len(stack) = 1
      <3>1. held' = Holding(Result) /\ ValueOK(Len(heap'), Len(arrays'), Result)
        BY <2>3, FinishStack, FinishArrays
      <3>. QED BY <1>1, <2>1, <2>2, <3>1, HoldingOK
    <2>4. CASE Len(stack) # 1
      BY <2>2, <2>4, FinishStack
    <2>. QED BY <2>3, <2>4
  <1>. QED BY <1>1, <1>2 DEF WellFormed

LEMMA InitWF == Init => WellFormed
  <1>. SUFFICES ASSUME Init PROVE WellFormed
    OBVIOUS
  <1>1. PICK s \in Roots : heap = <<[struct |-> s, orig |-> 1, cache |-> 0, parent |-> 0]>>
    BY DEF Init
  <1>. DEFINE x == [struct |-> s, orig |-> 1, cache |-> 0, parent |-> 0]
  <1>2. x \in StructObject /\ x.orig = 1 /\ x.cache = 0 /\ x.parent = 0
    BY ConstantTypes DEF StructObject
  <1>. HIDE DEF x
  <1>3. heap \in Seq(StructObject) /\ Len(heap) = 1 /\ heap[1] = x
    BY <1>1, <1>2 DEF x
  <1>4. caches = <<>> /\ arrays = <<>> /\ stack = <<>> /\ epoch = 1 /\ calls = 0 /\ held = {1}
    BY DEF Init
  <1>5. HeapOK(heap, 0)
    BY <1>2, <1>3 DEF HeapOK, ObjectOK
  <1>6. Len(caches) = 0 /\ CachesOK(1, 0, caches) /\ ArraysOK(1, arrays) /\ Len(arrays) = 0
    BY <1>4, EmptySeq DEF CachesOK, ArraysOK
  <1>7. StackOK(heap, 0, stack)
    BY <1>4, EmptyStackOK
  <1>. QED BY <1>3, <1>4, <1>5, <1>6, <1>7, ConstantTypes DEF WellFormed

LEMMA NextWF == WellFormed /\ [Next]_vars => WellFormed'
  <1>. SUFFICES ASSUME WellFormed, [Next]_vars PROVE WellFormed'
    OBVIOUS
  <1>1. CASE Step
    BY <1>1, EndPathWF, AccessWF, DescendWF, NextElementWF, EncodeWF, FinishWF DEF Step
  <1>2. ASSUME NEW o \in held, Size(o) \/ Parent(o) \/ MarshalJSON(o) PROVE WellFormed'
    BY <1>2, SizeWF, ParentWF, MarshalJSONWF
  <1>3. ASSUME NEW o \in held, NEW f \in Fields, Get(o, f) \/ RefValue(o, f) PROVE WellFormed'
    BY <1>3, GetWF, RefValueWF
  <1>4. CASE Change
    <2>1. epoch' \in 1..MaxEpoch /\ UNCHANGED <<heap, caches, arrays, stack, calls, held>>
      BY <1>4, ConstantTypes DEF Change, WellFormed
    <2>. QED BY <2>1 DEF WellFormed
  <1>5. CASE UNCHANGED vars
    BY <1>5 DEF WellFormed, vars
  <1>. QED BY <1>1, <1>2, <1>3, <1>4, <1>5 DEF Next

LEMMA SpecWF == Spec => []WellFormed
  BY InitWF, NextWF, PTL DEF Spec

LEMMA WellFormedTypes == WellFormed => TypeOK
  <1>. SUFFICES ASSUME WellFormed PROVE TypeOK
    OBVIOUS
  <1>1. \A i \in DOMAIN heap :
        heap[i].orig \in 1..i /\ heap[i].cache <= Len(caches) /\ heap[i].parent <= Len(heap)
    BY Typed DEF WellFormed, HeapOK, ObjectOK
  <1>2. \A i \in DOMAIN stack : stack[i].obj \in DOMAIN heap /\ stack[i].copy <= Len(heap)
    BY Typed DEF WellFormed, StackOK, FrameOK
  <1>. QED BY <1>1, <1>2, Typed DEF WellFormed, TypeOK

(***************************************************************************)
(* The heap, the maps, the arrays and the evaluations always refer to one  *)
(* another within their bounds, whatever the structs (struct.go:131-262).  *)
(***************************************************************************)
THEOREM StructTypeCorrect == Spec => []TypeOK
  BY SpecWF, WellFormedTypes, PTL

-----------------------------------------------------------------------------
(* Measuring is inductive.                                                 *)

LEMMA RangeParts ==
  /\ \A S : \A s \in Seq(S) : Range(s) \subseteq S /\ \A i \in 1..Len(s) : s[i] \in Range(s)
  /\ \A S : \A s \in Seq(S) : \A x \in S : Range(Append(s, x)) = Range(s) \cup {x}
  /\ Range(<<>>) = {}
  <1>1. ASSUME NEW S, NEW s \in Seq(S)
        PROVE  Range(s) \subseteq S /\ \A i \in 1..Len(s) : s[i] \in Range(s)
    BY DEF Range
  <1>2. ASSUME NEW S, NEW s \in Seq(S), NEW x \in S
        PROVE  Range(Append(s, x)) = Range(s) \cup {x}
    <2>. DEFINE t == Append(s, x)
    <2>1. Len(s) \in Nat /\ DOMAIN s = 1..Len(s) /\ t \in Seq(S) /\ Len(t) = Len(s) + 1
          /\ t[Len(s) + 1] = x /\ \A i \in 1..Len(s) : t[i] = s[i]
      BY AppendProperties
    <2>2. DOMAIN t = 1..Len(s) + 1
      BY <2>1
    <2>. HIDE DEF t
    <2>3. 1..Len(s) + 1 = (1..Len(s)) \cup {Len(s) + 1}
      BY <2>1
    <2>. QED BY <2>1, <2>2, <2>3 DEF Range, t
  <1>3. Range(<<>>) = {}
    BY DEF Range
  <1>. QED BY <1>1, <1>2, <1>3

LEMMA OutGrows ==
  ASSUME NEW h, NEW g, Grows(h, g), NEW fr, fr.out \in Seq(1..Len(h)), OutOK(h, fr)
  PROVE  OutOK(g, fr)
  <1>1. Range(fr.out) \subseteq 1..Len(h)
    BY RangeParts
  <1>. QED BY <1>1 DEF OutOK, Grows

LEMMA ArraysStayKept ==
  ASSUME WellFormed, Measuring, Grows(heap, heap'), UNCHANGED arrays
  PROVE  \A a \in 1..Len(arrays') : \A o \in Range(arrays'[a]) : ~SizedByParent(heap'[o].struct)
  <1>. SUFFICES ASSUME NEW a \in 1..Len(arrays), NEW o \in Range(arrays[a])
                PROVE  ~SizedByParent(heap'[o].struct)
    OBVIOUS
  <1>1. arrays[a] \in Seq(1..Len(heap))
    BY Typed
  <1>2. o \in 1..Len(heap)
    BY <1>1, RangeParts
  <1>. QED BY <1>2 DEF Measuring, Grows

\* The first frames of the stack, of which none is the measuring of an orphan.
LEMMA LowerStay ==
  ASSUME WellFormed, Measuring, Grows(heap, heap'), NEW i \in 1..Len(stack), stack'[i] = stack[i],
         i # Len(stack) \/ stack[i].op # "size" \/ ~SizedByParent(heap[stack[i].obj].struct)
  PROVE  MeasureOK(heap', stack', i) /\ OutOK(heap', stack'[i])
  <1>1. FrameOK(heap, Len(arrays), stack[i])
    BY DEF WellFormed, StackOK
  <1>2. OutOK(heap', stack'[i])
    BY <1>1, OutGrows DEF Measuring, FrameOK
  <1>3. heap'[stack[i].obj].struct = heap[stack[i].obj].struct
    BY <1>1 DEF FrameOK, Grows
  <1>. QED BY <1>2, <1>3 DEF Measuring, MeasureOK

LEMMA CallMeasuring ==
  ASSUME WellFormed, Measuring, NEW y, stack' = <<y>>, y.out = <<>>, Grows(heap, heap'), UNCHANGED arrays
  PROVE  Measuring'
  <1>1. Len(stack') = 1 /\ stack'[1] = y
    OBVIOUS
  <1>2. OutOK(heap', y)
    BY RangeParts DEF OutOK
  <1>3. \A i \in 1..Len(stack') : MeasureOK(heap', stack', i) /\ OutOK(heap', stack'[i])
    BY <1>1, <1>2 DEF MeasureOK
  <1>. QED BY <1>3, ArraysStayKept DEF Measuring

LEMMA AccessMeasuring == WellFormed /\ Measuring /\ Access => Measuring'
  <1>. SUFFICES ASSUME WellFormed, Measuring, Access PROVE Measuring'
    OBVIOUS
  <1>1. /\ stack # <<>> /\ Top.paths # <<>> /\ Head(Top.paths) # <<>>
        /\ UNCHANGED <<heap, caches, arrays>>
    BY AccessMoves
  <1>2. PICK v : /\ stack' = Append(Below, Moved(Top, v))
                 /\ ValueOK(Len(heap), Len(arrays), v) /\ v # Unset
                 /\ Found(Top.at, Head(Head(Top.paths)), v)
    BY AccessMoves
  <1>. DEFINE x == Moved(Top, v)
              n == Len(stack)
  <1>3. n \in Nat /\ n > 0 /\ Top = stack[n] /\ FrameOK(heap, Len(arrays), Top) /\ Top \in Frame
        /\ Len(heap) \in Nat /\ Len(arrays) \in Nat
    BY <1>1, Typed, TopParts
  <1>4. /\ FrameOK(heap, Len(arrays), x) /\ x.op = Top.op /\ x.obj = Top.obj /\ x.field = Top.field
        /\ x.copy = Top.copy /\ x.last = Top.last /\ x.at = v /\ x.out = Top.out
        /\ Len(x.paths) = Len(Top.paths) /\ \A i \in 2..Len(Top.paths) : x.paths[i] = Top.paths[i]
    BY ONLY <1>1, <1>2, <1>3, MovedOK
  <1>. HIDE DEF x
  <1>5. Len(stack') = n /\ stack'[n] = x /\ \A i \in 1..n - 1 : stack'[i] = stack[i]
    BY <1>1, <1>2, <1>4, TopMoves DEF x
  <1>6. Grows(heap, heap')
    BY <1>1, Typed, GrowsSelf
  <1>7. OutOK(heap', x)
    <2>1. OutOK(heap, Top)
      BY <1>3 DEF Measuring
    <2>. QED BY <1>1, <1>4, <2>1 DEF OutOK
  <1>8. MeasureOK(heap', stack', n)
    <2>. SUFFICES ASSUME n > 1, Top.op = "size", SizedByParent(heap[Top.obj].struct)
                  PROVE  Orphaned(heap, x)
      BY <1>1, <1>4, <1>5 DEF MeasureOK
    <2>1. Orphaned(heap, Top)
      BY <1>3 DEF Measuring, MeasureOK
    <2>2. Top.paths \in Lambda /\ Len(Top.paths) \in Nat /\ Len(Top.paths) > 0
          /\ Head(Top.paths) = Top.paths[1]
      BY <1>1, <1>3, FrameParts, LambdaParts
    <2>3. \/ Head(Top.paths[1]) = "Parent" /\ Top.at = Object(Top.copy)
          \/ Top.at = Null
      BY <2>1, <2>2 DEF Orphaned
    <2>4. heap[Top.copy].parent = 0
      BY <1>1, <2>1 DEF Orphaned
    <2>5. v = Null
      <3>1. Top.copy \in Nat
        BY <1>3, FrameParts
      <3>2. CASE Top.at = Null
        BY <1>2, <3>2, ValueTypes DEF Found
      <3>3. CASE Head(Top.paths[1]) = "Parent" /\ Top.at = Object(Top.copy)
        <4>1. Top.at.type = "object" /\ Top.at.obj = Top.copy
          BY <3>1, <3>3, ValueTypes
        <4>2. Head(Head(Top.paths)) = "Parent" /\ "Parent" \notin Fields
          BY <2>2, <3>3, ConstantTypes
        <4>. QED BY <1>2, <2>4, <4>1, <4>2 DEF Found
      <3>. QED BY <2>3, <3>2, <3>3
    <2>6. \A k \in 1..Len(x.paths) :
             \/ x.paths[k] # <<>> /\ Head(x.paths[k]) = "Parent" /\ (k = 1 => x.at = Object(x.copy))
             \/ k = 1 /\ x.at = Null
      <3>. TAKE k \in 1..Len(x.paths)
      <3>1. CASE k = 1
        BY <1>4, <2>5, <3>1
      <3>2. CASE k # 1
        <4>1. k \in 2..Len(Top.paths) /\ k \in 1..Len(Top.paths)
          BY <1>4, <2>2, <3>2
        <4>. QED BY <1>4, <2>1, <3>2, <4>1 DEF Orphaned
      <3>. QED BY <3>1, <3>2
    <2>. QED BY <1>4, <2>1, <2>4, <2>6 DEF Orphaned
  <1>9. \A i \in 1..Len(stack') : MeasureOK(heap', stack', i) /\ OutOK(heap', stack'[i])
    <2>. SUFFICES ASSUME NEW i \in 1..Len(stack'), i # n
                  PROVE  MeasureOK(heap', stack', i) /\ OutOK(heap', stack'[i])
      BY <1>5, <1>7, <1>8
    <2>1. i \in 1..Len(stack) /\ stack'[i] = stack[i] /\ i # Len(stack)
      BY <1>3, <1>5
    <2>. QED BY <1>6, <2>1, LowerStay
  <1>. QED BY <1>1, <1>6, <1>9, ArraysStayKept DEF Measuring

LEMMA EndPathMeasuring == WellFormed /\ Measuring /\ EndPath => Measuring'
  <1>. SUFFICES ASSUME WellFormed, Measuring, EndPath PROVE Measuring'
    OBVIOUS
  <1>. DEFINE x == Ended(Top, Encoded(Top.obj, Top.at))
              n == Len(stack)
  <1>1. /\ stack # <<>> /\ Top.paths # <<>> /\ Head(Top.paths) = <<>>
        /\ UNCHANGED <<heap, caches, arrays>>
        /\ stack' = Append(Below, x) /\ FrameOK(heap, Len(arrays), x)
        /\ x.op = Top.op /\ x.obj = Top.obj /\ x.field = Top.field /\ x.copy = Top.copy
        /\ x.last = Top.at /\ x.paths = Tail(Top.paths) /\ x.at = Object(Top.copy)
        /\ x.out = IF Top.op = "json" THEN Top.out \o Encoded(Top.obj, Top.at) ELSE Top.out
    BY EndPathMoves
  <1>. HIDE DEF x
  <1>3. n \in Nat /\ n > 0 /\ Top = stack[n] /\ FrameOK(heap, Len(arrays), Top) /\ Top \in Frame
    BY <1>1, Typed, TopParts
  <1>5. Len(stack') = n /\ stack'[n] = x /\ \A i \in 1..n - 1 : stack'[i] = stack[i]
    BY <1>1, TopMoves
  <1>6. Grows(heap, heap')
    BY <1>1, Typed, GrowsSelf
  <1>7. OutOK(heap', x)
    <2>1. OutOK(heap, Top)
      BY <1>3 DEF Measuring
    <2>. QED BY <1>1, <2>1 DEF OutOK
  <1>8. MeasureOK(heap', stack', n)
    <2>. SUFFICES ASSUME n > 1, Top.op = "size", SizedByParent(heap[Top.obj].struct)
                  PROVE  Orphaned(heap, x)
      BY <1>1, <1>5 DEF MeasureOK
    <2>1. Orphaned(heap, Top)
      BY <1>3 DEF Measuring, MeasureOK
    <2>2. Top.paths \in Lambda /\ Len(Top.paths) \in Nat /\ Len(Top.paths) > 0
          /\ Head(Top.paths) = Top.paths[1] /\ Len(x.paths) = Len(Top.paths) - 1
          /\ \A k \in 1..Len(x.paths) : x.paths[k] = Top.paths[k+1]
      BY <1>1, <1>3, FrameParts, LambdaParts
    <2>3. Top.at = Null
      BY <1>1, <2>1, <2>2 DEF Orphaned
    <2>4. heap[Top.copy].parent = 0
      BY <1>1, <2>1 DEF Orphaned
    <2>5. \A k \in 1..Len(x.paths) : x.paths[k] # <<>> /\ Head(x.paths[k]) = "Parent"
      <3>. TAKE k \in 1..Len(x.paths)
      <3>1. k + 1 \in 1..Len(Top.paths) /\ k + 1 # 1 /\ x.paths[k] = Top.paths[k+1]
        BY <2>2
      <3>. QED BY <2>1, <3>1 DEF Orphaned
    <2>. QED BY <1>1, <2>3, <2>4, <2>5 DEF Orphaned
  <1>9. \A i \in 1..Len(stack') : MeasureOK(heap', stack', i) /\ OutOK(heap', stack'[i])
    <2>. SUFFICES ASSUME NEW i \in 1..Len(stack'), i # n
                  PROVE  MeasureOK(heap', stack', i) /\ OutOK(heap', stack'[i])
      BY <1>5, <1>7, <1>8
    <2>1. i \in 1..Len(stack) /\ stack'[i] = stack[i] /\ i # Len(stack)
      BY <1>3, <1>5
    <2>. QED BY <1>6, <2>1, LowerStay
  <1>. QED BY <1>1, <1>6, <1>9, ArraysStayKept DEF Measuring

LEMMA DescendMeasuring == WellFormed /\ Measuring /\ Descend => Measuring'
  <1>. SUFFICES ASSUME WellFormed, Measuring, Descend PROVE Measuring'
    OBVIOUS
  <1>. DEFINE f == Head(Head(Top.paths))
              o == Top.at.obj
              y == Start("get", heap, o, f, DefOf(o, f).lambda)
              n == Len(stack)
  <1>1. /\ stack # <<>> /\ Top.paths # <<>> /\ Top.at.type = "object" /\ UNCHANGED arrays
        /\ o \in 1..Len(heap) /\ f \in Fields /\ HasField(o, f) /\ Enter("get", o, f, stack)
    BY DescendMoves
  <1>2. n \in Nat /\ n > 0 /\ Top = stack[n] /\ Top \in Frame
    BY <1>1, Typed, TopParts
  <1>3. Top.op # "size" \/ ~SizedByParent(heap[Top.obj].struct) \/ n = 1
    <2>. SUFFICES ASSUME Top.op = "size", SizedByParent(heap[Top.obj].struct), n # 1 PROVE FALSE
      OBVIOUS
    <2>0. Orphaned(heap, Top)
      <3>. DEFINE m == n
      <3>0. m \in Nat /\ m > 0 /\ m # 1
        BY <1>2
      <3>. HIDE DEF m
      <3>2. m \in 1..m /\ m > 1
        BY ONLY <3>0
      <3>1. n \in 1..n /\ n > 1
        BY <3>2 DEF m
      <3>. QED BY <1>2, <3>1 DEF Measuring, MeasureOK
    <2>1. Len(Top.paths) \in Nat /\ Len(Top.paths) > 0 /\ Head(Top.paths) = Top.paths[1]
      BY <1>1, <1>2, FrameParts, LambdaParts
    <2>2. Head(Top.paths[1]) = "Parent" \/ Top.at = Null
      BY <2>0, <2>1 DEF Orphaned
    <2>. QED BY <1>1, <2>1, <2>2, ConstantTypes, ValueTypes
  <1>. HIDE DEF f, o, y
  <1>4. /\ stack' = Append(stack, y) /\ FrameOK(heap', Len(arrays), y) /\ y.op = "get" /\ y.out = <<>>
        /\ Grows(heap, heap')
    BY <1>1, EnterMoves DEF y
  <1>5. Len(stack') = n + 1 /\ stack'[n + 1] = y /\ \A i \in 1..n : stack'[i] = stack[i]
    BY <1>2, <1>4, Typed DEF FrameOK
  <1>6. \A i \in 1..Len(stack') : MeasureOK(heap', stack', i) /\ OutOK(heap', stack'[i])
    <2>. TAKE i \in 1..Len(stack')
    <2>1. CASE i = n + 1
      BY <1>4, <1>5, <2>1, RangeParts DEF MeasureOK, OutOK
    <2>2. CASE i # n + 1
      <3>1. i \in 1..n /\ stack'[i] = stack[i]
        BY <1>2, <1>5, <2>2
      <3>2. CASE i # 1 \/ n # 1
        BY <1>2, <1>3, <1>4, <3>1, <3>2, LowerStay
      <3>3. CASE i = 1 /\ n = 1
        <4>1. OutOK(heap, stack[i]) /\ FrameOK(heap, Len(arrays), stack[i])
          BY <3>1 DEF Measuring, WellFormed, StackOK
        <4>. QED BY <1>4, <3>1, <3>3, <4>1, OutGrows DEF MeasureOK, FrameOK
      <3>. QED BY <3>2, <3>3
    <2>. QED BY <2>1, <2>2
  <1>. QED BY <1>1, <1>4, <1>6, ArraysStayKept DEF Measuring

LEMMA NextElementMeasuring == WellFormed /\ Measuring /\ NextElement => Measuring'
  <1>. SUFFICES ASSUME WellFormed, Measuring, NextElement PROVE Measuring'
    OBVIOUS
  <1>. DEFINE s == DefOf(Top.obj, Top.field).of
              n == Len(stack)
  <1>1. /\ stack # <<>> /\ InArray(Top) /\ UNCHANGED <<caches, arrays>>
        /\ HeapOK(heap', Len(caches)) /\ Grows(heap, heap')
        /\ s \in Structs /\ heap'[Len(heap) + 1] = NewObject(s)
        /\ ElementFixed(s) \/ ElementMeasured(s)
    BY NextElementMoves
  <1>. HIDE DEF s
  <1>2. /\ n \in Nat /\ n > 0 /\ n \in 1..n /\ Top = stack[n] /\ Top \in Frame /\ Top.op # "size"
        /\ Top.out \in Seq(1..Len(heap)) /\ Top.out \in Seq(Nat) /\ OutOK(heap, Top)
        /\ Len(heap) \in Nat /\ Len(arrays) \in Nat /\ Len(caches) \in Nat
    <2>1. stack # <<>> /\ n \in Nat /\ n > 0 /\ Top = stack[n] /\ FrameOK(heap, Len(arrays), Top)
      BY <1>1, Typed, TopParts
    <2>2. n \in 1..n
      BY <2>1
    <2>. QED BY <1>1, <2>1, <2>2, ArrayParts, FrameParts, Parts DEF FrameOK, Measuring
  <1>3. OutOK(heap', Top)
    BY <1>1, <1>2, OutGrows
  <1>4. \A i \in 1..n : stack'[i] = stack[i] => MeasureOK(heap', stack', i) /\ OutOK(heap', stack'[i])
    BY <1>1, <1>2, LowerStay
  <1>5. Len(arrays) <= Len(arrays)
    BY <1>2
  <1>6. ASSUME NEW x, FrameOK(heap', Len(arrays), x), x.op = Top.op, x.obj = Top.obj, x.field = Top.field
        PROVE  /\ Len(Append(Below, x)) = n /\ Append(Below, x)[n] = x
               /\ \A i \in 1..n - 1 : Append(Below, x)[i] = stack[i]
               /\ Append(Below, x) \in Seq(Frame)
    <2>1. /\ StackOK(heap', Len(arrays), Append(Below, x))
          /\ Len(Append(Below, x)) = n /\ Append(Below, x)[n] = x
          /\ \A i \in 1..n - 1 : Append(Below, x)[i] = stack[i]
      BY ONLY WellFormed, <1>1, <1>2, <1>5, <1>6, TopMovesIn
    <2>. QED BY <2>1 DEF StackOK
  <1>7. CASE ElementFixed(s)
    <2>. DEFINE x == WithOut(Top, Append(Top.out, Len(heap) + 1), Top.left - 1)
    <2>1. FrameOK(heap', Len(arrays), x) /\ stack' = Append(Below, x) /\ SizeLambda[s] = <<>>
      BY <1>7 DEF ElementFixed
    <2>2. x.op = Top.op /\ x.obj = Top.obj /\ x.field = Top.field /\ x.out = Append(Top.out, Len(heap) + 1)
      BY <1>2 DEF WithOut, Frame
    <2>. HIDE DEF x
    <2>3. Len(stack') = n /\ stack'[n] = x /\ \A i \in 1..n - 1 : stack'[i] = stack[i]
      BY <1>6, <2>1, <2>2
    <2>4. OutOK(heap', x)
      <3>1. Range(x.out) = Range(Top.out) \cup {Len(heap) + 1}
        <4>1. Len(heap) + 1 \in Nat
          BY <1>2
        <4>. QED BY <1>2, <2>2, <4>1, RangeParts
      <3>2. heap'[Len(heap) + 1].struct = s /\ ~SizedByParent(s)
        BY <1>1, <2>1 DEF NewObject, SizedByParent
      <3>. QED BY <1>3, <2>2, <3>1, <3>2 DEF OutOK
    <2>5. MeasureOK(heap', stack', n)
      BY <1>2, <2>2, <2>3 DEF MeasureOK
    <2>6. \A i \in 1..Len(stack') : i \in 1..n /\ (i = n \/ stack'[i] = stack[i])
      BY <1>2, <2>3
    <2>7. \A i \in 1..Len(stack') : MeasureOK(heap', stack', i) /\ OutOK(heap', stack'[i])
      BY <1>4, <2>3, <2>4, <2>5, <2>6
    <2>. QED BY <1>1, <2>7, ArraysStayKept DEF Measuring
  <1>8. CASE ElementMeasured(s)
    <2>. DEFINE x == WithOut(Top, Top.out, Top.left - 1)
                y == Start("size", Append(heap, NewObject(s)), Len(heap) + 1, "none", SizeLambda[s])
                t == Append(Below, x)
    <2>1. /\ FrameOK(heap', Len(arrays), x) /\ FrameOK(heap', Len(arrays), y)
          /\ stack' = Append(t, y) /\ y.op = "size" /\ y.obj = Len(heap) + 1
          /\ y.paths = SizeLambda[s] /\ y.copy = Len(heap) + 2 /\ y.at = Object(Len(heap) + 2)
          /\ y.last = Null /\ y.out = <<>> /\ heap'[Len(heap) + 2] = NewObject(s)
      BY <1>8 DEF ElementMeasured
    <2>2. x.op = Top.op /\ x.obj = Top.obj /\ x.field = Top.field /\ x.out = Top.out
      BY <1>2 DEF WithOut, Frame
    <2>. HIDE DEF x, y
    <2>3. Len(t) = n /\ t[n] = x /\ t \in Seq(Frame) /\ \A i \in 1..n - 1 : t[i] = stack[i]
      BY <1>6, <2>1, <2>2
    <2>. HIDE DEF t
    <2>4. Len(stack') = n + 1 /\ stack'[n + 1] = y /\ stack'[n] = x
          /\ \A i \in 1..n - 1 : stack'[i] = stack[i]
      <3>1. y \in Frame
        BY <2>1 DEF FrameOK
      <3>2. Len(stack') = n + 1 /\ stack'[n + 1] = y /\ \A i \in 1..n : stack'[i] = t[i]
        BY <2>1, <2>3, <3>1, AppendProperties
      <3>3. \A i \in 1..n - 1 : i \in 1..n
        BY <1>2
      <3>. QED BY <1>2, <2>3, <3>2, <3>3
    <2>5. MeasureOK(heap', stack', n) /\ OutOK(heap', stack'[n])
      BY <1>2, <1>3, <2>2, <2>4 DEF MeasureOK, OutOK
    <2>6. OutOK(heap', stack'[n + 1])
      BY <2>1, <2>4 DEF OutOK
    <2>7. MeasureOK(heap', stack', n + 1)
      <3>. SUFFICES ASSUME SizedByParent(heap'[y.obj].struct) PROVE Orphaned(heap', y)
        BY <2>4 DEF MeasureOK
      <3>1. heap'[y.obj].struct = s /\ heap'[y.copy].parent = 0
        BY <1>1, <2>1 DEF NewObject
      <3>2. \A k \in 1..Len(y.paths) : y.paths[k] # <<>> /\ Head(y.paths[k]) = "Parent"
        <4>1. y.paths \in Seq(Path)
          BY <1>1, <2>1, ConstantTypes DEF Lambda
        <4>2. \A k \in 1..Len(y.paths) : y.paths[k] \in Range(y.paths)
          BY <4>1, RangeParts
        <4>. QED BY <2>1, <3>1, <4>2 DEF SizedByParent
      <3>. QED BY <2>1, <3>1, <3>2 DEF Orphaned
    <2>8. \A i \in 1..Len(stack') : i = n + 1 \/ i = n \/ (i \in 1..n /\ stack'[i] = stack[i])
      BY <1>2, <2>4
    <2>9. \A i \in 1..Len(stack') : MeasureOK(heap', stack', i) /\ OutOK(heap', stack'[i])
      BY <1>4, <2>5, <2>6, <2>7, <2>8
    <2>. QED BY <1>1, <2>9, ArraysStayKept DEF Measuring
  <1>. QED BY <1>1, <1>7, <1>8

LEMMA EncodeMeasuring == WellFormed /\ Measuring /\ Encode => Measuring'
  <1>. SUFFICES ASSUME WellFormed, Measuring, Encode PROVE Measuring'
    OBVIOUS
  <1>. DEFINE x == WithOut(Top, Tail(Top.out), Top.left)
              y == Marshal(heap, Head(Top.out))
              t == Append(Below, x)
              n == Len(stack)
  <1>1. /\ stack # <<>> /\ UNCHANGED <<heap, caches, arrays>>
        /\ FrameOK(heap, Len(arrays), x) /\ stack' = Append(t, y)
        /\ x.op = "json" /\ x.op = Top.op /\ x.obj = Top.obj /\ x.field = Top.field
        /\ FrameOK(heap, Len(arrays), y) /\ y.op = "json"
    BY EncodeMoves
  <1>. HIDE DEF x, y
  <1>2. StackOK(heap, Len(arrays), t) /\ Len(t) = n /\ t[n] = x /\ \A i \in 1..n - 1 : t[i] = stack[i]
    BY <1>1, TopMoves
  <1>. HIDE DEF t
  <1>3. n \in Nat /\ Grows(heap, heap')
    BY <1>1, Typed, GrowsSelf
  <1>4. Len(stack') = n + 1 /\ stack'[n + 1] = y /\ \A i \in 1..n : stack'[i] = t[i]
    <2>1. y \in Frame /\ t \in Seq(Frame)
      BY <1>1, <1>2 DEF FrameOK, StackOK
    <2>. QED BY <1>1, <1>2, <2>1, AppendProperties
  <1>5. \A i \in 1..Len(stack') : MeasureOK(heap', stack', i) /\ OutOK(heap', stack'[i])
    <2>. TAKE i \in 1..Len(stack')
    <2>1. \/ i = n + 1 /\ stack'[i] = y
          \/ i = n /\ stack'[i] = x
          \/ i \in 1..n /\ i # n /\ stack'[i] = stack[i]
      BY <1>2, <1>3, <1>4
    <2>. QED BY <1>1, <1>3, <2>1, LowerStay DEF MeasureOK, OutOK
  <1>. QED BY <1>1, <1>3, <1>5, ArraysStayKept DEF Measuring

LEMMA FinishMeasuring == WellFormed /\ Measuring /\ Finish => Measuring'
  <1>. SUFFICES ASSUME WellFormed, Measuring, Finish PROVE Measuring'
    OBVIOUS
  <1>. DEFINE n == Len(stack)
  <1>1. stack # <<>> /\ Top.paths = <<>> /\ Grows(heap, heap')
    BY FinishHeap
  <1>2. /\ n \in Nat /\ n > 0 /\ n \in 1..n /\ Top = stack[n] /\ OutOK(heap, Top)
        /\ FrameOK(heap, Len(arrays), Top) /\ Top \in Frame /\ Len(arrays) \in Nat
    <2>1. stack # <<>> /\ n \in Nat /\ n > 0 /\ Top = stack[n] /\ FrameOK(heap, Len(arrays), Top)
          /\ Top \in Frame
      BY <1>1, Typed, TopParts
    <2>2. n \in 1..n
      BY <2>1
    <2>. QED BY <2>1, <2>2, Typed DEF Measuring
  <1>3. \A a \in 1..Len(arrays') : \A o \in Range(arrays'[a]) : ~SizedByParent(heap'[o].struct)
    <2>. TAKE a \in 1..Len(arrays')
    <2>1. CASE a \in 1..Len(arrays)
      <3>1. arrays'[a] = arrays[a] /\ arrays[a] \in Seq(1..Len(heap))
        BY <2>1, FinishArrays, Typed
      <3>2. Range(arrays[a]) \subseteq 1..Len(heap)
        BY <3>1, RangeParts
      <3>. QED BY <1>1, <2>1, <3>1, <3>2 DEF Measuring, Grows
    <2>2. CASE a \notin 1..Len(arrays)
      <3>1. Kind(Top) = "array" /\ arrays'[a] = Top.out
        BY <1>2, <2>2, FinishArrays
      <3>2. Top.op \in {"get", "ref"}
        BY <1>1, <3>1, KindParts
      <3>3. OutOK(heap', Top)
        BY <1>1, <1>2, OutGrows DEF FrameOK
      <3>. QED BY <3>1, <3>2, <3>3 DEF OutOK
    <2>. QED BY <2>1, <2>2
  <1>4. CASE n = 1
    <2>1. Len(stack') = 0
      BY <1>4, FinishStack, EmptySeq
    <2>. QED BY <1>3, <2>1 DEF Measuring
  <1>5. CASE n # 1
    <2>. DEFINE lo == stack[n - 1]
                x == Resumed(lo, Top, Result)
    <2>1. n > 1 /\ Len(stack') = n - 1 /\ stack'[n - 1] = x /\ \A i \in 1..n - 2 : stack'[i] = stack[i]
      BY <1>5, FinishStack
    <2>2. /\ Returned(lo, x) /\ FrameOK(heap, Len(arrays), lo) /\ x.op = lo.op /\ x.obj = lo.obj
      BY <2>1, ResumedMoves
    <2>. HIDE DEF x
    <2>3. n - 1 \in 1..n /\ n - 1 # n
      BY <1>2, <2>1
    <2>4. OutOK(heap', lo) /\ MeasureOK(heap, stack, n - 1)
      BY <1>1, <2>2, <2>3, OutGrows DEF Measuring, FrameOK
    <2>5. MeasureOK(heap', stack', n - 1)
      <3>1. heap'[lo.obj].struct = heap[lo.obj].struct
        BY <1>1, <2>2 DEF FrameOK, Grows
      <3>. QED BY <2>1, <2>2, <2>3, <2>4, <3>1 DEF MeasureOK
    <2>6. OutOK(heap', x)
      <3>0. lo \in Frame /\ lo.out \in Seq(Nat) /\ Top.obj \in Nat
        BY <1>2, <2>2, FrameParts DEF FrameOK
      <3>1. CASE Top.op = "json" /\ x = lo
        BY <2>4, <3>1
      <3>2. CASE x = WithOut(lo, lo.out, 0) \/ x = Moved(lo, Result)
        <4>1. x.out = lo.out
          BY <3>0, <3>2 DEF WithOut, Moved, Frame
        <4>. QED BY <2>2, <2>4, <4>1 DEF OutOK
      <3>3. CASE Top.op = "size" /\ Result # Null /\ x = WithOut(lo, Append(lo.out, Top.obj), lo.left)
        <4>1. x.out = Append(lo.out, Top.obj)
          BY <3>0, <3>3 DEF WithOut, Frame
        <4>2. Range(x.out) = Range(lo.out) \cup {Top.obj}
          BY <3>0, <4>1, RangeParts
        <4>3. ~SizedByParent(heap[Top.obj].struct)
          <5>. SUFFICES ASSUME SizedByParent(heap[Top.obj].struct) PROVE FALSE
            OBVIOUS
          <5>1. Orphaned(heap, Top)
            BY <1>2, <2>1, <3>3 DEF Measuring, MeasureOK
          <5>2. Top.last = Null
            BY <5>1 DEF Orphaned
          <5>3. Result = Null
            BY <1>1, <3>3, <5>2, KindParts, ResultParts, ValueTypes DEF NonZero
          <5>. QED BY <3>3, <5>3
        <4>4. heap'[Top.obj].struct = heap[Top.obj].struct
          BY <1>1, <1>2 DEF FrameOK, Grows
        <4>. QED BY <2>2, <2>4, <4>2, <4>3, <4>4 DEF OutOK
      <3>. QED BY <2>2, <3>1, <3>2, <3>3 DEF Returned
    <2>7. \A i \in 1..Len(stack') : MeasureOK(heap', stack', i) /\ OutOK(heap', stack'[i])
      <3>. TAKE i \in 1..Len(stack')
      <3>1. CASE i = n - 1
        BY <2>1, <2>5, <2>6, <3>1
      <3>2. CASE i # n - 1
        <4>1. i \in 1..n /\ i # n /\ stack'[i] = stack[i]
          BY <1>2, <2>1, <3>2
        <4>. QED BY <1>1, <4>1, LowerStay
      <3>. QED BY <3>1, <3>2
    <2>. QED BY <1>3, <2>7 DEF Measuring
  <1>. QED BY <1>4, <1>5

\* A call of the user: nothing is under way, and no array is made.
LEMMA CallParts ==
  ASSUME WellFormed, NEW o \in held, NEW f,
         \/ f \in Fields /\ (Get(o, f) \/ RefValue(o, f))
         \/ Size(o) \/ Parent(o) \/ MarshalJSON(o)
  PROVE  /\ stack = <<>> /\ UNCHANGED arrays /\ o \in 1..Len(heap) /\ Grows(heap, heap')
         /\ \/ stack' = <<>>
            \/ \E y : stack' = <<y>> /\ y.out = <<>>
  <1>1. o \in 1..Len(heap)
    BY DEF WellFormed
  <1>2. stack = <<>> /\ UNCHANGED arrays
    BY DEF Get, RefValue, Size, Parent, MarshalJSON, Call
  <1>3. Grows(heap, heap)
    BY Typed, GrowsSelf
  <1>4. ASSUME NEW op \in {"get", "ref"}, f \in Fields, HasField(o, f), Enter(op, o, f, <<>>)
        PROVE  Grows(heap, heap') /\ \E y : stack' = <<y>> /\ y.out = <<>>
    <2>. DEFINE none == <<>>
                y == Start(op, heap, o, f, DefOf(o, f).lambda)
    <2>1. Enter(op, o, f, none)
      BY <1>4
    <2>. HIDE DEF none
    <2>2. stack' = Append(none, y) /\ y.out = <<>> /\ Grows(heap, heap')
      BY ONLY WellFormed, <1>1, <1>4, <2>1, EnterMoves
    <2>. HIDE DEF y
    <2>. QED BY <2>2 DEF none
  <1>5. CASE f \in Fields /\ Get(o, f)
    <2>1. CASE Cached(o, f) # Unset
      BY <1>1, <1>2, <1>3, <1>5, <2>1 DEF Get
    <2>2. CASE Cached(o, f) = Unset
      BY <1>1, <1>2, <1>4, <1>5, <2>2 DEF Get
    <2>. QED BY <2>1, <2>2
  <1>6. CASE f \in Fields /\ RefValue(o, f)
    BY <1>1, <1>2, <1>4, <1>6 DEF RefValue
  <1>7. CASE Size(o)
    <2>. DEFINE y == Start("size", heap, o, "none", SizeLambda[heap[o].struct])
    <2>1. SizeLambda[heap[o].struct] # <<>> /\ heap' = GetThis(heap, o) /\ stack' = <<y>>
      BY <1>7 DEF Size
    <2>2. Grows(heap, heap')
      BY <1>1, <2>1, Parts, CopyMoves
    <2>3. y.out = <<>>
      BY DEF Start
    <2>. HIDE DEF y
    <2>. QED BY <1>1, <1>2, <2>1, <2>2, <2>3
  <1>8. CASE Parent(o)
    BY <1>1, <1>2, <1>3, <1>8 DEF Parent
  <1>9. CASE MarshalJSON(o)
    <2>. DEFINE y == Marshal(heap, o)
    <2>1. heap' = heap /\ stack' = <<y>> /\ y.out = <<>>
      BY <1>1, <1>9, MarshalMoves DEF MarshalJSON
    <2>. HIDE DEF y
    <2>. QED BY <1>1, <1>2, <1>3, <2>1
  <1>. QED BY <1>5, <1>6, <1>7, <1>8, <1>9

LEMMA NextMeasuring == WellFormed /\ Measuring /\ [Next]_vars => Measuring'
  <1>. SUFFICES ASSUME WellFormed, Measuring, [Next]_vars PROVE Measuring'
    OBVIOUS
  <1>1. CASE Step
    BY <1>1, EndPathMeasuring, AccessMeasuring, DescendMeasuring, NextElementMeasuring,
       EncodeMeasuring, FinishMeasuring DEF Step
  <1>2. ASSUME NEW o \in held, NEW f,
               \/ f \in Fields /\ (Get(o, f) \/ RefValue(o, f))
               \/ Size(o) \/ Parent(o) \/ MarshalJSON(o)
        PROVE  Measuring'
    <2>1. Grows(heap, heap') /\ UNCHANGED arrays /\ (stack' = <<>> \/ \E y : stack' = <<y>> /\ y.out = <<>>)
      BY <1>2, CallParts
    <2>2. CASE stack' = <<>>
      <3>1. Len(stack') = 0
        BY <2>2, EmptySeq
      <3>. QED BY <2>1, <3>1, ArraysStayKept DEF Measuring
    <2>3. ASSUME NEW y, stack' = <<y>>, y.out = <<>> PROVE Measuring'
      BY <2>1, <2>3, CallMeasuring
    <2>. QED BY <2>1, <2>2, <2>3
  <1>3. CASE Change \/ UNCHANGED vars
    BY <1>3 DEF Measuring, Change, vars
  <1>. QED BY <1>1, <1>2, <1>3 DEF Next

LEMMA InitMeasuring == Init => Measuring
  BY EmptySeq DEF Init, Measuring

(***************************************************************************)
(* The elements of an array are never structs whose size is read from      *)
(* their parent, for they are measured before they have one (array.go:121, *)
(* struct.go:205).                                                         *)
(***************************************************************************)
THEOREM ArraysWithoutParentSized == Spec => []MeasuredWithoutParent
  <1>1. Init => Measuring
    BY InitMeasuring
  <1>2. WellFormed /\ Measuring /\ [Next]_vars => Measuring'
    BY NextMeasuring
  <1>3. WellFormed /\ Measuring => MeasuredWithoutParent
    <2>. SUFFICES ASSUME WellFormed, Measuring PROVE MeasuredWithoutParent
      OBVIOUS
    <2>1. DOMAIN arrays = 1..Len(arrays)
      BY Typed
    <2>. QED BY <2>1 DEF Measuring, MeasuredWithoutParent
  <1>. QED BY <1>1, <1>2, <1>3, SpecWF, PTL DEF Spec
=============================================================================
