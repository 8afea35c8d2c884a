-------------------------- MODULE StructViewProofs --------------------------
(***************************************************************************)
(* Proofs about what StructObject has cached: as long as no field is       *)
(* evaluated inside its own evaluation, a struct is one consistent view of *)
(* the data, the parent of a struct has it in a field, and StructObject    *)
(* implements LazyRecord.  Then that none is, if the definitions can be    *)
(* ranked, and, if their JSON has a depth, that MarshalJSON encodes no     *)
(* object inside itself and how deep the recursion gets.                   *)
(***************************************************************************)
EXTENDS StructObjectProofs

(***************************************************************************)
(* As long as no field is evaluated inside its own evaluation, a field     *)
(* that is being evaluated is not cached.                                  *)
(***************************************************************************)
PendingFrame(h, c, fr) == fr.op = "get" => c[h[fr.obj].cache][fr.field] = Unset

Pending == \A i \in 1..Len(stack) : PendingFrame(heap, caches, stack[i])

\* The object has the map of the struct it is or was copied from.
Shares(h, o) == h[o].cache = h[h[o].orig].cache

(***************************************************************************)
(* An evaluation that follows field g reads it from the map of its copy,   *)
(* which is that of the object unless this was made for a size.            *)
(***************************************************************************)
Following(h, c, fr, g) ==
    \/ fr.paths = <<>> /\ Reads(h, c, fr.copy, g, fr.last)
    \/ Len(fr.paths) = 1 /\ fr.paths[1] = <<>> /\ Reads(h, c, fr.copy, g, fr.at)
    \/ /\ fr.paths # <<>> /\ fr.paths[Len(fr.paths)] = <<g>>
       /\ Len(fr.paths) = 1 => fr.at = Object(fr.copy)

FollowingOK(h, c, fr) ==
    fr.op = "get" => \A g \in Fields : Follows(h[fr.obj].struct, fr.field, g) =>
        /\ fr.copy # 0
        /\ Following(h, c, fr, g)
        /\ Shares(h, fr.obj) => h[fr.copy].cache = h[fr.obj].cache

FollowsOne == \A i \in 1..Len(stack) : FollowingOK(heap, caches, stack[i])

\* What an original that has a map has cached of a field that follows another.
ViewOf(h, c, o) ==
    \A f, g \in Fields : Follows(h[o].struct, f, g) /\ c[h[o].cache][f] # Unset =>
        LET v == c[h[o].cache][f]
            w == c[h[o].cache][g]
        IN  /\ w # Unset
            /\ KindOf(h, o, f) = "value" => v = w
            /\ KindOf(h, o, f) = "int" => v.off = w.at

View == \A o \in 1..Len(heap) : heap[o].orig = o /\ heap[o].cache # 0 => ViewOf(heap, caches, o)

\* The parent p of a struct o has it in a field.
Has(h, c, a, p, o) ==
    /\ h[p].cache # 0
    /\ \E f \in Fields : LET v == c[h[p].cache][f] IN
          v = Object(o) \/ (v.type = "array" /\ o \in Range(a[v.obj]))

Knows == \A o \in 1..Len(heap) : heap[o].orig = o /\ heap[o].parent # 0 =>
             Has(heap, caches, arrays, heap[o].parent, o)

(***************************************************************************)
(* A step that writes no field: structs, copies and maps may be made, and  *)
(* the first map of a struct may be given to it.                           *)
(***************************************************************************)
Quiet ==
    /\ HeapOK(heap', Len(caches')) /\ Grows(heap, heap')
    /\ Len(caches) <= Len(caches') /\ Len(caches') \in Nat
    /\ \A c \in 1..Len(caches) : caches'[c] = caches[c]
    /\ \A c \in 1..Len(caches') : c > Len(caches) => caches'[c] = Blank
    /\ \A a \in 1..Len(arrays) : arrays'[a] = arrays[a]
    /\ \A i \in 1..Len(heap) : /\ heap'[i].parent = heap[i].parent
                               /\ heap'[i].cache = heap[i].cache \/ heap'[i].cache > Len(caches)
    /\ \A i \in 1..Len(heap') : i > Len(heap) /\ heap'[i].orig = i =>
                                    heap'[i].cache = 0 /\ heap'[i].parent = 0
-----------------------------------------------------------------------------
(* Which steps are quiet.                                                  *)

LEMMA SameQuiet ==
  ASSUME WellFormed, UNCHANGED <<heap, caches, arrays>>
  PROVE  Quiet
  <1>1. HeapOK(heap, Len(caches)) /\ Len(caches) \in Nat /\ Len(heap) \in Nat /\ Grows(heap, heap)
    BY Parts, Typed, GrowsSelf
  <1>. QED BY <1>1 DEF Quiet

LEMMA EnterQuiet ==
  ASSUME WellFormed, NEW op \in {"get", "ref"}, NEW o \in 1..Len(heap), NEW f \in Fields,
         HasField(o, f), NEW below, Enter(op, o, f, below), UNCHANGED arrays
  PROVE  Quiet
  <1>. DEFINE l == DefOf(o, f).lambda
  <1>1. /\ HeapOK(heap', Len(caches')) /\ Grows(heap, heap')
        /\ heap[o].cache # 0 => caches' = caches
        /\ heap[o].cache = 0 =>
              /\ Len(caches') = Len(caches) + 1
              /\ \A i \in 1..Len(caches) : caches'[i] = caches[i]
              /\ caches'[Len(caches) + 1] = Blank /\ heap'[o].cache = Len(caches) + 1
        /\ \A i \in 1..Len(heap) : /\ heap'[i].parent = heap[i].parent
                                   /\ i # o => heap'[i].cache = heap[i].cache
        /\ l = <<>> => Len(heap') = Len(heap)
        /\ l # <<>> => Len(heap') = Len(heap) + 1 /\ heap'[Len(heap')] = heap'[heap[o].orig]
    BY EnterMoves
  <1>. HIDE DEF l
  <1>2. /\ Len(heap) \in Nat /\ Len(caches) \in Nat /\ heap[o].orig \in 1..Len(heap)
        /\ HeapOK(heap, Len(caches)) /\ heap[heap[o].orig].orig = heap[o].orig
    BY Parts, ObjectType DEF HeapOK, ObjectOK
  <1>3. Len(caches') \in Nat /\ Len(caches) <= Len(caches')
        /\ (\A c \in 1..Len(caches) : caches'[c] = caches[c])
        /\ \A c \in 1..Len(caches') : c > Len(caches) => caches'[c] = Blank
    BY <1>1, <1>2
  <1>4. \A i \in 1..Len(heap) : heap'[i].cache = heap[i].cache \/ heap'[i].cache > Len(caches)
    BY <1>1, <1>2 DEF Grows
  <1>5. ASSUME NEW i \in 1..Len(heap'), i > Len(heap) PROVE heap'[i].orig # i
    <2>1. i = Len(heap) + 1 /\ heap'[i] = heap'[heap[o].orig]
      BY <1>1, <1>2, <1>5
    <2>2. heap'[heap[o].orig].orig = heap[o].orig
      BY <1>1, <1>2 DEF Grows
    <2>. QED BY <1>2, <2>1, <2>2
  <1>. QED BY <1>1, <1>3, <1>4, <1>5 DEF Quiet

LEMMA CopyQuiet ==
  ASSUME WellFormed, NEW o \in 1..Len(heap), heap' = GetThis(heap, o), UNCHANGED <<caches, arrays>>
  PROVE  Quiet
  <1>1. /\ HeapOK(heap, Len(caches)) /\ Len(caches) \in Nat /\ Len(heap) \in Nat
        /\ heap[o].orig \in 1..Len(heap) /\ heap[heap[o].orig].orig = heap[o].orig
    BY Parts, ObjectType DEF HeapOK, ObjectOK
  <1>2. /\ HeapOK(heap', Len(caches)) /\ Grows(heap, heap') /\ Len(heap') = Len(heap) + 1
        /\ heap'[Len(heap')] = heap[heap[o].orig] /\ \A i \in 1..Len(heap) : heap'[i] = heap[i]
    BY <1>1, CopyMoves
  <1>3. ASSUME NEW i \in 1..Len(heap'), i > Len(heap) PROVE heap'[i].orig # i
    BY <1>1, <1>2, <1>3
  <1>. QED BY <1>1, <1>2, <1>3 DEF Quiet

LEMMA NextElementQuiet == WellFormed /\ NextElement => Quiet
  <1>. SUFFICES ASSUME WellFormed, NextElement PROVE Quiet
    OBVIOUS
  <1>. DEFINE s == DefOf(Top.obj, Top.field).of
  <1>1. /\ UNCHANGED <<caches, arrays>> /\ HeapOK(heap', Len(caches)) /\ Grows(heap, heap')
        /\ \A i \in 1..Len(heap) : heap'[i] = heap[i]
        /\ heap'[Len(heap) + 1] = NewObject(s)
        /\ ElementFixed(s) \/ ElementMeasured(s)
    BY NextElementMoves
  <1>. HIDE DEF s
  <1>2. Len(heap) \in Nat /\ Len(caches) \in Nat
    BY Parts
  <1>3. \/ Len(heap') = Len(heap) + 1
        \/ Len(heap') = Len(heap) + 2 /\ heap'[Len(heap) + 2] = NewObject(s)
    BY <1>1 DEF ElementFixed, ElementMeasured
  <1>4. ASSUME NEW i \in 1..Len(heap'), i > Len(heap) PROVE heap'[i].cache = 0 /\ heap'[i].parent = 0
    <2>1. heap'[i] = NewObject(s)
      <3>1. i \in Int /\ i <= Len(heap')
        BY <1>1 DEF HeapOK
      <3>2. i = Len(heap) + 1 \/ (i = Len(heap) + 2 /\ Len(heap') = Len(heap) + 2)
        BY <1>2, <1>3, <1>4, <3>1
      <3>3. heap'[Len(heap) + 1] = NewObject(s)
        BY <1>1
      <3>4. CASE i = Len(heap) + 1
        BY <3>3, <3>4, Zenon
      <3>5. CASE i = Len(heap) + 2 /\ Len(heap') = Len(heap) + 2
        <4>1. Len(heap') # Len(heap) + 1
          BY <1>2, <3>5
        <4>. QED BY <1>3, <3>5, <4>1
      <3>. QED BY <3>2, <3>4, <3>5
    <2>. QED BY <2>1 DEF NewObject
  <1>. QED BY <1>1, <1>2, <1>4 DEF Quiet

LEMMA FinishQuiet == WellFormed /\ Finish /\ Top.op # "get" => Quiet
  <1>. SUFFICES ASSUME WellFormed, Finish, Top.op # "get" PROVE Quiet
    OBVIOUS
  <1>1. stack # <<>> /\ Taken = {} /\ Len(heap) \in Nat /\ Len(caches) \in Nat /\ Len(caches') = Len(caches)
        /\ caches' = caches
    BY FinishHeap, Parts DEF Taken, Finish
  <1>2. /\ HeapOK(heap', Len(caches)) /\ Grows(heap, heap') /\ Len(heap') = Len(MadeHeap)
        /\ \A i \in 1..Len(heap) : heap'[i].cache = heap[i].cache
        /\ Kind(Top) = "struct" => heap'[Len(heap) + 1].cache = 0
        /\ \A i \in 1..Len(heap') : heap'[i].parent = MadeHeap[i].parent
        /\ \A i \in 1..Len(heap) : MadeHeap[i] = heap[i]
        /\ Kind(Top) # "struct" => Len(MadeHeap) = Len(heap)
        /\ Kind(Top) = "struct" =>
              /\ Len(MadeHeap) = Len(heap) + 1
              /\ MadeHeap[Len(heap) + 1] = NewObject(DefOf(Top.obj, Top.field).of)
    BY <1>1, FinishHeap, MadeHeapOK
  <1>3. \A i \in 1..Len(heap) : i \in 1..Len(heap')
    BY <1>1, <1>2
  <1>4. ASSUME NEW i \in 1..Len(heap'), i > Len(heap) PROVE heap'[i].cache = 0 /\ heap'[i].parent = 0
    <2>1. Kind(Top) = "struct" /\ i = Len(heap) + 1
      BY <1>1, <1>2, <1>4
    <2>. QED BY <1>2, <2>1 DEF NewObject
  <1>5. \A a \in 1..Len(arrays) : arrays'[a] = arrays[a]
    BY FinishArrays
  <1>. QED BY <1>1, <1>2, <1>3, <1>4, <1>5 DEF Quiet

LEMMA CallQuiet ==
  ASSUME WellFormed, NEW o \in held, NEW f,
         \/ f \in Fields /\ (Get(o, f) \/ RefValue(o, f))
         \/ Size(o) \/ Parent(o) \/ MarshalJSON(o)
  PROVE  Quiet
  <1>1. o \in 1..Len(heap)
    BY DEF WellFormed
  <1>2. CASE f \in Fields /\ Get(o, f)
    <2>1. CASE Cached(o, f) # Unset
      BY <1>2, <2>1, SameQuiet DEF Get
    <2>2. CASE Cached(o, f) = Unset
      <3>. DEFINE none == <<>>
      <3>1. f \in Fields /\ HasField(o, f) /\ Enter("get", o, f, none) /\ UNCHANGED arrays
            /\ "get" \in {"get", "ref"}
        BY <1>2, <2>2 DEF Get
      <3>. HIDE DEF none
      <3>. QED BY ONLY WellFormed, <1>1, <3>1, EnterQuiet
    <2>. QED BY <2>1, <2>2
  <1>3. CASE f \in Fields /\ RefValue(o, f)
    <2>. DEFINE none == <<>>
    <2>1. f \in Fields /\ HasField(o, f) /\ Enter("ref", o, f, none) /\ UNCHANGED arrays
          /\ "ref" \in {"get", "ref"}
      BY <1>3 DEF RefValue
    <2>. HIDE DEF none
    <2>. QED BY ONLY WellFormed, <1>1, <2>1, EnterQuiet
  <1>4. CASE Size(o)
    BY <1>1, <1>4, CopyQuiet DEF Size
  <1>5. CASE Parent(o) \/ MarshalJSON(o)
    BY <1>5, SameQuiet DEF Parent, MarshalJSON
  <1>. QED BY <1>2, <1>3, <1>4, <1>5

\* Every step but the end of Get is quiet.
LEMMA StepsQuiet ==
  ASSUME WellFormed, [Next]_vars
  PROVE  Quiet \/ (Finish /\ Top.op = "get")
  <1>1. CASE EndPath \/ Access \/ Encode \/ Change \/ UNCHANGED vars
    BY <1>1, SameQuiet DEF EndPath, Access, Encode, Change, vars
  <1>2. CASE Descend
    <2>1. /\ Top.at.obj \in 1..Len(heap) /\ Head(Head(Top.paths)) \in Fields
          /\ HasField(Top.at.obj, Head(Head(Top.paths))) /\ UNCHANGED arrays
          /\ Enter("get", Top.at.obj, Head(Head(Top.paths)), stack) /\ "get" \in {"get", "ref"}
      BY <1>2, DescendMoves
    <2>. QED BY ONLY WellFormed, <2>1, EnterQuiet
  <1>3. CASE NextElement
    BY <1>3, NextElementQuiet
  <1>4. CASE Finish
    BY <1>4, FinishQuiet
  <1>5. ASSUME NEW o \in held, NEW f,
               \/ f \in Fields /\ (Get(o, f) \/ RefValue(o, f))
               \/ Size(o) \/ Parent(o) \/ MarshalJSON(o)
        PROVE  Quiet
    BY <1>5, CallQuiet
  <1>. QED BY <1>1, <1>2, <1>3, <1>4, <1>5 DEF Next, Step

-----------------------------------------------------------------------------
(* Nothing that is cached is written again.                                *)

\* What is cached stays.
CachesKeep ==
    /\ Len(caches) <= Len(caches')
    /\ \A c \in 1..Len(caches), f \in Fields :
          caches[c][f] # Unset => caches'[c][f] = caches[c][f]

\* The end of Get writes a field that was not cached.
LEMMA FinishWrites ==
  ASSUME WellFormed, Pending, Finish, Top.op = "get"
  PROVE  /\ heap[Top.obj].cache \in 1..Len(caches) /\ Top.field \in Fields
         /\ caches[heap[Top.obj].cache][Top.field] = Unset
         /\ caches'[heap[Top.obj].cache][Top.field] = Result
         /\ \A c \in 1..Len(caches), f \in Fields :
               c # heap[Top.obj].cache \/ f # Top.field => caches'[c][f] = caches[c][f]
         /\ Len(caches') = Len(caches) /\ CachesKeep
  <1>1. stack # <<>> /\ Len(stack) \in Nat /\ Len(stack) > 0 /\ Top = stack[Len(stack)]
    BY FinishHeap, Typed, TopParts
  <1>2. Len(stack) \in 1..Len(stack)
    BY <1>1
  <1>3. caches[heap[Top.obj].cache][Top.field] = Unset
    BY <1>1, <1>2 DEF Pending, PendingFrame
  <1>4. Len(caches) \in Nat
    BY Parts
  <1>. QED BY <1>3, <1>4, FinishCaches DEF CachesKeep

LEMMA QuietKeeps == ASSUME WellFormed, Quiet PROVE CachesKeep
  BY DEF Quiet, CachesKeep

LEMMA StepsKeep == ASSUME WellFormed, Pending, [Next]_vars PROVE CachesKeep
  BY StepsQuiet, QuietKeeps, FinishWrites

\* The frame fr of an evaluation that was not touched in this respect.
LEMMA PendingStays ==
  ASSUME WellFormed, Quiet, NEW fr, FrameOK(heap, Len(arrays), fr), PendingFrame(heap, caches, fr),
         NEW x, x.op = fr.op, x.obj = fr.obj, x.field = fr.field
  PROVE  PendingFrame(heap', caches', x)
  <1>. SUFFICES ASSUME fr.op = "get" PROVE caches'[heap'[fr.obj].cache][fr.field] = Unset
    BY DEF PendingFrame
  <1>1. fr.obj \in 1..Len(heap) /\ heap[fr.obj].cache # 0
    BY DEF FrameOK
  <1>2. heap[fr.obj].cache \in 1..Len(caches) /\ heap'[fr.obj].cache = heap[fr.obj].cache
    <2>1. heap[fr.obj].cache \in 0..Len(caches) /\ Len(caches) \in Nat
      BY <1>1, Parts, ObjectType
    <2>. QED BY <1>1, <2>1 DEF Quiet, Grows
  <1>. QED BY <1>2 DEF Quiet, PendingFrame

-----------------------------------------------------------------------------
(* The frames after a step.                                                *)

\* The frame x is fr, up to the elements of an array.
SameCore(x, fr) ==
    /\ x.op = fr.op /\ x.obj = fr.obj /\ x.field = fr.field
    /\ x.copy = fr.copy /\ x.paths = fr.paths /\ x.at = fr.at /\ x.last = fr.last

\* The frame x is that of a Get that has begun with this step.
Entered(x) ==
    \E below : \E o \in 1..Len(heap), f \in Fields :
        /\ HasField(o, f) /\ Cached(o, f) = Unset /\ Enter("get", o, f, below) /\ UNCHANGED arrays
        /\ x = Start("get", heap, o, f, DefOf(o, f).lambda)

\* The top after an access, and after the end of a path.
Accessed(x) ==
    \E v : /\ Access /\ x = Moved(Top, v) /\ ValueOK(Len(heap), Len(arrays), v) /\ v # Unset
           /\ Found(Top.at, Head(Head(Top.paths)), v)
PathEnded(x) == EndPath /\ x = Ended(Top, Encoded(Top.obj, Top.at))

\* The frame lo goes on as x, for Get, the top, has ended.
Answered(lo, x) == Finish /\ Top.op = "get" /\ Awaits(heap, lo, Top) /\ x = Moved(lo, Result)

FrameStep(i) ==
    \/ stack'[i].op # "get"
    \/ Entered(stack'[i])
    \/ i \in 1..Len(stack) /\ SameCore(stack'[i], stack[i])
    \/ i \in 1..Len(stack) /\ i = Len(stack) /\ Accessed(stack'[i])
    \/ i \in 1..Len(stack) /\ i = Len(stack) /\ PathEnded(stack'[i])
    \/ i \in 1..Len(stack) /\ Answered(stack[i], stack'[i])

LEMMA StackSame == ASSUME UNCHANGED stack PROVE \A i \in 1..Len(stack') : FrameStep(i)
  BY DEF FrameStep, SameCore

LEMMA OneFrame ==
  ASSUME NEW y, stack' = <<y>>, y.op # "get" \/ Entered(y)
  PROVE  \A i \in 1..Len(stack') : FrameStep(i)
  <1>1. Len(stack') = 1 /\ stack'[1] = y
    OBVIOUS
  <1>. QED BY <1>1 DEF FrameStep

LEMMA CallFrames ==
  ASSUME WellFormed, NEW o \in held, NEW f,
         \/ f \in Fields /\ (Get(o, f) \/ RefValue(o, f))
         \/ Size(o) \/ Parent(o) \/ MarshalJSON(o)
  PROVE  \A i \in 1..Len(stack') : FrameStep(i)
  <1>1. o \in 1..Len(heap)
    BY DEF WellFormed
  <1>. DEFINE none == <<>>
  <1>2. CASE f \in Fields /\ Get(o, f)
    <2>1. CASE Cached(o, f) # Unset
      BY <1>2, <2>1, StackSame DEF Get
    <2>2. CASE Cached(o, f) = Unset
      <3>. DEFINE y == Start("get", heap, o, f, DefOf(o, f).lambda)
      <3>1. f \in Fields /\ HasField(o, f) /\ Enter("get", o, f, none) /\ UNCHANGED arrays
            /\ "get" \in {"get", "ref"}
        BY <1>2, <2>2 DEF Get
      <3>. HIDE DEF none
      <3>2. stack' = Append(none, y)
        BY ONLY WellFormed, <1>1, <3>1, EnterMoves
      <3>3. Entered(y)
        BY ONLY <1>1, <2>2, <3>1 DEF Entered
      <3>. HIDE DEF y
      <3>4. stack' = <<y>>
        BY <3>2 DEF none
      <3>. QED BY <3>3, <3>4, OneFrame
    <2>. QED BY <2>1, <2>2
  <1>3. CASE f \in Fields /\ RefValue(o, f)
    <2>. DEFINE y == Start("ref", heap, o, f, DefOf(o, f).lambda)
    <2>1. f \in Fields /\ HasField(o, f) /\ Enter("ref", o, f, none) /\ "ref" \in {"get", "ref"}
      BY <1>3 DEF RefValue
    <2>. HIDE DEF none
    <2>2. stack' = Append(none, y) /\ y.op = "ref"
      BY ONLY WellFormed, <1>1, <2>1, EnterMoves
    <2>. HIDE DEF y
    <2>3. stack' = <<y>>
      BY <2>2 DEF none
    <2>. QED BY <2>2, <2>3, OneFrame
  <1>4. CASE Size(o)
    <2>. DEFINE y == Start("size", heap, o, "none", SizeLambda[heap[o].struct])
    <2>1. stack' = <<y>> /\ y.op = "size"
      BY <1>4 DEF Size, Start
    <2>. HIDE DEF y
    <2>. QED BY <2>1, OneFrame
  <1>5. CASE Parent(o)
    BY <1>5, StackSame DEF Parent
  <1>6. CASE MarshalJSON(o)
    <2>. DEFINE y == Marshal(heap, o)
    <2>1. stack' = <<y>> /\ y.op = "json"
      BY <1>1, <1>6, MarshalMoves DEF MarshalJSON
    <2>. HIDE DEF y
    <2>. QED BY <2>1, OneFrame
  <1>. QED BY <1>2, <1>3, <1>4, <1>5, <1>6

LEMMA StackSteps ==
  ASSUME WellFormed, [Next]_vars
  PROVE  \A i \in 1..Len(stack') : FrameStep(i)
  <1>. DEFINE n == Len(stack)
  <1>1. ASSUME stack # <<>>
        PROVE  n \in Nat /\ n > 0 /\ n \in 1..n /\ Top = stack[n] /\ Top \in Frame
    <2>1. n \in Nat /\ n > 0 /\ Top = stack[n] /\ Top \in Frame
      BY <1>1, Typed, TopParts
    <2>. QED BY <2>1
  <1>2. ASSUME stack # <<>>, Len(stack') = n, \A i \in 1..n - 1 : stack'[i] = stack[i], FrameStep(n)
        PROVE  \A i \in 1..Len(stack') : FrameStep(i)
    <2>1. \A i \in 1..Len(stack') : i = n \/ (i \in 1..n - 1 /\ i \in 1..n)
      BY <1>1, <1>2
    <2>. QED BY <1>2, <2>1 DEF FrameStep, SameCore
  <1>3. ASSUME stack # <<>>, Len(stack') = n + 1, \A i \in 1..n - 1 : stack'[i] = stack[i],
               FrameStep(n), FrameStep(n + 1)
        PROVE  \A i \in 1..Len(stack') : FrameStep(i)
    <2>1. \A i \in 1..Len(stack') : i = n \/ i = n + 1 \/ (i \in 1..n - 1 /\ i \in 1..n)
      BY <1>1, <1>3
    <2>. QED BY <1>3, <2>1 DEF FrameStep, SameCore
  <1>4. CASE Access
    <2>1. stack # <<>> /\ Top.paths # <<>> /\ Head(Top.paths) # <<>>
      BY <1>4, AccessMoves
    <2>2. PICK v : /\ stack' = Append(Below, Moved(Top, v))
                   /\ ValueOK(Len(heap), Len(arrays), v) /\ v # Unset
                   /\ Found(Top.at, Head(Head(Top.paths)), v)
      BY <1>4, AccessMoves
    <2>. DEFINE x == Moved(Top, v)
    <2>3. FrameOK(heap, Len(arrays), x) /\ x.op = Top.op /\ x.obj = Top.obj /\ x.field = Top.field
      BY <2>1, <2>2, Parts, TopParts, MovedOK
    <2>4. Accessed(x)
      BY <1>4, <2>2 DEF Accessed
    <2>. HIDE DEF x
    <2>5. Len(stack') = n /\ stack'[n] = x /\ \A i \in 1..n - 1 : stack'[i] = stack[i]
      BY <2>1, <2>2, <2>3, TopMoves DEF x
    <2>6. FrameStep(n)
      BY <1>1, <2>1, <2>4, <2>5 DEF FrameStep
    <2>. QED BY <1>2, <2>1, <2>5, <2>6
  <1>5. CASE EndPath
    <2>. DEFINE x == Ended(Top, Encoded(Top.obj, Top.at))
    <2>1. /\ stack # <<>> /\ stack' = Append(Below, x) /\ FrameOK(heap, Len(arrays), x)
          /\ x.op = Top.op /\ x.obj = Top.obj /\ x.field = Top.field
      BY <1>5, EndPathMoves
    <2>2. PathEnded(x)
      BY <1>5 DEF PathEnded
    <2>. HIDE DEF x
    <2>3. Len(stack') = n /\ stack'[n] = x /\ \A i \in 1..n - 1 : stack'[i] = stack[i]
      BY <2>1, TopMoves
    <2>4. FrameStep(n)
      BY <1>1, <2>1, <2>2, <2>3 DEF FrameStep
    <2>. QED BY <1>2, <2>1, <2>3, <2>4
  <1>6. CASE Descend
    <2>. DEFINE f == Head(Head(Top.paths))
                o == Top.at.obj
                y == Start("get", heap, o, f, DefOf(o, f).lambda)
    <2>1. /\ stack # <<>> /\ UNCHANGED arrays /\ o \in 1..Len(heap) /\ f \in Fields
          /\ HasField(o, f) /\ Cached(o, f) = Unset /\ Enter("get", o, f, stack)
          /\ "get" \in {"get", "ref"}
      BY <1>6, DescendMoves
    <2>. HIDE DEF f, o
    <2>2. stack' = Append(stack, y) /\ FrameOK(heap', Len(arrays), y)
      BY ONLY WellFormed, <2>1, EnterMoves
    <2>3. Entered(y)
      BY ONLY <2>1 DEF Entered
    <2>. HIDE DEF y
    <2>4. Len(stack') = n + 1 /\ stack'[n + 1] = y /\ \A i \in 1..n : stack'[i] = stack[i]
      BY <2>2, Typed, AppendProperties DEF FrameOK
    <2>5. FrameStep(n + 1) /\ FrameStep(n)
      BY <1>1, <2>1, <2>3, <2>4 DEF FrameStep, SameCore
    <2>6. \A i \in 1..n - 1 : stack'[i] = stack[i]
      BY <1>1, <2>1, <2>4
    <2>. QED BY <1>3, <2>1, <2>4, <2>5, <2>6
  <1>7. CASE NextElement
    <2>. DEFINE s == DefOf(Top.obj, Top.field).of
    <2>1. /\ stack # <<>> /\ InArray(Top) /\ HeapOK(heap', Len(caches)) /\ Grows(heap, heap')
          /\ ElementFixed(s) \/ ElementMeasured(s)
      BY <1>7, NextElementMoves
    <2>. HIDE DEF s
    <2>2. Len(caches) \in Nat /\ Len(arrays) \in Nat /\ Len(arrays) <= Len(arrays)
      BY Parts
    <2>3. ASSUME NEW x, FrameOK(heap', Len(arrays), x), x.op = Top.op, x.obj = Top.obj, x.field = Top.field
          PROVE  /\ Append(Below, x) \in Seq(Frame) /\ Len(Append(Below, x)) = n
                 /\ Append(Below, x)[n] = x /\ \A i \in 1..n - 1 : Append(Below, x)[i] = stack[i]
      <3>1. /\ StackOK(heap', Len(arrays), Append(Below, x)) /\ Len(Append(Below, x)) = n
            /\ Append(Below, x)[n] = x /\ \A i \in 1..n - 1 : Append(Below, x)[i] = stack[i]
        BY ONLY WellFormed, <2>1, <2>2, <2>3, TopMovesIn
      <3>. QED BY <3>1 DEF StackOK
    <2>4. \A out, left : LET x == WithOut(Top, out, left) IN SameCore(x, Top)
      BY <1>1, <2>1 DEF WithOut, Frame, SameCore
    <2>5. CASE ElementFixed(s)
      <3>. DEFINE x == WithOut(Top, Append(Top.out, Len(heap) + 1), Top.left - 1)
      <3>1. FrameOK(heap', Len(arrays), x) /\ stack' = Append(Below, x) /\ SameCore(x, Top)
        BY <2>4, <2>5 DEF ElementFixed
      <3>. HIDE DEF x
      <3>2. Len(stack') = n /\ stack'[n] = x /\ \A i \in 1..n - 1 : stack'[i] = stack[i]
        BY <2>3, <3>1 DEF SameCore
      <3>3. FrameStep(n)
        BY <1>1, <2>1, <3>1, <3>2 DEF FrameStep
      <3>. QED BY <1>2, <2>1, <3>2, <3>3
    <2>6. CASE ElementMeasured(s)
      <3>. DEFINE x == WithOut(Top, Top.out, Top.left - 1)
                  y == Start("size", Append(heap, NewObject(s)), Len(heap) + 1, "none", SizeLambda[s])
                  t == Append(Below, x)
      <3>1. FrameOK(heap', Len(arrays), x) /\ FrameOK(heap', Len(arrays), y)
            /\ stack' = Append(t, y) /\ SameCore(x, Top) /\ y.op = "size"
        BY <2>4, <2>6 DEF ElementMeasured
      <3>. HIDE DEF x, y
      <3>2. t \in Seq(Frame) /\ Len(t) = n /\ t[n] = x /\ \A i \in 1..n - 1 : t[i] = stack[i]
        BY <2>3, <3>1 DEF SameCore
      <3>. HIDE DEF t
      <3>3. Len(stack') = n + 1 /\ stack'[n + 1] = y /\ \A i \in 1..n : stack'[i] = t[i]
        BY <3>1, <3>2, AppendProperties DEF FrameOK
      <3>4. stack'[n] = x /\ \A i \in 1..n - 1 : stack'[i] = stack[i]
        BY <1>1, <2>1, <3>2, <3>3
      <3>5. FrameStep(n) /\ FrameStep(n + 1)
        BY <1>1, <2>1, <3>1, <3>3, <3>4 DEF FrameStep
      <3>. QED BY <1>3, <2>1, <3>3, <3>4, <3>5
    <2>. QED BY <2>1, <2>5, <2>6
  <1>8. CASE Encode
    <2>. DEFINE x == WithOut(Top, Tail(Top.out), Top.left)
                y == Marshal(heap, Head(Top.out))
                t == Append(Below, x)
    <2>1. /\ stack # <<>> /\ FrameOK(heap, Len(arrays), x) /\ stack' = Append(t, y)
          /\ x.op = "json" /\ x.op = Top.op /\ x.obj = Top.obj /\ x.field = Top.field
          /\ FrameOK(heap, Len(arrays), y) /\ y.op = "json"
      BY <1>8, EncodeMoves
    <2>. HIDE DEF x, y
    <2>2. StackOK(heap, Len(arrays), t) /\ Len(t) = n /\ t[n] = x /\ \A i \in 1..n - 1 : t[i] = stack[i]
      BY <2>1, TopMoves
    <2>. HIDE DEF t
    <2>3. Len(stack') = n + 1 /\ stack'[n + 1] = y /\ \A i \in 1..n : stack'[i] = t[i]
      BY <2>1, <2>2, AppendProperties DEF FrameOK, StackOK
    <2>4. stack'[n] = x /\ \A i \in 1..n - 1 : stack'[i] = stack[i]
      BY <1>1, <2>1, <2>2, <2>3
    <2>5. FrameStep(n) /\ FrameStep(n + 1)
      BY <2>1, <2>3, <2>4 DEF FrameStep
    <2>. QED BY <1>3, <2>1, <2>3, <2>4, <2>5
  <1>9. CASE Finish
    <2>1. stack # <<>>
      BY <1>9, FinishHeap
    <2>2. CASE n = 1
      <3>1. Len(stack') = 0
        BY <1>9, <2>2, FinishStack, EmptySeq
      <3>. QED BY <3>1
    <2>3. CASE n # 1
      <3>. DEFINE lo == stack[n - 1]
                  x == Resumed(lo, Top, Result)
      <3>1. n > 1 /\ Len(stack') = n - 1 /\ stack'[n - 1] = x /\ \A i \in 1..n - 2 : stack'[i] = stack[i]
        BY <1>9, <2>3, FinishStack
      <3>2. Awaits(heap, lo, Top) /\ Returned(lo, x) /\ FrameOK(heap, Len(arrays), lo)
        BY <1>9, <3>1, ResumedMoves
      <3>. HIDE DEF x
      <3>3. SameCore(x, lo) \/ Answered(lo, x)
        <4>1. lo \in Frame
          BY <3>2 DEF FrameOK
        <4>. QED BY <1>9, <3>2, <4>1 DEF Returned, WithOut, Frame, SameCore, Answered
      <3>4. FrameStep(n - 1)
        BY <1>1, <2>1, <3>1, <3>3 DEF FrameStep
      <3>5. \A i \in 1..Len(stack') : i = n - 1 \/ (i \in 1..n - 2 /\ i \in 1..n)
        BY <1>1, <2>1, <3>1
      <3>. QED BY <3>1, <3>4, <3>5 DEF FrameStep, SameCore
    <2>. QED BY <2>2, <2>3
  <1>10. CASE Change \/ UNCHANGED vars
    BY <1>10, StackSame DEF Change, vars
  <1>11. ASSUME NEW o \in held, NEW f,
               \/ f \in Fields /\ (Get(o, f) \/ RefValue(o, f))
               \/ Size(o) \/ Parent(o) \/ MarshalJSON(o)
        PROVE  \A i \in 1..Len(stack') : FrameStep(i)
    BY <1>11, CallFrames
  <1>. QED BY <1>4, <1>5, <1>6, <1>7, <1>8, <1>9, <1>10, <1>11 DEF Next, Step

-----------------------------------------------------------------------------
(* Pending, as long as NoReentry.                                          *)

LEMMA NewGetParts ==
  ASSUME WellFormed, NEW x, Entered(x)
  PROVE  /\ x.op = "get" /\ x.obj \in 1..Len(heap) /\ x.field \in Fields
         /\ x.paths = DefOf(x.obj, x.field).lambda /\ x.paths \in Lambda
         /\ HasField(x.obj, x.field) /\ Cached(x.obj, x.field) = Unset
         /\ HeapOK(heap', Len(caches')) /\ Grows(heap, heap')
         /\ heap'[x.obj].cache # 0
         /\ heap[x.obj].cache # 0 => caches' = caches
         /\ heap[x.obj].cache = 0 =>
               heap'[x.obj].cache = Len(caches) + 1 /\ caches'[Len(caches) + 1] = Blank
         /\ x.paths # <<>> => /\ Len(heap') = Len(heap) + 1 /\ x.copy = Len(heap')
                              /\ heap'[Len(heap')] = heap'[heap[x.obj].orig]
                              /\ x.at = Object(Len(heap'))
  <1>1. PICK below : \E o \in 1..Len(heap), f \in Fields :
           /\ HasField(o, f) /\ Cached(o, f) = Unset /\ Enter("get", o, f, below)
           /\ x = Start("get", heap, o, f, DefOf(o, f).lambda)
    BY DEF Entered
  <1>2. PICK o \in 1..Len(heap), f \in Fields :
           /\ HasField(o, f) /\ Cached(o, f) = Unset /\ Enter("get", o, f, below)
           /\ x = Start("get", heap, o, f, DefOf(o, f).lambda)
    BY <1>1
  <1>3. "get" \in {"get", "ref"} /\ HasField(o, f) /\ Enter("get", o, f, below)
    BY <1>2
  <1>. DEFINE y == Start("get", heap, o, f, DefOf(o, f).lambda)
              l == DefOf(o, f).lambda
  <1>4. /\ l \in Lambda /\ y.op = "get" /\ y.obj = o /\ y.field = f /\ y.paths = l
        /\ HeapOK(heap', Len(caches')) /\ Grows(heap, heap') /\ heap'[o].cache # 0
        /\ heap[o].cache # 0 => caches' = caches
        /\ heap[o].cache = 0 =>
              heap'[o].cache = Len(caches) + 1 /\ caches'[Len(caches) + 1] = Blank
        /\ l # <<>> => /\ Len(heap') = Len(heap) + 1 /\ y.copy = Len(heap')
                       /\ heap'[Len(heap')] = heap'[heap[o].orig] /\ y.at = Object(Len(heap'))
    BY ONLY WellFormed, o \in 1..Len(heap), f \in Fields, <1>3, EnterMoves
  <1>5. x = y
    BY <1>2
  <1>. HIDE DEF y
  <1>6. x.obj = o /\ x.field = f
    BY <1>4, <1>5
  <1>. QED BY <1>2, <1>4, <1>5, <1>6

\* A frame stays that of the same evaluation.
LEMMA SameEvaluation ==
  ASSUME WellFormed, NEW i \in 1..Len(stack'), FrameStep(i), stack'[i].op = "get", ~Entered(stack'[i])
  PROVE  /\ i \in 1..Len(stack) /\ stack[i].op = "get" /\ FrameOK(heap, Len(arrays), stack[i])
         /\ stack'[i].obj = stack[i].obj /\ stack'[i].field = stack[i].field
         /\ stack'[i].copy = stack[i].copy
  <1>1. i \in 1..Len(stack) /\ FrameOK(heap, Len(arrays), stack[i])
    BY DEF FrameStep, WellFormed, StackOK
  <1>2. CASE SameCore(stack'[i], stack[i])
    BY <1>1, <1>2 DEF SameCore
  <1>. DEFINE x == stack'[i]
              t == Top
  <1>3. CASE i = Len(stack) /\ Accessed(stack'[i])
    <2>1. stack # <<>> /\ t = stack[i] /\ FrameOK(heap, Len(arrays), t) /\ Len(heap) \in Nat
          /\ t.paths # <<>> /\ Head(t.paths) # <<>> /\ Len(arrays) \in Nat
      BY <1>3, AccessMoves, TopParts, Parts DEF Accessed
    <2>2. PICK v : x = Moved(t, v) /\ ValueOK(Len(heap), Len(arrays), v) /\ v # Unset
      BY <1>3 DEF Accessed
    <2>. HIDE DEF t
    <2>3. x.op = t.op /\ x.obj = t.obj /\ x.field = t.field /\ x.copy = t.copy
      BY ONLY <2>1, <2>2, MovedOK
    <2>. HIDE DEF x
    <2>4. t.op = "get"
      BY <2>3 DEF x
    <2>. QED BY <1>1, <2>1, <2>3, <2>4 DEF x
  <1>4. CASE i = Len(stack) /\ PathEnded(stack'[i])
    <2>1. stack # <<>> /\ EndPath
      BY <1>4, EndPathMoves DEF PathEnded
    <2>2. t = stack[i]
      BY <1>4, <2>1, TopParts
    <2>3. x.op = t.op /\ x.obj = t.obj /\ x.field = t.field /\ x.copy = t.copy
      BY <1>4, <2>1, EndPathMoves DEF PathEnded
    <2>. HIDE DEF t, x
    <2>4. t.op = "get"
      BY <2>3 DEF x
    <2>. QED BY <1>1, <2>2, <2>3, <2>4 DEF x
  <1>5. CASE Answered(stack[i], stack'[i])
    <2>1. /\ stack'[i] = Moved(stack[i], Result) /\ stack[i] \in Frame
      BY <1>1, <1>5 DEF Answered, FrameOK
    <2>. QED BY <1>1, <2>1 DEF Moved, Frame
  <1>. QED BY <1>1, <1>2, <1>3, <1>4, <1>5 DEF FrameStep

LEMMA NextPending == WellFormed /\ Pending /\ NoReentry /\ [Next]_vars => Pending'
  <1>. SUFFICES ASSUME WellFormed, Pending, NoReentry, [Next]_vars, NEW i \in 1..Len(stack'),
                       stack'[i].op = "get"
                PROVE  caches'[heap'[stack'[i].obj].cache][stack'[i].field] = Unset
    BY DEF Pending, PendingFrame
  <1>1. FrameStep(i)
    BY StackSteps
  <1>2. CASE Entered(stack'[i])
    <2>. DEFINE x == stack'[i]
    <2>. HIDE DEF x
    <2>1. /\ x.obj \in 1..Len(heap) /\ x.field \in Fields
          /\ Cached(x.obj, x.field) = Unset /\ Grows(heap, heap')
          /\ heap[x.obj].cache # 0 => caches' = caches
          /\ heap[x.obj].cache = 0 =>
                heap'[x.obj].cache = Len(caches) + 1 /\ caches'[Len(caches) + 1] = Blank
      BY <1>2, NewGetParts DEF x
    <2>2. CASE heap[x.obj].cache = 0
      BY <2>1, <2>2 DEF Blank, x
    <2>3. CASE heap[x.obj].cache # 0
      BY <2>1, <2>3 DEF Cached, Grows, x
    <2>. QED BY <2>2, <2>3
  <1>3. CASE ~Entered(stack'[i])
    <2>. DEFINE fr == stack[i]
                x == stack'[i]
    <2>1. /\ i \in 1..Len(stack) /\ fr.op = "get" /\ FrameOK(heap, Len(arrays), fr)
          /\ x.op = fr.op /\ x.obj = fr.obj /\ x.field = fr.field
      BY <1>1, <1>3, SameEvaluation
    <2>2. PendingFrame(heap, caches, fr)
      BY <2>1 DEF Pending
    <2>3. CASE Quiet
      BY <2>1, <2>2, <2>3, PendingStays DEF PendingFrame
    <2>4. CASE Finish /\ Top.op = "get"
      <3>1. /\ stack # <<>> /\ Len(stack) \in Nat /\ Len(stack) > 0 /\ Top = stack[Len(stack)]
            /\ Top.obj \in 1..Len(heap) /\ HeapOK(heap, Len(caches)) /\ Len(caches) \in Nat
            /\ Grows(heap, heap')
        BY <2>4, FinishHeap, Typed, TopParts, Parts
      <3>2. i < Len(stack) /\ i \in DOMAIN stack /\ Len(stack) \in DOMAIN stack
        <4>. DEFINE n == Len(stack)
                    m == Len(stack')
        <4>1. (n = 1 => m = 0) /\ (n # 1 => m = n - 1)
          BY <2>4, FinishStack, EmptySeq
        <4>2. DOMAIN stack = 1..n
          BY Typed
        <4>3. n \in Nat /\ n > 0 /\ i \in 1..n /\ i \in 1..m
          BY <2>1, <3>1
        <4>. HIDE DEF n, m
        <4>4. i < n /\ i \in 1..n /\ n \in 1..n
          BY ONLY <4>1, <4>3
        <4>. QED BY <4>2, <4>4 DEF n
      <3>3. heap[fr.obj].orig # heap[Top.obj].orig \/ fr.field # Top.field
        BY <2>1, <2>4, <3>1, <3>2 DEF NoReentry
      <3>4. fr.obj \in 1..Len(heap) /\ heap[fr.obj].cache # 0 /\ fr.field \in Fields
        BY <2>1 DEF FrameOK
      <3>5. heap[fr.obj].cache \in 1..Len(caches) /\ heap'[fr.obj].cache = heap[fr.obj].cache
        <4>1. heap[fr.obj].cache \in 0..Len(caches)
          BY <3>1, <3>4, ObjectType
        <4>. QED BY <3>1, <3>4, <4>1 DEF Grows
      <3>6. heap[fr.obj].cache = heap[Top.obj].cache => heap[fr.obj].orig = heap[Top.obj].orig
        BY <3>1, <3>4 DEF HeapOK
      <3>7. caches'[heap[fr.obj].cache][fr.field] = caches[heap[fr.obj].cache][fr.field]
        BY <2>4, <3>3, <3>4, <3>5, <3>6, FinishWrites
      <3>. QED BY <2>1, <2>2, <3>5, <3>7 DEF PendingFrame
    <2>. QED BY <2>3, <2>4, StepsQuiet
  <1>. QED BY <1>2, <1>3

LEMMA InitPending == Init => Pending
  BY EmptySeq DEF Init, Pending

LEMMA SpecPending == Spec /\ []NoReentry => []Pending
  BY InitPending, NextPending, SpecWF, PTL DEF Spec

(***************************************************************************)
(* What a struct has cached of a field is never written again, and its map *)
(* never replaced, if no field is evaluated inside its own evaluation:     *)
(* whoever holds the value the map has now holds the one it will have      *)
(* (struct.go:161-209).                                                    *)
(***************************************************************************)
CachedForGood ==
    [][/\ \A i \in 1..Len(heap) : heap[i].cache # 0 => heap'[i].cache = heap[i].cache
       /\ CachesKeep]_vars

THEOREM NothingCachedIsLost == Spec /\ []NoReentry => CachedForGood
  <1>1. WellFormed /\ Pending /\ [Next]_vars =>
          [/\ \A i \in 1..Len(heap) : heap[i].cache # 0 => heap'[i].cache = heap[i].cache
           /\ CachesKeep]_vars
    <2>. SUFFICES ASSUME WellFormed, Pending, [Next]_vars
                  PROVE  /\ \A i \in 1..Len(heap) : heap[i].cache # 0 => heap'[i].cache = heap[i].cache
                         /\ CachesKeep
      OBVIOUS
    <2>1. CachesKeep
      BY StepsKeep
    <2>2. Grows(heap, heap')
      BY StepsQuiet, FinishHeap DEF Quiet
    <2>. QED BY <2>1, <2>2 DEF Grows
  <1>. QED BY <1>1, SpecWF, SpecPending, PTL DEF Spec, CachedForGood

-----------------------------------------------------------------------------
(* FollowsOne.                                                             *)

\* The map of an object that has one stays, and objects that share it share it still.
LEMMA MapsStay ==
  ASSUME WellFormed, [Next]_vars
  PROVE  /\ Grows(heap, heap') /\ HeapOK(heap, Len(caches)) /\ Len(caches) \in Nat
         /\ \A i \in 1..Len(heap) : heap'[i].cache = heap[i].cache \/ heap'[i].cache > Len(caches)
         /\ \A i \in 1..Len(heap) : heap[i].cache # 0 => heap[i].cache \in 1..Len(caches)
  <1>1. HeapOK(heap, Len(caches)) /\ Len(caches) \in Nat
    BY Parts
  <1>2. \A i \in 1..Len(heap) : heap[i].cache # 0 => heap[i].cache \in 1..Len(caches)
    <2>1. \A i \in 1..Len(heap) : heap[i].cache \in 0..Len(caches)
      BY <1>1, ObjectType
    <2>. QED BY <1>1, <2>1
  <1>3. CASE Quiet
    BY <1>1, <1>2, <1>3 DEF Quiet
  <1>4. CASE Finish
    BY <1>1, <1>2, <1>4, FinishHeap
  <1>. QED BY <1>3, <1>4, StepsQuiet

LEMMA ReadsStays ==
  ASSUME WellFormed, Pending, [Next]_vars,
         NEW o \in 1..Len(heap), NEW g \in Fields, NEW v, Reads(heap, caches, o, g, v)
  PROVE  Reads(heap', caches', o, g, v)
  <1>1. heap[o].cache \in 1..Len(caches) /\ heap'[o].cache = heap[o].cache
    BY MapsStay DEF Reads, Grows
  <1>2. caches'[heap[o].cache][g] = caches[heap[o].cache][g]
    BY <1>1, StepsKeep DEF CachesKeep, Reads
  <1>3. heap[o].cache # 0 /\ v # Unset /\ v = caches[heap[o].cache][g]
    BY DEF Reads
  <1>. QED BY <1>1, <1>2, <1>3 DEF Reads

\* An evaluation of the same field of the same object, with the same copy.
LEMMA FollowStays ==
  ASSUME WellFormed, Pending, [Next]_vars,
         NEW fr, FrameOK(heap, Len(arrays), fr), fr.op = "get", FollowingOK(heap, caches, fr),
         NEW x, x.op = "get", x.obj = fr.obj, x.field = fr.field, x.copy = fr.copy,
         \A g \in Fields : Follows(heap[fr.obj].struct, fr.field, g) /\ fr.copy # 0
            /\ Following(heap, caches, fr, g) => Following(heap', caches', x, g)
  PROVE  FollowingOK(heap', caches', x)
  <1>1. fr.obj \in 1..Len(heap) /\ heap[fr.obj].cache # 0
        /\ fr.copy <= Len(heap) /\ fr.copy \in Nat
    BY DEF FrameOK, Frame
  <1>2. heap'[fr.obj].struct = heap[fr.obj].struct /\ heap'[fr.obj].orig = heap[fr.obj].orig
        /\ heap'[fr.obj].cache = heap[fr.obj].cache /\ heap[fr.obj].cache \in 1..Len(caches)
        /\ Len(caches) \in Nat
    BY <1>1, MapsStay DEF Grows
  <1>. SUFFICES ASSUME NEW g \in Fields, Follows(heap[fr.obj].struct, fr.field, g)
                PROVE  /\ fr.copy # 0 /\ Following(heap', caches', x, g)
                       /\ Shares(heap', fr.obj) => heap'[fr.copy].cache = heap'[fr.obj].cache
    BY <1>2 DEF FollowingOK
  <1>3. /\ fr.copy # 0 /\ Following(heap, caches, fr, g)
        /\ Shares(heap, fr.obj) => heap[fr.copy].cache = heap[fr.obj].cache
    BY DEF FollowingOK
  <1>4. Following(heap', caches', x, g)
    BY <1>3
  <1>5. ASSUME Shares(heap', fr.obj)
        PROVE  heap'[fr.copy].cache = heap'[fr.obj].cache
    <2>. DEFINE o == heap[fr.obj].orig
    <2>1. o \in 1..Len(heap)
      BY <1>1, MapsStay, ObjectType
    <2>2. heap'[o].cache = heap[o].cache \/ heap'[o].cache > Len(caches)
      BY <2>1, MapsStay
    <2>3. heap'[o].cache = heap[fr.obj].cache
      BY <1>2, <1>5 DEF Shares
    <2>. HIDE DEF o
    <2>4. heap[o].cache = heap[fr.obj].cache
      BY <1>2, <2>2, <2>3
    <2>5. Shares(heap, fr.obj)
      BY <2>4 DEF Shares, o
    <2>6. heap[fr.copy].cache = heap[fr.obj].cache /\ fr.copy \in 1..Len(heap)
      BY <1>1, <1>3, <2>5
    <2>. QED BY <1>1, <1>2, <2>6, MapsStay DEF Grows
  <1>. QED BY <1>3, <1>4, <1>5

\* What a move does to a frame.
LEMMA MovedParts ==
  ASSUME NEW fr \in Frame, fr.paths # <<>>, NEW v
  PROVE  /\ Moved(fr, v).op = fr.op /\ Moved(fr, v).obj = fr.obj /\ Moved(fr, v).field = fr.field
         /\ Moved(fr, v).copy = fr.copy /\ Moved(fr, v).last = fr.last /\ Moved(fr, v).at = v
         /\ Len(Moved(fr, v).paths) = Len(fr.paths) /\ Len(fr.paths) \in Nat /\ Len(fr.paths) > 0
         /\ Moved(fr, v).paths[1] = Tail(fr.paths[1])
         /\ \A i \in 1..Len(fr.paths) : i # 1 => Moved(fr, v).paths[i] = fr.paths[i]
         /\ Moved(fr, v).paths # <<>>
  <1>. DEFINE q == [fr.paths EXCEPT ![1] = Tail(@)]
  <1>1. fr.paths \in Seq(Path) /\ Len(fr.paths) \in Nat /\ Len(fr.paths) > 0
    BY FrameParts, LambdaParts DEF Lambda
  <1>2. /\ Len(q) = Len(fr.paths) /\ q[1] = Tail(fr.paths[1])
        /\ \A i \in 1..Len(fr.paths) : i # 1 => q[i] = fr.paths[i]
    BY <1>1
  <1>3. q # <<>>
    BY <1>1, <1>2, EmptySeq
  <1>. HIDE DEF q
  <1>4. Moved(fr, v) = [fr EXCEPT !.at = v, !.paths = q]
    BY DEF Moved, q, Frame
  <1>5. /\ Moved(fr, v).op = fr.op /\ Moved(fr, v).obj = fr.obj /\ Moved(fr, v).field = fr.field
        /\ Moved(fr, v).copy = fr.copy /\ Moved(fr, v).last = fr.last /\ Moved(fr, v).at = v
        /\ Moved(fr, v).paths = q
    BY <1>4 DEF Frame
  <1>. QED BY <1>1, <1>2, <1>3, <1>5

\* The one name of the path that is read last.
LEMMA OneName ==
  ASSUME NEW g
  PROVE  <<g>> # <<>> /\ Head(<<g>>) = g /\ Tail(<<g>>) = <<>>
  OBVIOUS

(***************************************************************************)
(* Whatever the value an access gives, an evaluation that follows g has    *)
(* read g when it comes to the end of its last path.                       *)
(***************************************************************************)
LEMMA MovedFollows ==
  ASSUME NEW h, NEW c, NEW h2, NEW c2, NEW fr \in Frame, NEW v, NEW g \in Fields,
         fr.paths # <<>>, Head(fr.paths) # <<>>, Following(h, c, fr, g),
         fr.paths[1] = <<g>> /\ fr.at = Object(fr.copy) => Reads(h2, c2, fr.copy, g, v)
  PROVE  Following(h2, c2, Moved(fr, v), g)
  <1>. DEFINE x == Moved(fr, v)
  <1>1. /\ x.copy = fr.copy /\ x.at = v /\ Len(x.paths) = Len(fr.paths)
        /\ Len(fr.paths) \in Nat /\ Len(fr.paths) > 0 /\ x.paths[1] = Tail(fr.paths[1])
        /\ \A i \in 1..Len(fr.paths) : i # 1 => x.paths[i] = fr.paths[i]
        /\ x.paths # <<>>
    BY MovedParts
  <1>. HIDE DEF x
  <1>2. Head(fr.paths) = fr.paths[1]
    BY FrameParts, LambdaParts
  <1>3. fr.paths[Len(fr.paths)] = <<g>> /\ (Len(fr.paths) = 1 => fr.at = Object(fr.copy))
    BY <1>2 DEF Following
  <1>4. CASE Len(fr.paths) = 1
    <2>1. fr.paths[1] = <<g>> /\ Reads(h2, c2, fr.copy, g, v)
      BY <1>3, <1>4
    <2>2. x.paths[1] = <<>> /\ Len(x.paths) = 1
      BY <1>1, <1>4, <2>1, OneName
    <2>. QED BY <1>1, <2>1, <2>2 DEF Following, x
  <1>5. CASE Len(fr.paths) # 1
    <2>. DEFINE n == Len(fr.paths)
    <2>1. n \in 1..n /\ Len(x.paths) = n /\ n # 1 /\ \A i \in 1..n : i # 1 => x.paths[i] = fr.paths[i]
      BY <1>1, <1>5
    <2>2. fr.paths[n] = <<g>>
      BY <1>3
    <2>. HIDE DEF n
    <2>3. Len(x.paths) # 1 /\ x.paths[Len(x.paths)] = <<g>>
      BY <2>1, <2>2
    <2>. QED BY <1>1, <2>3 DEF Following, x
  <1>. QED BY <1>4, <1>5

LEMMA EnteredFollows ==
  ASSUME WellFormed, NEW x, Entered(x)
  PROVE  FollowingOK(heap', caches', x)
  <1>1. /\ x.obj \in 1..Len(heap) /\ x.paths = DefOf(x.obj, x.field).lambda
        /\ HeapOK(heap', Len(caches')) /\ Grows(heap, heap')
        /\ x.paths # <<>> => /\ x.copy = Len(heap') /\ Len(heap') = Len(heap) + 1
                             /\ heap'[Len(heap')] = heap'[heap[x.obj].orig]
                             /\ x.at = Object(Len(heap'))
    BY NewGetParts
  <1>2. heap'[x.obj].struct = heap[x.obj].struct /\ heap'[x.obj].orig = heap[x.obj].orig
    BY <1>1 DEF Grows
  <1>. SUFFICES ASSUME NEW g \in Fields, Follows(heap[x.obj].struct, x.field, g)
                PROVE  /\ x.copy # 0 /\ Following(heap', caches', x, g)
                       /\ Shares(heap', x.obj) => heap'[x.copy].cache = heap'[x.obj].cache
    BY <1>2 DEF FollowingOK
  <1>3. x.paths # <<>> /\ x.paths[Len(x.paths)] = <<g>>
    BY <1>1 DEF Follows, DefOf
  <1>4. x.copy = Len(heap') /\ x.at = Object(x.copy) /\ x.copy # 0
        /\ heap'[x.copy] = heap'[heap[x.obj].orig]
    BY <1>1, <1>3, Typed
  <1>5. Shares(heap', x.obj) => heap'[x.copy].cache = heap'[x.obj].cache
    BY <1>2, <1>4 DEF Shares
  <1>. QED BY <1>3, <1>4, <1>5 DEF Following

LEMMA SameFollows ==
  ASSUME WellFormed, Pending, [Next]_vars,
         NEW fr, FrameOK(heap, Len(arrays), fr), fr.op = "get", FollowingOK(heap, caches, fr),
         NEW x, SameCore(x, fr)
  PROVE  FollowingOK(heap', caches', x)
  <1>1. x.op = "get" /\ x.obj = fr.obj /\ x.field = fr.field /\ x.copy = fr.copy
    BY DEF SameCore
  <1>2. ASSUME NEW g \in Fields, fr.copy # 0, Following(heap, caches, fr, g)
        PROVE  Following(heap', caches', x, g)
    <2>1. fr.copy \in 1..Len(heap)
      BY <1>2, Typed DEF FrameOK, Frame
    <2>2. \A v : Reads(heap, caches, fr.copy, g, v) => Reads(heap', caches', fr.copy, g, v)
      BY <2>1, ReadsStays
    <2>. QED BY <1>2, <2>2 DEF SameCore, Following
  <1>. QED BY <1>1, <1>2, FollowStays

\* The copy is of a struct with the field that is followed.
LEMMA CopyHasField ==
  ASSUME WellFormed, NEW fr, FrameOK(heap, Len(arrays), fr), fr.paths # <<>>,
         NEW g \in Fields, Follows(heap[fr.obj].struct, fr.field, g)
  PROVE  fr.copy \in 1..Len(heap) /\ KindOf(heap, fr.copy, g) # "absent"
  <1>1. fr.copy \in 1..Len(heap) /\ fr.obj \in 1..Len(heap) /\ heap[fr.copy].orig = heap[fr.obj].orig
    BY Typed DEF FrameOK, Frame
  <1>2. heap[fr.copy].struct = heap[fr.obj].struct
    BY <1>1, Parts DEF HeapOK, ObjectOK
  <1>. QED BY <1>1, <1>2 DEF Follows, KindOf

LEMMA AccessedFollows ==
  ASSUME WellFormed, Pending, [Next]_vars, NEW x, Accessed(x), Top.op = "get",
         FollowingOK(heap, caches, Top)
  PROVE  FollowingOK(heap', caches', x)
  <1>. DEFINE t == Top
  <1>1. PICK v : /\ Access /\ x = Moved(t, v) /\ ValueOK(Len(heap), Len(arrays), v) /\ v # Unset
                 /\ Found(t.at, Head(Head(t.paths)), v)
    BY DEF Accessed
  <1>2. /\ t.paths # <<>> /\ Head(t.paths) # <<>> /\ t \in Frame
        /\ FrameOK(heap, Len(arrays), t) /\ UNCHANGED <<heap, caches>>
    BY <1>1, AccessMoves, TopParts
  <1>. HIDE DEF t
  <1>3. x.op = t.op /\ x.obj = t.obj /\ x.field = t.field /\ x.copy = t.copy
    BY <1>1, <1>2, MovedParts
  <1>4. ASSUME NEW g \in Fields, Follows(heap[t.obj].struct, t.field, g), Following(heap, caches, t, g)
        PROVE  Following(heap', caches', x, g)
    <2>1. ASSUME t.paths[1] = <<g>>, t.at = Object(t.copy)
          PROVE  Reads(heap', caches', t.copy, g, v)
      <3>1. Head(t.paths) = t.paths[1]
        BY <1>2, FrameParts, LambdaParts
      <3>2. Found(Object(t.copy), g, v)
        BY <1>1, <2>1, <3>1, OneName
      <3>3. t.copy \in 1..Len(heap) /\ KindOf(heap, t.copy, g) # "absent"
        BY <1>2, <1>4, CopyHasField
      <3>4. g # "Parent"
        BY StructAssumption
      <3>5. Reads(heap, caches, t.copy, g, v)
        BY <3>2, <3>3, <3>4 DEF Found, Object
      <3>. QED BY <1>2, <3>5
    <2>. QED BY <1>1, <1>2, <1>4, <2>1, MovedFollows
  <1>5. FollowingOK(heap, caches, t) /\ t.op = "get"
    BY DEF t
  <1>. QED BY <1>2, <1>3, <1>4, <1>5, FollowStays

LEMMA EndedFollows ==
  ASSUME WellFormed, Pending, [Next]_vars, NEW x, PathEnded(x), Top.op = "get",
         FollowingOK(heap, caches, Top)
  PROVE  FollowingOK(heap', caches', x)
  <1>. DEFINE t == Top
  <1>1. /\ t.paths # <<>> /\ Head(t.paths) = <<>> /\ UNCHANGED <<heap, caches>>
        /\ x.op = t.op /\ x.obj = t.obj /\ x.field = t.field /\ x.copy = t.copy
        /\ x.last = t.at /\ x.paths = Tail(t.paths) /\ x.at = Object(t.copy) /\ stack # <<>>
    BY EndPathMoves DEF PathEnded
  <1>2. FrameOK(heap, Len(arrays), t) /\ t \in Frame /\ FollowingOK(heap, caches, t) /\ t.op = "get"
    BY <1>1, TopParts
  <1>. HIDE DEF t
  <1>. DEFINE n == Len(t.paths)
              p == t.paths
              q == x.paths
  <1>3. /\ n \in Nat /\ n > 0 /\ p[1] = <<>> /\ Len(q) = n - 1 /\ \A i \in 1..n - 1 : q[i] = p[i + 1]
        /\ Len(q) > 0 => q # <<>>
    <2>1. p \in Lambda /\ p # <<>> /\ q = Tail(p) /\ Head(p) = <<>>
      BY <1>1, <1>2, FrameParts
    <2>. HIDE DEF p, q
    <2>2. /\ Len(p) \in Nat /\ Len(p) > 0 /\ p[1] = <<>> /\ q \in Lambda /\ Len(q) = Len(p) - 1
          /\ \A i \in 1..Len(q) : q[i] = p[i + 1]
      BY <2>1, LambdaParts
    <2>3. Len(q) > 0 => q # <<>>
      BY <2>2, LambdaParts
    <2>. QED BY <2>2, <2>3 DEF p
  <1>4. Len(q) = 0 => q = <<>>
    BY <1>1, <1>2, FrameParts, LambdaParts, EmptySeq DEF Lambda
  <1>5. ASSUME NEW g \in Fields, Following(heap, caches, t, g)
        PROVE  Following(heap', caches', x, g)
    <2>1. \/ n = 1 /\ Reads(heap, caches, t.copy, g, t.at)
          \/ p[n] = <<g>>
      BY <1>1, <1>5 DEF Following
    <2>. HIDE DEF n, p, q
    <2>2. CASE n = 1 /\ Reads(heap, caches, t.copy, g, t.at)
      BY <1>1, <1>3, <1>4, <2>2 DEF Following, q
    <2>3. CASE p[n] = <<g>>
      <3>1. n # 1
        BY <1>3, <2>3, OneName
      <3>2. n - 1 \in 1..n - 1 /\ Len(q) = n - 1 /\ q[n - 1] = <<g>> /\ q # <<>>
        <4>1. n - 1 \in 1..n - 1 /\ (n - 1) + 1 = n /\ n - 1 > 0
          BY <1>3, <3>1
        <4>. QED BY <1>3, <2>3, <4>1
      <3>. QED BY <1>1, <3>2 DEF Following, q
    <2>. QED BY <2>1, <2>2, <2>3
  <1>. QED BY <1>1, <1>2, <1>5, FollowStays

LEMMA AnsweredFollows ==
  ASSUME WellFormed, Pending, [Next]_vars, NEW lo, FrameOK(heap, Len(arrays), lo), lo.op = "get",
         FollowingOK(heap, caches, lo), NEW x, Answered(lo, x)
  PROVE  FollowingOK(heap', caches', x)
  <1>1. /\ Finish /\ Top.op = "get" /\ Awaits(heap, lo, Top) /\ x = Moved(lo, Result)
        /\ lo \in Frame
    BY DEF Answered, FrameOK
  <1>2. /\ lo.paths # <<>> /\ Head(lo.paths) # <<>> /\ lo.at.obj = Top.obj
        /\ Head(Head(lo.paths)) = Top.field
    BY <1>1 DEF Awaits
  <1>3. x.op = lo.op /\ x.obj = lo.obj /\ x.field = lo.field /\ x.copy = lo.copy
    BY <1>1, <1>2, MovedParts
  <1>4. ASSUME NEW g \in Fields, Following(heap, caches, lo, g)
        PROVE  Following(heap', caches', x, g)
    <2>1. ASSUME lo.paths[1] = <<g>>, lo.at = Object(lo.copy)
          PROVE  Reads(heap', caches', lo.copy, g, Result)
      <3>1. Head(lo.paths) = lo.paths[1]
        BY <1>1, <1>2, FrameParts, LambdaParts
      <3>2. g = Top.field /\ lo.copy = Top.obj
        BY <1>2, <2>1, <3>1, OneName DEF Object
      <3>3. Top.obj \in 1..Len(heap) /\ heap[Top.obj].cache # 0
        <4>1. stack # <<>>
          BY <1>1, FinishHeap
        <4>. QED BY <1>1, <4>1, TopParts DEF FrameOK
      <3>4. heap'[Top.obj].cache = heap[Top.obj].cache
        BY <1>1, <3>3, FinishHeap
      <3>5. Result # Unset /\ caches'[heap[Top.obj].cache][Top.field] = Result
        BY <1>1, FinishArrays, FinishWrites
      <3>. QED BY <3>2, <3>3, <3>4, <3>5 DEF Reads
    <2>. QED BY <1>1, <1>2, <1>4, <2>1, MovedFollows
  <1>. QED BY <1>3, <1>4, FollowStays

LEMMA NextFollowsOne == WellFormed /\ Pending /\ FollowsOne /\ [Next]_vars => FollowsOne'
  <1>. SUFFICES ASSUME WellFormed, Pending, FollowsOne, [Next]_vars, NEW i \in 1..Len(stack'),
                       stack'[i].op = "get"
                PROVE  FollowingOK(heap', caches', stack'[i])
    BY DEF FollowsOne, FollowingOK
  <1>1. FrameStep(i)
    BY StackSteps
  <1>2. CASE Entered(stack'[i])
    BY <1>2, EnteredFollows
  <1>3. CASE ~Entered(stack'[i])
    <2>1. /\ i \in 1..Len(stack) /\ stack[i].op = "get" /\ FrameOK(heap, Len(arrays), stack[i])
      BY <1>1, <1>3, SameEvaluation
    <2>2. FollowingOK(heap, caches, stack[i])
      BY <2>1 DEF FollowsOne
    <2>3. CASE SameCore(stack'[i], stack[i])
      BY <2>1, <2>2, <2>3, SameFollows
    <2>4. CASE i = Len(stack) /\ (Accessed(stack'[i]) \/ PathEnded(stack'[i]))
      <3>1. Top = stack[i]
        BY <2>4 DEF Top
      <3>. QED BY <2>1, <2>2, <2>4, <3>1, AccessedFollows, EndedFollows
    <2>5. CASE Answered(stack[i], stack'[i])
      BY <2>1, <2>2, <2>5, AnsweredFollows
    <2>. QED BY <1>1, <1>3, <2>3, <2>4, <2>5 DEF FrameStep
  <1>. QED BY <1>2, <1>3

-----------------------------------------------------------------------------
(* View.                                                                   *)

\* What is known of a struct of which nothing new is cached.
LEMMA ViewKept ==
  ASSUME NEW h, NEW h2, NEW c, NEW c2, NEW o, h2[o].struct = h[o].struct,
         h2[o].cache = h[o].cache, c2[h[o].cache] = c[h[o].cache], ViewOf(h, c, o)
  PROVE  ViewOf(h2, c2, o)
  BY DEF ViewOf, KindOf

LEMMA QuietView == WellFormed /\ View /\ Quiet => View'
  <1>. SUFFICES ASSUME WellFormed, View, Quiet, NEW o \in 1..Len(heap'),
                       heap'[o].orig = o, heap'[o].cache # 0
                PROVE  ViewOf(heap', caches', o)
    BY DEF View
  <1>1. Len(caches) \in Nat /\ Len(heap) \in Nat /\ HeapOK(heap, Len(caches))
    BY Parts
  <1>2. /\ HeapOK(heap', Len(caches')) /\ Grows(heap, heap') /\ Len(caches') \in Nat
        /\ \A c \in 1..Len(caches) : caches'[c] = caches[c]
        /\ \A c \in 1..Len(caches') : c > Len(caches) => caches'[c] = Blank
        /\ \A i \in 1..Len(heap) : heap'[i].cache = heap[i].cache \/ heap'[i].cache > Len(caches)
        /\ \A i \in 1..Len(heap') : i > Len(heap) /\ heap'[i].orig = i => heap'[i].cache = 0
    BY DEF Quiet
  <1>3. o \in 1..Len(heap)
    BY <1>1, <1>2
  <1>4. heap[o].struct = heap'[o].struct /\ heap[o].orig = o /\ heap[o].cache \in 0..Len(caches)
        /\ heap'[o].cache \in 0..Len(caches')
    BY <1>1, <1>2, <1>3, ObjectType DEF Grows
  <1>5. CASE heap'[o].cache = heap[o].cache
    <2>1. heap[o].cache \in 1..Len(caches) /\ ViewOf(heap, caches, o)
      BY <1>1, <1>3, <1>4, <1>5 DEF View
    <2>. QED BY <1>2, <1>4, <1>5, <2>1, ViewKept
  <1>6. CASE heap'[o].cache > Len(caches)
    <2>1. heap'[o].cache \in 1..Len(caches')
      BY <1>1, <1>2, <1>4, <1>6
    <2>2. caches'[heap'[o].cache] = Blank
      BY <1>2, <1>6, <2>1
    <2>. QED BY <2>2 DEF ViewOf, Blank
  <1>. QED BY <1>2, <1>3, <1>5, <1>6

(***************************************************************************)
(* The field that is cached last follows another: that was cached before,  *)
(* in the same map, for the copy has the map of the object.                *)
(***************************************************************************)
LEMMA FinishView == WellFormed /\ Pending /\ FollowsOne /\ View /\ Finish /\ Top.op = "get" => View'
  <1>. SUFFICES ASSUME WellFormed, Pending, FollowsOne, View, Finish, Top.op = "get",
                       NEW o \in 1..Len(heap'), heap'[o].orig = o, heap'[o].cache # 0
                PROVE  ViewOf(heap', caches', o)
    BY DEF View
  <1>. DEFINE t == Top
              m == heap[Top.obj].cache
              r == heap[Top.obj].orig
  <1>1. /\ stack # <<>> /\ t.paths = <<>> /\ Grows(heap, heap') /\ Len(heap') = Len(MadeHeap)
        /\ \A i \in 1..Len(heap) : heap'[i].cache = heap[i].cache
        /\ Kind(t) = "struct" => heap'[Len(heap) + 1].cache = 0
        /\ FrameOK(heap, Len(arrays), t) /\ t \in Frame /\ t.obj \in 1..Len(heap)
        /\ HeapOK(heap, Len(caches)) /\ Len(heap) \in Nat /\ Len(caches) \in Nat /\ t.op = "get"
    BY FinishHeap, TopParts, Parts
  <1>2. /\ m \in 1..Len(caches) /\ t.field \in Fields
        /\ caches[m][t.field] = Unset /\ caches'[m][t.field] = Result
        /\ \A c \in 1..Len(caches), f \in Fields : c # m \/ f # t.field => caches'[c][f] = caches[c][f]
    BY FinishWrites
  <1>3. FollowingOK(heap, caches, t)
    <2>1. Len(stack) \in 1..Len(stack) /\ t = stack[Len(stack)]
      BY <1>1, TopParts, Typed
    <2>. QED BY <2>1 DEF FollowsOne
  <1>4. /\ Kind(t) = KindOf(heap, t.obj, t.field)
        /\ Kind(t) = "int" => Result.off = t.last.at
        /\ Kind(t) = "value" => Result = t.last
    BY <1>1, KindParts, ResultParts
  <1>5. o \in 1..Len(heap)
    BY <1>1, MadeHeapOK
  <1>6. /\ heap[o].struct = heap'[o].struct /\ heap[o].orig = o /\ heap'[o].cache = heap[o].cache
        /\ heap[o].cache # 0
    BY <1>1, <1>5 DEF Grows
  <1>7. ViewOf(heap, caches, o) /\ heap[o].cache \in 1..Len(caches)
    <2>1. heap[o].cache \in 0..Len(caches)
      BY <1>1, <1>5, ObjectType
    <2>. QED BY <1>1, <1>5, <1>6, <2>1 DEF View
  <1>. HIDE DEF t, m
  <1>8. CASE heap[o].cache # m
    <2>1. \A f \in Fields : caches'[heap[o].cache][f] = caches[heap[o].cache][f]
      BY <1>2, <1>7, <1>8
    <2>. QED BY ONLY <1>6, <1>7, <2>1 DEF ViewOf, KindOf
  <1>9. CASE heap[o].cache = m
    <2>1. o = r /\ heap[t.obj].cache = m /\ heap[t.obj].struct = heap[o].struct
      <3>1. heap[t.obj].cache = m
        BY DEF t, m
      <3>2. heap[t.obj].orig = heap[o].orig
        BY <1>1, <1>5, <1>6, <1>9, <3>1 DEF HeapOK
      <3>3. heap[heap[t.obj].orig].struct = heap[t.obj].struct
        BY <1>1 DEF HeapOK, ObjectOK
      <3>. QED BY <1>6, <3>1, <3>2, <3>3 DEF t
    <2>2. Shares(heap, t.obj)
      BY <1>9, <2>1 DEF Shares, t
    <2>. SUFFICES ASSUME NEW f \in Fields, NEW g \in Fields, Follows(heap[o].struct, f, g),
                         caches'[m][f] # Unset
                  PROVE  /\ caches'[m][g] # Unset
                         /\ KindOf(heap, o, f) = "value" => caches'[m][f] = caches'[m][g]
                         /\ KindOf(heap, o, f) = "int" => caches'[m][f].off = caches'[m][g].at
      BY <1>6, <1>9 DEF ViewOf, KindOf
    <2>3. CASE f = t.field
      <3>1. /\ t.copy # 0 /\ Following(heap, caches, t, g)
            /\ heap[t.copy].cache = m
        BY <1>1, <1>3, <2>1, <2>2, <2>3 DEF FollowingOK
      <3>2. Reads(heap, caches, t.copy, g, t.last)
        <4>. DEFINE none == <<>>
        <4>1. t.paths = none /\ Len(none) = 0
          BY <1>1
        <4>. QED BY <3>1, <4>1 DEF Following
      <3>3. t.last # Unset /\ t.last = caches[m][g]
        BY <3>1, <3>2 DEF Reads
      <3>4. g # t.field
        BY <1>2, <3>3
      <3>5. caches'[m][g] = t.last /\ caches'[m][f] = Result
        BY <1>2, <2>3, <3>3, <3>4
      <3>6. KindOf(heap, o, f) = Kind(t)
        BY <1>4, <2>1, <2>3 DEF KindOf
      <3>. QED BY <1>4, <3>3, <3>5, <3>6
    <2>4. CASE f # t.field
      <3>1. caches'[m][f] = caches[m][f]
        BY <1>2, <2>4
      <3>2. /\ caches[m][g] # Unset
            /\ KindOf(heap, o, f) = "value" => caches[m][f] = caches[m][g]
            /\ KindOf(heap, o, f) = "int" => caches[m][f].off = caches[m][g].at
        BY <1>7, <1>9, <3>1 DEF ViewOf
      <3>3. caches'[m][g] = caches[m][g]
        BY <1>2, <3>2
      <3>. QED BY <3>1, <3>2, <3>3
    <2>. QED BY <2>3, <2>4
  <1>. QED BY <1>8, <1>9

LEMMA NextView == WellFormed /\ Pending /\ FollowsOne /\ View /\ [Next]_vars => View'
  BY QuietView, FinishView, StepsQuiet

LEMMA InitView == Init => FollowsOne /\ View
  <1>. SUFFICES ASSUME Init PROVE FollowsOne /\ View
    OBVIOUS
  <1>1. stack = <<>> /\ \E s \in Roots : heap = <<[struct |-> s, orig |-> 1, cache |-> 0, parent |-> 0]>>
    BY DEF Init
  <1>2. \A o \in 1..Len(heap) : heap[o].cache = 0
    BY <1>1
  <1>. QED BY <1>1, <1>2, EmptySeq DEF FollowsOne, View

LEMMA ViewConsistent == WellFormed /\ View => ConsistentView
  <1>. SUFFICES ASSUME WellFormed, View, NEW o \in Originals, NEW f \in Fields, NEW g \in Fields,
                       Follows(heap[o].struct, f, g), Cached(o, f) # Unset
                PROVE  /\ Cached(o, g) # Unset
                       /\ DefOf(o, f).kind = "value" => Cached(o, f) = Cached(o, g)
                       /\ DefOf(o, f).kind = "int" => Cached(o, f).off = Cached(o, g).at
    BY DEF ConsistentView
  <1>1. o \in 1..Len(heap) /\ heap[o].orig = o
    BY Typed DEF Originals
  <1>2. heap[o].cache # 0
    BY DEF Cached
  <1>3. Cached(o, f) = caches[heap[o].cache][f] /\ Cached(o, g) = caches[heap[o].cache][g]
    BY <1>2 DEF Cached
  <1>. QED BY <1>1, <1>2, <1>3 DEF View, ViewOf, KindOf, DefOf

(***************************************************************************)
(* A struct is one consistent view of the data: a value field that answers *)
(* another has the very value that is cached for it, and an int was read   *)
(* at the offset the cached field gives, whatever the definitions and      *)
(* however often the data changed in between, as long as no field is       *)
(* evaluated inside its own evaluation (struct.go:161-209, 252-259).       *)
(***************************************************************************)
THEOREM StructIsOneView == Spec /\ []NoReentry => []ConsistentView
  BY InitView, NextView, NextFollowsOne, ViewConsistent, SpecWF, SpecPending, PTL DEF Spec

-----------------------------------------------------------------------------
(* Knows.                                                                  *)

\* What the parent has it keeps.
LEMMA HasStays ==
  ASSUME WellFormed, Pending, [Next]_vars, NEW p \in 1..Len(heap), NEW o,
         Has(heap, caches, arrays, p, o)
  PROVE  Has(heap', caches', arrays', p, o)
  <1>1. PICK f \in Fields : LET v == caches[heap[p].cache][f] IN
           v = Object(o) \/ (v.type = "array" /\ o \in Range(arrays[v.obj]))
    BY DEF Has
  <1>. DEFINE v == caches[heap[p].cache][f]
  <1>2. /\ heap[p].cache # 0 /\ heap[p].cache \in 1..Len(caches)
        /\ heap'[p].cache = heap[p].cache
    BY MapsStay DEF Has, Grows
  <1>3. v # Unset
    BY <1>1 DEF Object, Unset
  <1>4. caches'[heap[p].cache][f] = v
    BY <1>2, <1>3, StepsKeep DEF CachesKeep
  <1>5. ASSUME v.type = "array" PROVE arrays'[v.obj] = arrays[v.obj]
    <2>1. ValueOK(Len(heap), Len(arrays), v)
      BY <1>2, Parts DEF CachesOK
    <2>2. v.obj \in 1..Len(arrays)
      BY <1>5, <2>1 DEF ValueOK
    <2>3. \A a \in 1..Len(arrays) : arrays'[a] = arrays[a]
      BY StepsQuiet, FinishArrays DEF Quiet
    <2>. QED BY <2>2, <2>3
  <1>. HIDE DEF v
  <1>6. v = Object(o) \/ (v.type = "array" /\ o \in Range(arrays'[v.obj]))
    BY <1>1, <1>5 DEF v
  <1>. QED BY <1>2, <1>4, <1>6 DEF Has

LEMMA QuietKnows == WellFormed /\ Pending /\ Knows /\ [Next]_vars /\ Quiet => Knows'
  <1>. SUFFICES ASSUME WellFormed, Pending, Knows, [Next]_vars, Quiet, NEW o \in 1..Len(heap'),
                       heap'[o].orig = o, heap'[o].parent # 0
                PROVE  Has(heap', caches', arrays', heap'[o].parent, o)
    BY DEF Knows
  <1>1. Len(heap) \in Nat /\ HeapOK(heap, Len(caches)) /\ Len(caches) \in Nat
    BY Parts
  <1>2. /\ HeapOK(heap', Len(caches')) /\ Len(caches') \in Nat /\ Grows(heap, heap')
        /\ \A i \in 1..Len(heap) : heap'[i].parent = heap[i].parent
        /\ \A i \in 1..Len(heap') : i > Len(heap) /\ heap'[i].orig = i => heap'[i].parent = 0
    BY DEF Quiet
  <1>3. o \in 1..Len(heap)
    <2>1. ~ (o > Len(heap))
      BY <1>2
    <2>2. o \in Nat /\ o >= 1
      OBVIOUS
    <2>. QED BY ONLY <1>1, <2>1, <2>2
  <1>4. heap'[o].parent = heap[o].parent /\ heap[o].orig = o /\ heap[o].parent \in 0..Len(heap)
    BY <1>1, <1>2, <1>3, ObjectType DEF Grows
  <1>5. heap[o].parent \in 1..Len(heap) /\ Has(heap, caches, arrays, heap[o].parent, o)
    BY <1>1, <1>3, <1>4 DEF Knows
  <1>. QED BY <1>4, <1>5, HasStays

\* What Get takes for its own is what it caches.
LEMMA FinishKnows ==
  WellFormed /\ Pending /\ Knows /\ [Next]_vars /\ Finish /\ Top.op = "get" => Knows'
  <1>. SUFFICES ASSUME WellFormed, Pending, Knows, [Next]_vars, Finish, Top.op = "get",
                       NEW o \in 1..Len(heap'), heap'[o].orig = o, heap'[o].parent # 0
                PROVE  Has(heap', caches', arrays', heap'[o].parent, o)
    BY DEF Knows
  <1>1. /\ Len(heap) \in Nat /\ HeapOK(heap, Len(caches)) /\ Len(caches) \in Nat
        /\ stack # <<>> /\ Grows(heap, heap') /\ Len(heap') = Len(MadeHeap)
        /\ \A i \in 1..Len(heap) : heap'[i].cache = heap[i].cache
        /\ heap'[o].parent = IF o \in Taken THEN Top.obj ELSE MadeHeap[o].parent
    BY FinishHeap, Parts
  <1>2. CASE o \in Taken
    <2>1. heap'[o].parent = Top.obj
      BY <1>1, <1>2
    <2>2. heap[Top.obj].cache # 0 /\ heap'[Top.obj].cache = heap[Top.obj].cache
      BY <1>1, TopParts DEF FrameOK
    <2>3. caches'[heap[Top.obj].cache][Top.field] = Result /\ Top.field \in Fields
      BY FinishWrites
    <2>4. Result = Object(o) \/ (Result.type = "array" /\ o \in Range(arrays'[Result.obj]))
      <3>1. o \in Adopted(Result)
        BY <1>2 DEF Taken
      <3>2. Result.type = "object" => Result = Object(Result.obj)
        BY FinishArrays DEF ValueOK
      <3>. QED BY <3>1, <3>2 DEF Adopted
    <2>. QED BY <2>1, <2>2, <2>3, <2>4 DEF Has
  <1>3. CASE o \notin Taken
    <2>1. heap'[o].parent = MadeHeap[o].parent
      BY <1>1, <1>3
    <2>2. o \in 1..Len(heap) /\ MadeHeap[o] = heap[o]
      <3>1. o > Len(heap) => Kind(Top) = "struct" /\ o = Len(heap) + 1
        BY <1>1, MadeHeapOK
      <3>2. o > Len(heap) => MadeHeap[o].parent = 0
        BY <1>1, <3>1, MadeHeapOK DEF NewObject
      <3>. QED BY <1>1, <2>1, <3>2, MadeHeapOK
    <2>3. heap'[o].parent = heap[o].parent /\ heap[o].orig = o /\ heap[o].parent \in 0..Len(heap)
      BY <1>1, <2>1, <2>2, ObjectType DEF Grows
    <2>4. heap[o].parent \in 1..Len(heap) /\ Has(heap, caches, arrays, heap[o].parent, o)
      BY <1>1, <2>2, <2>3 DEF Knows
    <2>. QED BY <2>3, <2>4, HasStays
  <1>. QED BY <1>2, <1>3

LEMMA NextKnows == WellFormed /\ Pending /\ Knows /\ [Next]_vars => Knows'
  BY QuietKnows, FinishKnows, StepsQuiet

LEMMA InitKnows == Init => Knows
  <1>. SUFFICES ASSUME Init PROVE Knows
    OBVIOUS
  <1>1. \E s \in Roots : heap = <<[struct |-> s, orig |-> 1, cache |-> 0, parent |-> 0]>>
    BY DEF Init
  <1>2. \A o \in 1..Len(heap) : heap[o].parent = 0
    BY <1>1
  <1>. QED BY <1>2 DEF Knows

LEMMA KnowsChild == WellFormed /\ Knows => ParentKnowsChild
  <1>. SUFFICES ASSUME WellFormed, Knows, NEW o \in Originals, heap[o].parent # 0
                PROVE  \E f \in Fields : LET v == Cached(heap[o].parent, f) IN
                         v = Object(o) \/ (v.type = "array" /\ o \in Range(arrays[v.obj]))
    BY DEF ParentKnowsChild
  <1>1. o \in 1..Len(heap) /\ heap[o].orig = o
    BY Typed DEF Originals
  <1>2. Has(heap, caches, arrays, heap[o].parent, o)
    BY <1>1 DEF Knows
  <1>. QED BY <1>2 DEF Has, Cached

(***************************************************************************)
(* Going to the parent undoes going into a field: the parent of every      *)
(* struct that has one holds it, and no other parse of the same bytes, as  *)
(* the value of a field or in the array that is (struct.go:200-208).       *)
(***************************************************************************)
THEOREM ParentHasTheStruct == Spec /\ []NoReentry => []ParentKnowsChild
  BY InitKnows, NextKnows, KnowsChild, SpecWF, SpecPending, PTL DEF Spec
-----------------------------------------------------------------------------
(***************************************************************************)
(* StructObject implements LazyRecord.  Size evaluates with a copy that    *)
(* may have a map of its own; the user never gets hold of it if the fields *)
(* that sizes read are no value fields.  Clean is the objects the user can *)
(* get hold of, which have the map of the struct they are.                 *)
(***************************************************************************)

\* The value v leads to objects of C.
Inside(C, a, v) ==
    /\ v.type = "object" => v.obj \in C
    /\ v.type = "array" => Range(a[v.obj]) \subseteq C

CleanObject(C, h, c, a, o) ==
    /\ h[o].orig \in C /\ h[o].parent \in C \cup {0}
    /\ Shares(h, o) /\ (h[o].orig # o => h[o].cache # 0)
    /\ h[o].cache # 0 => \A f \in Fields : Inside(C, a, c[h[o].cache][f])

(***************************************************************************)
(* Of the first n objects those of C lead to objects of C, have the map of *)
(* the struct they are copies of, and share it with none outside C.        *)
(***************************************************************************)
CleanHeap(C, n, h, c, a) ==
    /\ C \subseteq 1..n
    /\ \A o \in C : CleanObject(C, h, c, a, o)
    /\ \A o \in C, t \in 1..n : h[t].cache = h[o].cache /\ h[t].cache # 0 => t \in C

(***************************************************************************)
(* An evaluation for an object of C sees objects of C only; any other, and *)
(* that of a size, reads only fields of T, and makes its own objects.      *)
(***************************************************************************)
CleanFrame(C, T, a, fr) ==
    /\ fr.op # "size" /\ fr.obj \in C =>
          /\ fr.paths # <<>> => fr.copy \in C /\ Inside(C, a, fr.at)
          /\ Inside(C, a, fr.last) /\ Range(fr.out) \subseteq C
    /\ fr.op \in {"ref", "json"} => fr.obj \in C
    /\ fr.op = "get" /\ fr.obj \notin C => Range(fr.out) \cap C = {} /\ fr.field \in T
    /\ fr.op = "size" \/ fr.obj \notin C => ReadsOnly(fr.paths, T)

\* The user calls for an object of C, and an element is in C if its array is.
Place(C, s, i) ==
    /\ i = 1 => s[i].obj \in C
    /\ i > 1 /\ s[i].op = "size" => (s[i].obj \in C <=> s[i-1].obj \in C)

CleanStack(C, T, a, s) == \A i \in 1..Len(s) : CleanFrame(C, T, a, s[i]) /\ Place(C, s, i)

Clean(C, T) ==
    /\ CleanHeap(C, Len(heap), heap, caches, arrays) /\ CleanStack(C, T, arrays, stack)
    /\ held \subseteq C

\* Some objects are clean now.
SomeClean(T) == \E C : Clean(C, T)

-----------------------------------------------------------------------------
(* When more objects are clean.                                            *)

\* C2 has more objects than C, all of them new.
Widens(C, C2) == C \subseteq C2 /\ \A i \in 1..Len(heap) : i \in C2 => i \in C

ArraysKeep == \A a \in 1..Len(arrays) : arrays'[a] = arrays[a]

LEMMA InsideWidens ==
  ASSUME NEW C, NEW C2, C \subseteq C2, ArraysKeep, NEW n,
         NEW v, ValueOK(n, Len(arrays), v), Inside(C, arrays, v)
  PROVE  Inside(C2, arrays', v)
  BY DEF Inside, ValueOK, ArraysKeep

LEMMA FrameWidens ==
  ASSUME NEW C, NEW C2, Widens(C, C2), ArraysKeep, NEW T,
         NEW fr, FrameOK(heap, Len(arrays), fr), CleanFrame(C, T, arrays, fr)
  PROVE  CleanFrame(C2, T, arrays', fr)
  <1>1. fr.obj \in 1..Len(heap) /\ (fr.obj \in C <=> fr.obj \in C2) /\ C \subseteq C2
    BY DEF FrameOK, Widens
  <1>2. fr.op # "size" /\ fr.obj \in C2 =>
          /\ fr.paths # <<>> => fr.copy \in C2 /\ Inside(C2, arrays', fr.at)
          /\ Inside(C2, arrays', fr.last) /\ Range(fr.out) \subseteq C2
    <2>1. fr.paths # <<>> => ValueOK(Len(heap), Len(arrays), fr.at)
      BY DEF FrameOK
    <2>2. ValueOK(Len(heap), Len(arrays), fr.last)
      BY DEF FrameOK
    <2>. QED BY <1>1, <2>1, <2>2, InsideWidens DEF CleanFrame
  <1>3. fr.op = "get" /\ fr.obj \notin C2 => Range(fr.out) \cap C2 = {} /\ fr.field \in T
    <2>1. Range(fr.out) \subseteq 1..Len(heap)
      BY RangeParts DEF FrameOK
    <2>. QED BY <1>1, <2>1 DEF CleanFrame, Widens
  <1>. QED BY <1>1, <1>2, <1>3 DEF CleanFrame

\* The frames after a step are those of the same evaluations, and of one more.
CleanStep(C2, T) ==
    \A i \in 1..Len(stack') :
        \/ /\ i \in 1..Len(stack)
           /\ stack'[i].op = stack[i].op /\ stack'[i].obj = stack[i].obj
           /\ stack'[i] = stack[i] \/ CleanFrame(C2, T, arrays', stack'[i])
        \/ /\ i = Len(stack) + 1
           /\ CleanFrame(C2, T, arrays', stack'[i]) /\ Place(C2, stack', i)

LEMMA StackWidens ==
  ASSUME WellFormed, NEW C, NEW C2, Widens(C, C2), ArraysKeep, NEW T, CleanStack(C, T, arrays, stack),
         CleanStep(C2, T)
  PROVE  CleanStack(C2, T, arrays', stack')
  <1>. SUFFICES ASSUME NEW i \in 1..Len(stack')
                PROVE  CleanFrame(C2, T, arrays', stack'[i]) /\ Place(C2, stack', i)
    BY DEF CleanStack
  <1>1. CASE i = Len(stack) + 1 /\ CleanFrame(C2, T, arrays', stack'[i]) /\ Place(C2, stack', i)
    BY <1>1
  <1>2. CASE /\ i \in 1..Len(stack)
             /\ stack'[i].op = stack[i].op /\ stack'[i].obj = stack[i].obj
             /\ stack'[i] = stack[i] \/ CleanFrame(C2, T, arrays', stack'[i])
    <2>1. \A j \in 1..Len(stack) : stack[j].obj \in 1..Len(heap)
      BY DEF WellFormed, StackOK, FrameOK
    <2>2. FrameOK(heap, Len(arrays), stack[i]) /\ CleanFrame(C, T, arrays, stack[i]) /\ Place(C, stack, i)
      BY <1>2 DEF WellFormed, StackOK, CleanStack
    <2>3. CleanFrame(C2, T, arrays', stack'[i])
      BY <1>2, <2>2, FrameWidens
    <2>4. ASSUME i > 1 PROVE i - 1 \in 1..Len(stack) /\ stack'[i-1].obj = stack[i-1].obj
      <3>1. i - 1 \in 1..Len(stack') /\ i - 1 \in 1..Len(stack) /\ i - 1 # Len(stack) + 1
        BY <1>2, <2>4, Typed
      <3>. QED BY <3>1 DEF CleanStep
    <2>. DEFINE k == i - 1
    <2>5. \A j \in 1..Len(stack) : stack[j].obj \in C <=> stack[j].obj \in C2
      BY <2>1 DEF Widens
    <2>6. i > 1 => k \in 1..Len(stack) /\ stack'[k].obj = stack[k].obj
      BY <2>4
    <2>7. /\ i = 1 => stack[i].obj \in C
          /\ i > 1 /\ stack[i].op = "size" => (stack[i].obj \in C <=> stack[k].obj \in C)
      BY <2>2 DEF Place
    <2>. HIDE DEF k
    <2>8. /\ i = 1 => stack'[i].obj \in C2
          /\ i > 1 /\ stack'[i].op = "size" => (stack'[i].obj \in C2 <=> stack'[k].obj \in C2)
      BY ONLY <1>2, <2>5, <2>6, <2>7
    <2>. QED BY <2>3, <2>8 DEF Place, k
  <1>. QED BY <1>1, <1>2 DEF CleanStep

\* A lambda that has been followed further reads no more than before.
LEMMA ReadsLess ==
  ASSUME NEW T, NEW l \in Lambda, ReadsOnly(l, T), l # <<>>
  PROVE  /\ ReadsOnly(Tail(l), T)
         /\ l[1] # <<>> => Head(Head(l)) \in T \cup {"Parent"}
         /\ \A q : /\ Len(q) = Len(l) /\ (l[1] # <<>> => q[1] = Tail(l[1])) /\ l[1] # <<>>
                   /\ \A i \in 1..Len(l) : i # 1 => q[i] = l[i]
                   => ReadsOnly(q, T)
  <1>1. /\ Len(l) \in Nat /\ Len(l) > 0 /\ Head(l) = l[1] /\ l[1] \in Path
        /\ Len(Tail(l)) = Len(l) - 1 /\ \A i \in 1..Len(Tail(l)) : Tail(l)[i] = l[i+1]
    BY LambdaParts
  <1>2. ReadsOnly(Tail(l), T)
    <2>1. \A i \in 1..Len(Tail(l)) : i + 1 \in 1..Len(l) /\ Tail(l)[i] = l[i+1]
      BY <1>1
    <2>. QED BY <2>1 DEF ReadsOnly
  <1>3. 1 \in 1..Len(l)
    BY <1>1
  <1>4. ASSUME l[1] # <<>> PROVE Head(Head(l)) \in T \cup {"Parent"}
    <2>1. Head(l[1]) = l[1][1] /\ 1 \in 1..Len(l[1])
      BY <1>1, <1>4, PathParts
    <2>. QED BY <1>1, <1>3, <2>1 DEF ReadsOnly
  <1>5. ASSUME NEW q, Len(q) = Len(l), q[1] = Tail(l[1]), l[1] # <<>>,
               \A i \in 1..Len(l) : i # 1 => q[i] = l[i]
        PROVE  ReadsOnly(q, T)
    <2>1. /\ Len(Tail(l[1])) = Len(l[1]) - 1 /\ Len(l[1]) \in Nat
          /\ \A j \in 1..Len(Tail(l[1])) : Tail(l[1])[j] = l[1][j+1]
      BY <1>1, <1>5, PathParts
    <2>2. \A j \in 1..Len(q[1]) : q[1][j] \in T \cup {"Parent"}
      <3>1. \A j \in 1..Len(q[1]) : j + 1 \in 1..Len(l[1]) /\ q[1][j] = l[1][j+1]
        BY <1>5, <2>1
      <3>. QED BY <1>3, <3>1 DEF ReadsOnly
    <2>3. ASSUME NEW i \in 1..Len(q), i # 1
          PROVE  \A j \in 1..Len(q[i]) : q[i][j] \in T \cup {"Parent"}
      BY <1>5, <2>3 DEF ReadsOnly
    <2>. QED BY <2>2, <2>3 DEF ReadsOnly
  <1>. QED BY <1>2, <1>4, <1>5

-----------------------------------------------------------------------------
(* What happens to the heap.                                               *)

\* A heap that has the objects and maps of h, and other values in them.
LEMMA CleanSame ==
  ASSUME NEW C, NEW k, NEW h, NEW c, NEW a, CleanHeap(C, k, h, c, a),
         NEW g, NEW d, NEW b,
         \A i \in 1..k : /\ g[i].orig = h[i].orig /\ g[i].cache = h[i].cache
                         /\ i \in C => g[i].parent = h[i].parent \/ g[i].parent \in C,
         \A o \in C, f \in Fields : h[o].cache # 0 => Inside(C, b, d[h[o].cache][f])
  PROVE  CleanHeap(C, k, g, d, b)
  <1>1. C \subseteq 1..k
    BY DEF CleanHeap
  <1>2. ASSUME NEW o \in C PROVE CleanObject(C, g, d, b, o)
    <2>1. CleanObject(C, h, c, a, o) /\ o \in 1..k /\ h[o].orig \in 1..k
      BY <1>1 DEF CleanHeap, CleanObject
    <2>2. g[o].orig = h[o].orig /\ g[o].cache = h[o].cache /\ g[h[o].orig].cache = h[h[o].orig].cache
          /\ (g[o].parent = h[o].parent \/ g[o].parent \in C)
      BY <2>1
    <2>3. h[o].orig \in C /\ h[o].parent \in C \cup {0} /\ h[o].cache = h[h[o].orig].cache
          /\ (h[o].orig # o => h[o].cache # 0)
      BY <2>1 DEF CleanObject, Shares
    <2>4. g[o].cache # 0 => \A f \in Fields : Inside(C, b, d[g[o].cache][f])
      BY <2>2
    <2>. QED BY <2>2, <2>3, <2>4 DEF CleanObject, Shares
  <1>3. \A o \in C, t \in 1..k : g[t].cache = g[o].cache /\ g[t].cache # 0 => t \in C
    BY <1>1 DEF CleanHeap
  <1>. QED BY <1>1, <1>2, <1>3 DEF CleanHeap

\* One more object, which is a copy of the struct o is or was copied from.
LEMMA AddCopy ==
  ASSUME NEW C, NEW k \in Nat, NEW h, NEW c, NEW a, CleanHeap(C, k, h, c, a),
         NEW n, HeapOK(h, n), Len(h) = k + 1, NEW o \in 1..k, h[k+1] = h[h[o].orig]
  PROVE  CleanHeap(IF h[o].orig \in C /\ h[h[o].orig].cache # 0 THEN C \cup {k + 1} ELSE C, k + 1, h, c, a)
  <1>. DEFINE p == h[o].orig
  <1>0. ObjectOK(h, n, o)
    BY DEF HeapOK
  <1>1. /\ p \in 1..k /\ h[p].orig = p /\ C \subseteq 1..k /\ k + 1 \notin 1..k
        /\ h[k+1] = h[p] /\ k + 1 \in 1..k+1 /\ \A i \in 1..k+1 : i \in 1..k \/ i = k + 1
    BY <1>0 DEF ObjectOK, CleanHeap
  <1>2. \A i, j \in 1..k+1 : h[i].cache = h[j].cache /\ h[i].cache # 0 => h[i].orig = h[j].orig
    BY DEF HeapOK
  <1>3. \A t \in C : CleanObject(C, h, c, a, t)
    BY DEF CleanHeap
  <1>4. \A x \in C, t \in 1..k : h[t].cache = h[x].cache /\ h[t].cache # 0 => t \in C
    BY DEF CleanHeap
  <1>. HIDE DEF p
  <1>5. CASE p \in C /\ h[p].cache # 0
    <2>. DEFINE C2 == C \cup {k + 1}
    <2>1. \A v : Inside(C, a, v) => Inside(C2, a, v)
      BY DEF Inside
    <2>2. CleanObject(C, h, c, a, p)
      BY <1>3, <1>5
    <2>3. ASSUME NEW t \in C2 PROVE CleanObject(C2, h, c, a, t)
      <3>1. CASE t \in C
        BY <1>3, <2>1, <3>1 DEF CleanObject
      <3>2. CASE t = k + 1
        BY <1>1, <1>5, <2>1, <2>2, <3>2 DEF CleanObject, Shares
      <3>. QED BY <3>1, <3>2
    <2>4. ASSUME NEW x \in C2, NEW t \in 1..k+1, h[t].cache = h[x].cache, h[t].cache # 0
          PROVE  t \in C2
      <3>1. \E y \in C : h[t].cache = h[y].cache
        BY <1>1, <1>5, <2>4
      <3>. QED BY <1>1, <1>4, <2>4, <3>1
    <2>5. C2 \subseteq 1..k+1 /\ k + 1 \in C2
      BY <1>1
    <2>6. CleanHeap(C2, k + 1, h, c, a)
      <3>. HIDE DEF C2
      <3>. QED BY <2>3, <2>4, <2>5 DEF CleanHeap
    <2>. QED BY <1>5, <2>6 DEF p
  <1>6. CASE ~(p \in C /\ h[p].cache # 0)
    <2>1. ASSUME NEW x \in C, NEW t \in 1..k+1, h[t].cache = h[x].cache, h[t].cache # 0
          PROVE  t \in C
      <3>1. CASE t = k + 1
        <4>1. h[x].orig = h[t].orig /\ h[t].orig = p /\ h[t].cache = h[p].cache
          BY <1>1, <1>2, <2>1, <3>1
        <4>2. h[x].orig \in C
          BY <1>3 DEF CleanObject
        <4>. QED BY <1>6, <2>1, <4>1, <4>2
      <3>. QED BY <1>1, <1>4, <2>1, <3>1
    <2>2. C \subseteq 1..k+1
      BY <1>1
    <2>3. CleanHeap(C, k + 1, h, c, a)
      BY <1>3, <2>1, <2>2 DEF CleanHeap
    <2>. QED BY <1>6, <2>3 DEF p
  <1>. QED BY <1>5, <1>6

\* One more object that has no map, and is in C or not.
LEMMA AddBlank ==
  ASSUME NEW C, NEW k \in Nat, NEW h, NEW c, NEW a, CleanHeap(C, k, h, c, a), h[k+1].cache = 0
  PROVE  /\ CleanHeap(C, k + 1, h, c, a)
         /\ h[k+1].orig = k + 1 /\ h[k+1].parent = 0 => CleanHeap(C \cup {k + 1}, k + 1, h, c, a)
  <1>1. /\ C \subseteq 1..k /\ C \subseteq 1..k+1 /\ C \cup {k + 1} \subseteq 1..k+1
        /\ \A i \in 1..k+1 : i \in 1..k \/ i = k + 1
    BY DEF CleanHeap
  <1>2. \A t \in C : CleanObject(C, h, c, a, t)
    BY DEF CleanHeap
  <1>3. \A x \in C, t \in 1..k+1 : h[t].cache = h[x].cache /\ h[t].cache # 0 => t \in C
    BY <1>1 DEF CleanHeap
  <1>4. CleanHeap(C, k + 1, h, c, a)
    BY <1>1, <1>2, <1>3 DEF CleanHeap
  <1>5. ASSUME h[k+1].orig = k + 1, h[k+1].parent = 0
        PROVE  CleanHeap(C \cup {k + 1}, k + 1, h, c, a)
    <2>. DEFINE C2 == C \cup {k + 1}
    <2>1. \A v : Inside(C, a, v) => Inside(C2, a, v)
      BY DEF Inside
    <2>2. ASSUME NEW t \in C2 PROVE CleanObject(C2, h, c, a, t)
      <3>1. CASE t \in C
        BY <1>2, <2>1, <3>1 DEF CleanObject
      <3>2. CASE t = k + 1
        BY <1>5, <3>2 DEF CleanObject, Shares
      <3>. QED BY <3>1, <3>2
    <2>3. \A x \in C2, t \in 1..k+1 : h[t].cache = h[x].cache /\ h[t].cache # 0 => t \in C2
      BY <1>3
    <2>. QED BY <1>1, <2>2, <2>3 DEF CleanHeap
  <1>. QED BY <1>4, <1>5

\* An object is given its first map, number m.
LEMMA MapMade ==
  ASSUME NEW C, NEW k, NEW h, NEW c, NEW a, CleanHeap(C, k, h, c, a),
         NEW g, NEW d, NEW o \in 1..k, h[o].cache = 0, NEW m, m # 0, d[m] = Blank, g[o].cache = m,
         \A i \in 1..k : /\ g[i].orig = h[i].orig /\ g[i].parent = h[i].parent
                         /\ h[i].cache # m /\ (i # o => g[i].cache = h[i].cache)
                         /\ h[i].cache # 0 => d[h[i].cache] = c[h[i].cache]
  PROVE  CleanHeap(C, k, g, d, a)
  <1>1. C \subseteq 1..k
    BY DEF CleanHeap
  <1>2. \A f \in Fields : Inside(C, a, Blank[f])
    BY ValueTypes DEF Blank, Inside
  <1>3. ASSUME NEW t \in C PROVE CleanObject(C, g, d, a, t)
    <2>1. CleanObject(C, h, c, a, t) /\ t \in 1..k
      BY <1>1 DEF CleanHeap
    <2>2. h[t].orig \in C /\ h[t].parent \in C \cup {0} /\ h[t].cache = h[h[t].orig].cache
          /\ (h[t].orig # t => h[t].cache # 0) /\ h[t].orig \in 1..k
          /\ (h[t].cache # 0 => \A f \in Fields : Inside(C, a, c[h[t].cache][f]))
      BY <1>1, <2>1 DEF CleanObject, Shares
    <2>3. g[t].orig = h[t].orig /\ g[t].parent = h[t].parent
      BY <2>1
    <2>4. CASE t = o
      <3>1. h[t].orig = t
        BY <2>2, <2>4
      <3>. QED BY <1>2, <2>2, <2>3, <2>4, <3>1 DEF CleanObject, Shares
    <2>5. CASE t # o
      <3>1. g[t].cache = h[t].cache
        BY <2>1, <2>5
      <3>2. h[t].orig # o
        BY <2>2, <2>5
      <3>3. g[h[t].orig].cache = h[h[t].orig].cache
        BY <2>2, <3>2
      <3>4. g[t].cache # 0 => d[g[t].cache] = c[h[t].cache]
        BY <2>1, <3>1
      <3>. QED BY <2>2, <2>3, <3>1, <3>3, <3>4 DEF CleanObject, Shares
    <2>. QED BY <2>4, <2>5
  <1>4. ASSUME NEW x \in C, NEW t \in 1..k, g[t].cache = g[x].cache, g[t].cache # 0
        PROVE  t \in C
    <2>1. \A y \in C, s \in 1..k : h[s].cache = h[y].cache /\ h[s].cache # 0 => s \in C
      BY DEF CleanHeap
    <2>2. CASE t = o \/ x = o
      <3>1. t = x
        BY <1>1, <1>4, <2>2
      <3>. QED BY <3>1
    <2>3. CASE t # o /\ x # o
      BY <1>1, <1>4, <2>1, <2>3
    <2>. QED BY <2>2, <2>3
  <1>. QED BY <1>1, <1>3, <1>4 DEF CleanHeap

-----------------------------------------------------------------------------
(* Steps that move the top on.                                             *)

LEMMA CleanAgain ==
  ASSUME WellFormed, NEW C, NEW T, Clean(C, T), NEW C2, Widens(C, C2), ArraysKeep, CleanStep(C2, T),
         CleanHeap(C2, Len(heap'), heap', caches', arrays'), held' \subseteq C2
  PROVE  SomeClean(T)'
  <1>1. CleanStack(C2, T, arrays', stack')
    BY StackWidens DEF Clean
  <1>. QED BY <1>1 DEF SomeClean, Clean

\* The top becomes x.
LEMMA TopBecomes ==
  ASSUME WellFormed, stack # <<>>, NEW x \in Frame, stack' = Append(Below, x),
         x.op = Top.op, x.obj = Top.obj, NEW C2, NEW T, CleanFrame(C2, T, arrays', x)
  PROVE  CleanStep(C2, T)
  <1>. DEFINE n == Len(stack)
  <1>1. /\ Len(stack') = n /\ stack'[n] = x /\ \A i \in 1..n - 1 : stack'[i] = stack[i]
    BY Typed, ReplaceTop DEF Below
  <1>2. n \in Nat /\ n > 0 /\ Top = stack[n]
    BY Typed, TopParts
  <1>. HIDE DEF n
  <1>3. \A i \in 1..n : i \in 1..n - 1 \/ i = n
    BY <1>2
  <1>4. \A i \in 1..n - 1 : i \in 1..n
    BY <1>2
  <1>. QED BY <1>1, <1>2, <1>3, <1>4 DEF CleanStep, n

\* The top becomes x, and y is put on it.
LEMMA TopWaits ==
  ASSUME WellFormed, stack # <<>>, NEW x \in Frame, NEW y \in Frame, stack' = Append(Append(Below, x), y),
         x.op = Top.op, x.obj = Top.obj, NEW C2, NEW T,
         x = Top \/ CleanFrame(C2, T, arrays', x), CleanFrame(C2, T, arrays', y),
         y.op = "size" => (y.obj \in C2 <=> Top.obj \in C2)
  PROVE  CleanStep(C2, T)
  <1>. DEFINE n == Len(stack)
              t == Append(Below, x)
  <1>1. /\ t \in Seq(Frame) /\ Len(t) = n /\ t[n] = x /\ \A i \in 1..n - 1 : t[i] = stack[i]
    BY Typed, ReplaceTop DEF Below
  <1>2. n \in Nat /\ n > 0 /\ Top = stack[n]
    BY Typed, TopParts
  <1>. HIDE DEF n, t
  <1>3. Len(stack') = n + 1 /\ stack'[n + 1] = y /\ \A i \in 1..n : stack'[i] = t[i]
    BY <1>1, AppendProperties DEF t
  <1>4. \A i \in 1..n + 1 : i \in 1..n - 1 \/ i = n \/ i = n + 1
    BY <1>2
  <1>5. n \in 1..n /\ \A i \in 1..n - 1 : i \in 1..n
    BY <1>2
  <1>6. Place(C2, stack', n + 1)
    <2>1. n + 1 - 1 = n /\ n + 1 # 1
      BY <1>2
    <2>. QED BY <1>1, <1>3, <1>5, <2>1 DEF Place
  <1>7. ASSUME NEW i \in 1..n
        PROVE  /\ stack'[i].op = stack[i].op /\ stack'[i].obj = stack[i].obj
               /\ stack'[i] = stack[i] \/ CleanFrame(C2, T, arrays', stack'[i])
    <2>1. stack'[i] = t[i] /\ (i \in 1..n - 1 \/ i = n)
      BY <1>2, <1>3
    <2>. QED BY <1>1, <1>2, <2>1
  <1>8. \A i \in 1..n + 1 : i \in 1..n \/ i = n + 1
    BY <1>4, <1>5
  <1>. QED BY <1>3, <1>6, <1>7, <1>8 DEF CleanStep, n

\* The user calls, and y is the evaluation.
LEMMA CallBegins ==
  ASSUME stack = <<>>, NEW y, stack' = <<y>>, NEW C2, NEW T, CleanFrame(C2, T, arrays', y), y.obj \in C2
  PROVE  CleanStep(C2, T)
  <1>1. Len(stack') = 1 /\ stack'[1] = y /\ Len(stack) = 0 /\ 1..1 = {1} /\ 0 + 1 = 1
    OBVIOUS
  <1>2. Place(C2, stack', 1)
    BY <1>1 DEF Place
  <1>. QED BY <1>1, <1>2 DEF CleanStep

LEMMA WidensSelf == ASSUME NEW C PROVE Widens(C, C)
  BY DEF Widens

\* What an evaluation may be for.
LEMMA TopClean ==
  ASSUME WellFormed, stack # <<>>, NEW C, NEW T, Clean(C, T)
  PROVE  /\ CleanFrame(C, T, arrays, Top) /\ CleanHeap(C, Len(heap), heap, caches, arrays)
         /\ held \subseteq C /\ FrameOK(heap, Len(arrays), Top) /\ Top \in Frame /\ Top.paths \in Lambda
  <1>1. Len(stack) \in 1..Len(stack) /\ Top = stack[Len(stack)]
    BY Typed, TopParts
  <1>. QED BY <1>1, TopParts, FrameParts DEF Clean, CleanStack

LEMMA AccessClean ==
  ASSUME WellFormed, NEW T, SomeClean(T), Access
  PROVE  SomeClean(T)'
  <1>. PICK C : Clean(C, T)
    BY DEF SomeClean
  <1>1. /\ stack # <<>> /\ Top.paths # <<>> /\ Head(Top.paths) # <<>>
        /\ UNCHANGED <<heap, caches, arrays, held>>
    BY AccessMoves
  <1>2. PICK v : /\ stack' = Append(Below, Moved(Top, v))
                 /\ ValueOK(Len(heap), Len(arrays), v) /\ v # Unset
                 /\ Found(Top.at, Head(Head(Top.paths)), v)
    BY AccessMoves
  <1>. DEFINE x == Moved(Top, v)
  <1>3. /\ CleanFrame(C, T, arrays, Top) /\ CleanHeap(C, Len(heap), heap, caches, arrays)
        /\ held \subseteq C /\ FrameOK(heap, Len(arrays), Top) /\ Top \in Frame /\ Top.paths \in Lambda
    BY <1>1, TopClean
  <1>4. /\ FrameOK(heap, Len(arrays), x) /\ x.op = Top.op /\ x.obj = Top.obj /\ x.field = Top.field
        /\ x.copy = Top.copy /\ x.last = Top.last /\ x.at = v /\ x.out = Top.out
        /\ Len(x.paths) = Len(Top.paths) /\ x.paths[1] = Tail(Top.paths[1])
        /\ \A i \in 2..Len(Top.paths) : x.paths[i] = Top.paths[i]
    BY <1>1, <1>2, <1>3, Parts, MovedOK
  <1>. HIDE DEF x
  <1>5. Top.at.type = "object" /\ Top.at.obj \in C => Inside(C, arrays, v)
    <2>. SUFFICES ASSUME Top.at.type = "object", Top.at.obj \in C PROVE Inside(C, arrays, v)
      OBVIOUS
    <2>1. CleanObject(C, heap, caches, arrays, Top.at.obj)
      BY <1>3 DEF CleanHeap
    <2>2. /\ heap[Top.at.obj].parent \in C \cup {0} /\ Top.at.obj \in 1..Len(heap)
          /\ heap[Top.at.obj].cache # 0 =>
                \A f \in Fields : Inside(C, arrays, caches[heap[Top.at.obj].cache][f])
      BY <1>3, <2>1 DEF CleanObject, CleanHeap
    <2>3. Inside(C, arrays, Null) /\ \A p \in C \cap Nat : Inside(C, arrays, Object(p))
      BY ValueTypes DEF Inside
    <2>4. heap[Top.at.obj].parent \in Nat
      <3>1. heap[Top.at.obj].parent \in 0..Len(heap) /\ Len(heap) \in Nat
        BY <2>2, Parts, ObjectType
      <3>. QED BY <3>1
    <2>. QED BY <1>2, <2>2, <2>3, <2>4 DEF Found, Reads
  <1>6. Top.at.type # "object" => Inside(C, arrays, v)
    BY <1>2, ValueTypes DEF Found, Inside
  <1>7. ReadsOnly(Top.paths, T) => ReadsOnly(x.paths, T)
    <2>1. Head(Top.paths) = Top.paths[1]
      BY <1>1, <1>3, LambdaParts
    <2>2. \A i \in 1..Len(Top.paths) : i # 1 => i \in 2..Len(Top.paths)
      BY <1>3, LambdaParts
    <2>. QED BY <1>1, <1>3, <1>4, <2>1, <2>2, ReadsLess
  <1>8. CleanFrame(C, T, arrays', x)
    <2>1. x.op # "size" /\ x.obj \in C => Inside(C, arrays, v)
      BY <1>1, <1>3, <1>4, <1>5, <1>6 DEF CleanFrame, Inside
    <2>. QED BY <1>1, <1>3, <1>4, <1>7, <2>1 DEF CleanFrame
  <1>9. x \in Frame /\ stack' = Append(Below, x)
    BY <1>2, <1>4 DEF FrameOK, x
  <1>10. CleanStep(C, T)
    BY <1>1, <1>4, <1>8, <1>9, TopBecomes
  <1>11. ArraysKeep
    BY <1>1 DEF ArraysKeep
  <1>. QED BY <1>1, <1>3, <1>10, <1>11, WidensSelf, CleanAgain

\* A sequence of clean objects, followed by another.
LEMMA RangeConcat ==
  ASSUME NEW S, NEW s \in Seq(S), NEW t \in Seq(S), NEW C, Range(s) \subseteq C, Range(t) \subseteq C
  PROVE  Range(s \o t) \subseteq C
  <1>1. /\ s \o t \in Seq(S) /\ Len(s \o t) = Len(s) + Len(t) /\ Len(s) \in Nat /\ Len(t) \in Nat
        /\ \A i \in 1..Len(s) + Len(t) : (s \o t)[i] = IF i <= Len(s) THEN s[i] ELSE t[i - Len(s)]
    BY ConcatProperties
  <1>2. /\ \A i \in 1..Len(s) : s[i] \in C
        /\ \A i \in 1..Len(t) : t[i] \in C
    BY RangeParts
  <1>3. ASSUME NEW i \in 1..Len(s) + Len(t) PROVE (s \o t)[i] \in C
    <2>1. \/ i <= Len(s) /\ i \in 1..Len(s)
          \/ ~(i <= Len(s)) /\ i - Len(s) \in 1..Len(t)
      BY <1>1
    <2>. QED BY <1>1, <1>2, <2>1
  <1>4. Range(s \o t) = {(s \o t)[i] : i \in 1..Len(s) + Len(t)}
    <2>. DEFINE u == s \o t
    <2>1. DOMAIN u = 1..Len(s) + Len(t)
      BY <1>1
    <2>. HIDE DEF u
    <2>2. Range(u) = {u[i] : i \in 1..Len(s) + Len(t)}
      BY <2>1 DEF Range
    <2>. QED BY <2>2 DEF u
  <1>. QED BY <1>3, <1>4

LEMMA EndPathClean ==
  ASSUME WellFormed, NEW T, SomeClean(T), EndPath
  PROVE  SomeClean(T)'
  <1>. PICK C : Clean(C, T)
    BY DEF SomeClean
  <1>. DEFINE e == Encoded(Top.obj, Top.at)
              x == Ended(Top, e)
  <1>1. /\ stack # <<>> /\ Top.paths # <<>> /\ Head(Top.paths) = <<>>
        /\ UNCHANGED <<heap, caches, arrays, held>>
        /\ stack' = Append(Below, x) /\ FrameOK(heap, Len(arrays), x)
        /\ x.op = Top.op /\ x.obj = Top.obj /\ x.field = Top.field /\ x.copy = Top.copy
        /\ x.last = Top.at /\ x.paths = Tail(Top.paths) /\ x.at = Object(Top.copy)
        /\ x.out = IF Top.op = "json" THEN Top.out \o e ELSE Top.out
    BY EndPathMoves
  <1>2. /\ CleanFrame(C, T, arrays, Top) /\ CleanHeap(C, Len(heap), heap, caches, arrays)
        /\ held \subseteq C /\ FrameOK(heap, Len(arrays), Top) /\ Top \in Frame /\ Top.paths \in Lambda
    BY <1>1, TopClean
  <1>. HIDE DEF x
  <1>3. ReadsOnly(Top.paths, T) => ReadsOnly(x.paths, T)
    BY <1>1, <1>2, ReadsLess
  <1>4. Inside(C, arrays, Top.at) => Range(e) \subseteq C
    BY RangeParts DEF Encoded, Inside, Range
  <1>5. ASSUME Top.op = "json" PROVE Range(x.out) \subseteq C
    <2>1. Top.out \in Seq(1..Len(heap)) /\ ValueOK(Len(heap), Len(arrays), Top.at)
      BY <1>1, <1>2 DEF FrameOK
    <2>2. e \in Seq(1..Len(heap))
      BY <2>1, EncodedType
    <2>3. Range(Top.out) \subseteq C /\ Range(e) \subseteq C
      BY <1>1, <1>2, <1>4, <1>5 DEF CleanFrame
    <2>. HIDE DEF e
    <2>4. Range(Top.out \o e) \subseteq C
      BY ONLY <2>1, <2>2, <2>3, RangeConcat
    <2>. QED BY <1>1, <1>5, <2>4
  <1>6. CleanFrame(C, T, arrays', x)
    <2>1. ASSUME x.op # "size", x.obj \in C
          PROVE  /\ x.copy \in C /\ Inside(C, arrays, x.at)
                 /\ Inside(C, arrays, x.last) /\ Range(x.out) \subseteq C
      <3>1. Top.copy \in C /\ Inside(C, arrays, Top.at) /\ Range(Top.out) \subseteq C
        BY <1>1, <1>2, <2>1 DEF CleanFrame
      <3>2. Top.copy \in Nat /\ Inside(C, arrays, Object(Top.copy))
        BY <1>2, <3>1, FrameParts, ValueTypes DEF Inside
      <3>3. Range(x.out) \subseteq C
        BY <1>1, <1>5, <3>1
      <3>. QED BY <1>1, <3>1, <3>2, <3>3
    <2>2. x.op \in {"ref", "json"} => x.obj \in C
      BY <1>1, <1>2 DEF CleanFrame
    <2>3. x.op = "get" /\ x.obj \notin C => Range(x.out) \cap C = {} /\ x.field \in T
      BY <1>1, <1>2 DEF CleanFrame
    <2>4. x.op = "size" \/ x.obj \notin C => ReadsOnly(x.paths, T)
      BY <1>1, <1>2, <1>3 DEF CleanFrame
    <2>. QED BY <1>1, <2>1, <2>2, <2>3, <2>4 DEF CleanFrame
  <1>7. x \in Frame
    BY <1>1 DEF FrameOK
  <1>8. CleanStep(C, T)
    BY <1>1, <1>6, <1>7, TopBecomes
  <1>9. ArraysKeep
    BY <1>1 DEF ArraysKeep
  <1>. QED BY <1>1, <1>2, <1>8, <1>9, WidensSelf, CleanAgain

\* MarshalJSON of a clean object.
LEMMA MarshalClean ==
  ASSUME WellFormed, NEW C, NEW T, NEW o \in 1..Len(heap), o \in C, NEW a
  PROVE  CleanFrame(C, T, a, Marshal(heap, o))
  <1>. DEFINE y == Marshal(heap, o)
  <1>1. /\ y.op = "json" /\ y.obj = o /\ y.copy = o /\ y.at = Object(o) /\ y.last = Null /\ y.out = <<>>
    BY MarshalMoves
  <1>. HIDE DEF y
  <1>2. Inside(C, a, Null) /\ Inside(C, a, Object(o)) /\ Range(<<>>) = {}
    BY ValueTypes, RangeParts DEF Inside
  <1>3. CleanFrame(C, T, a, y)
    BY <1>1, <1>2 DEF CleanFrame
  <1>. QED BY <1>3 DEF y

LEMMA EncodeClean ==
  ASSUME WellFormed, NEW T, SomeClean(T), Encode
  PROVE  SomeClean(T)'
  <1>. PICK C : Clean(C, T)
    BY DEF SomeClean
  <1>. DEFINE o == Head(Top.out)
              x == WithOut(Top, Tail(Top.out), Top.left)
              y == Marshal(heap, o)
  <1>1. /\ stack # <<>> /\ Top.op = "json" /\ Top.paths = <<>> /\ Top.out # <<>>
        /\ UNCHANGED <<heap, caches, arrays, held>>
        /\ o \in 1..Len(heap) /\ Tail(Top.out) \in Seq(1..Len(heap))
        /\ FrameOK(heap, Len(arrays), x) /\ stack' = Append(Append(Below, x), y)
        /\ FrameOK(heap, Len(arrays), y) /\ y.op = "json"
    BY EncodeMoves
  <1>2. /\ CleanFrame(C, T, arrays, Top) /\ CleanHeap(C, Len(heap), heap, caches, arrays)
        /\ held \subseteq C /\ FrameOK(heap, Len(arrays), Top) /\ Top \in Frame
    BY <1>1, TopClean
  <1>3. /\ x.op = Top.op /\ x.obj = Top.obj /\ x.paths = Top.paths /\ x.last = Top.last
        /\ x.out = Tail(Top.out) /\ x.field = Top.field /\ x.at = Top.at /\ x.copy = Top.copy
    <2>1. /\ Top.left \in Nat /\ Tail(Top.out) \in Seq(1..Len(heap)) /\ FrameOK(heap, Len(arrays), Top)
          /\ heap \in Seq(StructObject) /\ Len(arrays) \in Nat
      BY <1>1, <1>2, FrameParts, Typed
    <2>. QED BY ONLY <2>1, WithOutOK
  <1>4. Top.obj \in C /\ Range(Top.out) \subseteq C /\ Top.out \in Seq(1..Len(heap))
    BY <1>1, <1>2 DEF CleanFrame, FrameOK
  <1>5. o \in C /\ Range(Tail(Top.out)) \subseteq C
    <2>. DEFINE s == Top.out
    <2>1. s \in Seq(1..Len(heap)) /\ s # <<>> /\ Range(s) \subseteq C
      BY <1>1, <1>4
    <2>. HIDE DEF s
    <2>2. /\ Len(s) \in Nat /\ Len(s) > 0 /\ Head(s) = s[1] /\ DOMAIN Tail(s) = 1..Len(s) - 1
          /\ \A i \in 1..Len(s) - 1 : Tail(s)[i] = s[i+1] /\ i + 1 \in 1..Len(s)
      BY <2>1
    <2>3. \A i \in 1..Len(s) : s[i] \in C
      BY <2>1, RangeParts
    <2>4. Head(s) \in C
      BY <2>2, <2>3
    <2>5. Range(Tail(s)) \subseteq C
      BY <2>2, <2>3 DEF Range
    <2>. QED BY <2>4, <2>5 DEF s
  <1>6. CleanFrame(C, T, arrays', y)
    BY <1>1, <1>5, MarshalClean
  <1>. HIDE DEF x, y
  <1>7. CleanFrame(C, T, arrays', x)
    BY <1>1, <1>2, <1>3, <1>4, <1>5 DEF CleanFrame
  <1>8. x \in Frame /\ y \in Frame /\ y.op # "size"
    BY <1>1 DEF FrameOK
  <1>9. CleanStep(C, T)
    BY <1>1, <1>3, <1>6, <1>7, <1>8, TopWaits
  <1>10. ArraysKeep
    BY <1>1 DEF ArraysKeep
  <1>. QED BY <1>1, <1>2, <1>9, <1>10, WidensSelf, CleanAgain

-----------------------------------------------------------------------------
(* Steps that begin an evaluation.                                         *)

\* An evaluation gets its map, its copy, and what it may see.
LEMMA EnterClean ==
  ASSUME WellFormed, UNCHANGED arrays, NEW C, NEW T, SizesRead(T),
         CleanHeap(C, Len(heap), heap, caches, arrays),
         NEW op \in {"get", "ref"}, NEW o \in 1..Len(heap), NEW f \in Fields, HasField(o, f),
         NEW below, Enter(op, o, f, below), op = "ref" => o \in C, o \notin C => f \in T
  PROVE  \E C2 : /\ Widens(C, C2) /\ CleanHeap(C2, Len(heap'), heap', caches', arrays')
                 /\ CleanFrame(C2, T, arrays', Start(op, heap, o, f, DefOf(o, f).lambda))
  <1>. DEFINE l == DefOf(o, f).lambda
              y == Start(op, heap, o, f, l)
              k == Len(heap)
              m == Len(caches) + 1
  <1>1. /\ l \in Lambda /\ FrameOK(heap', Len(arrays), y)
        /\ y.op = op /\ y.obj = o /\ y.field = f /\ y.paths = l /\ y.last = Null /\ y.out = <<>>
        /\ HeapOK(heap', Len(caches')) /\ Grows(heap, heap')
        /\ heap'[o].cache # 0
        /\ heap[o].cache # 0 => caches' = caches
        /\ heap[o].cache = 0 =>
              /\ \A i \in 1..Len(caches) : caches'[i] = caches[i]
              /\ caches'[m] = Blank /\ heap'[o].cache = m
        /\ \A i \in 1..k : /\ heap'[i].parent = heap[i].parent
                           /\ i # o => heap'[i].cache = heap[i].cache
        /\ l = <<>> => Len(heap') = k
        /\ l # <<>> => /\ Len(heap') = k + 1 /\ y.copy = k + 1
                       /\ heap'[k + 1] = heap'[heap[o].orig] /\ y.at = Object(k + 1)
    <2>1. /\ l \in Lambda /\ FrameOK(heap', Len(arrays), y)
          /\ y.op = op /\ y.obj = o /\ y.field = f /\ y.paths = l /\ y.last = Null /\ y.out = <<>>
          /\ HeapOK(heap', Len(caches')) /\ Grows(heap, heap')
          /\ heap'[o].cache # 0
          /\ heap[o].cache # 0 => caches' = caches
          /\ heap[o].cache = 0 =>
                /\ \A i \in 1..Len(caches) : caches'[i] = caches[i]
                /\ caches'[Len(caches) + 1] = Blank /\ heap'[o].cache = Len(caches) + 1
          /\ \A i \in 1..Len(heap) : /\ heap'[i].parent = heap[i].parent
                                     /\ i # o => heap'[i].cache = heap[i].cache
          /\ l = <<>> => Len(heap') = Len(heap)
          /\ l # <<>> => /\ Len(heap') = Len(heap) + 1 /\ y.copy = Len(heap')
                         /\ heap'[Len(heap')] = heap'[heap[o].orig] /\ y.at = Object(Len(heap'))
      BY ONLY WellFormed, op \in {"get", "ref"}, o \in 1..Len(heap), f \in Fields, HasField(o, f),
              Enter(op, o, f, below), EnterMoves
    <2>. HIDE DEF l, y
    <2>. QED BY ONLY <2>1 DEF k, m
  <1>2. /\ k \in Nat /\ m \in Nat /\ m # 0 /\ C \subseteq 1..k
        /\ \A i \in 1..k : /\ heap'[i].orig = heap[i].orig
                           /\ heap[i].cache # 0 => heap'[i].cache = heap[i].cache
                           /\ heap[i].cache # m /\ (heap[i].cache # 0 => heap[i].cache \in 1..Len(caches))
    <2>1. ASSUME NEW i \in 1..k
          PROVE  heap[i].cache # m /\ (heap[i].cache # 0 => heap[i].cache \in 1..Len(caches))
      <3>1. heap[i].cache \in 0..Len(caches) /\ Len(caches) \in Nat
        BY Parts, ObjectType
      <3>. QED BY <3>1
    <2>. QED BY <1>1, <2>1, Parts DEF Grows, CleanHeap
  <1>. HIDE DEF y, l, m, k
  <1>3. CleanHeap(C, k, heap', caches', arrays)
    <2>1. CASE heap[o].cache # 0
      <3>1. caches' = caches
        BY <1>1, <2>1
      <3>2. \A i \in 1..k : heap'[i].orig = heap[i].orig /\ heap'[i].cache = heap[i].cache
                            /\ heap'[i].parent = heap[i].parent
        BY <1>1, <1>2, <2>1
      <3>3. \A t \in C, g \in Fields : heap[t].cache # 0 => Inside(C, arrays, caches'[heap[t].cache][g])
        BY <3>1 DEF CleanHeap, CleanObject
      <3>4. CleanHeap(C, k, heap, caches, arrays)
        BY DEF k
      <3>. QED BY ONLY <3>2, <3>3, <3>4, CleanSame
    <2>2. CASE heap[o].cache = 0
      <3>1. /\ m # 0 /\ caches'[m] = Blank /\ heap'[o].cache = m /\ o \in 1..k
            /\ CleanHeap(C, k, heap, caches, arrays)
        BY <1>1, <1>2, <2>2 DEF k
      <3>2. \A i \in 1..k : /\ heap'[i].orig = heap[i].orig /\ heap'[i].parent = heap[i].parent
                            /\ heap[i].cache # m /\ (i # o => heap'[i].cache = heap[i].cache)
                            /\ heap[i].cache # 0 => caches'[heap[i].cache] = caches[heap[i].cache]
        BY <1>1, <1>2, <2>2
      <3>. QED BY ONLY <2>2, <3>1, <3>2, MapMade
    <2>. QED BY <2>1, <2>2
  <1>4. \E C2 : /\ Widens(C, C2) /\ CleanHeap(C2, Len(heap'), heap', caches', arrays)
                /\ l # <<>> /\ o \in C => k + 1 \in C2
    <2>1. CASE l = <<>>
      BY <1>1, <1>3, <2>1, WidensSelf
    <2>2. CASE l # <<>>
      <3>1. /\ heap'[k + 1] = heap'[heap'[o].orig] /\ HeapOK(heap', Len(caches')) /\ Len(heap') = k + 1
            /\ o \in 1..k /\ k \in Nat
        BY <1>1, <1>2, <2>2 DEF k
      <3>. DEFINE J == heap'[o].orig \in C /\ heap'[heap'[o].orig].cache # 0
                  C2 == IF J THEN C \cup {k + 1} ELSE C
      <3>2. CleanHeap(C2, k + 1, heap', caches', arrays)
        BY <1>3, <3>1, AddCopy
      <3>. HIDE DEF J
      <3>3. Widens(C, C2)
        BY <1>2 DEF Widens, k
      <3>4. o \in C => k + 1 \in C2
        BY <1>1, <1>3 DEF CleanHeap, CleanObject, Shares, J
      <3>. HIDE DEF C2
      <3>. QED BY <3>1, <3>2, <3>3, <3>4
    <2>. QED BY <2>1, <2>2
  <1>5. PICK C2 : /\ Widens(C, C2) /\ CleanHeap(C2, Len(heap'), heap', caches', arrays)
                  /\ l # <<>> /\ o \in C => k + 1 \in C2
    BY <1>4
  <1>6. o \in C2 <=> o \in C
    BY <1>5 DEF Widens
  <1>7. Inside(C2, arrays', Null) /\ Range(<<>>) = {} /\ k + 1 \in Nat
        /\ (k + 1 \in C2 => Inside(C2, arrays', Object(k + 1)))
    BY <1>2, ValueTypes, RangeParts DEF Inside
  <1>8. o \notin C => ReadsOnly(l, T)
    <2>1. heap[o].struct \in Structs
      BY Parts, ObjectType
    <2>. QED BY <2>1 DEF SizesRead, DefOf, l
  <1>9. CleanFrame(C2, T, arrays', y)
    <2>1. y.op # "size" /\ y.obj \in C2 =>
            /\ y.paths # <<>> => y.copy \in C2 /\ Inside(C2, arrays', y.at)
            /\ Inside(C2, arrays', y.last) /\ Range(y.out) \subseteq C2
      BY <1>1, <1>5, <1>6, <1>7
    <2>2. y.op \in {"ref", "json"} => y.obj \in C2
      BY <1>1, <1>6
    <2>3. y.op = "get" /\ y.obj \notin C2 => Range(y.out) \cap C2 = {} /\ y.field \in T
      BY <1>1, <1>6, <1>7
    <2>4. y.op = "size" \/ y.obj \notin C2 => ReadsOnly(y.paths, T)
      BY <1>1, <1>6, <1>8
    <2>. QED BY <2>1, <2>2, <2>3, <2>4 DEF CleanFrame
  <1>. QED BY <1>5, <1>9 DEF y, l

LEMMA DescendClean ==
  ASSUME WellFormed, NEW T, SizesRead(T), SomeClean(T), Descend
  PROVE  SomeClean(T)'
  <1>. PICK C : Clean(C, T)
    BY DEF SomeClean
  <1>. DEFINE f == Head(Head(Top.paths))
              o == Top.at.obj
              y == Start("get", heap, o, f, DefOf(o, f).lambda)
  <1>1. /\ stack # <<>> /\ Top.paths # <<>> /\ Head(Top.paths) # <<>> /\ Top.at.type = "object"
        /\ UNCHANGED <<arrays, held>>
        /\ o \in 1..Len(heap) /\ f \in Fields /\ HasField(o, f)
        /\ Enter("get", o, f, stack)
    BY DescendMoves
  <1>2. /\ CleanFrame(C, T, arrays, Top) /\ CleanHeap(C, Len(heap), heap, caches, arrays)
        /\ held \subseteq C /\ Top \in Frame /\ Top.paths \in Lambda
    BY <1>1, TopClean
  <1>3. o \notin C => f \in T
    <2>1. o \notin C => Top.op = "size" \/ Top.obj \notin C
      BY <1>1, <1>2 DEF CleanFrame, Inside
    <2>2. ReadsOnly(Top.paths, T) => f \in T \cup {"Parent"}
      <3>1. Head(Top.paths) = Top.paths[1]
        BY <1>1, <1>2, LambdaParts
      <3>. QED BY <1>1, <1>2, <3>1, ReadsLess
    <2>3. f # "Parent"
      BY <1>1, ConstantTypes
    <2>. QED BY <1>2, <2>1, <2>2, <2>3 DEF CleanFrame
  <1>4. stack' = Append(stack, y) /\ FrameOK(heap', Len(arrays), y) /\ y.op = "get"
    BY <1>1, EnterMoves
  <1>5. \E C2 : /\ Widens(C, C2) /\ CleanHeap(C2, Len(heap'), heap', caches', arrays')
                /\ CleanFrame(C2, T, arrays', y)
    <2>. DEFINE op == "get"
    <2>1. op \in {"get", "ref"} /\ Enter(op, o, f, stack) /\ op # "ref" /\ UNCHANGED arrays
      BY <1>1
    <2>2. \E C2 : /\ Widens(C, C2) /\ CleanHeap(C2, Len(heap'), heap', caches', arrays')
                  /\ CleanFrame(C2, T, arrays', Start(op, heap, o, f, DefOf(o, f).lambda))
      <3>. HIDE DEF op, o, f, y
      <3>. QED BY ONLY WellFormed, SizesRead(T), <1>1, <1>2, <1>3, <2>1, EnterClean
    <2>. QED BY <2>2
  <1>6. PICK C2 : /\ Widens(C, C2) /\ CleanHeap(C2, Len(heap'), heap', caches', arrays')
                  /\ CleanFrame(C2, T, arrays', y)
    BY <1>5
  <1>. HIDE DEF y
  <1>7. CleanStep(C2, T)
    <2>. DEFINE x == Top
    <2>1. stack' = Append(Append(Below, x), y) /\ x \in Frame /\ y \in Frame
      <3>1. Append(Below, Top) = stack
        <4>1. stack \in Seq(Frame) /\ Len(stack) \in Nat /\ Len(stack) > 0 /\ Top = stack[Len(stack)]
          BY <1>1, Typed, TopParts
        <4>2. /\ Append(Below, Top) \in Seq(Frame) /\ Len(Append(Below, Top)) = Len(stack)
              /\ Append(Below, Top)[Len(stack)] = Top
              /\ \A i \in 1..Len(stack) - 1 : Append(Below, Top)[i] = stack[i]
          BY <1>1, <1>2, <4>1, ReplaceTop DEF Below
        <4>3. \A i \in 1..Len(stack) : i \in 1..Len(stack) - 1 \/ i = Len(stack)
          BY <4>1
        <4>. DEFINE u == Append(Below, Top)
        <4>4. /\ u \in Seq(Frame) /\ stack \in Seq(Frame) /\ Len(u) = Len(stack)
              /\ \A i \in 1..Len(u) : u[i] = stack[i]
          BY <4>1, <4>2, <4>3
        <4>. HIDE DEF u
        <4>5. u = stack
          BY ONLY <4>4, SeqEqual
        <4>. QED BY <4>5 DEF u
      <3>. QED BY <1>2, <1>4, <3>1 DEF FrameOK
    <2>. QED BY <1>1, <1>4, <1>6, <2>1, TopWaits
  <1>8. held' \subseteq C2
    BY <1>1, <1>2, <1>6 DEF Widens
  <1>9. ArraysKeep
    BY <1>1 DEF ArraysKeep
  <1>. QED BY <1>6, <1>7, <1>8, <1>9, CleanAgain

LEMMA HoldingInside ==
  ASSUME NEW C, held \subseteq C, NEW v, Inside(C, arrays', v)
  PROVE  Holding(v) \subseteq C
  BY DEF Holding, Inside

LEMMA StackStaysClean ==
  ASSUME WellFormed, NEW C, NEW T, Clean(C, T), UNCHANGED <<heap, caches, arrays, stack>>, held' \subseteq C
  PROVE  SomeClean(T)'
  BY DEF Clean, SomeClean

\* What an object of C has cached.
LEMMA CachedInside ==
  ASSUME WellFormed, NEW C, CleanHeap(C, Len(heap), heap, caches, arrays),
         NEW o \in C, NEW f \in Fields
  PROVE  Inside(C, arrays, Cached(o, f))
  BY ValueTypes DEF CleanHeap, CleanObject, Cached, Inside

LEMMA EnterCallClean ==
  ASSUME WellFormed, NEW T, SizesRead(T), NEW C, Clean(C, T), NEW op \in {"get", "ref"},
         NEW o \in held, NEW f \in Fields, HasField(o, f), stack = <<>>,
         NEW below, below = <<>>, Enter(op, o, f, below), UNCHANGED <<arrays, held>>
  PROVE  SomeClean(T)'
  <1>. DEFINE y == Start(op, heap, o, f, DefOf(o, f).lambda)
  <1>1. o \in 1..Len(heap) /\ o \in C /\ held \subseteq C /\ UNCHANGED arrays
        /\ CleanHeap(C, Len(heap), heap, caches, arrays)
    BY DEF WellFormed, Clean
  <1>2. stack' = Append(below, y) /\ y.obj = o
    BY ONLY WellFormed, op \in {"get", "ref"}, f \in Fields, HasField(o, f),
            Enter(op, o, f, below), <1>1, EnterMoves
  <1>3. \E C2 : /\ Widens(C, C2) /\ CleanHeap(C2, Len(heap'), heap', caches', arrays')
                /\ CleanFrame(C2, T, arrays', y)
    BY ONLY WellFormed, SizesRead(T), op \in {"get", "ref"}, f \in Fields, HasField(o, f),
            Enter(op, o, f, below), <1>1, EnterClean
  <1>. HIDE DEF y
  <1>4. PICK C2 : /\ Widens(C, C2) /\ CleanHeap(C2, Len(heap'), heap', caches', arrays')
                  /\ CleanFrame(C2, T, arrays', y)
    BY <1>3
  <1>5. stack' = <<y>> /\ y.obj \in C2 /\ held' \subseteq C2
    BY <1>1, <1>2, <1>4 DEF Widens
  <1>6. CleanStep(C2, T)
    BY <1>4, <1>5, CallBegins
  <1>7. ArraysKeep
    BY DEF ArraysKeep
  <1>. QED BY <1>4, <1>5, <1>6, <1>7, CleanAgain

LEMMA GetClean ==
  ASSUME WellFormed, NEW T, SizesRead(T), SomeClean(T), NEW o \in held, NEW f \in Fields, Get(o, f)
  PROVE  SomeClean(T)'
  <1>. PICK C : Clean(C, T)
    BY DEF SomeClean
  <1>1. HasField(o, f) /\ stack = <<>> /\ UNCHANGED <<arrays, epoch>>
    BY DEF Get, Call
  <1>2. CASE Cached(o, f) # Unset
    <2>1. held' = Holding(Cached(o, f)) /\ UNCHANGED <<heap, caches, stack>>
      BY <1>2 DEF Get
    <2>2. Inside(C, arrays', Cached(o, f))
      BY <1>1, CachedInside DEF Clean
    <2>3. held' \subseteq C
      BY <2>1, <2>2, HoldingInside DEF Clean
    <2>. QED BY <1>1, <2>1, <2>3, StackStaysClean
  <1>3. CASE Cached(o, f) = Unset
    <2>. DEFINE op == "get"
                below == <<>>
    <2>1. op \in {"get", "ref"} /\ Enter(op, o, f, below) /\ UNCHANGED <<arrays, held>> /\ below = <<>>
      BY <1>1, <1>3 DEF Get
    <2>. HIDE DEF op, below
    <2>. QED BY <1>1, <2>1, EnterCallClean
  <1>. QED BY <1>2, <1>3

LEMMA RefValueClean ==
  ASSUME WellFormed, NEW T, SizesRead(T), SomeClean(T), NEW o \in held, NEW f \in Fields, RefValue(o, f)
  PROVE  SomeClean(T)'
  <1>. PICK C : Clean(C, T)
    BY DEF SomeClean
  <1>. DEFINE op == "ref"
              below == <<>>
  <1>1. HasField(o, f) /\ stack = <<>> /\ UNCHANGED <<arrays, held>>
        /\ op \in {"get", "ref"} /\ Enter(op, o, f, below) /\ below = <<>>
    BY DEF RefValue, Call
  <1>. HIDE DEF op, below
  <1>. QED BY <1>1, EnterCallClean

LEMMA ParentClean ==
  ASSUME WellFormed, NEW T, SomeClean(T), NEW o \in held, Parent(o)
  PROVE  SomeClean(T)'
  <1>. PICK C : Clean(C, T)
    BY DEF SomeClean
  <1>1. /\ heap[o].parent # 0 /\ held' = held \cup {heap[o].parent}
        /\ UNCHANGED <<heap, caches, arrays, stack>>
    BY DEF Parent
  <1>2. held' \subseteq C
    BY <1>1 DEF Clean, CleanHeap, CleanObject
  <1>. QED BY <1>1, <1>2, StackStaysClean

LEMMA MarshalJSONClean ==
  ASSUME WellFormed, NEW T, SomeClean(T), NEW o \in held, MarshalJSON(o)
  PROVE  SomeClean(T)'
  <1>. PICK C : Clean(C, T)
    BY DEF SomeClean
  <1>. DEFINE y == Marshal(heap, o)
  <1>1. /\ stack = <<>> /\ stack' = <<y>> /\ UNCHANGED <<heap, caches, arrays, held>>
        /\ o \in 1..Len(heap) /\ o \in C
    BY DEF MarshalJSON, Call, WellFormed, Clean
  <1>2. CleanFrame(C, T, arrays', y) /\ y.obj = o
    BY <1>1, MarshalClean, MarshalMoves
  <1>. HIDE DEF y
  <1>3. CleanStep(C, T)
    BY <1>1, <1>2, CallBegins
  <1>4. ArraysKeep
    BY <1>1 DEF ArraysKeep
  <1>. QED BY <1>1, <1>3, <1>4, WidensSelf, CleanAgain DEF Clean

\* The evaluation of a size.
LEMMA SizeFrameClean ==
  ASSUME NEW C, NEW T, SizesRead(T), NEW a, NEW s \in Structs,
         NEW y, y.op = "size", y.paths = SizeLambda[s]
  PROVE  CleanFrame(C, T, a, y)
  BY DEF SizesRead, CleanFrame

LEMMA SizeClean ==
  ASSUME WellFormed, NEW T, SizesRead(T), SomeClean(T), NEW o \in held, Size(o)
  PROVE  SomeClean(T)'
  <1>. PICK C : Clean(C, T)
    BY DEF SomeClean
  <1>. DEFINE s == heap[o].struct
              y == Start("size", heap, o, "none", SizeLambda[s])
              k == Len(heap)
              J == heap'[o].orig \in C /\ heap'[heap'[o].orig].cache # 0
  <1>1. /\ stack = <<>> /\ stack' = <<y>> /\ UNCHANGED <<caches, arrays, held>>
        /\ o \in 1..k /\ o \in C /\ SizeLambda[s] # <<>> /\ heap' = GetThis(heap, o)
        /\ CleanHeap(C, k, heap, caches, arrays) /\ held \subseteq C
    BY DEF Size, Call, WellFormed, Clean
  <1>2. /\ HeapOK(heap', Len(caches)) /\ Len(heap') = k + 1
        /\ heap'[k + 1] = heap[heap[o].orig] /\ \A i \in 1..k : heap'[i] = heap[i]
        /\ y.op = "size" /\ y.obj = o /\ y.paths = SizeLambda[s]
    BY <1>1, Parts, MeasureMoves
  <1>3. s \in Structs /\ heap[o].orig \in 1..k /\ k \in Nat
    BY <1>1, Parts, ObjectType
  <1>4. CleanHeap(C, k, heap', caches, arrays)
    <2>1. \A i \in 1..k : heap'[i].orig = heap[i].orig /\ heap'[i].cache = heap[i].cache
                          /\ heap'[i].parent = heap[i].parent
      BY <1>2
    <2>2. \A t \in C, f \in Fields : heap[t].cache # 0 => Inside(C, arrays, caches[heap[t].cache][f])
      BY <1>1 DEF CleanHeap, CleanObject
    <2>. HIDE DEF k
    <2>. QED BY ONLY <1>1, <2>1, <2>2, CleanSame
  <1>. HIDE DEF y, s, k
  <1>5. PICK C2 : C2 = IF J THEN C \cup {k + 1} ELSE C
    OBVIOUS
  <1>6. CleanHeap(C2, Len(heap'), heap', caches', arrays')
    <2>1. /\ heap'[k + 1] = heap'[heap'[o].orig] /\ HeapOK(heap', Len(caches)) /\ Len(heap') = k + 1
          /\ o \in 1..k
      BY <1>1, <1>2, <1>3
    <2>2. CleanHeap(C2, k + 1, heap', caches, arrays)
      BY <1>3, <1>4, <1>5, <2>1, AddCopy
    <2>. QED BY <1>1, <2>1, <2>2
  <1>. HIDE DEF J
  <1>7. Widens(C, C2)
    BY <1>3, <1>5 DEF Widens, k
  <1>8. CleanFrame(C2, T, arrays', y)
    BY <1>2, <1>3, SizeFrameClean
  <1>9. CleanStep(C2, T)
    BY <1>1, <1>2, <1>7, <1>8, CallBegins DEF Widens
  <1>10. ArraysKeep
    BY <1>1 DEF ArraysKeep
  <1>11. held' \subseteq C2
    BY <1>1, <1>7 DEF Widens
  <1>. QED BY <1>6, <1>7, <1>9, <1>10, <1>11, CleanAgain

-----------------------------------------------------------------------------
(* The elements of an array.                                               *)

LEMMA NextElementClean ==
  ASSUME WellFormed, NEW T, SizesRead(T), SomeClean(T), NextElement
  PROVE  SomeClean(T)'
  <1>. PICK C : Clean(C, T)
    BY DEF SomeClean
  <1>. DEFINE s == DefOf(Top.obj, Top.field).of
              k == Len(heap)
  <1>1. /\ stack # <<>> /\ InArray(Top) /\ UNCHANGED <<caches, arrays, held>>
        /\ \A i \in 1..k : heap'[i] = heap[i]
        /\ s \in Structs /\ heap'[k + 1] = NewObject(s)
        /\ ElementFixed(s) \/ ElementMeasured(s)
    BY NextElementMoves
  <1>2. /\ CleanFrame(C, T, arrays, Top) /\ CleanHeap(C, k, heap, caches, arrays)
        /\ held \subseteq C /\ FrameOK(heap, Len(arrays), Top) /\ Top \in Frame
    BY <1>1, TopClean
  <1>3. k \in Nat /\ C \subseteq 1..k /\ Top.obj \in 1..k
    BY <1>2, Parts DEF CleanHeap, FrameOK
  <1>4. NewObject(s).orig = k + 1 /\ NewObject(s).cache = 0 /\ NewObject(s).parent = 0
    BY DEF NewObject
  <1>5. CleanHeap(C, k, heap', caches, arrays)
    <2>1. \A i \in 1..k : heap'[i].orig = heap[i].orig /\ heap'[i].cache = heap[i].cache
                          /\ heap'[i].parent = heap[i].parent
      BY <1>1
    <2>2. \A t \in C, f \in Fields : heap[t].cache # 0 => Inside(C, arrays, caches[heap[t].cache][f])
      BY <1>2 DEF CleanHeap, CleanObject
    <2>. HIDE DEF k, s
    <2>. QED BY ONLY <1>2, <2>1, <2>2, CleanSame
  <1>. HIDE DEF s, k
  <1>6. PICK C2 : C2 = IF Top.obj \in C THEN C \cup {k + 1} ELSE C
    OBVIOUS
  <1>7. CleanHeap(C2, k + 1, heap', caches, arrays)
    BY <1>1, <1>3, <1>4, <1>5, <1>6, AddBlank
  <1>8. Widens(C, C2) /\ (Top.obj \in C2 <=> Top.obj \in C) /\ (k + 1 \in C2 <=> Top.obj \in C)
    BY <1>3, <1>6 DEF Widens, k
  <1>9. ArraysKeep
    BY <1>1 DEF ArraysKeep
  <1>10. held' \subseteq C2
    BY <1>1, <1>2, <1>8 DEF Widens
  <1>11. CleanFrame(C2, T, arrays', Top)
    BY <1>2, <1>8, <1>9, FrameWidens
  <1>12. Top.out \in Seq(1..k) /\ 1..k \subseteq Nat /\ Top.left \in Nat /\ Top.op \in {"get", "ref"}
    BY <1>1, <1>2, <1>3, FrameParts, ArrayParts DEF FrameOK, k
  <1>13. CASE ElementFixed(s)
    <2>. DEFINE x == WithOut(Top, Append(Top.out, k + 1), Top.left - 1)
    <2>1. Len(heap') = k + 1 /\ FrameOK(heap', Len(arrays), x) /\ stack' = Append(Below, x)
      BY <1>13 DEF ElementFixed, k
    <2>2. /\ x.op = Top.op /\ x.obj = Top.obj /\ x.paths = Top.paths /\ x.last = Top.last
          /\ x.field = Top.field /\ x.at = Top.at /\ x.copy = Top.copy /\ x.out = Append(Top.out, k + 1)
      BY <1>2 DEF WithOut, Frame
    <2>3. Range(Append(Top.out, k + 1)) = Range(Top.out) \cup {k + 1}
      <3>1. Top.out \in Seq(Nat) /\ k + 1 \in Nat
        BY <1>2, <1>3, FrameParts
      <3>. QED BY ONLY <3>1, RangeParts
    <2>. HIDE DEF x
    <2>4. CleanFrame(C2, T, arrays', x)
      BY <1>8, <1>11, <1>12, <2>2, <2>3 DEF CleanFrame
    <2>5. CleanStep(C2, T)
      BY <1>1, <2>1, <2>2, <2>4, TopBecomes DEF FrameOK
    <2>6. CleanHeap(C2, Len(heap'), heap', caches', arrays')
      BY <1>1, <1>7, <2>1
    <2>. QED BY <1>8, <1>9, <1>10, <2>5, <2>6, CleanAgain
  <1>14. CASE ElementMeasured(s)
    <2>. DEFINE x == WithOut(Top, Top.out, Top.left - 1)
                h == Append(heap, NewObject(s))
                y == Start("size", h, k + 1, "none", SizeLambda[s])
    <2>1. /\ Len(heap') = k + 2 /\ heap'[k + 2] = NewObject(s)
          /\ FrameOK(heap', Len(arrays), x) /\ FrameOK(heap', Len(arrays), y)
          /\ stack' = Append(Append(Below, x), y)
          /\ y.op = "size" /\ y.obj = k + 1 /\ y.paths = SizeLambda[s]
      BY <1>14 DEF ElementMeasured, k
    <2>2. /\ x.op = Top.op /\ x.obj = Top.obj /\ x.paths = Top.paths /\ x.last = Top.last
          /\ x.field = Top.field /\ x.at = Top.at /\ x.copy = Top.copy /\ x.out = Top.out
      BY <1>2 DEF WithOut, Frame
    <2>. HIDE DEF x, y
    <2>3. CleanFrame(C2, T, arrays', x)
      BY <1>11, <2>2 DEF CleanFrame
    <2>4. CleanFrame(C2, T, arrays', y)
      BY <1>1, <2>1, SizeFrameClean
    <2>5. CleanStep(C2, T)
      BY <1>1, <1>8, <2>1, <2>2, <2>3, <2>4, TopWaits DEF FrameOK
    <2>6. CleanHeap(C2, Len(heap'), heap', caches', arrays')
      <3>1. k + 1 \in Nat /\ k + 1 + 1 = k + 2
        BY <1>3
      <3>2. CleanHeap(C2, k + 1 + 1, heap', caches, arrays)
        BY <1>4, <1>7, <2>1, <3>1, AddBlank
      <3>. QED BY <1>1, <2>1, <3>1, <3>2
    <2>. QED BY <1>8, <1>9, <1>10, <2>5, <2>6, CleanAgain
  <1>. QED BY <1>1, <1>13, <1>14

-----------------------------------------------------------------------------
(* The end of an evaluation.                                               *)

\* The objects that are clean then: the new struct is, if its own is.
Finished(C) ==
    IF Kind(Top) = "struct" /\ Top.obj \in C THEN C \cup {Len(heap) + 1} ELSE C

LEMMA FinishedWidens ==
  ASSUME WellFormed, stack # <<>>, NEW C, C \subseteq 1..Len(heap)
  PROVE  Widens(C, Finished(C)) /\ (Top.obj \in Finished(C) <=> Top.obj \in C)
  BY TopParts, Parts DEF Widens, Finished

\* What an evaluation for a clean object finds leads to clean objects.
LEMMA ResultInside ==
  ASSUME WellFormed, Finish, NEW C, NEW T, CleanFrame(C, T, arrays, Top), C \subseteq 1..Len(heap),
         Top.op = "size" \/ Top.obj \in C
  PROVE  Inside(Finished(C), arrays', Result)
  <1>. DEFINE C2 == Finished(C)
  <1>1. stack # <<>> /\ Top.paths = <<>>
    BY FinishHeap
  <1>2. C \subseteq C2
    BY DEF Finished
  <1>3. CASE Top.op = "size"
    BY <1>1, <1>3, KindParts, ResultParts, ValueTypes DEF NonZero, Inside
  <1>4. CASE Top.op # "size"
    <2>1. Inside(C, arrays, Top.last) /\ Range(Top.out) \subseteq C /\ Top.obj \in C
      BY <1>4 DEF CleanFrame
    <2>2. Kind(Top) \in {"json", "int", "struct", "array", "value"}
      BY <1>1, <1>4, KindParts
    <2>3. CASE Kind(Top) = "json"
      BY <1>1, <2>3, ResultParts, ValueTypes DEF Inside
    <2>4. CASE Kind(Top) = "int"
      BY <1>1, <2>4, ResultParts DEF Inside
    <2>5. CASE Kind(Top) = "struct"
      <3>1. Result = Object(Len(heap) + 1) /\ Len(heap) + 1 \in Nat /\ Len(heap) + 1 \in C2
        BY <1>1, <2>1, <2>5, ResultParts, Parts DEF Finished
      <3>. QED BY <3>1, ValueTypes DEF Inside
    <2>6. CASE Kind(Top) = "array"
      <3>1. Result = Array(Len(arrays) + 1) /\ Len(arrays) + 1 \in Nat
            /\ arrays'[Len(arrays) + 1] = Top.out
        BY <1>1, <2>6, ResultParts, Parts, FinishArrays
      <3>. QED BY <1>2, <2>1, <3>1, ValueTypes DEF Inside
    <2>7. CASE Kind(Top) = "value"
      <3>1. Result = Top.last /\ ValueOK(Len(heap), Len(arrays), Top.last)
        BY <1>1, <2>7, ResultParts, TopParts DEF FrameOK
      <3>2. ArraysKeep
        BY FinishArrays DEF ArraysKeep
      <3>. QED BY <1>2, <2>1, <3>1, <3>2, InsideWidens
    <2>. QED BY <2>2, <2>3, <2>4, <2>5, <2>6, <2>7
  <1>. QED BY <1>3, <1>4

\* Get makes a clean object the parent of none that is not its own.
LEMMA TakenClean ==
  ASSUME WellFormed, Finish, NEW C, NEW T, SizesRead(T), CleanFrame(C, T, arrays, Top),
         C \subseteq 1..Len(heap), NEW i \in Finished(C), i \in Taken
  PROVE  Top.obj \in Finished(C)
  <1>. SUFFICES ASSUME Top.obj \notin C PROVE FALSE
    BY DEF Finished
  <1>1. /\ stack # <<>> /\ Top.op = "get" /\ i \in Adopted(Result) /\ i \in C /\ Len(heap) \in Nat
        /\ Top.obj \in 1..Len(heap)
    BY FinishHeap, Parts, TopParts DEF Taken, Finished
  <1>2. Range(Top.out) \cap C = {} /\ Top.field \in T
    BY <1>1 DEF CleanFrame
  <1>3. Kind(Top) \in {"int", "struct", "array"}
    <2>1. heap[Top.obj].struct \in Structs
      BY <1>1, Parts, ObjectType
    <2>. QED BY <1>1, <1>2, <2>1, KindParts DEF SizesRead, KindOf
  <1>4. CASE Kind(Top) = "int"
    BY <1>1, <1>4, ResultParts DEF Adopted
  <1>5. CASE Kind(Top) = "struct"
    <2>1. Result = Object(Len(heap) + 1) /\ Len(heap) + 1 \in Nat
      BY <1>1, <1>5, ResultParts
    <2>2. i = Len(heap) + 1
      BY <1>1, <2>1, ValueTypes DEF Adopted
    <2>. QED BY <1>1, <2>2
  <1>6. CASE Kind(Top) = "array"
    <2>1. Result = Array(Len(arrays) + 1) /\ Len(arrays) + 1 \in Nat
          /\ arrays'[Len(arrays) + 1] = Top.out
      BY <1>1, <1>6, ResultParts, Parts, FinishArrays
    <2>2. i \in Range(Top.out)
      BY <1>1, <2>1, ValueTypes DEF Adopted
    <2>. QED BY <1>1, <1>2, <2>2
  <1>. QED BY <1>3, <1>4, <1>5, <1>6

\* What it caches in a clean map leads to clean objects.
LEMMA FinishHeapClean ==
  ASSUME WellFormed, Finish, NEW C, NEW T, SizesRead(T), CleanFrame(C, T, arrays, Top),
         CleanHeap(C, Len(heap), heap, caches, arrays)
  PROVE  CleanHeap(Finished(C), Len(heap'), heap', caches', arrays')
  <1>. DEFINE C2 == Finished(C)
              k == Len(heap)
              g == MadeHeap
  <1>1. /\ stack # <<>> /\ k \in Nat /\ C \subseteq 1..k
        /\ \A i \in 1..k : g[i] = heap[i]
        /\ Kind(Top) # "struct" => Len(g) = k
        /\ Kind(Top) = "struct" =>
              Len(g) = k + 1 /\ g[k + 1] = NewObject(DefOf(Top.obj, Top.field).of)
        /\ Len(heap') = Len(g)
    BY FinishHeap, Parts, MadeHeapOK DEF CleanHeap
  <1>2. ArraysKeep
    BY FinishArrays DEF ArraysKeep
  <1>3. CleanHeap(C, k, g, caches, arrays')
    <2>1. \A i \in 1..k : g[i].orig = heap[i].orig /\ g[i].cache = heap[i].cache
                          /\ g[i].parent = heap[i].parent
      BY <1>1
    <2>2. ASSUME NEW o \in C, NEW f \in Fields, heap[o].cache # 0
          PROVE  Inside(C, arrays', caches[heap[o].cache][f])
      <3>. DEFINE v == caches[heap[o].cache][f]
      <3>1. Inside(C, arrays, v)
        BY <2>2 DEF CleanHeap, CleanObject
      <3>2. ValueOK(Len(heap), Len(arrays), v)
        <4>1. o \in 1..Len(heap)
          BY DEF CleanHeap
        <4>2. heap[o].cache \in 0..Len(caches) /\ Len(caches) \in Nat
          BY <4>1, Parts, ObjectType
        <4>3. heap[o].cache \in 1..Len(caches)
          BY <2>2, <4>2
        <4>. QED BY <4>3, Parts DEF CachesOK
      <3>. HIDE DEF v
      <3>3. Inside(C, arrays', v)
        BY <1>2, <3>1, <3>2, InsideWidens
      <3>. QED BY <3>3 DEF v
    <2>3. CleanHeap(C, k, heap, caches, arrays)
      OBVIOUS
    <2>. HIDE DEF k, g
    <2>. QED BY ONLY <2>1, <2>2, <2>3, CleanSame
  <1>4. CleanHeap(C2, Len(g), g, caches, arrays')
    <2>1. NewObject(DefOf(Top.obj, Top.field).of).orig = k + 1
          /\ NewObject(DefOf(Top.obj, Top.field).of).cache = 0
          /\ NewObject(DefOf(Top.obj, Top.field).of).parent = 0
      BY DEF NewObject
    <2>2. C2 = IF Kind(Top) = "struct" /\ Top.obj \in C THEN C \cup {k + 1} ELSE C
      BY DEF Finished
    <2>. HIDE DEF C2, k, g
    <2>3. CASE Kind(Top) = "struct"
      <3>1. g[k + 1].orig = k + 1 /\ g[k + 1].cache = 0 /\ g[k + 1].parent = 0 /\ Len(g) = k + 1
        BY <1>1, <2>1, <2>3
      <3>2. CleanHeap(C, k + 1, g, caches, arrays') /\ CleanHeap(C \cup {k + 1}, k + 1, g, caches, arrays')
        BY ONLY <1>1, <1>3, <3>1, AddBlank
      <3>. QED BY <2>2, <3>1, <3>2
    <2>4. CASE Kind(Top) # "struct"
      BY <1>1, <1>3, <2>2, <2>4
    <2>. QED BY <2>3, <2>4
  <1>5. ASSUME NEW i \in 1..Len(g)
        PROVE  /\ heap'[i].orig = g[i].orig /\ heap'[i].cache = g[i].cache
               /\ i \in C2 => heap'[i].parent = g[i].parent \/ heap'[i].parent \in C2
    <2>1. /\ heap'[i].parent = IF i \in Taken THEN Top.obj ELSE MadeHeap[i].parent
          /\ heap'[i].orig = MadeHeap[i].orig
      BY <1>1, <1>5, FinishHeap
    <2>2. heap'[i].cache = g[i].cache
      <3>1. i \in 1..k \/ (Kind(Top) = "struct" /\ i = k + 1)
        BY <1>1
      <3>2. NewObject(DefOf(Top.obj, Top.field).of).cache = 0
        BY DEF NewObject
      <3>. QED BY <1>1, <3>1, <3>2, FinishHeap
    <2>3. i \in C2 /\ i \in Taken => Top.obj \in C2
      BY <1>1, TakenClean
    <2>. QED BY <2>1, <2>2, <2>3
  <1>6. ASSUME NEW o \in C2, NEW f \in Fields, g[o].cache # 0
        PROVE  Inside(C2, arrays', caches'[g[o].cache][f])
    <2>1. Inside(C2, arrays', caches[g[o].cache][f])
      BY <1>4, <1>6 DEF CleanHeap, CleanObject
    <2>2. o \in 1..Len(g) /\ g[o].cache = heap'[o].cache /\ o \in 1..Len(heap')
      BY <1>1, <1>4, <1>5 DEF CleanHeap
    <2>3. g[o].cache \in 1..Len(caches)
      <3>1. heap'[o].cache \in 0..Len(caches) /\ Len(caches) \in Nat
        BY <2>2, FinishHeap, Parts, ObjectType
      <3>. QED BY <1>6, <2>2, <3>1
    <2>4. CASE Top.op = "get" /\ g[o].cache = heap[Top.obj].cache /\ f = Top.field
      <3>1. caches'[g[o].cache][f] = Result
        BY <2>3, <2>4, FinishCaches
      <3>2. Top.obj \in 1..k /\ g[Top.obj].cache = heap[Top.obj].cache /\ Top.obj \in 1..Len(g)
        BY <1>1, TopParts
      <3>3. Top.obj \in C2
        BY <1>4, <1>6, <2>4, <3>2 DEF CleanHeap
      <3>4. Top.obj \in C
        BY <1>1, <3>3, FinishedWidens
      <3>5. Inside(C2, arrays', Result)
        BY <1>1, <3>4, ResultInside
      <3>. QED BY <3>1, <3>5
    <2>5. CASE ~(Top.op = "get" /\ g[o].cache = heap[Top.obj].cache /\ f = Top.field)
      <3>1. caches'[g[o].cache][f] = caches[g[o].cache][f]
        BY <2>3, <2>5, FinishCaches
      <3>. QED BY <2>1, <3>1
    <2>. QED BY <2>4, <2>5
  <1>. HIDE DEF g, C2
  <1>7. CleanHeap(C2, Len(g), heap', caches', arrays')
    BY ONLY <1>4, <1>5, <1>6, CleanSame
  <1>. QED BY <1>1, <1>7 DEF C2

\* Those who wait for it go on with clean objects, and so does the user.
LEMMA FinishStackClean ==
  ASSUME WellFormed, Finish, NEW C, NEW T, SizesRead(T), Clean(C, T)
  PROVE  CleanStep(Finished(C), T) /\ held' \subseteq Finished(C)
  <1>. DEFINE C2 == Finished(C)
              n == Len(stack)
  <1>1. stack # <<>> /\ n \in Nat /\ n > 0 /\ Top = stack[n]
    BY FinishHeap, Typed, TopParts
  <1>2. /\ CleanFrame(C, T, arrays, Top) /\ CleanHeap(C, Len(heap), heap, caches, arrays)
        /\ held \subseteq C /\ CleanStack(C, T, arrays, stack) /\ Top \in Frame
    BY <1>1, TopClean DEF Clean
  <1>3. Widens(C, C2) /\ (Top.obj \in C2 <=> Top.obj \in C) /\ C \subseteq C2
    BY <1>1, <1>2, FinishedWidens DEF CleanHeap, Widens
  <1>4. Top.op = "size" \/ Top.obj \in C => Inside(C2, arrays', Result)
    BY <1>2, ResultInside DEF CleanHeap
  <1>5. Place(C, stack, n)
    BY <1>1, <1>2 DEF CleanStack
  <1>6. CASE n = 1
    <2>1. stack' = <<>> /\ held' = Holding(Result)
      BY <1>6, FinishStack
    <2>2. Top.obj \in C
      BY <1>1, <1>5, <1>6 DEF Place
    <2>3. held' \subseteq C2
      BY <1>2, <1>3, <1>4, <2>1, <2>2, HoldingInside
    <2>4. CleanStep(C2, T)
      BY <2>1, EmptySeq DEF CleanStep
    <2>. QED BY <2>3, <2>4
  <1>7. CASE n # 1
    <2>. DEFINE k == n - 1
                lo == stack[k]
                x == Resumed(lo, Top, Result)
    <2>1. /\ k \in 1..n /\ k \in Nat /\ k + 1 = n /\ n > 1
          /\ \A i \in 1..k : i = k \/ i \in 1..k - 1
          /\ \A i \in 1..k - 1 : i \in 1..n /\ i \in 1..n - 2 /\ i # k
      <3>1. n \in Nat /\ n > 0 /\ n # 1 /\ k = n - 1
        BY <1>1, <1>7
      <3>. HIDE DEF n, k
      <3>2. n \in Nat /\ n > 1 /\ k \in Nat /\ k + 1 = n /\ k \in 1..n /\ n - 2 = k - 1
        BY ONLY <3>1
      <3>3. \A i \in 1..k : i = k \/ i \in 1..k - 1
        BY ONLY <3>2
      <3>4. \A i \in 1..k - 1 : i \in 1..n /\ i # k
        BY ONLY <3>2
      <3>. QED BY ONLY <3>2, <3>3, <3>4
    <2>2. /\ Len(stack') = k /\ UNCHANGED held /\ stack'[k] = x
          /\ \A i \in 1..k - 1 : stack'[i] = stack[i]
      BY <1>7, <2>1, FinishStack
    <2>3. /\ Awaits(heap, lo, Top) /\ FrameOK(heap, Len(arrays), lo) /\ Returned(lo, x)
          /\ x.op = lo.op /\ x.obj = lo.obj /\ x.field = lo.field /\ x.copy = lo.copy
          /\ x.last = lo.last
      BY <2>1, ResumedMoves
    <2>4. CleanFrame(C, T, arrays, lo) /\ lo \in Frame /\ lo.paths \in Lambda
      BY <1>2, <2>1, <2>3, FrameParts DEF CleanStack, FrameOK
    <2>5. ArraysKeep
      BY FinishArrays DEF ArraysKeep
    <2>6. CleanFrame(C2, T, arrays', lo)
      BY <1>3, <2>3, <2>4, <2>5, FrameWidens
    <2>7. Top.op = "size" => (Top.obj \in C <=> lo.obj \in C)
      BY <1>1, <1>5, <2>1 DEF Place
    <2>8. lo.obj \in C2 <=> lo.obj \in C
      BY <1>3, <2>3 DEF FrameOK, Widens
    <2>. HIDE DEF x, lo, k
    <2>9. x = lo \/ CleanFrame(C2, T, arrays', x)
      <3>1. CASE Top.op = "json" /\ x = lo
        BY <3>1
      <3>2. CASE Top.op = "size" /\ x = WithOut(lo, lo.out, 0)
        <4>1. x.out = lo.out /\ x.at = lo.at /\ x.paths = lo.paths
          BY <2>4, <3>2 DEF WithOut, Frame
        <4>. QED BY <2>3, <2>6, <4>1 DEF CleanFrame
      <3>3. CASE Top.op = "size" /\ x = WithOut(lo, Append(lo.out, Top.obj), lo.left)
        <4>1. x.out = Append(lo.out, Top.obj) /\ x.at = lo.at /\ x.paths = lo.paths
          BY <2>4, <3>3 DEF WithOut, Frame
        <4>2. Range(Append(lo.out, Top.obj)) = Range(lo.out) \cup {Top.obj}
          <5>1. lo.out \in Seq(Nat) /\ Top.obj \in Nat
            BY <1>2, <2>4, FrameParts
          <5>. QED BY ONLY <5>1, RangeParts
        <4>3. Top.obj \in C2 <=> lo.obj \in C2
          BY <1>3, <2>7, <2>8, <3>3
        <4>. QED BY <2>3, <2>6, <4>1, <4>2, <4>3 DEF CleanFrame
      <3>4. CASE Top.op = "get" /\ lo.paths # <<>> /\ Head(lo.paths) # <<>> /\ x = Moved(lo, Result)
        <4>1. /\ x.out = lo.out /\ x.at = Result /\ Len(x.paths) = Len(lo.paths)
              /\ x.paths[1] = Tail(lo.paths[1])
              /\ \A i \in 1..Len(lo.paths) : i # 1 => x.paths[i] = lo.paths[i]
          <5>1. x.out = lo.out
            BY <2>4, <3>4 DEF Moved, Frame
          <5>. QED BY <2>4, <3>4, <5>1, MovedParts
        <4>2. lo.paths[1] # <<>>
          BY <2>4, <3>4, LambdaParts
        <4>3. ReadsOnly(lo.paths, T) => ReadsOnly(x.paths, T)
          BY <2>4, <3>4, <4>1, <4>2, ReadsLess
        <4>4. lo.op # "size" /\ lo.obj \in C2 => Inside(C2, arrays', Result)
          <5>. SUFFICES ASSUME lo.op # "size", lo.obj \in C PROVE Top.obj \in C
            BY <1>4, <2>8
          <5>1. lo.at.type = "object" /\ lo.at.obj = Top.obj
            BY <2>3, <3>4 DEF Awaits
          <5>2. Inside(C, arrays, lo.at)
            BY <2>4, <3>4 DEF CleanFrame
          <5>. QED BY <5>1, <5>2 DEF Inside
        <4>5. x.op # "size" /\ x.obj \in C2 =>
                /\ x.paths # <<>> => x.copy \in C2 /\ Inside(C2, arrays', x.at)
                /\ Inside(C2, arrays', x.last) /\ Range(x.out) \subseteq C2
          BY <2>3, <2>6, <3>4, <4>1, <4>4 DEF CleanFrame
        <4>. QED BY <2>3, <2>6, <4>1, <4>3, <4>5 DEF CleanFrame
      <3>. QED BY <2>3, <3>1, <3>2, <3>3, <3>4 DEF Returned
    <2>10. stack'[k].op = stack[k].op /\ stack'[k].obj = stack[k].obj
           /\ (stack'[k] = stack[k] \/ CleanFrame(C2, T, arrays', stack'[k]))
      BY <2>2, <2>3, <2>9 DEF lo
    <2>. HIDE DEF C2
    <2>11. CleanStep(C2, T)
      <3>. SUFFICES ASSUME NEW i \in 1..k
                    PROVE  /\ i \in 1..n /\ stack'[i].op = stack[i].op /\ stack'[i].obj = stack[i].obj
                           /\ stack'[i] = stack[i] \/ CleanFrame(C2, T, arrays', stack'[i])
        BY <2>2 DEF CleanStep
      <3>1. CASE i = k
        BY <2>1, <2>10, <3>1
      <3>2. CASE i \in 1..k - 1
        BY <2>1, <2>2, <3>2
      <3>. QED BY <2>1, <3>1, <3>2
    <2>12. held' \subseteq C2
      BY <1>2, <1>3, <2>2
    <2>. QED BY <2>11, <2>12 DEF C2
  <1>. QED BY <1>6, <1>7

LEMMA FinishClean ==
  ASSUME WellFormed, NEW T, SizesRead(T), SomeClean(T), Finish
  PROVE  SomeClean(T)'
  <1>. PICK C : Clean(C, T)
    BY DEF SomeClean
  <1>1. stack # <<>>
    BY FinishHeap
  <1>2. /\ CleanFrame(C, T, arrays, Top) /\ CleanHeap(C, Len(heap), heap, caches, arrays)
    BY <1>1, TopClean
  <1>3. PICK C2 : C2 = Finished(C)
    OBVIOUS
  <1>4. /\ CleanHeap(C2, Len(heap'), heap', caches', arrays') /\ Widens(C, C2)
        /\ CleanStep(C2, T) /\ held' \subseteq C2
    BY <1>1, <1>2, <1>3, FinishHeapClean, FinishedWidens, FinishStackClean DEF CleanHeap
  <1>5. ArraysKeep
    BY FinishArrays DEF ArraysKeep
  <1>. QED BY <1>4, <1>5, CleanAgain

LEMMA NextClean ==
  ASSUME WellFormed, NEW T, SizesRead(T), SomeClean(T), [Next]_vars
  PROVE  SomeClean(T)'
  <1>1. CASE EndPath
    BY <1>1, EndPathClean
  <1>2. CASE Access
    BY <1>2, AccessClean
  <1>3. CASE Descend
    BY <1>3, DescendClean
  <1>4. CASE NextElement
    BY <1>4, NextElementClean
  <1>5. CASE Encode
    BY <1>5, EncodeClean
  <1>6. CASE Finish
    BY <1>6, FinishClean
  <1>7. CASE \E o \in held : Size(o) \/ Parent(o) \/ MarshalJSON(o)
    BY <1>7, SizeClean, ParentClean, MarshalJSONClean
  <1>8. CASE \E o \in held, f \in Fields : Get(o, f) \/ RefValue(o, f)
    BY <1>8, GetClean, RefValueClean
  <1>9. CASE Change \/ UNCHANGED vars
    <2>1. UNCHANGED <<heap, caches, arrays, stack, held>>
      BY <1>9 DEF Change, vars
    <2>. QED BY <2>1, StackStaysClean DEF SomeClean, Clean
  <1>. QED BY <1>1, <1>2, <1>3, <1>4, <1>5, <1>6, <1>7, <1>8, <1>9 DEF Next, Step

LEMMA InitClean == ASSUME NEW T, Init PROVE SomeClean(T)
  <1>1. PICK s \in Roots : heap = <<[struct |-> s, orig |-> 1, cache |-> 0, parent |-> 0]>>
    BY DEF Init
  <1>2. /\ Len(heap) = 1 /\ heap[1].orig = 1 /\ heap[1].cache = 0 /\ heap[1].parent = 0
        /\ stack = <<>> /\ held = {1} /\ 1..1 = {1}
    BY <1>1 DEF Init
  <1>3. CleanHeap({1}, Len(heap), heap, caches, arrays)
    BY <1>2 DEF CleanHeap, CleanObject, Shares
  <1>4. CleanStack({1}, T, arrays, stack)
    BY <1>2, EmptySeq DEF CleanStack
  <1>. QED BY <1>2, <1>3, <1>4 DEF SomeClean, Clean

\* What the user holds, and what leads there, is clean at all times.
LEMMA SpecClean == ASSUME NEW T, SizesRead(T) PROVE Spec => []SomeClean(T)
  <1>1. Init => SomeClean(T)
    BY InitClean
  <1>2. WellFormed /\ SomeClean(T) /\ [Next]_vars => SomeClean(T)'
    BY NextClean
  <1>. QED BY <1>1, <1>2, SpecWF, PTL DEF Spec

-----------------------------------------------------------------------------
(* The record.                                                             *)

\* What is put for the memo of LazyRecord.
Memo == {p \in {<<<<o, f>>, Cached(o, f)>> : o \in Originals, f \in Fields} : p[2] # Unset}

\* The struct o has field f cached with v.
Remembers(o, f, v) ==
    /\ o \in 1..Len(heap) /\ f \in Fields /\ heap[o].orig = o
    /\ Reads(heap, caches, o, f, v)

LEMMA MemoParts ==
  ASSUME WellFormed
  PROVE  /\ \A p \in Memo : \E o, f, v : p = <<<<o, f>>, v>> /\ Remembers(o, f, v)
         /\ \A o, f, v : Remembers(o, f, v) => <<<<o, f>>, v>> \in Memo
         /\ \A o, f, v, w : Remembers(o, f, v) /\ Remembers(o, f, w) => v = w
  <1>1. Originals = {o \in 1..Len(heap) : heap[o].orig = o}
    BY Typed DEF Originals
  <1>2. ASSUME NEW p \in Memo PROVE \E o, f, v : p = <<<<o, f>>, v>> /\ Remembers(o, f, v)
    <2>1. PICK o \in Originals, f \in Fields : p = <<<<o, f>>, Cached(o, f)>> /\ Cached(o, f) # Unset
      BY DEF Memo
    <2>2. Remembers(o, f, Cached(o, f))
      BY <1>1, <2>1 DEF Remembers, Reads, Cached
    <2>. QED BY <2>1, <2>2
  <1>3. ASSUME NEW o, NEW f, NEW v, Remembers(o, f, v) PROVE <<<<o, f>>, v>> \in Memo
    <2>1. o \in Originals /\ f \in Fields /\ v = Cached(o, f) /\ v # Unset
      BY <1>1, <1>3 DEF Remembers, Reads, Cached
    <2>. QED BY <2>1 DEF Memo
  <1>4. \A o, f, v, w : Remembers(o, f, v) /\ Remembers(o, f, w) => v = w
    BY DEF Remembers, Reads
  <1>. QED BY <1>2, <1>3, <1>4

LEMMA RemembersStays ==
  ASSUME WellFormed, Pending, [Next]_vars, NEW o, NEW f, NEW v, Remembers(o, f, v)
  PROVE  Remembers(o, f, v)'
  <1>1. Grows(heap, heap') /\ Reads(heap', caches', o, f, v)
    BY MapsStay, ReadsStays DEF Remembers
  <1>2. o \in 1..Len(heap') /\ heap'[o].orig = o
    <2>1. HeapOK(heap', Len(caches')) /\ Len(heap) \in Nat
      BY NextWF, Parts DEF WellFormed
    <2>2. Len(heap') \in Nat
      BY <2>1 DEF HeapOK
    <2>. QED BY <1>1, <2>1, <2>2 DEF Grows, Remembers
  <1>. QED BY <1>1, <1>2 DEF Remembers

\* A step that writes no field finds no value.
LEMMA QuietRemembers ==
  ASSUME WellFormed, Quiet, NEW o, NEW f, NEW v, Remembers(o, f, v)'
  PROVE  Remembers(o, f, v)
  <1>1. /\ o \in 1..Len(heap') /\ f \in Fields /\ heap'[o].orig = o
        /\ heap'[o].cache # 0 /\ v # Unset /\ v = caches'[heap'[o].cache][f]
    BY DEF Remembers, Reads
  <1>2. /\ Len(heap) \in Nat /\ Len(caches) \in Nat /\ Len(caches') \in Nat
        /\ heap'[o].cache \in 0..Len(caches')
    <2>1. HeapOK(heap', Len(caches')) /\ Len(caches') \in Nat
      BY DEF Quiet
    <2>2. heap'[o].cache \in 0..Len(caches')
      BY <1>1, <2>1, ObjectType
    <2>. QED BY <2>1, <2>2, Parts
  <1>3. heap'[o].cache \in 1..Len(caches)
    <2>. SUFFICES ASSUME heap'[o].cache > Len(caches) PROVE FALSE
      BY <1>1, <1>2
    <2>1. caches'[heap'[o].cache] = Blank
      BY <1>1, <1>2 DEF Quiet
    <2>. QED BY <1>1, <2>1 DEF Blank
  <1>4. o \in 1..Len(heap)
    BY <1>1, <1>2 DEF Quiet, HeapOK
  <1>5. heap[o].orig = o /\ heap[o].cache = heap'[o].cache
    BY <1>1, <1>2, <1>3, <1>4 DEF Quiet, Grows
  <1>6. caches'[heap'[o].cache] = caches[heap[o].cache]
    BY <1>3, <1>5 DEF Quiet
  <1>. QED BY <1>1, <1>4, <1>5, <1>6 DEF Remembers, Reads

\* The end of Get finds one.
LEMMA FinishRemembers ==
  ASSUME WellFormed, Pending, Finish, Top.op = "get", NEW o, NEW f, NEW v, Remembers(o, f, v)'
  PROVE  \/ Remembers(o, f, v)
         \/ o = heap[Top.obj].orig /\ f = Top.field /\ v = Result
  <1>1. /\ o \in 1..Len(heap') /\ f \in Fields /\ heap'[o].orig = o
        /\ heap'[o].cache # 0 /\ v # Unset /\ v = caches'[heap'[o].cache][f]
    BY DEF Remembers, Reads
  <1>2. /\ stack # <<>> /\ Grows(heap, heap') /\ Len(heap') = Len(MadeHeap) /\ Len(heap) \in Nat
        /\ \A i \in 1..Len(heap) : heap'[i].cache = heap[i].cache
        /\ Kind(Top) = "struct" => heap'[Len(heap) + 1].cache = 0
        /\ Top.obj \in 1..Len(heap)
    BY FinishHeap, Parts, TopParts
  <1>3. o \in 1..Len(heap)
    BY <1>1, <1>2, MadeHeapOK
  <1>4. heap[o].orig = o /\ heap[o].cache = heap'[o].cache
    BY <1>1, <1>2, <1>3 DEF Grows
  <1>5. heap[o].cache \in 1..Len(caches)
    <2>1. heap[o].cache \in 0..Len(caches) /\ Len(caches) \in Nat
      BY <1>3, Parts, ObjectType
    <2>. QED BY <1>1, <1>4, <2>1
  <1>6. CASE heap[o].cache = heap[Top.obj].cache /\ f = Top.field
    <2>1. heap[Top.obj].orig = heap[o].orig
      BY <1>1, <1>2, <1>3, <1>4, <1>6, Parts DEF HeapOK
    <2>. QED BY <1>1, <1>4, <1>6, <2>1, FinishWrites
  <1>7. CASE ~(heap[o].cache = heap[Top.obj].cache /\ f = Top.field)
    <2>1. caches'[heap[o].cache][f] = caches[heap[o].cache][f]
      BY <1>1, <1>5, <1>7, FinishWrites
    <2>. QED BY <1>1, <1>3, <1>4, <2>1 DEF Remembers, Reads
  <1>. QED BY <1>6, <1>7

\* A set of no more than one element.
LEMMA AtMostOne == ASSUME NEW x, NEW S, S \subseteq {x} PROVE Cardinality(S) <= 1
  <1>1. S = {} \/ S = {x}
    OBVIOUS
  <1>2. Cardinality({}) = 0 /\ Cardinality({x}) = 1
    BY FS_EmptySet, FS_Singleton
  <1>. QED BY <1>1, <1>2

LEMMA MemoGrows ==
  ASSUME WellFormed, Pending, [Next]_vars
  PROVE  /\ Memo \subseteq Memo' /\ Cardinality(Memo' \ Memo) <= 1
         /\ \A p, q \in Memo' : p[1] = q[1] => p = q
  <1>1. WellFormed'
    BY NextWF
  <1>2. /\ \A p \in Memo' : \E o, f, v : p = <<<<o, f>>, v>> /\ Remembers(o, f, v)'
        /\ \A o, f, v : Remembers(o, f, v)' => <<<<o, f>>, v>> \in Memo'
        /\ \A o, f, v, w : Remembers(o, f, v)' /\ Remembers(o, f, w)' => v = w
    <2>1. (WellFormed =>
            /\ \A p \in Memo : \E o, f, v : p = <<<<o, f>>, v>> /\ Remembers(o, f, v)
            /\ \A o, f, v : Remembers(o, f, v) => <<<<o, f>>, v>> \in Memo
            /\ \A o, f, v, w : Remembers(o, f, v) /\ Remembers(o, f, w) => v = w)'
      BY MemoParts, PTL
    <2>. QED BY <1>1, <2>1
  <1>3. Memo \subseteq Memo'
    BY <1>2, MemoParts, RemembersStays
  <1>4. Cardinality(Memo' \ Memo) <= 1
    <2>1. CASE Quiet
      <3>1. Memo' \ Memo \subseteq {Null}
        BY <1>2, <2>1, MemoParts, QuietRemembers
      <3>. QED BY ONLY <3>1, AtMostOne
    <2>2. CASE Finish /\ Top.op = "get"
      <3>1. Memo' \ Memo \subseteq {<<<<heap[Top.obj].orig, Top.field>>, Result>>}
        BY <1>2, <2>2, MemoParts, FinishRemembers
      <3>. QED BY ONLY <3>1, AtMostOne
    <2>. QED BY <2>1, <2>2, StepsQuiet
  <1>5. ASSUME NEW p \in Memo', NEW q \in Memo', p[1] = q[1] PROVE p = q
    <2>1. PICK o, f, v : p = <<<<o, f>>, v>> /\ Remembers(o, f, v)'
      BY <1>2
    <2>2. PICK o2, f2, v2 : q = <<<<o2, f2>>, v2>> /\ Remembers(o2, f2, v2)'
      BY <1>2
    <2>3. o = o2 /\ f = f2
      BY <1>5, <2>1, <2>2
    <2>. QED BY <1>2, <2>1, <2>2, <2>3
  <1>. QED BY <1>3, <1>4, <1>5

\* The user is told what the struct has cached.
LEMMA HitIsRemembered ==
  ASSUME WellFormed, NEW T, SomeClean(T), NEW o \in held, NEW f \in Fields, Cached(o, f) # Unset
  PROVE  Remembers(heap[o].orig, f, Cached(o, f))
  <1>1. PICK C : Clean(C, T)
    BY DEF SomeClean
  <1>2. o \in C /\ o \in 1..Len(heap) /\ CleanHeap(C, Len(heap), heap, caches, arrays)
    BY <1>1 DEF Clean, WellFormed
  <1>3. heap[o].cache = heap[heap[o].orig].cache
    BY <1>2 DEF CleanHeap, CleanObject, Shares
  <1>4. heap[o].orig \in 1..Len(heap) /\ heap[heap[o].orig].orig = heap[o].orig
    <2>1. ObjectOK(heap, Len(caches), o) /\ heap[o].orig \in 1..Len(heap)
      BY <1>2, Parts, ObjectType DEF HeapOK
    <2>. QED BY <2>1 DEF ObjectOK
  <1>. QED BY <1>3, <1>4 DEF Remembers, Reads, Cached

LEMMA AnswerIsRemembered ==
  ASSUME WellFormed, NEW T, SomeClean(T), Pending, Finish, Len(stack) = 1, Top.op = "get"
  PROVE  \E o, f, v : /\ o = heap[Top.obj].orig /\ f = Top.field /\ v = Result
                      /\ Remembers(o, f, v)'
  <1>. DEFINE p == heap[Top.obj].orig
  <1>1. PICK C : Clean(C, T)
    BY DEF SomeClean
  <1>2. /\ stack # <<>> /\ Top = stack[1] /\ Top.obj \in 1..Len(heap) /\ Grows(heap, heap')
        /\ \A i \in 1..Len(heap) : heap'[i].cache = heap[i].cache
        /\ Len(heap) \in Nat /\ Len(heap') \in Nat /\ Result # Unset
    <2>1. heap' \in Seq(StructObject)
      BY FinishHeap
    <2>. QED BY <2>1, FinishHeap, FinishArrays, TopParts, Parts
  <1>3. Top.obj \in C /\ CleanHeap(C, Len(heap), heap, caches, arrays)
    <2>1. 1 \in 1..Len(stack)
      OBVIOUS
    <2>. QED BY <1>1, <1>2, <2>1 DEF Clean, CleanStack, Place
  <1>4. heap[p].cache = heap[Top.obj].cache
    BY <1>3 DEF CleanHeap, CleanObject, Shares
  <1>5. p \in 1..Len(heap) /\ heap[p].orig = p
    <2>1. ObjectOK(heap, Len(caches), Top.obj) /\ p \in 1..Len(heap)
      BY <1>2, Parts, ObjectType DEF HeapOK
    <2>. QED BY <2>1 DEF ObjectOK
  <1>6. /\ heap[Top.obj].cache \in 1..Len(caches) /\ Top.field \in Fields
        /\ caches'[heap[Top.obj].cache][Top.field] = Result
    BY FinishWrites
  <1>. HIDE DEF p
  <1>7. /\ p \in 1..Len(heap') /\ heap'[p].orig = p /\ heap'[p].cache = heap[Top.obj].cache
        /\ heap'[p].cache # 0
    <2>1. Len(caches) \in Nat
      BY Parts
    <2>. QED BY <1>2, <1>4, <1>5, <1>6, <2>1 DEF Grows
  <1>8. PICK o, f, v : o = p /\ f = Top.field /\ v = Result
    OBVIOUS
  <1>9. Remembers(o, f, v)'
    BY <1>2, <1>6, <1>7, <1>8 DEF Remembers, Reads
  <1>. QED BY <1>8, <1>9 DEF p

\* All answers are in the memo.
AnswersKnown == answers \subseteq Memo

LEMMA AnswersGrow ==
  ASSUME WellFormed, NEW T, SomeClean(T), Pending, AnswersKnown, [Next]_vars
  PROVE  /\ answers \subseteq answers' /\ Cardinality(answers' \ answers) <= 1
         /\ answers' \subseteq Memo'
  <1>1. Memo \subseteq Memo' /\ answers \subseteq Memo'
    BY MemoGrows DEF AnswersKnown
  <1>2. \A o, f, v : Remembers(o, f, v)' => <<<<o, f>>, v>> \in Memo'
    <2>1. (WellFormed => \A o, f, v : Remembers(o, f, v) => <<<<o, f>>, v>> \in Memo)'
      BY MemoParts, PTL
    <2>. QED BY <2>1, NextWF
  <1>3. \/ UNCHANGED answers
        \/ \E p \in Memo' : answers' = answers \cup {p}
    <2>1. CASE EndPath \/ Access \/ Descend \/ NextElement \/ Encode \/ Change \/ UNCHANGED vars
      BY <2>1 DEF EndPath, Access, Descend, NextElement, Encode, Change, vars
    <2>2. CASE \E o \in held : Size(o) \/ Parent(o) \/ MarshalJSON(o)
      BY <2>2 DEF Size, Parent, MarshalJSON
    <2>3. CASE \E o \in held, f \in Fields : RefValue(o, f)
      BY <2>3 DEF RefValue
    <2>4. ASSUME NEW o \in held, NEW f \in Fields, Get(o, f)
          PROVE  \/ UNCHANGED answers
                 \/ \E p \in Memo' : answers' = answers \cup {p}
      <3>1. CASE Cached(o, f) = Unset
        BY <2>4, <3>1 DEF Get
      <3>2. CASE Cached(o, f) # Unset
        <4>1. answers' = answers \cup {<<<<heap[o].orig, f>>, Cached(o, f)>>}
          BY <2>4, <3>2 DEF Get
        <4>2. <<<<heap[o].orig, f>>, Cached(o, f)>> \in Memo
          BY <3>2, HitIsRemembered, MemoParts
        <4>. QED BY <1>1, <4>1, <4>2
      <3>. QED BY <3>1, <3>2
    <2>5. CASE Finish
      <3>1. CASE Len(stack) = 1 /\ Top.op = "get"
        <4>1. answers' = answers \cup {<<<<heap[Top.obj].orig, Top.field>>, Result>>}
          BY <2>5, <3>1, FinishStack
        <4>2. PICK o, f, v : /\ o = heap[Top.obj].orig /\ f = Top.field /\ v = Result
                             /\ Remembers(o, f, v)'
          BY <2>5, <3>1, AnswerIsRemembered
        <4>3. <<<<o, f>>, v>> \in Memo'
          BY <1>2, <4>2
        <4>. QED BY <4>1, <4>2, <4>3
      <3>2. CASE ~(Len(stack) = 1 /\ Top.op = "get")
        BY <2>5, <3>2, FinishStack
      <3>. QED BY <3>1, <3>2
    <2>. QED BY <2>1, <2>2, <2>3, <2>4, <2>5 DEF Next, Step
  <1>4. PICK p : answers' \ answers \subseteq {p}
    BY <1>3
  <1>5. Cardinality(answers' \ answers) <= 1
    BY ONLY <1>4, AtMostOne
  <1>. QED BY <1>1, <1>3, <1>5

(***************************************************************************)
(* A struct is a record whose fields have any value when they are first    *)
(* read and that one ever after, whichever of the copies of the struct     *)
(* that lambdas were given is asked (struct.go:161-209, 252-259).  The     *)
(* fields that sizes are read from are no value fields, in the instance    *)
(* k, m and c: a value could hand on the copy that Size evaluates with,    *)
(* which has a map of its own if it was made first (struct.go:216).        *)
(***************************************************************************)
THEOREM StructImplementsRecord ==
  ASSUME NEW T \in SUBSET Fields, SizesRead(T)
  PROVE  Spec /\ []NoReentry => OneAnswerPerField
  <1>1. Init => Record!Init /\ AnswersKnown
    <2>. SUFFICES ASSUME Init PROVE Record!Init /\ AnswersKnown
      OBVIOUS
    <2>1. WellFormed /\ answers = {}
      BY InitWF DEF Init
    <2>2. \A o \in 1..Len(heap) : heap[o].cache = 0
      <3>1. PICK s \in Roots : heap = <<[struct |-> s, orig |-> 1, cache |-> 0, parent |-> 0]>>
        BY DEF Init
      <3>. QED BY <3>1
    <2>3. \A o, f, v : ~Remembers(o, f, v)
      BY <2>2 DEF Remembers, Reads
    <2>4. Memo = {}
      BY <2>1, <2>3, MemoParts
    <2>. QED BY <2>1, <2>4 DEF Record!Init, AnswersKnown, Memo
  <1>2. WellFormed /\ Pending /\ SomeClean(T) /\ AnswersKnown /\ [Next]_vars =>
          /\ AnswersKnown'
          /\ Record!Next
    <2>. SUFFICES ASSUME WellFormed, Pending, SomeClean(T), AnswersKnown, [Next]_vars
                  PROVE  AnswersKnown' /\ Record!Next
      OBVIOUS
    <2>1. /\ Memo \subseteq Memo' /\ Cardinality(Memo' \ Memo) <= 1
          /\ \A p, q \in Memo' : p[1] = q[1] => p = q
      BY MemoGrows
    <2>2. /\ answers \subseteq answers' /\ Cardinality(answers' \ answers) <= 1
          /\ answers' \subseteq Memo'
      BY AnswersGrow
    <2>3. \A S : Record!Cardinality(S) = Cardinality(S)
      BY DEF Record!Cardinality, Cardinality
    <2>. QED BY <2>1, <2>2, <2>3 DEF AnswersKnown, Memo, Record!Next, Record!OneValueEach
  <1>3. Spec => []SomeClean(T)
    BY SpecClean
  <1>. QED BY <1>1, <1>2, <1>3, SpecWF, SpecPending, PTL DEF Spec, OneAnswerPerField, Record!Spec

-----------------------------------------------------------------------------
(***************************************************************************)
(* No field is evaluated inside its own evaluation, if the definitions can *)
(* be ranked.  Every object is given a role as it is made (R), evaluations *)
(* stay on the paths of the reading t, and so each has a lower rank than   *)
(* those that wait for it.                                                 *)
(***************************************************************************)

\* The objects with a role of S, and the roles from which w may read p.
At(R, S) == {i \in DOMAIN R : R[i] \in S}
From(t, w, p) == {r \in Role : <<w, r, p>> \in t.reads}

\* The evaluation fr, by the name it has in a reading.
By(R, fr) == <<R[fr.obj][1], fr.field>>

RoledObject(t, R, h, c, a, i) ==
    /\ R[i] \in Role /\ R[i][1] = h[i].struct
    /\ h[i].orig = i <=> R[i] = <<h[i].struct, "orig">>
    /\ h[i].parent # 0 => h[h[i].parent].struct \in t.parents[R[i]]
    /\ h[i].cache # 0 => \A f \in Fields :
          Inside(At(R, t.answers[<<h[i].struct, f>>]), a, c[h[i].cache][f])

\* An evaluation is where its definition leads it.
RoledFrame(t, R, a, fr) ==
    LET w == By(R, fr)
    IN  fr.op # "json" =>
          /\ fr.paths # <<>> => R[fr.copy] = w /\ Inside(At(R, From(t, w, Head(fr.paths))), a, fr.at)
          /\ \A k \in 2..Len(fr.paths) : <<w, w, fr.paths[k]>> \in t.reads
          /\ fr.op \in {"get", "ref"} =>
                /\ Range(fr.out) \subseteq At(R, t.answers[w])
                /\ Def[w[1]][w[2]].kind = "value" => Inside(At(R, t.answers[w]), a, fr.last)

\* Those below wait for evaluations of a lower rank.
RoledPlace(t, R, s, i) ==
    /\ \A j \in 1..i - 1 : s[j].op # "json" =>
          s[i].op # "json" /\ t.rank[By(R, s[i])] + (i - j) <= t.rank[By(R, s[j])]
    /\ i > 1 /\ s[i].op = "size" => R[s[i].obj] \in t.answers[By(R, s[i-1])]

RoledHeap(t, R, h, c, a) == DOMAIN R = 1..Len(h) /\ \A i \in 1..Len(h) : RoledObject(t, R, h, c, a, i)

RoledStack(t, R, a, s) == \A i \in 1..Len(s) : RoledFrame(t, R, a, s[i]) /\ RoledPlace(t, R, s, i)

\* Some roles are those of the objects made so far.
SomeRoles(t) == \E R : RoledHeap(t, R, heap, caches, arrays) /\ RoledStack(t, R, arrays, stack)

\* The objects keep their roles, others are made.
Extends(R, R2) == \A i \in DOMAIN R : i \in DOMAIN R2 /\ R2[i] = R[i]

\* After the step there are roles again, the old ones among them.
RolesGoOn(t, R) ==
    \E R2 : /\ Extends(R, R2)
            /\ RoledHeap(t, R2, heap', caches', arrays') /\ RoledStack(t, R2, arrays', stack')

LEMMA AtExtends ==
  ASSUME NEW R, NEW R2, Extends(R, R2), NEW S
  PROVE  At(R, S) \subseteq At(R2, S)
  BY DEF At, Extends

LEMMA InsideExtends ==
  ASSUME NEW R, NEW R2, Extends(R, R2), NEW S, ArraysKeep, NEW n,
         NEW v, ValueOK(n, Len(arrays), v), Inside(At(R, S), arrays, v)
  PROVE  Inside(At(R2, S), arrays', v)
  <1>1. At(R, S) \subseteq At(R2, S)
    BY AtExtends
  <1>. DEFINE C == At(R, S)
              C2 == At(R2, S)
  <1>2. C \subseteq C2 /\ Inside(C, arrays, v)
    BY <1>1
  <1>. HIDE DEF C, C2
  <1>3. Inside(C2, arrays', v)
    BY <1>2, InsideWidens
  <1>. QED BY <1>3 DEF C2

\* The name of an evaluation.
LEMMA ByIs ==
  ASSUME NEW t, NEW R, NEW h, NEW c, NEW a, RoledHeap(t, R, h, c, a), NEW m, NEW fr, FrameOK(h, m, fr)
  PROVE  /\ By(R, fr) \in Owner /\ By(R, fr)[1] = h[fr.obj].struct /\ By(R, fr)[2] = fr.field
         /\ By(R, fr) = <<h[fr.obj].struct, fr.field>> /\ h[fr.obj].struct \in Structs
         /\ fr.obj \in DOMAIN R
  <1>1. fr.obj \in 1..Len(h) /\ fr.field \in Fields \cup {"none"}
    BY FrameParts DEF FrameOK
  <1>2. R[fr.obj] \in Role /\ R[fr.obj][1] = h[fr.obj].struct
    BY <1>1 DEF RoledHeap, RoledObject
  <1>3. h[fr.obj].struct \in Structs
    BY <1>2 DEF Role
  <1>. QED BY <1>1, <1>2, <1>3 DEF By, Owner, RoledHeap

LEMMA RoledFrameExtends ==
  ASSUME NEW t, NEW R, NEW R2, Extends(R, R2), ArraysKeep, DOMAIN R = 1..Len(heap),
         NEW fr, FrameOK(heap, Len(arrays), fr), RoledFrame(t, R, arrays, fr)
  PROVE  RoledFrame(t, R2, arrays', fr) /\ By(R2, fr) = By(R, fr)
  <1>1. fr.obj \in DOMAIN R /\ fr.copy \in Nat /\ fr.copy <= Len(heap) /\ fr.out \in Seq(1..Len(heap))
    BY FrameParts DEF FrameOK
  <1>2. By(R2, fr) = By(R, fr)
    BY <1>1 DEF By, Extends
  <1>. DEFINE w == By(R, fr)
  <1>. SUFFICES ASSUME fr.op # "json"
                PROVE  /\ fr.paths # <<>> =>
                             R2[fr.copy] = w /\ Inside(At(R2, From(t, w, Head(fr.paths))), arrays', fr.at)
                       /\ \A k \in 2..Len(fr.paths) : <<w, w, fr.paths[k]>> \in t.reads
                       /\ fr.op \in {"get", "ref"} =>
                             /\ Range(fr.out) \subseteq At(R2, t.answers[w])
                             /\ Def[w[1]][w[2]].kind = "value" =>
                                   Inside(At(R2, t.answers[w]), arrays', fr.last)
    BY <1>2 DEF RoledFrame
  <1>3. /\ fr.paths # <<>> => R[fr.copy] = w /\ Inside(At(R, From(t, w, Head(fr.paths))), arrays, fr.at)
        /\ \A k \in 2..Len(fr.paths) : <<w, w, fr.paths[k]>> \in t.reads
        /\ fr.op \in {"get", "ref"} =>
              /\ Range(fr.out) \subseteq At(R, t.answers[w])
              /\ Def[w[1]][w[2]].kind = "value" => Inside(At(R, t.answers[w]), arrays, fr.last)
    BY DEF RoledFrame
  <1>. HIDE DEF w
  <1>4. ASSUME fr.paths # <<>>
        PROVE  R2[fr.copy] = w /\ Inside(At(R2, From(t, w, Head(fr.paths))), arrays', fr.at)
    <2>1. fr.copy \in DOMAIN R /\ ValueOK(Len(heap), Len(arrays), fr.at)
      BY <1>1, <1>4 DEF FrameOK
    <2>2. R2[fr.copy] = w
      BY <1>3, <1>4, <2>1 DEF Extends
    <2>3. Inside(At(R2, From(t, w, Head(fr.paths))), arrays', fr.at)
      BY <1>3, <1>4, <2>1, InsideExtends
    <2>. QED BY <2>2, <2>3
  <1>5. ASSUME fr.op \in {"get", "ref"}
        PROVE  Range(fr.out) \subseteq At(R2, t.answers[w])
    BY <1>3, <1>5, AtExtends
  <1>6. ASSUME fr.op \in {"get", "ref"}, Def[w[1]][w[2]].kind = "value"
        PROVE  Inside(At(R2, t.answers[w]), arrays', fr.last)
    <2>1. ValueOK(Len(heap), Len(arrays), fr.last)
      BY DEF FrameOK
    <2>. QED BY <1>3, <1>6, <2>1, InsideExtends
  <1>. QED BY <1>3, <1>4, <1>5, <1>6

\* The frames after a step are those of the same evaluations, and of one more.
RoleStep(t, R2) ==
    \A i \in 1..Len(stack') :
        \/ /\ i \in 1..Len(stack)
           /\ stack'[i].op = stack[i].op /\ stack'[i].obj = stack[i].obj
           /\ stack'[i].field = stack[i].field
           /\ stack'[i] = stack[i] \/ RoledFrame(t, R2, arrays', stack'[i])
        \/ /\ i = Len(stack) + 1
           /\ RoledFrame(t, R2, arrays', stack'[i])
           /\ stack # <<>> /\ Top.op # "json" =>
                 stack'[i].op # "json" /\ t.rank[By(R2, stack'[i])] < t.rank[By(R2, Top)]
           /\ stack # <<>> /\ stack'[i].op = "size" => R2[stack'[i].obj] \in t.answers[By(R2, Top)]

LEMMA RolesStay ==
  ASSUME WellFormed, WellFormed', NEW t, Ranked(t), NEW R, RoledHeap(t, R, heap, caches, arrays),
         RoledStack(t, R, arrays, stack), NEW R2, Extends(R, R2), ArraysKeep,
         RoledHeap(t, R2, heap', caches', arrays'), RoleStep(t, R2)
  PROVE  RolesGoOn(t, R)
  <1>. DEFINE n == Len(stack)
  <1>0. DOMAIN R = 1..Len(heap) /\ n \in Nat
    BY Typed DEF RoledHeap
  <1>1. ASSUME NEW i \in 1..n
        PROVE  /\ RoledFrame(t, R2, arrays', stack[i]) /\ By(R2, stack[i]) = By(R, stack[i])
               /\ By(R, stack[i]) \in Owner /\ R2[stack[i].obj] = R[stack[i].obj]
    <2>1. FrameOK(heap, Len(arrays), stack[i]) /\ RoledFrame(t, R, arrays, stack[i])
      BY DEF WellFormed, StackOK, RoledStack
    <2>2. stack[i].obj \in DOMAIN R
      BY <1>0, <2>1 DEF FrameOK
    <2>3. RoledFrame(t, R2, arrays', stack[i]) /\ By(R2, stack[i]) = By(R, stack[i])
      BY <1>0, <2>1, RoledFrameExtends
    <2>4. By(R, stack[i]) \in Owner
      BY <2>1, ByIs
    <2>. QED BY <2>2, <2>3, <2>4 DEF Extends
  <1>2. ASSUME NEW i \in 1..Len(stack'), i \in 1..n
        PROVE  By(R2, stack'[i]) = By(R, stack[i]) /\ stack'[i].op = stack[i].op
               /\ stack'[i].obj = stack[i].obj
    <2>1. stack'[i].obj = stack[i].obj /\ stack'[i].field = stack[i].field /\ stack'[i].op = stack[i].op
      BY <1>0, <1>2 DEF RoleStep
    <2>. QED BY <1>1, <1>2, <2>1 DEF By
  <1>3. \A i \in 1..n : RoledPlace(t, R, stack, i)
    BY DEF RoledStack
  <1>4. stack # <<>> => n \in 1..n /\ Top = stack[n] /\ n > 0
    <2>. SUFFICES ASSUME stack # <<>> PROVE n \in 1..n /\ Top = stack[n] /\ n > 0
      OBVIOUS
    <2>1. n > 0 /\ Top = stack[n]
      BY TopParts
    <2>. QED BY <1>0, <2>1
  <1>5. n = 0 => stack = <<>>
    BY Typed, EmptySeq
  <1>6. ASSUME NEW i \in 1..Len(stack')
        PROVE  RoledFrame(t, R2, arrays', stack'[i])
    BY <1>1 DEF RoleStep
  <1>7. ASSUME NEW i \in 1..Len(stack')
        PROVE  RoledPlace(t, R2, stack', i)
    <2>. DEFINE x == stack'[i]
    <2>0. Len(stack') \in Nat => \A j \in 1..i - 1 : j \in 1..Len(stack')
      OBVIOUS
    <2>1. CASE i \in 1..n
      <3>1. \A j \in 1..i - 1 : j \in 1..Len(stack') /\ j \in 1..n
        BY <1>0, <2>1
      <3>2. i > 1 => i - 1 \in 1..i - 1
        BY <1>0, <2>1
      <3>. HIDE DEF n
      <3>3. RoledPlace(t, R, stack, i)
        BY <1>3, <2>1
      <3>4. \A j \in 1..i - 1 : /\ By(R2, stack'[j]) = By(R, stack[j]) /\ stack'[j].op = stack[j].op
        BY <1>2, <3>1
      <3>5. By(R2, stack'[i]) = By(R, stack[i]) /\ stack'[i].op = stack[i].op
            /\ R2[stack'[i].obj] = R[stack[i].obj]
        BY <1>1, <1>2, <2>1
      <3>. QED BY <3>2, <3>3, <3>4, <3>5 DEF RoledPlace
    <2>2. CASE i \notin 1..n
      <3>1. /\ i = n + 1
            /\ stack # <<>> /\ Top.op # "json" =>
                  x.op # "json" /\ t.rank[By(R2, x)] < t.rank[By(R2, Top)]
            /\ stack # <<>> /\ x.op = "size" => R2[x.obj] \in t.answers[By(R2, Top)]
        BY <2>2 DEF RoleStep
      <3>2. \A j \in 1..i - 1 : j \in 1..Len(stack') /\ j \in 1..n
        BY <1>0, <3>1
      <3>3. i - 1 = n /\ n \in Nat
        BY <1>0, <3>1
      <3>. HIDE DEF n, x
      <3>4. \A j \in 1..i - 1 : By(R2, stack'[j]) = By(R, stack[j]) /\ stack'[j].op = stack[j].op
                                 /\ By(R2, stack[j]) = By(R, stack[j])
        BY <1>1, <1>2, <3>2
      <3>5. ASSUME NEW j \in 1..n, stack'[j].op # "json"
            PROVE  x.op # "json" /\ t.rank[By(R2, x)] + (i - j) <= t.rank[By(R2, stack'[j])]
        <4>1. stack # <<>> /\ n \in 1..n /\ Top = stack[n]
          BY <1>4, <3>3, EmptySeq DEF n
        <4>2. stack[j].op # "json" /\ By(R2, stack'[j]) = By(R, stack[j])
          BY <3>3, <3>4, <3>5
        <4>r. t.rank[By(R, Top)] \in Nat /\ t.rank[By(R, stack[j])] \in Nat /\ t.rank[By(R2, x)] \in Nat
          <5>1. t.rank \in [Owner -> Nat]
            BY DEF Ranked
          <5>2. By(R2, x) \in Owner
            <6>1. FrameOK(heap', Len(arrays'), x)
              BY DEF WellFormed, StackOK, x
            <6>. QED BY <6>1, ByIs
          <5>. QED BY <1>1, <4>1, <5>1, <5>2
        <4>3. CASE j = n
          <5>1. x.op # "json" /\ t.rank[By(R2, x)] < t.rank[By(R, Top)] /\ Top = stack[j]
            BY <1>1, <3>1, <4>1, <4>2, <4>3
          <5>. QED BY <3>1, <3>3, <4>2, <4>r, <4>3, <5>1
        <4>4. CASE j # n
          <5>1. j \in 1..n - 1
            BY <3>3, <4>4
          <5>2. Top.op # "json" /\ t.rank[By(R, Top)] + (n - j) <= t.rank[By(R, stack[j])]
            BY <1>3, <4>1, <4>2, <5>1 DEF RoledPlace
          <5>3. x.op # "json" /\ t.rank[By(R2, x)] < t.rank[By(R, Top)]
            BY <1>1, <3>1, <4>1, <5>2
          <5>. QED BY <3>1, <3>3, <4>2, <4>r, <5>2, <5>3
        <4>. QED BY <4>3, <4>4
      <3>6. i > 1 /\ x.op = "size" => R2[x.obj] \in t.answers[By(R2, stack'[i-1])]
        <4>. SUFFICES ASSUME i > 1, x.op = "size" PROVE R2[x.obj] \in t.answers[By(R2, stack'[n])]
          BY <3>3
        <4>1. stack # <<>> /\ n \in 1..n /\ Top = stack[n]
          BY <1>4, <3>1, <3>3, EmptySeq DEF n
        <4>. QED BY <3>1, <3>2, <3>3, <3>4, <4>1
      <3>7. RoledPlace(t, R2, stack', i)
        BY <3>2, <3>5, <3>6 DEF RoledPlace, x
      <3>. QED BY <3>7
    <2>. QED BY <2>1, <2>2
  <1>. QED BY <1>6, <1>7 DEF RolesGoOn, RoledStack

\* The parts of a reading.
LEMMA ReadingIs ==
  ASSUME NEW t, Ranked(t)
  PROVE  /\ \A w \in Owner : t.rank[w] \in Nat /\ t.answers[w] \subseteq Role
         /\ \A w \in Owner : \A r \in t.answers[w] : w[1] \in t.parents[r]
         /\ \A w \in Owner : t.parents[<<w[1], "orig">>] \subseteq t.parents[w]
         /\ \A s \in Structs, f \in Fields :
               /\ Def[s][f].kind \in {"struct", "array"} => <<Def[s][f].of, "orig">> \in t.answers[<<s, f>>]
               /\ Def[s][f].kind = "value" =>
                     \A r \in Role : <<<<s, f>>, r, <<>>>> \in t.reads => r \in t.answers[<<s, f>>]
         /\ \A s \in Structs, f \in Fields : \A p \in Range(Def[s][f].lambda) :
               <<<<s, f>>, <<s, f>>, p>> \in t.reads
         /\ \A s \in Structs : \A p \in Range(SizeLambda[s]) : <<<<s, "none">>, <<s, "none">>, p>> \in t.reads
         /\ \A s \in Structs, f \in Fields : Def[s][f].kind = "array" /\ SizeLambda[Def[s][f].of] # <<>> =>
               t.rank[<<Def[s][f].of, "none">>] < t.rank[<<s, f>>]
  BY DEF Ranked, AnswersRead, PathsRead

LEMMA ReadingGoesOn ==
  ASSUME NEW t, Ranked(t), NEW w, NEW r, NEW p, <<w, r, p>> \in t.reads, p # <<>>
  PROVE  /\ w \in Owner /\ r \in Role /\ p \in Path
         /\ Head(p) = "Parent" => \A q \in Role : q[1] \in t.parents[r] => <<w, q, Tail(p)>> \in t.reads
         /\ Head(p) # "Parent" /\ Def[r[1]][Head(p)].kind # "absent" =>
               /\ t.rank[<<r[1], Head(p)>>] < t.rank[w]
               /\ \A q \in t.answers[<<r[1], Head(p)>>] : <<w, q, Tail(p)>> \in t.reads
  <1>1. <<w, r, p>> \in Owner \X Role \X Path
    BY DEF Ranked
  <1>. QED BY <1>1 DEF Ranked, PathsRead

LEMMA OwnersAreRoles ==
    Owner \subseteq Role /\ \A w \in Owner : w[1] \in Structs /\ w = <<w[1], w[2]>> /\ w[2] # "orig"
  BY StructAssumption DEF Owner, Role

-----------------------------------------------------------------------------
(* The roles of a heap that grows.                                         *)

\* The objects there were.
LEMMA OldRoles ==
  ASSUME WellFormed, NEW t, NEW R, RoledHeap(t, R, heap, caches, arrays), NEW R2, Extends(R, R2),
         DOMAIN R2 = 1..Len(heap'), Grows(heap, heap'), ArraysKeep,
         \A i \in 1..Len(heap) : \/ heap'[i].parent = heap[i].parent
                                 \/ heap'[heap'[i].parent].struct \in t.parents[R[i]],
         \A i \in 1..Len(heap), f \in Fields : heap'[i].cache # 0 =>
            \/ caches'[heap'[i].cache][f] = Unset
            \/ /\ heap[i].cache # 0 /\ heap'[i].cache = heap[i].cache
               /\ caches'[heap'[i].cache][f] = caches[heap[i].cache][f]
            \/ Inside(At(R2, t.answers[<<heap[i].struct, f>>]), arrays', caches'[heap'[i].cache][f]),
         NEW i \in 1..Len(heap)
  PROVE  RoledObject(t, R2, heap', caches', arrays', i) /\ i \in 1..Len(heap') /\ R2[i] = R[i]
  <1>1. /\ RoledObject(t, R, heap, caches, arrays, i) /\ i \in DOMAIN R /\ R2[i] = R[i] /\ i \in 1..Len(heap')
    BY DEF RoledHeap, Extends
  <1>2. heap'[i].struct = heap[i].struct /\ heap'[i].orig = heap[i].orig
    BY DEF Grows
  <1>3. R2[i] \in Role /\ R2[i][1] = heap'[i].struct
        /\ (heap'[i].orig = i <=> R2[i] = <<heap'[i].struct, "orig">>)
    BY <1>1, <1>2 DEF RoledObject
  <1>4. ASSUME heap'[i].parent # 0 PROVE heap'[heap'[i].parent].struct \in t.parents[R2[i]]
    <2>1. CASE heap'[i].parent = heap[i].parent
      <3>1. heap[i].parent \in 1..Len(heap)
        <4>1. heap[i].parent \in 0..Len(heap) /\ Len(heap) \in Nat
          BY Parts, ObjectType
        <4>. QED BY <1>4, <2>1, <4>1
      <3>. QED BY <1>1, <1>4, <2>1, <3>1 DEF Grows, RoledObject
    <2>2. CASE heap'[i].parent # heap[i].parent
      BY <1>1, <2>2
    <2>. QED BY <2>1, <2>2
  <1>5. ASSUME heap'[i].cache # 0, NEW f \in Fields
        PROVE  Inside(At(R2, t.answers[<<heap'[i].struct, f>>]), arrays', caches'[heap'[i].cache][f])
    <2>. DEFINE v == caches'[heap'[i].cache][f]
    <2>1. CASE v = Unset
      BY <2>1, ValueTypes DEF Inside
    <2>2. CASE heap[i].cache # 0 /\ v = caches[heap[i].cache][f]
      <3>1. Inside(At(R, t.answers[<<heap[i].struct, f>>]), arrays, v)
        BY <1>1, <2>2 DEF RoledObject
      <3>2. ValueOK(Len(heap), Len(arrays), v)
        <4>1. heap[i].cache \in 1..Len(caches)
          <5>1. heap[i].cache \in 0..Len(caches) /\ Len(caches) \in Nat
            BY Parts, ObjectType
          <5>2. heap[i].cache # 0
            BY <2>2
          <5>. QED BY ONLY <5>1, <5>2
        <4>. QED BY <2>2, <4>1, Parts DEF CachesOK
      <3>. HIDE DEF v
      <3>3. Inside(At(R2, t.answers[<<heap[i].struct, f>>]), arrays', v)
        BY <3>1, <3>2, InsideExtends
      <3>. QED BY <1>2, <3>3 DEF v
    <2>3. CASE v # Unset /\ ~(heap[i].cache # 0 /\ v = caches[heap[i].cache][f])
      BY <1>2, <1>5, <2>3
    <2>. QED BY <2>1, <2>2, <2>3
  <1>. QED BY <1>1, <1>3, <1>4, <1>5 DEF RoledObject

\* A copy that is made for the lambda w.
LEMMA CopyRole ==
  ASSUME NEW t, Ranked(t), NEW R, NEW h, NEW c, NEW a, NEW p, RoledObject(t, R, h, c, a, p),
         h[p].orig = p, NEW k, k # p, h[k] = h[p], NEW w \in Owner, w[1] = h[p].struct, R[k] = w
  PROVE  RoledObject(t, R, h, c, a, k)
  <1>1. R[p] = <<w[1], "orig">> /\ w \in Role
    BY OwnersAreRoles DEF RoledObject
  <1>2. t.parents[R[p]] \subseteq t.parents[w]
    BY <1>1, ReadingIs
  <1>3. /\ h[p].parent # 0 => h[h[p].parent].struct \in t.parents[R[p]]
        /\ h[p].cache # 0 => \A f \in Fields :
              Inside(At(R, t.answers[<<h[p].struct, f>>]), a, c[h[p].cache][f])
    BY DEF RoledObject
  <1>4. h[k].orig # k /\ R[k] # <<h[k].struct, "orig">>
    BY OwnersAreRoles
  <1>. QED BY <1>1, <1>2, <1>3, <1>4 DEF RoledObject

\* A struct that is parsed.
LEMMA NewRole ==
  ASSUME NEW t, NEW R, NEW h, NEW c, NEW a, NEW k, NEW s \in Structs, h[k].struct = s,
         h[k].orig = k, h[k].cache = 0, h[k].parent = 0, R[k] = <<s, "orig">>
  PROVE  RoledObject(t, R, h, c, a, k)
  <1>1. <<s, "orig">> \in Role
    BY DEF Role
  <1>. QED BY <1>1 DEF RoledObject

-----------------------------------------------------------------------------
(* The roles of a stack that moves on.                                     *)

LEMMA InsideMore ==
  ASSUME NEW C, NEW C2, C \subseteq C2, NEW a, NEW v, Inside(C, a, v)
  PROVE  Inside(C2, a, v)
  BY DEF Inside

LEMMA RoleTop ==
  ASSUME WellFormed, stack # <<>>, NEW x \in Frame, stack' = Append(Below, x),
         x.op = Top.op, x.obj = Top.obj, x.field = Top.field,
         NEW R2, NEW t, RoledFrame(t, R2, arrays', x)
  PROVE  RoleStep(t, R2)
  <1>. DEFINE n == Len(stack)
  <1>1. /\ Len(stack') = n /\ stack'[n] = x /\ \A i \in 1..n - 1 : stack'[i] = stack[i]
    BY Typed, ReplaceTop DEF Below
  <1>2. n \in Nat /\ n > 0 /\ Top = stack[n]
    BY Typed, TopParts
  <1>. HIDE DEF n
  <1>3. \A i \in 1..n : i \in 1..n - 1 \/ i = n
    BY <1>2
  <1>. QED BY <1>1, <1>2, <1>3 DEF RoleStep, n

\* The top becomes x, and y is put on it.
LEMMA RoleTopWaits ==
  ASSUME WellFormed, stack # <<>>, NEW x \in Frame, NEW y \in Frame, stack' = Append(Append(Below, x), y),
         x.op = Top.op, x.obj = Top.obj, x.field = Top.field,
         NEW R2, NEW t, x = Top \/ RoledFrame(t, R2, arrays', x), RoledFrame(t, R2, arrays', y),
         Top.op # "json" => y.op # "json" /\ t.rank[By(R2, y)] < t.rank[By(R2, Top)],
         y.op = "size" => R2[y.obj] \in t.answers[By(R2, Top)]
  PROVE  RoleStep(t, R2)
  <1>. DEFINE n == Len(stack)
              u == Append(Below, x)
  <1>1. /\ u \in Seq(Frame) /\ Len(u) = n /\ u[n] = x /\ \A i \in 1..n - 1 : u[i] = stack[i]
    BY Typed, ReplaceTop DEF Below
  <1>2. n \in Nat /\ n > 0 /\ Top = stack[n]
    BY Typed, TopParts
  <1>. HIDE DEF n, u
  <1>3. Len(stack') = n + 1 /\ stack'[n + 1] = y /\ \A i \in 1..n : stack'[i] = u[i]
    BY <1>1, AppendProperties DEF u
  <1>4. \A i \in 1..n + 1 : i \in 1..n \/ i = n + 1
    BY <1>2
  <1>5. ASSUME NEW i \in 1..n
        PROVE  /\ stack'[i].op = stack[i].op /\ stack'[i].obj = stack[i].obj
               /\ stack'[i].field = stack[i].field
               /\ stack'[i] = stack[i] \/ RoledFrame(t, R2, arrays', stack'[i])
    <2>1. stack'[i] = u[i] /\ (i \in 1..n - 1 \/ i = n)
      BY <1>2, <1>3
    <2>. QED BY <1>1, <1>2, <2>1
  <1>. QED BY <1>3, <1>4, <1>5 DEF RoleStep, n

\* The user calls, and y is the evaluation.
LEMMA RoleCall ==
  ASSUME stack = <<>>, NEW y, stack' = <<y>>, NEW R2, NEW t, RoledFrame(t, R2, arrays', y)
  PROVE  RoleStep(t, R2)
  <1>1. Len(stack') = 1 /\ stack'[1] = y /\ Len(stack) = 0 /\ 1..1 = {1} /\ 0 + 1 = 1
    OBVIOUS
  <1>. QED BY <1>1 DEF RoleStep

LEMMA ExtendsSelf == ASSUME NEW R PROVE Extends(R, R)
  BY DEF Extends

\* A step that changes the stack only.
LEMMA RolesAgain ==
  ASSUME WellFormed, WellFormed', NEW t, Ranked(t), NEW R, RoledHeap(t, R, heap, caches, arrays),
         RoledStack(t, R, arrays, stack), UNCHANGED <<heap, caches, arrays>>, RoleStep(t, R)
  PROVE  RolesGoOn(t, R)
  <1>1. ArraysKeep /\ RoledHeap(t, R, heap', caches', arrays')
    BY DEF ArraysKeep
  <1>. QED BY <1>1, ExtendsSelf, RolesStay

LEMMA TopRoles ==
  ASSUME WellFormed, stack # <<>>, NEW t, NEW R, RoledHeap(t, R, heap, caches, arrays),
         RoledStack(t, R, arrays, stack)
  PROVE  /\ RoledFrame(t, R, arrays, Top) /\ FrameOK(heap, Len(arrays), Top) /\ Top \in Frame
         /\ Top.paths \in Lambda /\ DOMAIN R = 1..Len(heap) /\ Top.obj \in 1..Len(heap)
         /\ By(R, Top) = <<heap[Top.obj].struct, Top.field>> /\ By(R, Top) \in Owner
  <1>1. Len(stack) \in 1..Len(stack) /\ Top = stack[Len(stack)]
    <2>1. Len(stack) \in Nat /\ Len(stack) > 0 /\ Top = stack[Len(stack)]
      BY Typed, TopParts
    <2>. QED BY <2>1
  <1>2. FrameOK(heap, Len(arrays), Top)
    BY TopParts
  <1>3. Top \in Frame /\ Top.paths \in Lambda /\ Top.obj \in 1..Len(heap)
    BY TopParts, FrameParts
  <1>4. By(R, Top) = <<heap[Top.obj].struct, Top.field>> /\ By(R, Top) \in Owner
    BY <1>2, ByIs
  <1>5. RoledFrame(t, R, arrays, Top)
    BY <1>1 DEF RoledStack
  <1>. QED BY <1>2, <1>3, <1>4, <1>5 DEF RoledHeap

\* A frame whose path moves on to v.
LEMMA RoledMoved ==
  ASSUME NEW t, NEW R, NEW a, NEW fr \in Frame, fr.paths # <<>>, Head(fr.paths) # <<>>, NEW v,
         RoledFrame(t, R, a, fr),
         fr.op # "json" => Inside(At(R, From(t, By(R, fr), Tail(Head(fr.paths)))), a, v)
  PROVE  RoledFrame(t, R, a, Moved(fr, v))
  <1>. DEFINE x == Moved(fr, v)
  <1>1. /\ x.op = fr.op /\ x.obj = fr.obj /\ x.field = fr.field
        /\ x.copy = fr.copy /\ x.last = fr.last /\ x.at = v
        /\ Len(x.paths) = Len(fr.paths) /\ Len(fr.paths) \in Nat /\ Len(fr.paths) > 0
        /\ x.paths[1] = Tail(fr.paths[1])
        /\ \A i \in 1..Len(fr.paths) : i # 1 => x.paths[i] = fr.paths[i]
        /\ x.paths # <<>>
    BY MovedParts
  <1>2. x.out = fr.out
    BY DEF Moved, Frame
  <1>. HIDE DEF x
  <1>3. By(R, x) = By(R, fr)
    BY <1>1 DEF By
  <1>4. Head(x.paths) = Tail(Head(fr.paths))
    BY <1>1
  <1>5. \A k \in 2..Len(x.paths) : k \in 2..Len(fr.paths) /\ x.paths[k] = fr.paths[k]
    BY <1>1
  <1>6. RoledFrame(t, R, a, x)
    BY <1>1, <1>2, <1>3, <1>4, <1>5 DEF RoledFrame
  <1>. QED BY <1>6 DEF x

\* What field f of an object answers is where a path through f goes on.
LEMMA AnswerGoesOn ==
  ASSUME NEW t, Ranked(t), NEW R, NEW a, NEW w, NEW p, p # <<>>, NEW r, <<w, r, p>> \in t.reads,
         Head(p) \in Fields, Def[r[1]][Head(p)].kind # "absent",
         NEW v, Inside(At(R, t.answers[<<r[1], Head(p)>>]), a, v)
  PROVE  Inside(At(R, From(t, w, Tail(p))), a, v)
  <1>1. Head(p) # "Parent"
    BY ConstantTypes
  <1>2. r \in Role /\ \A q \in t.answers[<<r[1], Head(p)>>] : <<w, q, Tail(p)>> \in t.reads
    BY <1>1, ReadingGoesOn
  <1>3. <<r[1], Head(p)>> \in Owner
    BY <1>2 DEF Role, Owner
  <1>4. t.answers[<<r[1], Head(p)>>] \subseteq From(t, w, Tail(p))
    BY <1>2, <1>3, ReadingIs DEF From
  <1>5. At(R, t.answers[<<r[1], Head(p)>>]) \subseteq At(R, From(t, w, Tail(p)))
    BY <1>4 DEF At
  <1>. QED BY <1>5, InsideMore

LEMMA AccessRoles ==
  ASSUME WellFormed, WellFormed', NEW t, Ranked(t), NEW R, RoledHeap(t, R, heap, caches, arrays),
         RoledStack(t, R, arrays, stack), Access
  PROVE  RolesGoOn(t, R)
  <1>1. /\ stack # <<>> /\ Top.paths # <<>> /\ Head(Top.paths) # <<>>
        /\ UNCHANGED <<heap, caches, arrays, held>>
    BY AccessMoves
  <1>2. PICK v : /\ stack' = Append(Below, Moved(Top, v))
                 /\ ValueOK(Len(heap), Len(arrays), v) /\ v # Unset
                 /\ Found(Top.at, Head(Head(Top.paths)), v)
    BY AccessMoves
  <1>. DEFINE w == By(R, Top)
              p == Head(Top.paths)
              o == Top.at.obj
              x == Moved(Top, v)
  <1>3. /\ RoledFrame(t, R, arrays, Top) /\ FrameOK(heap, Len(arrays), Top) /\ Top \in Frame
        /\ Top.paths \in Lambda /\ DOMAIN R = 1..Len(heap)
    BY <1>1, TopRoles
  <1>4. p \in Path /\ p # <<>> /\ Tail(p) \in Path
    BY <1>1, <1>3, LambdaParts, PathParts
  <1>5. ASSUME Top.op # "json" PROVE Inside(At(R, From(t, w, Tail(p))), arrays, v)
    <2>0. Inside(At(R, From(t, w, p)), arrays, Top.at)
      BY <1>1, <1>3, <1>5 DEF RoledFrame
    <2>. HIDE DEF w, p
    <2>1. ASSUME v = Null PROVE Inside(At(R, From(t, w, Tail(p))), arrays, v)
      BY <2>1, ValueTypes DEF Inside
    <2>2. ASSUME Top.at.type = "object" PROVE <<w, R[o], p>> \in t.reads
      BY <2>0, <2>2 DEF Inside, At, From
    <2>3. ASSUME Top.at.type = "object", o \in 1..Len(heap), Head(p) = "Parent", heap[o].parent # 0,
                 v = Object(heap[o].parent)
          PROVE  Inside(At(R, From(t, w, Tail(p))), arrays, v)
      <3>. DEFINE q == heap[o].parent
      <3>1. q \in 1..Len(heap) /\ q \in Nat
        <4>1. q \in 0..Len(heap) /\ Len(heap) \in Nat
          BY <2>3, Parts, ObjectType
        <4>. QED BY <2>3, <4>1
      <3>2. heap[q].struct \in t.parents[R[o]]
        BY <2>3 DEF RoledHeap, RoledObject
      <3>3. R[q] \in Role /\ R[q][1] = heap[q].struct
        BY <3>1 DEF RoledHeap, RoledObject
      <3>. HIDE DEF q
      <3>4. <<w, R[q], Tail(p)>> \in t.reads
        BY <1>4, <2>2, <2>3, <3>2, <3>3, ReadingGoesOn
      <3>5. q \in At(R, From(t, w, Tail(p)))
        BY <1>3, <3>1, <3>3, <3>4 DEF At, From
      <3>6. v = Object(q)
        BY <2>3 DEF q
      <3>. QED BY <3>1, <3>5, <3>6, ValueTypes DEF Inside
    <2>4. ASSUME Top.at.type = "object", o \in 1..Len(heap), Head(p) \in Fields,
                 KindOf(heap, o, Head(p)) # "absent", Reads(heap, caches, o, Head(p), v)
          PROVE  Inside(At(R, From(t, w, Tail(p))), arrays, v)
      <3>1. R[o][1] = heap[o].struct
            /\ Inside(At(R, t.answers[<<heap[o].struct, Head(p)>>]), arrays, v)
        BY <2>4 DEF RoledHeap, RoledObject, Reads
      <3>2. <<w, R[o], p>> \in t.reads
        BY <2>2, <2>4
      <3>. QED BY <1>4, <2>4, <3>1, <3>2, AnswerGoesOn DEF KindOf
    <2>. QED BY <1>2, <2>1, <2>3, <2>4 DEF Found, p
  <1>6. RoledFrame(t, R, arrays', x)
    BY <1>1, <1>3, <1>5, RoledMoved
  <1>7. /\ x \in Frame /\ x.op = Top.op /\ x.obj = Top.obj /\ x.field = Top.field
    <2>1. Len(heap) \in Nat /\ Len(arrays) \in Nat
      BY Parts
    <2>2. FrameOK(heap, Len(arrays), x)
      BY <1>1, <1>2, <1>3, <2>1, MovedOK
    <2>3. x.op = Top.op /\ x.obj = Top.obj /\ x.field = Top.field
      BY <1>1, <1>3, MovedParts
    <2>. QED BY <2>2, <2>3 DEF FrameOK
  <1>. HIDE DEF x
  <1>8. stack' = Append(Below, x)
    BY <1>2 DEF x
  <1>9. RoleStep(t, R)
    BY <1>1, <1>6, <1>7, <1>8, RoleTop
  <1>. QED BY <1>1, <1>9, RolesAgain

LEMMA EndPathRoles ==
  ASSUME WellFormed, WellFormed', NEW t, Ranked(t), NEW R, RoledHeap(t, R, heap, caches, arrays),
         RoledStack(t, R, arrays, stack), EndPath
  PROVE  RolesGoOn(t, R)
  <1>. DEFINE e == Encoded(Top.obj, Top.at)
              x == Ended(Top, e)
              w == By(R, Top)
  <1>1. /\ stack # <<>> /\ Top.paths # <<>> /\ Head(Top.paths) = <<>>
        /\ UNCHANGED <<heap, caches, arrays, held>>
        /\ stack' = Append(Below, x) /\ FrameOK(heap, Len(arrays), x)
        /\ x.op = Top.op /\ x.obj = Top.obj /\ x.field = Top.field /\ x.copy = Top.copy
        /\ x.last = Top.at /\ x.paths = Tail(Top.paths) /\ x.at = Object(Top.copy)
        /\ x.out = IF Top.op = "json" THEN Top.out \o e ELSE Top.out
    BY EndPathMoves
  <1>2. /\ RoledFrame(t, R, arrays, Top) /\ FrameOK(heap, Len(arrays), Top) /\ Top \in Frame
        /\ Top.paths \in Lambda /\ DOMAIN R = 1..Len(heap) /\ w \in Owner
        /\ w = <<heap[Top.obj].struct, Top.field>> /\ Top.obj \in 1..Len(heap)
    BY <1>1, TopRoles
  <1>. HIDE DEF x, e
  <1>3. By(R, x) = w
    BY <1>1 DEF By
  <1>4. /\ x.op \in {"get", "size", "ref", "json"} /\ x \in Frame
        /\ Len(x.paths) = Len(Top.paths) - 1 /\ Len(Top.paths) \in Nat
        /\ \A k \in 1..Len(x.paths) : x.paths[k] = Top.paths[k+1]
        /\ x.paths # <<>> => Head(x.paths) = x.paths[1] /\ Len(x.paths) > 0
    <2>1. Tail(Top.paths) \in Lambda
      BY <1>1, <1>2, LambdaParts
    <2>. QED BY <1>1, <1>2, <2>1, LambdaParts, FrameParts DEF FrameOK
  <1>5. ASSUME x.op # "json"
        PROVE  RoledFrame(t, R, arrays, x)
    <2>1. /\ R[Top.copy] = w /\ Inside(At(R, From(t, w, <<>>)), arrays, Top.at)
          /\ \A k \in 2..Len(Top.paths) : <<w, w, Top.paths[k]>> \in t.reads
          /\ Top.op \in {"get", "ref"} => Range(Top.out) \subseteq At(R, t.answers[w])
      BY <1>1, <1>2, <1>5 DEF RoledFrame
    <2>2. ASSUME x.paths # <<>>
          PROVE  R[x.copy] = w /\ Inside(At(R, From(t, w, Head(x.paths))), arrays, x.at)
      <3>1. <<w, w, Head(x.paths)>> \in t.reads
        <4>0. Len(x.paths) > 0 /\ Head(x.paths) = x.paths[1]
          BY <1>4, <2>2
        <4>. DEFINE n == Len(x.paths)
                    m == Len(Top.paths)
        <4>1. 1 \in 1..n /\ 1 + 1 \in 2..m
          <5>1. n = m - 1 /\ m \in Nat /\ n > 0
            BY <1>4, <4>0
          <5>. HIDE DEF n, m
          <5>. QED BY ONLY <5>1
        <4>2. x.paths[1] = Top.paths[1+1]
          BY <1>4, <4>1
        <4>. QED BY <2>1, <4>0, <4>1, <4>2
      <3>2. Top.copy \in DOMAIN R /\ Top.copy \in Nat
        BY <1>1, <1>2, FrameParts, Typed DEF FrameOK
      <3>3. Top.copy \in At(R, From(t, w, Head(x.paths)))
        BY <1>2, <2>1, <3>1, <3>2, OwnersAreRoles DEF At, From
      <3>. QED BY <1>1, <2>1, <3>2, <3>3, ValueTypes DEF Inside
    <2>3. \A k \in 2..Len(x.paths) : <<w, w, x.paths[k]>> \in t.reads
      <3>. DEFINE n == Len(x.paths)
                  m == Len(Top.paths)
      <3>1. \A k \in 2..n : k \in 1..n /\ k + 1 \in 2..m
        <4>1. n = m - 1 /\ m \in Nat
          BY <1>4
        <4>. HIDE DEF n, m
        <4>. QED BY ONLY <4>1
      <3>. QED BY <1>4, <2>1, <3>1
    <2>4. ASSUME x.op \in {"get", "ref"}, Def[w[1]][w[2]].kind = "value"
          PROVE  Inside(At(R, t.answers[w]), arrays, x.last)
      <3>1. Top.field \in Fields
        BY <1>1, <1>2, <2>4 DEF FrameOK
      <3>2. From(t, w, <<>>) \subseteq t.answers[w]
        <4>1. w[1] \in Structs /\ w[2] \in Fields /\ w = <<w[1], w[2]>>
          BY <1>2, <3>1, OwnersAreRoles
        <4>. QED BY <2>4, <4>1, ReadingIs DEF From
      <3>3. At(R, From(t, w, <<>>)) \subseteq At(R, t.answers[w])
        BY <3>2 DEF At
      <3>. QED BY <1>1, <2>1, <3>3, InsideMore
    <2>. HIDE DEF w
    <2>. QED BY <1>1, <1>3, <1>5, <2>1, <2>2, <2>3, <2>4 DEF RoledFrame
  <1>6. RoledFrame(t, R, arrays', x)
    BY <1>1, <1>5 DEF RoledFrame
  <1>7. RoleStep(t, R)
    BY <1>1, <1>4, <1>6, RoleTop
  <1>. QED BY <1>1, <1>7, RolesAgain

-----------------------------------------------------------------------------
(* Steps that begin an evaluation.                                         *)

\* An evaluation that is begun for o, with a copy that has its role if need be.
LEMMA BegunRoled ==
  ASSUME NEW t, Ranked(t), NEW R, NEW a, NEW y \in Frame, NEW o, y.obj = o, NEW s \in Structs,
         R[o][1] = s, NEW g \in Fields \cup {"none"}, y.field = g, y.last = Null, y.out = <<>>,
         y.op # "json", \A p \in Range(y.paths) : <<<<s, g>>, <<s, g>>, p>> \in t.reads,
         y.paths # <<>> =>
            y.copy \in DOMAIN R /\ y.copy \in Nat /\ R[y.copy] = <<s, g>> /\ y.at = Object(y.copy)
  PROVE  RoledFrame(t, R, a, y) /\ By(R, y) = <<s, g>>
  <1>. DEFINE w == <<s, g>>
  <1>1. By(R, y) = w
    BY DEF By
  <1>2. w \in Role
    BY DEF Role
  <1>3. y.paths \in Lambda
    BY FrameParts
  <1>4. \A k \in 1..Len(y.paths) : y.paths[k] \in Range(y.paths)
    BY <1>3, RangeParts DEF Lambda
  <1>5. \A k \in 1..Len(y.paths) : <<w, w, y.paths[k]>> \in t.reads
    BY <1>4
  <1>. HIDE DEF w
  <1>6. ASSUME y.paths # <<>> PROVE R[y.copy] = w /\ Inside(At(R, From(t, w, Head(y.paths))), a, y.at)
    <2>1. Head(y.paths) = y.paths[1] /\ 1 \in 1..Len(y.paths)
      BY <1>3, <1>6, LambdaParts
    <2>2. R[y.copy] = w /\ y.copy \in DOMAIN R /\ y.at = Object(y.copy) /\ y.copy \in Nat
      BY <1>6 DEF w
    <2>3. y.copy \in At(R, From(t, w, Head(y.paths)))
      BY <1>2, <1>5, <2>1, <2>2 DEF At, From
    <2>. QED BY <2>2, <2>3, ValueTypes DEF Inside
  <1>7. \A k \in 2..Len(y.paths) : <<w, w, y.paths[k]>> \in t.reads
    <2>1. \A k \in 2..Len(y.paths) : k \in 1..Len(y.paths)
      BY <1>3, LambdaParts
    <2>. QED BY <1>5, <2>1
  <1>8. Range(y.out) = {} /\ \A S : Inside(S, a, y.last)
    BY RangeParts, ValueTypes DEF Inside
  <1>. QED BY <1>1, <1>6, <1>7, <1>8 DEF RoledFrame, w

LEMMA EnterRoles ==
  ASSUME WellFormed, UNCHANGED arrays, NEW t, Ranked(t), NEW R, RoledHeap(t, R, heap, caches, arrays),
         NEW op \in {"get", "ref"}, NEW o \in 1..Len(heap), NEW f \in Fields, HasField(o, f),
         NEW below, Enter(op, o, f, below)
  PROVE  LET y == Start(op, heap, o, f, DefOf(o, f).lambda)
         IN  \E R2 : /\ Extends(R, R2) /\ RoledHeap(t, R2, heap', caches', arrays')
                     /\ RoledFrame(t, R2, arrays', y) /\ By(R2, y) = <<heap[o].struct, f>>
  <1>. DEFINE l == DefOf(o, f).lambda
              y == Start(op, heap, o, f, l)
              k == Len(heap)
              m == Len(caches) + 1
              s == heap[o].struct
              w == <<s, f>>
  <1>1. /\ l \in Lambda /\ FrameOK(heap', Len(arrays), y)
        /\ y.op = op /\ y.obj = o /\ y.field = f /\ y.paths = l /\ y.last = Null /\ y.out = <<>>
        /\ HeapOK(heap', Len(caches')) /\ Grows(heap, heap')
        /\ heap[o].cache # 0 => caches' = caches
        /\ heap[o].cache = 0 =>
              /\ \A i \in 1..Len(caches) : caches'[i] = caches[i]
              /\ caches'[m] = Blank /\ heap'[o].cache = m
        /\ \A i \in 1..k : /\ heap'[i].parent = heap[i].parent
                           /\ i # o => heap'[i].cache = heap[i].cache
        /\ l = <<>> => Len(heap') = k
        /\ l # <<>> => /\ Len(heap') = k + 1 /\ y.copy = k + 1
                       /\ heap'[k + 1] = heap'[heap[o].orig] /\ y.at = Object(k + 1)
    <2>1. /\ l \in Lambda /\ FrameOK(heap', Len(arrays), y)
          /\ y.op = op /\ y.obj = o /\ y.field = f /\ y.paths = l /\ y.last = Null /\ y.out = <<>>
          /\ HeapOK(heap', Len(caches')) /\ Grows(heap, heap')
          /\ heap[o].cache # 0 => caches' = caches
          /\ heap[o].cache = 0 =>
                /\ \A i \in 1..Len(caches) : caches'[i] = caches[i]
                /\ caches'[Len(caches) + 1] = Blank /\ heap'[o].cache = Len(caches) + 1
          /\ \A i \in 1..Len(heap) : /\ heap'[i].parent = heap[i].parent
                                     /\ i # o => heap'[i].cache = heap[i].cache
          /\ l = <<>> => Len(heap') = Len(heap)
          /\ l # <<>> => /\ Len(heap') = Len(heap) + 1 /\ y.copy = Len(heap')
                         /\ heap'[Len(heap')] = heap'[heap[o].orig] /\ y.at = Object(Len(heap'))
      BY ONLY WellFormed, op \in {"get", "ref"}, o \in 1..Len(heap), f \in Fields, HasField(o, f),
              Enter(op, o, f, below), EnterMoves
    <2>. HIDE DEF l, y
    <2>. QED BY ONLY <2>1 DEF k, m
  <1>2. /\ k \in Nat /\ DOMAIN R = 1..k /\ s \in Structs /\ heap[o].orig \in 1..k
        /\ heap'[heap[o].orig].orig = heap[o].orig /\ heap'[heap[o].orig].struct = s
        /\ \A i \in 1..k : /\ heap[i].cache # 0 => heap'[i].cache = heap[i].cache
                           /\ heap[i].cache # 0 => heap[i].cache \in 1..Len(caches)
    <2>1. ASSUME NEW i \in 1..k
          PROVE  heap[i].cache # 0 => heap[i].cache \in 1..Len(caches)
      <3>1. heap[i].cache \in 0..Len(caches) /\ Len(caches) \in Nat
        BY Parts, ObjectType
      <3>. QED BY <3>1
    <2>2. k \in Nat /\ DOMAIN R = 1..k /\ s \in Structs /\ heap[o].orig \in 1..k
      BY Parts, ObjectType DEF RoledHeap
    <2>3. heap[heap[o].orig].orig = heap[o].orig /\ heap[heap[o].orig].struct = s
      BY Parts DEF HeapOK, ObjectOK
    <2>. QED BY <1>1, <2>1, <2>2, <2>3 DEF Grows
  <1>. HIDE DEF y, l, m, k, s
  <1>3. ArraysKeep
    BY DEF ArraysKeep
  <1>4. \A i \in 1..k, g \in Fields : heap'[i].cache # 0 =>
            \/ caches'[heap'[i].cache][g] = Unset
            \/ /\ heap[i].cache # 0 /\ heap'[i].cache = heap[i].cache
               /\ caches'[heap'[i].cache][g] = caches[heap[i].cache][g]
    <2>. SUFFICES ASSUME NEW i \in 1..k, NEW g \in Fields, heap'[i].cache # 0
                  PROVE  \/ caches'[heap'[i].cache][g] = Unset
                         \/ /\ heap[i].cache # 0 /\ heap'[i].cache = heap[i].cache
                            /\ caches'[heap'[i].cache][g] = caches[heap[i].cache][g]
      OBVIOUS
    <2>1. CASE heap[i].cache # 0
      BY <1>1, <1>2, <2>1
    <2>2. CASE heap[i].cache = 0
      <3>1. i = o /\ caches'[heap'[i].cache] = Blank
        BY <1>1, <2>2
      <3>. QED BY <3>1 DEF Blank
    <2>. QED BY <2>1, <2>2
  <1>. DEFINE R2 == IF l = <<>> THEN R ELSE [i \in 1..k + 1 |-> IF i = k + 1 THEN w ELSE R[i]]
  <1>5. /\ Extends(R, R2) /\ DOMAIN R2 = 1..Len(heap')
        /\ l # <<>> => R2[k + 1] = w /\ k + 1 \in DOMAIN R2 /\ k + 1 \in Nat
    BY <1>1, <1>2 DEF Extends
  <1>. HIDE DEF R2
  <1>6. ASSUME NEW i \in 1..k PROVE RoledObject(t, R2, heap', caches', arrays', i) /\ R2[i] = R[i]
    <2>1. i \in 1..Len(heap)
      BY DEF k
    <2>2. \A j \in 1..Len(heap) : heap'[j].parent = heap[j].parent
      BY <1>1 DEF k
    <2>3. \A j \in 1..Len(heap), g \in Fields : heap'[j].cache # 0 =>
            \/ caches'[heap'[j].cache][g] = Unset
            \/ /\ heap[j].cache # 0 /\ heap'[j].cache = heap[j].cache
               /\ caches'[heap'[j].cache][g] = caches[heap[j].cache][g]
      BY <1>4 DEF k
    <2>. QED BY <1>1, <1>3, <1>5, <2>1, <2>2, <2>3, OldRoles
  <1>7. w \in Owner /\ w[1] = s
    BY <1>2 DEF Owner
  <1>8. ASSUME l # <<>> PROVE RoledObject(t, R2, heap', caches', arrays', k + 1)
    <2>. DEFINE p == heap[o].orig
                j == k + 1
    <2>1. /\ RoledObject(t, R2, heap', caches', arrays', p) /\ heap'[p].orig = p /\ j # p
          /\ heap'[j] = heap'[p] /\ w[1] = heap'[p].struct /\ R2[j] = w
      BY <1>1, <1>2, <1>5, <1>6, <1>7, <1>8
    <2>. HIDE DEF p, j, w
    <2>2. RoledObject(t, R2, heap', caches', arrays', j)
      BY <1>7, <2>1, CopyRole
    <2>. QED BY <2>2 DEF j
  <1>9. RoledHeap(t, R2, heap', caches', arrays')
    <2>. SUFFICES ASSUME NEW i \in 1..Len(heap') PROVE RoledObject(t, R2, heap', caches', arrays', i)
      BY <1>5 DEF RoledHeap
    <2>1. i \in 1..k \/ (l # <<>> /\ i = k + 1)
      BY <1>1, <1>2
    <2>. QED BY <1>6, <1>8, <2>1
  <1>10. RoledFrame(t, R2, arrays', y) /\ By(R2, y) = w
    <2>1. y \in Frame /\ y.op # "json"
      BY <1>1 DEF FrameOK
    <2>2. R2[o][1] = s
      <3>1. o \in 1..k
        BY DEF k
      <3>. QED BY <1>6, <3>1 DEF RoledHeap, RoledObject, s
    <2>3. \A p \in Range(y.paths) : <<w, w, p>> \in t.reads
      BY <1>1, <1>2, ReadingIs DEF DefOf, l, s
    <2>4. /\ y.obj = o /\ y.field = f /\ y.last = Null /\ y.out = <<>>
          /\ y.paths # <<>> => /\ y.copy \in DOMAIN R2 /\ y.copy \in Nat /\ R2[y.copy] = w
                               /\ y.at = Object(y.copy)
      BY <1>1, <1>5
    <2>5. f \in Fields \cup {"none"} /\ s \in Structs
      BY <1>2
    <2>. QED BY ONLY Ranked(t), <2>1, <2>2, <2>3, <2>4, <2>5, BegunRoled
  <1>11. \E Q : /\ Extends(R, Q) /\ RoledHeap(t, Q, heap', caches', arrays')
                /\ RoledFrame(t, Q, arrays', y) /\ By(Q, y) = w
    <2>. HIDE DEF w
    <2>. QED BY <1>5, <1>9, <1>10
  <1>. QED BY <1>11 DEF y, l, s

LEMMA StackIsTop == ASSUME WellFormed, stack # <<>> PROVE stack = Append(Below, Top)
  <1>. DEFINE u == Append(Below, Top)
  <1>1. stack \in Seq(Frame) /\ Len(stack) \in Nat /\ Len(stack) > 0 /\ Top = stack[Len(stack)]
        /\ Top \in Frame
    BY Typed, TopParts
  <1>2. /\ u \in Seq(Frame) /\ Len(u) = Len(stack) /\ u[Len(stack)] = Top
        /\ \A i \in 1..Len(stack) - 1 : u[i] = stack[i]
    BY <1>1, ReplaceTop DEF Below
  <1>3. \A i \in 1..Len(stack) : i \in 1..Len(stack) - 1 \/ i = Len(stack)
    BY <1>1
  <1>. HIDE DEF u
  <1>4. u \in Seq(Frame) /\ stack \in Seq(Frame) /\ Len(u) = Len(stack) /\ \A i \in 1..Len(u) : u[i] = stack[i]
    BY <1>1, <1>2, <1>3
  <1>5. u = stack
    BY ONLY <1>4, SeqEqual
  <1>. QED BY <1>5 DEF u

LEMMA DescendRoles ==
  ASSUME WellFormed, WellFormed', NEW t, Ranked(t), NEW R, RoledHeap(t, R, heap, caches, arrays),
         RoledStack(t, R, arrays, stack), Descend
  PROVE  RolesGoOn(t, R)
  <1>. DEFINE f == Head(Head(Top.paths))
              o == Top.at.obj
              y == Start("get", heap, o, f, DefOf(o, f).lambda)
              w == By(R, Top)
              s == heap[o].struct
  <1>1. /\ stack # <<>> /\ Top.paths # <<>> /\ Head(Top.paths) # <<>> /\ Top.at.type = "object"
        /\ UNCHANGED arrays /\ o \in 1..Len(heap) /\ f \in Fields /\ HasField(o, f)
        /\ Enter("get", o, f, stack)
    BY DescendMoves
  <1>2. stack' = Append(stack, y) /\ FrameOK(heap', Len(arrays), y) /\ y.op = "get"
    BY <1>1, EnterMoves
  <1>3. /\ RoledFrame(t, R, arrays, Top) /\ FrameOK(heap, Len(arrays), Top) /\ Top \in Frame
        /\ Top.paths \in Lambda /\ DOMAIN R = 1..Len(heap) /\ w \in Owner
    BY <1>1, TopRoles
  <1>4. ASSUME Top.op # "json" PROVE t.rank[<<s, f>>] < t.rank[w]
    <2>. DEFINE p == Head(Top.paths)
    <2>1. Inside(At(R, From(t, w, p)), arrays, Top.at)
      BY <1>1, <1>3, <1>4 DEF RoledFrame
    <2>2. R[o][1] = s
      BY <1>1 DEF RoledHeap, RoledObject
    <2>3. Head(p) # "Parent" /\ p # <<>> /\ Def[R[o][1]][Head(p)].kind # "absent"
      BY <1>1, <2>2, ConstantTypes DEF HasField, DefOf
    <2>4. <<w, R[o], p>> \in t.reads
      <3>. HIDE DEF w, p
      <3>. QED BY <1>1, <2>1 DEF Inside, At, From
    <2>. HIDE DEF w, p, s
    <2>5. t.rank[<<R[o][1], Head(p)>>] < t.rank[w]
      BY <2>3, <2>4, ReadingGoesOn
    <2>. QED BY <2>2, <2>5 DEF p
  <1>5. \E R2 : /\ Extends(R, R2) /\ RoledHeap(t, R2, heap', caches', arrays')
                /\ RoledFrame(t, R2, arrays', y) /\ By(R2, y) = <<s, f>>
    <2>. DEFINE op == "get"
    <2>1. op \in {"get", "ref"} /\ Enter(op, o, f, stack) /\ UNCHANGED arrays
      BY <1>1
    <2>2. \E R2 : /\ Extends(R, R2) /\ RoledHeap(t, R2, heap', caches', arrays')
                  /\ RoledFrame(t, R2, arrays', Start(op, heap, o, f, DefOf(o, f).lambda))
                  /\ By(R2, Start(op, heap, o, f, DefOf(o, f).lambda)) = <<heap[o].struct, f>>
      <3>. HIDE DEF op, o, f, y
      <3>. QED BY ONLY WellFormed, Ranked(t), RoledHeap(t, R, heap, caches, arrays), <1>1, <2>1, EnterRoles
    <2>. QED BY <2>2
  <1>6. PICK R2 : /\ Extends(R, R2) /\ RoledHeap(t, R2, heap', caches', arrays')
                  /\ RoledFrame(t, R2, arrays', y) /\ By(R2, y) = <<s, f>>
    BY <1>5
  <1>7. ArraysKeep
    BY <1>1 DEF ArraysKeep
  <1>. HIDE DEF y, f, s
  <1>8. By(R2, Top) = w
    BY <1>3, <1>6 DEF FrameOK, Extends, By
  <1>9. RoleStep(t, R2)
    <2>. DEFINE x == Top
    <2>1. stack' = Append(Append(Below, x), y) /\ x \in Frame /\ y \in Frame
      BY <1>1, <1>2, <1>3, StackIsTop DEF FrameOK
    <2>2. x.op = Top.op /\ x.obj = Top.obj /\ x.field = Top.field /\ x = Top /\ y.op # "size"
          /\ (Top.op # "json" => y.op # "json" /\ t.rank[By(R2, y)] < t.rank[By(R2, Top)])
      BY <1>2, <1>4, <1>6, <1>8
    <2>. HIDE DEF x
    <2>. QED BY <1>1, <1>6, <2>1, <2>2, RoleTopWaits
  <1>. QED BY <1>6, <1>7, <1>9, RolesStay

-----------------------------------------------------------------------------
(* The calls of the user.                                                  *)

LEMMA EnterCallRoles ==
  ASSUME WellFormed, WellFormed', NEW t, Ranked(t), NEW R, RoledHeap(t, R, heap, caches, arrays),
         RoledStack(t, R, arrays, stack), NEW op \in {"get", "ref"},
         NEW o \in held, NEW f \in Fields, HasField(o, f), stack = <<>>,
         NEW below, below = <<>>, Enter(op, o, f, below), UNCHANGED arrays
  PROVE  RolesGoOn(t, R)
  <1>. DEFINE y == Start(op, heap, o, f, DefOf(o, f).lambda)
  <1>1. o \in 1..Len(heap)
    BY DEF WellFormed
  <1>2. stack' = Append(below, y)
    BY ONLY WellFormed, op \in {"get", "ref"}, f \in Fields, HasField(o, f),
            Enter(op, o, f, below), <1>1, EnterMoves
  <1>3. \E R2 : /\ Extends(R, R2) /\ RoledHeap(t, R2, heap', caches', arrays')
                /\ RoledFrame(t, R2, arrays', y)
    BY ONLY WellFormed, Ranked(t), RoledHeap(t, R, heap, caches, arrays), UNCHANGED arrays,
            op \in {"get", "ref"}, f \in Fields, HasField(o, f), Enter(op, o, f, below), <1>1, EnterRoles
  <1>. HIDE DEF y
  <1>4. PICK R2 : /\ Extends(R, R2) /\ RoledHeap(t, R2, heap', caches', arrays')
                  /\ RoledFrame(t, R2, arrays', y)
    BY <1>3
  <1>5. stack' = <<y>>
    BY <1>2
  <1>6. RoleStep(t, R2)
    BY <1>4, <1>5, RoleCall
  <1>7. ArraysKeep
    BY DEF ArraysKeep
  <1>. QED BY <1>4, <1>6, <1>7, RolesStay

LEMMA RolesSame ==
  ASSUME NEW t, NEW R, RoledHeap(t, R, heap, caches, arrays),
         RoledStack(t, R, arrays, stack), UNCHANGED <<heap, caches, arrays, stack>>
  PROVE  RolesGoOn(t, R)
  BY ExtendsSelf DEF RolesGoOn

LEMMA GetRoles ==
  ASSUME WellFormed, WellFormed', NEW t, Ranked(t), NEW R, RoledHeap(t, R, heap, caches, arrays),
         RoledStack(t, R, arrays, stack), NEW o \in held, NEW f \in Fields, Get(o, f)
  PROVE  RolesGoOn(t, R)
  <1>1. HasField(o, f) /\ stack = <<>> /\ UNCHANGED arrays
    BY DEF Get, Call
  <1>2. CASE Cached(o, f) # Unset
    <2>1. UNCHANGED <<heap, caches, stack>>
      BY <1>2 DEF Get
    <2>. QED BY <1>1, <2>1, RolesSame
  <1>3. CASE Cached(o, f) = Unset
    <2>. DEFINE op == "get"
                below == <<>>
    <2>1. op \in {"get", "ref"} /\ Enter(op, o, f, below) /\ below = <<>>
      BY <1>3 DEF Get
    <2>. HIDE DEF op, below
    <2>. QED BY <1>1, <2>1, EnterCallRoles
  <1>. QED BY <1>2, <1>3

LEMMA RefValueRoles ==
  ASSUME WellFormed, WellFormed', NEW t, Ranked(t), NEW R, RoledHeap(t, R, heap, caches, arrays),
         RoledStack(t, R, arrays, stack), NEW o \in held, NEW f \in Fields, RefValue(o, f)
  PROVE  RolesGoOn(t, R)
  <1>. DEFINE op == "ref"
              below == <<>>
  <1>1. HasField(o, f) /\ stack = <<>> /\ UNCHANGED arrays
        /\ op \in {"get", "ref"} /\ Enter(op, o, f, below) /\ below = <<>>
    BY DEF RefValue, Call
  <1>. HIDE DEF op, below
  <1>. QED BY <1>1, EnterCallRoles

\* MarshalJSON and what it goes through keep to no lambda.
LEMMA JsonRoled ==
  ASSUME NEW t, NEW R, NEW a, NEW y, y.op = "json"
  PROVE  RoledFrame(t, R, a, y)
  BY DEF RoledFrame

LEMMA MarshalJSONRoles ==
  ASSUME WellFormed, WellFormed', NEW t, Ranked(t), NEW R, RoledHeap(t, R, heap, caches, arrays),
         RoledStack(t, R, arrays, stack), NEW o \in held, MarshalJSON(o)
  PROVE  RolesGoOn(t, R)
  <1>. DEFINE y == Marshal(heap, o)
  <1>1. stack = <<>> /\ stack' = <<y>> /\ UNCHANGED <<heap, caches, arrays>> /\ o \in 1..Len(heap)
    BY DEF MarshalJSON, Call, WellFormed
  <1>2. y.op = "json"
    BY <1>1, MarshalMoves
  <1>. HIDE DEF y
  <1>3. RoleStep(t, R)
    BY <1>1, <1>2, JsonRoled, RoleCall
  <1>. QED BY <1>1, <1>3, RolesAgain

LEMMA EncodeRoles ==
  ASSUME WellFormed, WellFormed', NEW t, Ranked(t), NEW R, RoledHeap(t, R, heap, caches, arrays),
         RoledStack(t, R, arrays, stack), Encode
  PROVE  RolesGoOn(t, R)
  <1>. DEFINE x == WithOut(Top, Tail(Top.out), Top.left)
              y == Marshal(heap, Head(Top.out))
  <1>1. /\ stack # <<>> /\ Top.op = "json" /\ UNCHANGED <<heap, caches, arrays>>
        /\ FrameOK(heap, Len(arrays), x) /\ stack' = Append(Append(Below, x), y)
        /\ x.op = "json" /\ x.obj = Top.obj /\ x.field = Top.field
        /\ FrameOK(heap, Len(arrays), y) /\ y.op = "json"
    BY EncodeMoves
  <1>. HIDE DEF x, y
  <1>2. RoledFrame(t, R, arrays', x) /\ RoledFrame(t, R, arrays', y) /\ x \in Frame /\ y \in Frame
    BY <1>1, JsonRoled DEF FrameOK
  <1>3. RoleStep(t, R)
    BY <1>1, <1>2, RoleTopWaits
  <1>. QED BY <1>1, <1>3, RolesAgain

\* The objects there were, when others are added.
LEMMA KeptRoles ==
  ASSUME WellFormed, NEW t, NEW R, RoledHeap(t, R, heap, caches, arrays), NEW R2, Extends(R, R2),
         DOMAIN R2 = 1..Len(heap'), Grows(heap, heap'), UNCHANGED <<caches, arrays>>,
         \A i \in 1..Len(heap) : heap'[i] = heap[i], NEW i \in 1..Len(heap)
  PROVE  RoledObject(t, R2, heap', caches', arrays', i) /\ i \in 1..Len(heap') /\ R2[i] = R[i]
  <1>1. ArraysKeep
    BY DEF ArraysKeep
  <1>2. \A j \in 1..Len(heap) : heap'[j].parent = heap[j].parent
    OBVIOUS
  <1>3. \A j \in 1..Len(heap), g \in Fields : heap'[j].cache # 0 =>
            /\ heap[j].cache # 0 /\ heap'[j].cache = heap[j].cache
            /\ caches'[heap'[j].cache][g] = caches[heap[j].cache][g]
    OBVIOUS
  <1>. QED BY <1>1, <1>2, <1>3, OldRoles

LEMMA SizeRoles ==
  ASSUME WellFormed, WellFormed', NEW t, Ranked(t), NEW R, RoledHeap(t, R, heap, caches, arrays),
         RoledStack(t, R, arrays, stack), NEW o \in held, Size(o)
  PROVE  RolesGoOn(t, R)
  <1>. DEFINE s == heap[o].struct
              y == Start("size", heap, o, "none", SizeLambda[s])
              k == Len(heap)
              j == k + 1
              w == <<s, "none">>
              p == heap[o].orig
  <1>1. /\ stack = <<>> /\ stack' = <<y>> /\ UNCHANGED <<caches, arrays>>
        /\ o \in 1..k /\ SizeLambda[s] # <<>> /\ heap' = GetThis(heap, o)
    BY DEF Size, Call, WellFormed
  <1>2. /\ Len(heap') = j /\ Grows(heap, heap')
        /\ heap'[j] = heap[p] /\ \A i \in 1..k : heap'[i] = heap[i]
        /\ y.op = "size" /\ y.obj = o /\ y.field = "none" /\ y.paths = SizeLambda[s]
        /\ y.copy = j /\ y.at = Object(j) /\ y.last = Null /\ y.out = <<>> /\ y \in Frame
    <2>1. Len(arrays) \in Nat /\ HeapOK(heap, Len(caches))
      BY Parts
    <2>. QED BY <1>1, <2>1, MeasureMoves DEF FrameOK
  <1>3. /\ s \in Structs /\ p \in 1..k /\ k \in Nat /\ DOMAIN R = 1..k
        /\ heap[p].orig = p /\ heap[p].struct = s
    BY <1>1, Parts, ObjectType DEF RoledHeap, HeapOK, ObjectOK
  <1>. HIDE DEF y, s, k, p
  <1>. DEFINE R2 == [i \in 1..j |-> IF i = j THEN w ELSE R[i]]
  <1>4. /\ Extends(R, R2) /\ DOMAIN R2 = 1..Len(heap') /\ R2[j] = w /\ j \in DOMAIN R2 /\ j \in Nat
        /\ \A i \in 1..Len(heap') : i \in 1..k \/ i = j
    BY <1>2, <1>3 DEF Extends
  <1>. HIDE DEF R2
  <1>5. ASSUME NEW i \in 1..k PROVE RoledObject(t, R2, heap', caches', arrays', i) /\ R2[i] = R[i]
    <2>1. i \in 1..Len(heap) /\ \A n \in 1..Len(heap) : heap'[n] = heap[n]
      BY <1>2 DEF k
    <2>. QED BY <1>1, <1>2, <1>4, <2>1, KeptRoles
  <1>6. w \in Owner /\ w[1] = s
    BY <1>3 DEF Owner
  <1>7. RoledObject(t, R2, heap', caches', arrays', j)
    <2>1. /\ RoledObject(t, R2, heap', caches', arrays', p) /\ heap'[p].orig = p /\ j # p
          /\ heap'[j] = heap'[p] /\ w[1] = heap'[p].struct /\ R2[j] = w
      BY <1>2, <1>3, <1>4, <1>5, <1>6
    <2>. HIDE DEF j, w
    <2>. QED BY <1>6, <2>1, CopyRole
  <1>8. RoledHeap(t, R2, heap', caches', arrays')
    BY <1>4, <1>5, <1>7 DEF RoledHeap
  <1>9. RoledFrame(t, R2, arrays', y)
    <2>1. R2[o][1] = s
      <3>1. o \in 1..Len(heap)
        BY <1>1 DEF k
      <3>. QED BY <1>1, <1>5, <3>1 DEF RoledHeap, RoledObject, s
    <2>2. \A q \in Range(y.paths) : <<w, w, q>> \in t.reads
      BY <1>2, <1>3, ReadingIs
    <2>3. "none" \in Fields \cup {"none"} /\ y.op # "json"
          /\ y.copy \in DOMAIN R2 /\ y.copy \in Nat /\ R2[y.copy] = w /\ y.at = Object(y.copy)
      BY <1>2, <1>4
    <2>. QED BY ONLY Ranked(t), <1>2, <1>3, <2>1, <2>2, <2>3, BegunRoled
  <1>10. RoleStep(t, R2)
    BY <1>1, <1>9, RoleCall
  <1>11. ArraysKeep
    BY <1>1 DEF ArraysKeep
  <1>. QED BY <1>4, <1>8, <1>10, <1>11, RolesStay

-----------------------------------------------------------------------------
(* The elements of an array.                                               *)

LEMMA NextElementRoles ==
  ASSUME WellFormed, WellFormed', NEW t, Ranked(t), NEW R, RoledHeap(t, R, heap, caches, arrays),
         RoledStack(t, R, arrays, stack), NextElement
  PROVE  RolesGoOn(t, R)
  <1>. DEFINE s == DefOf(Top.obj, Top.field).of
              k == Len(heap)
              j == k + 1
              w == By(R, Top)
              r == <<s, "orig">>
              q == <<s, "none">>
  <1>1. /\ stack # <<>> /\ InArray(Top) /\ UNCHANGED <<caches, arrays>>
        /\ \A i \in 1..k : heap'[i] = heap[i]
        /\ s \in Structs /\ heap'[j] = NewObject(s) /\ Grows(heap, heap')
        /\ ElementFixed(s) \/ ElementMeasured(s)
    BY NextElementMoves
  <1>2. /\ RoledFrame(t, R, arrays, Top) /\ FrameOK(heap, Len(arrays), Top) /\ Top \in Frame
        /\ DOMAIN R = 1..k /\ Top.obj \in 1..k /\ w \in Owner
        /\ w = <<heap[Top.obj].struct, Top.field>>
    BY <1>1, TopRoles
  <1>3. /\ Top.op \in {"get", "ref"} /\ Top.paths = <<>> /\ k \in Nat
        /\ r \in t.answers[w] /\ (SizeLambda[s] # <<>> => t.rank[q] < t.rank[w])
    <2>1. /\ Top.op \in {"get", "ref"} /\ Top.paths = <<>> /\ Top.field \in Fields /\ k \in Nat
          /\ Def[heap[Top.obj].struct][Top.field].kind = "array" /\ heap[Top.obj].struct \in Structs
          /\ s = Def[heap[Top.obj].struct][Top.field].of
      BY <1>1, <1>2, ArrayParts, Parts, ObjectType DEF KindOf, DefOf
    <2>2. w = <<heap[Top.obj].struct, Top.field>>
      BY <1>2
    <2>. HIDE DEF s, w
    <2>. QED BY <2>1, <2>2, ReadingIs
  <1>4. NewObject(s).cache = 0 /\ NewObject(s).parent = 0 /\ NewObject(s).struct = s /\ NewObject(s).orig = j
    BY DEF NewObject
  <1>5. ArraysKeep
    BY <1>1 DEF ArraysKeep
  <1>. HIDE DEF s, w, k
  <1>6. ASSUME NEW R2, Extends(R, R2), DOMAIN R2 = 1..Len(heap'), R2[j] = r
        PROVE  /\ \A i \in 1..k : RoledObject(t, R2, heap', caches', arrays', i)
               /\ RoledObject(t, R2, heap', caches', arrays', j)
               /\ RoledFrame(t, R2, arrays', Top) /\ By(R2, Top) = w
    <2>1. ASSUME NEW i \in 1..k PROVE RoledObject(t, R2, heap', caches', arrays', i)
      <3>1. i \in 1..Len(heap) /\ \A n \in 1..Len(heap) : heap'[n] = heap[n]
        BY <1>1 DEF k
      <3>. QED BY <1>1, <1>6, <3>1, KeptRoles
    <2>2. RoledObject(t, R2, heap', caches', arrays', j)
      BY <1>1, <1>4, <1>6, NewRole
    <2>3. By(R2, Top) = w
      BY <1>2, <1>6 DEF Extends, By, w
    <2>4. RoledFrame(t, R2, arrays', Top)
      <3>1. DOMAIN R = 1..Len(heap)
        BY <1>2 DEF k
      <3>. QED BY <1>2, <1>5, <1>6, <3>1, RoledFrameExtends
    <2>. QED BY <2>1, <2>2, <2>3, <2>4
  <1>7. CASE ElementFixed(s)
    <2>. DEFINE x == WithOut(Top, Append(Top.out, j), Top.left - 1)
                R2 == [i \in 1..j |-> IF i = j THEN r ELSE R[i]]
    <2>1. Len(heap') = j /\ FrameOK(heap', Len(arrays), x) /\ stack' = Append(Below, x)
      BY <1>7 DEF ElementFixed, k
    <2>2. /\ x.op = Top.op /\ x.obj = Top.obj /\ x.paths = Top.paths /\ x.last = Top.last
          /\ x.field = Top.field /\ x.at = Top.at /\ x.copy = Top.copy /\ x.out = Append(Top.out, j)
      BY <1>2 DEF WithOut, Frame
    <2>3. Range(Append(Top.out, j)) = Range(Top.out) \cup {j}
      <3>1. Top.out \in Seq(Nat) /\ j \in Nat
        BY <1>2, <1>3, FrameParts
      <3>. QED BY ONLY <3>1, RangeParts
    <2>4. Extends(R, R2) /\ DOMAIN R2 = 1..Len(heap') /\ R2[j] = r /\ j \in DOMAIN R2
          /\ \A i \in 1..Len(heap') : i \in 1..k \/ i = j
      BY <1>2, <1>3, <2>1 DEF Extends
    <2>. HIDE DEF x, R2, j, r
    <2>5. RoledHeap(t, R2, heap', caches', arrays')
      BY <1>6, <2>4 DEF RoledHeap
    <2>6. RoledFrame(t, R2, arrays', Top) /\ By(R2, Top) = w
      BY <1>6, <2>4
    <2>7. RoledFrame(t, R2, arrays', x)
      <3>1. By(R2, x) = w
        BY <2>2, <2>6 DEF By
      <3>2. j \in At(R2, t.answers[w])
        BY <1>3, <2>4 DEF At
      <3>. QED BY <2>2, <2>3, <2>6, <3>1, <3>2 DEF RoledFrame
    <2>8. RoleStep(t, R2)
      BY <1>1, <2>1, <2>2, <2>7, RoleTop DEF FrameOK
    <2>. QED BY <1>5, <2>4, <2>5, <2>8, RolesStay
  <1>8. CASE ElementMeasured(s)
    <2>. DEFINE x == WithOut(Top, Top.out, Top.left - 1)
                y == Start("size", Append(heap, NewObject(s)), j, "none", SizeLambda[s])
                c == k + 2
                R2 == [i \in 1..c |-> IF i = c THEN q ELSE IF i = j THEN r ELSE R[i]]
    <2>1. /\ Len(heap') = c /\ heap'[c] = NewObject(s) /\ SizeLambda[s] # <<>>
          /\ FrameOK(heap', Len(arrays), x) /\ FrameOK(heap', Len(arrays), y)
          /\ stack' = Append(Append(Below, x), y)
          /\ y.op = "size" /\ y.obj = j /\ y.field = "none" /\ y.paths = SizeLambda[s]
          /\ y.copy = c /\ y.at = Object(c) /\ y.last = Null /\ y.out = <<>>
      BY <1>8 DEF ElementMeasured, k
    <2>2. /\ x.op = Top.op /\ x.obj = Top.obj /\ x.paths = Top.paths /\ x.last = Top.last
          /\ x.field = Top.field /\ x.at = Top.at /\ x.copy = Top.copy /\ x.out = Top.out
      BY <1>2 DEF WithOut, Frame
    <2>3. /\ Extends(R, R2) /\ DOMAIN R2 = 1..Len(heap') /\ R2[j] = r /\ R2[c] = q /\ c \in DOMAIN R2
          /\ c \in Nat /\ c # j /\ \A i \in 1..Len(heap') : i \in 1..k \/ i = j \/ i = c
      BY <1>2, <1>3, <2>1 DEF Extends
    <2>. HIDE DEF x, y, R2, j, c, r
    <2>4. /\ \A i \in 1..k : RoledObject(t, R2, heap', caches', arrays', i)
          /\ RoledObject(t, R2, heap', caches', arrays', j)
          /\ RoledFrame(t, R2, arrays', Top) /\ By(R2, Top) = w
      BY <1>6, <2>3
    <2>5. RoledObject(t, R2, heap', caches', arrays', c)
      <3>1. /\ heap'[j].orig = j /\ heap'[c] = heap'[j] /\ q \in Owner /\ q[1] = heap'[j].struct
        BY <1>1, <1>4, <2>1 DEF Owner
      <3>. HIDE DEF q
      <3>. QED BY <2>3, <2>4, <3>1, CopyRole
    <2>6. RoledHeap(t, R2, heap', caches', arrays')
      BY <2>3, <2>4, <2>5 DEF RoledHeap
    <2>7. RoledFrame(t, R2, arrays', y) /\ By(R2, y) = q
      <3>1. R2[j][1] = s
        BY <2>3 DEF r
      <3>2. \A p \in Range(y.paths) : <<q, q, p>> \in t.reads
        BY <1>1, <2>1, ReadingIs
      <3>3. "none" \in Fields \cup {"none"} /\ y.op # "json" /\ y \in Frame
            /\ y.copy \in DOMAIN R2 /\ y.copy \in Nat /\ R2[y.copy] = q /\ y.at = Object(y.copy)
        BY <2>1, <2>3 DEF FrameOK
      <3>. QED BY ONLY Ranked(t), <1>1, <2>1, <3>1, <3>2, <3>3, BegunRoled
    <2>8. RoledFrame(t, R2, arrays', x)
      <3>1. By(R2, x) = w
        BY <2>2, <2>4 DEF By
      <3>. QED BY <2>2, <2>4, <3>1 DEF RoledFrame
    <2>9. RoleStep(t, R2)
      <3>1. y.op # "json" /\ t.rank[By(R2, y)] < t.rank[By(R2, Top)]
            /\ R2[y.obj] \in t.answers[By(R2, Top)] /\ x \in Frame /\ y \in Frame
        BY <1>3, <2>1, <2>3, <2>4, <2>7 DEF FrameOK
      <3>. QED BY <1>1, <2>1, <2>2, <2>7, <2>8, <3>1, RoleTopWaits
    <2>. QED BY <1>5, <2>3, <2>6, <2>9, RolesStay
  <1>. QED BY <1>1, <1>7, <1>8

-----------------------------------------------------------------------------
(* The end of an evaluation.                                               *)

\* What it finds has a role that its field may answer.
LEMMA ResultRoled ==
  ASSUME WellFormed, Finish, NEW t, Ranked(t), NEW R, RoledHeap(t, R, heap, caches, arrays),
         RoledStack(t, R, arrays, stack), NEW R2, Extends(R, R2), Top.op \in {"get", "ref"},
         Kind(Top) = "struct" => /\ Len(heap) + 1 \in DOMAIN R2
                                 /\ R2[Len(heap) + 1] = <<DefOf(Top.obj, Top.field).of, "orig">>
  PROVE  Inside(At(R2, t.answers[By(R, Top)]), arrays', Result)
  <1>. DEFINE w == By(R, Top)
              C == At(R, t.answers[w])
              C2 == At(R2, t.answers[w])
              s == heap[Top.obj].struct
              f == Top.field
  <1>1. /\ stack # <<>> /\ Top.paths = <<>> /\ Kind(Top) \in {"int", "struct", "array", "value"}
        /\ f \in Fields /\ Kind(Top) = Def[s][f].kind /\ DefOf(Top.obj, f).of = Def[s][f].of
    BY FinishHeap, KindParts DEF KindOf, DefOf
  <1>2. /\ RoledFrame(t, R, arrays, Top) /\ FrameOK(heap, Len(arrays), Top)
        /\ DOMAIN R = 1..Len(heap) /\ Top.obj \in 1..Len(heap) /\ w = <<s, f>> /\ w[1] = s /\ w[2] = f
    BY <1>1, TopRoles
  <1>3. s \in Structs
    BY <1>2, Parts, ObjectType
  <1>4. /\ Range(Top.out) \subseteq C /\ C \subseteq C2
        /\ Kind(Top) = "value" => Inside(C, arrays, Top.last)
    <2>1. C \subseteq C2
      BY AtExtends
    <2>2. Range(Top.out) \subseteq C /\ (Def[w[1]][w[2]].kind = "value" => Inside(C, arrays, Top.last))
      BY <1>2 DEF RoledFrame
    <2>. QED BY <1>1, <1>2, <2>1, <2>2
  <1>5. CASE Kind(Top) = "int"
    BY <1>1, <1>5, ResultParts DEF Inside
  <1>6. CASE Kind(Top) = "struct"
    <2>1. Result = Object(Len(heap) + 1) /\ Len(heap) + 1 \in Nat
      BY <1>1, <1>6, ResultParts, Parts
    <2>2. <<Def[s][f].of, "orig">> \in t.answers[<<s, f>>]
      BY <1>1, <1>3, <1>6, ReadingIs
    <2>3. Len(heap) + 1 \in C2
      BY <1>1, <1>2, <1>6, <2>2 DEF At
    <2>. QED BY <2>1, <2>3, ValueTypes DEF Inside
  <1>7. CASE Kind(Top) = "array"
    <2>1. Result = Array(Len(arrays) + 1) /\ Len(arrays) + 1 \in Nat
          /\ arrays'[Len(arrays) + 1] = Top.out
      BY <1>1, <1>7, ResultParts, Parts, FinishArrays
    <2>. QED BY <1>4, <2>1, ValueTypes DEF Inside
  <1>8. CASE Kind(Top) = "value"
    <2>1. Result = Top.last /\ ValueOK(Len(heap), Len(arrays), Top.last) /\ ArraysKeep
      BY <1>1, <1>2, <1>8, ResultParts, FinishArrays DEF FrameOK, ArraysKeep
    <2>. QED BY <1>4, <1>8, <2>1, InsideWidens
  <1>. QED BY <1>1, <1>5, <1>6, <1>7, <1>8

\* The roles then: the struct that was parsed has one.
LEMMA FinishHeapRoles ==
  ASSUME WellFormed, Finish, NEW t, Ranked(t), NEW R, RoledHeap(t, R, heap, caches, arrays),
         RoledStack(t, R, arrays, stack), NEW R2, Extends(R, R2), DOMAIN R2 = 1..Len(heap'),
         Kind(Top) = "struct" => /\ Len(heap) + 1 \in DOMAIN R2
                                 /\ R2[Len(heap) + 1] = <<DefOf(Top.obj, Top.field).of, "orig">>
  PROVE  RoledHeap(t, R2, heap', caches', arrays')
  <1>. DEFINE w == By(R, Top)
              k == Len(heap)
              of == DefOf(Top.obj, Top.field).of
  <1>1. /\ stack # <<>> /\ Grows(heap, heap') /\ k \in Nat
        /\ \A i \in 1..k : heap'[i].cache = heap[i].cache /\ MadeHeap[i] = heap[i]
        /\ Kind(Top) # "struct" => Len(heap') = k
        /\ Kind(Top) = "struct" =>
              Len(heap') = k + 1 /\ MadeHeap[k + 1] = NewObject(of) /\ heap'[k + 1].cache = 0
        /\ \A i \in 1..Len(heap') :
              /\ heap'[i].parent = IF i \in Taken THEN Top.obj ELSE MadeHeap[i].parent
              /\ heap'[i].struct = MadeHeap[i].struct /\ heap'[i].orig = MadeHeap[i].orig
    BY FinishHeap, Parts, MadeHeapOK
  <1>2. /\ DOMAIN R = 1..k /\ Top.obj \in 1..k /\ w \in Owner /\ w = <<heap[Top.obj].struct, Top.field>>
    BY <1>1, TopRoles
  <1>3. ArraysKeep
    BY FinishArrays DEF ArraysKeep
  <1>4. ASSUME NEW i \in 1..Len(heap'), i \in Taken
        PROVE  heap'[i].parent = Top.obj /\ R2[i] \in t.answers[w]
               /\ heap'[heap'[i].parent].struct \in t.parents[R2[i]]
    <2>1. Top.op = "get" /\ i \in Adopted(Result)
      BY <1>4 DEF Taken
    <2>2. Inside(At(R2, t.answers[w]), arrays', Result)
      BY <2>1, ResultRoled
    <2>. HIDE DEF w
    <2>3. R2[i] \in t.answers[w]
      BY <2>1, <2>2 DEF Adopted, Inside, At
    <2>4. w[1] \in t.parents[R2[i]]
      BY <1>2, <2>3, ReadingIs
    <2>5. heap'[i].parent = Top.obj /\ heap'[Top.obj].struct = w[1]
      BY <1>1, <1>2, <1>4 DEF Grows
    <2>. QED BY <2>3, <2>4, <2>5
  <1>5. \A i \in 1..Len(heap) : \/ heap'[i].parent = heap[i].parent
                                \/ heap'[heap'[i].parent].struct \in t.parents[R[i]]
    <2>. SUFFICES ASSUME NEW i \in 1..Len(heap), i \in Taken
                  PROVE  heap'[heap'[i].parent].struct \in t.parents[R[i]]
      <3>1. \A i \in 1..Len(heap) : i \in 1..Len(heap')
        BY <1>1
      <3>. QED BY <1>1, <3>1
    <2>1. i \in 1..Len(heap') /\ R2[i] = R[i]
      BY <1>1, <1>2 DEF Extends
    <2>. QED BY <1>4, <2>1
  <1>6. \A i \in 1..Len(heap), f \in Fields : heap'[i].cache # 0 =>
            \/ /\ heap[i].cache # 0 /\ heap'[i].cache = heap[i].cache
               /\ caches'[heap'[i].cache][f] = caches[heap[i].cache][f]
            \/ Inside(At(R2, t.answers[<<heap[i].struct, f>>]), arrays', caches'[heap'[i].cache][f])
    <2>. SUFFICES ASSUME NEW i \in 1..Len(heap), NEW f \in Fields, heap'[i].cache # 0
                  PROVE  \/ /\ heap[i].cache # 0 /\ heap'[i].cache = heap[i].cache
                            /\ caches'[heap'[i].cache][f] = caches[heap[i].cache][f]
                         \/ Inside(At(R2, t.answers[<<heap[i].struct, f>>]), arrays',
                                   caches'[heap'[i].cache][f])
      OBVIOUS
    <2>1. heap'[i].cache = heap[i].cache /\ heap[i].cache # 0 /\ heap[i].cache \in 1..Len(caches)
      <3>1. heap[i].cache \in 0..Len(caches) /\ Len(caches) \in Nat
        BY Parts, ObjectType
      <3>. QED BY <1>1, <3>1
    <2>2. CASE Top.op = "get" /\ heap[i].cache = heap[Top.obj].cache /\ f = Top.field
      <3>1. caches'[heap'[i].cache][f] = Result
        BY <2>1, <2>2, FinishCaches
      <3>2. heap[i].struct = heap[Top.obj].struct
        <4>1. heap[i].orig = heap[Top.obj].orig
          BY <1>2, <2>1, <2>2, Parts DEF HeapOK
        <4>2. \A n \in 1..Len(heap) : heap[heap[n].orig].struct = heap[n].struct
          BY Parts DEF HeapOK, ObjectOK
        <4>. QED BY <1>2, <4>1, <4>2
      <3>3. Inside(At(R2, t.answers[w]), arrays', Result)
        BY <2>2, ResultRoled
      <3>. QED BY <1>2, <2>2, <3>1, <3>2, <3>3
    <2>3. CASE ~(Top.op = "get" /\ heap[i].cache = heap[Top.obj].cache /\ f = Top.field)
      BY <2>1, <2>3, FinishCaches
    <2>. QED BY <2>2, <2>3
  <1>7. ASSUME NEW i \in 1..Len(heap) PROVE RoledObject(t, R2, heap', caches', arrays', i)
    BY <1>1, <1>3, <1>5, <1>6, OldRoles
  <1>8. ASSUME Kind(Top) = "struct" PROVE RoledObject(t, R2, heap', caches', arrays', k + 1)
    <2>. DEFINE j == k + 1
    <2>1. j \in 1..Len(heap') /\ heap'[j].cache = 0 /\ R2[j] = <<of, "orig">>
          /\ heap'[j].struct = of /\ heap'[j].orig = j /\ (j \notin Taken => heap'[j].parent = 0)
      BY <1>1, <1>8 DEF NewObject
    <2>2. of \in Structs
      BY <1>1, <1>8, KindParts
    <2>. HIDE DEF j, of
    <2>3. R2[j] \in Role /\ R2[j][1] = heap'[j].struct /\ R2[j] = <<heap'[j].struct, "orig">>
      BY <2>1, <2>2 DEF Role
    <2>4. heap'[j].parent # 0 => heap'[heap'[j].parent].struct \in t.parents[R2[j]]
      BY <1>4, <2>1
    <2>5. RoledObject(t, R2, heap', caches', arrays', j)
      BY <2>1, <2>3, <2>4 DEF RoledObject
    <2>. QED BY <2>5 DEF j
  <1>9. \A i \in 1..Len(heap') : i \in 1..Len(heap) \/ (Kind(Top) = "struct" /\ i = k + 1)
    BY <1>1
  <1>. QED BY <1>7, <1>8, <1>9 DEF RoledHeap

\* Those who wait for it go on from what it found.
LEMMA FinishStackRoles ==
  ASSUME WellFormed, Finish, NEW t, Ranked(t), NEW R, RoledHeap(t, R, heap, caches, arrays),
         RoledStack(t, R, arrays, stack), NEW R2, Extends(R, R2),
         Kind(Top) = "struct" => /\ Len(heap) + 1 \in DOMAIN R2
                                 /\ R2[Len(heap) + 1] = <<DefOf(Top.obj, Top.field).of, "orig">>
  PROVE  RoleStep(t, R2)
  <1>. DEFINE n == Len(stack)
  <1>1. stack # <<>> /\ n \in Nat /\ n > 0 /\ Top = stack[n]
    BY FinishHeap, Typed, TopParts
  <1>2. CASE n = 1
    <2>1. stack' = <<>>
      BY <1>2, FinishStack
    <2>. QED BY <2>1, EmptySeq DEF RoleStep
  <1>3. CASE n # 1
    <2>. DEFINE k == n - 1
                lo == stack[k]
                x == Resumed(lo, Top, Result)
                w == By(R, lo)
    <2>1. /\ k \in 1..n /\ n \in 1..n /\ n > 1
          /\ \A i \in 1..k : i = k \/ i \in 1..k - 1
          /\ \A i \in 1..k - 1 : i \in 1..n /\ i \in 1..n - 2 /\ i # k
      <3>1. n \in Nat /\ n > 0 /\ n # 1 /\ k = n - 1
        BY <1>1, <1>3
      <3>. HIDE DEF n, k
      <3>2. n \in Nat /\ n > 1 /\ k \in Nat /\ k \in 1..n /\ n \in 1..n /\ n - 2 = k - 1 /\ k < n
        BY ONLY <3>1
      <3>3. \A i \in 1..k : i = k \/ i \in 1..k - 1
        BY ONLY <3>2
      <3>4. \A i \in 1..k - 1 : i \in 1..n /\ i # k
        BY ONLY <3>2
      <3>. QED BY ONLY <3>2, <3>3, <3>4
    <2>2. /\ Len(stack') = k /\ stack'[k] = x
          /\ \A i \in 1..k - 1 : stack'[i] = stack[i]
      BY <1>3, <2>1, FinishStack
    <2>3. /\ Awaits(heap, lo, Top) /\ FrameOK(heap, Len(arrays), lo) /\ Returned(lo, x)
          /\ x.op = lo.op /\ x.obj = lo.obj /\ x.field = lo.field /\ x.copy = lo.copy
          /\ x.last = lo.last
      BY <2>1, ResumedMoves
    <2>4. lo \in Frame /\ lo.paths \in Lambda /\ RoledFrame(t, R, arrays, lo) /\ DOMAIN R = 1..Len(heap)
      BY <2>1, <2>3, FrameParts DEF RoledStack, FrameOK, RoledHeap
    <2>5. ArraysKeep
      BY FinishArrays DEF ArraysKeep
    <2>6. RoledPlace(t, R, stack, n)
      BY <2>1 DEF RoledStack
    <2>7. /\ Top.obj \in 1..Len(heap) /\ Top \in Frame /\ FrameOK(heap, Len(arrays), Top)
          /\ By(R, Top) = <<heap[Top.obj].struct, Top.field>>
      BY <1>1, TopRoles
    <2>. HIDE DEF x, lo, k, w, n
    <2>8. RoledFrame(t, R2, arrays', lo)
      BY <2>3, <2>4, <2>5, RoledFrameExtends
    <2>9. By(R2, lo) = w /\ By(R2, x) = w
      BY <2>3, <2>4 DEF FrameOK, Extends, By, w
    <2>10. x = lo \/ RoledFrame(t, R2, arrays', x)
      <3>1. CASE Top.op = "json" /\ x = lo
        BY <3>1
      <3>2. CASE Top.op = "size" /\ x = WithOut(lo, lo.out, 0)
        <4>1. x.out = lo.out /\ x.at = lo.at /\ x.paths = lo.paths
          BY <2>4, <3>2 DEF WithOut, Frame
        <4>. QED BY <2>3, <2>8, <2>9, <4>1 DEF RoledFrame
      <3>3. CASE Top.op = "size" /\ x = WithOut(lo, Append(lo.out, Top.obj), lo.left)
        <4>1. x.out = Append(lo.out, Top.obj) /\ x.at = lo.at /\ x.paths = lo.paths
          BY <2>4, <3>3 DEF WithOut, Frame
        <4>2. Range(Append(lo.out, Top.obj)) = Range(lo.out) \cup {Top.obj}
          <5>1. lo.out \in Seq(Nat) /\ Top.obj \in Nat
            BY <2>4, <2>7, FrameParts
          <5>. QED BY ONLY <5>1, RangeParts
        <4>3. Top.obj \in At(R2, t.answers[w])
          <5>1. R[Top.obj] \in t.answers[w]
            BY <1>1, <2>1, <2>6, <3>3 DEF RoledPlace, w, lo, k
          <5>. QED BY <2>4, <2>7, <5>1 DEF At, Extends
        <4>. QED BY <2>3, <2>8, <2>9, <4>1, <4>2, <4>3 DEF RoledFrame
      <3>4. CASE Top.op = "get" /\ lo.paths # <<>> /\ Head(lo.paths) # <<>> /\ x = Moved(lo, Result)
        <4>. DEFINE p == Head(lo.paths)
                    r == R[Top.obj]
                    v == Result
        <4>1. lo.at.type = "object" /\ lo.at.obj = Top.obj /\ Head(p) = Top.field
          BY <2>3, <3>4 DEF Awaits
        <4>2. r[1] = heap[Top.obj].struct /\ Head(p) \in Fields /\ Def[r[1]][Head(p)].kind # "absent"
          BY <2>7, <3>4, <4>1 DEF RoledHeap, RoledObject, FrameOK, KindOf
        <4>3. Inside(At(R2, t.answers[<<r[1], Head(p)>>]), arrays', v)
          BY <2>7, <3>4, <4>1, <4>2, ResultRoled
        <4>4. ASSUME lo.op # "json" PROVE Inside(At(R2, From(t, w, Tail(p))), arrays', v)
          <5>1. Inside(At(R, From(t, w, p)), arrays, lo.at)
            BY <2>4, <3>4, <4>4 DEF RoledFrame, w
          <5>. HIDE DEF p, v
          <5>2. <<w, r, p>> \in t.reads
            BY <4>1, <5>1 DEF Inside, At, From
          <5>3. p # <<>>
            BY <3>4 DEF p
          <5>. HIDE DEF r
          <5>. QED BY <4>2, <4>3, <5>2, <5>3, AnswerGoesOn
        <4>. HIDE DEF v
        <4>5. lo.op # "json" => Inside(At(R2, From(t, By(R2, lo), Tail(Head(lo.paths)))), arrays', v)
          BY <2>9, <4>4
        <4>6. RoledFrame(t, R2, arrays', Moved(lo, v))
          BY <2>4, <2>8, <3>4, <4>5, RoledMoved
        <4>. QED BY <3>4, <4>6 DEF v
      <3>. QED BY <2>3, <3>1, <3>2, <3>3, <3>4 DEF Returned
    <2>11. /\ stack'[k].op = stack[k].op /\ stack'[k].obj = stack[k].obj
           /\ stack'[k].field = stack[k].field
           /\ (stack'[k] = stack[k] \/ RoledFrame(t, R2, arrays', stack'[k]))
      BY <2>2, <2>3, <2>10 DEF lo
    <2>. SUFFICES ASSUME NEW i \in 1..k
                  PROVE  /\ i \in 1..n /\ stack'[i].op = stack[i].op /\ stack'[i].obj = stack[i].obj
                         /\ stack'[i].field = stack[i].field
                         /\ stack'[i] = stack[i] \/ RoledFrame(t, R2, arrays', stack'[i])
      BY <2>2 DEF RoleStep, n
    <2>12. CASE i = k
      BY <2>1, <2>11, <2>12
    <2>13. CASE i \in 1..k - 1
      BY <2>1, <2>2, <2>13
    <2>. QED BY <2>1, <2>12, <2>13
  <1>. QED BY <1>2, <1>3

LEMMA FinishRoles ==
  ASSUME WellFormed, WellFormed', NEW t, Ranked(t), NEW R, RoledHeap(t, R, heap, caches, arrays),
         RoledStack(t, R, arrays, stack), Finish
  PROVE  RolesGoOn(t, R)
  <1>. DEFINE k == Len(heap)
              r == <<DefOf(Top.obj, Top.field).of, "orig">>
              R2 == [i \in 1..Len(heap') |-> IF i = k + 1 THEN r ELSE R[i]]
  <1>1. /\ k \in Nat /\ DOMAIN R = 1..k /\ Len(heap') \in {k, k + 1}
        /\ Kind(Top) = "struct" => Len(heap') = k + 1
    BY FinishHeap, MadeHeapOK, Parts DEF RoledHeap
  <1>2. /\ Extends(R, R2) /\ DOMAIN R2 = 1..Len(heap')
        /\ Kind(Top) = "struct" => k + 1 \in DOMAIN R2 /\ R2[k + 1] = r
    BY <1>1 DEF Extends
  <1>. HIDE DEF R2
  <1>3. RoledHeap(t, R2, heap', caches', arrays') /\ RoleStep(t, R2)
    BY <1>2, FinishHeapRoles, FinishStackRoles
  <1>4. ArraysKeep
    BY FinishArrays DEF ArraysKeep
  <1>. QED BY <1>2, <1>3, <1>4, RolesStay

LEMMA NextRoles ==
  ASSUME WellFormed, WellFormed', NEW t, Ranked(t), NEW R, RoledHeap(t, R, heap, caches, arrays),
         RoledStack(t, R, arrays, stack), [Next]_vars
  PROVE  RolesGoOn(t, R)
  <1>1. CASE EndPath
    BY <1>1, EndPathRoles
  <1>2. CASE Access
    BY <1>2, AccessRoles
  <1>3. CASE Descend
    BY <1>3, DescendRoles
  <1>4. CASE NextElement
    BY <1>4, NextElementRoles
  <1>5. CASE Encode
    BY <1>5, EncodeRoles
  <1>6. CASE Finish
    BY <1>6, FinishRoles
  <1>7. CASE \E o \in held : Size(o) \/ MarshalJSON(o)
    BY <1>7, SizeRoles, MarshalJSONRoles
  <1>8. CASE \E o \in held, f \in Fields : Get(o, f) \/ RefValue(o, f)
    BY <1>8, GetRoles, RefValueRoles
  <1>9. CASE (\E o \in held : Parent(o)) \/ Change \/ UNCHANGED vars
    <2>1. UNCHANGED <<heap, caches, arrays, stack>>
      BY <1>9 DEF Parent, Change, vars
    <2>. QED BY <2>1, RolesSame
  <1>. QED BY <1>1, <1>2, <1>3, <1>4, <1>5, <1>6, <1>7, <1>8, <1>9 DEF Next, Step

LEMMA InitRoles == ASSUME Init, NEW t, Ranked(t) PROVE SomeRoles(t)
  <1>1. PICK s \in Roots : heap = <<[struct |-> s, orig |-> 1, cache |-> 0, parent |-> 0]>>
    BY DEF Init
  <1>. DEFINE R == <<<<s, "orig">>>>
  <1>2. /\ Len(heap) = 1 /\ heap[1].struct = s /\ heap[1].cache = 0 /\ heap[1].parent = 0
        /\ heap[1].orig = 1 /\ stack = <<>> /\ s \in Structs /\ 1..1 = {1} /\ DOMAIN R = 1..1 /\ R[1] = <<s, "orig">>
    BY <1>1, StructAssumption DEF Init
  <1>. HIDE DEF R
  <1>3. RoledObject(t, R, heap, caches, arrays, 1)
    BY <1>2, NewRole
  <1>4. RoledHeap(t, R, heap, caches, arrays)
    BY <1>2, <1>3 DEF RoledHeap
  <1>5. RoledStack(t, R, arrays, stack)
    BY <1>2, EmptySeq DEF RoledStack
  <1>. QED BY <1>4, <1>5 DEF SomeRoles

\* Objects have roles at all times.
LEMMA SpecRoles == ASSUME NEW t, Ranked(t) PROVE Spec => []SomeRoles(t)
  <1>1. Init => SomeRoles(t)
    BY InitRoles
  <1>2. WellFormed /\ WellFormed' /\ SomeRoles(t) /\ [Next]_vars => SomeRoles(t)'
    <2>. SUFFICES ASSUME WellFormed, WellFormed', NEW R, RoledHeap(t, R, heap, caches, arrays),
                         RoledStack(t, R, arrays, stack), [Next]_vars
                  PROVE  SomeRoles(t)'
      BY DEF SomeRoles
    <2>1. RolesGoOn(t, R)
      BY NextRoles
    <2>. QED BY <2>1 DEF RolesGoOn, SomeRoles
  <1>. QED BY <1>1, <1>2, SpecWF, PTL DEF Spec

\* Two evaluations of one field would be of one rank.
LEMMA RolesNeverReenter == ASSUME WellFormed, NEW t, Ranked(t), SomeRoles(t) PROVE NoReentry
  <1>. PICK R : RoledHeap(t, R, heap, caches, arrays) /\ RoledStack(t, R, arrays, stack)
    BY DEF SomeRoles
  <1>1. DOMAIN stack = 1..Len(stack) /\ Len(stack) \in Nat
    BY Typed
  <1>. SUFFICES ASSUME NEW i \in 1..Len(stack), NEW j \in 1..Len(stack), i < j,
                       stack[i].op = "get", stack[j].op = "get",
                       heap[stack[i].obj].orig = heap[stack[j].obj].orig,
                       stack[i].field = stack[j].field
                PROVE  FALSE
    BY <1>1 DEF NoReentry
  <1>2. ASSUME NEW k \in 1..Len(stack)
        PROVE  /\ By(R, stack[k]) = <<heap[stack[k].obj].struct, stack[k].field>>
               /\ By(R, stack[k]) \in Owner /\ stack[k].obj \in 1..Len(heap)
    <2>1. FrameOK(heap, Len(arrays), stack[k])
      BY Parts DEF StackOK
    <2>2. By(R, stack[k]) \in Owner /\ By(R, stack[k]) = <<heap[stack[k].obj].struct, stack[k].field>>
      BY <2>1, ByIs
    <2>. QED BY <2>1, <2>2 DEF FrameOK
  <1>3. \A k \in 1..Len(heap) : heap[heap[k].orig].struct = heap[k].struct
    BY Parts DEF HeapOK, ObjectOK
  <1>4. By(R, stack[i]) = By(R, stack[j])
    BY <1>2, <1>3
  <1>5. t.rank[By(R, stack[j])] < t.rank[By(R, stack[i])]
    <2>1. i \in 1..j - 1 /\ RoledPlace(t, R, stack, j)
      BY <1>1 DEF RoledStack
    <2>2. t.rank[By(R, stack[j])] \in Nat /\ t.rank[By(R, stack[i])] \in Nat
      BY <1>2, ReadingIs
    <2>3. t.rank[By(R, stack[j])] + (j - i) <= t.rank[By(R, stack[i])]
      BY <2>1 DEF RoledPlace
    <2>. QED BY <2>2, <2>3
  <1>6. t.rank[By(R, stack[i])] \in Nat
    BY <1>2, ReadingIs
  <1>. QED BY <1>4, <1>5, <1>6

(***************************************************************************)
(* Definitions whose evaluations can be ranked, which is told from them    *)
(* alone, are never read without end: no field is evaluated inside its own *)
(* evaluation, whatever the data, the calls and the struct begun with.     *)
(* What breaks a cycle cannot be the cache, which struct.go:199 writes     *)
(* after the evaluation; that the lambda is given the original's copy and  *)
(* an element no parent (struct.go:255, array.go:121) is what the roles    *)
(* have to follow.                                                         *)
(***************************************************************************)
THEOREM RankedNeverReenters ==
  ASSUME NEW t, Ranked(t)
  PROVE  Spec => []NoReentry
  <1>1. WellFormed /\ SomeRoles(t) => NoReentry
    BY RolesNeverReenter
  <1>. QED BY <1>1, SpecWF, SpecRoles, PTL

(***************************************************************************)
(* For such definitions nothing is assumed of the evaluation any more: a   *)
(* struct is one view of the data, is known to those it names its parents, *)
(* and keeps what it has cached (struct.go:161-209, 252-259).              *)
(***************************************************************************)
THEOREM RankedStructsAreRecords ==
  ASSUME NEW t, Ranked(t)
  PROVE  /\ Spec => []ConsistentView /\ []ParentKnowsChild /\ CachedForGood
         /\ \A T \in SUBSET Fields : SizesRead(T) => (Spec => OneAnswerPerField)
  <1>1. Spec => []NoReentry
    BY RankedNeverReenters
  <1>2. Spec => []ConsistentView /\ []ParentKnowsChild /\ CachedForGood
    BY <1>1, StructIsOneView, ParentHasTheStruct, NothingCachedIsLost, PTL
  <1>3. ASSUME NEW T \in SUBSET Fields, SizesRead(T) PROVE Spec => OneAnswerPerField
    BY <1>1, <1>3, StructImplementsRecord, PTL
  <1>. QED BY <1>2, <1>3

-----------------------------------------------------------------------------
(***************************************************************************)
(* MarshalJSON comes to the end of definitions that are Encodable.         *)
(***************************************************************************)

\* The evaluation x was called for by the user.
Called(x) ==
    /\ stack = <<>> /\ x.out = <<>>
    /\ x.op = "json" =>
          \E o \in 1..Len(heap) : x = Marshal(heap, o) /\ UNCHANGED <<heap, caches, arrays>>

\* What the step made of the i-th evaluation.
AnyStep(i) ==
    LET n == Len(stack)
        x == stack'[i]
    IN  \/ i \in 1..n /\ x = stack[i]
        \/ i = n /\ i = Len(stack') /\ stack # <<>> /\ (Accessed(x) \/ PathEnded(x))
        \/ /\ i = n /\ i = Len(stack') /\ NextElement
           /\ x = WithOut(Top, Append(Top.out, Len(heap) + 1), Top.left - 1)
        \/ i = n /\ NextElement /\ x = WithOut(Top, Top.out, Top.left - 1)
        \/ i = n /\ Encode /\ x = WithOut(Top, Tail(Top.out), Top.left)
        \/ i = n + 1 /\ i = Len(stack') /\ Descend /\ x.op = "get" /\ x.out = <<>>
        \/ i = n + 1 /\ i = Len(stack') /\ NextElement /\ x.op = "size" /\ x.obj = Len(heap) + 1
        \/ i = n + 1 /\ i = Len(stack') /\ Encode /\ x = Marshal(heap, Head(Top.out))
        \/ /\ i = n - 1 /\ i = Len(stack') /\ i \in 1..n /\ Finish
           /\ Returned(stack[i], x) /\ Awaits(heap, stack[i], Top)
        \/ i = 1 /\ i = Len(stack') /\ Called(x)

\* Only the top of the stack is replaced.
LEMMA OnTop ==
  ASSUME WellFormed, stack # <<>>, NEW x \in Frame, stack' = Append(Below, x), AnyStep(Len(stack))
  PROVE  \A i \in 1..Len(stack') : AnyStep(i)
  <1>. DEFINE n == Len(stack)
  <1>1. Len(stack') = n /\ n \in Nat /\ \A i \in 1..n - 1 : stack'[i] = stack[i]
    BY Typed, ReplaceTop DEF Below
  <1>2. \A i \in 1..Len(stack') : i = n \/ (i \in 1..n - 1 /\ i \in 1..n)
    BY <1>1
  <1>. QED BY <1>1, <1>2 DEF AnyStep

\* And another is put on it.
LEMMA OnTopOf ==
  ASSUME WellFormed, stack # <<>>, NEW x \in Frame, NEW y, y \in Frame, stack' = Append(Append(Below, x), y)
  PROVE  /\ Len(stack') = Len(stack) + 1 /\ stack'[Len(stack)] = x /\ stack'[Len(stack) + 1] = y
         /\ \A i \in 1..Len(stack) - 1 : stack'[i] = stack[i]
  <1>. DEFINE u == Append(Below, x)
              n == Len(stack)
  <1>1. u \in Seq(Frame) /\ Len(u) = n /\ u[n] = x /\ n \in Nat /\ n > 0
        /\ \A i \in 1..n - 1 : u[i] = stack[i]
    BY Typed, TopParts, ReplaceTop DEF Below
  <1>. HIDE DEF u
  <1>2. Len(stack') = n + 1 /\ stack'[n + 1] = y /\ \A i \in 1..n : stack'[i] = u[i]
    BY <1>1, AppendProperties DEF u
  <1>. QED BY <1>1, <1>2

LEMMA CalledAlone ==
  ASSUME NEW y, stack' = <<y>>, Called(y)
  PROVE  \A i \in 1..Len(stack') : AnyStep(i)
  <1>1. Len(stack') = 1 /\ stack'[1] = y /\ 1..1 = {1}
    OBVIOUS
  <1>. QED BY <1>1 DEF AnyStep

LEMMA CallsStep ==
  ASSUME WellFormed, NEW o \in held, NEW f,
         \/ f \in Fields /\ (Get(o, f) \/ RefValue(o, f))
         \/ Size(o) \/ Parent(o) \/ MarshalJSON(o)
  PROVE  \A i \in 1..Len(stack') : AnyStep(i)
  <1>1. o \in 1..Len(heap)
    BY DEF WellFormed
  <1>. DEFINE none == <<>>
  <1>2. ASSUME UNCHANGED stack PROVE \A i \in 1..Len(stack') : AnyStep(i)
    BY <1>2 DEF AnyStep
  <1>3. ASSUME f \in Fields, HasField(o, f), stack = <<>>, NEW op \in {"get", "ref"}, Enter(op, o, f, <<>>)
        PROVE  \A i \in 1..Len(stack') : AnyStep(i)
    <2>. DEFINE y == Start(op, heap, o, f, DefOf(o, f).lambda)
    <2>. HIDE DEF none
    <2>0. Enter(op, o, f, none)
      BY <1>3 DEF none
    <2>1. stack' = Append(none, y) /\ y.op = op /\ y.out = <<>>
      BY ONLY WellFormed, <1>1, <1>3, <2>0, EnterMoves
    <2>. HIDE DEF y
    <2>2. stack' = <<y>> /\ Called(y)
      BY <1>3, <2>1 DEF none, Called
    <2>. QED BY <2>2, CalledAlone
  <1>4. CASE f \in Fields /\ Get(o, f)
    <2>1. CASE Cached(o, f) # Unset
      BY <1>2, <1>4, <2>1 DEF Get
    <2>2. CASE Cached(o, f) = Unset
      <3>1. f \in Fields /\ HasField(o, f) /\ stack = <<>> /\ Enter("get", o, f, <<>>)
        BY <1>4, <2>2 DEF Get, Call
      <3>. QED BY <1>3, <3>1
    <2>. QED BY <2>1, <2>2
  <1>5. CASE f \in Fields /\ RefValue(o, f)
    <2>1. HasField(o, f) /\ stack = <<>> /\ Enter("ref", o, f, <<>>)
      BY <1>5 DEF RefValue, Call
    <2>. QED BY <1>3, <1>5, <2>1
  <1>6. CASE Size(o)
    <2>. DEFINE y == Start("size", heap, o, "none", SizeLambda[heap[o].struct])
    <2>1. stack = <<>> /\ stack' = <<y>> /\ y.op = "size" /\ y.out = <<>>
      BY <1>6 DEF Size, Start, Call
    <2>. HIDE DEF y
    <2>. QED BY <2>1, CalledAlone DEF Called
  <1>7. CASE Parent(o)
    BY <1>2, <1>7 DEF Parent
  <1>8. CASE MarshalJSON(o)
    <2>. DEFINE y == Marshal(heap, o)
    <2>1. stack = <<>> /\ stack' = <<y>> /\ y.out = <<>> /\ UNCHANGED <<heap, caches, arrays>>
      BY <1>1, <1>8, MarshalMoves DEF MarshalJSON, Call
    <2>2. Called(y)
      BY <1>1, <2>1 DEF Called
    <2>. HIDE DEF y
    <2>. QED BY <2>1, <2>2, CalledAlone
  <1>. QED BY <1>4, <1>5, <1>6, <1>7, <1>8

LEMMA NextSteps ==
  ASSUME WellFormed, [Next]_vars
  PROVE  \A i \in 1..Len(stack') : AnyStep(i)
  <1>. DEFINE n == Len(stack)
  <1>1. ASSUME stack # <<>>
        PROVE  n \in Nat /\ n > 0 /\ n \in 1..n /\ Top = stack[n] /\ Top \in Frame
    <2>1. n \in Nat /\ n > 0 /\ Top = stack[n] /\ Top \in Frame
      BY <1>1, Typed, TopParts
    <2>. QED BY <2>1
  <1>2. ASSUME UNCHANGED stack PROVE \A i \in 1..Len(stack') : AnyStep(i)
    BY <1>2 DEF AnyStep
  <1>3. ASSUME stack # <<>>, Len(stack') = n + 1, \A i \in 1..n - 1 : stack'[i] = stack[i],
               AnyStep(n), AnyStep(n + 1)
        PROVE  \A i \in 1..Len(stack') : AnyStep(i)
    <2>1. \A i \in 1..Len(stack') : i = n \/ i = n + 1 \/ (i \in 1..n - 1 /\ i \in 1..n)
      BY <1>1, <1>3
    <2>. QED BY <1>3, <2>1 DEF AnyStep
  <1>4. CASE Access
    <2>1. stack # <<>> /\ Top.paths # <<>> /\ Head(Top.paths) # <<>>
      BY <1>4, AccessMoves
    <2>2. PICK v : /\ stack' = Append(Below, Moved(Top, v))
                   /\ ValueOK(Len(heap), Len(arrays), v) /\ v # Unset
                   /\ Found(Top.at, Head(Head(Top.paths)), v)
      BY <1>4, AccessMoves
    <2>. DEFINE x == Moved(Top, v)
    <2>3. FrameOK(heap, Len(arrays), x)
      BY <2>1, <2>2, Parts, TopParts, MovedOK
    <2>4. Accessed(x)
      BY <1>4, <2>2 DEF Accessed
    <2>. HIDE DEF x
    <2>5. x \in Frame /\ stack' = Append(Below, x)
      BY <2>2, <2>3 DEF FrameOK, x
    <2>6. Len(stack') = n /\ stack'[n] = x
      BY <2>1, <2>5, Typed, ReplaceTop DEF Below
    <2>7. AnyStep(n)
      BY <2>1, <2>4, <2>6 DEF AnyStep
    <2>. QED BY <2>1, <2>5, <2>7, OnTop
  <1>5. CASE EndPath
    <2>. DEFINE x == Ended(Top, Encoded(Top.obj, Top.at))
    <2>1. /\ stack # <<>> /\ stack' = Append(Below, x) /\ FrameOK(heap, Len(arrays), x)
      BY <1>5, EndPathMoves
    <2>2. PathEnded(x)
      BY <1>5 DEF PathEnded
    <2>. HIDE DEF x
    <2>5. x \in Frame
      BY <2>1 DEF FrameOK
    <2>6. Len(stack') = n /\ stack'[n] = x
      BY <2>1, <2>5, Typed, ReplaceTop DEF Below
    <2>7. AnyStep(n)
      BY <2>1, <2>2, <2>6 DEF AnyStep
    <2>. QED BY <2>1, <2>5, <2>7, OnTop
  <1>6. CASE Descend
    <2>. DEFINE f == Head(Head(Top.paths))
                o == Top.at.obj
                y == Start("get", heap, o, f, DefOf(o, f).lambda)
    <2>1. /\ stack # <<>> /\ o \in 1..Len(heap) /\ f \in Fields
          /\ HasField(o, f) /\ Enter("get", o, f, stack) /\ "get" \in {"get", "ref"}
      BY <1>6, DescendMoves
    <2>. HIDE DEF f, o
    <2>2. stack' = Append(stack, y) /\ FrameOK(heap', Len(arrays), y) /\ y.op = "get" /\ y.out = <<>>
      BY ONLY WellFormed, <2>1, EnterMoves
    <2>. HIDE DEF y
    <2>4. Len(stack') = n + 1 /\ stack'[n + 1] = y /\ \A i \in 1..n : stack'[i] = stack[i]
      BY <2>2, Typed, AppendProperties DEF FrameOK
    <2>5. AnyStep(n + 1) /\ AnyStep(n)
      BY <1>1, <1>6, <2>1, <2>2, <2>4 DEF AnyStep
    <2>6. \A i \in 1..n - 1 : stack'[i] = stack[i]
      BY <1>1, <2>1, <2>4
    <2>. QED BY <1>3, <2>1, <2>4, <2>5, <2>6
  <1>7. CASE NextElement
    <2>. DEFINE s == DefOf(Top.obj, Top.field).of
    <2>1. stack # <<>> /\ (ElementFixed(s) \/ ElementMeasured(s))
      BY <1>7, NextElementMoves
    <2>. HIDE DEF s
    <2>5. CASE ElementFixed(s)
      <3>. DEFINE x == WithOut(Top, Append(Top.out, Len(heap) + 1), Top.left - 1)
      <3>1. x \in Frame /\ stack' = Append(Below, x)
        BY <2>5 DEF ElementFixed, FrameOK
      <3>. HIDE DEF x
      <3>2. Len(stack') = n /\ stack'[n] = x
        BY <2>1, <3>1, Typed, ReplaceTop DEF Below
      <3>3. AnyStep(n)
        BY <1>7, <3>2 DEF AnyStep, x
      <3>. QED BY <2>1, <3>1, <3>3, OnTop
    <2>6. CASE ElementMeasured(s)
      <3>. DEFINE x == WithOut(Top, Top.out, Top.left - 1)
                  y == Start("size", Append(heap, NewObject(s)), Len(heap) + 1, "none", SizeLambda[s])
      <3>1. x \in Frame /\ y \in Frame /\ stack' = Append(Append(Below, x), y)
            /\ y.op = "size" /\ y.obj = Len(heap) + 1
        BY <2>6 DEF ElementMeasured, FrameOK
      <3>. HIDE DEF x, y
      <3>3. Len(stack') = n + 1 /\ stack'[n] = x /\ stack'[n + 1] = y
            /\ \A i \in 1..n - 1 : stack'[i] = stack[i]
        BY <2>1, <3>1, OnTopOf
      <3>5. AnyStep(n) /\ AnyStep(n + 1)
        BY <1>7, <3>1, <3>3 DEF AnyStep, x
      <3>. QED BY <1>3, <2>1, <3>3, <3>5
    <2>. QED BY <2>1, <2>5, <2>6
  <1>8. CASE Encode
    <2>. DEFINE x == WithOut(Top, Tail(Top.out), Top.left)
                y == Marshal(heap, Head(Top.out))
    <2>1. /\ stack # <<>> /\ stack' = Append(Append(Below, x), y) /\ x \in Frame /\ y \in Frame
      BY <1>8, EncodeMoves DEF FrameOK
    <2>. HIDE DEF x, y
    <2>3. Len(stack') = n + 1 /\ stack'[n] = x /\ stack'[n + 1] = y
          /\ \A i \in 1..n - 1 : stack'[i] = stack[i]
      BY <2>1, OnTopOf
    <2>5. AnyStep(n) /\ AnyStep(n + 1)
      BY <1>8, <2>1, <2>3 DEF AnyStep, x, y
    <2>. QED BY <1>3, <2>1, <2>3, <2>5
  <1>9. CASE Finish
    <2>1. stack # <<>>
      BY <1>9, FinishHeap
    <2>2. CASE n = 1
      <3>1. Len(stack') = 0
        BY <1>9, <2>2, FinishStack, EmptySeq
      <3>. QED BY <3>1
    <2>3. CASE n # 1
      <3>. DEFINE lo == stack[n - 1]
                  x == Resumed(lo, Top, Result)
      <3>1. n > 1 /\ Len(stack') = n - 1 /\ stack'[n - 1] = x /\ \A i \in 1..n - 2 : stack'[i] = stack[i]
        BY <1>9, <2>3, FinishStack
      <3>2. Awaits(heap, lo, Top) /\ Returned(lo, x)
        BY <1>9, <3>1, ResumedMoves
      <3>. HIDE DEF x
      <3>4. AnyStep(n - 1)
        <4>1. n - 1 \in 1..n
          BY <1>1, <2>1, <3>1
        <4>. QED BY <1>9, <3>1, <3>2, <4>1 DEF AnyStep
      <3>5. \A i \in 1..Len(stack') : i = n - 1 \/ (i \in 1..n - 2 /\ i \in 1..n)
        BY <1>1, <2>1, <3>1
      <3>. QED BY <3>1, <3>4, <3>5 DEF AnyStep
    <2>. QED BY <2>2, <2>3
  <1>10. CASE Change \/ UNCHANGED vars
    BY <1>2, <1>10 DEF Change, vars
  <1>11. ASSUME NEW o \in held, NEW f,
               \/ f \in Fields /\ (Get(o, f) \/ RefValue(o, f))
               \/ Size(o) \/ Parent(o) \/ MarshalJSON(o)
        PROVE  \A i \in 1..Len(stack') : AnyStep(i)
    BY <1>11, CallsStep
  <1>. QED BY <1>4, <1>5, <1>6, <1>7, <1>8, <1>9, <1>10, <1>11 DEF Next, Step

-----------------------------------------------------------------------------
(* The elements of the arrays that are being parsed.                       *)

\* The elements that the j-th evaluation has made.
Brings(s, j) ==
    IF s[j].op \in {"get", "ref"} THEN Range(s[j].out)
    ELSE IF s[j].op = "size" /\ j > 1 THEN {s[j].obj} ELSE {}

(***************************************************************************)
(* They are structs of their own that no other evaluation has made, and    *)
(* have no parent yet, if no value field gives them one.                   *)
(***************************************************************************)
ElementOK(t, h, s, j, n) ==
    /\ n \in 1..Len(h) /\ h[n].orig = n
    /\ KeepsParent(t, h[n].struct) => h[n].parent = 0
    /\ \A i \in 1..j - 1 : \A m \in Brings(s, i) : m < n

Elements(t) == \A j \in 1..Len(stack) : \A n \in Brings(stack, j) : ElementOK(t, heap, stack, j, n)

\* Where an element was before the step.
LEMMA BringsStep ==
  ASSUME WellFormed, [Next]_vars, NEW j \in 1..Len(stack'), NEW n \in Brings(stack', j)
  PROVE  \/ j \in 1..Len(stack) /\ n \in Brings(stack, j)
         \/ j = Len(stack') /\ NextElement /\ n = Len(heap) + 1
         \/ /\ j = Len(stack') /\ Finish /\ Top.op = "size" /\ j + 1 = Len(stack) /\ j + 1 \in 1..Len(stack)
            /\ n \in Brings(stack, j + 1)
  <1>. DEFINE x == stack'[j]
              l == Len(stack)
  <1>1. AnyStep(j)
    BY NextSteps
  <1>0. ASSUME stack # <<>>
        PROVE  /\ l \in Nat /\ l > 0 /\ l \in 1..l /\ Top = stack[l] /\ Top \in Frame
               /\ FrameOK(heap, Len(arrays), Top)
    <2>1. l \in Nat /\ l > 0 /\ Top = stack[l] /\ Top \in Frame /\ FrameOK(heap, Len(arrays), Top)
      BY <1>0, Typed, TopParts
    <2>. QED BY <2>1
  <1>. HIDE DEF l
  <1>2. CASE j \in 1..l /\ x = stack[j]
    BY <1>2 DEF Brings, l
  <1>3. CASE j = l /\ stack # <<>> /\ (Accessed(x) \/ PathEnded(x))
    <2>1. x.op = Top.op /\ x.obj = Top.obj /\ (Top.op # "json" => x.out = Top.out)
      <3>1. CASE Accessed(x)
        <4>1. PICK v : x = Moved(Top, v)
          BY <3>1 DEF Accessed
        <4>. HIDE DEF x
        <4>. QED BY <1>0, <1>3, <4>1 DEF Moved, Frame
      <3>2. CASE PathEnded(x)
        <4>1. EndPath /\ x = Ended(Top, Encoded(Top.obj, Top.at))
          BY <3>2 DEF PathEnded
        <4>. HIDE DEF x
        <4>. QED BY <4>1, EndPathMoves
      <3>. QED BY <1>3, <3>1, <3>2
    <2>2. Top = stack[j] /\ j \in 1..l
      BY <1>0, <1>3
    <2>. QED BY <2>1, <2>2, FrameParts DEF Brings, l
  <1>4. CASE j = l /\ j = Len(stack') /\ NextElement
             /\ x = WithOut(Top, Append(Top.out, Len(heap) + 1), Top.left - 1)
    <2>1. stack # <<>> /\ InArray(Top) /\ Len(heap) \in Nat
      BY <1>4, NextElementMoves, Typed
    <2>2. Top.op \in {"get", "ref"} /\ Top.out \in Seq(Nat) /\ Top = stack[j] /\ j \in 1..l
      BY <1>0, <1>4, <2>1, ArrayParts, FrameParts
    <2>3. x.op = Top.op /\ x.out = Append(Top.out, Len(heap) + 1)
      BY <1>0, <1>4, <2>1 DEF WithOut, Frame
    <2>. HIDE DEF x
    <2>4. n \in Range(Append(Top.out, Len(heap) + 1))
      BY <2>2, <2>3 DEF Brings, x
    <2>5. n \in Range(Top.out) \cup {Len(heap) + 1}
      BY <2>1, <2>2, <2>4, RangeParts
    <2>. QED BY <1>4, <2>2, <2>5 DEF Brings, l
  <1>5. CASE j = l /\ NextElement /\ x = WithOut(Top, Top.out, Top.left - 1)
    <2>1. stack # <<>> /\ InArray(Top)
      BY <1>5, NextElementMoves
    <2>2. Top.op \in {"get", "ref"} /\ Top = stack[j] /\ j \in 1..l
      BY <1>0, <1>5, <2>1, ArrayParts
    <2>3. x.op = Top.op /\ x.out = Top.out
      BY <1>0, <1>5, <2>1 DEF WithOut, Frame
    <2>. QED BY <2>2, <2>3 DEF Brings, l
  <1>6. CASE j = l /\ Encode /\ x = WithOut(Top, Tail(Top.out), Top.left)
    <2>1. x.op = "json"
      BY <1>6, EncodeMoves
    <2>. QED BY <2>1 DEF Brings
  <1>7. CASE j = l + 1 /\ j = Len(stack') /\ Descend /\ x.op = "get" /\ x.out = <<>>
    BY <1>7, RangeParts DEF Brings
  <1>8. CASE j = l + 1 /\ j = Len(stack') /\ NextElement /\ x.op = "size" /\ x.obj = Len(heap) + 1
    BY <1>8 DEF Brings
  <1>9. CASE j = l + 1 /\ j = Len(stack') /\ Encode /\ x = Marshal(heap, Head(Top.out))
    <2>1. x.op = "json"
      BY <1>9, EncodeMoves
    <2>. QED BY <2>1 DEF Brings
  <1>10. CASE /\ j = l - 1 /\ j = Len(stack') /\ j \in 1..l /\ Finish
              /\ Returned(stack[j], x) /\ Awaits(heap, stack[j], Top)
    <2>0. stack # <<>>
      BY <1>10, FinishHeap
    <2>. DEFINE lo == stack[j]
    <2>1. FrameOK(heap, Len(arrays), lo) /\ lo \in Frame /\ j \in 1..Len(stack)
      BY <1>10 DEF WellFormed, StackOK, FrameOK, l
    <2>2. j + 1 = l /\ j + 1 \in 1..l /\ Top = stack[j + 1] /\ j + 1 > 1 /\ Top.obj \in Nat
      BY <1>0, <1>10, <2>0, FrameParts
    <2>. HIDE DEF x
    <2>3. CASE Top.op = "json" /\ x = lo
      BY <2>1, <2>3 DEF Brings, x
    <2>4. CASE Top.op = "size" /\ Result = Null /\ x = WithOut(lo, lo.out, 0)
      <3>1. x.op = lo.op /\ x.obj = lo.obj /\ x.out = lo.out
        BY <2>1, <2>4 DEF WithOut, Frame
      <3>. QED BY <2>1, <3>1 DEF Brings, x
    <2>5. CASE Top.op = "size" /\ Result # Null /\ x = WithOut(lo, Append(lo.out, Top.obj), lo.left)
      <3>1. x.op = lo.op /\ x.obj = lo.obj /\ x.out = Append(lo.out, Top.obj) /\ lo.out \in Seq(Nat)
        BY <2>1, <2>5, FrameParts DEF WithOut, Frame
      <3>2. Range(x.out) = Range(lo.out) \cup {Top.obj}
        BY <2>2, <3>1, RangeParts
      <3>3. Brings(stack, j + 1) = {Top.obj}
        BY <2>2, <2>5 DEF Brings
      <3>. QED BY <1>10, <2>1, <2>2, <2>5, <3>1, <3>2, <3>3 DEF Brings, x, l
    <2>6. CASE Top.op = "get" /\ lo.paths # <<>> /\ Head(lo.paths) # <<>> /\ x = Moved(lo, Result)
      <3>1. x.op = lo.op /\ x.obj = lo.obj /\ x.out = lo.out
        BY <2>1, <2>6 DEF Moved, Frame
      <3>. QED BY <2>1, <3>1 DEF Brings, x
    <2>. QED BY <1>10, <2>3, <2>4, <2>5, <2>6 DEF Returned
  <1>11. CASE j = 1 /\ j = Len(stack') /\ Called(x)
    BY <1>11, RangeParts DEF Brings, Called
  <1>. QED BY <1>1, <1>2, <1>3, <1>4, <1>5, <1>6, <1>7, <1>8, <1>9, <1>10, <1>11 DEF AnyStep, l

(***************************************************************************)
(* A struct that no value field answers is given a parent with the array   *)
(* it is an element of, and at no other time but when it is made.          *)
(***************************************************************************)
LEMMA ParentKept ==
  ASSUME WellFormed, NEW t, Ranked(t), NEW R, RoledHeap(t, R, heap, caches, arrays),
         RoledStack(t, R, arrays, stack), [Next]_vars,
         NEW o \in 1..Len(heap), heap[o].orig = o, KeepsParent(t, heap[o].struct)
  PROVE  \/ heap'[o].parent = heap[o].parent
         \/ Finish /\ Top.op = "get" /\ Kind(Top) = "array" /\ o \in Range(Top.out)
  <1>1. CASE Quiet
    BY <1>1 DEF Quiet
  <1>2. CASE Finish /\ Top.op = "get"
    <2>1. /\ stack # <<>> /\ o \in 1..Len(heap') /\ Len(heap) \in Nat
          /\ heap'[o].parent = IF o \in Adopted(Result) THEN Top.obj ELSE heap[o].parent
      <3>1. stack # <<>> /\ Len(heap) \in Nat /\ Grows(heap, heap') /\ MadeHeap[o] = heap[o]
        BY <1>2, FinishHeap, MadeHeapOK, Typed
      <3>2. heap' \in Seq(StructObject) /\ o \in 1..Len(heap')
        BY <1>2, <3>1, FinishHeap DEF Grows
      <3>. QED BY <1>2, <3>1, <3>2, FinishHeap DEF Taken
    <2>2. /\ Kind(Top) = KindOf(heap, Top.obj, Top.field) /\ Kind(Top) \in {"int", "struct", "array", "value"}
          /\ Top.field \in Fields
      BY <1>2, <2>1, KindParts
    <2>. SUFFICES ASSUME o \in Adopted(Result) PROVE Kind(Top) = "array" /\ o \in Range(Top.out)
      BY <1>2, <2>1
    <2>3. CASE Kind(Top) = "int"
      BY <2>1, <2>3, ResultParts DEF Adopted
    <2>4. CASE Kind(Top) = "struct"
      <3>1. Adopted(Result) = {Len(heap) + 1}
        BY <2>1, <2>4, ResultParts, ValueTypes DEF Adopted
      <3>. QED BY <2>1, <3>1
    <2>5. CASE Kind(Top) = "array"
      <3>1. Result = Array(Len(arrays) + 1) /\ Len(arrays) + 1 \in Nat /\ arrays'[Len(arrays) + 1] = Top.out
        BY <1>2, <2>1, <2>5, ResultParts, FinishArrays, Typed
      <3>2. Adopted(Result) = Range(Top.out)
        BY <3>1, ValueTypes DEF Adopted
      <3>. QED BY <2>5, <3>2
    <2>6. CASE Kind(Top) = "value"
      <3>. DEFINE w == By(R, Top)
                  s == heap[Top.obj].struct
                  A == t.answers[w]
      <3>1. Inside(At(R, A), arrays', Result)
        BY <1>2, <2>1, <2>6, ExtendsSelf, ResultRoled
      <3>2. w = <<s, Top.field>> /\ s \in Structs
        BY <2>1, TopRoles, Parts, ObjectType
      <3>. HIDE DEF A
      <3>3. o \in At(R, A)
        BY <3>1 DEF Adopted, Inside
      <3>4. R[o] = <<heap[o].struct, "orig">>
        BY DEF RoledHeap, RoledObject
      <3>5. <<heap[o].struct, "orig">> \in t.answers[<<s, Top.field>>]
        BY <3>2, <3>3, <3>4 DEF At, A
      <3>6. Def[s][Top.field].kind = "value"
        BY <2>2, <2>6 DEF KindOf
      <3>. QED BY <2>2, <3>2, <3>5, <3>6 DEF KeepsParent
    <2>. QED BY <2>2, <2>3, <2>4, <2>5, <2>6
  <1>. QED BY <1>1, <1>2, StepsQuiet

LEMMA NextElements ==
  ASSUME WellFormed, NEW t, Ranked(t), NEW R, RoledHeap(t, R, heap, caches, arrays),
         RoledStack(t, R, arrays, stack), Elements(t), [Next]_vars
  PROVE  Elements(t)'
  <1>0. /\ Len(stack) \in Nat /\ Len(heap) \in Nat /\ Grows(heap, heap')
        /\ HeapOK(heap, Len(caches)) /\ heap \in Seq(StructObject)
    BY Typed, MapsStay
  <1>. SUFFICES ASSUME NEW j \in 1..Len(stack'), NEW n \in Brings(stack', j)
                PROVE  ElementOK(t, heap', stack', j, n)
    BY DEF Elements
  \* A struct that was made before.
  <1>1. ASSUME NEW k \in 1..Len(stack), n \in Brings(stack, k),
               Finish /\ Top.op = "get" => k < Len(stack)
        PROVE  /\ n \in 1..Len(heap') /\ heap'[n].orig = n /\ n <= Len(heap)
               /\ KeepsParent(t, heap'[n].struct) => heap'[n].parent = 0
    <2>1. ElementOK(t, heap, stack, k, n)
      BY <1>1 DEF Elements
    <2>2. n \in 1..Len(heap) /\ heap[n].orig = n /\ (KeepsParent(t, heap[n].struct) => heap[n].parent = 0)
      BY <2>1 DEF ElementOK
    <2>3. n \in Nat /\ n <= Len(heap) /\ heap'[n].orig = n /\ heap'[n].struct = heap[n].struct
          /\ Len(heap) <= Len(heap')
      BY <1>0, <2>2 DEF Grows
    <2>4. ASSUME KeepsParent(t, heap[n].struct), heap'[n].parent # heap[n].parent
          PROVE  FALSE
      <3>1. Finish /\ Top.op = "get" /\ Kind(Top) = "array" /\ n \in Range(Top.out)
        BY <2>2, <2>4, ParentKept
      <3>2. stack # <<>> /\ Top = stack[Len(stack)] /\ Len(stack) > 0
        BY <3>1, FinishHeap, TopParts
      <3>3. Len(stack) \in 1..Len(stack) /\ n \in Brings(stack, Len(stack)) /\ k \in 1..Len(stack) - 1
        BY <1>0, <1>1, <3>1, <3>2 DEF Brings
      <3>4. n < n
        BY <1>1, <3>3 DEF Elements, ElementOK
      <3>. QED BY <2>3, <3>4
    <2>5. n \in 1..Len(heap')
      <3>1. heap' \in Seq(StructObject)
        BY <1>0, MapsStay, StepsQuiet, FinishHeap DEF Quiet, HeapOK
      <3>. QED BY <2>2, <2>3, <3>1
    <2>. QED BY <2>2, <2>3, <2>4, <2>5
  \* The elements of the evaluations below.
  <1>2. ASSUME NEW i \in 1..j - 1, NEW m \in Brings(stack', i)
        PROVE  i \in 1..Len(stack) /\ m \in Brings(stack, i) /\ m \in Nat /\ m <= Len(heap)
    <2>1. i \in 1..Len(stack') /\ i # Len(stack') /\ Len(stack') \in Nat
      <3>1. Len(stack') \in Nat
        OBVIOUS
      <3>. QED BY <3>1
    <2>2. i \in 1..Len(stack) /\ m \in Brings(stack, i)
      BY <2>1, BringsStep
    <2>3. m \in 1..Len(heap)
      BY <2>2 DEF Elements, ElementOK
    <2>. QED BY <1>0, <2>2, <2>3
  <1>3. CASE j \in 1..Len(stack) /\ n \in Brings(stack, j)
    <2>1. Finish => j < Len(stack)
      <3>. SUFFICES ASSUME Finish PROVE j < Len(stack)
        OBVIOUS
      <3>1. Len(stack) = 1 => Len(stack') = 0
        BY FinishStack, EmptySeq
      <3>2. Len(stack) # 1 => Len(stack') = Len(stack) - 1
        BY FinishStack
      <3>. QED BY <1>0, <3>1, <3>2
    <2>2. ASSUME NEW i \in 1..j - 1, NEW m \in Brings(stack', i) PROVE m < n
      <3>1. m \in Brings(stack, i)
        BY <1>2
      <3>. QED BY <1>3, <3>1 DEF Elements, ElementOK
    <2>. QED BY <1>1, <1>3, <2>1, <2>2 DEF ElementOK
  <1>4. CASE j = Len(stack') /\ NextElement /\ n = Len(heap) + 1
    <2>1. /\ heap'[n] = NewObject(DefOf(Top.obj, Top.field).of) /\ heap' \in Seq(StructObject)
          /\ ElementFixed(DefOf(Top.obj, Top.field).of) \/ ElementMeasured(DefOf(Top.obj, Top.field).of)
      BY <1>4, NextElementMoves
    <2>2. n \in 1..Len(heap')
      BY <1>0, <1>4, <2>1 DEF ElementFixed, ElementMeasured
    <2>3. heap'[n].orig = n /\ heap'[n].parent = 0
      BY <1>4, <2>1 DEF NewObject
    <2>4. ASSUME NEW i \in 1..j - 1, NEW m \in Brings(stack', i) PROVE m < n
      BY <1>0, <1>2, <1>4
    <2>. QED BY <2>2, <2>3, <2>4 DEF ElementOK
  <1>5. CASE /\ j = Len(stack') /\ Finish /\ Top.op = "size" /\ j + 1 = Len(stack) /\ j + 1 \in 1..Len(stack)
             /\ n \in Brings(stack, j + 1)
    <2>1. ASSUME NEW i \in 1..j - 1, NEW m \in Brings(stack', i) PROVE m < n
      <3>1. m \in Brings(stack, i) /\ i \in 1..(j + 1) - 1
        BY <1>2, <1>5
      <3>. QED BY <1>5, <3>1 DEF Elements, ElementOK
    <2>. QED BY <1>1, <1>5, <2>1 DEF ElementOK
  <1>. QED BY <1>3, <1>4, <1>5, BringsStep

-----------------------------------------------------------------------------
(* The fields that answer their argument, or its parent.                   *)

This(s, f) == Def[s][f].kind = "value" /\ Def[s][f].lambda = <<<<>>>>

Up(t, s, f) ==
    Def[s][f].kind = "value" /\ Def[s][f].lambda = <<<<"Parent">>>> /\ KeepsParent(t, s)

(***************************************************************************)
(* What such a field of o answers: a copy of the struct, and nothing or    *)
(* the parent the struct has, which will be its parent for good.           *)
(***************************************************************************)
AnswerOK(t, h, o, f, v) ==
    /\ This(h[o].struct, f) => v.type = "object" /\ v.obj \in 1..Len(h) /\ h[v.obj].orig = h[o].orig
    /\ Up(t, h[o].struct, f) =>
          v = Null \/ (h[h[o].orig].parent # 0 /\ v = Object(h[h[o].orig].parent))

Settled(t) ==
    \A o \in 1..Len(heap), f \in Fields : \A v :
        heap[o].orig = o /\ Reads(heap, caches, o, f, v) => AnswerOK(t, heap, o, f, v)

\* How far the evaluation of such a field has come.
AnsweringOK(t, h, fr) ==
    fr.op = "get" =>
      /\ This(h[fr.obj].struct, fr.field) =>
            \/ fr.paths = <<<<>>>> /\ fr.at = Object(fr.copy)
            \/ fr.paths = <<>> /\ AnswerOK(t, h, fr.obj, fr.field, fr.last)
      /\ Up(t, h[fr.obj].struct, fr.field) =>
            \/ /\ fr.paths = <<<<"Parent">>>> /\ fr.at = Object(fr.copy)
               /\ h[fr.copy].parent = h[h[fr.obj].orig].parent
            \/ fr.paths = <<<<>>>> /\ AnswerOK(t, h, fr.obj, fr.field, fr.at)
            \/ fr.paths = <<>> /\ AnswerOK(t, h, fr.obj, fr.field, fr.last)

Answering(t) == \A i \in 1..Len(stack) : AnsweringOK(t, heap, stack[i])

LEMMA OnlyOneOf ==
  ASSUME NEW t, NEW s, NEW f
  PROVE  /\ ~(This(s, f) /\ Up(t, s, f))
         /\ Head(<<<<>>>>) = <<>> /\ Tail(<<<<>>>>) = <<>> /\ <<<<>>>> # <<>>
         /\ Head(<<<<"Parent">>>>) = <<"Parent">> /\ <<"Parent">> # <<>>
         /\ Head(<<"Parent">>) = "Parent" /\ Tail(<<"Parent">>) = <<>>
         /\ [<<<<"Parent">>>> EXCEPT ![1] = <<>>] = <<<<>>>>
  <1>1. <<"Parent">> # <<>> /\ Len(<<"Parent">>) = 1
    OBVIOUS
  <1>2. <<<<>>>> # <<<<"Parent">>>>
    <2>. DEFINE a == <<"Parent">>
                b == <<>>
    <2>1. a # b
      BY <1>1
    <2>. HIDE DEF a, b
    <2>2. <<a>>[1] = a /\ <<b>>[1] = b
      OBVIOUS
    <2>3. <<a>> # <<b>>
      BY <2>1, <2>2
    <2>. QED BY <2>3 DEF a, b
  <1>. QED BY <1>1, <1>2 DEF This, Up

LEMMA AnswerStays ==
  ASSUME WellFormed, NEW t, Ranked(t), NEW R, RoledHeap(t, R, heap, caches, arrays),
         RoledStack(t, R, arrays, stack), Elements(t), [Next]_vars,
         NEW o \in 1..Len(heap), NEW f \in Fields, NEW v, AnswerOK(t, heap, o, f, v)
  PROVE  AnswerOK(t, heap', o, f, v)
  <1>0. /\ Len(heap) \in Nat /\ Grows(heap, heap') /\ HeapOK(heap, Len(caches)) /\ Len(stack) \in Nat
    BY Typed, MapsStay
  <1>1. heap[o].orig \in 1..Len(heap) /\ heap[heap[o].orig].orig = heap[o].orig
        /\ heap[heap[o].orig].struct = heap[o].struct
    BY <1>0, ObjectType DEF HeapOK, ObjectOK
  <1>2. heap'[o].struct = heap[o].struct /\ heap'[o].orig = heap[o].orig
    BY <1>0 DEF Grows
  <1>3. ASSUME This(heap[o].struct, f)
        PROVE  v.type = "object" /\ v.obj \in 1..Len(heap') /\ heap'[v.obj].orig = heap[o].orig
    <2>1. v.type = "object" /\ v.obj \in 1..Len(heap) /\ heap[v.obj].orig = heap[o].orig
      BY <1>3 DEF AnswerOK
    <2>2. v.obj \in 1..Len(heap') /\ heap'[v.obj].orig = heap[v.obj].orig
      <3>1. Len(heap') \in Nat
        BY <1>0, MapsStay, StepsQuiet, FinishHeap DEF Quiet, HeapOK
      <3>. QED BY <1>0, <2>1, <3>1 DEF Grows
    <2>. QED BY <2>1, <2>2
  <1>4. ASSUME Up(t, heap[o].struct, f), v # Null
        PROVE  heap'[heap[o].orig].parent # 0 /\ v = Object(heap'[heap[o].orig].parent)
    <2>. DEFINE p == heap[o].orig
    <2>1. heap[p].parent # 0 /\ v = Object(heap[p].parent) /\ KeepsParent(t, heap[p].struct)
      BY <1>1, <1>4 DEF AnswerOK, Up
    <2>2. p \in 1..Len(heap) /\ heap[p].orig = p
      BY <1>1
    <2>. HIDE DEF p
    <2>3. ASSUME Finish, Top.op = "get", p \in Range(Top.out) PROVE FALSE
      <3>1. stack # <<>> /\ Top = stack[Len(stack)] /\ Len(stack) > 0
        BY <2>3, FinishHeap, TopParts
      <3>2. Len(stack) \in 1..Len(stack) /\ p \in Brings(stack, Len(stack))
        BY <1>0, <2>3, <3>1 DEF Brings
      <3>. QED BY <2>1, <3>2 DEF Elements, ElementOK
    <2>4. heap'[p].parent = heap[p].parent
      BY <2>1, <2>2, <2>3, ParentKept
    <2>. QED BY <2>1, <2>4 DEF p
  <1>. QED BY <1>2, <1>3, <1>4 DEF AnswerOK

\* The evaluation of such a field waits for no other.
LEMMA NeverWaits ==
  ASSUME NEW h, NEW m, NEW lo, FrameOK(h, m, lo), NEW hi, FrameOK(h, m, hi), Awaits(h, lo, hi),
         NEW t, AnsweringOK(t, h, lo), lo.op = "get"
  PROVE  ~This(h[lo.obj].struct, lo.field) /\ ~Up(t, h[lo.obj].struct, lo.field)
  <1>. SUFFICES ASSUME This(h[lo.obj].struct, lo.field) \/ Up(t, h[lo.obj].struct, lo.field)
                PROVE  FALSE
    OBVIOUS
  <1>1. lo.paths = <<<<"Parent">>>> \/ lo.paths = <<<<>>>> \/ lo.paths = <<>>
    BY DEF AnsweringOK
  <1>2. KindOf(h, lo.obj, lo.field) = "value"
    BY DEF This, Up, KindOf
  <1>3. /\ hi.op = "get" /\ lo.paths # <<>> /\ Head(lo.paths) # <<>> /\ Head(Head(lo.paths)) = hi.field
    BY <1>2 DEF Awaits
  <1>4. hi.field \in Fields
    BY <1>3 DEF FrameOK
  <1>5. lo.paths = <<<<"Parent">>>>
    BY <1>1, <1>3, OnlyOneOf
  <1>6. "Parent" \in Fields
    BY <1>3, <1>4, <1>5, OnlyOneOf
  <1>. QED BY <1>6, StructAssumption

LEMMA EnteredAnswering ==
  ASSUME WellFormed, NEW t, NEW x, Entered(x)
  PROVE  AnsweringOK(t, heap', x)
  <1>1. /\ x.obj \in 1..Len(heap) /\ x.paths = DefOf(x.obj, x.field).lambda
        /\ HeapOK(heap', Len(caches')) /\ Grows(heap, heap')
        /\ x.paths # <<>> => /\ x.copy = Len(heap')
                             /\ heap'[Len(heap')] = heap'[heap[x.obj].orig]
                             /\ x.at = Object(Len(heap'))
    BY NewGetParts
  <1>2. heap'[x.obj].struct = heap[x.obj].struct /\ heap'[x.obj].orig = heap[x.obj].orig
    BY <1>1 DEF Grows
  <1>3. This(heap[x.obj].struct, x.field) => x.paths = <<<<>>>>
    BY <1>1 DEF This, DefOf
  <1>4. Up(t, heap[x.obj].struct, x.field) => x.paths = <<<<"Parent">>>>
    BY <1>1 DEF Up, DefOf
  <1>5. <<<<>>>> # <<>> /\ <<<<"Parent">>>> # <<>>
    OBVIOUS
  <1>6. x.paths # <<>> => x.at = Object(x.copy) /\ heap'[x.copy].parent = heap'[heap[x.obj].orig].parent
    BY <1>1
  <1>. QED BY <1>2, <1>3, <1>4, <1>5, <1>6 DEF AnsweringOK

\* The top after an access.
LEMMA AccessedAnswering ==
  ASSUME WellFormed, NEW t, NEW x, Accessed(x), Top.op = "get", AnsweringOK(t, heap, Top)
  PROVE  AnsweringOK(t, heap', x)
  <1>. DEFINE fr == Top
              s == heap[fr.obj].struct
  <1>1. PICK v : /\ Access /\ x = Moved(fr, v) /\ ValueOK(Len(heap), Len(arrays), v) /\ v # Unset
                 /\ Found(fr.at, Head(Head(fr.paths)), v)
    BY DEF Accessed
  <1>2. /\ fr.paths # <<>> /\ Head(fr.paths) # <<>> /\ fr \in Frame
        /\ FrameOK(heap, Len(arrays), fr) /\ UNCHANGED heap
    BY <1>1, AccessMoves, TopParts
  <1>3. AnsweringOK(t, heap, fr) /\ fr.op = "get"
    OBVIOUS
  <1>. HIDE DEF fr
  <1>4. x.op = fr.op /\ x.obj = fr.obj /\ x.field = fr.field /\ x.copy = fr.copy /\ x.at = v
    BY <1>1, <1>2, MovedParts
  <1>5. ~This(s, fr.field)
    <2>. SUFFICES ASSUME This(s, fr.field) PROVE FALSE
      OBVIOUS
    <2>1. fr.paths = <<<<>>>>
      BY <1>2, <1>3 DEF AnsweringOK
    <2>. QED BY <1>2, <2>1, OnlyOneOf
  <1>6. ASSUME Up(t, s, fr.field)
        PROVE  x.paths = <<<<>>>> /\ AnswerOK(t, heap, fr.obj, fr.field, v)
    <2>. DEFINE p == heap[heap[fr.obj].orig].parent
    <2>1. fr.paths = <<<<"Parent">>>> /\ fr.at = Object(fr.copy) /\ heap[fr.copy].parent = p
      BY <1>2, <1>3, <1>6, OnlyOneOf DEF AnsweringOK
    <2>2. Head(Head(fr.paths)) = "Parent" /\ "Parent" \notin Fields
      BY <2>1, OnlyOneOf, StructAssumption
    <2>3. fr.at.type = "object" /\ fr.at.obj = fr.copy
      BY <2>1 DEF Object
    <2>4. v = IF p = 0 THEN Null ELSE Object(p)
      BY <1>1, <2>1, <2>2, <2>3 DEF Found
    <2>5. x.paths = <<<<>>>>
      <3>1. x.paths = [fr.paths EXCEPT ![1] = Tail(@)]
        BY <1>1, <1>2 DEF Moved, Frame
      <3>2. <<<<"Parent">>>>[1] = <<"Parent">>
        OBVIOUS
      <3>. QED BY <2>1, <3>1, <3>2, OnlyOneOf
    <2>6. v = Null \/ (p # 0 /\ v = Object(p))
      BY <2>4
    <2>. QED BY <1>5, <2>5, <2>6 DEF AnswerOK
  <1>. QED BY <1>2, <1>4, <1>5, <1>6 DEF AnsweringOK

\* The top after the end of a path.
LEMMA EndedAnswering ==
  ASSUME WellFormed, NEW t, NEW x, PathEnded(x), Top.op = "get", AnsweringOK(t, heap, Top)
  PROVE  AnsweringOK(t, heap', x)
  <1>. DEFINE fr == Top
              s == heap[fr.obj].struct
  <1>1. /\ fr.paths # <<>> /\ Head(fr.paths) = <<>> /\ UNCHANGED heap /\ stack # <<>>
        /\ x.op = fr.op /\ x.obj = fr.obj /\ x.field = fr.field /\ x.copy = fr.copy
        /\ x.last = fr.at /\ x.paths = Tail(fr.paths)
    BY EndPathMoves DEF PathEnded
  <1>2. FrameOK(heap, Len(arrays), fr) /\ fr \in Frame /\ AnsweringOK(t, heap, fr) /\ fr.op = "get"
    BY <1>1, TopParts
  <1>. HIDE DEF fr
  <1>3. ASSUME This(s, fr.field)
        PROVE  x.paths = <<>> /\ AnswerOK(t, heap, x.obj, x.field, x.last)
    <2>1. fr.paths = <<<<>>>> /\ fr.at = Object(fr.copy)
      BY <1>1, <1>2, <1>3 DEF AnsweringOK
    <2>2. /\ fr.at.type = "object" /\ fr.at.obj = fr.copy /\ fr.copy \in 1..Len(heap)
          /\ heap[fr.copy].orig = heap[fr.obj].orig
      BY <1>1, <1>2, <2>1, Typed, FrameParts DEF FrameOK, Object
    <2>. QED BY <1>1, <1>3, <2>1, <2>2, OnlyOneOf DEF AnswerOK
  <1>4. ASSUME Up(t, s, fr.field)
        PROVE  x.paths = <<>> /\ AnswerOK(t, heap, x.obj, x.field, x.last)
    <2>1. fr.paths = <<<<>>>> /\ AnswerOK(t, heap, fr.obj, fr.field, fr.at)
      BY <1>1, <1>2, <1>4, OnlyOneOf DEF AnsweringOK
    <2>. QED BY <1>1, <2>1, OnlyOneOf
  <1>. QED BY <1>1, <1>3, <1>4 DEF AnsweringOK

LEMMA NextAnswering ==
  ASSUME WellFormed, NEW t, Ranked(t), NEW R, RoledHeap(t, R, heap, caches, arrays),
         RoledStack(t, R, arrays, stack), Elements(t), Answering(t), [Next]_vars
  PROVE  Answering(t)'
  <1>. SUFFICES ASSUME NEW i \in 1..Len(stack'), stack'[i].op = "get"
                PROVE  AnsweringOK(t, heap', stack'[i])
    BY DEF Answering, AnsweringOK
  <1>1. FrameStep(i)
    BY StackSteps
  <1>2. CASE Entered(stack'[i])
    BY <1>2, EnteredAnswering
  <1>3. CASE ~Entered(stack'[i])
    <2>. DEFINE fr == stack[i]
                x == stack'[i]
                s == heap[fr.obj].struct
    <2>1. /\ i \in 1..Len(stack) /\ fr.op = "get" /\ FrameOK(heap, Len(arrays), fr)
          /\ x.obj = fr.obj /\ x.field = fr.field /\ x.copy = fr.copy
      BY <1>1, <1>3, SameEvaluation
    <2>2. AnsweringOK(t, heap, fr) /\ Len(stack) \in Nat /\ Grows(heap, heap') /\ fr.obj \in 1..Len(heap)
      BY <2>1, Typed, MapsStay DEF Answering, FrameOK
    <2>3. heap'[fr.obj].struct = s /\ heap'[fr.obj].orig = heap[fr.obj].orig
          /\ heap[fr.obj].orig \in 1..Len(heap) /\ fr.field \in Fields
      BY <2>1, <2>2, Parts, ObjectType DEF Grows, FrameOK
    <2>4. ASSUME This(s, fr.field) \/ Up(t, s, fr.field)
          PROVE  i = Len(stack)
      <3>. SUFFICES ASSUME i # Len(stack) PROVE FALSE
        OBVIOUS
      <3>1. i + 1 \in 1..Len(stack) /\ i + 1 > 1 /\ (i + 1) - 1 = i
        BY <2>1, <2>2
      <3>2. Awaits(heap, fr, stack[i + 1]) /\ FrameOK(heap, Len(arrays), stack[i + 1])
        BY <3>1, Parts DEF StackOK
      <3>. QED BY <2>1, <2>2, <2>4, <3>2, NeverWaits
    <2>5. CASE ~This(s, fr.field) /\ ~Up(t, s, fr.field)
      BY <2>1, <2>3, <2>5 DEF AnsweringOK
    <2>6. CASE (This(s, fr.field) \/ Up(t, s, fr.field)) /\ SameCore(x, fr)
      <3>1. i = Len(stack)
        BY <2>4, <2>6
      <3>2. Quiet
        <4>. SUFFICES ASSUME Finish PROVE FALSE
          BY StepsQuiet
        <4>1. Len(stack) = 1 => Len(stack') = 0
          BY FinishStack, EmptySeq
        <4>2. Len(stack) # 1 => Len(stack') = Len(stack) - 1
          BY FinishStack
        <4>3. i <= Len(stack') /\ i >= 1
          OBVIOUS
        <4>. QED BY <2>2, <3>1, <4>1, <4>2, <4>3
      <3>3. \A v : AnswerOK(t, heap, fr.obj, fr.field, v) => AnswerOK(t, heap', fr.obj, fr.field, v)
        BY <2>2, <2>3, AnswerStays
      <3>4. fr.paths # <<>> => fr.copy \in 1..Len(heap)
        BY <2>1, Typed, FrameParts DEF FrameOK
      <3>5. fr.paths # <<>> => heap'[fr.copy].parent = heap[fr.copy].parent
        BY <3>2, <3>4 DEF Quiet
      <3>6. heap'[heap[fr.obj].orig].parent = heap[heap[fr.obj].orig].parent
        BY <2>3, <3>2 DEF Quiet
      <3>7. x.op = fr.op /\ x.paths = fr.paths /\ x.at = fr.at /\ x.last = fr.last
        BY <2>6 DEF SameCore
      <3>8. <<<<"Parent">>>> # <<>>
        OBVIOUS
      <3>. HIDE DEF x, fr
      <3>9. AnsweringOK(t, heap', x)
        BY <2>1, <2>2, <2>3, <3>3, <3>5, <3>6, <3>7, <3>8 DEF AnsweringOK
      <3>. QED BY <3>9 DEF x
    <2>7. CASE i = Len(stack) /\ (Accessed(x) \/ PathEnded(x))
      <3>1. Top = fr
        BY <2>7 DEF Top
      <3>. QED BY <2>1, <2>2, <2>7, <3>1, AccessedAnswering, EndedAnswering
    <2>8. CASE Answered(fr, x)
      <3>1. Awaits(heap, fr, Top) /\ Finish
        BY <2>8 DEF Answered
      <3>2. FrameOK(heap, Len(arrays), Top)
        BY <3>1, FinishHeap, TopParts
      <3>3. ~This(s, fr.field) /\ ~Up(t, s, fr.field)
        BY <2>1, <2>2, <3>1, <3>2, NeverWaits
      <3>. QED BY <2>5, <3>3
    <2>. QED BY <1>1, <1>3, <2>5, <2>6, <2>7, <2>8 DEF FrameStep
  <1>. QED BY <1>2, <1>3

LEMMA NextSettled ==
  ASSUME WellFormed, NEW t, Ranked(t), NEW R, RoledHeap(t, R, heap, caches, arrays),
         RoledStack(t, R, arrays, stack), Elements(t), Answering(t), Settled(t), [Next]_vars
  PROVE  Settled(t)'
  <1>. SUFFICES ASSUME NEW o \in 1..Len(heap'), NEW f \in Fields, NEW v,
                       heap'[o].orig = o, Reads(heap', caches', o, f, v)
                PROVE  AnswerOK(t, heap', o, f, v)
    BY DEF Settled
  <1>1. /\ Len(heap) \in Nat /\ Grows(heap, heap') /\ HeapOK(heap, Len(caches)) /\ Len(caches) \in Nat
        /\ heap'[o].cache # 0 /\ v # Unset /\ v = caches'[heap'[o].cache][f]
    BY Typed, MapsStay DEF Reads
  <1>2. o \in 1..Len(heap)
    <2>1. CASE Quiet
      <3>1. Len(heap') \in Nat
        BY <2>1 DEF Quiet, HeapOK
      <3>2. ~(o > Len(heap))
        BY <1>1, <2>1 DEF Quiet
      <3>. QED BY <1>1, <3>1, <3>2
    <2>2. CASE Finish
      <3>1. stack # <<>> /\ Len(heap') = Len(MadeHeap) /\ (Kind(Top) = "struct" => heap'[Len(heap) + 1].cache = 0)
        BY <2>2, FinishHeap
      <3>2. Kind(Top) # "struct" => Len(heap') = Len(heap)
        BY <3>1, MadeHeapOK
      <3>3. Kind(Top) = "struct" => Len(heap') = Len(heap) + 1
        BY <3>1, MadeHeapOK
      <3>4. Len(heap') = Len(heap) + 1 => o \in 1..Len(heap) \/ o = Len(heap) + 1
        BY <1>1
      <3>. QED BY <1>1, <3>1, <3>2, <3>3, <3>4
    <2>. QED BY <2>1, <2>2, StepsQuiet
  <1>3. heap[o].orig = o /\ heap[o].struct = heap'[o].struct
    BY <1>1, <1>2 DEF Grows
  <1>. SUFFICES AnswerOK(t, heap, o, f, v)
    BY <1>2, AnswerStays
  <1>4. CASE Reads(heap, caches, o, f, v)
    BY <1>2, <1>3, <1>4 DEF Settled
  <1>5. CASE ~Reads(heap, caches, o, f, v)
    <2>1. CASE Quiet
      <3>1. CASE heap'[o].cache = heap[o].cache
        <4>1. heap[o].cache \in 1..Len(caches)
          BY <1>1, <1>2, <3>1, MapsStay
        <4>. QED BY <1>1, <1>5, <2>1, <3>1, <4>1 DEF Quiet, Reads
      <3>2. CASE heap'[o].cache > Len(caches)
        <4>1. heap'[o].cache \in 1..Len(caches') /\ HeapOK(heap', Len(caches')) /\ Len(caches') \in Nat
          <5>1. HeapOK(heap', Len(caches')) /\ Len(caches') \in Nat
            BY <2>1 DEF Quiet
          <5>2. heap'[o].cache \in 0..Len(caches')
            BY <5>1, ObjectType
          <5>. QED BY <1>1, <5>1, <5>2
        <4>2. v = Unset
          BY <1>1, <2>1, <3>2, <4>1 DEF Quiet, Blank
        <4>. QED BY <1>1, <4>2
      <3>. QED BY <1>2, <2>1, <3>1, <3>2 DEF Quiet
    <2>2. CASE Finish /\ Top.op = "get"
      <3>1. /\ stack # <<>> /\ Top.paths = <<>> /\ heap'[o].cache = heap[o].cache
            /\ Top = stack[Len(stack)] /\ Len(stack) > 0 /\ Top.obj \in 1..Len(heap)
            /\ FrameOK(heap, Len(arrays), Top)
        BY <1>2, <2>2, FinishHeap, TopParts
      <3>2. heap[o].cache \in 1..Len(caches)
        BY <1>1, <1>2, <3>1, MapsStay
      <3>3. heap[o].cache = heap[Top.obj].cache /\ f = Top.field /\ v = Result
        <4>. SUFFICES ASSUME ~(heap[o].cache = heap[Top.obj].cache /\ f = Top.field) \/ v # Result
                      PROVE  v = caches[heap[o].cache][f]
          BY <1>1, <1>5, <3>1 DEF Reads
        <4>. QED BY <1>1, <2>2, <3>1, <3>2, FinishCaches
      <3>4. heap[Top.obj].orig = o
        BY <1>1, <1>2, <1>3, <3>1, <3>2, <3>3 DEF HeapOK
      <3>5. heap[Top.obj].struct = heap[o].struct
        BY <1>1, <3>1, <3>4 DEF HeapOK, ObjectOK
      <3>6. AnsweringOK(t, heap, Top)
        BY <3>1, Typed DEF Answering
      <3>7. ASSUME This(heap[o].struct, f) \/ Up(t, heap[o].struct, f)
            PROVE  AnswerOK(t, heap, Top.obj, f, v)
        <4>1. Kind(Top) = "value"
          BY <2>2, <3>1, <3>3, <3>5, <3>7, KindParts DEF This, Up, KindOf
        <4>2. v = Top.last
          BY <3>1, <3>3, <4>1, ResultParts
        <4>. QED BY <2>2, <3>1, <3>3, <3>5, <3>6, <3>7, <4>2 DEF AnsweringOK
      <3>. QED BY <1>3, <3>4, <3>5, <3>7 DEF AnswerOK
    <2>. QED BY <2>1, <2>2, StepsQuiet
  <1>. QED BY <1>4, <1>5

-----------------------------------------------------------------------------
(* What is encoded inside what.                                            *)

\* The copy o, made for field f, answers itself for it.
Fixed(R, h, c, o) == R[o][2] \in Fields /\ Reads(h, c, o, R[o][2], Object(o))

(***************************************************************************)
(* An object n found in a shown field of o is one of lower depth, or o and *)
(* n are copies made for one field, which answers n for either of them.    *)
(***************************************************************************)
Beneath(depth, R, h, c, o, n) ==
    \/ depth[R[n]] < depth[R[o]]
    \/ R[n] = R[o] /\ n # o /\ Fixed(R, h, c, n) /\ Reads(h, c, o, R[o][2], Object(n))

\* How far the encoding of an object has come.
EncodingOK(depth, R, h, c, fr) ==
    fr.op = "json" =>
      /\ fr.copy = fr.obj
      /\ \A k \in 2..Len(fr.paths) : \E f \in Range(Shown[h[fr.obj].struct]) : fr.paths[k] = <<f>>
      /\ fr.paths # <<>> =>
            \E f \in Range(Shown[h[fr.obj].struct]) :
               \/ Head(fr.paths) = <<f>> /\ fr.at = Object(fr.obj)
               \/ Head(fr.paths) = <<>> /\ (fr.at = Null \/ Reads(h, c, fr.obj, f, fr.at))
      /\ \A n \in Range(fr.out) : Beneath(depth, R, h, c, fr.obj, n)

(***************************************************************************)
(* The object n is encoded inside o, k calls further on: at each depth     *)
(* there are two objects at most, the second of which answers itself.      *)
(***************************************************************************)
Within(depth, R, h, c, o, n, k) ==
    LET d == 2 * (depth[R[o]] - depth[R[n]])
    IN  n # o /\ (k <= d \/ (k = d + 1 /\ Fixed(R, h, c, n)))

Encodings(depth, R) ==
    /\ \A i \in 1..Len(stack) : EncodingOK(depth, R, heap, caches, stack[i])
    /\ \A j \in 1..Len(stack) : \A i \in 1..j - 1 :
          stack[j].op = "json" =>
             /\ stack[i].op = "json"
             /\ Within(depth, R, heap, caches, stack[i].obj, stack[j].obj, j - i)

\* What a shown field of o answers and MarshalJSON does not leave out.
LEMMA EncodedBeneath ==
  ASSUME WellFormed, NEW t, Ranked(t), NEW depth, Encodable(t, depth), NEW R,
         RoledHeap(t, R, heap, caches, arrays), Settled(t), NEW C, NEW T, Clean(C, T),
         NEW o \in C, NEW f \in Range(Shown[heap[o].struct]), NEW v, Reads(heap, caches, o, f, v),
         NEW n \in Range(Encoded(o, v))
  PROVE  Beneath(depth, R, heap, caches, o, n)
  <1>. DEFINE s == heap[o].struct
              r == R[o]
              A == t.answers[<<s, f>>]
              p == heap[o].orig
  <1>1. /\ o \in 1..Len(heap) /\ HeapOK(heap, Len(caches)) /\ Len(caches) \in Nat
        /\ s \in Structs /\ p \in 1..Len(heap) /\ heap[p].orig = p /\ heap[p].struct = s
    <2>1. o \in 1..Len(heap)
      BY DEF Clean, CleanHeap
    <2>. QED BY <2>1, Parts, ObjectType DEF HeapOK, ObjectOK
  <1>2. f \in Fields
    BY <1>1, ConstantTypes, RangeParts
  <1>3. r \in Role /\ r[1] = s /\ (heap[o].orig = o <=> r = <<s, "orig">>)
        /\ Inside(At(R, A), arrays, v)
    BY <1>1, <1>2 DEF RoledHeap, RoledObject, Reads
  <1>4. ValueOK(Len(heap), Len(arrays), v)
    <2>1. heap[o].cache \in 1..Len(caches)
      <3>1. heap[o].cache \in 0..Len(caches)
        BY <1>1, ObjectType
      <3>. QED BY <1>1, <3>1 DEF Reads
    <2>. QED BY <1>2, <2>1, Parts DEF CachesOK, Reads
  <1>. HIDE DEF s, r, A, p
  <1>5. /\ v.type = "array" => n \in Range(arrays[v.obj])
        /\ v.type # "array" => v.type = "object" /\ n = v.obj /\ n # o /\ n # heap[o].parent
    <2>1. CASE v.type = "array"
      BY <2>1 DEF Encoded
    <2>2. CASE v.type = "object" /\ v.obj \notin {o, heap[o].parent}
      <3>1. Encoded(o, v) = <<v.obj>>
        BY <2>2 DEF Encoded
      <3>2. n = v.obj
        BY <3>1 DEF Range
      <3>. QED BY <2>2, <3>2
    <2>3. CASE v.type # "array" /\ ~(v.type = "object" /\ v.obj \notin {o, heap[o].parent})
      <3>1. Encoded(o, v) = <<>>
        BY <2>3 DEF Encoded
      <3>. QED BY <3>1, RangeParts
    <2>. QED BY <2>1, <2>2, <2>3
  <1>6. R[n] \in A
    <2>1. n \in At(R, A)
      BY <1>3, <1>5 DEF Inside
    <2>. QED BY <2>1 DEF At
  <1>7. depth[R[n]] < depth[r] \/ LeftOut(t, r, f, R[n])
    <2>1. f \in Range(Shown[r[1]]) /\ R[n] \in t.answers[<<r[1], f>>]
      BY <1>3, <1>6 DEF A, s
    <2>. QED BY <1>3, <2>1 DEF Encodable
  <1>8. CASE depth[R[n]] < depth[r]
    BY <1>8 DEF Beneath, r
  <1>9. CASE Def[s][f].kind = "value" /\ Def[s][f].lambda = <<<<"Parent">>>> /\ r[2] = "orig" /\ KeepsParent(t, s)
    <2>1. Up(t, s, f) /\ r = <<s, "orig">>
      <3>1. r = <<r[1], r[2]>>
        BY <1>3 DEF Role
      <3>. QED BY <1>3, <1>9, <3>1 DEF Up
    <2>2. heap[o].orig = o
      BY <1>3, <2>1
    <2>3. AnswerOK(t, heap, o, f, v)
      BY <1>1, <1>2, <2>2 DEF Settled
    <2>4. v = Null \/ v = Object(heap[o].parent)
      BY <2>1, <2>2, <2>3 DEF AnswerOK, s
    <2>5. v.type # "array" /\ (v.type = "object" => v.obj = heap[o].parent)
      BY <2>4 DEF Null, Object
    <2>. QED BY <1>5, <2>5
  <1>10. CASE Def[s][f].kind = "value" /\ Def[s][f].lambda = <<<<>>>> /\ r[2] = f /\ R[n] = r
    <2>1. This(s, f)
      BY <1>10 DEF This
    <2>2. /\ CleanObject(C, heap, caches, arrays, o) /\ heap[o].cache # 0
      BY DEF Clean, CleanHeap, Reads
    <2>3. heap[o].cache = heap[p].cache
      BY <2>2 DEF CleanObject, Shares, p
    <2>4. Reads(heap, caches, p, f, v)
      BY <2>3 DEF Reads
    <2>5. AnswerOK(t, heap, p, f, v)
      BY <1>1, <1>2, <2>4 DEF Settled
    <2>6. v.type = "object" /\ heap[v.obj].orig = p
      BY <1>1, <2>1, <2>5 DEF AnswerOK
    <2>7. n = v.obj /\ n # o /\ v = Object(n)
      BY <1>4, <1>5, <2>6 DEF ValueOK
    <2>8. n \in C
      BY <1>2, <2>2, <2>6, <2>7 DEF CleanObject, Inside, Reads
    <2>9. heap[n].cache = heap[p].cache
      <3>1. Shares(heap, n)
        BY <2>8 DEF Clean, CleanHeap, CleanObject
      <3>. QED BY <2>6, <2>7, <3>1 DEF Shares
    <2>10. Reads(heap, caches, n, f, Object(n)) /\ Reads(heap, caches, o, f, Object(n))
      BY <2>4, <2>7, <2>9 DEF Reads
    <2>. QED BY <1>2, <1>10, <2>7, <2>10 DEF Beneath, Fixed, r
  <1>. QED BY <1>3, <1>7, <1>8, <1>9, <1>10 DEF LeftOut

LEMMA FixedStays ==
  ASSUME WellFormed, Pending, [Next]_vars, NEW R, NEW R2, Extends(R, R2), DOMAIN R = 1..Len(heap),
         NEW o \in 1..Len(heap), Fixed(R, heap, caches, o)
  PROVE  Fixed(R2, heap', caches', o)
  <1>1. R2[o] = R[o]
    BY DEF Extends
  <1>. QED BY <1>1, ReadsStays DEF Fixed

LEMMA BeneathStays ==
  ASSUME WellFormed, Pending, [Next]_vars, NEW depth, NEW R, NEW R2, Extends(R, R2), DOMAIN R = 1..Len(heap),
         NEW o \in 1..Len(heap), NEW n \in 1..Len(heap), Beneath(depth, R, heap, caches, o, n)
  PROVE  Beneath(depth, R2, heap', caches', o, n)
  <1>1. R2[o] = R[o] /\ R2[n] = R[n]
    BY DEF Extends
  <1>2. CASE depth[R[n]] < depth[R[o]]
    BY <1>1, <1>2 DEF Beneath
  <1>3. CASE R[n] = R[o] /\ n # o /\ Fixed(R, heap, caches, n) /\ Reads(heap, caches, o, R[o][2], Object(n))
    <2>1. R[o][2] \in Fields
      BY <1>3 DEF Fixed
    <2>2. Reads(heap', caches', o, R[o][2], Object(n))
      BY <1>3, <2>1, ReadsStays
    <2>. QED BY <1>1, <1>3, <2>2, FixedStays DEF Beneath
  <1>. QED BY <1>2, <1>3 DEF Beneath

\* How far an encoding is stays so, if it does not move.
LEMMA EncodingStays ==
  ASSUME WellFormed, Pending, [Next]_vars, NEW depth, NEW R, NEW R2, Extends(R, R2), DOMAIN R = 1..Len(heap),
         NEW fr, FrameOK(heap, Len(arrays), fr), EncodingOK(depth, R, heap, caches, fr)
  PROVE  EncodingOK(depth, R2, heap', caches', fr)
  <1>. SUFFICES ASSUME fr.op = "json" PROVE EncodingOK(depth, R2, heap', caches', fr)
    BY DEF EncodingOK
  <1>. DEFINE S == Range(Shown[heap[fr.obj].struct])
  <1>1. /\ fr.obj \in 1..Len(heap) /\ fr.out \in Seq(1..Len(heap))
        /\ heap'[fr.obj].struct = heap[fr.obj].struct /\ S \subseteq Fields
    <2>1. fr.obj \in 1..Len(heap) /\ fr.out \in Seq(1..Len(heap))
      BY DEF FrameOK
    <2>2. heap[fr.obj].struct \in Structs
      BY <2>1, Parts, ObjectType
    <2>. QED BY <2>1, <2>2, MapsStay, ConstantTypes, RangeParts DEF Grows
  <1>2. ASSUME NEW n \in Range(fr.out) PROVE Beneath(depth, R2, heap', caches', fr.obj, n)
    <2>1. n \in 1..Len(heap) /\ Beneath(depth, R, heap, caches, fr.obj, n)
      BY <1>1, RangeParts DEF EncodingOK
    <2>. QED BY <1>1, <2>1, BeneathStays
  <1>3. ASSUME NEW f \in S, Reads(heap, caches, fr.obj, f, fr.at) PROVE Reads(heap', caches', fr.obj, f, fr.at)
    <2>1. f \in Fields
      BY <1>1
    <2>. QED BY <1>1, <1>3, <2>1, ReadsStays
  <1>4. /\ fr.copy = fr.obj
        /\ \A k \in 2..Len(fr.paths) : \E f \in S : fr.paths[k] = <<f>>
        /\ fr.paths # <<>> =>
              \E f \in S : \/ Head(fr.paths) = <<f>> /\ fr.at = Object(fr.obj)
                           \/ Head(fr.paths) = <<>> /\ (fr.at = Null \/ Reads(heap, caches, fr.obj, f, fr.at))
    BY DEF EncodingOK
  <1>. HIDE DEF S
  <1>5. fr.paths # <<>> =>
              \E f \in S : \/ Head(fr.paths) = <<f>> /\ fr.at = Object(fr.obj)
                           \/ Head(fr.paths) = <<>> /\ (fr.at = Null \/ Reads(heap', caches', fr.obj, f, fr.at))
    BY <1>3, <1>4
  <1>6. S = Range(Shown[heap'[fr.obj].struct])
    BY <1>1 DEF S
  <1>. QED BY <1>2, <1>4, <1>5, <1>6 DEF EncodingOK

\* MarshalJSON begins with the first of the fields it looks at.
LEMMA MarshalEncoding ==
  ASSUME WellFormed, NEW depth, NEW R, NEW o \in 1..Len(heap)
  PROVE  EncodingOK(depth, R, heap, caches, Marshal(heap, o))
  <1>. DEFINE y == Marshal(heap, o)
              s == Shown[heap[o].struct]
              p == [i \in DOMAIN s |-> <<s[i]>>]
  <1>1. y.op = "json" /\ y.obj = o /\ y.copy = o /\ y.at = Object(o) /\ y.out = <<>> /\ y.paths \in Lambda
    BY MarshalMoves, FrameParts DEF FrameOK
  <1>2. y.paths = p
    BY DEF Marshal, Start
  <1>3. s \in Seq(Fields)
    BY Parts, ObjectType, ConstantTypes
  <1>. HIDE DEF y, s
  <1>4. DOMAIN p = 1..Len(s) /\ Len(s) \in Nat /\ \A k \in 1..Len(s) : p[k] = <<s[k]>> /\ s[k] \in Range(s)
    BY <1>3, RangeParts
  <1>. HIDE DEF p
  <1>5. \A k \in 1..Len(y.paths) : \E f \in Range(s) : y.paths[k] = <<f>>
    <2>1. DOMAIN y.paths = 1..Len(y.paths)
      BY <1>1 DEF Lambda
    <2>. QED BY <1>2, <1>4, <2>1
  <1>6. y.paths # <<>> => \E f \in Range(s) : Head(y.paths) = <<f>>
    <2>. SUFFICES ASSUME y.paths # <<>> PROVE \E f \in Range(s) : Head(y.paths) = <<f>>
      OBVIOUS
    <2>1. Head(y.paths) = y.paths[1] /\ Len(y.paths) \in Nat /\ Len(y.paths) > 0
      BY <1>1, LambdaParts
    <2>2. 1 \in 1..Len(y.paths)
      BY <2>1
    <2>. QED BY <1>5, <2>1, <2>2
  <1>7. \A k \in 2..Len(y.paths) : k \in 1..Len(y.paths)
    OBVIOUS
  <1>8. \A n \in Range(y.out) : Beneath(depth, R, heap, caches, y.obj, n)
    BY <1>1, RangeParts
  <1>9. Range(s) = Range(Shown[heap[y.obj].struct])
    BY <1>1 DEF s
  <1>10. EncodingOK(depth, R, heap, caches, y)
    BY <1>1, <1>5, <1>6, <1>7, <1>8, <1>9 DEF EncodingOK
  <1>. QED BY <1>10 DEF y

\* The field has a value, and what it is read from is that field of the object.
LEMMA EncodingAnswered ==
  ASSUME NEW depth, NEW R, NEW h, NEW c, NEW m, NEW fr, FrameOK(h, m, fr), EncodingOK(depth, R, h, c, fr),
         fr.op = "json", fr.paths # <<>>, Head(fr.paths) # <<>>, NEW v,
         \A f \in Range(Shown[h[fr.obj].struct]) : Head(fr.paths) = <<f>> /\ fr.at = Object(fr.obj) =>
             v = Null \/ Reads(h, c, fr.obj, f, v)
  PROVE  EncodingOK(depth, R, h, c, Moved(fr, v))
  <1>. DEFINE x == Moved(fr, v)
              S == Range(Shown[h[fr.obj].struct])
  <1>1. fr \in Frame /\ fr.paths \in Lambda
    BY FrameParts DEF FrameOK
  <1>2. /\ x.op = fr.op /\ x.obj = fr.obj /\ x.copy = fr.copy /\ x.at = v /\ x.out = fr.out
        /\ Len(x.paths) = Len(fr.paths) /\ Len(fr.paths) \in Nat /\ Len(fr.paths) > 0
        /\ x.paths[1] = Tail(fr.paths[1]) /\ Head(x.paths) = x.paths[1]
        /\ \A i \in 2..Len(fr.paths) : x.paths[i] = fr.paths[i]
    <2>1. x.out = fr.out
      BY <1>1 DEF Moved, Frame
    <2>2. Head(x.paths) = x.paths[1]
      OBVIOUS
    <2>. HIDE DEF x
    <2>3. \A i \in 2..Len(fr.paths) : i \in 1..Len(fr.paths) /\ i # 1
      OBVIOUS
    <2>4. /\ x.op = fr.op /\ x.obj = fr.obj /\ x.copy = fr.copy /\ x.at = v
          /\ Len(x.paths) = Len(fr.paths) /\ Len(fr.paths) \in Nat /\ Len(fr.paths) > 0
          /\ x.paths[1] = Tail(fr.paths[1])
          /\ \A i \in 1..Len(fr.paths) : i # 1 => x.paths[i] = fr.paths[i]
      BY <1>1, MovedParts DEF x
    <2>. QED BY <2>1, <2>2, <2>3, <2>4
  <1>3. PICK f \in S : Head(fr.paths) = <<f>> /\ fr.at = Object(fr.obj)
    BY DEF EncodingOK
  <1>4. v = Null \/ Reads(h, c, fr.obj, f, v)
    BY <1>3
  <1>5. Head(x.paths) = <<>>
    <2>1. Tail(<<f>>) = <<>>
      BY OneName
    <2>2. fr.paths[1] = <<f>>
      BY <1>1, <1>3, LambdaParts
    <2>3. Tail(fr.paths[1]) = <<>>
      BY <2>1, <2>2
    <2>. HIDE DEF x
    <2>. QED BY <1>2, <2>3
  <1>6. /\ fr.copy = fr.obj
        /\ \A k \in 2..Len(fr.paths) : \E g \in S : fr.paths[k] = <<g>>
        /\ \A n \in Range(fr.out) : Beneath(depth, R, h, c, fr.obj, n)
    BY DEF EncodingOK
  <1>. HIDE DEF x
  <1>7. EncodingOK(depth, R, h, c, x)
    BY <1>2, <1>3, <1>4, <1>5, <1>6 DEF EncodingOK
  <1>. QED BY <1>7 DEF x

\* The field has been read: what it answers is encoded, the next is looked at.
LEMMA EncodingEnds ==
  ASSUME WellFormed, NEW t, Ranked(t), NEW depth, Encodable(t, depth), NEW R,
         RoledHeap(t, R, heap, caches, arrays), Settled(t), NEW T, SomeClean(T),
         EndPath, Top.op = "json", EncodingOK(depth, R, heap, caches, Top)
  PROVE  EncodingOK(depth, R, heap, caches, Ended(Top, Encoded(Top.obj, Top.at)))
  <1>. DEFINE fr == Top
              e == Encoded(fr.obj, fr.at)
              x == Ended(fr, e)
              S == Range(Shown[heap[fr.obj].struct])
              N == {n \in 1..Len(heap) : Beneath(depth, R, heap, caches, fr.obj, n)}
  <1>1. /\ stack # <<>> /\ fr.paths # <<>> /\ Head(fr.paths) = <<>>
        /\ x.op = fr.op /\ x.obj = fr.obj /\ x.copy = fr.copy /\ x.paths = Tail(fr.paths)
        /\ x.at = Object(fr.copy) /\ x.out = fr.out \o e
    BY EndPathMoves
  <1>2. PICK C : Clean(C, T)
    BY DEF SomeClean
  <1>3. /\ fr.obj \in C /\ FrameOK(heap, Len(arrays), fr) /\ fr.paths \in Lambda
    BY <1>1, <1>2, TopClean DEF CleanFrame
  <1>4. /\ fr.copy = fr.obj
        /\ \A k \in 2..Len(fr.paths) : \E f \in S : fr.paths[k] = <<f>>
        /\ \E f \in S : \/ Head(fr.paths) = <<f>> /\ fr.at = Object(fr.obj)
                        \/ Head(fr.paths) = <<>> /\ (fr.at = Null \/ Reads(heap, caches, fr.obj, f, fr.at))
        /\ \A n \in Range(fr.out) : Beneath(depth, R, heap, caches, fr.obj, n)
    BY <1>1 DEF EncodingOK
  <1>5. fr.out \in Seq(1..Len(heap)) /\ e \in Seq(1..Len(heap))
    BY <1>1, <1>3, EncodedType DEF FrameOK
  <1>6. PICK f \in S : fr.at = Null \/ Reads(heap, caches, fr.obj, f, fr.at)
    BY <1>1, <1>4, OneName
  <1>7. Range(e) \subseteq N
    <2>1. CASE fr.at = Null
      <3>1. e = <<>>
        BY <2>1, ValueTypes DEF Encoded
      <3>. QED BY <3>1, RangeParts
    <2>2. CASE Reads(heap, caches, fr.obj, f, fr.at)
      <3>1. ASSUME NEW n \in Range(e) PROVE Beneath(depth, R, heap, caches, fr.obj, n)
        BY <1>2, <1>3, <1>6, <2>2, EncodedBeneath
      <3>2. Range(e) \subseteq 1..Len(heap)
        BY <1>5, RangeParts
      <3>. QED BY <3>1, <3>2
    <2>. QED BY <1>6, <2>1, <2>2
  <1>8. Range(fr.out) \subseteq N
    BY <1>4, <1>5, RangeParts
  <1>. HIDE DEF e, N, x
  <1>9. Range(fr.out \o e) \subseteq N
    BY <1>5, <1>7, <1>8, RangeConcat
  <1>10. \A n \in Range(x.out) : Beneath(depth, R, heap, caches, fr.obj, n)
    BY <1>1, <1>9 DEF N
  <1>11. /\ x.paths \in Lambda /\ Len(x.paths) = Len(fr.paths) - 1 /\ Len(fr.paths) \in Nat /\ Len(fr.paths) > 0
         /\ \A k \in 1..Len(x.paths) : x.paths[k] = fr.paths[k + 1]
    BY <1>1, <1>3, LambdaParts
  <1>12. ASSUME NEW k \in 1..Len(x.paths) PROVE \E g \in S : x.paths[k] = <<g>>
    <2>1. k + 1 \in 2..Len(fr.paths)
      BY <1>11
    <2>. QED BY <1>4, <1>11, <2>1
  <1>13. ASSUME x.paths # <<>> PROVE \E g \in S : Head(x.paths) = <<g>> /\ x.at = Object(fr.obj)
    <2>1. Head(x.paths) = x.paths[1] /\ Len(x.paths) \in Nat /\ Len(x.paths) > 0
      BY <1>11, <1>13, LambdaParts
    <2>2. 1 \in 1..Len(x.paths)
      BY <2>1
    <2>. QED BY <1>1, <1>4, <1>12, <2>1, <2>2
  <1>14. \A k \in 2..Len(x.paths) : k \in 1..Len(x.paths)
    OBVIOUS
  <1>. HIDE DEF S, fr
  <1>15. EncodingOK(depth, R, heap, caches, x)
    <2>1. S = Range(Shown[heap[x.obj].struct]) /\ x.copy = x.obj /\ x.obj = fr.obj
      BY <1>1, <1>4 DEF S
    <2>. QED BY <1>10, <1>12, <1>13, <1>14, <2>1 DEF EncodingOK
  <1>. QED BY <1>15 DEF x, e, fr

\* What an access of a field of the object finds.
LEMMA EncodingReads ==
  ASSUME WellFormed, NEW depth, NEW R, Top.op = "json", EncodingOK(depth, R, heap, caches, Top),
         NEW x, Accessed(x)
  PROVE  EncodingOK(depth, R, heap, caches, x)
  <1>1. PICK v : /\ Access /\ x = Moved(Top, v) /\ ValueOK(Len(heap), Len(arrays), v) /\ v # Unset
                 /\ Found(Top.at, Head(Head(Top.paths)), v)
    BY DEF Accessed
  <1>2. /\ stack # <<>> /\ Top.paths # <<>> /\ Head(Top.paths) # <<>> /\ FrameOK(heap, Len(arrays), Top)
        /\ Top.obj \in 1..Len(heap)
    BY <1>1, AccessMoves, TopParts
  <1>3. Range(Shown[heap[Top.obj].struct]) \subseteq Fields
    <2>1. heap[Top.obj].struct \in Structs
      BY <1>2, Parts, ObjectType
    <2>. QED BY <2>1, ConstantTypes, RangeParts
  <1>4. ASSUME NEW f \in Range(Shown[heap[Top.obj].struct]), Head(Top.paths) = <<f>>, Top.at = Object(Top.obj)
        PROVE  v = Null \/ Reads(heap, caches, Top.obj, f, v)
    <2>1. Head(Head(Top.paths)) = f /\ f # "Parent" /\ Top.at.type = "object" /\ Top.at.obj = Top.obj
      BY <1>3, <1>4, OneName, StructAssumption DEF Object
    <2>. QED BY <1>1, <2>1 DEF Found
  <1>. QED BY <1>1, <1>2, <1>4, EncodingAnswered

\* What Get answers that the encoding waited for.
LEMMA EncodingWaited ==
  ASSUME WellFormed, Pending, [Next]_vars, NEW depth, NEW R, NEW R2, Extends(R, R2), DOMAIN R = 1..Len(heap),
         NEW fr, FrameOK(heap, Len(arrays), fr), EncodingOK(depth, R, heap, caches, fr), fr.op = "json",
         Finish, Top.op = "get", Awaits(heap, fr, Top), fr.paths # <<>>, Head(fr.paths) # <<>>,
         FrameOK(heap', Len(arrays'), fr)
  PROVE  EncodingOK(depth, R2, heap', caches', Moved(fr, Result))
  <1>1. EncodingOK(depth, R2, heap', caches', fr)
    BY EncodingStays
  <1>2. ASSUME NEW f \in Range(Shown[heap'[fr.obj].struct]), Head(fr.paths) = <<f>>, fr.at = Object(fr.obj)
        PROVE  Reads(heap', caches', fr.obj, f, Result)
    <2>1. fr.at.obj = fr.obj /\ Head(Head(fr.paths)) = f
      BY <1>2, OneName DEF Object
    <2>2. Top.obj = fr.obj /\ Top.field = f
      BY <2>1 DEF Awaits
    <2>3. /\ heap[fr.obj].cache \in 1..Len(caches) /\ caches'[heap[fr.obj].cache][f] = Result
          /\ fr.obj \in 1..Len(heap) /\ Len(caches) \in Nat
      BY <2>2, FinishWrites, Typed DEF FrameOK
    <2>4. heap'[fr.obj].cache = heap[fr.obj].cache /\ heap[fr.obj].cache # 0
      BY <2>3, FinishHeap
    <2>5. Result # Unset
      BY FinishArrays
    <2>. QED BY <2>3, <2>4, <2>5 DEF Reads
  <1>. QED BY <1>1, <1>2, EncodingAnswered

LEMMA TailRange ==
  ASSUME NEW S, NEW s \in Seq(S), s # <<>>
  PROVE  Range(Tail(s)) \subseteq Range(s)
  <1>1. /\ Tail(s) \in Seq(S) /\ Len(Tail(s)) = Len(s) - 1 /\ Len(s) \in Nat /\ Len(s) > 0
        /\ \A i \in 1..Len(Tail(s)) : Tail(s)[i] = s[i + 1]
    BY HeadTailProperties, EmptySeq
  <1>2. DOMAIN Tail(s) = 1..Len(Tail(s)) /\ DOMAIN s = 1..Len(s)
    BY <1>1
  <1>3. ASSUME NEW k \in DOMAIN Tail(s) PROVE Tail(s)[k] \in Range(s)
    <2>1. k + 1 \in DOMAIN s /\ Tail(s)[k] = s[k + 1]
      BY <1>1, <1>2
    <2>. QED BY <2>1 DEF Range
  <1>. QED BY <1>3 DEF Range

LEMMA NextEncoding ==
  ASSUME WellFormed, WellFormed', Pending, NEW t, Ranked(t), NEW depth, Encodable(t, depth),
         NEW T, SomeClean(T), NEW R, NEW R2, RoledHeap(t, R, heap, caches, arrays), Extends(R, R2),
         Settled(t), Encodings(depth, R), [Next]_vars, NEW i \in 1..Len(stack')
  PROVE  EncodingOK(depth, R2, heap', caches', stack'[i])
  <1>. DEFINE x == stack'[i]
              n == Len(stack)
  <1>. SUFFICES ASSUME x.op = "json" PROVE EncodingOK(depth, R2, heap', caches', x)
    BY DEF EncodingOK
  <1>1. AnyStep(i)
    BY NextSteps
  <1>2. DOMAIN R = 1..Len(heap) /\ Len(heap) \in Nat /\ n \in Nat
    BY Typed DEF RoledHeap
  <1>3. ASSUME NEW j \in 1..n
        PROVE  FrameOK(heap, Len(arrays), stack[j]) /\ EncodingOK(depth, R, heap, caches, stack[j])
    BY Parts DEF StackOK, Encodings
  <1>4. ASSUME stack # <<>>
        PROVE  /\ n \in 1..n /\ Top = stack[n] /\ FrameOK(heap, Len(arrays), Top) /\ Top \in Frame
               /\ EncodingOK(depth, R, heap, caches, Top)
    <2>1. n \in 1..n /\ Top = stack[n]
      BY <1>2, <1>4, TopParts
    <2>. QED BY <1>3, <1>4, <2>1, TopParts
  <1>5. ASSUME UNCHANGED <<heap, caches, arrays>>, EncodingOK(depth, R, heap, caches, x)
        PROVE  EncodingOK(depth, R2, heap', caches', x)
    <2>1. FrameOK(heap, Len(arrays), x)
      <3>1. FrameOK(heap', Len(arrays'), x)
        BY DEF WellFormed, StackOK
      <3>. QED BY <1>5, <3>1
    <2>. HIDE DEF x
    <2>. QED BY <1>2, <1>5, <2>1, EncodingStays
  <1>6. CASE i \in 1..n /\ x = stack[i]
    <2>1. FrameOK(heap, Len(arrays), x) /\ EncodingOK(depth, R, heap, caches, x)
      BY <1>3, <1>6
    <2>. HIDE DEF x
    <2>. QED BY <1>2, <2>1, EncodingStays
  <1>7. CASE i = n /\ stack # <<>> /\ Accessed(x)
    <2>1. UNCHANGED <<heap, caches, arrays>> /\ Top.op = "json"
      <3>1. PICK v : Access /\ x = Moved(Top, v)
        BY <1>7 DEF Accessed
      <3>2. UNCHANGED <<heap, caches, arrays>> /\ Top.paths # <<>>
        BY <3>1, AccessMoves
      <3>3. Moved(Top, v).op = Top.op
        BY <1>4, <1>7, <3>2, MovedParts
      <3>. QED BY <3>1, <3>2, <3>3
    <2>2. EncodingOK(depth, R, heap, caches, x)
      BY <1>4, <1>7, <2>1, EncodingReads
    <2>. QED BY <1>5, <2>1, <2>2
  <1>8. CASE i = n /\ stack # <<>> /\ PathEnded(x)
    <2>1. EndPath /\ x = Ended(Top, Encoded(Top.obj, Top.at))
      BY <1>8 DEF PathEnded
    <2>2. UNCHANGED <<heap, caches, arrays>> /\ x.op = Top.op
      BY <2>1, EndPathMoves
    <2>3. EncodingOK(depth, R, heap, caches, Ended(Top, Encoded(Top.obj, Top.at)))
      BY <1>4, <1>8, <2>1, <2>2, EncodingEnds
    <2>. QED BY <1>5, <2>1, <2>2, <2>3
  <1>9. CASE i = n /\ NextElement /\ (x = WithOut(Top, Append(Top.out, Len(heap) + 1), Top.left - 1)
                                      \/ x = WithOut(Top, Top.out, Top.left - 1))
    <2>1. stack # <<>> /\ InArray(Top)
      BY <1>9, NextElementMoves
    <2>2. Top.op \in {"get", "ref"}
      BY <1>4, <2>1, ArrayParts
    <2>3. x.op = Top.op
      BY <1>4, <1>9, <2>1 DEF WithOut, Frame
    <2>. QED BY <2>2, <2>3
  <1>10. CASE i = n /\ Encode /\ x = WithOut(Top, Tail(Top.out), Top.left)
    <2>. DEFINE y == WithOut(Top, Tail(Top.out), Top.left)
    <2>1. /\ stack # <<>> /\ UNCHANGED <<heap, caches, arrays>> /\ Top.out # <<>> /\ Top.paths = <<>>
          /\ y.op = "json" /\ y.obj = Top.obj /\ y.paths = <<>> /\ Top.op = "json"
      BY <1>10, EncodeMoves
    <2>2. y.out = Tail(Top.out) /\ y.copy = Top.copy
      BY <1>4, <2>1 DEF WithOut, Frame
    <2>3. Top.out \in Seq(1..Len(heap))
      BY <1>4, <2>1 DEF FrameOK
    <2>4. Range(Tail(Top.out)) \subseteq Range(Top.out)
      BY <2>1, <2>3, TailRange
    <2>. HIDE DEF y
    <2>5. \A m \in Range(y.out) : Beneath(depth, R, heap, caches, y.obj, m)
      BY <1>4, <2>1, <2>2, <2>4 DEF EncodingOK
    <2>6. y.copy = y.obj
      BY <1>4, <2>1, <2>2 DEF EncodingOK
    <2>7. \A k \in 2..Len(y.paths) : FALSE
      <3>1. Len(y.paths) = 0
        BY <2>1, EmptySeq
      <3>. QED BY <3>1
    <2>8. EncodingOK(depth, R, heap, caches, y)
      BY <2>1, <2>5, <2>6, <2>7 DEF EncodingOK
    <2>. QED BY <1>5, <1>10, <2>1, <2>8 DEF y
  <1>11. CASE i = n + 1 /\ ((Descend /\ x.op = "get") \/ (NextElement /\ x.op = "size"))
    BY <1>11
  <1>12. CASE i = n + 1 /\ Encode /\ x = Marshal(heap, Head(Top.out))
    <2>1. UNCHANGED <<heap, caches, arrays>> /\ Head(Top.out) \in 1..Len(heap)
      BY <1>12, EncodeMoves
    <2>2. EncodingOK(depth, R, heap, caches, x)
      BY <1>12, <2>1, MarshalEncoding
    <2>. QED BY <1>5, <2>1, <2>2
  <1>13. CASE i = n - 1 /\ i \in 1..n /\ Finish /\ Returned(stack[i], x) /\ Awaits(heap, stack[i], Top)
    <2>. DEFINE lo == stack[i]
    <2>1. FrameOK(heap, Len(arrays), lo) /\ EncodingOK(depth, R, heap, caches, lo) /\ lo \in Frame
      BY <1>3, <1>13 DEF FrameOK
    <2>2. CASE Top.op = "json" /\ x = lo
      BY <1>6, <1>13, <2>2
    <2>3. CASE Top.op = "size"
      <3>1. lo.op \in {"get", "ref"}
        BY <1>13, <2>3 DEF Awaits
      <3>2. \/ x = WithOut(lo, lo.out, 0)
            \/ x = WithOut(lo, Append(lo.out, Top.obj), lo.left)
        BY <1>13, <2>3 DEF Returned
      <3>3. x.op = lo.op
        BY <2>1, <3>2 DEF WithOut, Frame
      <3>. QED BY <3>1, <3>3
    <2>4. CASE Top.op = "get" /\ lo.paths # <<>> /\ Head(lo.paths) # <<>> /\ x = Moved(lo, Result)
      <3>1. lo.op = "json"
        BY <2>1, <2>4, MovedParts
      <3>2. FrameOK(heap', Len(arrays'), lo)
        <4>1. HeapOK(heap, Len(caches)) /\ Grows(heap, heap') /\ heap' \in Seq(StructObject) /\ Len(caches) \in Nat
          BY <1>13, FinishHeap, Parts
        <4>2. Len(arrays) <= Len(arrays') /\ Len(arrays') \in Nat /\ Len(arrays) \in Nat /\ heap \in Seq(StructObject)
          BY <1>13, FinishArrays, Typed
        <4>. HIDE DEF lo
        <4>. QED BY <2>1, <4>1, <4>2, FrameGrows
      <3>. HIDE DEF lo
      <3>3. Awaits(heap, lo, Top)
        BY <1>13 DEF lo
      <3>. QED BY <1>2, <1>13, <2>1, <2>4, <3>1, <3>2, <3>3, EncodingWaited
    <2>. QED BY <1>13, <2>2, <2>3, <2>4 DEF Returned
  <1>14. CASE i = 1 /\ Called(x)
    <2>1. UNCHANGED <<heap, caches, arrays>> /\ EncodingOK(depth, R, heap, caches, x)
      BY <1>14, MarshalEncoding DEF Called
    <2>. QED BY <1>5, <2>1
  <1>. HIDE DEF x
  <1>. QED BY <1>1, <1>6, <1>7, <1>8, <1>9, <1>10, <1>11, <1>12, <1>13, <1>14 DEF AnyStep, x

\* Which evaluations there are after a step.
LEMMA SameObject ==
  ASSUME WellFormed, [Next]_vars, NEW k \in 1..Len(stack')
  PROVE  \/ k \in 1..Len(stack) /\ stack'[k].op = stack[k].op /\ stack'[k].obj = stack[k].obj
         \/ k = Len(stack') /\ stack'[k].op # "json"
         \/ k = Len(stack') /\ k = Len(stack) + 1 /\ Encode /\ stack'[k] = Marshal(heap, Head(Top.out))
         \/ k = Len(stack') /\ k = 1
  <1>. DEFINE x == stack'[k]
              n == Len(stack)
  <1>1. AnyStep(k)
    BY NextSteps
  <1>2. ASSUME stack # <<>>
        PROVE  n \in 1..n /\ Top = stack[n] /\ Top \in Frame
    BY <1>2, Typed, TopParts
  <1>3. ASSUME NEW fr \in Frame, NEW out, NEW left, x = WithOut(fr, out, left)
        PROVE  x.op = fr.op /\ x.obj = fr.obj
    BY <1>3 DEF WithOut, Frame
  <1>4. ASSUME NEW fr \in Frame, fr.paths # <<>>, NEW v, x = Moved(fr, v)
        PROVE  x.op = fr.op /\ x.obj = fr.obj
    BY <1>4, MovedParts
  <1>5. CASE k = n /\ stack # <<>> /\ (Accessed(x) \/ PathEnded(x))
    <2>1. CASE Accessed(x)
      <3>1. PICK v : Access /\ x = Moved(Top, v)
        BY <2>1 DEF Accessed
      <3>2. Top.paths # <<>>
        BY <3>1, AccessMoves
      <3>. QED BY <1>2, <1>4, <1>5, <3>1, <3>2
    <2>2. CASE PathEnded(x)
      <3>1. x.op = Top.op /\ x.obj = Top.obj
        BY <2>2, EndPathMoves DEF PathEnded
      <3>. QED BY <1>2, <1>5, <3>1
    <2>. QED BY <1>5, <2>1, <2>2
  <1>6. CASE k = n /\ NextElement /\ (x = WithOut(Top, Append(Top.out, Len(heap) + 1), Top.left - 1)
                                      \/ x = WithOut(Top, Top.out, Top.left - 1))
    <2>1. stack # <<>>
      BY <1>6, NextElementMoves
    <2>. QED BY <1>2, <1>3, <1>6, <2>1
  <1>7. CASE k = n /\ Encode /\ x = WithOut(Top, Tail(Top.out), Top.left)
    <2>1. stack # <<>>
      BY <1>7, EncodeMoves
    <2>. QED BY <1>2, <1>3, <1>7, <2>1
  <1>8. CASE k = n - 1 /\ k \in 1..n /\ Finish /\ Returned(stack[k], x)
    <2>1. stack[k] \in Frame
      BY <1>8, Parts DEF StackOK, FrameOK
    <2>2. x.op = stack[k].op /\ x.obj = stack[k].obj
      BY <1>3, <1>4, <1>8, <2>1 DEF Returned
    <2>. QED BY <1>8, <2>2
  <1>9. CASE k = n + 1 /\ k = Len(stack') /\ Encode /\ x = Marshal(heap, Head(Top.out))
    BY <1>9
  <1>10. CASE k = n + 1 /\ k = Len(stack') /\ (x.op = "get" \/ x.op = "size")
    BY <1>10
  <1>. HIDE DEF x
  <1>. QED BY <1>1, <1>5, <1>6, <1>7, <1>8, <1>9, <1>10 DEF AnyStep, x

LEMMA WithinStays ==
  ASSUME WellFormed, Pending, [Next]_vars, NEW depth, NEW R, NEW R2, Extends(R, R2), DOMAIN R = 1..Len(heap),
         NEW o \in 1..Len(heap), NEW n \in 1..Len(heap), NEW k, Within(depth, R, heap, caches, o, n, k)
  PROVE  Within(depth, R2, heap', caches', o, n, k)
  <1>1. R2[o] = R[o] /\ R2[n] = R[n]
    BY DEF Extends
  <1>. QED BY <1>1, FixedStays DEF Within

LEMMA DepthIs ==
  ASSUME NEW t, NEW depth, Encodable(t, depth), NEW R, RoledHeap(t, R, heap, caches, arrays),
         NEW o \in 1..Len(heap)
  PROVE  R[o] \in Role /\ depth[R[o]] \in Nat
  <1>1. R[o] \in Role
    BY DEF RoledHeap, RoledObject
  <1>. QED BY <1>1 DEF Encodable

\* What is found in an object is encoded inside it.
LEMMA BeneathWithin ==
  ASSUME NEW t, NEW depth, Encodable(t, depth), NEW R, RoledHeap(t, R, heap, caches, arrays),
         NEW o \in 1..Len(heap), NEW n \in 1..Len(heap), Beneath(depth, R, heap, caches, o, n)
  PROVE  Within(depth, R, heap, caches, o, n, 1)
  <1>1. depth[R[o]] \in Nat /\ depth[R[n]] \in Nat
    BY DepthIs
  <1>2. CASE depth[R[n]] < depth[R[o]]
    <2>1. 1 <= 2 * (depth[R[o]] - depth[R[n]]) /\ n # o
      BY <1>1, <1>2
    <2>. QED BY <2>1 DEF Within
  <1>3. CASE R[n] = R[o] /\ n # o /\ Fixed(R, heap, caches, n)
    <2>1. 1 = 2 * (depth[R[o]] - depth[R[n]]) + 1
      BY <1>1, <1>3
    <2>. QED BY <1>3, <2>1 DEF Within
  <1>. QED BY <1>2, <1>3 DEF Beneath

(***************************************************************************)
(* And inside those which the object is encoded in: a copy that answers    *)
(* itself answers no other.                                                *)
(***************************************************************************)
LEMMA WithinBeneath ==
  ASSUME NEW t, NEW depth, Encodable(t, depth), NEW R, RoledHeap(t, R, heap, caches, arrays),
         NEW o \in 1..Len(heap), NEW p \in 1..Len(heap), NEW n \in 1..Len(heap), NEW k \in Nat, k >= 1,
         Within(depth, R, heap, caches, o, p, k), Beneath(depth, R, heap, caches, p, n)
  PROVE  Within(depth, R, heap, caches, o, n, k + 1)
  <1>. DEFINE a == depth[R[o]]
              b == depth[R[p]]
              c == depth[R[n]]
  <1>1. a \in Nat /\ b \in Nat /\ c \in Nat
    BY DepthIs
  <1>2. k <= 2 * (a - b) \/ (k = 2 * (a - b) + 1 /\ Fixed(R, heap, caches, p))
    BY DEF Within
  <1>4. c # a => n # o
    OBVIOUS
  <1>5. CASE c < b
    <2>. HIDE DEF a, b, c
    <2>1. k + 1 <= 2 * (a - c) /\ c # a
      BY <1>1, <1>2, <1>5
    <2>. QED BY <1>4, <2>1 DEF Within, a, c
  <1>6. CASE R[n] = R[p] /\ n # p /\ Fixed(R, heap, caches, n) /\ Reads(heap, caches, p, R[p][2], Object(n))
    <2>1. ~Fixed(R, heap, caches, p)
      <3>. SUFFICES ASSUME Fixed(R, heap, caches, p) PROVE FALSE
        OBVIOUS
      <3>1. Object(n) = Object(p)
        BY <1>6 DEF Fixed, Reads
      <3>2. Object(n).obj = n /\ Object(p).obj = p
        BY DEF Object
      <3>. QED BY <1>6, <3>1, <3>2
    <2>2. b = c /\ k <= 2 * (a - b)
      BY <1>2, <1>6, <2>1
    <2>. HIDE DEF a, b, c
    <2>3. c # a /\ (k + 1 <= 2 * (a - c) \/ k + 1 = 2 * (a - c) + 1)
      BY <1>1, <2>2
    <2>. QED BY <1>4, <1>6, <2>3 DEF Within, a, c
  <1>. QED BY <1>5, <1>6 DEF Beneath

LEMMA NextWithin ==
  ASSUME WellFormed, Pending, NEW t, NEW depth, Encodable(t, depth), NEW R, NEW R2,
         RoledHeap(t, R, heap, caches, arrays), Extends(R, R2), Encodings(depth, R), [Next]_vars,
         NEW j \in 1..Len(stack'), stack'[j].op = "json", NEW i \in 1..j - 1
  PROVE  stack'[i].op = "json" /\ Within(depth, R2, heap', caches', stack'[i].obj, stack'[j].obj, j - i)
  <1>. DEFINE n == Len(stack)
              N == Len(stack')
  <1>1. DOMAIN R = 1..Len(heap) /\ n \in Nat /\ \A k \in 1..n : stack[k].obj \in 1..Len(heap)
    BY Typed, Parts DEF RoledHeap, StackOK, FrameOK
  <1>2. i \in 1..N /\ i # N /\ i # j /\ j # 1
    OBVIOUS
  <1>3. i \in 1..n /\ stack'[i].op = stack[i].op /\ stack'[i].obj = stack[i].obj
    BY <1>2, SameObject
  <1>4. CASE j \in 1..n /\ stack'[j].op = stack[j].op /\ stack'[j].obj = stack[j].obj
    <2>1. stack[i].op = "json" /\ Within(depth, R, heap, caches, stack[i].obj, stack[j].obj, j - i)
      BY <1>4 DEF Encodings
    <2>. QED BY <1>1, <1>3, <1>4, <2>1, WithinStays
  <1>5. CASE j = N /\ j = n + 1 /\ Encode /\ stack'[j] = Marshal(heap, Head(Top.out))
    <2>. DEFINE m == Head(Top.out)
                o == stack[i].obj
    <2>1. stack # <<>> /\ Top.op = "json" /\ Top.out # <<>> /\ m \in 1..Len(heap) /\ stack'[j].obj = m
      BY <1>5, EncodeMoves
    <2>2. n \in 1..n /\ Top = stack[n] /\ Top.out \in Seq(1..Len(heap))
      BY <1>1, <2>1, TopParts DEF FrameOK
    <2>3. m \in Range(Top.out)
      <3>1. m = Top.out[1] /\ 1 \in 1..Len(Top.out)
        BY <2>1, <2>2, EmptySeq
      <3>. QED BY <2>2, <3>1, RangeParts
    <2>4. Beneath(depth, R, heap, caches, Top.obj, m)
      BY <2>1, <2>2, <2>3 DEF Encodings, EncodingOK
    <2>5. stack[i].op = "json" /\ Within(depth, R, heap, caches, o, m, j - i)
      <3>1. CASE i = n
        <4>1. j - i = 1
          BY <1>1, <1>5, <3>1
        <4>. QED BY <1>1, <1>3, <2>1, <2>2, <2>4, <3>1, <4>1, BeneathWithin
      <3>2. CASE i # n
        <4>1. i \in 1..n - 1 /\ n - i \in Nat /\ n - i >= 1 /\ j - i = (n - i) + 1
          BY <1>1, <1>3, <1>5, <3>2
        <4>2. stack[i].op = "json" /\ Within(depth, R, heap, caches, o, Top.obj, n - i)
          BY <2>1, <2>2, <4>1 DEF Encodings
        <4>3. Within(depth, R, heap, caches, o, m, (n - i) + 1)
          BY <1>1, <1>3, <2>1, <2>2, <2>4, <4>1, <4>2, WithinBeneath
        <4>. QED BY <4>1, <4>2, <4>3
      <3>. QED BY <3>1, <3>2
    <2>6. Within(depth, R2, heap', caches', o, m, j - i)
      BY <1>1, <1>3, <2>1, <2>5, WithinStays
    <2>. QED BY <1>3, <2>1, <2>5, <2>6
  <1>. QED BY <1>2, <1>4, <1>5, SameObject

-----------------------------------------------------------------------------
(* JsonEnds.                                                               *)

\* The fields that answer their argument or its parent, at all times.
LEMMA SpecSettled ==
  ASSUME NEW t, Ranked(t)
  PROVE  Spec => [](Elements(t) /\ Answering(t) /\ Settled(t))
  <1>. DEFINE Inv == Elements(t) /\ Answering(t) /\ Settled(t)
  <1>1. Init => Inv
    <2>. SUFFICES ASSUME Init PROVE Inv
      OBVIOUS
    <2>1. Len(stack) = 0
      BY EmptySeq DEF Init
    <2>2. \A i \in 1..Len(stack) : FALSE
      BY <2>1
    <2>3. Len(heap) = 1 /\ heap[1].cache = 0 /\ 1..1 = {1}
      BY DEF Init
    <2>. QED BY <2>2, <2>3 DEF Elements, Answering, Settled, Reads
  <1>2. WellFormed /\ SomeRoles(t) /\ Inv /\ [Next]_vars => Inv'
    <2>. SUFFICES ASSUME WellFormed, SomeRoles(t), Elements(t), Answering(t), Settled(t), [Next]_vars
                  PROVE  Elements(t)' /\ Answering(t)' /\ Settled(t)'
      OBVIOUS
    <2>. PICK R : RoledHeap(t, R, heap, caches, arrays) /\ RoledStack(t, R, arrays, stack)
      BY DEF SomeRoles
    <2>. QED BY NextElements, NextAnswering, NextSettled
  <1>. HIDE DEF Inv
  <1>3. Spec => []Inv
    BY <1>1, <1>2, SpecWF, SpecRoles, PTL DEF Spec
  <1>. QED BY <1>3 DEF Inv

\* Objects have roles of which the encodings get ever lower.
SomeEncodings(t, depth) ==
    \E R : /\ RoledHeap(t, R, heap, caches, arrays) /\ RoledStack(t, R, arrays, stack)
           /\ Encodings(depth, R)

LEMMA InitEncodings == ASSUME Init, NEW t, Ranked(t), NEW depth PROVE SomeEncodings(t, depth)
  <1>. PICK R : RoledHeap(t, R, heap, caches, arrays) /\ RoledStack(t, R, arrays, stack)
    BY InitRoles DEF SomeRoles
  <1>1. Len(stack) = 0
    BY EmptySeq DEF Init
  <1>2. \A i \in 1..Len(stack) : FALSE
    BY <1>1
  <1>. QED BY <1>2 DEF Encodings, SomeEncodings

LEMMA NextEncodings ==
  ASSUME WellFormed, WellFormed', Pending, NEW t, Ranked(t), NEW depth, Encodable(t, depth),
         NEW T, SomeClean(T), Settled(t), SomeEncodings(t, depth), [Next]_vars
  PROVE  SomeEncodings(t, depth)'
  <1>. PICK R : /\ RoledHeap(t, R, heap, caches, arrays) /\ RoledStack(t, R, arrays, stack)
                /\ Encodings(depth, R)
    BY DEF SomeEncodings
  <1>. PICK R2 : /\ Extends(R, R2)
                 /\ RoledHeap(t, R2, heap', caches', arrays') /\ RoledStack(t, R2, arrays', stack')
    BY NextRoles DEF RolesGoOn
  <1>1. \A i \in 1..Len(stack') : EncodingOK(depth, R2, heap', caches', stack'[i])
    BY NextEncoding
  <1>2. ASSUME NEW j \in 1..Len(stack'), NEW i \in 1..j - 1, stack'[j].op = "json"
        PROVE  stack'[i].op = "json" /\ Within(depth, R2, heap', caches', stack'[i].obj, stack'[j].obj, j - i)
    BY <1>2, NextWithin
  <1>. QED BY <1>1, <1>2 DEF SomeEncodings, Encodings

LEMMA EncodingsEnd ==
  ASSUME WellFormed, NEW t, NEW depth, SomeEncodings(t, depth)
  PROVE  JsonEnds
  <1>. PICK R : RoledHeap(t, R, heap, caches, arrays) /\ Encodings(depth, R)
    BY DEF SomeEncodings
  <1>1. DOMAIN stack = 1..Len(stack) /\ Len(stack) \in Nat
    BY Typed
  <1>. SUFFICES ASSUME NEW i \in 1..Len(stack), NEW j \in 1..Len(stack), i < j,
                       stack[i].op = "json", stack[j].op = "json", stack[i].obj = stack[j].obj
                PROVE  FALSE
    BY <1>1 DEF JsonEnds
  <1>2. i \in 1..j - 1
    OBVIOUS
  <1>3. Within(depth, R, heap, caches, stack[i].obj, stack[j].obj, j - i)
    BY <1>2 DEF Encodings
  <1>. QED BY <1>3 DEF Within

\* Encodings are in their places at all times.
LEMMA SpecEncodings ==
  ASSUME NEW t, Ranked(t), NEW depth, Encodable(t, depth), NEW T \in SUBSET Fields, SizesRead(T)
  PROVE  Spec => []SomeEncodings(t, depth)
  <1>1. Init => SomeEncodings(t, depth)
    BY InitEncodings
  <1>2. /\ WellFormed /\ WellFormed' /\ Pending /\ SomeClean(T) /\ Settled(t) /\ SomeEncodings(t, depth)
        /\ [Next]_vars
        => SomeEncodings(t, depth)'
    BY NextEncodings
  <1>3. Spec => []NoReentry
    BY RankedNeverReenters
  <1>4. Spec => []Pending
    BY <1>3, SpecPending, PTL
  <1>5. Spec => []Settled(t)
    BY SpecSettled, PTL
  <1>6. Spec => []SomeClean(T)
    BY SpecClean
  <1>. QED BY <1>1, <1>2, <1>4, <1>5, <1>6, SpecWF, PTL DEF Spec

(***************************************************************************)
(* MarshalJSON ends for definitions that are Encodable: no object is       *)
(* encoded inside itself, at whatever remove, although a value field may   *)
(* answer the parent or the copy of the struct it was given, which is one  *)
(* more object each time.  What struct.go:236 leaves out is the object     *)
(* itself and its parent; it is enough because copies share the cache      *)
(* (struct.go:252-259), so that a field which answers its argument answers *)
(* the very copy in that copy, and because a struct that is given one      *)
(* parent keeps it (struct.go:200-208).                                    *)
(***************************************************************************)
THEOREM EncodableStructsEnd ==
  ASSUME NEW t, Ranked(t), NEW depth, Encodable(t, depth), NEW T \in SUBSET Fields, SizesRead(T)
  PROVE  Spec => []JsonEnds
  <1>1. WellFormed /\ SomeEncodings(t, depth) => JsonEnds
    BY EncodingsEnd
  <1>2. Spec => []SomeEncodings(t, depth)
    BY SpecEncodings
  <1>. QED BY <1>1, <1>2, SpecWF, PTL

-----------------------------------------------------------------------------
(* Nesting.                                                                *)

LEMMA LeastOf ==
  ASSUME NEW P, P \subseteq Nat, P # {}
  PROVE  \E x \in P : \A y \in P : x <= y
  <1>. DEFINE R == OpToRel(<, Nat)
  <1>1. IsWellFoundedOn(R, Nat)
    BY NatLessThanWellFounded
  <1>2. \A x, y \in Nat : x < y => <<x, y>> \in R
    BY DEF OpToRel
  <1>. HIDE DEF R
  <1>3. PICK x \in P : \A y \in P : ~(<<y, x>> \in R)
    BY <1>1, WFMin
  <1>4. \A y \in P : x <= y
    <2>. TAKE y \in P
    <2>1. x \in Nat /\ y \in Nat /\ ~(y < x)
      BY <1>2, <1>3
    <2>. QED BY <2>1
  <1>. QED BY <1>3, <1>4

\* So many encodings may be under way.
LEMMA EncodingsBounded ==
  ASSUME WellFormed, NEW depth, NEW t, Encodable(t, depth), NEW R, RoledHeap(t, R, heap, caches, arrays),
         Encodings(depth, R), NEW j \in 1..Len(stack), stack[j].op = "json"
  PROVE  j <= 2 * depth[R[stack[1].obj]] + 2
  <1>. DEFINE o == stack[1].obj
              n == stack[j].obj
  <1>1. Len(stack) \in Nat /\ 1 \in 1..Len(stack)
    BY Typed
  <1>2. o \in 1..Len(heap) /\ n \in 1..Len(heap)
    BY <1>1, Parts, FrameParts DEF StackOK, FrameOK
  <1>3. depth[R[o]] \in Nat /\ depth[R[n]] \in Nat
    BY <1>2, DepthIs
  <1>4. CASE j = 1
    BY <1>3, <1>4
  <1>5. CASE j # 1
    <2>1. 1 \in 1..j - 1
      BY <1>1, <1>5
    <2>2. Within(depth, R, heap, caches, o, n, j - 1)
      BY <2>1 DEF Encodings
    <2>3. j - 1 <= 2 * (depth[R[o]] - depth[R[n]]) + 1
      BY <1>1, <1>3, <2>2 DEF Within
    <2>. QED BY <1>1, <1>3, <2>3
  <1>. QED BY <1>4, <1>5

LEMMA NestingBounded ==
  ASSUME WellFormed, Ranked(Reading), Encodable(Reading, Depth), SomeEncodings(Reading, Depth)
  PROVE  Nesting
  <1>. SUFFICES ASSUME stack # <<>>
                PROVE  \E r \in Role, w \in Owner : Len(stack) <= 2 * Depth[r] + Reading.rank[w] + 3
    BY DEF Nesting
  <1>. PICK R : /\ RoledHeap(Reading, R, heap, caches, arrays) /\ RoledStack(Reading, R, arrays, stack)
                /\ Encodings(Depth, R)
    BY DEF SomeEncodings
  <1>. DEFINE n == Len(stack)
              r == R[stack[1].obj]
              w(i) == By(R, stack[i])
  <1>1. n \in Nat /\ n >= 1 /\ 1 \in 1..n /\ n \in 1..n
    BY TopParts, Typed
  <1>2. r \in Role /\ Depth[r] \in Nat
    <2>1. stack[1].obj \in 1..Len(heap)
      BY <1>1, Parts, FrameParts DEF StackOK, FrameOK
    <2>. QED BY <2>1, DepthIs
  <1>3. \A i \in 1..n : w(i) \in Owner /\ Reading.rank[w(i)] \in Nat
    <2>. TAKE i \in 1..n
    <2>1. FrameOK(heap, Len(arrays), stack[i])
      BY Parts DEF StackOK
    <2>2. w(i) \in Owner
      BY <2>1, ByIs
    <2>. QED BY <2>2, ReadingIs
  <1>4. \A j \in 1..n : stack[j].op = "json" => j <= 2 * Depth[r] + 2
    BY EncodingsBounded
  <1>5. CASE \A i \in 1..n : stack[i].op = "json"
    <2>1. n <= 2 * Depth[r] + 2
      BY <1>1, <1>4, <1>5
    <2>2. n <= 2 * Depth[r] + Reading.rank[w(1)] + 3
      BY <1>1, <1>2, <1>3, <2>1
    <2>. QED BY <1>1, <1>2, <1>3, <2>2
  <1>6. CASE \E i \in 1..n : stack[i].op # "json"
    <2>1. PICK p \in {i \in 1..n : stack[i].op # "json"} :
                  \A q \in {i \in 1..n : stack[i].op # "json"} : p <= q
      <3>1. {i \in 1..n : stack[i].op # "json"} \subseteq Nat /\ {i \in 1..n : stack[i].op # "json"} # {}
        BY <1>6
      <3>. QED BY <3>1, LeastOf
    <2>2. p \in 1..n /\ stack[p].op # "json" /\ \A i \in 1..n : i < p => stack[i].op = "json"
      BY <1>1, <2>1
    <2>3. p <= 2 * Depth[r] + 3
      <3>1. CASE p = 1
        BY <1>2, <3>1
      <3>2. CASE p # 1
        <4>1. p - 1 \in 1..n /\ stack[p - 1].op = "json"
          BY <1>1, <2>2, <3>2
        <4>2. p - 1 <= 2 * Depth[r] + 2
          BY <1>4, <4>1
        <4>. QED BY <1>1, <1>2, <2>2, <4>2
      <3>. QED BY <3>1, <3>2
    <2>4. n <= p + Reading.rank[w(p)]
      <3>1. CASE n = p
        BY <1>1, <1>3, <2>2, <3>1
      <3>2. CASE n # p
        <4>1. p \in 1..n - 1
          BY <1>1, <2>2, <3>2
        <4>2. Reading.rank[w(n)] + (n - p) <= Reading.rank[w(p)]
          BY <1>1, <2>2, <4>1 DEF RoledStack, RoledPlace
        <4>. QED BY <1>1, <1>3, <2>2, <4>2
      <3>. QED BY <3>1, <3>2
    <2>5. n <= 2 * Depth[r] + Reading.rank[w(p)] + 3
      BY <1>1, <1>2, <1>3, <2>2, <2>3, <2>4
    <2>. QED BY <1>2, <1>3, <2>2, <2>5
  <1>. QED BY <1>5, <1>6

(***************************************************************************)
(* The recursion never gets deeper than the definitions say, whatever is   *)
(* read and called: two encodings of each depth at most (struct.go:218-246)*)
(* and above them evaluations of ever lower rank (struct.go:161-209), the  *)
(* first of which is asked for by the user or by MarshalJSON.              *)
(***************************************************************************)
THEOREM NestingIsBounded ==
  ASSUME Ranked(Reading), Encodable(Reading, Depth), NEW T \in SUBSET Fields, SizesRead(T)
  PROVE  Spec => []Nesting
  <1>1. WellFormed /\ SomeEncodings(Reading, Depth) => Nesting
    BY NestingBounded
  <1>2. Spec => []SomeEncodings(Reading, Depth)
    BY SpecEncodings
  <1>. QED BY <1>1, <1>2, SpecWF, PTL

=============================================================================
