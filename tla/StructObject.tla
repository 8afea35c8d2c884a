---------------------------- MODULE StructObject ----------------------------
(***************************************************************************)
(* The lazy evaluation of struct fields: StructObject.Get with its cache,  *)
(* the lambdas of offsets, values and sizes with the copy of the struct    *)
(* each of them is given (getThis), references, the parent pointers, the   *)
(* arrays of structs, which are parsed at once, and MarshalJSON.           *)
(*                                                                         *)
(* One goroutine evaluates, so a call never meets another one; a step is   *)
(* one field access of a lambda.  The steps are separate because the data  *)
(* the reader sees may change between any two of them (a live device, a    *)
(* file that is being written), which is when it matters what was cached.  *)
(***************************************************************************)
EXTENDS Naturals, Sequences, Functions

CONSTANTS Structs,      \* the struct types
          Fields,       \* all field names
          Def,          \* Def[s][f]: the definition of field f of struct s
          SizeLambda,   \* SizeLambda[s]: the size expression, <<>> if fixed
          Shown,        \* Shown[s]: the fields that MarshalJSON looks at, in order
          Roots,        \* the structs the user may parse
          Count,        \* the elements of an array whose count is not 0
          Unreadable,   \* the epochs in which every read fails
          MaxCalls,     \* bound: calls by the user
          MaxEpoch,     \* bound: changes of the data under the reader
          Reading,      \* what the definitions lead to, for Nesting (see Ranked)
          Depth         \* and how deep their JSON is (see Encodable)

(***************************************************************************)
(* A lambda is the paths it reads from its argument, in order, each a      *)
(* sequence of field names and "Parent"; its value is that of the last.    *)
(* For an int or struct field it is the offset expression (<<>> when the   *)
(* offset is fixed), for a value field it is the value, for an array of    *)
(* structs the count (<<>> when that is a number).                         *)
(***************************************************************************)
Path   == Seq(Fields \cup {"Parent"})
Lambda == Seq(Path)
FieldDef == [kind : {"absent", "int", "struct", "array", "value"}, of : Structs, lambda : Lambda]

ASSUME StructAssumption ==
    /\ "Parent" \notin Fields /\ "orig" \notin Fields
    /\ Def \in [Structs -> [Fields -> FieldDef]]
    /\ SizeLambda \in [Structs -> Lambda] /\ Shown \in [Structs -> Seq(Fields)]
    /\ Roots \subseteq Structs /\ Count \in Nat /\ Unreadable \subseteq Nat
    /\ MaxCalls \in Nat /\ MaxEpoch \in Nat \ {0}

VARIABLES
    heap,     \* the StructObjects made so far
    caches,   \* the maps made for their caches
    arrays,   \* the contents of the ArrayObjects made so far
    stack,    \* the evaluations that are under way, innermost last
    epoch,    \* what the reader would read now
    calls,    \* number of calls by the user
    held,     \* the objects the user holds
    answers   \* what Get answered: field of a struct, and value

vars == <<heap, caches, arrays, stack, epoch, calls, held, answers>>

(***************************************************************************)
(* A value: null, an object, an array, or an int, which is when it was     *)
(* read (0 if that failed, which answers 0) and the value its offset       *)
(* expression had.  Unset marks a field not yet cached.                    *)
(***************************************************************************)
Value    == [type : {"unset", "null", "int", "object", "array"}, at : Nat, off : Nat, obj : Nat]
Unset    == [type |-> "unset", at |-> 0, off |-> 0, obj |-> 0]
Null     == [type |-> "null", at |-> 0, off |-> 0, obj |-> 0]
Number(t, o) == [type |-> "int", at |-> t, off |-> o, obj |-> 0]
Object(o) == [type |-> "object", at |-> 0, off |-> 0, obj |-> o]
Array(a)  == [type |-> "array", at |-> 0, off |-> 0, obj |-> a]

\* The object "this" names in its scope, its cache and its parent (0 for nil).
StructObject == [struct : Structs, orig : Nat, cache : Nat, parent : Nat]

(***************************************************************************)
(* An evaluation: for Get, Size, MarshalJSON or Value of a reference, of   *)
(* which field of which object, the copy its lambda got, the paths yet to  *)
(* read, where it is in the first of them, and the value of the last one   *)
(* it finished; then the elements of an array so far and how many are yet  *)
(* to come, or the objects MarshalJSON has yet to encode.                  *)
(***************************************************************************)
Frame == [op : {"get", "size", "ref", "json"}, obj : Nat, field : Fields \cup {"none"},
          copy : Nat, paths : Lambda, at : Value, last : Value, out : Seq(Nat), left : Nat]

Init ==
    /\ \E s \in Roots : heap = <<[struct |-> s, orig |-> 1, cache |-> 0, parent |-> 0]>>
    /\ caches = <<>> /\ arrays = <<>> /\ stack = <<>>
    /\ epoch = 1 /\ calls = 0 /\ held = {1} /\ answers = {}

-----------------------------------------------------------------------------
DefOf(o, f)    == Def[heap[o].struct][f]
HasField(o, f) == DefOf(o, f).kind # "absent"

Cached(o, f) == IF heap[o].cache = 0 THEN Unset ELSE caches[heap[o].cache][f]

\* Mutant: the copy begins with a cache of its own.
GetThis_DropsCache(h, o) == Append(h, [h[h[o].orig] EXCEPT !.cache = 0])

\* Mutant: the copy takes the struct it was copied from for its parent.
GetThis_ParentIsThis(h, o) == Append(h, [h[h[o].orig] EXCEPT !.parent = h[o].orig])

\* The object that holds "this" is copied, with the map it has by now if any.
GetThis(h, o) == Append(h, h[h[o].orig])

\* The evaluation of lambda l on behalf of object o, in the heap h.
Start(op, h, o, f, l) ==
    [op |-> op, obj |-> o, field |-> f, copy |-> IF l = <<>> THEN 0 ELSE Len(h) + 1,
     paths |-> l, at |-> Object(Len(h) + 1), last |-> Null, out |-> <<>>,
     left |-> IF op \in {"get", "ref"} /\ DefOf(o, f).kind = "array" THEN Count ELSE 0]

\* Mutant: nobody makes the map.
WithMap_Nil(o) == caches

\* The caches once o has its map.
WithMap(o) ==
    IF heap[o].cache = 0 THEN Append(caches, [f \in Fields |-> Unset]) ELSE caches

\* Push the evaluation of field f of o.  Get first makes the map if there is none.
Enter(op, o, f, below) ==
    LET l == DefOf(o, f).lambda
        m == IF heap[o].cache = 0 THEN Len(caches) + 1 ELSE heap[o].cache
        h == [heap EXCEPT ![o].cache = m]
    IN  /\ caches' = WithMap(o)
        /\ heap' = IF l = <<>> THEN h ELSE GetThis(h, o)
        /\ stack' = Append(below, Start(op, h, o, f, l))

-----------------------------------------------------------------------------
(* The calls of the user.                                                  *)

Call == stack = <<>> /\ calls < MaxCalls /\ calls' = calls + 1

\* What the user holds after being given v.
Holding(v) ==
    CASE v.type = "object" -> held \cup {v.obj}
      [] v.type = "array"  -> held \cup Range(arrays'[v.obj])
      [] OTHER             -> held

Get(o, f) ==
    /\ Call /\ o \in held /\ HasField(o, f)
    /\ UNCHANGED <<arrays, epoch>>
    /\ IF Cached(o, f) # Unset
         THEN /\ answers' = answers \cup {<<<<heap[o].orig, f>>, Cached(o, f)>>}
              /\ held' = Holding(Cached(o, f))
              /\ UNCHANGED <<heap, caches, stack>>
         ELSE Enter("get", o, f, <<>>) /\ UNCHANGED <<held, answers>>

\* Get of "@f" answers a reference; its Value parses the field anew each time.
RefValue(o, f) ==
    /\ Call /\ o \in held /\ HasField(o, f)
    /\ Enter("ref", o, f, <<>>)
    /\ UNCHANGED <<arrays, held, answers, epoch>>

\* Size of a struct with a size expression (and End, which adds it to Start).
Size(o) ==
    /\ Call /\ o \in held /\ SizeLambda[heap[o].struct] # <<>>
    /\ heap' = GetThis(heap, o)
    /\ stack' = <<Start("size", heap, o, "none", SizeLambda[heap[o].struct])>>
    /\ UNCHANGED <<caches, arrays, held, answers, epoch>>

Parent(o) ==
    /\ Call /\ o \in held /\ heap[o].parent # 0
    /\ held' = held \cup {heap[o].parent}
    /\ UNCHANGED <<heap, caches, arrays, stack, epoch, answers>>

\* MarshalJSON reads the fields as a lambda would, of the object itself.
Marshal(h, o) ==
    [Start("json", h, o, "none", [i \in DOMAIN Shown[h[o].struct] |-> <<Shown[h[o].struct][i]>>])
        EXCEPT !.copy = o, !.at = Object(o)]

MarshalJSON(o) ==
    /\ Call /\ o \in held
    /\ stack' = <<Marshal(heap, o)>>
    /\ UNCHANGED <<heap, caches, arrays, held, answers, epoch>>

-----------------------------------------------------------------------------
(* The evaluation.                                                         *)

Top   == stack[Len(stack)]
Below == SubSeq(stack, 1, Len(stack) - 1)

\* Mutant: a lambda keeps asking for the field of a null.
Moved_WaitsForValue(fr, v) ==
    IF v.type = "null" THEN [fr EXCEPT !.at = v]
                       ELSE [fr EXCEPT !.at = v, !.paths[1] = Tail(@)]

\* The frame of an evaluation after its current path moved on to value v.
Moved(fr, v) == [fr EXCEPT !.at = v, !.paths[1] = Tail(@)]

\* Mutant: the struct itself is left out, its parent is not.
Encoded_Parent(o, v) ==
    CASE v.type = "array" -> arrays[v.obj]
      [] v.type = "object" /\ v.obj # o -> <<v.obj>>
      [] OTHER -> <<>>

\* The objects to encode for a field of o that is v; o itself and its parent
\* are left out.
Encoded(o, v) ==
    CASE v.type = "array" -> arrays[v.obj]
      [] v.type = "object" /\ v.obj \notin {o, heap[o].parent} -> <<v.obj>>
      [] OTHER -> <<>>

\* The first path has been read to its end.
EndPath ==
    /\ stack # <<>> /\ Top.paths # <<>> /\ Head(Top.paths) = <<>>
    /\ stack' = Append(Below,
           [Top EXCEPT !.last = Top.at, !.paths = Tail(@), !.at = Object(Top.copy),
                       !.out = IF Top.op = "json" THEN @ \o Encoded(Top.obj, Top.at) ELSE @])
    /\ UNCHANGED <<heap, caches, arrays, epoch, calls, held, answers>>

\* One more access: of the parent, a field that is cached, or no such thing.
Access ==
    /\ stack # <<>> /\ Top.paths # <<>> /\ Head(Top.paths) # <<>>
    /\ LET f == Head(Head(Top.paths))
           o == Top.at.obj
       IN  \/ /\ Top.at.type # "object"
              /\ stack' = Append(Below, Moved(Top, Null))
           \/ /\ Top.at.type = "object" /\ f = "Parent"
              /\ stack' = Append(Below, Moved(Top,
                             IF heap[o].parent = 0 THEN Null ELSE Object(heap[o].parent)))
           \/ /\ Top.at.type = "object" /\ f # "Parent" /\ ~HasField(o, f)
              /\ stack' = Append(Below, Moved(Top, Null))
           \/ /\ Top.at.type = "object" /\ f # "Parent" /\ HasField(o, f)
              /\ Cached(o, f) # Unset
              /\ stack' = Append(Below, Moved(Top, Cached(o, f)))
    /\ UNCHANGED <<heap, caches, arrays, epoch, calls, held, answers>>

\* A field that is not cached: its own evaluation comes first.
Descend ==
    /\ stack # <<>> /\ Top.paths # <<>> /\ Head(Top.paths) # <<>>
    /\ Top.at.type = "object"
    /\ LET f == Head(Head(Top.paths))
           o == Top.at.obj
       IN  /\ f # "Parent" /\ HasField(o, f) /\ Cached(o, f) = Unset
           /\ Enter("get", o, f, stack)
    /\ UNCHANGED <<arrays, epoch, calls, held, answers>>

\* MarshalJSON of an object found in a field comes before that of the next.
Encode ==
    /\ stack # <<>> /\ Top.op = "json" /\ Top.paths = <<>> /\ Top.out # <<>>
    /\ stack' = Append(Append(Below, [Top EXCEPT !.out = Tail(@)]), Marshal(heap, Head(Top.out)))
    /\ UNCHANGED <<heap, caches, arrays, epoch, calls, held, answers>>

NewObject(s) == [struct |-> s, orig |-> Len(heap) + 1, cache |-> 0, parent |-> 0]

\* Mutant: an element is given its parent when it is made.
Element_Parented(s) == [NewObject(s) EXCEPT !.parent = Top.obj]

\* An element of an array of structs s; the array gets its parent later.
Element(s) == NewObject(s)

\* An int that is not 0, as a count or a size.
NonZero(v) == v.type = "int" /\ v.at # 0

\* The count of the array is known and there is an element to come.
InArray(fr) ==
    /\ fr.paths = <<>> /\ fr.left > 0
    /\ DefOf(fr.obj, fr.field).lambda = <<>> \/ NonZero(fr.last)

\* The next element is parsed; its size may be a lambda, of an element that
\* has no parent yet.
NextElement ==
    /\ stack # <<>> /\ InArray(Top)
    /\ LET s == DefOf(Top.obj, Top.field).of
           h == Append(heap, Element(s))
           rest == [Top EXCEPT !.left = @ - 1]
       IN  IF SizeLambda[s] = <<>>
             THEN /\ heap' = h
                  /\ stack' = Append(Below, [rest EXCEPT !.out = Append(@, Len(h))])
             ELSE /\ heap' = GetThis(h, Len(h))
                  /\ stack' = Append(Append(Below, rest),
                                     Start("size", h, Len(h), "none", SizeLambda[s]))
    /\ UNCHANGED <<caches, arrays, epoch, calls, held, answers>>

\* The frame below, given the value v of the evaluation fr; an array ends
\* before an element of size 0, which is not kept.
Resumed(below, fr, v) ==
    CASE fr.op = "json" -> below
      [] fr.op = "size" /\ v = Null -> [below EXCEPT !.left = 0]
      [] fr.op = "size" /\ v # Null -> [below EXCEPT !.out = Append(@, fr.obj)]
      [] OTHER -> Moved(below, v)

\* Mutant: what the user is told was read at the time of the answer.
Deliver_Fresh(fr, v) ==
    IF Len(stack) = 1
      THEN /\ stack' = <<>>
           /\ held' = Holding(v)
           /\ answers' = IF fr.op = "get"
                           THEN answers \cup {<<<<heap[fr.obj].orig, fr.field>>,
                                                [v EXCEPT !.at = epoch]>>}
                           ELSE answers
      ELSE /\ stack' = [Below EXCEPT ![Len(Below)] = Resumed(@, fr, v)]
           /\ UNCHANGED <<held, answers>>

\* The value goes to the evaluation that wanted it, or to the user.
Deliver(fr, v) ==
    IF Len(stack) = 1
      THEN /\ stack' = <<>>
           /\ held' = Holding(v)
           /\ answers' = IF fr.op = "get"
                           THEN answers \cup {<<<<heap[fr.obj].orig, fr.field>>, v>>}
                           ELSE answers
      ELSE /\ stack' = [Below EXCEPT ![Len(Below)] = Resumed(@, fr, v)]
           /\ UNCHANGED <<held, answers>>

\* The structs that Get makes its own: the one it found, or those of the array.
Adopted(v) ==
    CASE v.type = "object" -> {v.obj}
      [] v.type = "array"  -> Range(arrays'[v.obj])
      [] OTHER             -> {}

\* Mutant: a struct reached by a reference gets a parent too.
Adopt_References(h, fr, v) ==
    [i \in DOMAIN h |-> IF i \in Adopted(v) THEN [h[i] EXCEPT !.parent = fr.obj] ELSE h[i]]

\* Get makes its object the parent of what it found, new or not.
Adopt(h, fr, v) ==
    [i \in DOMAIN h |-> IF fr.op = "get" /\ i \in Adopted(v)
                          THEN [h[i] EXCEPT !.parent = fr.obj] ELSE h[i]]

\* What is parsed when everything the lambda reads is known.
Kind(fr) == IF fr.op \in {"get", "ref"} THEN DefOf(fr.obj, fr.field).kind ELSE fr.op
Parsed(fr, h) ==
    CASE Kind(fr) = "int"    -> Number(IF epoch \in Unreadable THEN 0 ELSE epoch, fr.last.at)
      [] Kind(fr) = "struct" -> Object(Len(h))
      [] Kind(fr) = "array"  -> Array(Len(arrays) + 1)
      [] Kind(fr) = "value"  -> fr.last
      [] Kind(fr) = "size"   -> IF NonZero(fr.last) THEN fr.last ELSE Null
      [] Kind(fr) = "json"   -> Null

\* The field is parsed, Get caches it.
Finish ==
    /\ stack # <<>> /\ Top.paths = <<>>
    /\ ~ InArray(Top) /\ (Top.op = "json" => Top.out = <<>>)
    /\ LET h == IF Kind(Top) = "struct"
                  THEN Append(heap, NewObject(DefOf(Top.obj, Top.field).of)) ELSE heap
           v == Parsed(Top, h)
       IN  /\ arrays' = IF Kind(Top) = "array" THEN Append(arrays, Top.out) ELSE arrays
           /\ heap' = Adopt(h, Top, v)
           /\ caches' = IF Top.op = "get"
                          THEN [caches EXCEPT ![heap[Top.obj].cache][Top.field] = v]
                          ELSE caches
           /\ Deliver(Top, v)
    /\ UNCHANGED <<epoch, calls>>

\* The data under the reader changes.
Change ==
    /\ epoch < MaxEpoch /\ epoch' = epoch + 1
    /\ UNCHANGED <<heap, caches, arrays, stack, calls, held, answers>>

Step == EndPath \/ Access \/ Descend \/ NextElement \/ Encode \/ Finish

Next ==
    \/ Step
    \/ \E o \in held : Size(o) \/ Parent(o) \/ MarshalJSON(o)
    \/ \E o \in held, f \in Fields : Get(o, f) \/ RefValue(o, f)
    \/ Change

\* A call that was made is worked on until it returns.
Spec == Init /\ [][Next]_vars /\ WF_vars(Step)
-----------------------------------------------------------------------------
(* What is checked.                                                        *)

TypeOK ==
    /\ heap \in Seq(StructObject) /\ stack \in Seq(Frame)
    /\ caches \in Seq([Fields -> Value]) /\ arrays \in Seq(Seq(DOMAIN heap))
    /\ \A i \in DOMAIN heap :
        heap[i].orig \in 1..i /\ heap[i].cache <= Len(caches) /\ heap[i].parent <= Len(heap)
    /\ \A i \in DOMAIN stack : stack[i].obj \in DOMAIN heap /\ stack[i].copy <= Len(heap)
    /\ held \subseteq DOMAIN heap /\ calls \in 0..MaxCalls /\ epoch \in 1..MaxEpoch

\* The structs that were parsed, as opposed to the copies made for lambdas.
Originals == {o \in DOMAIN heap : heap[o].orig = o}

\* Field f of a struct follows its field g: what it reads last is that.
Follows(s, f, g) ==
    /\ Def[s][f].kind \in {"int", "value"} /\ Def[s][f].lambda # <<>>
    /\ Def[s][f].lambda[Len(Def[s][f].lambda)] = <<g>> /\ Def[s][g].kind # "absent"

(***************************************************************************)
(* A struct is one consistent view of the data: a value field that answers *)
(* another field has the very value that field is cached with, and an int  *)
(* was read at the offset the cached field gives, although the data may    *)
(* have changed between the two reads and the lambda read from a copy.     *)
(* Depends on struct.go:252-259 sharing the map that struct.go:165 made.   *)
(***************************************************************************)
ConsistentView ==
    \A o \in Originals, f, g \in Fields : Follows(heap[o].struct, f, g) =>
        LET v == Cached(o, f)
            w == Cached(o, g)
        IN  v # Unset => /\ w # Unset
                         /\ DefOf(o, f).kind = "value" => v = w
                         /\ DefOf(o, f).kind = "int" => v.off = w.at

(***************************************************************************)
(* A field is never evaluated inside its own evaluation, so that a struct  *)
(* whose definition has no cycle is never read without end (struct.go:199  *)
(* writes the cache only after the evaluation, so it cannot break one).    *)
(***************************************************************************)
NoReentry ==
    \A i, j \in DOMAIN stack :
        /\ i < j /\ stack[i].op = "get" /\ stack[j].op = "get"
        /\ heap[stack[i].obj].orig = heap[stack[j].obj].orig
        => stack[i].field # stack[j].field

(***************************************************************************)
(* Going to the parent undoes going into a field: the parent of a struct   *)
(* is one that has the struct itself, not another parse of the same bytes, *)
(* as the value of a field or in the array that is (struct.go:200-208).    *)
(***************************************************************************)
ParentKnowsChild ==
    \A o \in Originals : heap[o].parent # 0 =>
        \E f \in Fields : LET v == Cached(heap[o].parent, f) IN
            v = Object(o) \/ (v.type = "array" /\ o \in Range(arrays[v.obj]))

(***************************************************************************)
(* MarshalJSON ends: no object is encoded inside itself, although lambdas  *)
(* answer the parent, and copies of the struct with a field that answers   *)
(* such a copy.  The copies share one cache, so in the first of them the   *)
(* field is that copy itself, which struct.go:236 leaves out, and so it    *)
(* does a parent.                                                          *)
(***************************************************************************)
JsonEnds ==
    \A i, j \in DOMAIN stack :
        i < j /\ stack[i].op = "json" /\ stack[j].op = "json" => stack[i].obj # stack[j].obj

\* The size of s is read from its parent only.
SizedByParent(s) ==
    SizeLambda[s] # <<>> /\ \A p \in Range(SizeLambda[s]) : p # <<>> /\ Head(p) = "Parent"

(***************************************************************************)
(* The elements of an array are measured while they have no parent yet     *)
(* (array.go:121 comes before struct.go:205), so an array of structs whose *)
(* size is read from the parent is empty, whatever its count.              *)
(***************************************************************************)
MeasuredWithoutParent ==
    \A a \in DOMAIN arrays : \A o \in Range(arrays[a]) : ~ SizedByParent(heap[o].struct)

(***************************************************************************)
(* The user may hold a struct and copies of it, from lambdas that answer   *)
(* their argument or its parent; all of them answer every field with one   *)
(* value, which is the one the struct has cached.                          *)
(***************************************************************************)
Record == INSTANCE LazyRecord WITH
    memo <- {p \in {<<<<o, f>>, Cached(o, f)>> : o \in Originals, f \in Fields} :
                p[2] # Unset}
OneAnswerPerField == Record!Spec

(***************************************************************************)
(* Definitions without a cycle, told from the definitions alone.           *)
(*                                                                         *)
(* The role of an object is <<s, "orig">> if it is a struct s that was     *)
(* parsed, and <<s, f>> if it is a copy made for the lambda of field f,    *)
(* "none" for that of the size; the latter also name the evaluations.  A   *)
(* reading t of the definitions has in                                     *)
(*   answers[<<s, f>>] the roles of what f may answer, itself or in an     *)
(*                     array,                                              *)
(*   parents[r]        the structs of what may be the parent of an r,      *)
(*   reads             <<w, r, p>> if evaluation w, being at an object of  *)
(*                     role r, may have the path p yet to read, and        *)
(*   rank[w]           a number above that of every evaluation which w may *)
(*                     have to wait for.                                   *)
(***************************************************************************)
Owner == Structs \X (Fields \cup {"none"})
Role  == Structs \X (Fields \cup {"none", "orig"})

\* Fields answer what they parse, or what a path of theirs leads to, and their
\* struct becomes its parent; a copy begins with the parent of the original.
AnswersRead(t) ==
    /\ \A w \in Owner : \A r \in t.answers[w] : w[1] \in t.parents[r]
    /\ \A w \in Owner : t.parents[<<w[1], "orig">>] \subseteq t.parents[w]
    /\ \A s \in Structs, f \in Fields :
          /\ Def[s][f].kind \in {"struct", "array"} => <<Def[s][f].of, "orig">> \in t.answers[<<s, f>>]
          /\ Def[s][f].kind = "value" =>
                \A r \in Role : <<<<s, f>>, r, <<>>>> \in t.reads => r \in t.answers[<<s, f>>]

\* Lambdas read from their copy on, through parents and what fields answer.
PathsRead(t) ==
    /\ \A s \in Structs, f \in Fields : \A p \in Range(Def[s][f].lambda) :
          <<<<s, f>>, <<s, f>>, p>> \in t.reads
    /\ \A s \in Structs : \A p \in Range(SizeLambda[s]) : <<<<s, "none">>, <<s, "none">>, p>> \in t.reads
    /\ \A x \in t.reads :
          LET w == x[1]
              r == x[2]
              p == x[3]
          IN  /\ p # <<>> /\ Head(p) = "Parent" =>
                    \A q \in Role : q[1] \in t.parents[r] => <<w, q, Tail(p)>> \in t.reads
              /\ p # <<>> /\ Head(p) # "Parent" /\ Def[r[1]][Head(p)].kind # "absent" =>
                    /\ t.rank[<<r[1], Head(p)>>] < t.rank[w]
                    /\ \A q \in t.answers[<<r[1], Head(p)>>] : <<w, q, Tail(p)>> \in t.reads

Ranked(t) ==
    /\ t.rank \in [Owner -> Nat] /\ t.answers \in [Owner -> SUBSET Role]
    /\ t.parents \in [Role -> SUBSET Structs] /\ t.reads \subseteq Owner \X Role \X Path
    /\ AnswersRead(t) /\ PathsRead(t)
    /\ \A s \in Structs, f \in Fields : Def[s][f].kind = "array" /\ SizeLambda[Def[s][f].of] # <<>> =>
          t.rank[<<Def[s][f].of, "none">>] < t.rank[<<s, f>>]

(***************************************************************************)
(* Definitions that MarshalJSON comes to the end of, told from a reading   *)
(* t: an object is deeper than those that its shown fields answer.  Two    *)
(* fields may answer what is left out, that of a struct which is given no  *)
(* second parent, if it answers the parent, and in the copy made for it a  *)
(* field that answers its argument, which is that very copy.               *)
(***************************************************************************)
KeepsParent(t, s) ==
    \A z \in Structs, f \in Fields : Def[z][f].kind = "value" => <<s, "orig">> \notin t.answers[<<z, f>>]

LeftOut(t, r, f, q) ==
    /\ Def[r[1]][f].kind = "value"
    /\ \/ Def[r[1]][f].lambda = <<<<"Parent">>>> /\ r[2] = "orig" /\ KeepsParent(t, r[1])
       \/ Def[r[1]][f].lambda = <<<<>>>> /\ r[2] = f /\ q = r

Encodable(t, depth) ==
    /\ depth \in [Role -> Nat]
    /\ \A r \in Role : \A f \in Range(Shown[r[1]]) : \A q \in t.answers[<<r[1], f>>] :
          depth[q] < depth[r] \/ LeftOut(t, r, f, q)

\* The lambda l reads no fields but those of T.
ReadsOnly(l, T) ==
    \A i \in 1..Len(l) : \A j \in 1..Len(l[i]) : l[i][j] \in T \cup {"Parent"}

\* Sizes are read, at whatever remove, from the fields T, no value among them.
SizesRead(T) ==
    /\ \A s \in Structs : ReadsOnly(SizeLambda[s], T)
    /\ \A s \in Structs, f \in T : Def[s][f].kind # "value" /\ ReadsOnly(Def[s][f].lambda, T)

(***************************************************************************)
(* The recursion of Get, lambdas and MarshalJSON is only as deep as the    *)
(* definitions say: MarshalJSON has at most two objects of one depth, a    *)
(* struct and a copy that a field of it answers, and the evaluations above *)
(* it have ever lower ranks.  Data, calls and caches do not matter; Go has *)
(* no limit but its stack (struct.go:161-209, 218-246).                    *)
(***************************************************************************)
Nesting ==
    stack # <<>> => \E r \in Role, w \in Owner : Len(stack) <= 2 * Depth[r] + Reading.rank[w] + 3

\* Every call returns (the definitions of the instance have no cycle).
Terminates == stack # <<>> ~> stack = <<>>
=============================================================================
