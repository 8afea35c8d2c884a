--------------------------- MODULE ProfileProofs ---------------------------
(***************************************************************************)
(* The invariants of Profile, for every set of names, every set of texts   *)
(* and any number of loads.                                                *)
(***************************************************************************)
EXTENDS Profile, SequenceTheorems, TLAPS

(***************************************************************************)
(* The inductive invariant, in parts.                                      *)
(***************************************************************************)

\* What holds of one field, whoever built it and however often it was parsed.
CellInv(c) ==
    /\ c.parser # "invalid"
    /\ c.type.outer = "none" => c.outer = "nil"
    /\ c.outer # "set" => c.inner = "nil"
    /\ c.logs = IF c.outer = "invalid" \/ c.inner = "invalid" THEN 1 ELSE 0

CellsInv == \A s \in Names : \A j \in 1..Len(fields[s]) : CellInv(fields[s][j])

\* A silently null field that no load may report as a success.
Unreported(c) == SilentNull(c) /\ ~(c.type.outer \in LazyKinds /\ c.type.inner \in StrictKinds)

\* A name that is free never had fields, and owners are loads that began.
TableInv ==
    /\ \A n \in Names : types[n] = "absent" => fields[n] = <<>> /\ owner[n] = 0
    /\ \A n \in Names : owner[n] <= loads

\* While a load runs its result is open and it is somewhere in its text.
RunningInv ==
    /\ pc # "idle" => loads \in 1..MaxLoads /\ results[loads] = "running"
    /\ pc = "fields" => /\ si <= Len(Text)
                        /\ owner[Struct.name] = loads
                        /\ Len(fields[Struct.name]) = fi - 1

\* A deferred lookup is of a field of this load, whose type is a bare name that
\* is still free or is by now a struct: its New cannot fail.
Resolvable(p) ==
    /\ owner[p.struct] = loads
    /\ p.field <= Len(fields[p.struct])
    /\ LET t == fields[p.struct][p.field].type IN
       t.outer = "none" /\ types[t.leaf] \in {"absent", "struct"}

PendingInv ==
    pc # "idle" /\ err = "nil" => \A i \in 1..Len(pending) : Resolvable(pending[i])

\* A field without a parser is one the return will look up.
CoveredInv ==
    pc # "idle" /\ err = "nil" =>
        \A s \in Names : owner[s] = loads =>
            \A j \in 1..Len(fields[s]) :
                /\ ~Unreported(fields[s][j])
                /\ \/ fields[s][j].parser = "set"
                   \/ \E i \in 1..Len(pending) : pending[i] = [struct |-> s, field |-> j]

SuccessInv ==
    \A s \in Names : owner[s] # 0 /\ results[owner[s]] = "ok" =>
        \A j \in 1..Len(fields[s]) : fields[s][j].parser = "set" /\ ~Unreported(fields[s][j])

\* Load l2 begins with a struct that the earlier load l1 left behind.
Repeats(l1, l2) ==
    /\ texts[l1] # <<>> /\ owner[texts[l1][1].name] = l1
    /\ texts[l2] # <<>> /\ texts[l2][1].name = texts[l1][1].name

RetryInv ==
    \A l1, l2 \in 1..loads : l1 < l2 /\ Repeats(l1, l2) =>
        /\ results[l2] # "ok"
        /\ l2 = loads /\ pc # "idle" /\ err = "nil" => pc = "structs" /\ si = 1

\* These parts are inductive on their own.  With them CoveredInv and SuccessInv
\* are inductive together, and so is RetryInv.
Base == TypeOK /\ CellsInv /\ TableInv /\ RunningInv /\ PendingInv

-----------------------------------------------------------------------------
(***************************************************************************)
(* What New and Parse do to one field.                                     *)
(***************************************************************************)

\* A New that reports no error made a parser; its pointer is nil or set.
LEMMA LookupFacts ==
    ASSUME NEW n \in Names
    PROVE  /\ Lookup(n).made \in BOOLEAN /\ Lookup(n).held = "nil"
           /\ Lookup(n).res = "ok" => Lookup(n).made
           /\ types[n] = "struct" /\ n \notin ModelTypes => Lookup(n).res = "ok"
           /\ types[n] = "struct" => Lookup(n).made
BY DEF Lookup

\* A wrapper passes this on; a strict one that reports no error holds its
\* element, and only a lazy one can hide the error of what it holds.
LEMMA WrapFacts ==
    ASSUME NEW w \in Wrappers \cup {"none"}, NEW r,
           r.made \in BOOLEAN, r.held \in {"nil", "set"}, r.res = "ok" => r.made
    PROVE  LET v == Wrap(w, r) IN
           /\ v.made \in BOOLEAN /\ v.held \in {"nil", "set"} /\ (v.res = "ok" => v.made)
           /\ w = "none" => v = r
           /\ w \in StrictKinds /\ v.res = "ok" => v.held = "set" /\ r.res = "ok"
           /\ w \in LateKinds => v.held = "nil"
BY DEF Wrap, SlotFor, Wrappers, LazyKinds, StrictKinds, LateKinds

\* The two wrappers of a type, on a table that maps names to anything.
LEMMA NewFacts ==
    ASSUME NEW t \in TypeTerm
    PROVE  LET i == NewInner(t)  o == NewOuter(t) IN
           /\ i.made \in BOOLEAN /\ i.held \in {"nil", "set"} /\ (i.res = "ok" => i.made)
           /\ o.made \in BOOLEAN /\ o.held \in {"nil", "set"} /\ (o.res = "ok" => o.made)
           /\ t.inner \in StrictKinds /\ i.res = "ok" => i.held = "set"
           /\ t.outer \in StrictKinds /\ o.res = "ok" => o.held = "set" /\ i.res = "ok"
           /\ t.outer \in LateKinds => o.held = "nil"
           /\ t.outer = "none" => o = Lookup(t.leaf)
<1> DEFINE l == Lookup(t.leaf)  i == NewInner(t)  o == NewOuter(t)
<1>1. /\ t.leaf \in Names /\ t.inner \in Wrappers \cup {"none"}
      /\ t.outer \in Wrappers \cup {"none"} /\ (t.outer = "none" => t.inner = "none")
  BY DEF TypeTerm
<1>2. l.made \in BOOLEAN /\ l.held \in {"nil", "set"} /\ (l.res = "ok" => l.made)
  BY <1>1, LookupFacts
<1>3. /\ i.made \in BOOLEAN /\ i.held \in {"nil", "set"} /\ (i.res = "ok" => i.made)
      /\ t.inner = "none" => i = l
      /\ t.inner \in StrictKinds /\ i.res = "ok" => i.held = "set"
  BY <1>1, <1>2, WrapFacts DEF NewInner
<1>4. /\ o.made \in BOOLEAN /\ o.held \in {"nil", "set"} /\ (o.res = "ok" => o.made)
      /\ t.outer = "none" => o = i
      /\ t.outer \in StrictKinds /\ o.res = "ok" => o.held = "set" /\ i.res = "ok"
      /\ t.outer \in LateKinds => o.held = "nil"
  BY <1>1, <1>3, WrapFacts DEF NewOuter
<1> QED BY <1>1, <1>3, <1>4

LEMMA UnbuiltFacts ==
    ASSUME NEW t \in TypeTerm
    PROVE  /\ Unbuilt(t) \in Cell /\ CellInv(Unbuilt(t)) /\ Unbuilt(t).type = t
           /\ ~Unreported(Unbuilt(t))
BY DEF Unbuilt, Cell, Slot, CellInv, Unreported, SilentNull

\* A field that New builds is well formed; when that New reports no error the
\* field has its parser and is silent only in the way no load can see.
LEMMA BuiltFacts ==
    ASSUME NEW t \in TypeTerm
    PROVE  /\ Built(t) \in Cell /\ CellInv(Built(t)) /\ Built(t).type = t
           /\ NewOuter(t).res = "ok" => Built(t).parser = "set" /\ ~Unreported(Built(t))
           /\ NewOuter(t).made /\ t.outer = "none" =>
                  Built(t).parser = "set" /\ ~Unreported(Built(t))
<1> DEFINE i == NewInner(t)  o == NewOuter(t)  c == Built(t)
<1>1. /\ i.held \in {"nil", "set"} /\ (i.res = "ok" => i.made)
      /\ o.made \in BOOLEAN /\ o.held \in {"nil", "set"} /\ (o.res = "ok" => o.made)
      /\ t.inner \in StrictKinds /\ i.res = "ok" => i.held = "set"
      /\ t.outer \in StrictKinds /\ o.res = "ok" => o.held = "set" /\ i.res = "ok"
      /\ t.outer \in LateKinds => o.held = "nil"
      /\ t.outer = "none" => o.held = "nil"
  BY NewFacts, LookupFacts DEF TypeTerm
<1>2. /\ c = [type |-> t, parser |-> SlotFor(o.made), outer |-> o.held,
               inner |-> IF o.held = "set" THEN i.held ELSE "nil", logs |-> 0]
      /\ t.outer \in LazyKinds \cup StrictKinds \cup LateKinds \cup {"none"}
  BY DEF Built, TypeTerm, Wrappers
<1> HIDE DEF i, o, c
<1>3. c \in Cell /\ CellInv(c) /\ c.type = t
  BY <1>1, <1>2 DEF Cell, Slot, SlotFor, CellInv
<1>4. o.res = "ok" => c.parser = "set" /\ ~Unreported(c)
  BY <1>1, <1>2 DEF SlotFor, Unreported, SilentNull, LazyKinds, StrictKinds, LateKinds
<1>5. o.made /\ t.outer = "none" => c.parser = "set" /\ ~Unreported(c)
  BY <1>1, <1>2 DEF SlotFor, Unreported, SilentNull, StrictKinds
<1> QED BY <1>3, <1>4, <1>5 DEF i, o, c

\* The pointer after one Parse: kept if it was decided, and otherwise decided
\* now, with a log line exactly when the answer is a failure.
LEMMA DerefFacts ==
    ASSUME NEW w \in Wrappers \cup {"none"}, NEW p \in Slot, NEW r
    PROVE  LET d == Deref(w, p, r) IN
           /\ d.ptr \in Slot /\ d.fresh \in BOOLEAN
           /\ p # "nil" \/ w \in StrictKinds => d.ptr = p /\ ~d.fresh
           /\ d.logged = IF d.ptr = "invalid" /\ p # "invalid" THEN 1 ELSE 0
           /\ d.fresh => p = "nil" /\ d.ptr = "set" /\ r.res = "ok"
           /\ d.ptr = "set" /\ p = "nil" => d.fresh
           /\ d.go => d.ptr = "set"
BY DEF Deref, Slot

\* One Parse keeps a field well formed, decides no pointer twice, and does not
\* make the field silently null.
LEMMA ParsedFacts ==
    ASSUME NEW c \in Cell, CellInv(c), NEW reach \in BOOLEAN
    PROVE  LET d == Parsed(c, reach) IN
           /\ d \in Cell /\ CellInv(d)
           /\ d.type = c.type /\ d.parser = c.parser
           /\ c.outer # "nil" => d.outer = c.outer
           /\ c.outer = "set" /\ c.inner # "nil" => d.inner = c.inner
           /\ ~Unreported(c) => ~Unreported(d)
<1> DEFINE t == c.type
           i == NewInner(t)
           o == Deref(t.outer, c.outer, i)
           inner == IF o.fresh THEN i.held ELSE c.inner
           enter == t.inner # "none" /\ o.go /\ (t.outer \in MaySkipElement => reach)
           l == Lookup(t.leaf)
           e == Deref(t.inner, inner, l)
           ptr == IF enter THEN e.ptr ELSE inner
           logs == c.logs + o.logged + (IF enter THEN e.logged ELSE 0)
           d == [type |-> t, parser |-> c.parser, outer |-> o.ptr, inner |-> ptr,
                 logs |-> logs]
<1>1. Parsed(c, reach) = IF c.parser = "nil" \/ t.outer = "none" THEN c ELSE d
  BY Zenon DEF Parsed
<1>2. /\ c.parser \in {"nil", "set"} /\ c.outer \in Slot /\ c.inner \in Slot
      /\ c.outer # "set" => c.inner = "nil"
      /\ c.logs = IF c.outer = "invalid" \/ c.inner = "invalid" THEN 1 ELSE 0
      /\ t \in TypeTerm
      /\ t.outer \in Wrappers \cup {"none"} /\ t.inner \in Wrappers \cup {"none"}
  BY DEF Cell, CellInv, Slot, TypeTerm
<1>3. /\ i.held \in {"nil", "set"}
      /\ t.inner \in StrictKinds /\ i.res = "ok" => i.held = "set"
  BY <1>2, NewFacts
<1>4. /\ o.ptr \in Slot /\ o.fresh \in BOOLEAN
      /\ c.outer # "nil" \/ t.outer \in StrictKinds => o.ptr = c.outer /\ ~o.fresh
      /\ o.logged = IF o.ptr = "invalid" /\ c.outer # "invalid" THEN 1 ELSE 0
      /\ o.fresh => c.outer = "nil" /\ o.ptr = "set" /\ i.res = "ok"
      /\ o.ptr = "set" /\ c.outer = "nil" => o.fresh
      /\ o.go => o.ptr = "set"
  BY <1>2, DerefFacts
<1> HIDE DEF i, o
<1>5. /\ inner \in Slot /\ (o.ptr # "set" => inner = "nil")
      /\ inner = "invalid" <=> c.inner = "invalid"
      /\ c.outer = "set" /\ c.inner # "nil" => inner = c.inner
  BY <1>2, <1>3, <1>4 DEF Slot
<1> HIDE DEF inner
<1>6. /\ e.ptr \in Slot
      /\ inner # "nil" \/ t.inner \in StrictKinds => e.ptr = inner
      /\ e.logged = IF e.ptr = "invalid" /\ inner # "invalid" THEN 1 ELSE 0
  <2>1. /\ e.ptr \in Slot /\ e.fresh \in BOOLEAN
        /\ inner # "nil" \/ t.inner \in StrictKinds => e.ptr = inner /\ ~e.fresh
        /\ e.logged = IF e.ptr = "invalid" /\ inner # "invalid" THEN 1 ELSE 0
        /\ e.fresh => inner = "nil" /\ e.ptr = "set" /\ l.res = "ok"
        /\ e.ptr = "set" /\ inner = "nil" => e.fresh
        /\ e.go => e.ptr = "set"
    BY <1>2, <1>5, DerefFacts
  <2> QED BY <2>1
<1>7. enter => o.ptr = "set"
  BY <1>4
<1> HIDE DEF e, enter
<1>8. /\ ptr \in Slot /\ (o.ptr # "set" => ptr = "nil")
      /\ inner # "nil" \/ t.inner \in StrictKinds => ptr = inner
      /\ logs = IF o.ptr = "invalid" \/ ptr = "invalid" THEN 1 ELSE 0
  BY <1>2, <1>4, <1>5, <1>6, <1>7 DEF Slot
<1> HIDE DEF ptr, logs
<1>9. d \in Cell /\ d.type = t /\ d.parser = c.parser /\ d.outer = o.ptr /\ d.inner = ptr /\ d.logs = logs
  BY <1>2, <1>4, <1>8 DEF Cell, Slot
<1>10. ASSUME t.outer # "none"
       PROVE  /\ CellInv(d)
              /\ c.outer # "nil" => d.outer = c.outer
              /\ c.outer = "set" /\ c.inner # "nil" => d.inner = c.inner
              /\ ~Unreported(c) => ~Unreported(d)
  <2>1. CellInv(d)
    BY <1>2, <1>8, <1>9, <1>10 DEF CellInv
  <2>2. ASSUME ~Unreported(c) PROVE ~Unreported(d)
    BY <1>2, <1>3, <1>4, <1>5, <1>8, <1>9, <1>10, <2>2
       DEF Unreported, SilentNull, StrictKinds, LazyKinds, LateKinds, Wrappers, inner
  <2> QED BY <1>4, <1>5, <1>8, <1>9, <2>1, <2>2
<1> HIDE DEF d
<1> QED BY <1>1, <1>9, <1>10

-----------------------------------------------------------------------------
(***************************************************************************)
(* What the actions do to the fields of all structs.                       *)
(***************************************************************************)

\* AddField of struct.go: the new field comes last and the others stay.
LEMMA AppendFacts ==
    ASSUME NEW f \in [Names -> Seq(Cell)], NEW n \in Names, NEW c \in Cell, NEW g,
           g = [f EXCEPT ![n] = Append(@, c)]
    PROVE  /\ g \in [Names -> Seq(Cell)]
           /\ \A s \in Names : s # n => g[s] = f[s]
           /\ Len(g[n]) = Len(f[n]) + 1 /\ g[n][Len(f[n]) + 1] = c
           /\ \A j \in 1..Len(f[n]) : g[n][j] = f[n][j]
<1>1. Append(f[n], c) \in Seq(Cell) /\ f[n] \in Seq(Cell)
  OBVIOUS
<1>2. g[n] = Append(f[n], c) /\ \A s \in Names : s # n => g[s] = f[s]
  OBVIOUS
<1>3. g \in [Names -> Seq(Cell)]
  BY <1>1
<1> QED BY <1>1, <1>2, <1>3

\* One field is replaced and the others stay.
LEMMA ReplaceFacts ==
    ASSUME NEW f \in [Names -> Seq(Cell)], NEW n \in Names, NEW k \in 1..Len(f[n]),
           NEW c \in Cell, NEW g, g = [f EXCEPT ![n][k] = c]
    PROVE  /\ g \in [Names -> Seq(Cell)]
           /\ \A s \in Names : s # n => g[s] = f[s]
           /\ Len(g[n]) = Len(f[n]) /\ g[n][k] = c
           /\ \A j \in 1..Len(f[n]) : j # k => g[n][j] = f[n][j]
<1> DEFINE q == [f[n] EXCEPT ![k] = c]
<1>1. f[n] \in Seq(Cell) /\ q \in Seq(Cell) /\ Len(q) = Len(f[n]) /\ q[k] = c
      /\ \A j \in 1..Len(f[n]) : j # k => q[j] = f[n][j]
  OBVIOUS
<1>2. g = [f EXCEPT ![n] = q]
  OBVIOUS
<1> HIDE DEF q
<1>3. g[n] = q /\ \A s \in Names : s # n => g[s] = f[s]
  BY <1>2
<1>4. g \in [Names -> Seq(Cell)]
  BY <1>1, <1>2
<1> QED BY <1>1, <1>3, <1>4

-----------------------------------------------------------------------------
(***************************************************************************)
(* Type correctness.                                                       *)
(***************************************************************************)

\* The text of a running load is one of the definitions, so what it names and
\* the types of its fields are within the constants.
LEMMA TextFacts ==
    ASSUME TypeOK, si <= Len(Text), loads \in 1..MaxLoads
    PROVE  /\ Text \in Seq(StructDefinition) /\ Struct \in StructDefinition
           /\ Struct.name \in Names /\ Struct.fields \in Seq(FieldDefinition)
           /\ fi <= Len(Struct.fields) => Field \in FieldDefinition /\ Field.type \in TypeTerm
<1>1. Text \in Definitions \cup {<<>>}
  BY DEF TypeOK, Text
<1>2. Text \in Seq(StructDefinition)
  BY <1>1, ProfileAssumption, EmptySeq
<1>3. si \in 1..Len(Text)
  BY <1>2, LenProperties DEF TypeOK
<1>4. Struct \in StructDefinition
  BY <1>2, <1>3, ElementOfSeq DEF Struct
<1>5. Struct.name \in Names /\ Struct.fields \in Seq(FieldDefinition)
  BY <1>4 DEF StructDefinition
<1>6. ASSUME fi <= Len(Struct.fields) PROVE Field \in FieldDefinition /\ Field.type \in TypeTerm
  <2>1. fi \in 1..Len(Struct.fields)
    BY <1>5, <1>6, LenProperties DEF TypeOK
  <2>2. Field \in FieldDefinition
    BY <1>5, <2>1, ElementOfSeq DEF Field
  <2> QED BY <2>2 DEF FieldDefinition
<1> QED BY <1>2, <1>4, <1>5, <1>6

\* A sequence that is not empty, without its last element.
LEMMA PopFacts ==
    ASSUME NEW S, NEW q \in Seq(S), q # <<>>, NEW r, r = SubSeq(q, 1, Len(q) - 1)
    PROVE  /\ r \in Seq(S) /\ q[Len(q)] \in S
           /\ Len(q) \in Nat \ {0} /\ Len(r) = Len(q) - 1
           /\ \A i \in 1..Len(r) : r[i] = q[i]
<1> DEFINE m == Len(q)  k == m - 1
<1>1. m \in Nat \ {0}
  BY EmptySeq
<1>2. \A i \in 1..m : q[i] \in S
  BY ElementOfSeq
<1>3. 1 \in Int /\ k \in Int /\ \A i \in 1..k : q[i] \in S
  BY <1>1, <1>2
<1>4. /\ r \in Seq(S)
      /\ Len(r) = IF 1 <= k THEN k - 1 + 1 ELSE 0
      /\ \A i \in 1..k - 1 + 1 : r[i] = q[1 + i - 1]
  <2> HIDE DEF k
  <2>1. r = SubSeq(q, 1, k)
    BY DEF k
  <2> QED BY <1>3, <2>1, SubSeqProperties
<1>5. Len(r) = k
  <2> HIDE DEF m
  <2> QED BY <1>1, <1>4
<1>6. \A i \in 1..Len(r) : r[i] = q[i]
  BY <1>1, <1>4, <1>5
<1> QED BY <1>1, <1>2, <1>4, <1>5, <1>6

LEMMA InitBase == Init => Base
<1> SUFFICES ASSUME Init PROVE Base
  OBVIOUS
<1>1. 0 \in 0..MaxLoads
  BY ProfileAssumption
<1>2. <<>> \in Seq(Cell) /\ <<>> \in Seq(Deferral)
      /\ Len(<<>>) = 0
  BY EmptySeq
<1>3. TypeOK
  <2>1. /\ types \in [Names -> {"absent", "model", "struct", "custom"}]
        /\ fields \in [Names -> Seq(Cell)] /\ owner \in [Names -> 0..MaxLoads]
    BY <1>1, <1>2 DEF Init
  <2>2. /\ results \in [1..MaxLoads -> {"none", "running", "ok", "error"}]
        /\ texts \in [1..MaxLoads -> Definitions \cup {<<>>}]
    BY DEF Init
  <2>3. /\ loads \in 0..MaxLoads /\ pc \in {"idle", "structs", "fields", "deferred"}
        /\ si \in Nat \ {0} /\ fi \in Nat \ {0} /\ err \in {"nil", "error"}
    BY <1>1 DEF Init
  <2>4. pending \in Seq(Deferral)
    BY <1>2 DEF Init
  <2> QED BY <2>1, <2>2, <2>3, <2>4 DEF TypeOK
<1>4. CellsInv
  BY <1>2 DEF Init, CellsInv
<1>5. TableInv /\ RunningInv /\ PendingInv
  BY DEF Init, TableInv, RunningInv, PendingInv
<1> QED BY <1>3, <1>4, <1>5 DEF Base

\* A running load is one of the loads counted, and the struct and field it is
\* at are those of its text.
LEMMA AtField ==
    ASSUME Base, pc = "fields", fi <= Len(Struct.fields)
    PROVE  /\ Struct.name \in Names /\ Field.type \in TypeTerm
           /\ owner[Struct.name] = loads /\ loads \in 1..MaxLoads
           /\ fields[Struct.name] \in Seq(Cell) /\ Len(fields[Struct.name]) + 1 = fi
           /\ types[Struct.name] # "absent"
<1>1. Struct.name \in Names /\ Field.type \in TypeTerm
  BY TextFacts DEF Base, RunningInv
<1>2. owner[Struct.name] = loads /\ loads \in 1..MaxLoads /\ Len(fields[Struct.name]) = fi - 1
  BY DEF Base, RunningInv
<1>3. fields[Struct.name] \in Seq(Cell) /\ fi \in Nat \ {0}
  BY <1>1 DEF Base, TypeOK
<1>4. types[Struct.name] # "absent"
  BY <1>1, <1>2 DEF Base, TableInv
<1> QED BY <1>1, <1>2, <1>3, <1>4

\* The fields after one more was added to the struct that is being read.
LEMMA AddedField ==
    ASSUME Base, pc = "fields", fi <= Len(Struct.fields),
           NEW c \in Cell, CellInv(c), AddCell(c)
    PROVE  /\ fields' \in [Names -> Seq(Cell)]
           /\ \A s \in Names : s # Struct.name => fields'[s] = fields[s]
           /\ Len(fields'[Struct.name]) = fi /\ fields'[Struct.name][fi] = c
           /\ Len(fields[Struct.name]) = fi - 1
           /\ \A j \in 1..Len(fields[Struct.name]) :
                 fields'[Struct.name][j] = fields[Struct.name][j]
           /\ CellsInv'
<1> DEFINE n == Struct.name
<1>1. /\ n \in Names /\ fields[n] \in Seq(Cell) /\ Len(fields[n]) + 1 = fi
      /\ Len(fields[n]) \in Nat
  BY AtField, LenProperties
<1>2. /\ fields' \in [Names -> Seq(Cell)]
      /\ \A s \in Names : s # n => fields'[s] = fields[s]
      /\ Len(fields'[n]) = Len(fields[n]) + 1 /\ fields'[n][Len(fields[n]) + 1] = c
      /\ \A j \in 1..Len(fields[n]) : fields'[n][j] = fields[n][j]
  BY <1>1, AppendFacts DEF Base, TypeOK, AddCell
<1> HIDE DEF n
<1>3. CellsInv'
  <2> SUFFICES ASSUME NEW s \in Names, NEW j \in 1..Len(fields'[s])
               PROVE  CellInv(fields'[s][j])
    BY DEF CellsInv, CellInv
  <2>1. CASE s # n
    BY <1>2, <2>1 DEF Base, CellsInv
  <2>2. CASE s = n /\ j = Len(fields[n]) + 1
    BY <1>2, <2>2
  <2>3. CASE s = n /\ j # Len(fields[n]) + 1
    BY <1>1, <1>2, <2>3 DEF Base, CellsInv
  <2> QED BY <2>1, <2>2, <2>3
<1>4. Len(fields'[n]) = fi /\ fields'[n][fi] = c /\ Len(fields[n]) = fi - 1
  BY <1>1, <1>2
<1> QED BY <1>2, <1>3, <1>4 DEF n

\* Adding a field and moving on keeps the deferred lookups valid.
LEMMA PendingKept ==
    ASSUME Base, pc = "fields", fi <= Len(Struct.fields),
           NEW c \in Cell, CellInv(c), AddCell(c),
           UNCHANGED <<types, owner, loads>>,
           NEW p \in Deferral, Resolvable(p)
    PROVE  Resolvable(p)'
<1>1. p.struct \in Names /\ p.field \in Nat \ {0} /\ Len(fields[p.struct]) \in Nat
  BY LenProperties DEF Base, TypeOK, Deferral
<1>2. CASE p.struct # Struct.name
  BY <1>1, <1>2, AddedField DEF Resolvable
<1>3. CASE p.struct = Struct.name
  <2>1. p.field \in 1..Len(fields[Struct.name]) /\ fi \in Nat
    BY <1>1, <1>3 DEF Base, TypeOK, Resolvable
  <2>2. fields'[Struct.name][p.field] = fields[Struct.name][p.field]
        /\ Len(fields'[Struct.name]) = fi /\ Len(fields[Struct.name]) = fi - 1
    BY <2>1, AddedField
  <2> QED BY <1>3, <2>1, <2>2 DEF Resolvable
<1> QED BY <1>2, <1>3

LEMMA BaseAddField ==
    ASSUME Base, AddField
    PROVE  Base'
<1> DEFINE c == Built(Field.type)
<1>1. /\ Struct.name \in Names /\ Field.type \in TypeTerm
      /\ owner[Struct.name] = loads /\ loads \in 1..MaxLoads
      /\ types[Struct.name] # "absent"
  BY AtField DEF AddField
<1>2. c \in Cell /\ CellInv(c)
  BY <1>1, BuiltFacts
<1> HIDE DEF c
<1>3. AddCell(c) /\ pc = "fields" /\ fi <= Len(Struct.fields)
  BY DEF AddField, c
<1>4. /\ fields' \in [Names -> Seq(Cell)] /\ CellsInv'
      /\ \A s \in Names : s # Struct.name => fields'[s] = fields[s]
      /\ Len(fields'[Struct.name]) = fi
  BY <1>2, <1>3, AddedField
<1>5. TypeOK'
  BY <1>4 DEF Base, TypeOK, AddField, Fail
<1>6. TableInv'
  BY <1>1, <1>4 DEF Base, TableInv, AddField
<1>7. CASE NewOuter(Field.type).res = "ok"
  <2>1. fi' = fi + 1 /\ UNCHANGED <<pc, err, types, owner, loads, results, texts, si, pending>>
    BY <1>7 DEF AddField
  <2>2. RunningInv'
    <3>1. UNCHANGED <<Text, Struct>>
      BY <2>1 DEF Text, Struct
    <3> QED BY <1>3, <1>4, <2>1, <3>1 DEF Base, RunningInv, TypeOK, Text
  <2>3. PendingInv'
    <3> SUFFICES ASSUME err = "nil", NEW i \in 1..Len(pending)
                 PROVE  Resolvable(pending[i])'
      BY <2>1 DEF PendingInv
    <3>1. pending[i] \in Deferral
      BY ElementOfSeq DEF Base, TypeOK
    <3>2. Resolvable(pending[i])
      BY <1>3 DEF Base, PendingInv
    <3> HIDE DEF Resolvable
    <3> DEFINE p == pending[i]
    <3>3. Resolvable(p)'
      BY <1>2, <1>3, <2>1, <3>1, <3>2, PendingKept
    <3> QED BY <2>1, <3>3
  <2> QED BY <1>4, <1>5, <1>6, <2>2, <2>3 DEF Base
<1>8. CASE NewOuter(Field.type).res # "ok"
  BY <1>4, <1>5, <1>6, <1>8 DEF Base, AddField, Fail, RunningInv, PendingInv
<1> QED BY <1>7, <1>8

LEMMA BaseBadOffset ==
    ASSUME Base, BadOffset
    PROVE  Base'
<1> DEFINE c == Unbuilt(Field.type)
<1>1. /\ Struct.name \in Names /\ Field.type \in TypeTerm
      /\ loads \in 1..MaxLoads /\ types[Struct.name] # "absent"
  BY AtField DEF BadOffset
<1>2. c \in Cell /\ CellInv(c)
  BY <1>1, UnbuiltFacts
<1> HIDE DEF c
<1>3. AddCell(c) /\ pc = "fields" /\ fi <= Len(Struct.fields)
  BY DEF BadOffset, c
<1>4. /\ fields' \in [Names -> Seq(Cell)] /\ CellsInv'
      /\ \A s \in Names : s # Struct.name => fields'[s] = fields[s]
  BY <1>2, <1>3, AddedField
<1>5. TypeOK'
  BY <1>4 DEF Base, TypeOK, BadOffset, Fail
<1>6. TableInv'
  BY <1>1, <1>4 DEF Base, TableInv, BadOffset
<1> QED BY <1>4, <1>5, <1>6 DEF Base, BadOffset, Fail, RunningInv, PendingInv

LEMMA BaseDelayField ==
    ASSUME Base, DelayField
    PROVE  Base'
<1> DEFINE c == Unbuilt(Field.type)
<1>1. /\ Struct.name \in Names /\ Field.type \in TypeTerm
      /\ owner[Struct.name] = loads /\ loads \in 1..MaxLoads
      /\ types[Struct.name] # "absent"
  BY AtField DEF DelayField
<1>2. c \in Cell /\ CellInv(c) /\ c.type = Field.type
  BY <1>1, UnbuiltFacts
<1>3. PICK p \in Deferral : p = [struct |-> Struct.name, field |-> fi]
  BY <1>1 DEF Deferral, Base, TypeOK
<1> HIDE DEF c
<1>4. AddCell(c) /\ pc = "fields" /\ fi <= Len(Struct.fields)
  BY DEF DelayField, c
<1>5. /\ fields' \in [Names -> Seq(Cell)] /\ CellsInv'
      /\ \A s \in Names : s # Struct.name => fields'[s] = fields[s]
      /\ Len(fields'[Struct.name]) = fi /\ fields'[Struct.name][fi] = c
  BY <1>2, <1>4, AddedField
<1>6. /\ fi' = fi + 1 /\ pending' = Append(pending, p)
      /\ UNCHANGED <<types, owner, loads, results, texts, pc, si, err>>
  BY <1>3 DEF DelayField
<1>7. Resolvable(p)'
  <2>1. Field.type.outer = "none" /\ types[Field.type.leaf] = "absent"
    BY DEF DelayField, Registered
  <2>2. p.struct = Struct.name /\ p.field = fi /\ fi \in Nat
    BY <1>3 DEF Base, TypeOK
  <2> QED BY <1>1, <1>2, <1>5, <1>6, <2>1, <2>2 DEF Resolvable
<1>8. /\ pending' \in Seq(Deferral) /\ Len(pending') = Len(pending) + 1
      /\ \A i \in 1..Len(pending) : pending'[i] = pending[i]
      /\ pending'[Len(pending) + 1] = p /\ Len(pending) \in Nat
  BY <1>3, <1>6, AppendProperties, LenProperties DEF Base, TypeOK
<1>9. TypeOK'
  BY <1>5, <1>6, <1>8 DEF Base, TypeOK
<1>10. TableInv'
  BY <1>1, <1>5, <1>6 DEF Base, TableInv
<1>11. RunningInv'
  <2>1. UNCHANGED <<Text, Struct>>
    BY <1>6 DEF Text, Struct
  <2> QED BY <1>4, <1>5, <1>6, <2>1 DEF Base, RunningInv, TypeOK, Text
<1>12. PendingInv'
  <2> SUFFICES ASSUME err = "nil", NEW i \in 1..Len(pending'), NEW q, q = pending'[i]
               PROVE  Resolvable(q)'
    BY <1>6 DEF PendingInv, Resolvable
  <2>1. CASE i = Len(pending) + 1
    BY <1>7, <1>8, <2>1
  <2>2. CASE i # Len(pending) + 1
    <3>1. i \in 1..Len(pending) /\ q = pending[i]
      BY <1>8, <2>2
    <3>2. q \in Deferral
      BY <3>1, ElementOfSeq DEF Base, TypeOK
    <3>3. Resolvable(q)
      BY <1>4, <3>1 DEF Base, PendingInv
    <3> QED BY <1>2, <1>4, <1>6, <3>2, <3>3, PendingKept
  <2> QED BY <2>1, <2>2
<1> QED BY <1>5, <1>9, <1>10, <1>11, <1>12 DEF Base

\* A deferred lookup that finds its type sets the parser of its field: the
\* type is a struct by now, whose New has no error to drop.
LEMMA Resolved ==
    ASSUME Base, RunDeferred, err' = "nil",
           NEW p \in Deferral, p = pending[Len(pending)]
    PROVE  /\ err = "nil" /\ p.struct \in Names /\ p.field \in 1..Len(fields[p.struct])
           /\ owner[p.struct] = loads
           /\ \E c \in Cell :
                 /\ CellInv(c) /\ c.parser = "set" /\ ~Unreported(c)
                 /\ c.type = fields[p.struct][p.field].type
                 /\ fields[p.struct][p.field].outer = "nil" /\ c.outer = "nil"
                 /\ fields' = [fields EXCEPT ![p.struct][p.field] = c]
<1> DEFINE t == fields[p.struct][p.field].type
<1>1. err = "nil" /\ Registered(t)
      /\ fields' = [fields EXCEPT ![p.struct][p.field] = Built(t)]
  BY DEF RunDeferred
<1>2. Len(pending) \in 1..Len(pending)
  BY EmptySeq DEF Base, TypeOK, RunDeferred
<1>3. Resolvable(p) /\ p.struct \in Names /\ p.field \in Nat \ {0}
  BY <1>1, <1>2 DEF Base, PendingInv, RunDeferred, Deferral
<1>4. p.field \in 1..Len(fields[p.struct])
  BY <1>3, LenProperties DEF Base, TypeOK, Resolvable
<1>5. fields[p.struct][p.field] \in Cell
  BY <1>3, <1>4, ElementOfSeq DEF Base, TypeOK
<1>6. t \in TypeTerm /\ t.outer = "none" /\ types[t.leaf] = "struct" /\ t.leaf \in Names
  BY <1>1, <1>3, <1>5 DEF Cell, Resolvable, Registered, TypeTerm
<1>7. fields[p.struct][p.field].outer = "nil"
  BY <1>3, <1>4, <1>6 DEF Base, CellsInv, CellInv
<1>8. NewOuter(t).made
  BY <1>6, NewFacts, LookupFacts
<1> HIDE DEF t
<1>9. /\ Built(t) \in Cell /\ CellInv(Built(t)) /\ Built(t).type = t
      /\ Built(t).parser = "set" /\ ~Unreported(Built(t))
  BY <1>6, <1>8, BuiltFacts
<1>10. Built(t).outer = "nil"
  BY <1>6, <1>9 DEF CellInv
<1> DEFINE c == Built(t)
<1>11. c \in Cell /\ CellInv(c) /\ c.parser = "set" /\ ~Unreported(c) /\ c.type = t
       /\ c.outer = "nil" /\ fields' = [fields EXCEPT ![p.struct][p.field] = c]
  BY <1>1, <1>9, <1>10 DEF t
<1>12. owner[p.struct] = loads
  BY <1>3 DEF Resolvable
<1> HIDE DEF c
<1> QED BY <1>1, <1>3, <1>4, <1>7, <1>11, <1>12 DEF t

\* The last deferred function runs and is gone; the fields stay if it failed.
LEMMA Popped ==
    ASSUME Base, RunDeferred
    PROVE  /\ pending[Len(pending)] \in Deferral
           /\ pending' \in Seq(Deferral)
           /\ Len(pending) \in Nat \ {0} /\ Len(pending') = Len(pending) - 1
           /\ \A i \in 1..Len(pending') : pending'[i] = pending[i]
           /\ err' # "nil" => fields' = fields
           /\ err' \in {"nil", "error"}
<1>1. pending \in Seq(Deferral) /\ pending # <<>>
      /\ pending' = SubSeq(pending, 1, Len(pending) - 1)
  BY DEF Base, TypeOK, RunDeferred
<1>2. (err' # "nil" => fields' = fields) /\ err' \in {"nil", "error"}
  BY DEF Base, TypeOK, RunDeferred
<1>3. /\ pending' \in Seq(Deferral) /\ pending[Len(pending)] \in Deferral
      /\ Len(pending) \in Nat \ {0} /\ Len(pending') = Len(pending) - 1
      /\ \A i \in 1..Len(pending') : pending'[i] = pending[i]
  <2>1. PICK r : r = pending'
    OBVIOUS
  <2>2. /\ r \in Seq(Deferral) /\ pending[Len(pending)] \in Deferral
        /\ Len(pending) \in Nat \ {0} /\ Len(r) = Len(pending) - 1
        /\ \A i \in 1..Len(r) : r[i] = pending[i]
    BY <1>1, <2>1, PopFacts
  <2> QED BY <2>1, <2>2
<1> QED BY <1>2, <1>3

LEMMA BaseRunDeferred ==
    ASSUME Base, RunDeferred
    PROVE  Base'
<1>1. /\ pending' \in Seq(Deferral)
      /\ Len(pending) \in Nat \ {0} /\ Len(pending') = Len(pending) - 1
      /\ \A i \in 1..Len(pending') : pending'[i] = pending[i]
      /\ err' # "nil" => fields' = fields
      /\ err' \in {"nil", "error"}
  BY Popped
<1>2. UNCHANGED <<types, owner, loads, results, texts, pc, si, fi>> /\ pc = "deferred"
  BY DEF RunDeferred
<1>3. CASE err' # "nil"
  <2>1. TypeOK'
    BY <1>1, <1>2, <1>3 DEF Base, TypeOK
  <2> QED BY <1>1, <1>2, <1>3, <2>1
          DEF Base, CellsInv, TableInv, RunningInv, PendingInv
<1>4. CASE err' = "nil"
  <2>1. PICK p \in Deferral : p = pending[Len(pending)]
    BY Popped
  <2> DEFINE n == p.struct  k == p.field
  <2>2. /\ err = "nil" /\ n \in Names /\ k \in 1..Len(fields[n]) /\ owner[n] = loads
        /\ \E c \in Cell : /\ CellInv(c) /\ c.parser = "set" /\ ~Unreported(c)
                           /\ c.type = fields[n][k].type
                           /\ fields[n][k].outer = "nil" /\ c.outer = "nil"
                           /\ fields' = [fields EXCEPT ![n][k] = c]
    BY <1>4, <2>1, Resolved
  <2>3. PICK c \in Cell : /\ CellInv(c) /\ c.type = fields[n][k].type
                          /\ fields' = [fields EXCEPT ![n][k] = c]
    BY <2>2
  <2>4. fields \in [Names -> Seq(Cell)]
    BY DEF Base, TypeOK
  <2> HIDE DEF n, k
  <2>5. /\ fields' \in [Names -> Seq(Cell)]
        /\ \A s \in Names : s # n => fields'[s] = fields[s]
        /\ Len(fields'[n]) = Len(fields[n]) /\ fields'[n][k] = c
        /\ \A j \in 1..Len(fields[n]) : j # k => fields'[n][j] = fields[n][j]
    BY <2>2, <2>3, <2>4, ReplaceFacts
  <2>6. TypeOK'
    BY <1>1, <1>2, <2>5 DEF Base, TypeOK
  <2>7. CellsInv'
    <3> SUFFICES ASSUME NEW s \in Names, NEW j \in 1..Len(fields'[s])
                 PROVE  CellInv(fields'[s][j])
      BY DEF CellsInv, CellInv
    <3>1. CASE s # n \/ j # k
      BY <2>5, <3>1 DEF Base, CellsInv
    <3>2. CASE s = n /\ j = k
      BY <2>3, <2>5, <3>2
    <3> QED BY <3>1, <3>2
  <2>8. types[n] # "absent"
    BY <1>2, <2>2 DEF Base, TableInv, RunningInv
  <2>9. TableInv'
    BY <1>2, <2>5, <2>8 DEF Base, TableInv
  <2>10. RunningInv'
    BY <1>2 DEF Base, RunningInv
  <2>11. PendingInv'
    <3> SUFFICES ASSUME NEW i \in 1..Len(pending'), NEW q, q = pending'[i]
                 PROVE  Resolvable(q)'
      BY DEF PendingInv, Resolvable
    <3>1. i \in 1..Len(pending) /\ q = pending[i]
      BY <1>1
    <3>2. q \in Deferral
      BY <1>1, ElementOfSeq
    <3>3. Resolvable(q) /\ q.struct \in Names /\ q.field \in Nat \ {0}
      BY <1>2, <2>2, <3>1, <3>2 DEF Base, PendingInv, Deferral
    <3>4. q.field \in 1..Len(fields[q.struct])
      BY <2>4, <3>3, LenProperties DEF Resolvable
    <3>5. /\ fields'[q.struct][q.field].type = fields[q.struct][q.field].type
          /\ Len(fields'[q.struct]) = Len(fields[q.struct])
      BY <2>3, <2>5, <3>3, <3>4
    <3> QED BY <1>2, <3>3, <3>5 DEF Resolvable
  <2> QED BY <2>6, <2>7, <2>9, <2>10, <2>11 DEF Base
<1> QED BY <1>3, <1>4

\* One Parse of one field: the others stay, and so do its type and parser.
LEMMA ParsedField ==
    ASSUME Base, NEW s \in Names, NEW k \in 1..Len(fields[s]), NEW reach \in BOOLEAN,
           ParseField(s, k, reach)
    PROVE  LET c == fields[s][k]  d == fields'[s][k] IN
           /\ fields' \in [Names -> Seq(Cell)]
           /\ \A n \in Names : n # s => fields'[n] = fields[n]
           /\ Len(fields'[s]) = Len(fields[s])
           /\ \A j \in 1..Len(fields[s]) : j # k => fields'[s][j] = fields[s][j]
           /\ d \in Cell /\ CellInv(d)
           /\ d.type = c.type /\ d.parser = c.parser /\ Decided(c, d)
           /\ ~Unreported(c) => ~Unreported(d)
<1> DEFINE c == fields[s][k]  e == Parsed(c, reach)
<1>1. fields \in [Names -> Seq(Cell)] /\ c \in Cell /\ CellInv(c)
  BY ElementOfSeq DEF Base, TypeOK, CellsInv
<1>2. fields' = [fields EXCEPT ![s][k] = e]
  BY DEF ParseField
<1> HIDE DEF c
<1>3. /\ e \in Cell /\ CellInv(e)
      /\ e.type = c.type /\ e.parser = c.parser
      /\ c.outer # "nil" => e.outer = c.outer
      /\ c.outer = "set" /\ c.inner # "nil" => e.inner = c.inner
      /\ ~Unreported(c) => ~Unreported(e)
  BY <1>1, ParsedFacts
<1> HIDE DEF e
<1>4. /\ fields' \in [Names -> Seq(Cell)]
      /\ \A n \in Names : n # s => fields'[n] = fields[n]
      /\ Len(fields'[s]) = Len(fields[s]) /\ fields'[s][k] = e
      /\ \A j \in 1..Len(fields[s]) : j # k => fields'[s][j] = fields[s][j]
  BY <1>1, <1>2, <1>3, ReplaceFacts
<1> QED BY <1>3, <1>4 DEF c, Decided

LEMMA BaseParseField ==
    ASSUME Base, NEW s \in Names, NEW k \in 1..Len(fields[s]), NEW reach \in BOOLEAN,
           ParseField(s, k, reach)
    PROVE  Base'
<1>1. /\ fields' \in [Names -> Seq(Cell)]
      /\ \A n \in Names : n # s => fields'[n] = fields[n]
      /\ Len(fields'[s]) = Len(fields[s])
      /\ \A j \in 1..Len(fields[s]) : j # k => fields'[s][j] = fields[s][j]
      /\ CellInv(fields'[s][k])
  BY ParsedField
<1>2. UNCHANGED <<types, owner, loads, results, texts, pc, si, fi, pending, err>> /\ pc = "idle"
  BY DEF ParseField, loadVars
<1>3. TypeOK'
  BY <1>1, <1>2 DEF Base, TypeOK
<1>4. CellsInv'
  <2> SUFFICES ASSUME NEW n \in Names, NEW j \in 1..Len(fields'[n])
               PROVE  CellInv(fields'[n][j])
    BY DEF CellsInv, CellInv
  <2>1. CASE n # s \/ j # k
    BY <1>1, <2>1 DEF Base, CellsInv
  <2>2. CASE n = s /\ j = k
    BY <1>1, <2>2
  <2> QED BY <2>1, <2>2
<1>5. types[s] # "absent"
  <2>1. fields[s] # <<>>
    BY EmptySeq
  <2> QED BY <2>1 DEF Base, TableInv
<1>6. TableInv'
  BY <1>1, <1>2, <1>5 DEF Base, TableInv
<1> QED BY <1>2, <1>3, <1>4, <1>6 DEF Base, RunningInv, PendingInv

LEMMA BaseAddStruct ==
    ASSUME Base, AddStruct
    PROVE  Base'
<1>1. Struct.name \in Names /\ loads \in 1..MaxLoads
  BY TextFacts DEF Base, RunningInv, AddStruct
<1>2. /\ types' = [types EXCEPT ![Struct.name] = "struct"]
      /\ owner' = [owner EXCEPT ![Struct.name] = loads]
      /\ types[Struct.name] = "absent" /\ pc = "structs" /\ si <= Len(Text) /\ fi' = 1
      /\ \/ pc' = "deferred" /\ err' = "error"
         \/ pc' = "fields" /\ err' = err
      /\ UNCHANGED <<fields, loads, results, texts, si, pending>>
  BY DEF AddStruct, Fail
<1>3. UNCHANGED <<Text, Struct>>
  BY <1>2 DEF Text, Struct
<1>4. fields[Struct.name] = <<>>
  BY <1>1, <1>2 DEF Base, TableInv
<1>5. PICK n \in Names : n = Struct.name
  BY <1>1
<1>6. TypeOK'
  BY <1>1, <1>2 DEF Base, TypeOK
<1>7. CellsInv'
  BY <1>2 DEF Base, CellsInv
<1>8. TableInv'
  BY <1>1, <1>2, <1>5 DEF Base, TableInv, TypeOK
<1>9. RunningInv'
  BY <1>1, <1>2, <1>3, <1>4, EmptySeq DEF Base, RunningInv, TypeOK, Text
<1>10. PendingInv'
  <2> SUFFICES ASSUME err = "nil", NEW i \in 1..Len(pending), NEW q, q = pending[i]
               PROVE  Resolvable(q)'
    BY <1>2 DEF PendingInv, Resolvable
  <2>1. q \in Deferral
    BY ElementOfSeq DEF Base, TypeOK
  <2>2. Resolvable(q) /\ q.struct \in Names /\ q.field \in Nat \ {0}
    BY <1>2, <2>1 DEF Base, PendingInv, Deferral
  <2>3. fields[q.struct][q.field].type.leaf \in Names
    <3>1. q.field \in 1..Len(fields[q.struct]) /\ fields[q.struct] \in Seq(Cell)
      BY <2>2, LenProperties DEF Base, TypeOK, Resolvable
    <3>2. fields[q.struct][q.field] \in Cell
      BY <3>1, ElementOfSeq
    <3> QED BY <3>2 DEF Cell, TypeTerm
  <2> QED BY <1>2, <1>5, <2>2, <2>3 DEF Resolvable, Base, TypeOK
<1> QED BY <1>6, <1>7, <1>8, <1>9, <1>10 DEF Base

\* Every step keeps the first five parts.
LEMMA BaseStep ==
    ASSUME Base, [Next]_vars
    PROVE  Base'
<1>1. ASSUME NEW d \in Definitions, BeginLoad(d) PROVE Base'
  <2>1. loads' \in 1..MaxLoads /\ loads' = loads + 1
    BY <1>1, ProfileAssumption DEF Base, TypeOK, BeginLoad
  <2>2. pending' \in Seq(Deferral) /\ pending' = <<>> /\ Len(pending') = 0
    BY <1>1, EmptySeq DEF BeginLoad
  <2>3. TypeOK'
    BY <1>1, <2>1, <2>2 DEF Base, TypeOK, BeginLoad
  <2>4. CellsInv' /\ TableInv' /\ RunningInv' /\ PendingInv'
    BY <1>1, <2>1, <2>2
       DEF Base, TypeOK, CellsInv, TableInv, RunningInv, PendingInv, BeginLoad
  <2> QED BY <2>3, <2>4 DEF Base
<1>2. ASSUME MaskedStruct PROVE Base'
  BY <1>2 DEF Base, TypeOK, CellsInv, TableInv, RunningInv, PendingInv, MaskedStruct, Fail
<1>3. ASSUME NextStruct PROVE Base'
  <2>1. /\ UNCHANGED <<types, fields, owner, loads, results, texts, fi, pending, err>>
        /\ pc = "fields" /\ pc' = "structs" /\ si' = si + 1
    BY <1>3 DEF NextStruct
  <2>2. TypeOK'
    BY <2>1 DEF Base, TypeOK
  <2>3. PendingInv'
    BY <2>1 DEF Base, PendingInv, Resolvable
  <2> QED BY <2>1, <2>2, <2>3 DEF Base, CellsInv, TableInv, RunningInv
<1>4. ASSUME EndOfText PROVE Base'
  <2>1. /\ UNCHANGED <<types, fields, owner, loads, results, texts, si, fi, pending, err>>
        /\ pc = "structs" /\ pc' = "deferred"
    BY <1>4 DEF EndOfText
  <2>2. TypeOK'
    BY <2>1 DEF Base, TypeOK
  <2>3. PendingInv'
    BY <2>1 DEF Base, PendingInv, Resolvable
  <2> QED BY <2>1, <2>2, <2>3 DEF Base, CellsInv, TableInv, RunningInv
<1>5. ASSUME Return PROVE Base'
  <2>1. /\ UNCHANGED <<types, fields, owner, loads, texts, si, fi, pending, err>>
        /\ pc' = "idle"
        /\ results' = [results EXCEPT ![loads] = IF err = "nil" THEN "ok" ELSE "error"]
    BY <1>5 DEF Return
  <2>2. TypeOK'
    BY <2>1 DEF Base, TypeOK
  <2> QED BY <2>1, <2>2 DEF Base, CellsInv, TableInv, RunningInv, PendingInv
<1>6. ASSUME NEW n \in Names, AddParser(n) PROVE Base'
  BY <1>6 DEF Base, TypeOK, CellsInv, TableInv, RunningInv, PendingInv, AddParser, loadVars
<1>7. ASSUME UNCHANGED vars PROVE Base'
  <2>1. UNCHANGED <<types, fields, owner, loads, results, texts, pc, si, fi, pending, err>>
    BY <1>7 DEF vars, loadVars
  <2> QED BY <2>1 DEF Base, TypeOK, CellsInv, TableInv, RunningInv, PendingInv,
                      Resolvable, Text, Struct
<1> QED BY <1>1, <1>2, <1>3, <1>4, <1>5, <1>6, <1>7, BaseAddStruct, BaseAddField,
           BaseBadOffset, BaseDelayField, BaseRunDeferred, BaseParseField
        DEF Next, LoadStep

THEOREM BaseInvariant == Spec => []Base
<1>1. Init => Base
  BY InitBase
<1>2. Base /\ [Next]_vars => Base'
  BY BaseStep
<1> QED BY <1>1, <1>2, PTL DEF Spec

\* The variables keep their types: for any names, texts and number of loads a
\* deferred lookup is always of a field that its struct has.
THEOREM TypeCorrect == Spec => []TypeOK
<1>1. Base => TypeOK
  BY DEF Base
<1> QED BY <1>1, BaseInvariant, PTL

\* The log of the wrappers: one failed field logs one error however often and
\* in whatever order its pointers are reached by Parse.
THEOREM LogsOnce == Spec => []LoggedOnce
<1>1. Base => LoggedOnce
  BY DEF Base, CellsInv, CellInv, LoggedOnce
<1> QED BY <1>1, BaseInvariant, PTL

-----------------------------------------------------------------------------
(***************************************************************************)
(* Pointers are decided once.                                              *)
(***************************************************************************)
StepDecided == \A s \in Names : \A j \in 1..Len(fields[s]) :
                   Decided(fields[s][j], fields'[s][j])

LEMMA DecidedStep ==
    ASSUME Base, [Next]_vars
    PROVE  StepDecided
<1> USE DEF StepDecided
<1>1. ASSUME UNCHANGED fields PROVE StepDecided
  BY <1>1 DEF Decided
<1>2. ASSUME NEW c \in Cell, CellInv(c), AddCell(c), pc = "fields", fi <= Len(Struct.fields)
      PROVE  StepDecided
  <2>1. /\ \A s \in Names : s # Struct.name => fields'[s] = fields[s]
        /\ \A j \in 1..Len(fields[Struct.name]) :
              fields'[Struct.name][j] = fields[Struct.name][j]
    BY <1>2, AddedField
  <2>2. \A s \in Names : \A j \in 1..Len(fields[s]) : fields'[s][j] = fields[s][j]
    BY <2>1
  <2> QED BY <2>2 DEF Decided
<1>3. ASSUME BadOffset PROVE StepDecided
  <2>1. Field.type \in TypeTerm
    BY <1>3, AtField DEF BadOffset
  <2> QED BY <1>2, <1>3, <2>1, UnbuiltFacts DEF BadOffset
<1>4. ASSUME AddField PROVE StepDecided
  <2>1. Field.type \in TypeTerm
    BY <1>4, AtField DEF AddField
  <2> QED BY <1>2, <1>4, <2>1, BuiltFacts DEF AddField
<1>5. ASSUME DelayField PROVE StepDecided
  <2>1. Field.type \in TypeTerm
    BY <1>5, AtField DEF DelayField
  <2> QED BY <1>2, <1>5, <2>1, UnbuiltFacts DEF DelayField
<1>6. ASSUME RunDeferred PROVE StepDecided
  <2>1. CASE err' # "nil"
    BY <1>1, <1>6, <2>1, Popped
  <2>2. CASE err' = "nil"
    <3>1. PICK p \in Deferral : p = pending[Len(pending)]
      BY <1>6, Popped
    <3> DEFINE n == p.struct  k == p.field
    <3>2. /\ n \in Names /\ k \in 1..Len(fields[n])
          /\ \E c \in Cell : /\ c.parser = "set"
                             /\ fields[n][k].outer = "nil" /\ c.outer = "nil"
                             /\ fields' = [fields EXCEPT ![n][k] = c]
      BY <1>6, <2>2, <3>1, Resolved
    <3>3. PICK c \in Cell : /\ c.parser = "set" /\ fields[n][k].outer = "nil"
                            /\ fields' = [fields EXCEPT ![n][k] = c]
      BY <3>2
    <3>4. fields \in [Names -> Seq(Cell)] /\ fields[n][k].parser \in {"nil", "set"}
      <4>1. fields \in [Names -> Seq(Cell)]
        BY DEF Base, TypeOK
      <4>2. fields[n][k] \in Cell /\ CellInv(fields[n][k])
        BY <3>2, <4>1, ElementOfSeq DEF Base, CellsInv
      <4> QED BY <4>1, <4>2 DEF Cell, Slot, CellInv
    <3> HIDE DEF n, k
    <3>5. /\ fields' \in [Names -> Seq(Cell)]
          /\ \A s \in Names : s # n => fields'[s] = fields[s]
          /\ Len(fields'[n]) = Len(fields[n]) /\ fields'[n][k] = c
          /\ \A j \in 1..Len(fields[n]) : j # k => fields'[n][j] = fields[n][j]
      BY <3>2, <3>3, <3>4, ReplaceFacts
    <3>6. Decided(fields[n][k], c)
      BY <3>3, <3>4 DEF Decided
    <3> QED BY <3>5, <3>6 DEF Decided
  <2> QED BY <2>1, <2>2
<1>7. ASSUME NEW s \in Names, NEW k \in 1..Len(fields[s]), NEW reach \in BOOLEAN,
             ParseField(s, k, reach)
      PROVE  StepDecided
  <2>1. /\ \A n \in Names : n # s => fields'[n] = fields[n]
        /\ \A j \in 1..Len(fields[s]) : j # k => fields'[s][j] = fields[s][j]
        /\ Decided(fields[s][k], fields'[s][k])
    BY <1>7, ParsedField
  <2> QED BY <2>1 DEF Decided
<1>8. CASE \/ \E d \in Definitions : BeginLoad(d)
           \/ \E n \in Names : AddParser(n)
           \/ MaskedStruct \/ AddStruct \/ NextStruct \/ EndOfText \/ Return
           \/ UNCHANGED vars
  BY <1>1, <1>8 DEF BeginLoad, AddParser, MaskedStruct, AddStruct, NextStruct, EndOfText,
                    Return, vars
<1> QED BY <1>3, <1>4, <1>5, <1>6, <1>7, <1>8 DEF Next, LoadStep

\* No New, Parse, AddParser or later load changes a pointer that an earlier one
\* decided.
THEOREM PointersDecidedOnce == Spec => DecidedOnce
<1>1. Base /\ [Next]_vars => [StepDecided]_vars
  BY DecidedStep
<1> QED BY <1>1, BaseInvariant, PTL DEF Spec, DecidedOnce, StepDecided

-----------------------------------------------------------------------------
(***************************************************************************)
(* A load that returns no error leaves no field without a parser.          *)
(***************************************************************************)

\* A new field changes no struct of a load that has returned.
LEMMA SuccessAdded ==
    ASSUME Base, SuccessInv, pc = "fields", fi <= Len(Struct.fields),
           NEW c \in Cell, CellInv(c), AddCell(c), UNCHANGED <<owner, results>>
    PROVE  SuccessInv'
<1>1. /\ owner[Struct.name] = loads /\ results[loads] = "running"
      /\ \A s \in Names : s # Struct.name => fields'[s] = fields[s]
  BY AtField, AddedField DEF Base, RunningInv
<1> QED BY <1>1 DEF SuccessInv

\* In the load's own structs the new field is resolved or will be looked up.
LEMMA CoveredAdded ==
    ASSUME Base, CoveredInv, pc = "fields", fi <= Len(Struct.fields), err = "nil",
           NEW c \in Cell, CellInv(c), AddCell(c), UNCHANGED <<owner, loads>>,
           ~Unreported(c), \A i \in 1..Len(pending) : pending'[i] = pending[i],
           Len(pending') \in Nat, Len(pending) <= Len(pending'),
           \/ c.parser = "set"
           \/ \E i \in 1..Len(pending') :
                 pending'[i] = [struct |-> Struct.name, field |-> fi]
    PROVE  CoveredInv'
<1> SUFFICES ASSUME NEW s \in Names, owner[s] = loads, NEW j \in 1..Len(fields'[s])
             PROVE  /\ ~Unreported(fields'[s][j])
                    /\ \/ fields'[s][j].parser = "set"
                       \/ \E i \in 1..Len(pending') : pending'[i] = [struct |-> s, field |-> j]
  BY DEF CoveredInv, Unreported, SilentNull
<1>1. /\ \A n \in Names : n # Struct.name => fields'[n] = fields[n]
      /\ Len(fields'[Struct.name]) = fi /\ fields'[Struct.name][fi] = c
      /\ Len(fields[Struct.name]) = fi - 1
      /\ \A k \in 1..Len(fields[Struct.name]) :
            fields'[Struct.name][k] = fields[Struct.name][k]
  BY AddedField
<1>2. CASE s = Struct.name /\ j = fi
  BY <1>1, <1>2
<1>3. CASE ~(s = Struct.name /\ j = fi)
  <2>1. j \in 1..Len(fields[s]) /\ fields'[s][j] = fields[s][j]
    BY <1>1, <1>3 DEF Base, TypeOK
  <2>2. /\ ~Unreported(fields[s][j])
        /\ \/ fields[s][j].parser = "set"
           \/ \E i \in 1..Len(pending) : pending[i] = [struct |-> s, field |-> j]
    BY <2>1 DEF CoveredInv
  <2>3. \A i \in 1..Len(pending) : i \in 1..Len(pending')
    BY LenProperties DEF Base, TypeOK
  <2> QED BY <2>1, <2>2, <2>3
<1> QED BY <1>2, <1>3

LEMMA CoverRunDeferred ==
    ASSUME Base, CoveredInv, SuccessInv, RunDeferred
    PROVE  CoveredInv' /\ SuccessInv'
<1>1. UNCHANGED <<owner, loads, results, pc>> /\ pc = "deferred"
  BY DEF RunDeferred
<1>2. CASE err' # "nil"
  <2>1. fields' = fields
    BY <1>2, Popped
  <2> QED BY <1>1, <1>2, <2>1 DEF CoveredInv, SuccessInv
<1>3. CASE err' = "nil"
  <2>1. PICK p \in Deferral : p = pending[Len(pending)]
    BY Popped
  <2> DEFINE n == p.struct  k == p.field
  <2>2. /\ err = "nil" /\ n \in Names /\ k \in 1..Len(fields[n]) /\ owner[n] = loads
        /\ \E c \in Cell : /\ CellInv(c) /\ c.parser = "set" /\ ~Unreported(c)
                           /\ c.type = fields[n][k].type
                           /\ fields[n][k].outer = "nil" /\ c.outer = "nil"
                           /\ fields' = [fields EXCEPT ![n][k] = c]
    BY <1>3, <2>1, Resolved
  <2>3. PICK c \in Cell : /\ c.parser = "set" /\ ~Unreported(c)
                          /\ fields' = [fields EXCEPT ![n][k] = c]
    BY <2>2
  <2>4. fields \in [Names -> Seq(Cell)]
    BY DEF Base, TypeOK
  <2>5. p = [struct |-> n, field |-> k]
    BY DEF Deferral
  <2> HIDE DEF n, k
  <2>6. /\ fields' \in [Names -> Seq(Cell)]
        /\ \A s \in Names : s # n => fields'[s] = fields[s]
        /\ Len(fields'[n]) = Len(fields[n]) /\ fields'[n][k] = c
        /\ \A j \in 1..Len(fields[n]) : j # k => fields'[n][j] = fields[n][j]
    BY <2>2, <2>3, <2>4, ReplaceFacts
  <2>7. SuccessInv'
    <3>1. results[loads] = "running"
      BY <1>1 DEF Base, RunningInv
    <3> QED BY <1>1, <2>2, <2>6, <3>1 DEF SuccessInv
  <2>8. CoveredInv'
    <3> SUFFICES ASSUME NEW s \in Names, owner[s] = loads, NEW j \in 1..Len(fields'[s])
                 PROVE  /\ ~Unreported(fields'[s][j])
                        /\ \/ fields'[s][j].parser = "set"
                           \/ \E i \in 1..Len(pending') :
                                 pending'[i] = [struct |-> s, field |-> j]
      BY <1>1 DEF CoveredInv, Unreported, SilentNull
    <3>1. CASE s = n /\ j = k
      BY <2>3, <2>6, <3>1
    <3>2. CASE ~(s = n /\ j = k)
      <4>1. j \in 1..Len(fields[s]) /\ fields'[s][j] = fields[s][j]
        BY <2>6, <3>2
      <4>2. /\ ~Unreported(fields[s][j])
            /\ \/ fields[s][j].parser = "set"
               \/ \E i \in 1..Len(pending) : pending[i] = [struct |-> s, field |-> j]
        BY <1>1, <2>2, <4>1 DEF CoveredInv
      <4>3. ASSUME NEW i \in 1..Len(pending), pending[i] = [struct |-> s, field |-> j]
            PROVE  \E h \in 1..Len(pending') : pending'[h] = [struct |-> s, field |-> j]
        <5>1. [struct |-> s, field |-> j] # [struct |-> n, field |-> k]
          BY <3>2
        <5>2. i # Len(pending)
          BY <2>1, <2>5, <4>3, <5>1
        <5>3. i \in 1..Len(pending') /\ pending'[i] = pending[i]
          BY <5>2, Popped
        <5> QED BY <4>3, <5>3
      <4> QED BY <4>1, <4>2, <4>3
    <3> QED BY <3>1, <3>2
  <2> QED BY <2>7, <2>8
<1> QED BY <1>2, <1>3

LEMMA CoverStep ==
    ASSUME Base, CoveredInv, SuccessInv, [Next]_vars
    PROVE  CoveredInv' /\ SuccessInv'
<1>1. ASSUME NEW d \in Definitions, BeginLoad(d) PROVE CoveredInv' /\ SuccessInv'
  <2>1. /\ loads' = loads + 1 /\ UNCHANGED <<fields, owner>>
        /\ results' = [results EXCEPT ![loads'] = "running"]
    BY <1>1 DEF BeginLoad
  <2>2. \A n \in Names : owner[n] <= loads /\ owner[n] \in 0..MaxLoads /\ loads \in Nat
    BY DEF Base, TableInv, TypeOK
  <2>3. CoveredInv'
    BY <2>1, <2>2 DEF CoveredInv
  <2>4. SuccessInv'
    BY <2>1, <2>2 DEF SuccessInv, Base, TypeOK
  <2> QED BY <2>3, <2>4
<1>2. ASSUME MaskedStruct PROVE CoveredInv' /\ SuccessInv'
  BY <1>2 DEF CoveredInv, SuccessInv, MaskedStruct, Fail
<1>3. ASSUME AddStruct PROVE CoveredInv' /\ SuccessInv'
  <2>1. /\ owner' = [owner EXCEPT ![Struct.name] = loads]
        /\ types[Struct.name] = "absent" /\ pc = "structs"
        /\ \/ pc' = "deferred" /\ err' = "error"
           \/ pc' = "fields" /\ err' = err
        /\ UNCHANGED <<fields, loads, results, pending>>
    BY <1>3 DEF AddStruct, Fail
  <2>2. Struct.name \in Names /\ loads \in 1..MaxLoads
    BY <1>3, TextFacts DEF Base, RunningInv, AddStruct
  <2>3. fields[Struct.name] = <<>> /\ Len(fields[Struct.name]) = 0
        /\ results[loads] = "running"
    BY <2>1, <2>2, EmptySeq DEF Base, TableInv, RunningInv
  <2>4. PICK n \in Names : n = Struct.name
    BY <2>2
  <2>5. CoveredInv'
    BY <2>1, <2>3, <2>4 DEF CoveredInv, Base, TypeOK
  <2>6. SuccessInv'
    BY <2>1, <2>3, <2>4 DEF SuccessInv, Base, TypeOK
  <2> QED BY <2>5, <2>6
<1>4. ASSUME BadOffset PROVE CoveredInv' /\ SuccessInv'
  <2>1. Field.type \in TypeTerm
    BY <1>4, AtField DEF BadOffset
  <2>2. SuccessInv'
    BY <1>4, <2>1, UnbuiltFacts, SuccessAdded DEF BadOffset
  <2> QED BY <1>4, <2>2 DEF CoveredInv, BadOffset, Fail
<1>5. ASSUME AddField PROVE CoveredInv' /\ SuccessInv'
  <2>1. Field.type \in TypeTerm /\ pc = "fields" /\ fi <= Len(Struct.fields)
    BY <1>5, AtField DEF AddField
  <2>2. PICK c \in Cell : c = Built(Field.type) /\ CellInv(c) /\ AddCell(c)
    BY <1>5, <2>1, BuiltFacts DEF AddField
  <2>3. SuccessInv'
    BY <1>5, <2>1, <2>2, SuccessAdded DEF AddField
  <2>4. CASE NewOuter(Field.type).res = "ok"
    <3>1. c.parser = "set" /\ ~Unreported(c)
      BY <2>1, <2>2, <2>4, BuiltFacts
    <3>2. UNCHANGED <<owner, loads, pc, err, pending>>
      BY <1>5, <2>4 DEF AddField
    <3>3. Len(pending) \in Nat
      BY LenProperties DEF Base, TypeOK
    <3>4. CASE err = "nil"
      BY <2>1, <2>2, <2>3, <3>1, <3>2, <3>3, <3>4, CoveredAdded
    <3>5. CASE err # "nil"
      BY <2>3, <3>2, <3>5 DEF CoveredInv
    <3> QED BY <3>4, <3>5
  <2>5. CASE NewOuter(Field.type).res # "ok"
    BY <1>5, <2>3, <2>5 DEF CoveredInv, AddField, Fail
  <2> QED BY <2>4, <2>5
<1>6. ASSUME DelayField PROVE CoveredInv' /\ SuccessInv'
  <2>1. Field.type \in TypeTerm /\ Struct.name \in Names
        /\ pc = "fields" /\ fi <= Len(Struct.fields)
    BY <1>6, AtField DEF DelayField
  <2>2. PICK c \in Cell : CellInv(c) /\ AddCell(c) /\ ~Unreported(c)
    BY <1>6, <2>1, UnbuiltFacts DEF DelayField
  <2>3. SuccessInv'
    BY <1>6, <2>1, <2>2, SuccessAdded DEF DelayField
  <2>4. PICK p \in Deferral : /\ p = [struct |-> Struct.name, field |-> fi]
                              /\ pending' = Append(pending, p)
    BY <1>6, <2>1 DEF DelayField, Deferral, Base, TypeOK
  <2>5. /\ Len(pending') = Len(pending) + 1 /\ Len(pending) \in Nat
        /\ \A i \in 1..Len(pending) : pending'[i] = pending[i]
        /\ pending'[Len(pending) + 1] = p
    BY <2>4, AppendProperties, LenProperties DEF Base, TypeOK
  <2>6. UNCHANGED <<owner, loads, pc, err>>
    BY <1>6 DEF DelayField
  <2>7. /\ Len(pending') \in Nat /\ Len(pending) <= Len(pending')
        /\ \E i \in 1..Len(pending') : pending'[i] = [struct |-> Struct.name, field |-> fi]
    BY <2>4, <2>5
  <2>8. CASE err = "nil"
    BY <2>1, <2>2, <2>3, <2>5, <2>6, <2>7, <2>8, CoveredAdded
  <2>9. CASE err # "nil"
    BY <2>3, <2>6, <2>9 DEF CoveredInv
  <2> QED BY <2>8, <2>9
<1>7. ASSUME NextStruct \/ EndOfText PROVE CoveredInv' /\ SuccessInv'
  <2>1. UNCHANGED <<fields, owner, loads, results, pending, err>> /\ pc # "idle"
    BY <1>7 DEF NextStruct, EndOfText
  <2> QED BY <2>1 DEF CoveredInv, SuccessInv
<1>8. ASSUME Return PROVE CoveredInv' /\ SuccessInv'
  <2>1. /\ UNCHANGED <<fields, owner, loads>> /\ pc = "deferred" /\ pc' = "idle"
        /\ results' = [results EXCEPT ![loads] = IF err = "nil" THEN "ok" ELSE "error"]
        /\ pending = <<>> /\ Len(pending) = 0
    BY <1>8, EmptySeq DEF Return
  <2>2. CoveredInv'
    BY <2>1 DEF CoveredInv
  <2>3. SuccessInv'
    <3> SUFFICES ASSUME NEW s \in Names, owner[s] # 0, results'[owner[s]] = "ok",
                        NEW j \in 1..Len(fields[s])
                 PROVE  fields[s][j].parser = "set" /\ ~Unreported(fields[s][j])
      BY <2>1 DEF SuccessInv, Unreported, SilentNull
    <3>1. loads \in 1..MaxLoads /\ owner[s] \in 1..MaxLoads
      BY <2>1 DEF Base, TypeOK, RunningInv
    <3>2. CASE owner[s] = loads
      BY <2>1, <3>1, <3>2 DEF CoveredInv, Base, TypeOK
    <3>3. CASE owner[s] # loads
      BY <2>1, <3>1, <3>3 DEF SuccessInv, Base, TypeOK
    <3> QED BY <3>2, <3>3
  <2> QED BY <2>2, <2>3
<1>9. ASSUME NEW n \in Names, AddParser(n) PROVE CoveredInv' /\ SuccessInv'
  BY <1>9 DEF AddParser, loadVars, CoveredInv, SuccessInv
<1>10. ASSUME NEW s \in Names, NEW k \in 1..Len(fields[s]), NEW reach \in BOOLEAN,
              ParseField(s, k, reach)
       PROVE  CoveredInv' /\ SuccessInv'
  <2>1. /\ \A n \in Names : n # s => fields'[n] = fields[n]
        /\ Len(fields'[s]) = Len(fields[s])
        /\ \A j \in 1..Len(fields[s]) : j # k => fields'[s][j] = fields[s][j]
        /\ fields'[s][k].parser = fields[s][k].parser
        /\ ~Unreported(fields[s][k]) => ~Unreported(fields'[s][k])
    BY <1>10, ParsedField
  <2>2. UNCHANGED <<owner, results, pc>> /\ pc = "idle"
    BY <1>10 DEF ParseField, loadVars
  <2>3. SuccessInv'
    <3> SUFFICES ASSUME NEW n \in Names, owner[n] # 0, results[owner[n]] = "ok",
                        NEW j \in 1..Len(fields'[n])
                 PROVE  fields'[n][j].parser = "set" /\ ~Unreported(fields'[n][j])
      BY <2>2 DEF SuccessInv, Unreported, SilentNull
    <3>1. j \in 1..Len(fields[n])
      BY <2>1
    <3>2. fields[n][j].parser = "set" /\ ~Unreported(fields[n][j])
      BY <3>1 DEF SuccessInv
    <3> QED BY <2>1, <3>1, <3>2
  <2> QED BY <2>2, <2>3 DEF CoveredInv
<1>11. ASSUME UNCHANGED vars PROVE CoveredInv' /\ SuccessInv'
  BY <1>11 DEF vars, loadVars, CoveredInv, SuccessInv, Unreported, SilentNull
<1> QED BY <1>1, <1>2, <1>3, <1>4, <1>5, <1>6, <1>7, <1>8, <1>9, <1>10, <1>11,
           CoverRunDeferred DEF Next, LoadStep

THEOREM CoverInvariant == Spec => [](CoveredInv /\ SuccessInv)
<1>1. Init => CoveredInv /\ SuccessInv
  BY DEF Init, CoveredInv, SuccessInv
<1>2. Base /\ CoveredInv /\ SuccessInv /\ [Next]_vars => CoveredInv' /\ SuccessInv'
  BY CoverStep
<1> QED BY <1>1, <1>2, BaseInvariant, PTL DEF Spec

\* ParseStructDefinitions returns no error only when every field of the structs
\* it added has its parser.
THEOREM SuccessIsComplete == Spec => []SuccessMeansResolved
<1>1. SuccessInv => SuccessMeansResolved
  BY DEF SuccessInv, SuccessMeansResolved
<1> QED BY <1>1, CoverInvariant, PTL

\* After such a load a field can be null without a log line only where a lazy
\* wrapper hides a strict one whose element is unknown.
THEOREM SilenceIsMasked == Spec => []SilentOnlyIfMasked
<1>1. SuccessInv => SilentOnlyIfMasked
  BY DEF SuccessInv, SilentOnlyIfMasked, Unreported
<1> QED BY <1>1, CoverInvariant, PTL

-----------------------------------------------------------------------------
(***************************************************************************)
(* A failed load cannot be repaired by loading the text again.             *)
(***************************************************************************)

\* A repeated load of its own first struct can only fail on it.
LEMMA RepeatIsMasked ==
    ASSUME Base, NEW l \in 1..loads, l < loads, Repeats(l, loads), si = 1
    PROVE  /\ 1 <= Len(Text) /\ Len(Text) \in Nat
           /\ Struct.name \in Names /\ types[Struct.name] # "absent"
<1>0. loads \in 1..MaxLoads
  <2>1. loads \in 0..MaxLoads /\ l \in Nat /\ l >= 1
    BY DEF Base, TypeOK
  <2> QED BY <2>1
<1>1. loads \in 1..MaxLoads /\ Text \in Definitions \cup {<<>>} /\ Text # <<>>
  <2>1. texts \in [1..MaxLoads -> Definitions \cup {<<>>}]
    BY DEF Base, TypeOK
  <2> QED BY <1>0, <2>1 DEF Repeats, Text
<1>2. Text \in Seq(StructDefinition) /\ Len(Text) \in Nat \ {0}
  BY <1>1, ProfileAssumption, EmptySeq
<1>3. 1 <= Len(Text)
  BY <1>2
<1>4. Struct.name \in Names
  BY <1>1, <1>3, TextFacts DEF Base
<1>5. owner[Struct.name] = l
  BY DEF Repeats, Struct, Text
<1>6. types[Struct.name] # "absent"
  BY <1>4, <1>5 DEF Base, TableInv
<1> QED BY <1>2, <1>3, <1>4, <1>6

LEMMA RetryStep ==
    ASSUME Base, RetryInv, [Next]_vars
    PROVE  RetryInv'
<1> SUFFICES ASSUME NEW l1 \in 1..loads', NEW l2 \in 1..loads', l1 < l2, Repeats(l1, l2)'
             PROVE  /\ results'[l2] # "ok"
                    /\ l2 = loads' /\ pc' # "idle" /\ err' = "nil" => pc' = "structs" /\ si' = 1
  BY DEF RetryInv, Repeats
<1> DEFINE Goal == /\ results'[l2] # "ok"
                   /\ l2 = loads' /\ pc' # "idle" /\ err' = "nil" => pc' = "structs" /\ si' = 1
<1>1. l1 \in Nat /\ l2 \in Nat /\ loads \in 0..MaxLoads
  BY DEF Base, TypeOK
\* What was a repetition before the step is one after it.
<1>2. ASSUME UNCHANGED <<owner, loads, texts>>
      PROVE  /\ l1 \in 1..loads /\ l2 \in 1..loads /\ Repeats(l1, l2)
             /\ results[l2] # "ok"
             /\ l2 = loads /\ pc # "idle" /\ err = "nil" => pc = "structs" /\ si = 1
  BY <1>2 DEF RetryInv, Repeats
<1>3. ASSUME NEW d \in Definitions, BeginLoad(d) PROVE Goal
  <2>1. /\ loads' = loads + 1 /\ loads' \in 1..MaxLoads /\ UNCHANGED owner
        /\ texts' = [texts EXCEPT ![loads'] = d]
        /\ results' = [results EXCEPT ![loads'] = "running"]
        /\ pc' = "structs" /\ si' = 1
    BY <1>3, ProfileAssumption DEF BeginLoad, Base, TypeOK
  <2>2. CASE l2 = loads'
    BY <2>1, <2>2 DEF Base, TypeOK
  <2>3. CASE l2 # loads'
    <3>1. l1 \in 1..loads /\ l2 \in 1..loads /\ l1 # loads'
      BY <1>1, <2>1, <2>3
    <3>2. texts'[l1] = texts[l1] /\ texts'[l2] = texts[l2] /\ results'[l2] = results[l2]
      BY <2>1, <2>3, <3>1 DEF Base, TypeOK
    <3>3. Repeats(l1, l2)
      BY <2>1, <3>2 DEF Repeats
    <3> QED BY <2>3, <3>1, <3>2, <3>3 DEF RetryInv
  <2> QED BY <2>2, <2>3
<1>4. ASSUME AddStruct PROVE Goal
  <2>1. /\ owner' = [owner EXCEPT ![Struct.name] = loads]
        /\ types[Struct.name] = "absent" /\ pc = "structs"
        /\ \/ pc' = "deferred" /\ err' = "error"
           \/ pc' = "fields" /\ err' = err
        /\ UNCHANGED <<loads, results, texts>>
    BY <1>4 DEF AddStruct, Fail
  <2>2. Struct.name \in Names
    BY <1>4, TextFacts DEF Base, RunningInv, AddStruct
  <2>3. PICK n \in Names : n = Struct.name
    BY <2>2
  <2> DEFINE f == texts[l1][1].name
  <2>4. owner'[f] = l1
    BY <2>1 DEF Repeats
  <2>5. f # n
    BY <1>1, <2>1, <2>3, <2>4 DEF Base, TypeOK
  <2>6. owner[f] = owner'[f]
    BY <2>1, <2>3, <2>5 DEF Base, TypeOK
  <2>7. Repeats(l1, l2)
    BY <2>1, <2>6 DEF Repeats
  <2>8. /\ results[l2] # "ok"
        /\ l2 = loads /\ err = "nil" => si = 1
    BY <2>1, <2>7 DEF RetryInv
  <2>9. l2 = loads => err # "nil"
    BY <1>1, <2>1, <2>7, <2>8, RepeatIsMasked
  <2> QED BY <2>1, <2>8, <2>9
<1>5. ASSUME MaskedStruct \/ BadOffset PROVE Goal
  BY <1>2, <1>5 DEF MaskedStruct, BadOffset, Fail
<1>6. ASSUME AddField \/ DelayField \/ NextStruct PROVE Goal
  <2>1. /\ pc = "fields" /\ (err' = err \/ err' = "error")
        /\ UNCHANGED <<owner, loads, results, texts>>
    BY <1>6 DEF AddField, DelayField, NextStruct, Fail
  <2> QED BY <1>2, <2>1
<1>7. ASSUME EndOfText PROVE Goal
  <2>1. /\ pc = "structs" /\ si > Len(Text)
        /\ UNCHANGED <<owner, loads, results, texts, err>>
    BY <1>7 DEF EndOfText
  <2>2. l2 = loads => err # "nil"
    <3> SUFFICES ASSUME l2 = loads, err = "nil" PROVE FALSE
      OBVIOUS
    <3>1. si = 1 /\ l1 \in 1..loads /\ l1 < loads /\ Repeats(l1, loads)
      BY <1>2, <2>1
    <3>2. 1 <= Len(Text) /\ Len(Text) \in Nat
      BY <3>1, RepeatIsMasked
    <3> QED BY <2>1, <3>1, <3>2
  <2> QED BY <1>2, <2>1, <2>2
<1>8. ASSUME RunDeferred PROVE Goal
  <2>1. /\ pc = "deferred" /\ (err # "nil" => err' = err)
        /\ UNCHANGED <<owner, loads, results, texts>>
    BY <1>8 DEF RunDeferred
  <2> QED BY <1>2, <2>1
<1>9. ASSUME Return PROVE Goal
  <2>1. /\ pc = "deferred" /\ pc' = "idle" /\ UNCHANGED <<owner, loads, texts>>
        /\ results' = [results EXCEPT ![loads] = IF err = "nil" THEN "ok" ELSE "error"]
    BY <1>9 DEF Return
  <2> QED BY <1>1, <1>2, <2>1 DEF Base, TypeOK
<1>10. CASE \/ \E n \in Names : AddParser(n)
            \/ \E s \in Names : \E j \in 1..Len(fields[s]), reach \in BOOLEAN :
                  ParseField(s, j, reach)
            \/ UNCHANGED vars
  BY <1>2, <1>10 DEF AddParser, ParseField, vars, loadVars
<1> QED BY <1>3, <1>4, <1>5, <1>6, <1>7, <1>8, <1>9, <1>10 DEF Next, LoadStep

\* Loading again a text whose first struct an earlier load registered fails,
\* however that earlier load ended.
THEOREM RetryFails == Spec => []RetryNeverRepairs
<1>1. Init => RetryInv
  BY ProfileAssumption DEF Init, RetryInv
<1>2. Base /\ RetryInv /\ [Next]_vars => RetryInv'
  BY RetryStep
<1>3. RetryInv => RetryNeverRepairs
  BY DEF RetryInv, RetryNeverRepairs, Repeats
<1> QED BY <1>1, <1>2, <1>3, BaseInvariant, PTL DEF Spec
=============================================================================
