------------------------------ MODULE Profile ------------------------------
(***************************************************************************)
(* A Profile: the table of parsers by type name, the loading of struct     *)
(* definitions into it, and the resolution of the type names the fields    *)
(* mention - when the definition is loaded, when the load returns, or when *)
(* the field is first parsed.                                              *)
(*                                                                         *)
(* ParseStructDefinitions runs in one goroutine, so its steps never        *)
(* interleave with another call; they are separate actions because each of *)
(* its returns leaves behind whatever the earlier steps have done.         *)
(***************************************************************************)
EXTENDS Naturals, Sequences

CONSTANTS Names,        \* type names that a definition defines or mentions
          ModelTypes,   \* those AddModel registers, the next ones included
          OptionTypes,  \* those whose New fails when it is given no options
          Definitions,  \* the texts ParseStructDefinitions may be given
          MaxLoads      \* bound: calls of ParseStructDefinitions

(***************************************************************************)
(* A wrapper is a parser that is given another type by name.  The lazy     *)
(* ones tolerate an unknown name until they parse, the strict ones want it *)
(* at once, and the late one looks only when it parses.                    *)
(***************************************************************************)
LazyKinds   == {"Array", "Enumeration", "Pointer", "Timestamp"}
StrictKinds == {"BitField", "Flags"}
LateKinds   == {"Profile"}
Wrappers    == LazyKinds \cup StrictKinds \cup LateKinds

\* Reads its element only when the data says so (a count, a readable address).
MaySkipElement == {"Array", "Pointer"}

(***************************************************************************)
(* The type and options of a field: outer of inner of leaf, each wrapper   *)
(* possibly missing.  Two levels of type_options are the deepest nesting   *)
(* considered; a BitField passes no options on, so its element is a leaf.  *)
(***************************************************************************)
TypeTerm == {t \in [outer : Wrappers \cup {"none"},
                    inner : Wrappers \cup {"none"}, leaf : Names] :
                t.outer \in {"none", "BitField"} => t.inner = "none"}

FieldDefinition  == [type : TypeTerm, badOffset : BOOLEAN]
StructDefinition == [name : Names, badSize : BOOLEAN, fields : Seq(FieldDefinition)]

ASSUME ProfileAssumption ==
    /\ ModelTypes \subseteq Names
    /\ OptionTypes \subseteq ModelTypes
    /\ Definitions \subseteq Seq(StructDefinition)
    /\ MaxLoads \in Nat

VARIABLES
    types,    \* Profile.types: what is registered under each name
    fields,   \* the fields of each registered struct, in order
    owner,    \* the load that registered each struct, 0 when none did
    loads,    \* number of loads begun
    results,  \* what each load returned
    texts,    \* what each load was given
    pc,       \* where the running load is
    si, fi,   \* its struct and field, counting from 1
    pending,  \* its deferred resolutions, in the order they were deferred
    err       \* its named result

loadVars == <<pc, si, fi, pending, err>>
vars == <<types, fields, owner, loads, results, texts, loadVars>>

\* A parser pointer: not resolved, resolved, or given up after a logged error.
Slot == {"nil", "set", "invalid"}

(***************************************************************************)
(* A field: its type, the delegate of its ParseAtOffset, the pointers held *)
(* by its outer and inner wrapper, and how often it logged a failure.      *)
(***************************************************************************)
Cell == [type : TypeTerm, parser : Slot, outer : Slot, inner : Slot, logs : Nat]

\* A deferred function: the field whose type it is to look up.
Deferral == [struct : Names, field : Nat \ {0}]

Init ==
    /\ types = [n \in Names |-> IF n \in ModelTypes THEN "model" ELSE "absent"]
    /\ fields = [n \in Names |-> <<>>]
    /\ owner = [n \in Names |-> 0]
    /\ loads = 0
    /\ results = [l \in 1..MaxLoads |-> "none"]
    /\ texts = [l \in 1..MaxLoads |-> <<>>]
    /\ pc = "idle" /\ si = 1 /\ fi = 1 /\ pending = <<>> /\ err = "nil"

-----------------------------------------------------------------------------
(***************************************************************************)
(* GetParser.  res is the error class, made says whether a parser came     *)
(* back (the strict wrappers return one along with their error) and held   *)
(* is the pointer kept by a wrapper that was made.                         *)
(***************************************************************************)
Lookup(n) ==
    CASE types[n] = "absent" -> [res |-> "notfound", made |-> FALSE, held |-> "nil"]
      [] types[n] = "model" /\ n \in OptionTypes
                             -> [res |-> "error", made |-> FALSE, held |-> "nil"]
      [] OTHER               -> [res |-> "ok", made |-> TRUE, held |-> "nil"]

SlotFor(made) == IF made THEN "set" ELSE "nil"

\* Mutant of Wrap: the strict wrappers drop their error as the lazy ones may.
Wrap_StrictSwallows(w, r) ==
    CASE w \in LazyKinds \cup StrictKinds
                           -> [res  |-> IF r.res = "error" THEN "error" ELSE "ok",
                               made |-> r.res # "error",
                               held |-> SlotFor(r.made)]
      [] w \in LateKinds   -> [res |-> "ok", made |-> TRUE, held |-> "nil"]
      [] OTHER             -> r

\* New of wrapper w, when the GetParser it calls for its element returns r.
Wrap(w, r) ==
    CASE w \in LazyKinds   -> [res  |-> IF r.res = "error" THEN "error" ELSE "ok",
                               made |-> r.res # "error",
                               held |-> SlotFor(r.made)]
      [] w \in StrictKinds -> [res |-> r.res, made |-> TRUE, held |-> SlotFor(r.made)]
      [] w \in LateKinds   -> [res |-> "ok", made |-> TRUE, held |-> "nil"]
      [] OTHER             -> r

NewInner(t) == Wrap(t.inner, Lookup(t.leaf))
NewOuter(t) == Wrap(t.outer, NewInner(t))

\* The cell after its delegate is built by New; a wrapper that was not made
\* by this New holds nothing.
Built(t) ==
    LET o == NewOuter(t)
        i == NewInner(t)
    IN  [type |-> t, parser |-> SlotFor(o.made), outer |-> o.held,
         inner |-> IF o.held = "set" THEN i.held ELSE "nil", logs |-> 0]

Unbuilt(t) == [type |-> t, parser |-> "nil", outer |-> "nil", inner |-> "nil", logs |-> 0]

\* The name the load looks up first; the wrappers are always registered.
Registered(t) == t.outer # "none" \/ types[t.leaf] # "absent"
-----------------------------------------------------------------------------
(* ParseStructDefinitions.                                                 *)

Text   == texts[loads]
Struct == Text[si]
Field  == Struct.fields[fi]

\* The text is valid YAML; a text that is not returns before it changes anything.
BeginLoad(d) ==
    /\ pc = "idle" /\ loads < MaxLoads
    /\ loads' = loads + 1
    /\ texts' = [texts EXCEPT ![loads'] = d]
    /\ results' = [results EXCEPT ![loads'] = "running"]
    /\ pc' = "structs" /\ si' = 1 /\ fi' = 1 /\ pending' = <<>> /\ err' = "nil"
    /\ UNCHANGED <<types, fields, owner>>

\* Every return of the body runs the deferred functions.
Fail == err' = "error" /\ pc' = "deferred"

MaskedStruct ==
    /\ pc = "structs" /\ si <= Len(Text)
    /\ types[Struct.name] # "absent"
    /\ Fail
    /\ UNCHANGED <<types, fields, owner, loads, results, texts, si, fi, pending>>

\* Mutant of AddStruct: only the model's own types are protected from masking.
AddStruct_MasksStructs ==
    /\ pc = "structs" /\ si <= Len(Text)
    /\ types[Struct.name] # "model"
    /\ types' = [types EXCEPT ![Struct.name] = "struct"]
    /\ fields' = [fields EXCEPT ![Struct.name] = <<>>]
    /\ owner' = [owner EXCEPT ![Struct.name] = IF @ = 0 THEN loads ELSE @]
    /\ fi' = 1
    /\ IF Struct.badSize THEN Fail ELSE pc' = "fields" /\ UNCHANGED err
    /\ UNCHANGED <<loads, results, texts, si, pending>>

\* The struct is in the table before its size expression is looked at.
AddStruct ==
    /\ pc = "structs" /\ si <= Len(Text)
    /\ types[Struct.name] = "absent"
    /\ types' = [types EXCEPT ![Struct.name] = "struct"]
    /\ owner' = [owner EXCEPT ![Struct.name] = loads]
    /\ fi' = 1
    /\ IF Struct.badSize THEN Fail ELSE pc' = "fields" /\ UNCHANGED err
    /\ UNCHANGED <<fields, loads, results, texts, si, pending>>

AddCell(c) == fields' = [fields EXCEPT ![Struct.name] = Append(@, c)]

\* The field is installed, then its offset expression fails to parse.
BadOffset ==
    /\ pc = "fields" /\ fi <= Len(Struct.fields)
    /\ Field.badOffset
    /\ AddCell(Unbuilt(Field.type))
    /\ Fail
    /\ UNCHANGED <<types, owner, loads, results, texts, si, fi, pending>>

AddField ==
    /\ pc = "fields" /\ fi <= Len(Struct.fields)
    /\ ~Field.badOffset /\ Registered(Field.type)
    /\ AddCell(Built(Field.type))
    /\ IF NewOuter(Field.type).res = "ok"
          THEN fi' = fi + 1 /\ UNCHANGED <<pc, err>>
          ELSE Fail /\ UNCHANGED fi
    /\ UNCHANGED <<types, owner, loads, results, texts, si, pending>>

\* Mutant of DelayField: the deferred lookup counts fields from 0.
DelayField_OffByOne ==
    /\ pc = "fields" /\ fi <= Len(Struct.fields)
    /\ ~Field.badOffset /\ ~Registered(Field.type)
    /\ AddCell(Unbuilt(Field.type))
    /\ pending' = Append(pending, [struct |-> Struct.name, field |-> fi - 1])
    /\ fi' = fi + 1
    /\ UNCHANGED <<types, owner, loads, results, texts, pc, si, err>>

\* The type is unknown so far: its lookup is deferred to the return.
DelayField ==
    /\ pc = "fields" /\ fi <= Len(Struct.fields)
    /\ ~Field.badOffset /\ ~Registered(Field.type)
    /\ AddCell(Unbuilt(Field.type))
    /\ pending' = Append(pending, [struct |-> Struct.name, field |-> fi])
    /\ fi' = fi + 1
    /\ UNCHANGED <<types, owner, loads, results, texts, pc, si, err>>

NextStruct ==
    /\ pc = "fields" /\ fi > Len(Struct.fields)
    /\ pc' = "structs" /\ si' = si + 1
    /\ UNCHANGED <<types, fields, owner, loads, results, texts, fi, pending, err>>

EndOfText ==
    /\ pc = "structs" /\ si > Len(Text)
    /\ pc' = "deferred"
    /\ UNCHANGED <<types, fields, owner, loads, results, texts, si, fi, pending, err>>

\* Mutant of RunDeferred: an undefined type is skipped without an error.
RunDeferred_DropsError ==
    /\ pc = "deferred" /\ pending # <<>>
    /\ LET p == pending[Len(pending)]
           t == fields[p.struct][p.field].type
       IN  IF err # "nil" \/ ~Registered(t) THEN UNCHANGED fields
           ELSE fields' = [fields EXCEPT ![p.struct][p.field] = Built(t)]
    /\ pending' = SubSeq(pending, 1, Len(pending) - 1)
    /\ UNCHANGED <<types, owner, loads, results, texts, pc, si, fi, err>>

\* Deferred functions run last in, first out; each does nothing once err is
\* set, and drops the error of the New it calls.
RunDeferred ==
    /\ pc = "deferred" /\ pending # <<>>
    /\ LET p == pending[Len(pending)]
           t == fields[p.struct][p.field].type
       IN  IF err # "nil" THEN UNCHANGED <<fields, err>>
           ELSE IF ~Registered(t) THEN err' = "error" /\ UNCHANGED fields
           ELSE fields' = [fields EXCEPT ![p.struct][p.field] = Built(t)] /\ UNCHANGED err
    /\ pending' = SubSeq(pending, 1, Len(pending) - 1)
    /\ UNCHANGED <<types, owner, loads, results, texts, pc, si, fi>>

Return ==
    /\ pc = "deferred" /\ pending = <<>>
    /\ pc' = "idle"
    /\ results' = [results EXCEPT ![loads] = IF err = "nil" THEN "ok" ELSE "error"]
    /\ UNCHANGED <<types, fields, owner, loads, texts, si, fi, pending, err>>

-----------------------------------------------------------------------------
\* AddParser replaces whatever has the name; parsers already built keep theirs.
AddParser(n) ==
    /\ pc = "idle"
    /\ types' = [types EXCEPT ![n] = "custom"]
    /\ UNCHANGED <<fields, owner, loads, results, texts, loadVars>>

\* Mutant of Deref: a failure is not remembered (no invalid_parser).
Deref_Forgets(w, p, r) ==
    CASE p # "nil" \/ w \in StrictKinds
            -> [ptr |-> p, fresh |-> FALSE, logged |-> 0, go |-> p = "set"]
      [] p = "nil" /\ w \notin StrictKinds /\ r.res = "ok"
            -> [ptr |-> "set", fresh |-> TRUE, logged |-> 0, go |-> TRUE]
      [] OTHER
            -> [ptr |-> "nil", fresh |-> FALSE, logged |-> 1, go |-> FALSE]

\* Mutant of Deref: a remembered failure is looked up again.
Deref_Retries(w, p, r) ==
    CASE p = "set" \/ w \in StrictKinds
            -> [ptr |-> p, fresh |-> FALSE, logged |-> 0, go |-> p = "set"]
      [] p # "set" /\ w \notin StrictKinds /\ r.res = "ok"
            -> [ptr |-> "set", fresh |-> TRUE, logged |-> 0, go |-> TRUE]
      [] OTHER
            -> [ptr |-> "invalid", fresh |-> FALSE,
                logged |-> IF p = "nil" THEN 1 ELSE 0, go |-> FALSE]

(***************************************************************************)
(* Parse of one wrapper of kind w, holding pointer p to its element, when  *)
(* GetParser for that element would return r: the pointer and the cell's   *)
(* inner pointer afterwards, whether a failure is logged and whether the   *)
(* element can be parsed now.                                              *)
(***************************************************************************)
Deref(w, p, r) ==
    CASE p # "nil" \/ w \in StrictKinds
            -> [ptr |-> p, fresh |-> FALSE, logged |-> 0, go |-> p = "set"]
      [] p = "nil" /\ w \notin StrictKinds /\ r.res = "ok"
            -> [ptr |-> "set", fresh |-> TRUE, logged |-> 0, go |-> TRUE]
      [] OTHER
            -> [ptr |-> "invalid", fresh |-> FALSE, logged |-> 1, go |-> FALSE]

\* The cell after one Parse, which reaches the element of an Array or a
\* Pointer only if the data asks for it.
Parsed(c, reach) ==
    LET t == c.type
        i == NewInner(t)
        o == Deref(t.outer, c.outer, i)
        inner == IF o.fresh THEN i.held ELSE c.inner
        enter == t.inner # "none" /\ o.go /\ (t.outer \in MaySkipElement => reach)
        e == Deref(t.inner, inner, Lookup(t.leaf))
    IN  IF c.parser = "nil" \/ t.outer = "none" THEN c
        ELSE [type |-> t, parser |-> c.parser, outer |-> o.ptr,
              inner |-> IF enter THEN e.ptr ELSE inner,
              logs |-> c.logs + o.logged + (IF enter THEN e.logged ELSE 0)]

\* A field is parsed: through its struct, or a struct the field belongs to.
ParseField(s, j, reach) ==
    /\ pc = "idle" /\ j \in DOMAIN fields[s]
    /\ fields' = [fields EXCEPT ![s][j] = Parsed(@, reach)]
    /\ UNCHANGED <<types, owner, loads, results, texts, loadVars>>

LoadStep == \/ MaskedStruct \/ AddStruct \/ BadOffset \/ AddField \/ DelayField
            \/ NextStruct \/ EndOfText \/ RunDeferred \/ Return

Next ==
    \/ \E d \in Definitions : BeginLoad(d)
    \/ LoadStep
    \/ \E n \in Names : AddParser(n)
    \/ \E s \in Names : \E j \in 1..Len(fields[s]), reach \in BOOLEAN : ParseField(s, j, reach)

Spec == Init /\ [][Next]_vars

-----------------------------------------------------------------------------
\* The state of the profile and of the load that is running; a deferred
\* lookup is of a field that exists, so it is never the zeroth.
TypeOK ==
    /\ types \in [Names -> {"absent", "model", "struct", "custom"}]
    /\ fields \in [Names -> Seq(Cell)]
    /\ owner \in [Names -> 0..MaxLoads]
    /\ loads \in 0..MaxLoads
    /\ results \in [1..MaxLoads -> {"none", "running", "ok", "error"}]
    /\ texts \in [1..MaxLoads -> Definitions \cup {<<>>}]
    /\ pc \in {"idle", "structs", "fields", "deferred"}
    /\ si \in Nat \ {0} /\ fi \in Nat \ {0}
    /\ pending \in Seq(Deferral)
    /\ err \in {"nil", "error"}

\* A load that returned no error left no field without a parser: every type
\* that was unknown when its field was read was found by a deferred lookup,
\* and the New whose error that lookup drops had none to report.
SuccessMeansResolved ==
    \A s \in Names :
        (owner[s] # 0 /\ results[owner[s]] = "ok") =>
            \A j \in 1..Len(fields[s]) : fields[s][j].parser = "set"

\* A load that failed is not undone: once it has registered its first struct,
\* no later load of a text that begins with that struct can return success.
RetryNeverRepairs ==
    \A l1, l2 \in 1..loads :
        (/\ l1 < l2
         /\ texts[l1] # <<>> /\ owner[texts[l1][1].name] = l1
         /\ texts[l2] # <<>> /\ texts[l2][1].name = texts[l1][1].name)
        => results[l2] # "ok"

\* A pointer is decided once, by the first New or Parse that reaches it: a
\* parser found is kept although its name is bound anew by AddParser, and a
\* failure is kept although the missing type is defined afterwards.
Decided(c, d) == /\ c.parser # "nil" => d.parser = c.parser
                 /\ c.outer # "nil" => d.outer = c.outer
                 /\ c.outer = "set" /\ c.inner # "nil" => d.inner = c.inner

DecidedOnce == [][\A s \in Names : \A j \in 1..Len(fields[s]) :
                     Decided(fields[s][j], fields'[s][j])]_vars

\* However often a field is parsed, its failure is logged only the first time.
LoggedOnce == \A s \in Names : \A j \in 1..Len(fields[s]) : fields[s][j].logs <= 1

\* The field can only ever be null, and nothing will say so: a strict wrapper
\* was made without its element.
SilentNull(c) ==
    \/ c.parser = "set" /\ c.outer = "nil" /\ c.type.outer \in StrictKinds
    \/ c.parser = "set" /\ c.outer = "set" /\ c.inner = "nil" /\ c.type.inner \in StrictKinds

\* After a load that returned no error a field is silently null in one case
\* only: a lazy wrapper swallowed the error of a strict one inside it.
SilentOnlyIfMasked ==
    \A s \in Names : (owner[s] # 0 /\ results[owner[s]] = "ok") =>
        \A j \in 1..Len(fields[s]) :
            LET c == fields[s][j] IN
            SilentNull(c) => c.type.outer \in LazyKinds /\ c.type.inner \in StrictKinds

\* What parser_test.go:641 asks for: an invalid definition is reported, so no
\* field of a definition that loaded is silently null.
InvalidIsReported ==
    \A s \in Names : (owner[s] # 0 /\ results[owner[s]] = "ok") =>
        \A j \in 1..Len(fields[s]) : ~SilentNull(fields[s][j])
=============================================================================
