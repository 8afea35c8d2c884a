---------------------------- MODULE Definitions ----------------------------
(***************************************************************************)
(* How the text of a profile becomes options of parsers: the two decoders  *)
(* of a struct definition, UnmarshalYAML (which loads use) and             *)
(* UnmarshalJSON, on a list that the YAML or JSON library has read, and    *)
(* ParseOptions, which puts the options of a field into the fields of a Go *)
(* struct by the tags of that struct.                                      *)
(*                                                                         *)
(* A value is a list, or what matters of another value.                    *)
(***************************************************************************)
EXTENDS Naturals, Sequences, FiniteSets, Functions

CONSTANTS Lists,      \* the struct definitions to decode
          Sample,     \* the one of them whose field is given all sorts of options
          Unknown,    \* an option that no parser has
          MaxArgs     \* bound: options given to a parser

Texts   == {"string", "lambda", "badlambda", "oddlambda"}
Numbers == {"int", "float", "bool"}
Shapes  == Texts \cup Numbers \cup {"null", "map", "badmap", "list"}

\* What is no list has no items.
IsValue(v) == v.shape \in Shapes /\ v.items \in Seq(Range(v.items))

ASSUME DefinitionsAssumption ==
    /\ MaxArgs \in Nat /\ Sample \in Lists
    /\ \A d \in Lists : IsValue(d) /\ \A x \in Range(d.items) :
          IsValue(x) /\ \A f \in Range(x.items) : IsValue(f)

VARIABLES def,      \* the definition
          yaml,     \* what UnmarshalYAML made of it
          json,     \* what UnmarshalJSON made of it
          spec,     \* the parser whose New is called
          args,     \* the options it is given
          pos,      \* the field of the Go struct ParseOptions is at
          left,     \* the options that no field has taken yet
          kept,     \* the fields that were set
          outcome

vars == <<def, yaml, json, spec, args, pos, left, kept, outcome>>

NotYet  == [is |-> "none"]
Error   == [is |-> "error"]
Panic   == [is |-> "panic"]
-----------------------------------------------------------------------------
(* The decoders.                                                           *)

IsText(v)   == v.shape \in Texts
IsNumber(v) == v.shape \in Numbers
IsList(v)   == v.shape = "list"

\* An offset or size is a number or an expression.
Measure(v) == IF IsText(v) THEN [num |-> "zero", exp |-> v.shape] ELSE [num |-> v.shape, exp |-> "empty"]

FieldOf(f) ==
    LET v == f.items
    IN  IF f.shape = "null" THEN [name |-> "nil"]
        ELSE [name |-> v[1].shape, offset |-> Measure(v[2]), type |-> v[3].shape,
              options |-> IF Len(v) = 4 THEN v[4].shape ELSE "nil"]

Struct(v) ==
    [is |-> "struct", name |-> v[1].shape, size |-> Measure(v[2]),
     fields |-> [i \in DOMAIN v[3].items |-> FieldOf(v[3].items[i])]]

\* Keys of options are strings.
YamlField(f) ==
    /\ IsList(f) /\ Len(f.items) \in {3, 4}
    /\ IsText(f.items[1]) /\ IsText(f.items[3])
    /\ IsText(f.items[2]) \/ IsNumber(f.items[2])
    /\ Len(f.items) = 4 => f.items[4].shape = "map"

\* The checks of the parts of the definition, in their order.
YamlPart(i, v) ==
    CASE i = 1 -> IsText(v)
      [] i = 2 -> IsNumber(v) \/ IsText(v)
      [] i = 3 -> IsList(v) /\ \A f \in Range(v.items) : YamlField(f)

\* A part that is not there is looked at all the same; what follows the
\* third is not.  For null no decoder is called, and the load meets a nil.
DecodeYAML(d) ==
    LET v   == d.items
        Bad == {i \in 1..3 : i > Len(v) \/ ~YamlPart(i, v[i])}
        i   == CHOOSE j \in Bad : \A k \in Bad : j <= k
    IN  IF d.shape = "null" THEN Panic
        ELSE IF ~IsList(d) THEN Error
        ELSE IF Bad = {} THEN Struct(v)
        ELSE IF i > Len(v) THEN Panic ELSE Error

\* For JSON a null leaves its target as it is, only an int is a number, and
\* the keys of a map are strings.
JsonText(v) == IsText(v) \/ v.shape = "null"

\* Mutant: an expression is not tried after the number.
JsonMeasure_Int(v) == v.shape \in {"int", "null"}

JsonMeasure(v) == JsonText(v) \/ v.shape = "int"

JsonField(f) ==
    \/ f.shape = "null"
    \/ /\ IsList(f) /\ Len(f.items) \in {3, 4}
       /\ JsonText(f.items[1]) /\ JsonMeasure(f.items[2]) /\ JsonText(f.items[3])
       /\ Len(f.items) = 4 => f.items[4].shape \in {"map", "null"}

DecodeJSON(d) ==
    LET v == d.items
    IN  IF /\ IsList(d) /\ Len(v) = 3 /\ JsonText(v[1]) /\ JsonMeasure(v[2])
           /\ v[3].shape \in {"list", "null"} /\ \A f \in Range(v[3].items) : JsonField(f)
          THEN Struct(v) ELSE Error

-----------------------------------------------------------------------------
(* The fields that options are put in: the option, whether it is required, *)
(* the type of the field, and the field for a lambda in its place.         *)

Opt(name, type)       == [name |-> name, field |-> name, type |-> type, required |-> FALSE, lambda |-> ""]
Req(name, type)       == [Opt(name, type) EXCEPT !.required = TRUE]
OrLambda(name, type, field) == [Opt(name, type) EXCEPT !.lambda = field]

ArrayOptions ==
    <<Req("type", "string"), Opt("type_options", "dict"), OrLambda("count", "int64", "count_exp"),
      Opt("max_count", "int64"), Opt("sentinel", "lambda")>>
StringOptions ==
    <<OrLambda("length", "int64", "length_exp"), Opt("max_length", "int64"),
      OrLambda("term", "*string", "term_exp"), Opt("term_hex", "*string"),
      Opt("term_exp", "lambda"), Opt("encoding", "string"), Opt("byte_string", "bool")>>
UnionOptions   == <<Req("selector", "lambda"), Req("choices", "dict")>>
FlagsOptions   == <<Req("type", "string"), Opt("type_options", "dict"), Req("bitmap", "dict")>>
EnumerationOptions ==
    <<Req("type", "string"), Opt("type_options", "dict"), Opt("choices", "dict"), Opt("map", "dict")>>
BitFieldOptions  == <<Opt("start_bit", "int64"), Opt("end_bit", "int64"), Req("type", "string")>>
TimestampOptions == <<Opt("type", "string"), Opt("type_options", "dict"), Opt("factor", "int64")>>
PointerOptions   == <<Req("type", "string"), Opt("type_options", "dict")>>

Specs == [Array |-> ArrayOptions, String |-> StringOptions, Union |-> UnionOptions,
          Flags |-> FlagsOptions, Enumeration |-> EnumerationOptions, BitField |-> BitFieldOptions,
          Timestamp |-> TimestampOptions, Pointer |-> PointerOptions]

\* What the regular expression takes for a lambda, and what is one.
LooksLikeLambda(s) == s \in {"lambda", "badlambda"}
ParsesAsLambda(s)  == s \in {"lambda", "oddlambda"}

\* The values a field of a type can be set to.
Settable(type) ==
    CASE type \in {"int64", "bool"}       -> Numbers
      [] type \in {"string", "*string"}   -> Texts
      [] type = "dict"                    -> {"map"}
      [] type = "lambda"                  -> {s \in Shapes : ParsesAsLambda(s)}

\* Mutant: all texts are optional.
Dropped_Texts(type) == type \in {"string", "*string"}

\* A text field is left alone by a value of another type, without an error.
Dropped(type) == type = "string"

-----------------------------------------------------------------------------
Init ==
    /\ def \in Lists /\ yaml = NotYet /\ json = NotYet
    /\ spec = "" /\ args = <<>> /\ pos = 1 /\ left = {} /\ kept = <<>> /\ outcome = "none"

UnmarshalYAML ==
    /\ yaml = NotYet /\ yaml' = DecodeYAML(def)
    /\ UNCHANGED <<def, json, spec, args, pos, left, kept, outcome>>

UnmarshalJSON ==
    /\ yaml # NotYet /\ json = NotYet /\ json' = DecodeJSON(def)
    /\ UNCHANGED <<def, yaml, spec, args, pos, left, kept, outcome>>

\* The load comes to a field with options: they are some, of any shape.
New(s, names) ==
    /\ yaml.is = "struct" /\ json # NotYet /\ spec = ""
    /\ def = Sample /\ \E i \in DOMAIN yaml.fields : yaml.fields[i].options = "map"
    /\ spec' = s /\ args' \in [names -> Shapes \ {"badmap"}]
    /\ left' = names /\ outcome' = "running"
    /\ UNCHANGED <<def, yaml, json, pos, kept>>

Given == DOMAIN args
Field == Specs[spec][pos]
Arg   == args[Field.name]

Fail == outcome' = "error" /\ UNCHANGED <<pos, kept>>

\* Mutant: the field after one that was set is passed over.
Keep_Two(field) ==
    /\ kept' = [f \in DOMAIN kept \cup {field} |-> IF f = field THEN Arg ELSE kept[f]]
    /\ pos' = pos + 2 /\ UNCHANGED outcome

Keep(field) ==
    /\ kept' = [f \in DOMAIN kept \cup {field} |-> IF f = field THEN Arg ELSE kept[f]]
    /\ pos' = pos + 1 /\ UNCHANGED outcome

\* Mutant: an option that is a lambda is still to be taken.
Taken_NotLambdas ==
    left' = IF LooksLikeLambda(Arg) /\ Field.lambda # "" THEN left ELSE left \ {Field.name}

\* The option has a field.
Taken == left' = left \ {Field.name}

Running == outcome = "running" /\ pos <= Len(Specs[spec])

Absent ==
    /\ Running /\ Field.name \notin Given
    /\ \/ Field.required /\ Fail
       \/ ~Field.required /\ pos' = pos + 1 /\ UNCHANGED <<kept, outcome>>
    /\ UNCHANGED <<def, yaml, json, spec, args, left>>

\* What looks like a lambda goes to the field for it, if there is one.
Lambda ==
    /\ Running /\ Field.name \in Given
    /\ LooksLikeLambda(Arg) /\ Field.lambda # ""
    /\ Taken
    /\ \/ ParsesAsLambda(Arg) /\ Keep(Field.lambda)
       \/ ~ParsesAsLambda(Arg) /\ Fail
    /\ UNCHANGED <<def, yaml, json, spec, args>>

Literal ==
    /\ Running /\ Field.name \in Given
    /\ ~(LooksLikeLambda(Arg) /\ Field.lambda # "")
    /\ Taken
    /\ \/ Arg \in Settable(Field.type) /\ Keep(Field.field)
       \/ /\ Arg \notin Settable(Field.type) /\ Dropped(Field.type)
          /\ pos' = pos + 1 /\ UNCHANGED <<kept, outcome>>
       \/ Arg \notin Settable(Field.type) /\ ~Dropped(Field.type) /\ Fail
    /\ UNCHANGED <<def, yaml, json, spec, args>>

\* All fields were looked at.
Extras ==
    /\ outcome = "running" /\ pos > Len(Specs[spec])
    /\ outcome' = IF left = {} THEN "ok" ELSE "error"
    /\ UNCHANGED <<def, yaml, json, spec, args, pos, left, kept>>

ParseOptions == Absent \/ Lambda \/ Literal \/ Extras

OptionNames(s) == {Specs[s][i].name : i \in DOMAIN Specs[s]} \cup {Unknown}

Next ==
    \/ UnmarshalYAML \/ UnmarshalJSON
    \/ \E s \in DOMAIN Specs : \E names \in SUBSET OptionNames(s) :
          Cardinality(names) <= MaxArgs /\ New(s, names)
    \/ ParseOptions

Spec == Init /\ [][Next]_vars
-----------------------------------------------------------------------------
(* What is checked.                                                        *)

TypeOK ==
    /\ def.shape \in Shapes
    /\ yaml.is \in {"none", "error", "panic", "struct"}
    /\ json.is \in {"none", "error", "struct"}
    /\ spec \in DOMAIN Specs \cup {""} /\ outcome \in {"none", "running", "error", "ok"}
    /\ spec # "" => /\ left \subseteq Given /\ Given \subseteq OptionNames(spec)
                    /\ pos \in 1..Len(Specs[spec]) + 1
    /\ Range(kept) \subseteq Shapes

\* What is in a definition, up to the parts of its fields.
Parts(d)    == Range(d.items) \cup UNION {Range(x.items) : x \in Range(d.items)}
Contents(d) == {x.shape : x \in Parts(d) \cup UNION {Range(f.items) : f \in Parts(d)}}

\* A definition without what JSON and YAML read differently: nulls, sizes
\* and offsets that are no ints, parts after the third.
Common(d) ==
    IsList(d) /\ Len(d.items) = 3 /\ Contents(d) \cap {"null", "float", "bool", "badmap"} = {}

(***************************************************************************)
(* The two decoders are two programs for one language: what is common to   *)
(* both they accept and refuse alike and decode to the same definition;    *)
(* and what JSON accepts without a null, YAML accepts (yaml.go:11-89,      *)
(* json.go:13-70).                                                         *)
(***************************************************************************)
DecodersAgree ==
    /\ json # NotYet /\ Common(def) => json = yaml
    /\ json.is = "struct" /\ "null" \notin Contents(def) => yaml = json

(***************************************************************************)
(* A definition that is not one is refused with an error, "if the profile  *)
(* definition is invalid then we need to report it as an error to the      *)
(* user" (parser_test.go:641).  It is not: yaml.go:18, 23 and 34 index the *)
(* list without a look at its length.                                      *)
(***************************************************************************)
InvalidIsAnError == IsList(def) => yaml # Panic

Wrong(o) ==
    /\ o.name \in Given
    /\ IF LooksLikeLambda(args[o.name]) /\ o.lambda # "" THEN ~ParsesAsLambda(args[o.name])
       ELSE args[o.name] \notin Settable(o.type) /\ ~Dropped(o.type)

(***************************************************************************)
(* ParseOptions fails exactly if a required option is missing, an option   *)
(* has no field, or one is of the wrong type, whichever of them the loop   *)
(* comes to first (options.go:62-236); but for a text of the wrong type.   *)
(***************************************************************************)
OptionsAreChecked ==
    outcome \in {"ok", "error"} =>
        (outcome = "error" <=>
            \/ Given \ {o.name : o \in Range(Specs[spec])} # {}
            \/ \E o \in Range(Specs[spec]) : Wrong(o) \/ (o.required /\ o.name \notin Given))

(***************************************************************************)
(* An option that was accepted is kept, in its field or in the one for its *)
(* lambda, with two exceptions: a text of another type is dropped          *)
(* (options.go:129-134), as if it had not been given although it may be a  *)
(* required one, and a lambda is lost to a later option for the same field *)
(* (a String with both a term that is a lambda and a term_exp).            *)
(***************************************************************************)
NoOptionIsLost ==
    outcome = "ok" => \A o \in Range(Specs[spec]) : o.name \in Given =>
        LET in == IF LooksLikeLambda(args[o.name]) /\ o.lambda # "" THEN o.lambda ELSE o.field
        IN  \/ in \in DOMAIN kept /\ kept[in] = args[o.name]
            \/ o.type = "string" /\ ~(args[o.name] \in Texts)
            \/ in # o.field /\ in \in Given
=============================================================================
