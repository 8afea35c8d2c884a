------------------------ MODULE DefinitionsProofs --------------------------
(***************************************************************************)
(* Proofs about Definitions, for struct definitions of any length with     *)
(* fields of any number and options of any shape: the two decoders agree,  *)
(* and ParseOptions refuses what it should and keeps what it accepts.      *)
(***************************************************************************)
EXTENDS Definitions, TLAPS

-----------------------------------------------------------------------------
(* The decoders, of a definition d.                                        *)

LEMMA ItemsOfValue ==
  ASSUME NEW v, IsValue(v)
  PROVE  /\ Len(v.items) \in Nat
         /\ DOMAIN v.items = 1..Len(v.items)
         /\ \A i \in 1..Len(v.items) : v.items[i] \in Range(v.items)
  <1>. DEFINE s == v.items
              R == Range(v.items)
  <1>1. s \in Seq(R)
    BY DEF IsValue
  <1>2. \A i \in DOMAIN s : s[i] \in R
    BY DEF Range
  <1>. HIDE DEF s, R
  <1>3. Len(s) \in Nat /\ DOMAIN s = 1..Len(s)
    BY <1>1
  <1>4. \A i \in 1..Len(s) : s[i] \in R
    BY <1>2, <1>3
  <1>. QED BY <1>3, <1>4 DEF s, R

LEMMA ShapeOfContents ==
  ASSUME NEW d, NEW x \in Range(d.items)
  PROVE  /\ x.shape \in Contents(d)
         /\ \A f \in Range(x.items) :
               f.shape \in Contents(d) /\ \A e \in Range(f.items) : e.shape \in Contents(d)
  <1>1. x \in Parts(d) /\ \A f \in Range(x.items) : f \in Parts(d)
    BY DEF Parts
  <1>. QED BY <1>1 DEF Contents

\* Without what they read differently the decoders accept the same fields.
LEMMA FieldsAgree ==
  ASSUME NEW f, IsValue(f), f.shape # "null",
         \A e \in Range(f.items) : e.shape \notin {"null", "float", "bool"}
  PROVE  JsonField(f) <=> YamlField(f)
  <1>1. CASE ~(IsList(f) /\ Len(f.items) \in {3, 4})
    BY <1>1 DEF JsonField, YamlField
  <1>2. CASE IsList(f) /\ Len(f.items) \in {3, 4}
    <2>1. \A i \in 1..3 : f.items[i].shape \notin {"null", "float", "bool"}
      BY <1>2, ItemsOfValue
    <2>2. Len(f.items) = 4 => f.items[4].shape # "null"
      BY <1>2, ItemsOfValue
    <2>3. /\ JsonText(f.items[1]) <=> IsText(f.items[1])
          /\ JsonText(f.items[3]) <=> IsText(f.items[3])
      BY <2>1 DEF JsonText
    <2>4. JsonMeasure(f.items[2]) <=> IsText(f.items[2]) \/ IsNumber(f.items[2])
      BY <2>1 DEF JsonMeasure, JsonText, IsNumber, Numbers
    <2>. QED BY <1>2, <2>2, <2>3, <2>4 DEF JsonField, YamlField
  <1>. QED BY <1>1, <1>2

\* What JSON accepts, of a field without a null, YAML accepts.
LEMMA JsonFieldIsYaml ==
  ASSUME NEW f, IsValue(f), f.shape # "null", JsonField(f),
         \A e \in Range(f.items) : e.shape # "null"
  PROVE  YamlField(f)
  <1>1. IsList(f) /\ Len(f.items) \in {3, 4}
    BY DEF JsonField
  <1>2. \A i \in 1..3 : f.items[i].shape # "null"
    BY <1>1, ItemsOfValue
  <1>3. Len(f.items) = 4 => f.items[4].shape # "null"
    BY <1>1, ItemsOfValue
  <1>4. IsText(f.items[1]) /\ IsText(f.items[3])
    BY <1>2 DEF JsonField, JsonText
  <1>5. IsText(f.items[2]) \/ IsNumber(f.items[2])
    BY <1>2 DEF JsonField, JsonMeasure, JsonText, IsNumber, Numbers
  <1>. QED BY <1>1, <1>3, <1>4, <1>5 DEF JsonField, YamlField

\* YAML of a list of three parts or more.
LEMMA YamlOfThree ==
  ASSUME NEW d \in Lists, IsList(d), Len(d.items) \in Nat, Len(d.items) >= 3
  PROVE  DecodeYAML(d) = IF /\ YamlPart(1, d.items[1]) /\ YamlPart(2, d.items[2])
                            /\ YamlPart(3, d.items[3])
                           THEN Struct(d.items) ELSE Error
  <1>. DEFINE v == d.items
              Bad == {i \in 1..3 : i > Len(v) \/ ~YamlPart(i, v[i])}
              i == CHOOSE j \in Bad : \A k \in Bad : j <= k
  <1>1. d.shape # "null"
    BY DEF IsList
  <1>2. DecodeYAML(d) = IF Bad = {} THEN Struct(v) ELSE IF i > Len(v) THEN Panic ELSE Error
    BY <1>1 DEF DecodeYAML
  <1>3. Bad = {j \in 1..3 : ~YamlPart(j, v[j])}
    OBVIOUS
  <1>4. Bad = {} <=> YamlPart(1, v[1]) /\ YamlPart(2, v[2]) /\ YamlPart(3, v[3])
    <2>1. 1..3 = {1, 2, 3}
      OBVIOUS
    <2>. QED BY <1>3, <2>1
  <1>5. Bad # {} => i \in Bad
    <2>1. Bad # {} => \E j \in Bad : \A k \in Bad : j <= k
      <3>1. Bad \subseteq {1, 2, 3}
        OBVIOUS
      <3>2. CASE 1 \in Bad
        BY <3>1, <3>2
      <3>3. CASE 1 \notin Bad /\ 2 \in Bad
        BY <3>1, <3>3
      <3>4. CASE 1 \notin Bad /\ 2 \notin Bad
        BY <3>1, <3>4
      <3>. QED BY <3>2, <3>3, <3>4
    <2>. HIDE DEF Bad
    <2>. QED BY <2>1
  <1>6. Bad # {} => ~(i > Len(v))
    <2>1. \A j \in Bad : ~(j > Len(v))
      OBVIOUS
    <2>. HIDE DEF Bad, i
    <2>. QED BY <1>5, <2>1
  <1>. HIDE DEF Bad, i
  <1>. QED BY <1>2, <1>4, <1>6

LEMMA YamlPartIs ==
  ASSUME NEW v
  PROVE  /\ YamlPart(1, v) <=> IsText(v)
         /\ YamlPart(2, v) <=> IsNumber(v) \/ IsText(v)
         /\ YamlPart(3, v) <=> IsList(v) /\ \A f \in Range(v.items) : YamlField(f)
  BY DEF YamlPart

LEMMA ListsAreValues ==
  ASSUME NEW d \in Lists
  PROVE  /\ IsValue(d)
         /\ \A x \in Range(d.items) : IsValue(x) /\ \A f \in Range(x.items) : IsValue(f)
  BY DefinitionsAssumption

LEMMA AgreeOnCommon ==
  ASSUME NEW d \in Lists, Common(d)
  PROVE  DecodeJSON(d) = DecodeYAML(d)
  <1>. DEFINE v == d.items
              Read == {"null", "float", "bool"}
  <1>1. IsList(d) /\ Len(v) = 3
    BY DEF Common
  <1>2. \A i \in 1..3 : v[i] \in Range(v)
    BY <1>1, ListsAreValues, ItemsOfValue
  <1>3. \A c \in Contents(d) : c \notin Read
    BY DEF Common
  <1>4. \A i \in 1..3 : v[i].shape \notin Read
    BY <1>2, <1>3, ShapeOfContents
  <1>5. \A f \in Range(v[3].items) : JsonField(f) <=> YamlField(f)
    <2>. TAKE f \in Range(v[3].items)
    <2>1. v[3] \in Range(v) /\ IsValue(f)
      BY <1>2, ListsAreValues
    <2>2. f.shape \notin Read /\ \A e \in Range(f.items) : e.shape \notin Read
      BY <1>3, <2>1, ShapeOfContents
    <2>. QED BY <2>1, <2>2, FieldsAgree
  <1>6. JsonText(v[1]) <=> YamlPart(1, v[1])
    BY <1>4, YamlPartIs DEF JsonText
  <1>7. JsonMeasure(v[2]) <=> YamlPart(2, v[2])
    BY <1>4, YamlPartIs DEF JsonMeasure, JsonText, IsNumber, Numbers
  <1>8. v[3].shape \in {"list", "null"} /\ (\A f \in Range(v[3].items) : JsonField(f))
        <=> YamlPart(3, v[3])
    BY <1>4, <1>5, YamlPartIs DEF IsList
  <1>9. DecodeYAML(d) = IF YamlPart(1, v[1]) /\ YamlPart(2, v[2]) /\ YamlPart(3, v[3])
                          THEN Struct(v) ELSE Error
    BY <1>1, YamlOfThree
  <1>10. DecodeJSON(d) = IF /\ JsonText(v[1]) /\ JsonMeasure(v[2]) /\ v[3].shape \in {"list", "null"}
                            /\ \A f \in Range(v[3].items) : JsonField(f)
                           THEN Struct(v) ELSE Error
    BY <1>1 DEF DecodeJSON
  <1>. QED BY <1>6, <1>7, <1>8, <1>9, <1>10

LEMMA AgreeWithoutNull ==
  ASSUME NEW d \in Lists, DecodeJSON(d).is = "struct", "null" \notin Contents(d)
  PROVE  DecodeYAML(d) = DecodeJSON(d)
  <1>. DEFINE v == d.items
  <1>1. /\ IsList(d) /\ Len(v) = 3 /\ JsonText(v[1]) /\ JsonMeasure(v[2])
        /\ v[3].shape \in {"list", "null"} /\ \A f \in Range(v[3].items) : JsonField(f)
    BY DEF DecodeJSON, Error
  <1>2. DecodeJSON(d) = Struct(v)
    BY <1>1 DEF DecodeJSON
  <1>3. \A i \in 1..3 : v[i] \in Range(v)
    BY <1>1, ListsAreValues, ItemsOfValue
  <1>4. \A i \in 1..3 : v[i].shape # "null"
    BY <1>3, ShapeOfContents
  <1>5. \A f \in Range(v[3].items) : YamlField(f)
    <2>. TAKE f \in Range(v[3].items)
    <2>1. v[3] \in Range(v) /\ IsValue(f) /\ JsonField(f)
      BY <1>1, <1>3, ListsAreValues
    <2>2. f.shape # "null" /\ \A e \in Range(f.items) : e.shape # "null"
      BY <2>1, ShapeOfContents
    <2>. QED BY <2>1, <2>2, JsonFieldIsYaml
  <1>6. YamlPart(1, v[1])
    BY <1>1, <1>4, YamlPartIs DEF JsonText
  <1>7. YamlPart(2, v[2])
    BY <1>1, <1>4, YamlPartIs DEF JsonMeasure, JsonText, IsNumber, Numbers
  <1>8. YamlPart(3, v[3])
    BY <1>1, <1>4, <1>5, YamlPartIs DEF IsList
  <1>9. DecodeYAML(d) = Struct(v)
    BY <1>1, <1>6, <1>7, <1>8, YamlOfThree
  <1>. QED BY <1>2, <1>9

-----------------------------------------------------------------------------
(* The tables of options.                                                  *)

\* What the loop relies on: a field is named for its option, two options have
\* different names and lambdas, and a lambda goes to a later field.
Distinct(s, n) ==
    /\ Len(s) = n /\ DOMAIN s = 1..n
    /\ \A i \in 1..n : s[i].field = s[i].name
    /\ \A i, j \in 1..n : i # j =>
          s[i].name # s[j].name /\ (s[i].lambda # "" => s[i].lambda # s[j].lambda)
    /\ \A i, j \in 1..n : s[i].lambda = s[j].name => i < j

Is(o, n, l) == o.name = n /\ o.field = n /\ o.lambda = l

LEMMA OptIs == \A n, t : Is(Opt(n, t), n, "")
  BY DEF Opt, Is

LEMMA ReqIs == \A n, t : Is(Req(n, t), n, "")
  BY DEF Opt, Req, Is

LEMMA OrLambdaIs == \A n, t, l : Is(OrLambda(n, t, l), n, l)
  BY DEF Opt, OrLambda, Is

LEMMA ArrayDistinct == Distinct(ArrayOptions, 5)
  <1>. DEFINE s == ArrayOptions
  <1>1. Len(s) = 5 /\ DOMAIN s = 1..5
    BY DEF ArrayOptions
  <1>2. /\ Is(s[1], "type", "")
        /\ Is(s[2], "type_options", "")
        /\ Is(s[3], "count", "count_exp")
        /\ Is(s[4], "max_count", "")
        /\ Is(s[5], "sentinel", "")
    BY OptIs, ReqIs, OrLambdaIs DEF ArrayOptions
  <1>. HIDE DEF s
  <1>3. /\ s[1].name = "type" /\ s[1].field = "type" /\ s[1].lambda = ""
        /\ s[2].name = "type_options" /\ s[2].field = "type_options" /\ s[2].lambda = ""
        /\ s[3].name = "count" /\ s[3].field = "count" /\ s[3].lambda = "count_exp"
        /\ s[4].name = "max_count" /\ s[4].field = "max_count" /\ s[4].lambda = ""
        /\ s[5].name = "sentinel" /\ s[5].field = "sentinel" /\ s[5].lambda = ""
    BY <1>2 DEF Is
  <1>4. 1..5 = {1, 2, 3, 4, 5}
    OBVIOUS
  <1>5. \A i \in 1..5 : s[i].field = s[i].name
    BY <1>3, <1>4
  <1>6. \A i, j \in 1..5 : i # j =>
          s[i].name # s[j].name /\ (s[i].lambda # "" => s[i].lambda # s[j].lambda)
    BY <1>3, <1>4
  <1>7. \A i, j \in 1..5 : s[i].lambda # s[j].name
    BY <1>3, <1>4
  <1>. QED BY <1>1, <1>5, <1>6, <1>7 DEF Distinct, s

LEMMA StringDistinct == Distinct(StringOptions, 7)
  <1>. DEFINE s == StringOptions
  <1>1. Len(s) = 7 /\ DOMAIN s = 1..7
    BY DEF StringOptions
  <1>2. /\ Is(s[1], "length", "length_exp")
        /\ Is(s[2], "max_length", "")
        /\ Is(s[3], "term", "term_exp")
        /\ Is(s[4], "term_hex", "")
        /\ Is(s[5], "term_exp", "")
        /\ Is(s[6], "encoding", "")
        /\ Is(s[7], "byte_string", "")
    BY OptIs, ReqIs, OrLambdaIs DEF StringOptions
  <1>. HIDE DEF s
  <1>3. /\ s[1].name = "length" /\ s[1].field = "length" /\ s[1].lambda = "length_exp"
        /\ s[2].name = "max_length" /\ s[2].field = "max_length" /\ s[2].lambda = ""
        /\ s[3].name = "term" /\ s[3].field = "term" /\ s[3].lambda = "term_exp"
        /\ s[4].name = "term_hex" /\ s[4].field = "term_hex" /\ s[4].lambda = ""
        /\ s[5].name = "term_exp" /\ s[5].field = "term_exp" /\ s[5].lambda = ""
        /\ s[6].name = "encoding" /\ s[6].field = "encoding" /\ s[6].lambda = ""
        /\ s[7].name = "byte_string" /\ s[7].field = "byte_string" /\ s[7].lambda = ""
    BY <1>2 DEF Is
  <1>4. 1..7 = {1, 2, 3, 4, 5, 6, 7}
    OBVIOUS
  <1>5. \A i \in 1..7 : s[i].field = s[i].name
    BY <1>3, <1>4
  <1>a. \A i \in 1..7 : \/ s[i].lambda = ""
                        \/ i = 1 /\ s[i].lambda = "length_exp"
                        \/ i = 3 /\ s[i].lambda = "term_exp"
    BY <1>3, <1>4
  <1>b. \A j \in 1..7 : /\ s[j].name # "" /\ s[j].name # "length_exp"
                        /\ s[j].name = "term_exp" => j = 5
    BY <1>3, <1>4
  <1>c. \A i, j \in 1..7 : i # j => s[i].name # s[j].name
    <2>1. \A i \in 1..7 : s[i].name = "length" => i = 1
      BY <1>3, <1>4
    <2>2. \A i \in 1..7 : s[i].name = "max_length" => i = 2
      BY <1>3, <1>4
    <2>3. \A i \in 1..7 : s[i].name = "term" => i = 3
      BY <1>3, <1>4
    <2>4. \A i \in 1..7 : s[i].name = "term_hex" => i = 4
      BY <1>3, <1>4
    <2>5. \A i \in 1..7 : s[i].name = "term_exp" => i = 5
      BY <1>3, <1>4
    <2>6. \A i \in 1..7 : s[i].name = "encoding" => i = 6
      BY <1>3, <1>4
    <2>7. \A i \in 1..7 : s[i].name = "byte_string" => i = 7
      BY <1>3, <1>4
    <2>8. ASSUME NEW j \in 1..7
          PROVE  \/ j = 1 /\ s[j].name = "length"
                 \/ j = 2 /\ s[j].name = "max_length"
                 \/ j = 3 /\ s[j].name = "term"
                 \/ j = 4 /\ s[j].name = "term_hex"
                 \/ j = 5 /\ s[j].name = "term_exp"
                 \/ j = 6 /\ s[j].name = "encoding"
                 \/ j = 7 /\ s[j].name = "byte_string"
      <3>1. j = 1 \/ j = 2 \/ j = 3 \/ j = 4 \/ j = 5 \/ j = 6 \/ j = 7
        BY <1>4
      <3>. QED BY <1>3, <3>1
    <2>9. ASSUME NEW i \in 1..7, NEW j \in 1..7, s[i].name = s[j].name
          PROVE  i = j
      BY <2>1, <2>2, <2>3, <2>4, <2>5, <2>6, <2>7, <2>8, <2>9
    <2>. QED BY <2>9
  <1>d. \A i, j \in 1..7 : i # j /\ s[i].lambda # "" => s[i].lambda # s[j].lambda
    BY <1>a
  <1>6. \A i, j \in 1..7 : i # j =>
          s[i].name # s[j].name /\ (s[i].lambda # "" => s[i].lambda # s[j].lambda)
    BY <1>c, <1>d
  <1>7. \A i, j \in 1..7 : s[i].lambda = s[j].name => i = 3 /\ j = 5
    BY <1>a, <1>b
  <1>8. \A i, j \in 1..7 : s[i].lambda = s[j].name => i < j
    BY <1>7
  <1>. QED BY <1>1, <1>5, <1>6, <1>8 DEF Distinct, s

LEMMA UnionDistinct == Distinct(UnionOptions, 2)
  <1>. DEFINE s == UnionOptions
  <1>1. Len(s) = 2 /\ DOMAIN s = 1..2
    BY DEF UnionOptions
  <1>2. /\ Is(s[1], "selector", "")
        /\ Is(s[2], "choices", "")
    BY OptIs, ReqIs, OrLambdaIs DEF UnionOptions
  <1>. HIDE DEF s
  <1>3. /\ s[1].name = "selector" /\ s[1].field = "selector" /\ s[1].lambda = ""
        /\ s[2].name = "choices" /\ s[2].field = "choices" /\ s[2].lambda = ""
    BY <1>2 DEF Is
  <1>4. 1..2 = {1, 2}
    OBVIOUS
  <1>5. \A i \in 1..2 : s[i].field = s[i].name
    BY <1>3, <1>4
  <1>6. \A i, j \in 1..2 : i # j =>
          s[i].name # s[j].name /\ (s[i].lambda # "" => s[i].lambda # s[j].lambda)
    BY <1>3, <1>4
  <1>7. \A i, j \in 1..2 : s[i].lambda # s[j].name
    BY <1>3, <1>4
  <1>. QED BY <1>1, <1>5, <1>6, <1>7 DEF Distinct, s

LEMMA FlagsDistinct == Distinct(FlagsOptions, 3)
  <1>. DEFINE s == FlagsOptions
  <1>1. Len(s) = 3 /\ DOMAIN s = 1..3
    BY DEF FlagsOptions
  <1>2. /\ Is(s[1], "type", "")
        /\ Is(s[2], "type_options", "")
        /\ Is(s[3], "bitmap", "")
    BY OptIs, ReqIs, OrLambdaIs DEF FlagsOptions
  <1>. HIDE DEF s
  <1>3. /\ s[1].name = "type" /\ s[1].field = "type" /\ s[1].lambda = ""
        /\ s[2].name = "type_options" /\ s[2].field = "type_options" /\ s[2].lambda = ""
        /\ s[3].name = "bitmap" /\ s[3].field = "bitmap" /\ s[3].lambda = ""
    BY <1>2 DEF Is
  <1>4. 1..3 = {1, 2, 3}
    OBVIOUS
  <1>5. \A i \in 1..3 : s[i].field = s[i].name
    BY <1>3, <1>4
  <1>6. \A i, j \in 1..3 : i # j =>
          s[i].name # s[j].name /\ (s[i].lambda # "" => s[i].lambda # s[j].lambda)
    BY <1>3, <1>4
  <1>7. \A i, j \in 1..3 : s[i].lambda # s[j].name
    BY <1>3, <1>4
  <1>. QED BY <1>1, <1>5, <1>6, <1>7 DEF Distinct, s

LEMMA EnumerationDistinct == Distinct(EnumerationOptions, 4)
  <1>. DEFINE s == EnumerationOptions
  <1>1. Len(s) = 4 /\ DOMAIN s = 1..4
    BY DEF EnumerationOptions
  <1>2. /\ Is(s[1], "type", "")
        /\ Is(s[2], "type_options", "")
        /\ Is(s[3], "choices", "")
        /\ Is(s[4], "map", "")
    BY OptIs, ReqIs, OrLambdaIs DEF EnumerationOptions
  <1>. HIDE DEF s
  <1>3. /\ s[1].name = "type" /\ s[1].field = "type" /\ s[1].lambda = ""
        /\ s[2].name = "type_options" /\ s[2].field = "type_options" /\ s[2].lambda = ""
        /\ s[3].name = "choices" /\ s[3].field = "choices" /\ s[3].lambda = ""
        /\ s[4].name = "map" /\ s[4].field = "map" /\ s[4].lambda = ""
    BY <1>2 DEF Is
  <1>4. 1..4 = {1, 2, 3, 4}
    OBVIOUS
  <1>5. \A i \in 1..4 : s[i].field = s[i].name
    BY <1>3, <1>4
  <1>6. \A i, j \in 1..4 : i # j =>
          s[i].name # s[j].name /\ (s[i].lambda # "" => s[i].lambda # s[j].lambda)
    BY <1>3, <1>4
  <1>7. \A i, j \in 1..4 : s[i].lambda # s[j].name
    BY <1>3, <1>4
  <1>. QED BY <1>1, <1>5, <1>6, <1>7 DEF Distinct, s

LEMMA BitFieldDistinct == Distinct(BitFieldOptions, 3)
  <1>. DEFINE s == BitFieldOptions
  <1>1. Len(s) = 3 /\ DOMAIN s = 1..3
    BY DEF BitFieldOptions
  <1>2. /\ Is(s[1], "start_bit", "")
        /\ Is(s[2], "end_bit", "")
        /\ Is(s[3], "type", "")
    BY OptIs, ReqIs, OrLambdaIs DEF BitFieldOptions
  <1>. HIDE DEF s
  <1>3. /\ s[1].name = "start_bit" /\ s[1].field = "start_bit" /\ s[1].lambda = ""
        /\ s[2].name = "end_bit" /\ s[2].field = "end_bit" /\ s[2].lambda = ""
        /\ s[3].name = "type" /\ s[3].field = "type" /\ s[3].lambda = ""
    BY <1>2 DEF Is
  <1>4. 1..3 = {1, 2, 3}
    OBVIOUS
  <1>5. \A i \in 1..3 : s[i].field = s[i].name
    BY <1>3, <1>4
  <1>6. \A i, j \in 1..3 : i # j =>
          s[i].name # s[j].name /\ (s[i].lambda # "" => s[i].lambda # s[j].lambda)
    BY <1>3, <1>4
  <1>7. \A i, j \in 1..3 : s[i].lambda # s[j].name
    BY <1>3, <1>4
  <1>. QED BY <1>1, <1>5, <1>6, <1>7 DEF Distinct, s

LEMMA TimestampDistinct == Distinct(TimestampOptions, 3)
  <1>. DEFINE s == TimestampOptions
  <1>1. Len(s) = 3 /\ DOMAIN s = 1..3
    BY DEF TimestampOptions
  <1>2. /\ Is(s[1], "type", "")
        /\ Is(s[2], "type_options", "")
        /\ Is(s[3], "factor", "")
    BY OptIs, ReqIs, OrLambdaIs DEF TimestampOptions
  <1>. HIDE DEF s
  <1>3. /\ s[1].name = "type" /\ s[1].field = "type" /\ s[1].lambda = ""
        /\ s[2].name = "type_options" /\ s[2].field = "type_options" /\ s[2].lambda = ""
        /\ s[3].name = "factor" /\ s[3].field = "factor" /\ s[3].lambda = ""
    BY <1>2 DEF Is
  <1>4. 1..3 = {1, 2, 3}
    OBVIOUS
  <1>5. \A i \in 1..3 : s[i].field = s[i].name
    BY <1>3, <1>4
  <1>6. \A i, j \in 1..3 : i # j =>
          s[i].name # s[j].name /\ (s[i].lambda # "" => s[i].lambda # s[j].lambda)
    BY <1>3, <1>4
  <1>7. \A i, j \in 1..3 : s[i].lambda # s[j].name
    BY <1>3, <1>4
  <1>. QED BY <1>1, <1>5, <1>6, <1>7 DEF Distinct, s

LEMMA PointerDistinct == Distinct(PointerOptions, 2)
  <1>. DEFINE s == PointerOptions
  <1>1. Len(s) = 2 /\ DOMAIN s = 1..2
    BY DEF PointerOptions
  <1>2. /\ Is(s[1], "type", "")
        /\ Is(s[2], "type_options", "")
    BY OptIs, ReqIs, OrLambdaIs DEF PointerOptions
  <1>. HIDE DEF s
  <1>3. /\ s[1].name = "type" /\ s[1].field = "type" /\ s[1].lambda = ""
        /\ s[2].name = "type_options" /\ s[2].field = "type_options" /\ s[2].lambda = ""
    BY <1>2 DEF Is
  <1>4. 1..2 = {1, 2}
    OBVIOUS
  <1>5. \A i \in 1..2 : s[i].field = s[i].name
    BY <1>3, <1>4
  <1>6. \A i, j \in 1..2 : i # j =>
          s[i].name # s[j].name /\ (s[i].lambda # "" => s[i].lambda # s[j].lambda)
    BY <1>3, <1>4
  <1>7. \A i, j \in 1..2 : s[i].lambda # s[j].name
    BY <1>3, <1>4
  <1>. QED BY <1>1, <1>5, <1>6, <1>7 DEF Distinct, s

LEMMA SpecsDistinct ==
  ASSUME NEW s \in DOMAIN Specs
  PROVE  Len(Specs[s]) \in Nat /\ Distinct(Specs[s], Len(Specs[s]))
  <1>1. \E n \in Nat : Distinct(Specs[s], n)
    BY ArrayDistinct, StringDistinct, UnionDistinct, FlagsDistinct, EnumerationDistinct,
       BitFieldDistinct, TimestampDistinct, PointerDistinct DEF Specs
  <1>. QED BY <1>1 DEF Distinct

\* An array, a field of which is at n.
LEMMA SpecsFields ==
  ASSUME NEW s \in DOMAIN Specs
  PROVE  /\ Range(Specs[s]) = {Specs[s][i] : i \in 1..Len(Specs[s])}
         /\ \A i \in 1..Len(Specs[s]) : Specs[s][i].name \in OptionNames(s)
  BY SpecsDistinct DEF Distinct, OptionNames, Range

-----------------------------------------------------------------------------
(* The loop of ParseOptions.                                               *)

\* Where the option of a field goes.
Goes(o) == IF LooksLikeLambda(args[o.name]) /\ o.lambda # "" THEN o.lambda ELSE o.field

\* What is true of a field that the loop has passed: its option is right, and
\* kept or excused.
Right(o) == ~Wrong(o) /\ (o.required => o.name \in Given)

Kept(o) ==
    o.name \in Given =>
        \/ Goes(o) \in DOMAIN kept /\ kept[Goes(o)] = args[o.name]
        \/ o.type = "string" /\ ~(args[o.name] \in Texts)
        \/ Goes(o) # o.field /\ Goes(o) \in Given

\* The fields before the one the loop is at.
Passed == {Specs[spec][i] : i \in 1..pos - 1}

Offered == Range(Specs[spec])

\* Why the loop ended with an error.
Refused ==
    \/ Given \ {o.name : o \in Offered} # {}
    \/ \E o \in Offered : Wrong(o) \/ (o.required /\ o.name \notin Given)

Loop ==
    /\ outcome = "none" <=> spec = ""
    /\ outcome = "none" => args = <<>> /\ kept = <<>> /\ pos = 1
    /\ outcome # "none" => args \in [Given -> Shapes]
    /\ outcome = "running" =>
          /\ left = Given \ {o.name : o \in Passed}
          /\ \A o \in Passed : Right(o) /\ Kept(o)
    /\ outcome = "error" => Refused
    /\ outcome = "ok" => pos = Len(Specs[spec]) + 1 /\ ~Refused /\ \A o \in Offered : Kept(o)

Decoded ==
    /\ def \in Lists
    /\ yaml \in {NotYet, DecodeYAML(def)} /\ json \in {NotYet, DecodeJSON(def)}
    /\ json # NotYet => yaml # NotYet

IInv == TypeOK /\ Decoded /\ Loop

-----------------------------------------------------------------------------
(* What a step that does not touch the options leaves as it is.            *)
optionVars == <<spec, args, pos, left, kept, outcome>>

LEMMA LoopStays ==
  ASSUME Loop, UNCHANGED optionVars
  PROVE  Loop'
  <1>1. UNCHANGED <<spec, args, pos, left, kept, outcome>>
    BY DEF optionVars
  <1>2. Given' = Given /\ Passed' = Passed /\ Offered' = Offered
    BY <1>1 DEF Given, Passed, Offered
  <1>3. \A o : (Wrong(o)' <=> Wrong(o)) /\ Goes(o)' = Goes(o)
    BY <1>1 DEF Wrong, Goes, Given
  <1>4. \A o : Kept(o)' <=> Kept(o)
    BY <1>1, <1>2, <1>3 DEF Kept
  <1>5. \A o : Right(o)' <=> Right(o)
    BY <1>2, <1>3 DEF Right
  <1>6. Refused' <=> Refused
    BY <1>2, <1>3 DEF Refused
  <1>. QED BY <1>1, <1>2, <1>4, <1>5, <1>6 DEF Loop

LEMMA DecodeYAMLType == \A d : DecodeYAML(d).is \in {"error", "panic", "struct"}
  BY DEF DecodeYAML, Error, Panic, Struct

LEMMA DecodeJSONType == \A d : DecodeJSON(d).is \in {"error", "struct"}
  BY DEF DecodeJSON, Error, Struct

\* In the loop: the field it is at, and the fields it has passed.
LEMMA InLoop ==
  ASSUME IInv, Running
  PROVE  /\ spec \in DOMAIN Specs /\ outcome = "running"
         /\ pos \in 1..Len(Specs[spec]) /\ Len(Specs[spec]) \in Nat
         /\ Field \in Offered /\ Field.name \in OptionNames(spec)
         /\ args \in [Given -> Shapes]
         /\ Passed \subseteq Offered
  <1>1. outcome = "running" /\ pos <= Len(Specs[spec])
    BY DEF Running
  <1>2. spec \in DOMAIN Specs
    BY <1>1 DEF IInv, TypeOK, Loop
  <1>3. Len(Specs[spec]) \in Nat
    BY <1>2, SpecsDistinct
  <1>4. pos \in 1..Len(Specs[spec])
    <2>1. spec # ""
      BY <1>1 DEF IInv, Loop
    <2>2. pos \in 1..Len(Specs[spec]) + 1
      BY <2>1 DEF IInv, TypeOK
    <2>. QED BY <1>1, <1>3, <2>2
  <1>5. Field \in Offered /\ Field.name \in OptionNames(spec)
    BY <1>2, <1>4, SpecsFields DEF Field, Offered
  <1>6. args \in [Given -> Shapes]
    BY <1>1 DEF IInv, Loop
  <1>7. Passed \subseteq Offered
    BY <1>2, <1>3, <1>4, SpecsFields DEF Passed, Offered
  <1>. QED BY <1>1, <1>2, <1>3, <1>4, <1>5, <1>6, <1>7

\* With the same arguments an option is as right as it was, and goes where it
\* went.
LEMMA SameArguments ==
  ASSUME UNCHANGED <<spec, args>>, NEW o
  PROVE  (Right(o)' <=> Right(o)) /\ Goes(o)' = Goes(o) /\ Given' = Given /\ Offered' = Offered
  BY DEF Right, Wrong, Goes, Given, Offered

\* The loop goes on with the next field.
LEMMA GoesOn ==
  ASSUME IInv, Running, UNCHANGED <<spec, args, outcome>>, pos' = pos + 1,
         left' = left \ {Field.name}, NEW f, f = Field,
         Right(f), Kept(f)', \A o \in Passed : Kept(o) => Kept(o)'
  PROVE  Loop'
  <1>1. /\ spec \in DOMAIN Specs /\ outcome = "running" /\ pos \in 1..Len(Specs[spec])
        /\ Len(Specs[spec]) \in Nat /\ args \in [Given -> Shapes]
    BY InLoop
  <1>2. Passed' = Passed \cup {f}
    <2>1. 1..pos' - 1 = (1..pos - 1) \cup {pos}
      BY <1>1
    <2>. QED BY <2>1 DEF Passed, Field
  <1>3. left = Given \ {o.name : o \in Passed}
    BY <1>1 DEF IInv, Loop
  <1>4. left' = Given \ {o.name : o \in Passed'}
    BY <1>2, <1>3
  <1>5. \A o \in Passed' : Right(o)' /\ Kept(o)'
    <2>1. \A o \in Passed : Right(o) /\ Kept(o)
      BY <1>1 DEF IInv, Loop
    <2>2. \A o \in Passed' : Right(o) /\ Kept(o)'
      BY <1>2, <2>1
    <2>. QED BY <2>2, SameArguments
  <1>6. Given' = Given
    BY DEF Given
  <1>7. spec' # "" /\ outcome' = "running"
    BY <1>1 DEF IInv, Loop
  <1>. QED BY <1>1, <1>4, <1>5, <1>6, <1>7 DEF Loop

\* The loop fails at a field that is not right.
LEMMA Fails ==
  ASSUME IInv, Running, UNCHANGED <<spec, args>>, outcome' = "error",
         ~Right(Field)
  PROVE  Loop'
  <1>1. Field \in Offered /\ spec # "" /\ args \in [Given -> Shapes]
    BY InLoop DEF IInv, Loop
  <1>2. Refused
    BY <1>1 DEF Refused, Right
  <1>3. Refused'
    BY <1>2 DEF Refused, Wrong, Given, Offered
  <1>4. Given' = Given
    BY DEF Given
  <1>. QED BY <1>1, <1>3, <1>4 DEF Loop

-----------------------------------------------------------------------------
(* The steps of ParseOptions preserve Loop.                                *)

\* The fields that were passed are other fields than this one.
LEMMA PassedBefore ==
  ASSUME IInv, Running, NEW o \in Passed
  PROVE  /\ o.field = o.name /\ Field.field = Field.name
         /\ o.name # Field.name /\ o.name # Field.lambda
         /\ o.lambda # "" => o.lambda # Field.lambda /\ o.lambda # o.name
  <1>. DEFINE s == Specs[spec]
              n == Len(s)
  <1>1. spec \in DOMAIN Specs /\ pos \in 1..n /\ n \in Nat
    BY InLoop
  <1>2. PICK i \in 1..pos - 1 : o = s[i]
    BY DEF Passed
  <1>3. i \in 1..n /\ i < pos
    BY <1>1, <1>2
  <1>4. Distinct(s, n)
    BY <1>1, SpecsDistinct
  <1>5. Field = s[pos]
    BY DEF Field
  <1>. HIDE DEF s, n
  <1>6. /\ \A k \in 1..n : s[k].field = s[k].name
        /\ \A k, m \in 1..n : k # m =>
             s[k].name # s[m].name /\ (s[k].lambda # "" => s[k].lambda # s[m].lambda)
        /\ \A k, m \in 1..n : s[k].lambda = s[m].name => k < m
    BY <1>4 DEF Distinct
  <1>7. i # pos /\ ~(pos < i) /\ ~(i < i)
    BY <1>1, <1>3
  <1>. QED BY <1>1, <1>2, <1>3, <1>5, <1>6, <1>7

\* Setting the field g, which is not where the option o went, keeps o.
LEMMA KeepsOthers ==
  ASSUME UNCHANGED <<spec, args>>, NEW g, NEW o, Kept(o), Goes(o) # g,
         kept' = [f \in DOMAIN kept \cup {g} |-> IF f = g THEN Arg ELSE kept[f]]
  PROVE  Kept(o)'
  BY SameArguments DEF Kept, Given

LEMMA AbsentLoop == IInv /\ Absent => Loop'
  <1>. SUFFICES ASSUME IInv, Absent PROVE Loop'
    OBVIOUS
  <1>1. Running /\ Field.name \notin Given /\ UNCHANGED <<spec, args, left>>
    BY DEF Absent
  <1>2. CASE Field.required /\ Fail
    <2>1. ~Right(Field)
      BY <1>1, <1>2 DEF Right
    <2>. QED BY <1>1, <1>2, <2>1, Fails DEF Fail
  <1>3. CASE ~Field.required /\ pos' = pos + 1 /\ UNCHANGED <<kept, outcome>>
    <2>1. PICK f : f = Field
      OBVIOUS
    <2>2. Right(f)
      BY <1>1, <1>3, <2>1 DEF Right, Wrong
    <2>3. Kept(f)'
      BY <1>1, <2>1 DEF Kept, Given
    <2>4. \A o \in Passed : Kept(o) => Kept(o)'
      BY <1>1, <1>3, SameArguments DEF Kept
    <2>5. left' = left \ {Field.name}
      BY <1>1, InLoop DEF IInv, Loop
    <2>. QED BY <1>1, <1>3, <2>1, <2>2, <2>3, <2>4, <2>5, GoesOn
  <1>. QED BY <1>2, <1>3 DEF Absent

LEMMA LambdaLoop == IInv /\ Lambda => Loop'
  <1>. SUFFICES ASSUME IInv, Lambda PROVE Loop'
    OBVIOUS
  <1>1. /\ Running /\ Field.name \in Given /\ LooksLikeLambda(Arg) /\ Field.lambda # ""
        /\ left' = left \ {Field.name} /\ UNCHANGED <<spec, args>>
    BY DEF Lambda, Taken
  <1>2. CASE ~ParsesAsLambda(Arg) /\ Fail
    <2>1. ~Right(Field)
      BY <1>1, <1>2 DEF Right, Wrong, Arg
    <2>. QED BY <1>1, <1>2, <2>1, Fails DEF Fail
  <1>3. CASE ParsesAsLambda(Arg) /\ Keep(Field.lambda)
    <2>1. PICK f : f = Field
      OBVIOUS
    <2>2. Right(f)
      BY <1>1, <1>3, <2>1 DEF Right, Wrong, Arg
    <2>3. /\ pos' = pos + 1 /\ UNCHANGED outcome
          /\ kept' = [h \in DOMAIN kept \cup {f.lambda} |-> IF h = f.lambda THEN Arg ELSE kept[h]]
      BY <1>3, <2>1 DEF Keep
    <2>4. Goes(f) = f.lambda
      BY <1>1, <2>1 DEF Goes, Arg
    <2>5. Kept(f)'
      <3>1. Goes(f)' = f.lambda
        BY <1>1, <2>4, SameArguments
      <3>2. kept'[f.lambda] = args[f.name] /\ f.lambda \in DOMAIN kept'
        BY <2>1, <2>3 DEF Arg
      <3>. QED BY <1>1, <3>1, <3>2 DEF Kept
    <2>6. \A o \in Passed : Kept(o) => Kept(o)'
      <3>. TAKE o \in Passed
      <3>1. Goes(o) # f.lambda
        BY <1>1, <2>1, PassedBefore DEF Goes
      <3>. QED BY <1>1, <2>3, <3>1, KeepsOthers
    <2>. QED BY <1>1, <2>1, <2>2, <2>3, <2>5, <2>6, GoesOn
  <1>. QED BY <1>2, <1>3 DEF Lambda

LEMMA LiteralLoop == IInv /\ Literal => Loop'
  <1>. SUFFICES ASSUME IInv, Literal PROVE Loop'
    OBVIOUS
  <1>1. /\ Running /\ Field.name \in Given /\ ~(LooksLikeLambda(Arg) /\ Field.lambda # "")
        /\ left' = left \ {Field.name} /\ UNCHANGED <<spec, args>>
    BY DEF Literal, Taken
  <1>2. PICK f : f = Field
    OBVIOUS
  <1>3. Goes(f) = f.field /\ Goes(f)' = f.field
    BY <1>1, <1>2, SameArguments DEF Goes, Arg
  <1>4. CASE Arg \notin Settable(Field.type) /\ ~Dropped(Field.type) /\ Fail
    <2>1. ~Right(Field)
      BY <1>1, <1>4 DEF Right, Wrong, Arg
    <2>. QED BY <1>1, <1>4, <2>1, Fails DEF Fail
  <1>5. CASE /\ Arg \notin Settable(Field.type) /\ Dropped(Field.type)
             /\ pos' = pos + 1 /\ UNCHANGED <<kept, outcome>>
    <2>1. Right(f)
      BY <1>1, <1>2, <1>5 DEF Right, Wrong, Arg
    <2>2. f.type = "string" /\ args[f.name] \notin Texts
      BY <1>2, <1>5 DEF Dropped, Settable, Arg
    <2>3. Kept(f)'
      BY <1>1, <2>2 DEF Kept
    <2>4. \A o \in Passed : Kept(o) => Kept(o)'
      <3>1. Given' = Given /\ \A o : Goes(o)' = Goes(o)
        BY <1>1 DEF Given, Goes
      <3>. QED BY <1>1, <1>5, <3>1 DEF Kept
    <2>. QED BY <1>1, <1>2, <1>5, <2>1, <2>3, <2>4, GoesOn
  <1>6. CASE Arg \in Settable(Field.type) /\ Keep(Field.field)
    <2>1. Right(f)
      BY <1>1, <1>2, <1>6 DEF Right, Wrong, Arg
    <2>2. /\ pos' = pos + 1 /\ UNCHANGED outcome
          /\ kept' = [h \in DOMAIN kept \cup {f.field} |-> IF h = f.field THEN Arg ELSE kept[h]]
      BY <1>2, <1>6 DEF Keep
    <2>3. Kept(f)'
      <3>1. kept'[f.field] = args[f.name] /\ f.field \in DOMAIN kept'
        BY <1>2, <2>2 DEF Arg
      <3>. QED BY <1>1, <1>3, <3>1 DEF Kept
    <2>4. \A o \in Passed : Kept(o) => Kept(o)'
      <3>. TAKE o \in Passed
      <3>1. CASE Goes(o) # f.field
        BY <1>1, <2>2, <3>1, KeepsOthers
      <3>2. CASE Goes(o) = f.field
        <4>1. /\ o.field = o.name /\ f.field = f.name /\ o.name # f.name
          BY <1>1, <1>2, PassedBefore
        <4>2. Goes(o) # o.field /\ Goes(o) \in Given
          BY <1>1, <1>2, <3>2, <4>1
        <4>3. Goes(o)' = Goes(o) /\ Given' = Given
          BY <1>1, SameArguments
        <4>. QED BY <4>2, <4>3 DEF Kept
      <3>. QED BY <3>1, <3>2
    <2>. QED BY <1>1, <1>2, <2>1, <2>2, <2>3, <2>4, GoesOn
  <1>. QED BY <1>4, <1>5, <1>6 DEF Literal

LEMMA ExtrasLoop == IInv /\ Extras => Loop'
  <1>. SUFFICES ASSUME IInv, Extras PROVE Loop'
    OBVIOUS
  <1>1. /\ outcome = "running" /\ pos > Len(Specs[spec])
        /\ outcome' = IF left = {} THEN "ok" ELSE "error"
        /\ UNCHANGED <<spec, args, pos, left, kept>>
    BY DEF Extras
  <1>2. /\ spec # "" /\ spec \in DOMAIN Specs /\ args \in [Given -> Shapes]
        /\ pos \in 1..Len(Specs[spec]) + 1
    BY <1>1 DEF IInv, TypeOK, Loop
  <1>3. Len(Specs[spec]) \in Nat
    BY <1>2, SpecsDistinct
  <1>4. pos = Len(Specs[spec]) + 1
    <2>. DEFINE n == Len(Specs[spec])
    <2>1. pos > n /\ pos \in 1..n + 1 /\ n \in Nat
      BY <1>1, <1>2, <1>3
    <2>. HIDE DEF n
    <2>2. pos = n + 1
      BY <2>1
    <2>. QED BY <2>2 DEF n
  <1>5. Passed = Offered
    <2>1. pos - 1 = Len(Specs[spec])
      BY <1>3, <1>4
    <2>. QED BY <1>2, <2>1, SpecsFields DEF Passed, Offered
  <1>6. /\ left = Given \ {o.name : o \in Offered}
        /\ \A o \in Offered : Right(o) /\ Kept(o)
    BY <1>1, <1>5 DEF IInv, Loop
  <1>7. Refused <=> left # {}
    BY <1>6 DEF Refused, Right
  <1>8. /\ Given' = Given /\ Offered' = Offered /\ (Refused' <=> Refused)
        /\ \A o : Kept(o)' <=> Kept(o)
    <2>1. \A o : (Wrong(o)' <=> Wrong(o)) /\ Goes(o)' = Goes(o)
      BY <1>1 DEF Wrong, Goes, Given
    <2>2. Given' = Given /\ Offered' = Offered
      BY <1>1 DEF Given, Offered
    <2>. QED BY <1>1, <2>1, <2>2 DEF Refused, Kept
  <1>. QED BY <1>1, <1>2, <1>4, <1>6, <1>7, <1>8 DEF Loop

LEMMA NewLoop ==
  ASSUME IInv, NEW s \in DOMAIN Specs, NEW names, New(s, names)
  PROVE  Loop'
  <1>1. /\ spec = "" /\ spec' = s /\ args' \in [names -> Shapes \ {"badmap"}]
        /\ left' = names /\ outcome' = "running" /\ UNCHANGED <<pos, kept>>
    BY DEF New
  <1>2. pos = 1
    BY <1>1 DEF IInv, Loop
  <1>3. Given' = names /\ args' \in [names -> Shapes]
    BY <1>1 DEF Given
  <1>4. Passed' = {}
    <2>1. pos' = 1
      BY <1>1, <1>2
    <2>2. 1..pos' - 1 = {}
      BY <2>1
    <2>. QED BY <2>2 DEF Passed
  <1>5. s # ""
    BY DEF Specs
  <1>. QED BY <1>1, <1>3, <1>4, <1>5 DEF Loop

-----------------------------------------------------------------------------
(* Every step preserves the invariant.                                     *)

LEMMA EmptyRange == Range(<<>>) = {}
  <1>1. DOMAIN <<>> = {}
    OBVIOUS
  <1>. QED BY <1>1 DEF Range

LEMMA InitIInv == Init => IInv
  <1>. SUFFICES ASSUME Init PROVE IInv
    OBVIOUS
  <1>1. /\ def \in Lists /\ yaml = NotYet /\ json = NotYet
        /\ spec = "" /\ args = <<>> /\ pos = 1 /\ left = {} /\ kept = <<>> /\ outcome = "none"
    BY DEF Init
  <1>2. TypeOK
    <2>1. def.shape \in Shapes
      BY <1>1, ListsAreValues DEF IsValue
    <2>2. Range(kept) \subseteq Shapes
      BY <1>1, EmptyRange
    <2>. QED BY <1>1, <2>1, <2>2 DEF TypeOK, NotYet
  <1>3. Decoded
    BY <1>1 DEF Decoded
  <1>4. Loop
    BY <1>1 DEF Loop
  <1>. QED BY <1>2, <1>3, <1>4 DEF IInv

LEMMA TypeOfYAML == IInv /\ UnmarshalYAML => TypeOK' /\ Decoded'
  <1>. SUFFICES ASSUME IInv, UnmarshalYAML PROVE TypeOK' /\ Decoded'
    OBVIOUS
  <1>1. /\ yaml = NotYet /\ yaml' = DecodeYAML(def)
        /\ UNCHANGED <<def, json, spec, args, pos, left, kept, outcome>>
    BY DEF UnmarshalYAML
  <1>2. yaml' # NotYet
    BY <1>1, DecodeYAMLType DEF NotYet
  <1>3. Decoded'
    BY <1>1, <1>2 DEF IInv, Decoded
  <1>4. TypeOK'
    BY <1>1, DecodeYAMLType DEF IInv, TypeOK, Given
  <1>. QED BY <1>3, <1>4

LEMMA TypeOfJSON == IInv /\ UnmarshalJSON => TypeOK' /\ Decoded'
  <1>. SUFFICES ASSUME IInv, UnmarshalJSON PROVE TypeOK' /\ Decoded'
    OBVIOUS
  <1>1. /\ yaml # NotYet /\ json' = DecodeJSON(def)
        /\ UNCHANGED <<def, yaml, spec, args, pos, left, kept, outcome>>
    BY DEF UnmarshalJSON
  <1>2. Decoded'
    BY <1>1 DEF IInv, Decoded
  <1>3. TypeOK'
    BY <1>1, DecodeJSONType DEF IInv, TypeOK, Given
  <1>. QED BY <1>2, <1>3

LEMMA DecodedStays ==
  ASSUME Decoded, UNCHANGED <<def, yaml, json>>
  PROVE  Decoded'
  BY DEF Decoded

LEMMA TypeOfNew ==
  ASSUME IInv, NEW s \in DOMAIN Specs, NEW names \in SUBSET OptionNames(s), New(s, names)
  PROVE  TypeOK' /\ Decoded'
  <1>1. /\ spec = "" /\ spec' = s /\ args' \in [names -> Shapes \ {"badmap"}]
        /\ left' = names /\ outcome' = "running" /\ UNCHANGED <<def, yaml, json, pos, kept>>
    BY DEF New
  <1>2. pos' \in 1..Len(Specs[s]) + 1
    <2>1. pos' = 1
      BY <1>1 DEF IInv, Loop
    <2>2. Len(Specs[s]) \in Nat
      BY SpecsDistinct
    <2>. DEFINE n == Len(Specs[s])
    <2>3. n \in Nat
      BY <2>2
    <2>. HIDE DEF n
    <2>4. pos' \in 1..n + 1
      BY <2>1, <2>3
    <2>. QED BY <2>4 DEF n
  <1>3. Given' = names
    BY <1>1 DEF Given
  <1>4. TypeOK'
    BY <1>1, <1>2, <1>3 DEF IInv, TypeOK
  <1>. QED BY <1>1, <1>4, DecodedStays DEF IInv

\* A value of an option becomes that of a field.
LEMMA KeepType ==
  ASSUME IInv, Running, Field.name \in Given, NEW field, Keep(field)
  PROVE  Range(kept') \subseteq Shapes
  <1>1. Arg \in Shapes
    BY InLoop DEF Arg
  <1>2. \A f \in DOMAIN kept : kept[f] \in Shapes
    BY DEF IInv, TypeOK, Range
  <1>3. kept' = [f \in DOMAIN kept \cup {field} |-> IF f = field THEN Arg ELSE kept[f]]
    BY DEF Keep
  <1>4. \A f \in DOMAIN kept' : kept'[f] \in Shapes
    BY <1>1, <1>2, <1>3
  <1>. QED BY <1>4 DEF Range

\* Of the loop it is enough to know what it does to pos, kept and outcome.
LEMMA TypeInLoop ==
  ASSUME IInv, Running, UNCHANGED <<def, yaml, json, spec, args>>,
         left' \subseteq left, pos' \in {pos, pos + 1},
         Range(kept') \subseteq Shapes, outcome' \in {"running", "error"}
  PROVE  TypeOK' /\ Decoded'
  <1>. DEFINE n == Len(Specs[spec])
  <1>1. spec \in DOMAIN Specs /\ pos \in 1..n /\ n \in Nat
    BY InLoop
  <1>2. n' = n
    OBVIOUS
  <1>. HIDE DEF n
  <1>3. pos' \in 1..n' + 1
    BY <1>1, <1>2
  <1>4. spec # ""
    BY InLoop DEF IInv, Loop
  <1>5. left' \subseteq Given' /\ Given' \subseteq OptionNames(spec)'
    BY <1>4 DEF IInv, TypeOK, Given, OptionNames
  <1>6. TypeOK'
    BY <1>1, <1>3, <1>5 DEF IInv, TypeOK, n
  <1>. QED BY <1>6, DecodedStays DEF IInv

LEMMA TypeOfParse == IInv /\ ParseOptions => TypeOK' /\ Decoded'
  <1>. SUFFICES ASSUME IInv, ParseOptions PROVE TypeOK' /\ Decoded'
    OBVIOUS
  <1>1. Range(kept) \subseteq Shapes
    BY DEF IInv, TypeOK
  <1>2. CASE Absent
    <2>1. /\ Running /\ UNCHANGED <<def, yaml, json, spec, args, left, kept>>
          /\ pos' \in {pos, pos + 1} /\ outcome' \in {outcome, "error"}
      BY <1>2 DEF Absent, Fail
    <2>. QED BY <1>1, <2>1, InLoop, TypeInLoop
  <1>3. CASE Lambda
    <2>1. /\ Running /\ Field.name \in Given /\ UNCHANGED <<def, yaml, json, spec, args>>
          /\ left' \subseteq left
          /\ Keep(Field.lambda) \/ Fail
      BY <1>3 DEF Lambda, Taken
    <2>2. Range(kept') \subseteq Shapes
      BY <1>1, <2>1, KeepType DEF Fail
    <2>3. pos' \in {pos, pos + 1} /\ outcome' \in {outcome, "error"}
      BY <2>1 DEF Keep, Fail
    <2>. QED BY <2>1, <2>2, <2>3, InLoop, TypeInLoop
  <1>4. CASE Literal
    <2>1. /\ Running /\ Field.name \in Given /\ UNCHANGED <<def, yaml, json, spec, args>>
          /\ left' \subseteq left
          /\ Keep(Field.field) \/ Fail \/ (pos' = pos + 1 /\ UNCHANGED <<kept, outcome>>)
      BY <1>4 DEF Literal, Taken
    <2>2. Range(kept') \subseteq Shapes
      BY <1>1, <2>1, KeepType DEF Fail
    <2>3. pos' \in {pos, pos + 1} /\ outcome' \in {outcome, "error"}
      BY <2>1 DEF Keep, Fail
    <2>. QED BY <2>1, <2>2, <2>3, InLoop, TypeInLoop
  <1>5. CASE Extras
    <2>1. UNCHANGED <<def, yaml, json, spec, args, pos, left, kept>> /\ outcome' \in {"ok", "error"}
      BY <1>5 DEF Extras
    <2>2. TypeOK'
      BY <2>1 DEF IInv, TypeOK, Given
    <2>. QED BY <2>1, <2>2, DecodedStays DEF IInv
  <1>. QED BY <1>2, <1>3, <1>4, <1>5 DEF ParseOptions

LEMMA NextIInv == IInv /\ [Next]_vars => IInv'
  <1>. SUFFICES ASSUME IInv, [Next]_vars PROVE IInv'
    OBVIOUS
  <1>1. CASE UnmarshalYAML
    <2>1. UNCHANGED optionVars
      BY <1>1 DEF UnmarshalYAML, optionVars
    <2>. QED BY <1>1, <2>1, TypeOfYAML, LoopStays DEF IInv
  <1>2. CASE UnmarshalJSON
    <2>1. UNCHANGED optionVars
      BY <1>2 DEF UnmarshalJSON, optionVars
    <2>. QED BY <1>2, <2>1, TypeOfJSON, LoopStays DEF IInv
  <1>3. ASSUME NEW s \in DOMAIN Specs, NEW names \in SUBSET OptionNames(s), New(s, names)
        PROVE  IInv'
    BY <1>3, NewLoop, TypeOfNew DEF IInv
  <1>4. CASE ParseOptions
    BY <1>4, TypeOfParse, AbsentLoop, LambdaLoop, LiteralLoop, ExtrasLoop DEF IInv, ParseOptions
  <1>5. CASE UNCHANGED vars
    <2>1. UNCHANGED <<def, yaml, json, spec, args, pos, left, kept, outcome>>
      BY <1>5 DEF vars
    <2>2. TypeOK'
      BY <2>1 DEF IInv, TypeOK, Given
    <2>. QED BY <2>1, <2>2, LoopStays, DecodedStays DEF IInv, optionVars
  <1>. QED BY <1>1, <1>2, <1>3, <1>4, <1>5 DEF Next

LEMMA SpecIInv == Spec => []IInv
  BY InitIInv, NextIInv, PTL DEF Spec

-----------------------------------------------------------------------------
(* The theorems.                                                           *)

(***************************************************************************)
(* Every option has a known shape, the loop stays in the table of the      *)
(* parser it works for, and what is left are options that were given.      *)
(***************************************************************************)
THEOREM DefinitionsTypeCorrect == Spec => []TypeOK
  <1>1. IInv => TypeOK
    BY DEF IInv
  <1>. QED BY <1>1, SpecIInv, PTL

(***************************************************************************)
(* The two decoders read the common language alike, and YAML accepts what  *)
(* JSON accepts without a null, for a definition with any number of fields *)
(* of any shape (yaml.go:11-89, json.go:13-70).                            *)
(***************************************************************************)
THEOREM DecodersAlwaysAgree == Spec => []DecodersAgree
  <1>1. IInv => DecodersAgree
    <2>. SUFFICES ASSUME IInv PROVE DecodersAgree
      OBVIOUS
    <2>1. ASSUME json # NotYet
          PROVE  def \in Lists /\ yaml = DecodeYAML(def) /\ json = DecodeJSON(def)
      BY <2>1 DEF IInv, Decoded
    <2>2. ASSUME json # NotYet, Common(def)
          PROVE  json = yaml
      BY <2>1, <2>2, AgreeOnCommon
    <2>3. ASSUME json.is = "struct", "null" \notin Contents(def)
          PROVE  yaml = json
      <3>1. json # NotYet
        BY <2>3 DEF NotYet
      <3>. QED BY <2>1, <2>3, <3>1, AgreeWithoutNull
    <2>. QED BY <2>2, <2>3 DEF DecodersAgree
  <1>. QED BY <1>1, SpecIInv, PTL

(***************************************************************************)
(* ParseOptions fails exactly if an option is missing, unknown or of the   *)
(* wrong type, however many of any shape are given (options.go:62-236).    *)
(***************************************************************************)
THEOREM OptionsAreAlwaysChecked == Spec => []OptionsAreChecked
  <1>1. IInv => OptionsAreChecked
    BY DEF IInv, Loop, OptionsAreChecked, Refused, Offered
  <1>. QED BY <1>1, SpecIInv, PTL

(***************************************************************************)
(* What ParseOptions accepted it has kept, but for a text of another type  *)
(* (options.go:129) and for a lambda whose field has an option of its own. *)
(***************************************************************************)
THEOREM AcceptedOptionsAreKept == Spec => []NoOptionIsLost
  <1>1. IInv => NoOptionIsLost
    BY DEF IInv, Loop, NoOptionIsLost, Kept, Goes, Offered
  <1>. QED BY <1>1, SpecIInv, PTL
=============================================================================
