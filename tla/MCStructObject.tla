--------------------------- MODULE MCStructObject ---------------------------
(***************************************************************************)
(* A small instance of StructObject.  R has fields with offsets and values *)
(* that depend on each other and an inner struct C, whose lambdas go back  *)
(* to the root, answer it, and answer the struct itself.  T has an array   *)
(* of structs E that are sized by a field of theirs, under a second name   *)
(* too, and one of structs P that are sized by a field of their parent.    *)
(***************************************************************************)
EXTENDS StructObject

MCStructs == {"R", "C", "T", "E", "P"}
MCRoots   == {"R", "T"}
MCFields  == {"k", "m", "c", "v", "up", "me"}

F(kind, lambda) == [kind |-> kind, of |-> "C", lambda |-> lambda]
A(of, lambda)   == [kind |-> "array", of |-> of, lambda |-> lambda]
Absent == F("absent", <<>>)

MCDef ==
    [R |-> [k  |-> F("int", <<>>),
            m  |-> F("int", <<<<"k">>>>),
            c  |-> F("struct", <<<<"m">>>>),
            v  |-> F("value", <<<<"c", "k">>, <<"m">>>>),
            up |-> Absent, me |-> Absent],
     C |-> [k  |-> F("int", <<<<"Parent", "k">>>>),
            m  |-> Absent, c |-> Absent,
            v  |-> F("value", <<<<"k">>>>),
            up |-> F("value", <<<<"Parent">>>>),
            me |-> F("value", <<<<>>>>)],
     T |-> [k  |-> F("int", <<>>),
            m  |-> A("E", <<<<"k">>>>),
            c  |-> A("P", <<>>),
            v  |-> F("value", <<<<"m">>>>),
            up |-> Absent, me |-> Absent],
     E |-> [k  |-> F("int", <<>>),
            m  |-> Absent, c |-> Absent, v |-> Absent,
            up |-> F("value", <<<<"Parent">>>>),
            me |-> F("value", <<<<>>>>)],
     P |-> [k  |-> F("int", <<>>),
            m  |-> Absent, c |-> Absent, v |-> Absent, up |-> Absent, me |-> Absent]]

MCSizeLambda == [R |-> <<<<"m">>, <<"c", "k">>>>, C |-> <<<<"k">>>>,
                 T |-> <<>>, E |-> <<<<"k">>>>, P |-> <<<<"Parent", "k">>>>]
MCShown      == [R |-> <<"c", "v">>, C |-> <<"up">>,
                 T |-> <<"c", "v">>, E |-> <<"me">>, P |-> <<"k">>]
\* What C and E answer, who their parents are, and who waits for whom.
All(s) == {r \in Role : r[1] = s}

MCAnswers(w) ==
    CASE w = <<"R", "c">>                   -> {<<"C", "orig">>}
      [] w \in {<<"T", "m">>, <<"T", "v">>} -> {<<"E", "orig">>}
      [] w = <<"T", "c">>                   -> {<<"P", "orig">>}
      [] w = <<"C", "up">>                  -> All("R")
      [] w = <<"E", "up">>                  -> All("T")
      [] w[1] \in {"C", "E"} /\ w[2] = "me" -> {w}
      [] OTHER                              -> {}

MCParents(r) ==
    CASE r[1] = "R" -> {"C"}
      [] r[1] = "T" -> {"E"}
      [] r[1] = "P" -> {"T"}
      [] r[1] = "C" -> {"R"} \cup IF r[2] = "me" THEN {"C"} ELSE {}
      [] r[1] = "E" -> {"T"} \cup IF r[2] = "me" THEN {"E"} ELSE {}

MCRank(w) ==
    CASE w \in {<<"R", "m">>, <<"C", "k">>, <<"E", "none">>, <<"P", "none">>} -> 1
      [] w \in {<<"R", "c">>, <<"C", "v">>, <<"C", "none">>, <<"T", "m">>, <<"T", "c">>} -> 2
      [] w \in {<<"R", "v">>, <<"R", "none">>, <<"T", "v">>} -> 3
      [] OTHER -> 0

RECURSIVE Walk(_, _, _)
Walk(w, r, p) ==
    LET at == IF p = <<>> THEN {}
              ELSE IF Head(p) = "Parent" THEN UNION {All(s) : s \in MCParents(r)}
              ELSE MCAnswers(<<r[1], Head(p)>>)
    IN  {<<w, r, p>>} \cup UNION {Walk(w, q, Tail(p)) : q \in at}

LambdaOf(w) == IF w[2] = "none" THEN MCSizeLambda[w[1]] ELSE MCDef[w[1]][w[2]].lambda

MCReading == [rank    |-> [w \in Owner |-> MCRank(w)],
              answers |-> [w \in Owner |-> MCAnswers(w)],
              parents |-> [r \in Role |-> MCParents(r)],
              reads   |-> UNION {Walk(w, w, p) : <<w, p>> \in
                              UNION {{w} \X Range(LambdaOf(w)) : w \in Owner}}]

\* No field waits for itself.
ASSUME MCRanked == Ranked(MCReading)

MCDepth == [r \in Role |-> CASE r[1] = "P" \/ r \in {<<"C", "orig">>, <<"E", "me">>} -> 0
                             [] r[1] \in {"R", "E"} -> 1
                             [] OTHER -> 2]

\* Every encoding comes to its end.
ASSUME MCEncodable == Encodable(MCReading, MCDepth)

\* A size is not read from v, up or me.
ASSUME MCSizesRead == SizesRead({"k", "m", "c"})

MCCount      == 2
MCUnreadable == {1}
MCMaxCalls   == 3
MCMaxEpoch   == 2
=============================================================================
