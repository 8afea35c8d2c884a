------------------------ MODULE SharedParsersProofs ------------------------
(***************************************************************************)
(* Proofs about SharedParsers, for any number of goroutines and any        *)
(* choices: the type invariant, that a union that nobody is finishing has  *)
(* all its choices, and that only a parse that overlaps another one's      *)
(* first parse can go wrong.                                               *)
(***************************************************************************)
EXTENDS SharedParsers, TLAPS

(***************************************************************************)
(* What holds of a goroutine in the union: the types stay as they were     *)
(* when the union was first used, it makes a map at most once in its life, *)
(* and what it is about to write is defined.                               *)
(***************************************************************************)
Filling(g) ==
    /\ pc[g] \in {"make", "fill", "write"} => first.union = types
    /\ pc[g] = "make" => choices # g
    /\ pc[g] \in {"fill", "write", "select", "default"} => choices # None
    /\ pc[g] = "write" => /\ into[g] \in Goroutines /\ pos[g] <= Len(Choices)
                          /\ Choices[pos[g]] \in Defined

(***************************************************************************)
(* The map that the union has now was never abandoned by the goroutine     *)
(* that made it: it has all the choices up to the one its maker is at.     *)
(***************************************************************************)
Maker(g) ==
    choices = g =>
        /\ pc[g] = "write" => into[g] = g
        /\ \A i \in 1..Len(Choices) :
              Choices[i] \in Defined /\ (pc[g] \in {"fill", "write"} => i < pos[g])
                  => Choices[i] \in maps[g]

UnionInv ==
    /\ choices = None => first.union = types
    /\ \A g \in Goroutines : maps[g] \subseteq Defined /\ Filling(g) /\ Maker(g)

\* The same of the wrapper, which is torn only while somebody stores to it.
WrapperInv ==
    /\ parser = "nil" /\ ~invalid => first.wrapper = types
    /\ parser = "torn" => \E g \in Goroutines : pc[g] = "store"
    /\ parser # "nil" => Element \in first.wrapper
    /\ invalid => Element \notin first.wrapper
    /\ \A g \in Goroutines :
          /\ pc[g] \in {"resolve", "store"} => first.wrapper = types
          /\ pc[g] \in {"store", "call"} => Element \in first.wrapper

\* Two goroutines in a parser that one of them finishes are not alone.
Apart(g, h, inside) ==
    pc[g] \in inside /\ pc[h] \in inside /\ pc[h] \in Finishing => ~alone[g] /\ ~alone[h]
Meeting ==
    \A g, h \in Goroutines : g # h => Apart(g, h, InUnion) /\ Apart(g, h, InWrapper)

\* Those who are alone answer as they should, up to where they are.
Answering(g) ==
    /\ pc[g] = "default" => value[g] # None /\ value[g] \notin Defined
    /\ pc[g] = "chosen" => result[g] = Expected(value[g])
    /\ pc[g] = "parsed" =>
          result[g] = IF Element \in first.wrapper THEN Element ELSE None

Correct ==
    /\ crashed => \E g \in Goroutines : ~alone[g]
    /\ \A g \in Goroutines : alone[g] /\ ~crashed => Answering(g)

IInv == TypeOK /\ UnionInv /\ WrapperInv /\ Meeting /\ Correct

-----------------------------------------------------------------------------
LEMMA ChoicesType ==
  /\ Len(Choices) \in Nat /\ None \notin Goroutines
  /\ \A i \in 1..Len(Choices) : Choices[i] \in Keys /\ TypeOf[Choices[i]] \in TypeNames
  /\ \A k \in Keys : TypeOf[k] \in TypeNames /\ \E i \in 1..Len(Choices) : k = Choices[i]
  <1>1. Choices \in Seq(Keys) /\ TypeOf \in [Keys -> TypeNames] /\ None \notin Goroutines
    BY SharedAssumption
  <1>. DEFINE K == Keys
  <1>2. \A k \in K : \E i \in DOMAIN Choices : k = Choices[i]
    BY DEF Keys
  <1>. HIDE DEF K
  <1>3. Choices \in Seq(K) /\ TypeOf \in [K -> TypeNames] /\ None \notin Goroutines
    BY <1>1 DEF K
  <1>4. Len(Choices) \in Nat /\ DOMAIN Choices = 1..Len(Choices)
        /\ \A i \in 1..Len(Choices) : Choices[i] \in K
    BY <1>3
  <1>5. /\ Len(Choices) \in Nat /\ None \notin Goroutines
        /\ \A i \in 1..Len(Choices) : Choices[i] \in K /\ TypeOf[Choices[i]] \in TypeNames
        /\ \A k \in K : TypeOf[k] \in TypeNames /\ \E i \in 1..Len(Choices) : k = Choices[i]
    BY <1>2, <1>3, <1>4
  <1>. QED BY <1>5 DEF K

LEMMA InitIInv == Init => IInv
  <1>. SUFFICES ASSUME Init PROVE IInv
    OBVIOUS
  <1>1. TypeOK
    <2>1. /\ pos \in [Goroutines -> 1..Len(Choices) + 1]
          /\ first \in [union : SUBSET TypeNames, wrapper : SUBSET TypeNames]
          /\ pc \in [Goroutines -> PC]
      BY ChoicesType DEF Init, PC
    <2>2. alone \in [Goroutines -> BOOLEAN] /\ crashed \in BOOLEAN /\ invalid \in BOOLEAN
      BY DEF Init
    <2>3. /\ types \subseteq TypeNames /\ choices \in Goroutines \cup {None}
          /\ maps \in [Goroutines -> SUBSET Keys] /\ parser \in {"nil", "torn", "whole"}
          /\ value \in [Goroutines -> Values \cup {None}]
          /\ into \in [Goroutines -> Goroutines \cup {None}]
          /\ result \in [Goroutines -> TypeNames \cup {None}]
      BY DEF Init
    <2>. QED BY <2>1, <2>2, <2>3 DEF TypeOK
  <1>2. UnionInv
    BY ChoicesType DEF Init, UnionInv, Filling, Maker
  <1>3. WrapperInv
    BY DEF Init, WrapperInv
  <1>4. Meeting
    BY DEF Init, Meeting, Apart, Finishing
  <1>5. Correct
    BY DEF Init, Correct, Answering
  <1>. QED BY <1>1, <1>2, <1>3, <1>4, <1>5 DEF IInv

-----------------------------------------------------------------------------
(* Types.                                                                  *)

LEMMA LookupType ==
  ASSUME TypeOK, UnionInv, NEW g \in Goroutines, NEW k, pc[g] \in {"select", "default"},
         k \in maps[choices]
  PROVE  k \in Keys /\ TypeOf[k] \in TypeNames
  <1>1. choices \in Goroutines
    BY DEF TypeOK, UnionInv, Filling
  <1>. QED BY <1>1, ChoicesType DEF TypeOK

LEMMA TypeStep == IInv /\ Next => TypeOK'
  <1>. SUFFICES ASSUME IInv, Next PROVE TypeOK'
    OBVIOUS
  <1>. USE ChoicesType DEF TypeOK, PC, InUnion, InWrapper, Go, Answer, Crash
  <1>0. TypeOK
    BY DEF IInv
  <1>1. ASSUME NEW t \in TypeNames, Define(t) PROVE TypeOK'
    BY <1>0, <1>1 DEF Define
  <1>2. ASSUME NEW g \in Goroutines, UnionParse(g) \/ WrapperParse(g) PROVE TypeOK'
    BY <1>0, <1>2 DEF UnionParse, WrapperParse, Entered
  <1>3. ASSUME NEW g \in Goroutines, Step(g) PROVE TypeOK'
    <2>1. CASE Check(g)
      BY <1>0, <2>1 DEF Check, Accompanied
    <2>2. CASE Make(g)
      BY <1>0, <2>2 DEF Make
    <2>3. CASE Fill(g)
      <3>1. CASE TypeOf[Choices[pos[g]]] \notin types
        <4>1. /\ pos[g] + 1 \in 1..Len(Choices) + 1 /\ pos' = [pos EXCEPT ![g] = pos[g] + 1]
              /\ pc' = [pc EXCEPT ![g] = "fill"] /\ into' = into /\ crashed' = crashed
          BY <1>0, <2>3, <3>1 DEF Fill, After
        <4>. QED BY <1>0, <2>3, <4>1 DEF Fill
      <3>2. CASE TypeOf[Choices[pos[g]]] \in types
        <4>1. /\ pos' = pos /\ into' = [into EXCEPT ![g] = choices]
              /\ pc' = [pc EXCEPT ![g] = "write"] /\ crashed' \in {TRUE, crashed}
          BY <2>3, <3>2 DEF Fill
        <4>. QED BY <1>0, <2>3, <4>1 DEF Fill
      <3>. QED BY <3>1, <3>2
    <2>4. CASE Write(g)
      <3>1. pos[g] \in 1..Len(Choices) /\ into[g] \in Goroutines
        BY <1>0, <2>4 DEF Write, IInv, UnionInv, Filling
      <3>. QED BY <1>0, <2>4, <3>1 DEF Write
    <2>5. CASE Filled(g)
      BY <1>0, <2>5 DEF Filled
    <2>6. CASE TryDefault(g)
      <3>1. Default \in maps[choices] => TypeOf[Default] \in TypeNames
        <4>1. pc[g] = "default"
          BY <2>6 DEF TryDefault, Lookup
        <4>. QED BY <1>0, <4>1, LookupType DEF IInv
      <3>2. crashed' \in BOOLEAN
        BY <1>0, <2>6 DEF TryDefault, Lookup
      <3>3. pc' \in [Goroutines -> PC] /\ result' \in [Goroutines -> TypeNames \cup {None}]
        BY <1>0, <2>6, <3>1 DEF TryDefault, Lookup
      <3>. QED BY <1>0, <2>6, <3>2, <3>3 DEF TryDefault
    <2>7. ASSUME NEW v \in Values \cup {None}, Select(g, v) PROVE TypeOK'
      <3>1. v # None /\ v \in maps[choices] => TypeOf[v] \in TypeNames
        <4>1. pc[g] = "select"
          BY <2>7 DEF Select, Lookup
        <4>. QED BY <1>0, <4>1, LookupType DEF IInv
      <3>2. crashed' \in BOOLEAN
        BY <1>0, <2>7 DEF Select, Lookup
      <3>3. pc' \in [Goroutines -> PC] /\ result' \in [Goroutines -> TypeNames \cup {None}]
        BY <1>0, <2>7, <3>1 DEF Select, Lookup
      <3>. QED BY <1>0, <2>7, <3>2, <3>3 DEF Select
    <2>8. CASE Look(g)
      BY <1>0, <2>8 DEF Look, Accompanied
    <2>9. CASE Resolve(g)
      BY <1>0, <2>9 DEF Resolve
    <2>10. CASE Store(g)
      BY <1>0, <2>10 DEF Store
    <2>11. CASE CallParser(g)
      BY <1>0, <2>11, SharedAssumption DEF CallParser
    <2>12. CASE Return(g)
      BY <1>0, <2>12 DEF Return
    <2>. QED BY <1>3, <2>1, <2>2, <2>3, <2>4, <2>5, <2>6, <2>7, <2>8, <2>9, <2>10, <2>11,
                <2>12 DEF Step
  <1>. QED BY <1>1, <1>2, <1>3 DEF Next
-----------------------------------------------------------------------------
(* The union is complete when nobody is finishing it.                      *)

UnionVars == <<types, choices, maps, first.union>>

\* A step that only takes g to another place, where nothing new is asked.
LEMMA UnionMove ==
  ASSUME IInv, NEW g \in Goroutines, NEW to, pc' = [pc EXCEPT ![g] = to],
         UNCHANGED <<UnionVars, pos, into>>,
         to \in {"make", "fill", "write"} => pc[g] = to,
         to \in {"select", "default"} => pc[g] # "fill" /\ choices # None,
         pc[g] \notin {"fill", "write"}
  PROVE  UnionInv'
  <1>1. TypeOK /\ UnionInv
    BY DEF IInv
  <1>2. Defined' = Defined
    BY DEF Defined, UnionVars
  <1>3. ASSUME NEW h \in Goroutines PROVE (maps[h] \subseteq Defined /\ Filling(h) /\ Maker(h))'
    BY <1>1, <1>2, <1>3 DEF TypeOK, UnionInv, UnionVars, Filling, Maker
  <1>. QED BY <1>1, <1>3 DEF UnionInv, UnionVars

LEMMA UnionStep == IInv /\ Next => UnionInv'
  <1>. SUFFICES ASSUME IInv, Next PROVE UnionInv'
    OBVIOUS
  <1>0. TypeOK /\ UnionInv
    BY DEF IInv
  <1>1. ASSUME NEW t \in TypeNames, Define(t) PROVE UnionInv'
    <2>1. \A h \in Goroutines : pc[h] = "idle" /\ pc'[h] = "idle"
      BY <1>1 DEF Define
    <2>2. Defined \subseteq Defined' /\ (choices # None => Defined' = Defined)
      BY <1>0, <1>1 DEF Define, Defined, UnionInv, TypeOK
    <2>3. choices = None => first'.union = types'
      BY <1>1 DEF Define
    <2>. QED BY <1>0, <1>1, <2>1, <2>2, <2>3, ChoicesType DEF Define, UnionInv, Filling, Maker
  <1>2. ASSUME NEW g \in Goroutines, UnionParse(g) \/ WrapperParse(g) PROVE UnionInv'
    BY <1>0, <1>2, UnionMove DEF UnionParse, WrapperParse, Go, UnionVars
  <1>3. ASSUME NEW g \in Goroutines, Step(g) PROVE UnionInv'
    <2>1. CASE Check(g)
      <3>1. CASE choices # None /\ Go(g, "check", "select")
        BY <2>1, <3>1, UnionMove DEF Check, Go, UnionVars
      <3>2. CASE choices = None /\ Go(g, "check", "make")
        <4>1. Defined' = Defined
          BY <2>1 DEF Check, Defined
        <4>. QED BY <1>0, <2>1, <3>2, <4>1, ChoicesType DEF Check, Go, UnionInv, Filling, Maker, TypeOK
      <3>. QED BY <2>1, <3>1, <3>2 DEF Check
    <2>2. CASE Make(g)
      <3>1. Defined' = Defined /\ choices' = g /\ pc[g] = "make" /\ pos'[g] = 1
        BY <1>0, <2>2 DEF Make, Defined, Go, TypeOK
      <3>2. ASSUME NEW h \in Goroutines
            PROVE (maps[h] \subseteq Defined /\ Filling(h) /\ Maker(h))'
        <4>1. CASE h = g
          BY <1>0, <2>2, <3>1, <4>1, ChoicesType DEF Make, Go, UnionInv, Filling, Maker, TypeOK
        <4>2. CASE h # g
          BY <1>0, <2>2, <3>1, <4>2, ChoicesType DEF Make, Go, UnionInv, Filling, Maker, TypeOK
        <4>. QED BY <4>1, <4>2
      <3>. QED BY <3>1, <3>2, ChoicesType DEF UnionInv
    <2>3. CASE Fill(g)
      <3>1. Defined' = Defined /\ first.union = types /\ pos[g] \in 1..Len(Choices)
        BY <1>0, <2>3 DEF Fill, Defined, Go, TypeOK, UnionInv, Filling
      <3>2. ASSUME NEW h \in Goroutines
            PROVE (maps[h] \subseteq Defined /\ Filling(h) /\ Maker(h))'
        <4>1. CASE h = g /\ TypeOf[Choices[pos[g]]] \notin types
          <5>1. Choices[pos[g]] \notin Defined
            BY <3>1, <4>1 DEF Defined
          <5>2. pos'[g] = pos[g] + 1 /\ pc'[g] = "fill" /\ pc[g] = "fill"
            BY <1>0, <2>3, <4>1 DEF Fill, After, Go, TypeOK
          <5>3. ASSUME NEW i \in 1..Len(Choices), i < pos'[g], Choices[i] \in Defined
                PROVE  i < pos[g]
            BY <1>0, <3>1, <5>1, <5>2, <5>3, ChoicesType
          <5>. QED BY <1>0, <2>3, <3>1, <4>1, <5>2, <5>3 DEF Fill, UnionInv, Filling, Maker
        <4>2. CASE h = g /\ TypeOf[Choices[pos[g]]] \in types
          <5>1. Choices[pos[g]] \in Defined
            BY <3>1, <4>2, ChoicesType DEF Defined
          <5>2. /\ pos' = pos /\ pc'[g] = "write" /\ pc[g] = "fill" /\ into'[g] = choices
                /\ choices \in Goroutines
            BY <1>0, <2>3, <4>2 DEF Fill, Go, TypeOK, UnionInv, Filling
          <5>. QED BY <1>0, <2>3, <3>1, <4>2, <5>1, <5>2 DEF Fill, UnionInv, Filling, Maker
        <4>3. CASE h # g
          <5>1. pos'[h] = pos[h] /\ pc'[h] = pc[h] /\ into'[h] = into[h]
            BY <1>0, <2>3, <4>3 DEF Fill, Go, TypeOK, After
          <5>. QED BY <1>0, <2>3, <3>1, <5>1 DEF Fill, UnionInv, Filling, Maker
        <4>. QED BY <4>1, <4>2, <4>3
      <3>. QED BY <1>0, <2>3, <3>2 DEF UnionInv, Fill
    <2>4. CASE Write(g)
      <3>1. /\ Defined' = Defined /\ pc[g] = "write" /\ pc'[g] = "fill"
            /\ pos[g] \in 1..Len(Choices) /\ pos'[g] = pos[g] + 1 /\ Choices[pos[g]] \in Defined
        BY <1>0, <2>4 DEF Write, Defined, Go, TypeOK, UnionInv, Filling
      <3>2. \A h \in Goroutines :
               maps'[h] = IF h = into[g] THEN maps[h] \cup {Choices[pos[g]]} ELSE maps[h]
        BY <1>0, <2>4 DEF Write, TypeOK
      <3>3. ASSUME NEW h \in Goroutines
            PROVE (maps[h] \subseteq Defined /\ Filling(h) /\ Maker(h))'
        <4>1. CASE h = g
          <5>1. ASSUME choices = g, NEW i \in 1..Len(Choices), i < pos'[g], Choices[i] \in Defined
                PROVE  Choices[i] \in maps'[g]
            <6>1. into[g] = g /\ maps'[g] = maps[g] \cup {Choices[pos[g]]}
              BY <1>0, <3>1, <3>2, <5>1 DEF UnionInv, Maker
            <6>2. i < pos[g] \/ i = pos[g]
              BY <3>1, <5>1, ChoicesType
            <6>. QED BY <1>0, <3>1, <5>1, <6>1, <6>2 DEF UnionInv, Maker
          <5>. QED BY <1>0, <2>4, <3>1, <3>2, <4>1, <5>1 DEF Write, UnionInv, Filling, Maker
        <4>2. CASE h # g
          <5>1. pos'[h] = pos[h] /\ pc'[h] = pc[h] /\ into'[h] = into[h]
            BY <1>0, <2>4, <4>2 DEF Write, Go, TypeOK
          <5>. QED BY <1>0, <2>4, <3>1, <3>2, <5>1 DEF Write, UnionInv, Filling, Maker
        <4>. QED BY <4>1, <4>2
      <3>. QED BY <1>0, <2>4, <3>3 DEF UnionInv, Write
    <2>5. CASE Filled(g)
      <3>1. Defined' = Defined /\ pos[g] > Len(Choices) /\ pc[g] = "fill" /\ pc'[g] = "select"
        BY <1>0, <2>5 DEF Filled, Defined, Go, TypeOK
      <3>2. ASSUME NEW h \in Goroutines
            PROVE (maps[h] \subseteq Defined /\ Filling(h) /\ Maker(h))'
        <4>1. CASE h = g
          <5>1. \A i \in 1..Len(Choices) : i < pos[g]
            BY <1>0, <3>1, ChoicesType DEF TypeOK
          <5>. QED BY <1>0, <2>5, <3>1, <4>1, <5>1 DEF Filled, UnionInv, Filling, Maker
        <4>2. CASE h # g
          <5>1. pos'[h] = pos[h] /\ pc'[h] = pc[h]
            BY <1>0, <2>5, <4>2 DEF Filled, Go, TypeOK
          <5>. QED BY <1>0, <2>5, <3>1, <5>1 DEF Filled, UnionInv, Filling, Maker
        <4>. QED BY <4>1, <4>2
      <3>. QED BY <1>0, <2>5, <3>2 DEF UnionInv, Filled
    <2>6. CASE TryDefault(g)
      BY <1>0, <2>6, UnionMove DEF TryDefault, Lookup, Answer, Go, UnionVars
    <2>7. ASSUME NEW v \in Values \cup {None}, Select(g, v) PROVE UnionInv'
      <3>1. pc[g] = "select" /\ choices # None
        BY <1>0, <2>7 DEF Select, Lookup, Answer, Go, UnionInv, Filling
      <3>2. pc' = [pc EXCEPT ![g] = "chosen"] \/ pc' = [pc EXCEPT ![g] = "default"]
        BY <2>7 DEF Select, Lookup, Answer, Go
      <3>. QED BY <2>7, <3>1, <3>2, UnionMove DEF Select, UnionVars
    <2>8. CASE Look(g)
      BY <2>8, UnionMove DEF Look, Answer, Go, UnionVars
    <2>9. CASE Resolve(g)
      BY <2>9, UnionMove DEF Resolve, Answer, Go, UnionVars
    <2>10. CASE Store(g)
      BY <2>10, UnionMove DEF Store, Go, UnionVars
    <2>11. CASE CallParser(g)
      BY <2>11, UnionMove DEF CallParser, Answer, Go, UnionVars
    <2>12. CASE Return(g)
      BY <2>12, UnionMove DEF Return, Go, UnionVars
    <2>. QED BY <1>3, <2>1, <2>2, <2>3, <2>4, <2>5, <2>6, <2>7, <2>8, <2>9, <2>10, <2>11,
                <2>12 DEF Step
  <1>. QED BY <1>1, <1>2, <1>3 DEF Next
-----------------------------------------------------------------------------
(* The wrapper.                                                            *)

LEMMA WrapperMove ==
  ASSUME IInv, NEW g \in Goroutines, NEW to, pc' = [pc EXCEPT ![g] = to],
         UNCHANGED <<types, parser, invalid, first>>,
         to \notin {"resolve", "store", "call"}, pc[g] # "store"
  PROVE  WrapperInv'
  <1>1. TypeOK /\ WrapperInv
    BY DEF IInv
  <1>2. \A h \in Goroutines : pc'[h] = IF h = g THEN to ELSE pc[h]
    BY <1>1 DEF TypeOK
  <1>3. parser' = "torn" => \E h \in Goroutines : pc'[h] = "store"
    BY <1>1, <1>2 DEF WrapperInv
  <1>. QED BY <1>1, <1>2, <1>3 DEF WrapperInv

LEMMA WrapperStep == IInv /\ Next => WrapperInv'
  <1>. SUFFICES ASSUME IInv, Next PROVE WrapperInv'
    OBVIOUS
  <1>0. TypeOK /\ UnionInv /\ WrapperInv
    BY DEF IInv
  <1>1. ASSUME NEW t \in TypeNames, Define(t) PROVE WrapperInv'
    <2>1. \A h \in Goroutines : pc[h] = "idle" /\ pc'[h] = "idle"
      BY <1>1 DEF Define
    <2>2. first'.wrapper = IF parser = "nil" /\ ~invalid THEN types' ELSE first.wrapper
      BY <1>1 DEF Define
    <2>. QED BY <1>0, <1>1, <2>1, <2>2 DEF Define, WrapperInv
  <1>2. ASSUME NEW g \in Goroutines, UnionParse(g) \/ WrapperParse(g) PROVE WrapperInv'
    BY <1>0, <1>2, WrapperMove DEF UnionParse, WrapperParse, Go
  <1>3. ASSUME NEW g \in Goroutines, Step(g) PROVE WrapperInv'
    <2>1. CASE Check(g)
      BY <2>1, WrapperMove DEF Check, Go
    <2>2. CASE Make(g)
      BY <2>2, WrapperMove DEF Make, Go
    <2>3. CASE Fill(g)
      BY <2>3, WrapperMove DEF Fill, Go
    <2>4. CASE Write(g)
      BY <2>4, WrapperMove DEF Write, Go
    <2>5. CASE Filled(g)
      BY <2>5, WrapperMove DEF Filled, Go
    <2>6. CASE TryDefault(g)
      BY <2>6, WrapperMove DEF TryDefault, Lookup, Answer, Go
    <2>7. ASSUME NEW v \in Values \cup {None}, Select(g, v) PROVE WrapperInv'
      BY <2>7, WrapperMove DEF Select, Lookup, Answer, Go
    <2>8. CASE Look(g)
      <3>1. CASE invalid /\ Answer(g, "look", "parsed", None)
        BY <2>8, <3>1, WrapperMove DEF Look, Answer, Go
      <3>2. CASE /\ ~invalid /\ parser # "whole" /\ Go(g, "look", "resolve")
        <4>1. first.wrapper = types
          BY <1>0, <3>2 DEF WrapperInv, TypeOK
        <4>2. \A h \in Goroutines : pc[h] = "store" => pc'[h] = "store"
          BY <1>0, <3>2 DEF Go, TypeOK
        <4>. QED BY <1>0, <2>8, <3>2, <4>1, <4>2 DEF Look, Go, WrapperInv, TypeOK
      <3>3. CASE ~invalid /\ parser # "nil" /\ Go(g, "look", "call")
        <4>1. \A h \in Goroutines : pc[h] = "store" => pc'[h] = "store"
          BY <1>0, <3>3 DEF Go, TypeOK
        <4>. QED BY <1>0, <2>8, <3>3, <4>1 DEF Look, Go, WrapperInv, TypeOK
      <3>. QED BY <2>8, <3>1, <3>2, <3>3 DEF Look
    <2>9. CASE Resolve(g)
      <3>1. first.wrapper = types /\ first' = first /\ types' = types /\ pc[g] = "resolve"
        BY <1>0, <2>9 DEF Resolve, Answer, Go, WrapperInv
      <3>2. CASE Element \notin types
        <4>1. \A h \in Goroutines : pc[h] = "store" => pc'[h] = "store"
          BY <1>0, <2>9, <3>1, <3>2 DEF Resolve, Answer, Go, TypeOK
        <4>. QED BY <1>0, <2>9, <3>1, <3>2, <4>1 DEF Resolve, Answer, Go, WrapperInv, TypeOK
      <3>3. CASE Element \in types
        BY <1>0, <2>9, <3>1, <3>3 DEF Resolve, Go, WrapperInv, TypeOK
      <3>. QED BY <3>2, <3>3
    <2>10. CASE Store(g)
      BY <1>0, <2>10 DEF Store, Go, WrapperInv, TypeOK
    <2>11. CASE CallParser(g)
      BY <2>11, WrapperMove DEF CallParser, Answer, Go
    <2>12. CASE Return(g)
      BY <2>12, WrapperMove DEF Return, Go
    <2>. QED BY <1>3, <2>1, <2>2, <2>3, <2>4, <2>5, <2>6, <2>7, <2>8, <2>9, <2>10, <2>11,
                <2>12 DEF Step
  <1>. QED BY <1>1, <1>2, <1>3 DEF Next

-----------------------------------------------------------------------------
(* Who is alone.                                                           *)

LEMMA MeetingMove ==
  ASSUME IInv, NEW g \in Goroutines, NEW to, pc' = [pc EXCEPT ![g] = to],
         \A h \in Goroutines : alone'[h] = alone[h] \/ h = g,
         to \in InUnion \cup InWrapper => alone'[g] = alone[g],
         to \in InUnion => pc[g] \in InUnion, to \in InWrapper => pc[g] \in InWrapper,
         to \in Finishing => pc[g] \in Finishing
  PROVE  Meeting'
  <1>1. TypeOK /\ Meeting
    BY DEF IInv
  <1>2. \A h \in Goroutines : pc'[h] = IF h = g THEN to ELSE pc[h]
    BY <1>1 DEF TypeOK
  <1>. QED BY <1>1, <1>2 DEF Meeting, Apart

LEMMA MeetingEntered ==
  ASSUME IInv, NEW g \in Goroutines, NEW to, NEW inside, pc' = [pc EXCEPT ![g] = to],
         alone' = Entered(g, inside), pc[g] = "idle", to \notin Finishing,
         to \in inside, inside \in {InUnion, InWrapper}
  PROVE  Meeting'
  <1>1. TypeOK /\ Meeting
    BY DEF IInv
  <1>2. \A h \in Goroutines : pc'[h] = IF h = g THEN to ELSE pc[h]
    BY <1>1 DEF TypeOK
  <1>3. \A h \in Goroutines : alone'[h] => alone[h] \/ h = g
    BY DEF Entered
  <1>4. \A h \in Goroutines \ {g} : pc[h] \in inside /\ pc[h] \in Finishing => ~alone'[h] /\ ~alone'[g]
    BY DEF Entered, Others
  <1>5. InUnion \cap InWrapper = {}
    BY DEF InUnion, InWrapper
  <1>. QED BY <1>1, <1>2, <1>3, <1>4, <1>5 DEF Meeting, Apart

LEMMA MeetingAccompanied ==
  ASSUME IInv, NEW g \in Goroutines, NEW to, NEW inside, pc' = [pc EXCEPT ![g] = to],
         alone' = Accompanied(g, inside), pc[g] \in inside,
         to \in inside, inside \in {InUnion, InWrapper}
  PROVE  Meeting'
  <1>1. TypeOK /\ Meeting
    BY DEF IInv
  <1>2. \A h \in Goroutines : pc'[h] = IF h = g THEN to ELSE pc[h]
    BY <1>1 DEF TypeOK
  <1>3. \A h \in Goroutines : alone'[h] => alone[h]
    BY DEF Accompanied
  <1>4. \A h \in Goroutines \ {g} : pc[h] \in inside => ~alone'[h] /\ ~alone'[g]
    BY DEF Accompanied, Others
  <1>5. InUnion \cap InWrapper = {}
    BY DEF InUnion, InWrapper
  <1>. QED BY <1>1, <1>2, <1>3, <1>4, <1>5 DEF Meeting, Apart

LEMMA Places ==
  /\ {"check", "make"} \subseteq InUnion /\ {"look", "resolve"} \subseteq InWrapper
  /\ "check" \notin Finishing /\ "look" \notin Finishing
  BY DEF InUnion, InWrapper, Finishing

LEMMA MeetingStep == IInv /\ Next => Meeting'
  <1>. SUFFICES ASSUME IInv, Next PROVE Meeting'
    OBVIOUS
  <1>0. TypeOK /\ Meeting
    BY DEF IInv
  <1>1. ASSUME NEW t \in TypeNames, Define(t) PROVE Meeting'
    BY <1>0, <1>1 DEF Define, Meeting, Apart
  <1>2. ASSUME NEW g \in Goroutines, UnionParse(g) PROVE Meeting'
    <2>. DEFINE to == "check"
    <2>1. /\ pc' = [pc EXCEPT ![g] = to] /\ alone' = Entered(g, InUnion) /\ pc[g] = "idle"
          /\ to \notin Finishing /\ to \in InUnion
      BY <1>2, Places DEF UnionParse, Go
    <2>. HIDE DEF to
    <2>. QED BY <2>1, MeetingEntered
  <1>3. ASSUME NEW g \in Goroutines, WrapperParse(g) PROVE Meeting'
    BY <1>3, MeetingEntered, Places DEF WrapperParse, Go
  <1>4. ASSUME NEW g \in Goroutines, Step(g) PROVE Meeting'
    <2>. USE DEF InUnion, InWrapper, Finishing
    <2>1. CASE Check(g)
      <3>1. CASE Go(g, "check", "select") /\ alone' = alone
        BY <3>1, MeetingMove DEF Go
      <3>2. CASE Go(g, "check", "make") /\ alone' = Accompanied(g, InUnion)
        <4>. HIDE DEF InUnion, InWrapper, Finishing
        <4>. DEFINE to == "make"
        <4>1. /\ pc' = [pc EXCEPT ![g] = to] /\ alone' = Accompanied(g, InUnion)
              /\ pc[g] \in InUnion /\ to \in InUnion
          BY <3>2, Places DEF Go
        <4>. HIDE DEF to
        <4>. QED BY <4>1, MeetingAccompanied
      <3>. QED BY <2>1, <3>1, <3>2 DEF Check
    <2>2. CASE Make(g)
      BY <2>2, MeetingMove DEF Make, Go
    <2>3. CASE Fill(g)
      BY <2>3, MeetingMove DEF Fill, Go
    <2>4. CASE Write(g)
      BY <2>4, MeetingMove DEF Write, Go
    <2>5. CASE Filled(g)
      BY <2>5, MeetingMove DEF Filled, Go
    <2>6. CASE TryDefault(g)
      BY <2>6, MeetingMove DEF TryDefault, Lookup, Answer, Go
    <2>7. ASSUME NEW v \in Values \cup {None}, Select(g, v) PROVE Meeting'
      BY <2>7, MeetingMove DEF Select, Lookup, Answer, Go
    <2>8. CASE Look(g)
      <3>1. CASE Go(g, "look", "parsed") /\ alone' = alone
        BY <3>1, MeetingMove DEF Go
      <3>2. CASE Go(g, "look", "resolve") /\ alone' = Accompanied(g, InWrapper)
        <4>. HIDE DEF InUnion, InWrapper, Finishing
        <4>. QED BY <3>2, MeetingAccompanied, Places DEF Go
      <3>3. CASE Go(g, "look", "call") /\ alone' = alone
        BY <3>3, MeetingMove DEF Go
      <3>. QED BY <2>8, <3>1, <3>2, <3>3 DEF Look, Answer
    <2>9. CASE Resolve(g)
      BY <2>9, MeetingMove DEF Resolve, Answer, Go
    <2>10. CASE Store(g)
      BY <2>10, MeetingMove DEF Store, Go
    <2>11. CASE CallParser(g)
      BY <2>11, MeetingMove DEF CallParser, Answer, Go
    <2>12. CASE Return(g)
      BY <1>0, <2>12, MeetingMove DEF Return, Go, TypeOK
    <2>. QED BY <1>4, <2>1, <2>2, <2>3, <2>4, <2>5, <2>6, <2>7, <2>8, <2>9, <2>10, <2>11,
                <2>12 DEF Step
  <1>. QED BY <1>1, <1>2, <1>3, <1>4 DEF Next
-----------------------------------------------------------------------------
(* What is answered.                                                       *)

(***************************************************************************)
(* Somebody who is alone and past the check finds the finished map: its    *)
(* maker is not at work, and nobody writes to it.                          *)
(***************************************************************************)
LEMMA AloneIsComplete ==
  ASSUME IInv, NEW g \in Goroutines, alone[g], pc[g] \in {"select", "default"}
  PROVE  maps[choices] = Defined /\ \A h \in Goroutines : pc[h] # "write"
  <1>0. TypeOK /\ UnionInv /\ Meeting
    BY DEF IInv
  <1>1. choices \in Goroutines
    BY <1>0 DEF TypeOK, UnionInv, Filling
  <1>2. \A h \in Goroutines : pc[h] \notin {"make", "fill", "write"}
    <2>1. \A h \in Goroutines : g # h => Apart(g, h, InUnion)
      BY <1>0 DEF Meeting
    <2>. QED BY <2>1 DEF Apart, InUnion, Finishing
  <1>3. \A i \in 1..Len(Choices) : Choices[i] \in Defined => Choices[i] \in maps[choices]
    BY <1>0, <1>1, <1>2 DEF UnionInv, Maker
  <1>4. Defined \subseteq maps[choices]
    BY <1>3, ChoicesType DEF Defined
  <1>. QED BY <1>0, <1>1, <1>2, <1>4 DEF UnionInv

\* Where two who are not alone meet, a crash is theirs.
LEMMA Crashing ==
  ASSUME IInv, NEW g \in Goroutines,
         \/ pc[g] \in {"fill", "select", "default"} /\ \E h \in Goroutines : pc[h] = "write"
         \/ pc[g] = "call" /\ parser = "torn"
  PROVE  ~alone[g]
  <1>0. TypeOK /\ WrapperInv /\ Meeting
    BY DEF IInv
  <1>1. CASE pc[g] \in {"fill", "select", "default"} /\ \E h \in Goroutines : pc[h] = "write"
    <2>1. PICK h \in Goroutines : pc[h] = "write"
      BY <1>1
    <2>2. g # h /\ Apart(g, h, InUnion)
      BY <1>0, <1>1, <2>1 DEF Meeting
    <2>. QED BY <1>1, <2>1, <2>2 DEF Apart, InUnion, Finishing
  <1>2. CASE pc[g] = "call" /\ parser = "torn"
    <2>1. PICK h \in Goroutines : pc[h] = "store"
      BY <1>0, <1>2 DEF WrapperInv
    <2>2. g # h /\ Apart(g, h, InWrapper)
      BY <1>0, <1>2, <2>1 DEF Meeting
    <2>. QED BY <1>2, <2>1, <2>2 DEF Apart, InWrapper, Finishing
  <1>. QED BY <1>1, <1>2

\* A step of g, which leaves what the others answer as it was.
LEMMA CorrectMove ==
  ASSUME IInv, NEW g \in Goroutines, ~crashed, UNCHANGED first,
         \A h \in Goroutines \ {g} : /\ pc'[h] = pc[h] /\ value'[h] = value[h]
                                    /\ result'[h] = result[h] /\ (alone'[h] => alone[h]),
         crashed' => ~alone'[g],
         alone'[g] => Answering(g)'
  PROVE  Correct'
  <1>1. \A h \in Goroutines \ {g} : alone[h] => Answering(h)
    BY DEF IInv, Correct
  <1>2. Defined' = Defined
    BY DEF Defined
  <1>3. ASSUME NEW h \in Goroutines \ {g}, Answering(h) PROVE Answering(h)'
    BY <1>2, <1>3 DEF Answering, Expected
  <1>. QED BY <1>1, <1>3 DEF Correct

LEMMA CorrectStep == IInv /\ Next => Correct'
  <1>. SUFFICES ASSUME IInv, Next PROVE Correct'
    OBVIOUS
  <1>0. TypeOK /\ UnionInv /\ WrapperInv /\ Correct
    BY DEF IInv
  <1>1. ASSUME NEW t \in TypeNames, Define(t) PROVE Correct'
    BY <1>1 DEF Define, Correct, Answering
  <1>2. ASSUME NEW g \in Goroutines, UnionParse(g) \/ WrapperParse(g) PROVE Correct'
    <2>1. \A h \in Goroutines \ {g} : alone'[h] => alone[h]
      BY <1>2 DEF UnionParse, WrapperParse, Entered
    <2>2. \E to \in {"check", "look"} : pc' = [pc EXCEPT ![g] = to]
      BY <1>2 DEF UnionParse, WrapperParse, Go
    <2>3. ~crashed /\ UNCHANGED <<value, result, first, crashed>>
      BY <1>2 DEF UnionParse, WrapperParse, Go
    <2>4. Answering(g)'
      BY <1>0, <2>2 DEF Answering, TypeOK
    <2>5. \A h \in Goroutines \ {g} : pc'[h] = pc[h]
      BY <1>0, <2>2 DEF TypeOK
    <2>. QED BY <2>1, <2>3, <2>4, <2>5, CorrectMove
  <1>3. ASSUME NEW g \in Goroutines, Step(g) PROVE Correct'
    <2>1. CASE Check(g)
      <3>1. \A h \in Goroutines : alone'[h] => alone[h]
        BY <2>1 DEF Check, Accompanied
      <3>. QED BY <1>0, <2>1, <3>1, CorrectMove DEF Check, Go, Answering, TypeOK
    <2>2. CASE Make(g)
      BY <1>0, <2>2, CorrectMove DEF Make, Go, Answering, TypeOK
    <2>3. CASE Fill(g)
      <3>1. crashed' => ~alone[g]
        BY <2>3, Crashing DEF Fill, Go
      <3>. QED BY <1>0, <2>3, <3>1, CorrectMove DEF Fill, Go, Answering, TypeOK
    <2>4. CASE Write(g)
      BY <1>0, <2>4, CorrectMove DEF Write, Go, Answering, TypeOK
    <2>5. CASE Filled(g)
      BY <1>0, <2>5, CorrectMove DEF Filled, Go, Answering, TypeOK
    <2>6. CASE TryDefault(g)
      <3>0. pc[g] = "default" /\ ~crashed /\ pc' = [pc EXCEPT ![g] = "chosen"]
            /\ first' = first /\ value' = value /\ alone' = alone
        BY <2>6 DEF TryDefault, Lookup, Answer, Go
      <3>1. crashed' => ~alone[g]
        BY <2>6, <3>0, Crashing DEF TryDefault, Lookup
      <3>2. alone[g] => /\ maps[choices] = Defined
                        /\ value[g] # None /\ value[g] \notin Defined
        BY <1>0, <3>0, AloneIsComplete DEF Correct, Answering
      <3>3. result' = [result EXCEPT ![g] = IF Default \in maps[choices] THEN TypeOf[Default]
                                            ELSE None]
        BY <2>6 DEF TryDefault, Lookup, Answer
      <3>4. alone[g] => result'[g] = Expected(value[g])
        BY <1>0, <3>2, <3>3 DEF Expected, TypeOK
      <3>5. Expected(value[g])' = Expected(value[g])
        BY <3>0 DEF Expected, Defined
      <3>6. alone[g] => Answering(g)'
        BY <1>0, <3>0, <3>4, <3>5 DEF Answering, TypeOK
      <3>. QED BY <1>0, <3>0, <3>1, <3>3, <3>6, CorrectMove DEF TypeOK
    <2>7. ASSUME NEW v \in Values \cup {None}, Select(g, v) PROVE Correct'
      <3>0. /\ pc[g] = "select" /\ ~crashed /\ first' = first /\ alone' = alone
            /\ value' = [value EXCEPT ![g] = v]
        BY <2>7 DEF Select, Lookup, Answer, Go
      <3>1. crashed' => ~alone[g]
        BY <2>7, <3>0, Crashing DEF Select, Lookup
      <3>2. alone[g] => maps[choices] = Defined
        BY <3>0, AloneIsComplete
      <3>3. Expected(value[g])' = Expected(v) /\ value'[g] = v /\ Defined' = Defined
        BY <1>0, <3>0 DEF Expected, Defined, TypeOK
      <3>4. \/ /\ pc' = [pc EXCEPT ![g] = "chosen"] /\ v = None
               /\ result' = [result EXCEPT ![g] = None]
            \/ /\ pc' = [pc EXCEPT ![g] = "chosen"] /\ v # None /\ v \in maps[choices]
               /\ result' = [result EXCEPT ![g] = TypeOf[v]]
            \/ /\ pc' = [pc EXCEPT ![g] = "default"] /\ v # None /\ v \notin maps[choices]
               /\ result' = result
        BY <2>7 DEF Select, Lookup, Answer, Go
      <3>5. alone[g] => Answering(g)'
        BY <1>0, <3>2, <3>3, <3>4 DEF Answering, Expected, TypeOK
      <3>. QED BY <1>0, <3>0, <3>1, <3>4, <3>5, CorrectMove DEF TypeOK
    <2>8. CASE Look(g)
      <3>1. \A h \in Goroutines : alone'[h] => alone[h]
        BY <2>8 DEF Look, Accompanied
      <3>. QED BY <1>0, <2>8, <3>1, CorrectMove DEF Look, Answer, Go, Answering, TypeOK, WrapperInv
    <2>9. CASE Resolve(g)
      <3>1. pc[g] = "resolve" /\ first.wrapper = types
        BY <1>0, <2>9 DEF Resolve, Answer, Go, WrapperInv
      <3>. QED BY <1>0, <2>9, <3>1, CorrectMove DEF Resolve, Answer, Go, Answering, TypeOK
    <2>10. CASE Store(g)
      BY <1>0, <2>10, CorrectMove DEF Store, Go, Answering, TypeOK
    <2>11. CASE CallParser(g)
      <3>0. pc[g] = "call" /\ Element \in first.wrapper
        BY <1>0, <2>11 DEF CallParser, Answer, Go, WrapperInv
      <3>1. crashed' => ~alone[g]
        BY <2>11, <3>0, Crashing DEF CallParser, Answer, Go
      <3>. QED BY <1>0, <2>11, <3>0, <3>1, CorrectMove DEF CallParser, Answer, Go, Answering, TypeOK
    <2>12. CASE Return(g)
      BY <1>0, <2>12, CorrectMove DEF Return, Go, Answering, TypeOK
    <2>. QED BY <1>3, <2>1, <2>2, <2>3, <2>4, <2>5, <2>6, <2>7, <2>8, <2>9, <2>10, <2>11,
                <2>12 DEF Step
  <1>. QED BY <1>1, <1>2, <1>3 DEF Next

-----------------------------------------------------------------------------
(* The theorems.                                                           *)

LEMMA Stuttering == IInv /\ UNCHANGED vars => IInv'
  <1>. SUFFICES ASSUME IInv, UNCHANGED vars PROVE IInv'
    OBVIOUS
  <1>1. Defined' = Defined
    BY DEF vars, Defined
  <1>2. TypeOK'
    BY DEF IInv, TypeOK, vars
  <1>3. UnionInv'
    BY <1>1 DEF IInv, UnionInv, Filling, Maker, vars
  <1>4. WrapperInv' /\ Meeting'
    BY DEF IInv, WrapperInv, Meeting, Apart, vars
  <1>5. Correct'
    BY <1>1 DEF IInv, Correct, Answering, Expected, vars
  <1>. QED BY <1>2, <1>3, <1>4, <1>5 DEF IInv

LEMMA NextIInv == IInv /\ [Next]_vars => IInv'
  BY TypeStep, UnionStep, WrapperStep, MeetingStep, CorrectStep, Stuttering DEF IInv

THEOREM Inductive == Spec => []IInv
  BY InitIInv, NextIInv, PTL DEF Spec

(***************************************************************************)
(* The variables have their types, however many goroutines and choices     *)
(* there are (union.go:39-90, array.go:84-99).                             *)
(***************************************************************************)
THEOREM TypeCorrect == Spec => []TypeOK
  <1>1. IInv => TypeOK
    BY DEF IInv
  <1>. QED BY <1>1, Inductive, PTL

(***************************************************************************)
(* A union that nobody is finishing has exactly the choices that were      *)
(* defined when it was first used: the maps that goroutines replaced are   *)
(* lost, but the last one is written by its maker alone and to its end     *)
(* (union.go:48-64).                                                       *)
(***************************************************************************)
THEOREM Settled == Spec => []SettledIsComplete
  <1>1. IInv => SettledIsComplete
    <2>. SUFFICES ASSUME IInv, choices # None, \A g \in Goroutines : pc[g] \notin Finishing
                  PROVE  maps[choices] = Defined
      BY DEF SettledIsComplete
    <2>1. choices \in Goroutines /\ pc[choices] \notin {"fill", "write"}
      BY DEF IInv, TypeOK, Finishing
    <2>2. \A i \in 1..Len(Choices) : Choices[i] \in Defined => Choices[i] \in maps[choices]
      BY <2>1 DEF IInv, UnionInv, Maker
    <2>3. Defined \subseteq maps[choices]
      BY <2>2, ChoicesType DEF Defined
    <2>. QED BY <2>1, <2>3 DEF IInv, UnionInv
  <1>. QED BY <1>1, Inductive, PTL

(***************************************************************************)
(* Who does not overlap another one's first parse of the parser answers    *)
(* as if nobody else ran, and without such an overlap nothing crashes: to  *)
(* use every parser once before the profile is shared is enough, for any   *)
(* number of goroutines (parser.go:11, union.go:48-64, array.go:84-99).    *)
(***************************************************************************)
THEOREM RacesOnly == Spec => []OnlyRacesGoWrong
  <1>1. IInv => OnlyRacesGoWrong
    BY DEF IInv, Correct, Answering, OnlyRacesGoWrong
  <1>. QED BY <1>1, Inductive, PTL
=============================================================================
