--------------------------- MODULE SharedParsers ---------------------------
(***************************************************************************)
(* Parsers are instantiated once and reused by everybody who parses with   *)
(* the profile (parser.go:11), and two kinds of them finish their own      *)
(* construction in the first Parse, without a lock: a Union makes and      *)
(* fills its map of choices, a wrapper (an array or an enumeration whose   *)
(* element type was not defined yet) looks up the type and keeps the       *)
(* parser.  Here goroutines parse with one Union and one such wrapper.     *)
(*                                                                         *)
(* A step is one access to the memory they share.  An overlap that Go      *)
(* leaves undefined (two writes, or a write and a read, of one map; a call *)
(* of a parser half of whose two words are written) is crashed, the state  *)
(* in which nothing more is said of the program; the runtime reports it as *)
(* "concurrent map writes" or a nil dereference when it notices.           *)
(***************************************************************************)
EXTENDS Naturals, Sequences

CONSTANTS Goroutines,
          TypeNames,    \* the names that the parsers may refer to
          Choices,      \* the keys of the union's choices, in order
          TypeOf,       \* TypeOf[k]: the type of the choice k
          Element,      \* the type of the wrapper's elements
          Values,       \* what the selector may answer
          Default,      \* the key tried when there is none for the value
          None          \* nil, null, nobody

Keys == {Choices[i] : i \in DOMAIN Choices}

ASSUME SharedAssumption ==
    /\ Choices \in Seq(Keys)
    /\ TypeOf \in [Keys -> TypeNames] /\ Element \in TypeNames
    /\ None \notin TypeNames \cup Values \cup Goroutines

VARIABLES
    types,    \* the types of the profile that GetParser can make
    choices,  \* who made the map that the union has now, None if it has none
    maps,     \* maps[g]: the keys in the map that g made
    parser,   \* the wrapper's parser, a word for its type and one for its data
    invalid,  \* the wrapper's invalid_parser
    pc,       \* where each goroutine is
    value,    \* what the selector answered
    pos,      \* the choice it is about to add
    into,     \* whose map it is writing to
    result,   \* the type it parsed with, None for null
    first,    \* history: the types when each parser was first used
    alone,    \* history: nobody else was in the parser while it was finished
    crashed

vars == <<types, choices, maps, parser, invalid, pc, value, pos, into, result,
          first, alone, crashed>>

InUnion   == {"check", "make", "fill", "write", "select", "default"}
InWrapper == {"look", "resolve", "store", "call"}
Finishing == {"make", "fill", "write", "resolve", "store"}
PC        == InUnion \cup InWrapper \cup {"idle", "chosen", "parsed"}

Init ==
    /\ types \in SUBSET TypeNames
    /\ choices = None /\ maps = [g \in Goroutines |-> {}]
    /\ parser = "nil" /\ invalid = FALSE
    /\ pc = [g \in Goroutines |-> "idle"]
    /\ value = [g \in Goroutines |-> None]
    /\ pos = [g \in Goroutines |-> 1] /\ into = [g \in Goroutines |-> None]
    /\ result = [g \in Goroutines |-> None]
    /\ first = [union |-> types, wrapper |-> types]
    /\ alone = [g \in Goroutines |-> TRUE] /\ crashed = FALSE
-----------------------------------------------------------------------------
\* The goroutines other than g in the same parser as g.
Others(g, inside) == {h \in Goroutines \ {g} : pc[h] \in inside}

\* g finishes the parser: neither it nor those in the parser are alone.
Accompanied(g, inside) ==
    [h \in Goroutines |-> alone[h] /\ h \notin Others(g, inside)
                                   /\ (h = g => Others(g, inside) = {})]

\* g comes in: it is not alone if somebody is finishing the parser, who is
\* not alone either.
Entered(g, inside) ==
    [h \in Goroutines |-> IF h = g THEN Others(g, inside \cap Finishing) = {}
                          ELSE alone[h] /\ ~(pc[h] \in inside \cap Finishing)]

Go(g, from, to) == ~crashed /\ pc[g] = from /\ pc' = [pc EXCEPT ![g] = to]
Answer(g, from, to, r) == Go(g, from, to) /\ result' = [result EXCEPT ![g] = r]
Crash == crashed' = TRUE

\* A definition is loaded while nobody parses.
Define(t) ==
    /\ ~crashed /\ \A g \in Goroutines : pc[g] = "idle"
    /\ types' = types \cup {t}
    /\ first' = [union   |-> IF choices = None THEN types' ELSE first.union,
                 wrapper |-> IF parser = "nil" /\ ~invalid THEN types' ELSE first.wrapper]
    /\ UNCHANGED <<choices, maps, parser, invalid, pc, value, pos, into, result, alone, crashed>>

Return(g) ==
    /\ \E from \in {"chosen", "parsed"} : Go(g, from, "idle")
    /\ result' = [result EXCEPT ![g] = None] /\ value' = [value EXCEPT ![g] = None]
    /\ alone' = [alone EXCEPT ![g] = TRUE]
    /\ UNCHANGED <<types, choices, maps, parser, invalid, pos, into, first, crashed>>

-----------------------------------------------------------------------------
(* Union.Parse.                                                            *)

UnionParse(g) ==
    /\ Go(g, "idle", "check")
    /\ alone' = Entered(g, InUnion)
    /\ UNCHANGED <<types, choices, maps, parser, invalid, value, pos, into, result, first, crashed>>

Check(g) ==
    /\ \/ choices # None /\ Go(g, "check", "select") /\ UNCHANGED alone
       \/ choices = None /\ Go(g, "check", "make") /\ alone' = Accompanied(g, InUnion)
    /\ UNCHANGED <<types, choices, maps, parser, invalid, value, pos, into, result, first, crashed>>

\* The empty map is there for everybody to see before it is filled.
Make(g) ==
    /\ Go(g, "make", "fill")
    /\ choices' = g /\ maps' = [maps EXCEPT ![g] = {}]
    /\ pos' = [pos EXCEPT ![g] = 1]
    /\ UNCHANGED <<types, parser, invalid, value, into, result, first, alone, crashed>>

\* Mutant: the loop ends at a choice that is not defined.
After_Break(g) == Len(Choices) + 1

\* Mutant: the choice after it is left out too.
After_Skips(g) == pos[g] + 2

\* The position after a choice that is not defined.
After(g) == pos[g] + 1

\* The next choice, which goes into the map that the union has by now.
Fill(g) ==
    /\ pos[g] <= Len(Choices)
    /\ IF TypeOf[Choices[pos[g]]] \notin types
         THEN /\ Go(g, "fill", "fill")
              /\ pos' = [pos EXCEPT ![g] = After(g)]
              /\ UNCHANGED <<into, crashed>>
         ELSE /\ Go(g, "fill", "write")
              /\ into' = [into EXCEPT ![g] = choices]
              /\ IF \E h \in Goroutines : pc[h] = "write" /\ into[h] = choices
                   THEN Crash ELSE UNCHANGED crashed
              /\ UNCHANGED pos
    /\ UNCHANGED <<types, choices, maps, parser, invalid, value, result, first, alone>>

Write(g) ==
    /\ Go(g, "write", "fill")
    /\ maps' = [maps EXCEPT ![into[g]] = @ \cup {Choices[pos[g]]}]
    /\ pos' = [pos EXCEPT ![g] = @ + 1]
    /\ into' = [into EXCEPT ![g] = None]
    /\ UNCHANGED <<types, choices, parser, invalid, value, result, first, alone, crashed>>

Filled(g) ==
    /\ pos[g] > Len(Choices) /\ Go(g, "fill", "select")
    /\ pos' = [pos EXCEPT ![g] = 1]
    /\ UNCHANGED <<types, choices, maps, parser, invalid, value, into, result,
                   first, alone, crashed>>

\* The choice k is looked up: it is there, or not, or somebody writes.
Lookup(g, from, k, otherwise) ==
    /\ pc[g] = from
    /\ \/ /\ k \in maps[choices]
          /\ Answer(g, from, "chosen", TypeOf[k])
       \/ /\ k \notin maps[choices] /\ otherwise
    /\ IF \E h \in Goroutines : pc[h] = "write" /\ into[h] = choices
         THEN Crash ELSE UNCHANGED crashed

\* Mutant: the default is tried first.
Select_Default(g, v) ==
    /\ value' = [value EXCEPT ![g] = v]
    /\ \/ v = None /\ Answer(g, "select", "chosen", None) /\ UNCHANGED crashed
       \/ /\ v # None
          /\ Lookup(g, "select", Default, Go(g, "select", "default") /\ UNCHANGED result)
    /\ UNCHANGED <<types, choices, maps, parser, invalid, pos, into, first, alone>>

\* The selector answers v.
Select(g, v) ==
    /\ value' = [value EXCEPT ![g] = v]
    /\ \/ v = None /\ Answer(g, "select", "chosen", None) /\ UNCHANGED crashed
       \/ /\ v # None
          /\ Lookup(g, "select", v, Go(g, "select", "default") /\ UNCHANGED result)
    /\ UNCHANGED <<types, choices, maps, parser, invalid, pos, into, first, alone>>

TryDefault(g) ==
    /\ Lookup(g, "default", Default, Answer(g, "default", "chosen", None))
    /\ UNCHANGED <<types, choices, maps, parser, invalid, value, pos, into, first, alone>>

-----------------------------------------------------------------------------
(* Parse of the wrapper.                                                   *)

WrapperParse(g) ==
    /\ Go(g, "idle", "look")
    /\ alone' = Entered(g, InWrapper)
    /\ UNCHANGED <<types, choices, maps, parser, invalid, value, pos, into, result, first, crashed>>

\* A parser of which only the type is there is not nil; nor is it if only
\* the data is.
Look(g) ==
    /\ \/ invalid /\ Answer(g, "look", "parsed", None) /\ UNCHANGED alone
       \/ ~invalid /\ parser # "whole" /\ Go(g, "look", "resolve")
          /\ alone' = Accompanied(g, InWrapper) /\ UNCHANGED result
       \/ ~invalid /\ parser # "nil" /\ Go(g, "look", "call") /\ UNCHANGED <<alone, result>>
    /\ UNCHANGED <<types, choices, maps, parser, invalid, value, pos, into, first, crashed>>

Resolve(g) ==
    /\ \/ /\ Element \notin types /\ invalid' = TRUE
          /\ Answer(g, "resolve", "parsed", None) /\ UNCHANGED parser
       \/ /\ Element \in types
          /\ Go(g, "resolve", "store")
          /\ parser' = IF parser = "nil" THEN "torn" ELSE parser
          /\ UNCHANGED <<invalid, result>>
    /\ UNCHANGED <<types, choices, maps, value, pos, into, first, alone, crashed>>

Store(g) ==
    /\ Go(g, "store", "call") /\ parser' = "whole"
    /\ UNCHANGED <<types, choices, maps, invalid, value, pos, into, result, first, alone, crashed>>

CallParser(g) ==
    /\ Answer(g, "call", "parsed", Element)
    /\ IF parser = "torn" THEN Crash ELSE UNCHANGED crashed
    /\ UNCHANGED <<types, choices, maps, parser, invalid, value, pos, into, first, alone>>

Step(g) ==
    \/ Check(g) \/ Make(g) \/ Fill(g) \/ Write(g) \/ Filled(g) \/ TryDefault(g)
    \/ \E v \in Values \cup {None} : Select(g, v)
    \/ Look(g) \/ Resolve(g) \/ Store(g) \/ CallParser(g) \/ Return(g)

Next ==
    \/ \E t \in TypeNames : Define(t)
    \/ \E g \in Goroutines : UnionParse(g) \/ WrapperParse(g) \/ Step(g)

Spec == Init /\ [][Next]_vars
-----------------------------------------------------------------------------
(* What is checked.                                                        *)

TypeOK ==
    /\ types \subseteq TypeNames /\ choices \in Goroutines \cup {None}
    /\ maps \in [Goroutines -> SUBSET Keys]
    /\ parser \in {"nil", "torn", "whole"} /\ invalid \in BOOLEAN
    /\ pc \in [Goroutines -> PC] /\ value \in [Goroutines -> Values \cup {None}]
    /\ pos \in [Goroutines -> 1..Len(Choices) + 1]
    /\ into \in [Goroutines -> Goroutines \cup {None}]
    /\ result \in [Goroutines -> TypeNames \cup {None}]
    /\ first \in [union : SUBSET TypeNames, wrapper : SUBSET TypeNames]
    /\ alone \in [Goroutines -> BOOLEAN] /\ crashed \in BOOLEAN

\* The choices that were defined when the union was first used.
Defined == {k \in Keys : TypeOf[k] \in first.union}

(***************************************************************************)
(* However the goroutines that find no map overtake each other, and        *)
(* although each of them replaces the map of the one before (union.go:48   *)
(* looks, union.go:49 stores, union.go:62 adds to whatever map is there by *)
(* then), once they are gone the union is what one of them alone would     *)
(* have made of it: the choices that were defined when it was first used,  *)
(* and it stays so, whatever is defined later.                             *)
(***************************************************************************)
SettledIsComplete ==
    /\ ~crashed /\ choices # None
    /\ \A g \in Goroutines : pc[g] \notin Finishing
    => maps[choices] = Defined

\* What Parse of the union answers in a program of one goroutine.
Expected(v) ==
    IF v = None THEN None
    ELSE IF v \in Defined THEN TypeOf[v]
    ELSE IF Default \in Defined THEN TypeOf[Default] ELSE None

(***************************************************************************)
(* Only a parse that meets the unfinished parser of another goroutine goes *)
(* wrong: all others answer what they would without other goroutines, and  *)
(* the program crashes only if there are such (union.go:48-64,             *)
(* array.go:84-99, enumeration.go:90-105).  So it is enough to use every   *)
(* parser of a profile once before sharing it.                             *)
(***************************************************************************)
OnlyRacesGoWrong ==
    /\ crashed => \E g \in Goroutines : ~alone[g]
    /\ \A g \in Goroutines : alone[g] /\ ~crashed =>
        /\ pc[g] = "chosen" => result[g] = Expected(value[g])
        /\ pc[g] = "parsed" =>
              result[g] = IF Element \in first.wrapper THEN Element ELSE None
=============================================================================
