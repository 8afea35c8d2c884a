--------------------------- MODULE ArrayIterator ----------------------------
(***************************************************************************)
(* ArrayIterator.Iterate: a goroutine per iteration offers the elements of *)
(* an ArrayObject on an unbuffered channel until its reader has them all   *)
(* or the context is done.  Several iterations may go over one array, and  *)
(* several may share a context.  The reader is the query engine.           *)
(***************************************************************************)
EXTENDS Naturals, Sequences

CONSTANTS Iterations,   \* the calls of Iterate
          Contexts,
          ContextOf,    \* the context each was called with
          Array         \* the contents of the ArrayObject

Kinds == {"struct", "dict", "array", "value"}

ASSUME IteratorAssumption ==
    /\ ContextOf \in [Iterations -> Contexts]
    /\ Array \in Seq([kind : Kinds, id : Nat])

VARIABLES
    goroutine,  \* where the goroutine of an iteration is
    next,       \* the index of the element its loop is at
    offer,      \* the row it has in its select
    reader,     \* what the reader of the channel is doing
    got,        \* the rows the reader was given
    done        \* the contexts that are done

vars == <<goroutine, next, offer, reader, got, done>>

Rows == [columns : {"own", "_value"}, item : [kind : Kinds, id : Nat]]
NoRow == [columns |-> "own", item |-> [kind |-> "value", id |-> 0]]

Init ==
    /\ goroutine = [i \in Iterations |-> "none"]
    /\ next = [i \in Iterations |-> 1]
    /\ offer = [i \in Iterations |-> NoRow]
    /\ reader = [i \in Iterations |-> "none"]
    /\ got = [i \in Iterations |-> <<>>]
    /\ done = {}

-----------------------------------------------------------------------------
\* Mutant: nested arrays are emitted as they are.
Wrap_Arrays(e) ==
    [columns |-> IF e.kind \in {"struct", "dict", "array"} THEN "own" ELSE "_value",
     item |-> e]

\* Structs and dicts are emitted as they are, the rest in a dict of its own.
Wrap(e) == [columns |-> IF e.kind \in {"struct", "dict"} THEN "own" ELSE "_value",
            item |-> e]

\* The channel is made and the goroutine started; the reader has the channel.
Iterate(i) ==
    /\ goroutine[i] = "none"
    /\ goroutine' = [goroutine EXCEPT ![i] = "loop"]
    /\ reader' = [reader EXCEPT ![i] = "busy"]
    /\ UNCHANGED <<next, offer, got, done>>

\* The next element, or the end of the loop, which closes the channel.
Loop(i) ==
    /\ goroutine[i] = "loop"
    /\ IF next[i] <= Len(Array)
         THEN /\ goroutine' = [goroutine EXCEPT ![i] = "select"]
              /\ offer' = [offer EXCEPT ![i] = Wrap(Array[next[i]])]
         ELSE /\ goroutine' = [goroutine EXCEPT ![i] = "closed"]
              /\ UNCHANGED offer
    /\ UNCHANGED <<next, reader, got, done>>

\* Mutant: a default case, the row is dropped when no reader waits for it.
Send_OrDrop(i) ==
    /\ goroutine[i] = "select"
    /\ goroutine' = [goroutine EXCEPT ![i] = "loop"]
    /\ next' = [next EXCEPT ![i] = @ + 1]
    /\ IF reader[i] = "receive"
         THEN /\ reader' = [reader EXCEPT ![i] = "busy"]
              /\ got' = [got EXCEPT ![i] = Append(@, offer[i])]
         ELSE UNCHANGED <<reader, got>>
    /\ UNCHANGED <<offer, done>>

\* The two meet on the channel.
Send(i) ==
    /\ goroutine[i] = "select" /\ reader[i] = "receive"
    /\ goroutine' = [goroutine EXCEPT ![i] = "loop"]
    /\ next' = [next EXCEPT ![i] = @ + 1]
    /\ reader' = [reader EXCEPT ![i] = "busy"]
    /\ got' = [got EXCEPT ![i] = Append(@, offer[i])]
    /\ UNCHANGED <<offer, done>>

\* Mutant: the goroutine returns without closing the channel.
Stop_LeavesOpen(i) ==
    /\ goroutine[i] = "select" /\ ContextOf[i] \in done
    /\ goroutine' = [goroutine EXCEPT ![i] = "returned"]
    /\ UNCHANGED <<next, offer, reader, got, done>>

\* Mutant: the select has no case for the context.
Stop_Never(i) == FALSE /\ goroutine[i] = "select" /\ UNCHANGED vars

\* The other case of the select: the context is done.
Stop(i) ==
    /\ goroutine[i] = "select" /\ ContextOf[i] \in done
    /\ goroutine' = [goroutine EXCEPT ![i] = "closed"]
    /\ UNCHANGED <<next, offer, reader, got, done>>

-----------------------------------------------------------------------------
\* The reader asks for a row, and learns it if the channel is closed.
Receive(i) ==
    /\ reader[i] = "busy"
    /\ reader' = [reader EXCEPT ![i] = "receive"]
    /\ UNCHANGED <<goroutine, next, offer, got, done>>

SeeClosed(i) ==
    /\ reader[i] = "receive" /\ goroutine[i] = "closed"
    /\ reader' = [reader EXCEPT ![i] = "ended"]
    /\ UNCHANGED <<goroutine, next, offer, got, done>>

\* The reader has what it wants (a LIMIT) and never receives again.
Leave(i) ==
    /\ reader[i] = "busy"
    /\ reader' = [reader EXCEPT ![i] = "left"]
    /\ UNCHANGED <<goroutine, next, offer, got, done>>

Cancel(c) ==
    /\ c \notin done /\ done' = done \cup {c}
    /\ UNCHANGED <<goroutine, next, offer, reader, got>>

Next ==
    \/ \E i \in Iterations :
        \/ Iterate(i) \/ Loop(i) \/ Send(i) \/ Stop(i)
        \/ Receive(i) \/ SeeClosed(i) \/ Leave(i)
    \/ \E c \in Contexts : Cancel(c)

(***************************************************************************)
(* The scheduler runs every goroutine that can run, and a channel operation*)
(* both sides of which are waiting completes; nothing makes the reader     *)
(* come back, start an iteration or cancel the query.                      *)
(***************************************************************************)
Fairness == \A i \in Iterations :
    WF_vars(Loop(i)) /\ WF_vars(Send(i)) /\ WF_vars(Stop(i)) /\ WF_vars(SeeClosed(i))

Spec == Init /\ [][Next]_vars /\ Fairness

-----------------------------------------------------------------------------
TypeOK ==
    /\ goroutine \in [Iterations -> {"none", "loop", "select", "closed"}]
    /\ next \in [Iterations -> 1..Len(Array) + 1]
    /\ offer \in [Iterations -> Rows]
    /\ reader \in [Iterations -> {"none", "busy", "receive", "ended", "left"}]
    /\ got \in [Iterations -> Seq(Rows)]
    /\ done \subseteq Contexts

(***************************************************************************)
(* What a reader has, once it is told that was all and nobody cancelled,   *)
(* is the whole array, in order (protocol.go:157-175: no exit of the loop  *)
(* other than the context, no case of the select that loses the row).      *)
(***************************************************************************)
EndMeansAll ==
    \A i \in Iterations : reader[i] = "ended" /\ ContextOf[i] \notin done =>
        got[i] = [k \in 1..Len(Array) |-> Wrap(Array[k])]

(***************************************************************************)
(* Each iteration is a stream of the array's rows by itself, whatever the  *)
(* others that go over the same array do.                                  *)
(***************************************************************************)
Stream(i) == INSTANCE RowStream WITH
    Items <- Array, rows <- got[i], ended <- reader[i] = "ended",
    cancelled <- ContextOf[i] \in done
EachIsAStream ==
    /\ \A i \in Iterations : Stream(i)!Init
    /\ [][\A i \in Iterations :
            [Stream(i)!Next]_<<got[i], reader[i] = "ended", ContextOf[i] \in done>>]_vars

\* A reader that waits for a row is given one or told there is none
\* (protocol.go:150 closes the channel on every way out).
NoReaderHangs ==
    \A i \in Iterations : reader[i] = "receive" ~> reader[i] # "receive"

\* A reader may leave in the middle; when the context is done the goroutine
\* ends, although its row is never taken (protocol.go:170).
CancelEndsGoroutine ==
    \A i \in Iterations :
        goroutine[i] # "none" /\ ContextOf[i] \in done ~> goroutine[i] = "closed"
=============================================================================
