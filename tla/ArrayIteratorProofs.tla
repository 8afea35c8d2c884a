------------------------ MODULE ArrayIteratorProofs -------------------------
(***************************************************************************)
(* Proofs about ArrayIterator, for any iterations, contexts and array: the *)
(* type invariant, that an end without a cancellation means the reader has *)
(* the whole array, and that every iteration implements RowStream.         *)
(***************************************************************************)
EXTENDS ArrayIterator, SequenceTheorems, TLAPS

\* The first n rows of the array.
FirstRows(n) == [k \in 1..n |-> Wrap(Array[k])]

(***************************************************************************)
(* What relates a goroutine to its reader: the reader has the rows before  *)
(* the one the loop is at, that one is in the select, and the channel is   *)
(* closed behind the last row or because the context is done.              *)
(***************************************************************************)
Progress(i) ==
    /\ got[i] = FirstRows(next[i] - 1)
    /\ goroutine[i] = "select" => next[i] <= Len(Array) /\ offer[i] = Wrap(Array[next[i]])
    /\ goroutine[i] = "closed" => next[i] = Len(Array) + 1 \/ ContextOf[i] \in done
    /\ reader[i] = "ended" => goroutine[i] = "closed"
    /\ goroutine[i] = "none" => reader[i] = "none"

IInv == TypeOK /\ \A i \in Iterations : Progress(i)

-----------------------------------------------------------------------------
LEMMA WrapType == \A e \in [kind : Kinds, id : Nat] : Wrap(e) \in Rows
  BY DEF Wrap, Rows, Kinds

LEMMA ArrayType ==
  /\ Len(Array) \in Nat
  /\ \A k \in 1..Len(Array) : Array[k] \in [kind : Kinds, id : Nat]
  <1>. DEFINE Item == [kind : Kinds, id : Nat]
  <1>1. Array \in Seq(Item)
    BY IteratorAssumption
  <1>. HIDE DEF Item
  <1>2. Len(Array) \in Nat /\ \A k \in 1..Len(Array) : Array[k] \in Item
    BY <1>1
  <1>. QED BY <1>2 DEF Item

LEMMA FirstRowsType ==
  ASSUME NEW n \in Nat, n <= Len(Array)
  PROVE  FirstRows(n) \in Seq(Rows) /\ Len(FirstRows(n)) = n
  <1>1. \A k \in 1..n : Wrap(Array[k]) \in Rows
    BY ArrayType, WrapType
  <1>. DEFINE R == Rows
  <1>. HIDE DEF R
  <1>2. \A k \in 1..n : Wrap(Array[k]) \in R
    BY <1>1 DEF R
  <1>. QED BY <1>2 DEF FirstRows, R

\* Handing over row n + 1 makes the first n rows the first n + 1.
LEMMA OneMoreRow ==
  ASSUME NEW n \in Nat, n < Len(Array)
  PROVE  Append(FirstRows(n), Wrap(Array[n + 1])) = FirstRows(n + 1)
  <1>. DEFINE s == FirstRows(n)
              W(k) == Wrap(Array[k])
  <1>1. s \in Seq(Rows) /\ Len(s) = n
    BY FirstRowsType, ArrayType
  <1>2. s = [k \in 1..n |-> W(k)]
    BY DEF FirstRows
  <1>3. FirstRows(n + 1) = [k \in 1..n + 1 |-> W(k)]
    BY DEF FirstRows
  <1>. HIDE DEF W, s
  <1>4. Append(s, W(n + 1)) = [k \in 1..n + 1 |-> IF k <= n THEN s[k] ELSE W(n + 1)]
    BY <1>1
  <1>5. \A k \in 1..n + 1 : (IF k <= n THEN s[k] ELSE W(n + 1)) = W(k)
    BY <1>2
  <1>6. Append(s, W(n + 1)) = FirstRows(n + 1)
    BY <1>3, <1>4, <1>5
  <1>. QED BY <1>6 DEF s, W

-----------------------------------------------------------------------------
LEMMA InitIInv == Init => IInv
  <1>. SUFFICES ASSUME Init PROVE IInv
    OBVIOUS
  <1>1. NoRow \in Rows
    BY DEF NoRow, Rows, Kinds
  <1>2. TypeOK
    BY <1>1, ArrayType DEF Init, TypeOK
  <1>3. ASSUME NEW i \in Iterations PROVE Progress(i)
    <2>1. got[i] = <<>> /\ next[i] = 1 /\ goroutine[i] = "none" /\ reader[i] = "none"
      BY DEF Init
    <2>2. FirstRows(0) = <<>>
      BY DEF FirstRows
    <2>. QED BY <2>1, <2>2 DEF Progress
  <1>. QED BY <1>2, <1>3 DEF IInv

\* A step of one iteration leaves the others as they were.
LEMMA OthersKeep ==
  ASSUME NEW i \in Iterations, NEW j \in Iterations, i # j, TypeOK,
         Iterate(i) \/ Loop(i) \/ Send(i) \/ Stop(i) \/ Receive(i) \/ SeeClosed(i) \/ Leave(i)
  PROVE  /\ goroutine'[j] = goroutine[j] /\ next'[j] = next[j] /\ offer'[j] = offer[j]
         /\ reader'[j] = reader[j] /\ got'[j] = got[j] /\ done' = done
  BY DEF TypeOK, Iterate, Loop, Send, Stop, Receive, SeeClosed, Leave

LEMMA IterateStep ==
  ASSUME IInv, NEW i \in Iterations, Iterate(i)
  PROVE  TypeOK' /\ Progress(i)'
  BY DEF IInv, TypeOK, Progress, Iterate, FirstRows

LEMMA LoopStep ==
  ASSUME IInv, NEW i \in Iterations, Loop(i)
  PROVE  TypeOK' /\ Progress(i)'
  <1>1. CASE next[i] <= Len(Array)
    <2>1. Wrap(Array[next[i]]) \in Rows
      BY <1>1, ArrayType, WrapType DEF IInv, TypeOK
    <2>. QED BY <1>1, <2>1 DEF IInv, TypeOK, Progress, Loop, FirstRows
  <1>2. CASE ~ next[i] <= Len(Array)
    <2>1. next[i] = Len(Array) + 1
      BY <1>2, ArrayType DEF IInv, TypeOK
    <2>. QED BY <1>2, <2>1 DEF IInv, TypeOK, Progress, Loop, FirstRows
  <1>. QED BY <1>1, <1>2

LEMMA SendStep ==
  ASSUME IInv, NEW i \in Iterations, Send(i)
  PROVE  TypeOK' /\ Progress(i)'
  <1>1. /\ next[i] \in 1..Len(Array) /\ offer[i] = Wrap(Array[next[i]])
        /\ got[i] = FirstRows(next[i] - 1) /\ reader[i] = "receive"
    BY ArrayType DEF IInv, TypeOK, Progress, Send
  <1>2. /\ next' = [next EXCEPT ![i] = next[i] + 1]
        /\ got' = [got EXCEPT ![i] = Append(got[i], offer[i])]
        /\ goroutine' = [goroutine EXCEPT ![i] = "loop"]
        /\ reader' = [reader EXCEPT ![i] = "busy"]
        /\ offer' = offer /\ done' = done
    BY DEF Send
  <1>3. Append(FirstRows(next[i] - 1), Wrap(Array[next[i]])) = FirstRows(next[i])
    <2>1. next[i] - 1 \in Nat /\ next[i] - 1 < Len(Array) /\ (next[i] - 1) + 1 = next[i]
      BY <1>1, ArrayType
    <2>2. Append(FirstRows(next[i] - 1), Wrap(Array[(next[i] - 1) + 1]))
            = FirstRows((next[i] - 1) + 1)
      BY <2>1, OneMoreRow
    <2>. QED BY <2>1, <2>2
  <1>4. got' = [got EXCEPT ![i] = FirstRows(next[i])]
    BY <1>1, <1>2, <1>3
  <1>5. next'[i] - 1 = next[i] /\ next'[i] \in 1..Len(Array) + 1
    BY <1>1, <1>2, ArrayType DEF IInv, TypeOK
  <1>6. got'[i] = FirstRows(next'[i] - 1)
    BY <1>4, <1>5 DEF IInv, TypeOK
  <1>7. FirstRows(next[i]) \in Seq(Rows)
    BY <1>1, FirstRowsType, ArrayType
  <1>8. TypeOK'
    BY <1>2, <1>4, <1>5, <1>7 DEF IInv, TypeOK
  <1>9. Progress(i)'
    <2>1. goroutine'[i] = "loop" /\ reader'[i] = "busy"
      BY <1>2 DEF IInv, TypeOK
    <2>2. (FirstRows(next[i] - 1))' = FirstRows(next'[i] - 1)
      BY DEF FirstRows
    <2>. QED BY <1>6, <2>1, <2>2 DEF Progress
  <1>. QED BY <1>8, <1>9

LEMMA StopStep ==
  ASSUME IInv, NEW i \in Iterations, Stop(i)
  PROVE  TypeOK' /\ Progress(i)'
  BY DEF IInv, TypeOK, Progress, Stop, FirstRows

LEMMA ReaderStep ==
  ASSUME IInv, NEW i \in Iterations, Receive(i) \/ SeeClosed(i) \/ Leave(i)
  PROVE  TypeOK' /\ Progress(i)'
  BY DEF IInv, TypeOK, Progress, Receive, SeeClosed, Leave, FirstRows

LEMMA CancelStep ==
  ASSUME IInv, NEW c \in Contexts, Cancel(c)
  PROVE  IInv'
  <1>1. TypeOK'
    BY DEF IInv, TypeOK, Cancel
  <1>2. ASSUME NEW i \in Iterations PROVE Progress(i)'
    BY DEF IInv, Progress, Cancel, FirstRows
  <1>. QED BY <1>1, <1>2 DEF IInv

LEMMA NextIInv == IInv /\ [Next]_vars => IInv'
  <1>. SUFFICES ASSUME IInv, [Next]_vars PROVE IInv'
    OBVIOUS
  <1>. DEFINE OfIteration(i) ==
         \/ Iterate(i) \/ Loop(i) \/ Send(i) \/ Stop(i)
         \/ Receive(i) \/ SeeClosed(i) \/ Leave(i)
  <1>1. ASSUME NEW i \in Iterations, OfIteration(i) PROVE IInv'
    <2>1. TypeOK' /\ Progress(i)'
      BY <1>1, IterateStep, LoopStep, SendStep, StopStep, ReaderStep
    <2>2. ASSUME NEW j \in Iterations, j # i PROVE Progress(j)'
      <3>1. /\ goroutine'[j] = goroutine[j] /\ next'[j] = next[j] /\ offer'[j] = offer[j]
            /\ reader'[j] = reader[j] /\ got'[j] = got[j] /\ done' = done
        BY <1>1, <2>2, OthersKeep DEF IInv
      <3>. QED BY <3>1 DEF IInv, Progress, FirstRows
    <2>. QED BY <2>1, <2>2 DEF IInv
  <1>2. ASSUME NEW c \in Contexts, Cancel(c) PROVE IInv'
    BY <1>2, CancelStep
  <1>3. CASE UNCHANGED vars
    BY <1>3 DEF IInv, TypeOK, Progress, vars, FirstRows
  <1>. QED BY <1>1, <1>2, <1>3 DEF Next

(***************************************************************************)
(* The inductive invariant: goroutine and reader agree on every row.       *)
(***************************************************************************)
THEOREM IteratorInvariant == Spec => []IInv
  BY InitIInv, NextIInv, PTL DEF Spec

\* Every variable keeps its type.
THEOREM TypeCorrect == Spec => []TypeOK
  <1>1. IInv => TypeOK
    BY DEF IInv
  <1>. QED BY <1>1, IteratorInvariant, PTL

\* A reader told that there is no more, with nobody having cancelled, has the
\* rows of the whole array in order.
THEOREM EndIsComplete == Spec => []EndMeansAll
  <1>1. IInv => EndMeansAll
    <2>. SUFFICES ASSUME IInv, NEW i \in Iterations, reader[i] = "ended", ContextOf[i] \notin done
                  PROVE  got[i] = [k \in 1..Len(Array) |-> Wrap(Array[k])]
      BY DEF EndMeansAll
    <2>1. next[i] = Len(Array) + 1 /\ got[i] = FirstRows(next[i] - 1)
      BY DEF IInv, Progress
    <2>2. next[i] - 1 = Len(Array)
      BY <2>1, ArrayType
    <2>. QED BY <2>1, <2>2 DEF FirstRows
  <1>. QED BY <1>1, IteratorInvariant, PTL
-----------------------------------------------------------------------------
(* The refinement.                                                         *)

\* What RowStream sees of iteration i.
Seen(i) == <<got[i], reader[i] = "ended", ContextOf[i] \in done>>

LEMMA InitStream == ASSUME Init, NEW i \in Iterations PROVE Stream(i)!Init
  <1>1. got[i] = <<>>
    BY DEF Init
  <1>2. (reader[i] = "ended") = FALSE
    BY DEF Init
  <1>3. (ContextOf[i] \in done) = FALSE
    BY DEF Init
  <1>. QED BY <1>1, <1>2, <1>3 DEF Stream!Init

LEMMA SendDelivers ==
  ASSUME IInv, NEW i \in Iterations, Send(i)
  PROVE  Stream(i)!Deliver
  <1>1. /\ reader[i] = "receive" /\ got[i] = FirstRows(next[i] - 1)
        /\ next[i] \in 1..Len(Array) /\ offer[i] = Wrap(Array[next[i]])
    BY ArrayType DEF IInv, TypeOK, Progress, Send
  <1>2. got'[i] = Append(got[i], offer[i]) /\ reader'[i] = "busy" /\ done' = done
    BY DEF IInv, TypeOK, Send
  <1>3. Len(got[i]) + 1 = next[i]
    <2>1. next[i] - 1 \in Nat /\ next[i] - 1 <= Len(Array)
      BY <1>1, ArrayType
    <2>2. Len(FirstRows(next[i] - 1)) = next[i] - 1
      BY <2>1, FirstRowsType
    <2>. QED BY <1>1, <2>1, <2>2
  <1>4. Len(got[i]) < Len(Array)
    BY <1>1, <1>3, ArrayType DEF IInv, TypeOK
  <1>5. ~ (reader[i] = "ended") /\ ~ (reader'[i] = "ended")
    BY <1>1, <1>2
  <1>6. UNCHANGED <<reader[i] = "ended", ContextOf[i] \in done>>
    BY <1>2, <1>5
  <1>. DEFINE row == Wrap(Array[Len(got[i]) + 1])
  <1>7. \E r \in {[columns |-> c, item |-> Array[Len(got[i]) + 1]] : c \in {"own", "_value"}} :
            /\ r.columns = "own" => r.item.kind \in {"struct", "dict"}
            /\ got'[i] = Append(got[i], r)
    <2>1. row \in {[columns |-> c, item |-> Array[Len(got[i]) + 1]] : c \in {"own", "_value"}}
      BY DEF Wrap
    <2>2. row.columns = "own" => row.item.kind \in {"struct", "dict"}
      BY DEF Wrap
    <2>3. got'[i] = Append(got[i], row)
      BY <1>1, <1>2, <1>3
    <2>. HIDE DEF row
    <2>. QED BY <2>1, <2>2, <2>3
  <1>. QED BY <1>4, <1>5, <1>6, <1>7 DEF Stream!Deliver

LEMMA SeeClosedEnds ==
  ASSUME IInv, NEW i \in Iterations, SeeClosed(i)
  PROVE  Stream(i)!End
  <1>1. reader[i] = "receive" /\ goroutine[i] = "closed"
    BY DEF SeeClosed
  <1>2. reader'[i] = "ended" /\ got' = got /\ done' = done
    BY DEF IInv, TypeOK, SeeClosed
  <1>3. ContextOf[i] \in done \/ Len(got[i]) = Len(Array)
    <2>. SUFFICES ASSUME ContextOf[i] \notin done PROVE Len(got[i]) = Len(Array)
      OBVIOUS
    <2>1. next[i] = Len(Array) + 1 /\ got[i] = FirstRows(next[i] - 1)
      BY <1>1 DEF IInv, Progress
    <2>2. next[i] - 1 = Len(Array)
      BY <2>1, ArrayType
    <2>3. Len(FirstRows(Len(Array))) = Len(Array)
      BY ArrayType, FirstRowsType
    <2>. QED BY <2>1, <2>2, <2>3
  <1>4. ~ (reader[i] = "ended")
    BY <1>1
  <1>5. (reader'[i] = "ended") = TRUE
    BY <1>2
  <1>6. UNCHANGED <<got[i], ContextOf[i] \in done>>
    BY <1>2
  <1>. QED BY <1>3, <1>4, <1>5, <1>6 DEF Stream!End

\* The other steps of an iteration show its reader nothing.
LEMMA QuietStep ==
  ASSUME IInv, NEW i \in Iterations,
         Iterate(i) \/ Loop(i) \/ Stop(i) \/ Receive(i) \/ Leave(i)
  PROVE  UNCHANGED Seen(i)
  <1>1. got' = got /\ done' = done
    BY DEF Iterate, Loop, Stop, Receive, Leave
  <1>2. (reader'[i] = "ended") = (reader[i] = "ended")
    BY DEF IInv, TypeOK, Progress, Iterate, Loop, Stop, Receive, Leave
  <1>. QED BY <1>1, <1>2 DEF Seen

LEMMA CancelSeen ==
  ASSUME IInv, NEW c \in Contexts, NEW i \in Iterations, Cancel(c)
  PROVE  Stream(i)!Cancel \/ UNCHANGED Seen(i)
  <1>1. got' = got /\ reader' = reader /\ done' = done \cup {c}
    BY DEF Cancel
  <1>2. CASE c = ContextOf[i]
    <2>1. (ContextOf[i] \in done') = TRUE
      BY <1>1, <1>2
    <2>2. UNCHANGED <<got[i], reader[i] = "ended">>
      BY <1>1
    <2>. QED BY <2>1, <2>2 DEF Stream!Cancel
  <1>3. CASE c # ContextOf[i]
    <2>1. (ContextOf[i] \in done') = (ContextOf[i] \in done)
      BY <1>1, <1>3
    <2>. QED BY <1>1, <2>1 DEF Seen
  <1>. QED BY <1>2, <1>3

LEMMA NextStream ==
  ASSUME IInv, [Next]_vars, NEW i \in Iterations
  PROVE  [Stream(i)!Next]_(Seen(i))
  <1>1. CASE UNCHANGED vars
    BY <1>1 DEF vars, Seen
  <1>2. ASSUME NEW c \in Contexts, Cancel(c) PROVE [Stream(i)!Next]_(Seen(i))
    <2>1. Stream(i)!Cancel \/ UNCHANGED Seen(i)
      BY <1>2, CancelSeen
    <2>. QED BY <2>1 DEF Stream!Next
  <1>. DEFINE OfIteration(j) ==
         \/ Iterate(j) \/ Loop(j) \/ Send(j) \/ Stop(j)
         \/ Receive(j) \/ SeeClosed(j) \/ Leave(j)
  <1>3. ASSUME NEW j \in Iterations, OfIteration(j) PROVE [Stream(i)!Next]_(Seen(i))
    <2>1. CASE j # i
      <3>1. reader'[i] = reader[i] /\ got'[i] = got[i] /\ done' = done
        BY <1>3, <2>1, OthersKeep DEF IInv
      <3>. QED BY <3>1 DEF Seen
    <2>2. CASE j = i
      <3>1. CASE Send(i)
        BY <3>1, SendDelivers DEF Stream!Next
      <3>2. CASE SeeClosed(i)
        BY <3>2, SeeClosedEnds DEF Stream!Next
      <3>3. CASE Iterate(i) \/ Loop(i) \/ Stop(i) \/ Receive(i) \/ Leave(i)
        BY <3>3, QuietStep
      <3>. QED BY <1>3, <2>2, <3>1, <3>2, <3>3
    <2>. QED BY <2>1, <2>2
  <1>. QED BY <1>1, <1>2, <1>3 DEF Next

(***************************************************************************)
(* Every iteration implements RowStream: rows in order, each once, with    *)
(* columns, and an early end only after a cancellation.                    *)
(***************************************************************************)
THEOREM ImplementsStream == Spec => EachIsAStream
  <1>1. Init => \A i \in Iterations : Stream(i)!Init
    BY InitStream
  <1>2. IInv /\ [Next]_vars =>
          [\A i \in Iterations :
              [Stream(i)!Next]_<<got[i], reader[i] = "ended", ContextOf[i] \in done>>]_vars
    BY NextStream DEF Seen
  <1>. QED BY <1>1, <1>2, IteratorInvariant, PTL DEF Spec, EachIsAStream
=============================================================================
