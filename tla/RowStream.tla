----------------------------- MODULE RowStream ------------------------------
(***************************************************************************)
(* What iterating over an array promises to its reader: the elements in    *)
(* order, each once and each as something that has columns, and an end     *)
(* that comes early only if the query was cancelled.                       *)
(***************************************************************************)
EXTENDS Naturals, Sequences

CONSTANT Items          \* the array, a sequence of [kind, id]

VARIABLES rows,         \* what the reader has been given
          ended,        \* the reader has been told there is no more
          cancelled     \* the query was cancelled

Init == rows = <<>> /\ ended = FALSE /\ cancelled = FALSE

Deliver ==
    /\ ~ended /\ Len(rows) < Len(Items)
    /\ \E row \in {[columns |-> c, item |-> Items[Len(rows) + 1]] : c \in {"own", "_value"}} :
        /\ row.columns = "own" => row.item.kind \in {"struct", "dict"}
        /\ rows' = Append(rows, row)
    /\ UNCHANGED <<ended, cancelled>>

End ==
    /\ ~ended /\ (cancelled \/ Len(rows) = Len(Items))
    /\ ended' = TRUE /\ UNCHANGED <<rows, cancelled>>

Cancel == cancelled' = TRUE /\ UNCHANGED <<rows, ended>>

Next == Deliver \/ End \/ Cancel

Spec == Init /\ [][Next]_<<rows, ended, cancelled>>
=============================================================================
