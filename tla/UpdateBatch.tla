---------------------------- MODULE UpdateBatch ----------------------------
(***************************************************************************)
(* The update batch as spec 4.1 and 4.2 describe it: three sequences of    *)
(* records; an add appends the record as given (a vertex or type as an id  *)
(* or a name), a send hands the batch over and leaves it empty.            *)
(* Weights and timestamps are not part of this view.                       *)
(***************************************************************************)
EXTENDS Sequences

CONSTANTS
    VRefs,   \* vertex references: ids and names
    TRefs    \* edge / vertex type references: ids and names

VARIABLES batch

Kinds == {"insertions", "deletions", "vertex_updates"}

Init == batch = [k \in Kinds |-> <<>>]

AddEdge(k, from, to, type) ==
    batch' = [batch EXCEPT ![k] = Append(@, <<from, to, type>>)]

AddVertex(v, type) ==
    batch' = [batch EXCEPT !["vertex_updates"] = Append(@, <<v, type>>)]

Send == batch' = [k \in Kinds |-> <<>>]

Next ==
    \/ \E k \in {"insertions", "deletions"}, from, to \in VRefs, type \in TRefs :
          AddEdge(k, from, to, type)
    \/ \E v \in VRefs, type \in TRefs : AddVertex(v, type)
    \/ Send

Spec == Init /\ [][Next]_batch
============================================================================
