------------------------- MODULE MC_StingerStream -------------------------
(* Model-checking instance of StingerStream: one name and one id per kind, *)
(* arrays of initial size 1 that grow once before two pending records.     *)
EXTENDS StingerStream

MCInitSize == 1
MCIds == {1}
MCTypeIds == {0}
MCWeights == {1}
\* The three arrays interact only through only_strings (set by add_insert)
\* and send_batch.  add_insert alone, with growth:
MCPendingInsertions == [insertions |-> 2, deletions |-> 0, vertex_updates |-> 0]
\* add_delete and add_vertex_update without add_insert.
MCPendingVertexUpdates == [insertions |-> 0, deletions |-> 2, vertex_updates |-> 2]
\* The refinement run adds up to three records per array: two growths.
MCPendingContract == [insertions |-> 3, deletions |-> 3, vertex_updates |-> 3]
============================================================================
