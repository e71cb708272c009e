--------------------------- MODULE MC_StingerGraph ---------------------------
(* Three vertex names, one edge type name and three vertex ids: the names  *)
(* fill the id space, a name and an int meet at id 0, and two ids above 0  *)
(* give removals that are really made, of edges that are not self loops.   *)
EXTENDS StingerGraph

CONSTANTS a, b, c, t, k

MCVNames == {a, b, c}
MCENames == {t}
MCMaxV == 3
MCPairsOnly == {TRUE}
MCBothForms == BOOLEAN
\* One vertex type name; weights 0..1, reached by a set or an increment.
MCVTNames == {k}
MCAmounts == {1}
MCMaxWeight == 1
============================================================================
