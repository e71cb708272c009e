------------------------ MODULE MC_StingerDataArray ------------------------
(* Model-checking instance of StingerDataArray: two vertices, descriptors *)
(* of one or two tags and names, every tag, one known and one unknown     *)
(* vertex name.                                                           *)
EXTENDS StingerDataArray

MCNV == 2
MCMaxFields == 2
\* A vertex name the mapping knows (id 1) and one it does not.
CONSTANTS u, w
MCVertexNames == {u, w}
MCMapping == [n \in MCVertexNames |-> IF n = u THEN 1 ELSE -1]
\* Callers that stay within the field: -1 .. nv-1.
MCInBounds == -1 .. MCNV - 1
MCSmallValues == {1}
\* weight_double by 2, once per column: values stay within 0..2.
MCFactors == {2}
MCMaxValue == 2
\* Callers that scale only double ('d') fields, and callers that scale any.
MCDoubleTags == {"d"}
MCAllTags == Tags
============================================================================
