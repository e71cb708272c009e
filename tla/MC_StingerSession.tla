-------------------------- MODULE MC_StingerSession --------------------------
(* Two algorithms, the second depending on the first: a dependency and an  *)
(* independent order of requests, with one stream and one monitor.  The    *)
(* stream's batches alternately insert and delete the edge e2 of the       *)
(* vertex the monitor reads, so outdegree changes with every write.        *)
EXTENDS StingerSession, TLC

CONSTANTS a1, a2, e1, e2

MCAlgs == {a1, a2}
MCDeps == (a1 :> {} @@ a2 :> {a1})
MCSucc == (0 :> <<e1>> @@ 1 :> <<e2, e1>>)
============================================================================
