---------------------------- MODULE StingerGraph ----------------------------
(***************************************************************************)
(* The Stinger wrapper of stinger_core.py: edge insertion, increment and   *)
(* removal (single and pair) with vertex and edge-type arguments given as  *)
(* ids or names.  Names are resolved in Python before the library call:    *)
(* insert / increment create vertex mappings, remove only looks them up,   *)
(* and every operation creates the edge type of a str etype.               *)
(*                                                                         *)
(* The graph engine behind the calls is abstracted to its contract: a set  *)
(* of typed edges, a name -> id mapping that hands out ids 0, 1, ... and   *)
(* returns -1 for an unknown name, and an etype name table of the same     *)
(* kind.  Weights and timestamps are left out.                             *)
(***************************************************************************)
EXTENDS Integers, FiniteSets

CONSTANTS
    VNames,    \* vertex names (Python str)
    ENames,    \* edge type names (Python str)
    MaxV,      \* vertex ids are 0 .. MaxV-1 (nv of the engine)
    Pairs,     \* which forms the callers use: TRUE for the *_pair methods
    VTNames,   \* vertex type names (Python str)
    Amounts,   \* vertex weights and increments callers pass
    MaxWeight  \* bound on a vertex weight, to keep increments finite

ASSUME /\ MaxV \in Nat \ {0}
       /\ Cardinality(VNames) <= MaxV
       /\ Pairs \subseteq BOOLEAN
       /\ Amounts \subseteq Nat /\ MaxWeight \in Nat

VARIABLES
    mapping,   \* mapping[n]: id of vertex name n, -1 if never mapped
    etypes,    \* etypes[n]: id of edge type name n, -1 if never created
    edges,     \* the set of <<etype, from, to>> in the graph
    vtypes,    \* vtypes[n]: id of vertex type name n, -1 if never created
    vtype,     \* vtype[v]: the type of vertex v
    vweight,   \* vweight[v]: the weight of vertex v
    stray      \* a vertex call reached the engine with an id outside 0..nv-1

vars == <<mapping, etypes, edges, vtypes, vtype, vweight, stray>>

VIds == 0 .. MaxV - 1
EIds == 0 .. Cardinality(ENames)
VTIds == 0 .. Cardinality(VTNames)

\* stinger_mapping_create: the id of n, mapped to the next free id if new.
\* Returns the id and the new mapping.
NextFree(m) == Cardinality({n \in DOMAIN m : m[n] >= 0})

CreateMapping(m, n) ==
    IF m[n] >= 0 THEN [id |-> m[n], map |-> m]
    ELSE [id |-> NextFree(m), map |-> [m EXCEPT ![n] = NextFree(m)]]

\* Python-side resolution: an int argument is used as is.
ResolveCreate(m, x) == IF x \in DOMAIN m THEN CreateMapping(m, x) ELSE [id |-> x, map |-> m]

\* get_mapping: stinger_mapping_lookup, -1 for an unknown name.
ResolveLookup(m, x) == IF x \in DOMAIN m THEN m[x] ELSE x

Init ==
    /\ mapping = [n \in VNames |-> -1]
    /\ etypes = [n \in ENames |-> -1]
    /\ edges = {}
    /\ vtypes = [n \in VTNames |-> -1]
    /\ vtype = [v \in VIds |-> 0]
    /\ vweight = [v \in VIds |-> 0]
    /\ stray = FALSE

(* insert_edge / increment_edge / insert_edge_pair / increment_edge_pair: *)
(* from is mapped before to, then the etype is created; the library call  *)
(* adds the edge (both directions for a pair).                            *)
Insert(vfrom, vto, etype, pair) ==
    LET f == ResolveCreate(mapping, vfrom)
        t == ResolveCreate(f.map, vto)
        e == ResolveCreate(etypes, etype)
    IN /\ mapping' = t.map
       /\ etypes' = e.map
       /\ edges' = edges \cup {<<e.id, f.id, t.id>>}
                         \cup (IF pair THEN {<<e.id, t.id, f.id>>} ELSE {})
       /\ UNCHANGED <<vtypes, vtype, vweight, stray>>

\* Mutant: remove_edge_pair strips only the from -> to direction.
RemoveOneWay(vfrom, vto, etype, pair) ==
    LET f == ResolveLookup(mapping, vfrom)
        t == ResolveLookup(mapping, vto)
        e == ResolveCreate(etypes, etype)
    IN /\ etypes' = e.map
       /\ edges' = IF f > 0 /\ t > 0 THEN edges \ {<<e.id, f, t>>} ELSE edges
       /\ UNCHANGED <<mapping, vtypes, vtype, vweight, stray>>

(* remove_edge / remove_edge_pair: vertices are looked up (-1 if unknown),  *)
(* the etype is created, and the library call is made only if both ids are *)
(* > 0.                                                                    *)
Remove(vfrom, vto, etype, pair) ==
    LET f == ResolveLookup(mapping, vfrom)
        t == ResolveLookup(mapping, vto)
        e == ResolveCreate(etypes, etype)
    IN /\ etypes' = e.map
       /\ edges' = IF f > 0 /\ t > 0
                   THEN edges \ {<<e.id, f, t>>, IF pair THEN <<e.id, t, f>> ELSE <<e.id, f, t>>}
                   ELSE edges
       /\ UNCHANGED <<mapping, vtypes, vtype, vweight, stray>>

(* Vertex setters: set_vtype, set_vweight, increment_vweight look the    *)
(* vertex up (-1 if unknown) and call the engine with no check on the id; *)
(* set_vtype creates the type of a str vtype first.  The engine writes    *)
(* vertex v's slot; an id outside 0..nv-1 is a write outside the vertex   *)
(* array, whose effect is not defined (recorded in stray).                *)
VertexCall(v, f, new) ==
    IF v \in VIds
    THEN /\ f' = [f EXCEPT ![v] = new]
         /\ UNCHANGED stray
    ELSE /\ stray' = TRUE
         /\ UNCHANGED f

SetVType(vtx, vt) ==
    LET v == ResolveLookup(mapping, vtx)
        t == ResolveCreate(vtypes, vt)
    IN /\ vtypes' = t.map
       /\ VertexCall(v, vtype, t.id)
       /\ UNCHANGED <<mapping, etypes, edges, vweight>>

SetVWeight(vtx, w) ==
    LET v == ResolveLookup(mapping, vtx)
    IN /\ VertexCall(v, vweight, w)
       /\ UNCHANGED <<mapping, etypes, edges, vtypes, vtype>>

IncrementVWeight(vtx, w) ==
    LET v == ResolveLookup(mapping, vtx)
    IN /\ v \in VIds => vweight[v] + w <= MaxWeight
       /\ VertexCall(v, vweight, IF v \in VIds THEN vweight[v] + w ELSE 0)
       /\ UNCHANGED <<mapping, etypes, edges, vtypes, vtype>>

Args == VNames \cup VIds

Next ==
    \/ \E vfrom, vto \in Args, etype \in ENames \cup {0}, pair \in Pairs :
          Insert(vfrom, vto, etype, pair) \/ Remove(vfrom, vto, etype, pair)
    \/ \E vtx \in Args, vt \in VTNames \cup {0} : SetVType(vtx, vt)
    \/ \E vtx \in Args, w \in Amounts : SetVWeight(vtx, w)
    \/ \E vtx \in Args, w \in Amounts : IncrementVWeight(vtx, w)

Spec == Init /\ [][Next]_vars

----------------------------------------------------------------------------
TypeOK ==
    /\ mapping \in [VNames -> VIds \cup {-1}]
    /\ etypes \in [ENames -> EIds \cup {-1}]
    /\ edges \subseteq EIds \X VIds \X VIds
    /\ vtypes \in [VTNames -> VTIds \cup {-1}]
    /\ vtype \in [VIds -> VTIds]
    /\ vweight \in [VIds -> 0..MaxWeight]
    /\ stray \in BOOLEAN

(* Undirected use: when callers only use insert_edge_pair,               *)
(* increment_edge_pair and remove_edge_pair, the graph stays symmetric:    *)
(* every edge from -> to has its to -> from twin of the same type, through *)
(* name creation order, the etype creation of removals and skipped calls.  *)
PairSymmetric ==
    (Pairs = {TRUE}) => \A <<e, f, t>> \in edges : <<e, t, f>> \in edges

(* After remove_edge(u, v, t) of vertices that exist, the edge <<t, u, v>> *)
(* is gone (and <<t, v, u>> too for remove_edge_pair), whatever their ids. *)
RemoveDeletesEdge ==
    [][\A vfrom, vto \in Args, etype \in ENames \cup {0}, pair \in Pairs :
         LET f == ResolveLookup(mapping, vfrom)
             t == ResolveLookup(mapping, vto)
             e == ResolveCreate(etypes, etype).id
         IN (Remove(vfrom, vto, etype, pair) /\ f >= 0 /\ t >= 0)
              => /\ <<e, f, t>> \notin edges'
                 /\ pair => <<e, t, f>> \notin edges']_vars

(* Name resolution on write paths (spec 7): a vertex update by a name     *)
(* that is not mapped never reaches the engine as an id outside the        *)
(* vertex range, as remove_edge ensures with its id check.                 *)
NoStrayVertexWrite == ~stray

============================================================================
