--------------------------- MODULE StingerStream ---------------------------
(***************************************************************************)
(* The client-side update batch of stinger_net.py: class StingerStream.   *)
(* Three ctypes arrays (insertions, deletions, vertex_updates) each with a  *)
(* Python-side size, a logical count and a list of retained old arrays     *)
(* (the *_refs lists).  A full array is replaced by one twice as large and *)
(* the old records are memmove'd into it.  send_batch hands the arrays to  *)
(* the server and resets counts and refs, but not the array contents.      *)
(*                                                                         *)
(* Data abstraction: a vertex or type argument is a model value (a Python  *)
(* str) or a small integer; a char* field holds NULL, a pointer to a       *)
(* string owned by one ctypes array generation, or Wild (c_char_p applied  *)
(* to an integer, which ctypes takes as a raw address).  Edge weight and   *)
(* timestamp are plain int64 copies and are left out.                      *)
(***************************************************************************)
EXTENDS Naturals, Sequences, Functions

CONSTANTS
    Names,       \* vertex names (Python str)
    Ids,         \* vertex ids (Python int)
    TypeNames,   \* edge / vertex type names (Python str)
    TypeIds,     \* edge / vertex type ids (Python int)
    Weights,     \* vertex weight and increment arguments
    InitSize,    \* initial array size (5000 in the code)
    MaxPending,  \* MaxPending[b]: bound on records pending in array b (0: unused)
    NULL,        \* the null char* (0)
    Wild,        \* a char* made from an integer address
    None,        \* Python None, the default of insert_strings
    TrueDivision \* Python 3: '/' of two ints is a float

ASSUME /\ InitSize \in Nat \ {0}
       /\ Ids \cup TypeIds \subseteq Nat
       /\ {NULL, Wild, None} \cap (Names \cup TypeNames) = {}
       /\ TrueDivision \in BOOLEAN

Buffers == {"insertions", "deletions", "vertex_updates"}
ASSUME MaxPending \in [Buffers -> Nat]
EdgeBuffers == {"insertions", "deletions"}

VARIABLES
    buf,           \* buf[b]: [arr, size, count, gen, refs] of array b
    only_strings,  \* self.only_strings, sticky across calls
    log            \* ghost: log[b][k] = the k-th successful add since send

vars == <<buf, only_strings, log>>

(* Generations an array of size InitSize can reach below MaxPending.      *)
MaxGen == CHOOSE m \in Range(MaxPending) : \A b \in Buffers : MaxPending[b] <= m

StrPtrs == [s : Names \cup TypeNames, buf : Buffers, gen : 0..MaxGen]
Ptrs == StrPtrs \cup {NULL, Wild}

\* A zero-initialised ctypes StingerEdgeUpdate / StingerVertexUpdate.
ZeroEdge == [etype |-> 0, etype_str |-> NULL, source |-> 0, source_str |-> NULL,
             destination |-> 0, destination_str |-> NULL]
ZeroVertex == [vertex |-> 0, vertex_str |-> NULL, type |-> 0, type_str |-> NULL,
               set_weight |-> 0, incr_weight |-> 0]
Zero(b) == IF b \in EdgeBuffers THEN ZeroEdge ELSE ZeroVertex

IsName(x) == x \in Names \cup TypeNames

\* ctypes.c_char_p(x) stored into array generation g of buffer b: the array
\* keeps the str alive; an int is taken as an address.
CharP(x, b, g) == IF IsName(x) THEN [s |-> x, buf |-> b, gen |-> g] ELSE Wild

----------------------------------------------------------------------------
(* Growth: size doubles, a zeroed array of the new size receives a         *)
(* memmove of sizeof(Update * (size / 2)) bytes, the old array is kept in  *)
(* the refs list.  Python 2 '/' on ints is floor division.                 *)
\* Mutant: a memmove one record short.
CopyLenShort(newSize) == newSize \div 2 - 1

CopyLen(newSize) == newSize \div 2

\* Mutant: the old array is not appended to the refs list.
GrowIfFullNoRetain(b, bs) ==
    IF bs.count >= bs.size
    THEN LET newSize == bs.size * 2
         IN [bs EXCEPT !.size = newSize,
                       !.arr  = [k \in 1..newSize |->
                                   IF k <= CopyLen(newSize) THEN bs.arr[k]
                                   ELSE Zero(b)],
                       !.gen  = bs.gen + 1]
    ELSE bs

GrowIfFull(b, bs) ==
    IF bs.count >= bs.size
    THEN LET newSize == bs.size * 2
         IN [bs EXCEPT !.size = newSize,
                       !.arr  = [k \in 1..newSize |->
                                   IF k <= CopyLen(newSize) THEN bs.arr[k]
                                   ELSE Zero(b)],
                       !.refs = Append(bs.refs, bs.gen),
                       !.gen  = bs.gen + 1]
    ELSE bs

SetType(r, field, strField, t, b, g) ==
    IF IsName(t) THEN [r EXCEPT ![strField] = CharP(t, b, g)]
    ELSE [r EXCEPT ![field] = t]

(* The body of add_insert / add_delete after growth: writes the endpoint   *)
(* fields in the order of the code; c_int64(str) raises TypeError, leaving *)
(* the fields written so far and the count unchanged.                      *)
EdgeWrite(r, vfrom, vto, etype, strings, b, g) ==
    LET r1 == [r EXCEPT !.source_str = NULL, !.destination_str = NULL]
        r2 == [r1 EXCEPT !.source = vfrom]
        Done(x) == [ok |-> TRUE, rec |-> SetType(x, "etype", "etype_str", etype, b, g)]
    IN CASE strings ->
              Done([r EXCEPT !.source_str = CharP(vfrom, b, g),
                             !.destination_str = CharP(vto, b, g)])
         [] IsName(vfrom) -> [ok |-> FALSE, rec |-> r1]
         [] IsName(vto)   -> [ok |-> FALSE, rec |-> r2]
         [] OTHER         -> Done([r2 EXCEPT !.destination = vto])

(* add_vertex_update: 'weight' is not a field of StingerVertexUpdate, so   *)
(* the assignment to .weight sets an attribute of a temporary Python       *)
(* object and set_weight is never written.                                 *)
VertexWrite(r, vtx, vtype, incr, strings, b, g) ==
    LET Done(x) == [ok |-> TRUE,
                    rec |-> [SetType(x, "type", "type_str", vtype, b, g)
                               EXCEPT !.incr_weight = incr]]
    IN CASE strings      -> Done([r EXCEPT !.vertex_str = CharP(vtx, b, g)])
         [] IsName(vtx)  -> [ok |-> FALSE, rec |-> r]
         [] OTHER        -> Done([r EXCEPT !.vertex = vtx, !.vertex_str = NULL])

\* Store the write result in slot count of the (grown) array and log it.
Commit(b, bs, res, entry) ==
    /\ buf' = [buf EXCEPT ![b] =
                 [bs EXCEPT !.arr[bs.count + 1] = res.rec,
                            !.count = @ + (IF res.ok THEN 1 ELSE 0)]]
    /\ log' = IF res.ok
              THEN [log EXCEPT ![b] = Append(@, [entry EXCEPT !.rec = res.rec])]
              ELSE log

----------------------------------------------------------------------------
Init ==
    /\ buf = [b \in Buffers |->
                [arr |-> [k \in 1..InitSize |-> Zero(b)], size |-> InitSize,
                 count |-> 0, gen |-> 0, refs |-> <<>>]]
    /\ only_strings \in BOOLEAN
    /\ log = [b \in Buffers |-> <<>>]

Refs == Names \cup Ids

(* An add that raises before it writes its slot.  Under Python 3 the     *)
(* memmove length sizeof(Update * (size / 2)) is a float and the array type *)
(* constructor raises TypeError, after size was doubled and the old array  *)
(* appended to refs but before the new array replaced it.  A later add     *)
(* then finds count < size and indexes past the array: IndexError.         *)
GrowthRaises(b) == TrueDivision /\ buf[b].count >= buf[b].size
SlotMissing(b) == buf[b].count < buf[b].size /\ buf[b].count >= Len(buf[b].arr)

AddRaises(b) ==
    /\ \/ /\ GrowthRaises(b)
          /\ buf' = [buf EXCEPT ![b].size = @ * 2, ![b].refs = Append(@, buf[b].gen)]
       \/ /\ SlotMissing(b)
          /\ UNCHANGED buf
    /\ UNCHANGED log

AddEdge(b, vfrom, vto, etype, strings) ==
    \/ AddRaises(b)
    \/ /\ ~GrowthRaises(b) /\ ~SlotMissing(b)
       /\ LET bs == GrowIfFull(b, buf[b])
          IN Commit(b, bs, EdgeWrite(bs.arr[bs.count + 1], vfrom, vto, etype, strings, b, bs.gen),
                    [vfrom |-> vfrom, vto |-> vto, type |-> etype, strings |-> strings,
                     rec |-> ZeroEdge])

AddInsert(vfrom, vto, etype, insert_strings) ==
    LET mode == IF insert_strings = None THEN only_strings ELSE insert_strings
    IN /\ buf["insertions"].count < MaxPending["insertions"]
       /\ only_strings' = mode
       /\ AddEdge("insertions", vfrom, vto, etype, mode)

AddDelete(vfrom, vto, etype) ==
    /\ buf["deletions"].count < MaxPending["deletions"]
    /\ AddEdge("deletions", vfrom, vto, etype, only_strings)
    /\ UNCHANGED only_strings

AddVertexUpdate(vtx, vtype, weight, incr) ==
    LET b  == "vertex_updates"
        bs == GrowIfFull(b, buf[b])
    IN /\ buf[b].count < MaxPending[b]
       /\ \/ AddRaises(b)
          \/ /\ ~GrowthRaises(b) /\ ~SlotMissing(b)
             /\ Commit(b, bs, VertexWrite(bs.arr[bs.count + 1], vtx, vtype, incr, only_strings, b, bs.gen),
                       [vtx |-> vtx, type |-> vtype, weight |-> weight, incr |-> incr,
                        strings |-> only_strings, rec |-> ZeroVertex])
       /\ UNCHANGED only_strings

(* send_batch: the library call blocks until the server has processed the *)
(* batch; its return value is ignored.  Counts and refs are reset; the     *)
(* arrays and their (now stale) records are kept for reuse.                *)
SendBatch ==
    /\ buf' = [b \in Buffers |-> [buf[b] EXCEPT !.count = 0, !.refs = <<>>]]
    /\ log' = [b \in Buffers |-> <<>>]
    /\ UNCHANGED only_strings

Next ==
    \/ \E vfrom, vto \in Refs, etype \in TypeNames \cup TypeIds,
          s \in {None, TRUE, FALSE} : AddInsert(vfrom, vto, etype, s)
    \/ \E vfrom, vto \in Refs, etype \in TypeNames \cup TypeIds :
          AddDelete(vfrom, vto, etype)
    \/ \E vtx \in Refs, vtype \in TypeNames \cup TypeIds, w, i \in Weights :
          AddVertexUpdate(vtx, vtype, w, i)
    \/ SendBatch

Spec == Init /\ [][Next]_vars

(* The calling contract of the docstrings: vertices are given in the      *)
(* representation of the mode the call runs in (str names when strings,  *)
(* int ids otherwise), and types are ints (':type etype: int',           *)
(* ':type vtype: int').  insert_strings is a per-call choice of how that  *)
(* call's vertex arguments are read, at any point of a batch.              *)
ModeRefs(strings) == IF strings THEN Names ELSE Ids

ContractNext ==
    \/ \E s \in {None, TRUE, FALSE} :
          \E vfrom, vto \in ModeRefs(IF s = None THEN only_strings ELSE s), etype \in TypeIds :
             AddInsert(vfrom, vto, etype, s)
    \/ \E vfrom, vto \in ModeRefs(only_strings), etype \in TypeIds : AddDelete(vfrom, vto, etype)
    \/ \E vtx \in ModeRefs(only_strings), vtype \in TypeIds, w, i \in Weights :
          AddVertexUpdate(vtx, vtype, w, i)
    \/ SendBatch

ContractSpec == Init /\ [][ContractNext]_vars

----------------------------------------------------------------------------
Pending(b) == SubSeq(buf[b].arr, 1, buf[b].count)

Alive(p) == p.gen = buf[p.buf].gen \/ p.gen \in Range(buf[p.buf].refs)

\* The char* fields an add call assigned, by its mode and argument types.
WrittenPtrs(b, e, r) ==
    IF b \in EdgeBuffers
    THEN (IF e.strings THEN {r.source_str, r.destination_str} ELSE {})
         \cup (IF IsName(e.type) THEN {r.etype_str} ELSE {})
    ELSE (IF e.strings THEN {r.vertex_str} ELSE {})
         \cup (IF IsName(e.type) THEN {r.type_str} ELSE {})

AllPtrs(b, r) ==
    IF b \in EdgeBuffers THEN {r.etype_str, r.source_str, r.destination_str}
    ELSE {r.vertex_str, r.type_str}

\* What the server reads for an endpoint, given the only_strings flag of
\* the batch, and for a type: the name if the char* is set, else the id.
DecodeRef(i, p) == IF only_strings THEN (IF p \in StrPtrs THEN p.s ELSE p) ELSE i
DecodeType(i, p) == IF p \in StrPtrs THEN p.s ELSE i

\* The batch as the server reads it: each pending record decoded.
DecodeRecord(b, r) ==
    IF b \in EdgeBuffers
    THEN <<DecodeRef(r.source, r.source_str), DecodeRef(r.destination, r.destination_str),
           DecodeType(r.etype, r.etype_str)>>
    ELSE <<DecodeRef(r.vertex, r.vertex_str), DecodeType(r.type, r.type_str)>>

ServerView == [b \in Buffers |-> [k \in 1..buf[b].count |-> DecodeRecord(b, buf[b].arr[k])]]

Abs == INSTANCE UpdateBatch WITH batch <- ServerView, VRefs <- Names \cup Ids,
                                 TRefs <- TypeNames \cup TypeIds

TypeOK ==
    /\ only_strings \in BOOLEAN
    /\ \A b \in Buffers :
         /\ buf[b].size \in Nat \ {0}
         /\ buf[b].count \in 0..MaxPending[b]
         /\ buf[b].gen \in 0..MaxGen
         /\ buf[b].refs \in Seq(0..MaxGen)
         /\ \A k \in DOMAIN buf[b].arr :
              buf[b].arr[k] \in
                IF b \in EdgeBuffers
                THEN [etype : TypeIds \cup {0}, etype_str : Ptrs,
                      source : Ids \cup {0}, source_str : Ptrs,
                      destination : Ids \cup {0}, destination_str : Ptrs]
                ELSE [vertex : Ids \cup {0}, vertex_str : Ptrs,
                      type : TypeIds \cup {0}, type_str : Ptrs,
                      set_weight : Weights \cup {0}, incr_weight : Weights \cup {0}]
         /\ Len(log[b]) <= MaxPending[b]

(* Growth preserves records: the count equals the number of successful    *)
(* add_* calls since the last send_batch, and every pending slot still     *)
(* holds exactly the record its call wrote, through any number of          *)
(* doublings and memmoves (add_* growth branch, send_batch reset).         *)
PendingPreservesAdds ==
    \A b \in Buffers :
        /\ buf[b].count = Len(log[b])
        /\ \A k \in 1..Len(log[b]) :
             k \in DOMAIN buf[b].arr /\ buf[b].arr[k] = log[b][k].rec

(* Retention: every string an add call stored into a still-pending record  *)
(* is owned by an array the stream keeps alive (the current one or one in  *)
(* the *_refs list), also after the record was memmove'd into a larger     *)
(* array; this is what the refs lists are for.                             *)
WrittenStringsAlive ==
    \A b \in Buffers : \A k \in 1..Len(log[b]) :
        \A p \in WrittenPtrs(b, log[b][k], log[b][k].rec) \cap StrPtrs : Alive(p)

(* Refinement (spec 4.1, 4.2): under the calling contract, what the      *)
(* server would read from the stream is an UpdateBatch: every add appends  *)
(* exactly the record it was given and leaves the earlier ones as they    *)
(* were, and send_batch empties the batch, through growth, memmove, the   *)
(* reuse of slots after a send and a per-call insert_strings.  only_strings *)
(* is one flag for the whole batch, so a switch re-reads every pending    *)
(* record under the new mode.                                              *)
ImplementsUpdateBatch == Abs!Spec

(* Each pending edge record carries the edge type its call was given: an  *)
(* int etype must not be shadowed by an etype_str left in a reused slot.  *)
ETypeDecodesAsGiven ==
    \A b \in EdgeBuffers : \A k \in 1..Len(log[b]) :
        DecodeType(buf[b].arr[k].etype, buf[b].arr[k].etype_str) = log[b][k].type

(* Each pending vertex update carries the weight given to                 *)
(* add_vertex_update in its set_weight field.                             *)
VertexWeightDelivered ==
    \A k \in 1..Len(log["vertex_updates"]) :
        buf["vertex_updates"].arr[k].set_weight = log["vertex_updates"][k].weight

============================================================================
