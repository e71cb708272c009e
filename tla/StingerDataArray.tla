-------------------------- MODULE StingerDataArray --------------------------
(***************************************************************************)
(* StingerDataArray of stinger_net.py: a typed view of one field of an    *)
(* algorithm's per-vertex data blob.  The descriptor "<tags> <name> ..."   *)
(* gives one type tag per field; fields are stored column by column, each  *)
(* a block of nv elements, so a field starts at nv times the sum of the    *)
(* widths of the tags before it.  __getitem__ / __setitem__ resolve a str  *)
(* index through the name mapping and treat a negative index as absent.   *)
(*                                                                         *)
(* Memory is modelled byte by byte, little-endian, as the ctypes casts   *)
(* see it: an integer store writes its two's complement bytes, a 'd' or 'f' *)
(* store the bytes of its IEEE-754 encoding, and a read decodes the bytes *)
(* at its address whatever stored them.  Garbage is a decoded value no    *)
(* caller of the model stores.  Addresses below 0 and from BlobSize on    *)
(* belong to other allocations.                                            *)
(***************************************************************************)
EXTENDS Integers, Sequences, SequencesExt

CONSTANTS
    NV,            \* stinger_alg_max_vertices: elements per field
    FieldNames,    \* field names that may appear in a descriptor
    MaxFields,     \* bound: tags / names in one descriptor
    VertexNames,   \* str indices
    Mapping,       \* get_mapping: VertexNames -> vertex id, -1 if unknown
    Indices,       \* int indices a caller passes
    Values,        \* values a caller stores
    Factors,       \* weights a caller passes to weight_double (2)
    MaxValue,      \* bound: weight_double only while values stay below it
    Scalable,      \* tags of the views a caller scales
    Garbage        \* the value of bytes that are not one store of the type

ASSUME /\ NV \in Nat \ {0}
       /\ MaxFields \in Nat \ {0}
       /\ Mapping \in [VertexNames -> Int]
       /\ Indices \subseteq Int
       /\ Values \subseteq 0 .. 2^20 - 1 /\ MaxValue \in 0 .. 2^20 - 1
       /\ Factors \subseteq {2}
       /\ Garbage \notin Int

Tags == {"d", "f", "l", "i", "b"}

\* Mutant: 'l' counted as 4 bytes, like 'i'.
WidthLongAsInt(c) == IF c = "d" THEN 8
                     ELSE IF c = "f" \/ c = "i" \/ c = "l" THEN 4
                     ELSE 1

\* The element width of a tag, as the list comprehension of __init__.
Width(c) == IF c = "d" \/ c = "l" THEN 8
            ELSE IF c = "f" \/ c = "i" THEN 4
            ELSE 1

\* functools.reduce(+, [Width(c) for c in tags[:index]], 0)
Offset(tags, index) ==
    FoldLeft(LAMBDA x, y : x + y, 0, [k \in 1..index |-> Width(tags[k])])

\* The bytes of integer k in w bytes, two's complement (|k| < 2^23).
IntBytes(k, w) == [o \in 0..w-1 |-> IF o >= 3 THEN (IF k >= 0 THEN 0 ELSE 255)
                                     ELSE ((k % 2^24) \div 256^o) % 256]

Log2(v) == CHOOSE e \in 0..20 : 2^e <= v /\ v < 2^(e + 1)

\* IEEE-754 binary64 / binary32 bytes of an integer v in 0 .. 2^20-1.
DoubleBytes(v) ==
    IF v = 0 THEN [o \in 0..7 |-> 0]
    ELSE LET e == Log2(v)
             E == 1023 + e
             F == (v - 2^e) * 2^(20 - e)   \* the top 20 of 52 mantissa bits
         IN [o \in 0..7 |-> CASE o = 7 -> E \div 16
                             [] o = 6 -> (E % 16) * 16 + F \div 65536
                             [] o = 5 -> (F \div 256) % 256
                             [] o = 4 -> F % 256
                             [] OTHER -> 0]

FloatBytes(v) ==
    IF v = 0 THEN [o \in 0..3 |-> 0]
    ELSE LET e == Log2(v)
             E == 127 + e
             M == (v - 2^e) * 2^(23 - e)
         IN [o \in 0..3 |-> CASE o = 3 -> E \div 2
                             [] o = 2 -> (E % 2) * 128 + M \div 65536
                             [] o = 1 -> (M \div 256) % 256
                             [] OTHER -> M % 256]

\* The bytes data[i] = k writes through a ctypes pointer of tag c; c_int8
\* keeps only the low byte.
Stored(c, k) == CASE c = "d" -> DoubleBytes(k)
                  [] c = "f" -> FloatBytes(k)
                  [] OTHER   -> IntBytes(k, Width(c))

Descriptors == UNION { [tags : [1..m -> Tags], names : [1..n -> FieldNames]] :
                         m, n \in 1..MaxFields }

BlobSize(d) == NV * Offset(d.tags, Len(d.tags))

Addr == -8 .. NV * 8 * MaxFields + 8

VARIABLES
    desc,     \* the algorithm's data description
    views,    \* StingerDataArray objects built so far: [field, type, data]
    mem,      \* mem[a]: the byte at address a
    lastSet,  \* what the last __setitem__ did (ghost of its return value)
    lastGet,  \* what the last __getitem__ returned
    expected  \* ghost: expected[f][j] = value last given to set(j) on field f

vars == <<desc, views, mem, lastSet, lastGet, expected>>

\* A ctypes integer read: sign-extended little-endian bytes.
IntValue(bs, w) ==
    LET low == bs[0] + (IF w > 1 THEN 256 * bs[1] ELSE 0)
                     + (IF w > 2 THEN 65536 * bs[2] ELSE 0)
    IN CASE w <= 3 -> IF bs[w - 1] >= 128 THEN low - 256^w ELSE low
         [] \A o \in 3..w-1 : bs[o] = 0   -> low
         [] \A o \in 3..w-1 : bs[o] = 255 -> low - 2^24
         [] OTHER -> Garbage

Decodable == Values \cup 0..MaxValue

\* data[i] through a pointer of tag c: the bytes at a, decoded.
Read(a, c) ==
    LET bs == [o \in 0..Width(c)-1 |-> mem[a + o]]
    IN IF c \in {"d", "f"}
       THEN IF \E v \in Decodable : Stored(c, v) = bs
            THEN CHOOSE v \in Decodable : Stored(c, v) = bs ELSE Garbage
       ELSE IntValue(bs, Width(c))

Store(a, c, v) ==
    [x \in Addr |-> IF x \in a .. a + Width(c) - 1 THEN Stored(c, v)[x - a] ELSE mem[x]]

\* isinstance(i, str) -> get_mapping(i)
Resolve(i) == IF i \in VertexNames THEN Mapping[i] ELSE i

Element(v, j) == v.data + j * Width(v.type)

----------------------------------------------------------------------------
Init ==
    /\ desc \in Descriptors
    /\ views = {}
    /\ mem = [a \in Addr |-> 0]
    /\ lastSet = [ret |-> 0]
    /\ lastGet = [field |-> "none", i |-> 0, val |-> 0]
    /\ expected = [f \in FieldNames |-> [j \in 0..NV-1 |-> 0]]

(* __init__: names.index(field) raises ValueError for an absent field and  *)
(* tags[field_index] raises IndexError when the tag string is shorter;     *)
(* either way no view exists.  Otherwise the pointer is the blob plus      *)
(* offset * nv, cast to the tag's type.                                    *)
Construct(f) ==
    LET idx == CHOOSE k \in DOMAIN desc.names : desc.names[k] = f
                                     /\ \A l \in 1..k-1 : desc.names[l] # f
    IN /\ \E k \in DOMAIN desc.names : desc.names[k] = f
       /\ idx <= Len(desc.tags)
       /\ views' = views \cup {[field |-> f, type |-> desc.tags[idx],
                                data |-> Offset(desc.tags, idx - 1) * NV]}
       /\ UNCHANGED <<desc, mem, lastSet, lastGet, expected>>

\* Mutant: vertex 0 treated as absent.
GetItemSkipsZero(v, i) ==
    LET j == Resolve(i)
    IN /\ lastGet' = [field |-> v.field, i |-> j,
                      val |-> IF j > 0 THEN Read(Element(v, j), v.type) ELSE 0]
       /\ UNCHANGED <<desc, views, mem, lastSet, expected>>

(* __getitem__: data[i] if i >= 0, else 0; no upper bound is checked.     *)
GetItem(v, i) ==
    LET j == Resolve(i)
    IN /\ lastGet' = [field |-> v.field, i |-> j,
                      val |-> IF j >= 0 THEN Read(Element(v, j), v.type) ELSE 0]
       /\ UNCHANGED <<desc, views, mem, lastSet, expected>>

\* Mutant: an absent index returns -1 instead of 0.
SetItemReturnsMinusOne(v, i, k) ==
    LET j == Resolve(i)
    IN IF j >= 0
       THEN /\ mem' = Store(Element(v, j), v.type, k)
            /\ lastSet' = [ret |-> k]
            /\ expected' = IF j < NV THEN [expected EXCEPT ![v.field][j] = k]
                           ELSE expected
            /\ UNCHANGED <<desc, views, lastGet>>
       ELSE /\ lastSet' = [ret |-> -1]
            /\ UNCHANGED <<desc, views, mem, lastGet, expected>>

(* __setitem__: data[i] = k and return k if i >= 0, else return 0.        *)
SetItem(v, i, k) ==
    LET j == Resolve(i)
    IN IF j >= 0
       THEN /\ mem' = Store(Element(v, j), v.type, k)
            /\ lastSet' = [ret |-> k]
            /\ expected' = IF j < NV THEN [expected EXCEPT ![v.field][j] = k]
                           ELSE expected
            /\ UNCHANGED <<desc, views, lastGet>>
       ELSE /\ lastSet' = [ret |-> 0]
            /\ UNCHANGED <<desc, views, mem, lastGet, expected>>

(* weight_double: stinger_alg_weight_double(S, double *field, weight)    *)
(* multiplies field[j] for j < nv as doubles; the wrapper passes the view  *)
(* pointer whatever its tag, so the 8-byte cells from the view's start are *)
(* doubled as IEEE-754 values.  Doubling is exact: a normal value's       *)
(* exponent goes up by one (to infinity past the largest), a subnormal's  *)
(* bits shift left by one; infinities and NaNs stay.  Small integers read  *)
(* as subnormals, so integer bytes are doubled as integers.               *)
DoubleCell(cb) ==
    LET sign == cb[7] \div 128
        E    == (cb[7] % 128) * 16 + cb[6] \div 16
        E2   == E + 1
    IN CASE E = 0 ->
              [o \in 0..7 |-> IF o = 7 THEN sign * 128 + (cb[6] \div 128)
                              ELSE ((2 * cb[o]) % 256) + (IF o = 0 THEN 0 ELSE cb[o - 1] \div 128)]
         [] E = 2047 -> cb
         [] OTHER ->
              [o \in 0..7 |-> CASE o = 7 -> sign * 128 + E2 \div 16
                              [] o = 6 -> (E2 % 16) * 16 + (IF E2 = 2047 THEN 0 ELSE cb[6] % 16)
                              [] OTHER -> IF E2 = 2047 THEN 0 ELSE cb[o]]

(* The spec's contract (4.4) for the caller's ghost: every element of the *)
(* view is multiplied.                                                     *)
WeightDouble(v, k) ==
    /\ \A j \in 0..NV-1 : expected[v.field][j] * k \in 0..MaxValue
    /\ mem' = [x \in Addr |->
                 LET a == v.data + 8 * ((x - v.data) \div 8)
                 IN IF x \in v.data .. v.data + 8 * NV - 1
                    THEN DoubleCell([o \in 0..7 |-> mem[a + o]])[x - a]
                    ELSE mem[x]]
    /\ expected' = [expected EXCEPT ![v.field] = [j \in 0..NV-1 |-> @[j] * k]]
    /\ UNCHANGED <<desc, views, lastSet, lastGet>>

Next ==
    \/ \E f \in FieldNames : Construct(f)
    \/ \E v \in views, i \in Indices \cup VertexNames : GetItem(v, i)
    \/ \E v \in views, i \in Indices \cup VertexNames, k \in Values : SetItem(v, i, k)
    \/ \E v \in views, k \in Factors : v.type \in Scalable /\ WeightDouble(v, k)

Spec == Init /\ [][Next]_vars

----------------------------------------------------------------------------
\* Reference definition of a field's offset (spec 3): the byte widths of
\* the tags, and their recursive sum over the fields before it.
TagBytes == [d |-> 8, f |-> 4, l |-> 8, i |-> 4, b |-> 1]
RECURSIVE WidthSum(_)
WidthSum(s) == IF s = <<>> THEN 0 ELSE TagBytes[Head(s)] + WidthSum(Tail(s))

TypeOK ==
    /\ desc \in Descriptors
    /\ \A v \in views : v.field \in FieldNames /\ v.type \in Tags /\ v.data \in Nat
    /\ mem \in [Addr -> 0..255]
    /\ expected \in [FieldNames -> [0..NV-1 -> 0..MaxValue]]
    /\ lastSet.ret \in Values \cup {0}

(* Offset law (spec 8): every view of field number k starts nv times the   *)
(* widths of fields 1..k-1 into the blob, and its nv elements end inside  *)
(* the blob.                                                               *)
OffsetLaw ==
    \A v \in views :
        \E k \in 1..Len(desc.tags) :
            /\ k <= Len(desc.names) /\ desc.names[k] = v.field
            /\ \A l \in 1..k-1 : desc.names[l] # v.field
            /\ v.type = desc.tags[k]
            /\ v.data = NV * WidthSum(SubSeq(desc.tags, 1, k - 1))
            /\ v.data + NV * TagBytes[v.type] <= NV * WidthSum(desc.tags)

(* Columnar layout: the last __getitem__ of vertex j (0 <= j < nv) through *)
(* any view of field f returned the value last given to __setitem__ for j *)
(* through any view of f, and 0 for a negative or unknown index; sets of   *)
(* other fields or other vertices never disturb it.                        *)
GetReturnsLastSet ==
    [][\A v \in views, i \in Indices \cup VertexNames :
         GetItem(v, i) =>
            IF lastGet'.i < 0 THEN lastGet'.val = 0
            ELSE lastGet'.i < NV => lastGet'.val = expected[v.field][lastGet'.i]]_vars

============================================================================
