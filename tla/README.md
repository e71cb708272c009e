# TLA+ models of the STINGER Python bindings

This directory holds TLA+ specifications of the Python wrapper in
`src/src/py/stinger/`, the TLC configurations that check them, and
`PROJECT.json`. `PROJECT.json` lists the components, the runs, the mutants, the
definition-to-source map, the findings and the hazards.

## The system

The repository is a ctypes binding to the STINGER graph library and its
network server. The C code is not part of the repository. It is seen only
through the calls the wrapper makes.

| File | Part | State the Python side owns |
|---|---|---|
| `stinger_net.py` | `StingerStream` | Three growable ctypes arrays of update records (insertions, deletions, vertex updates), their counts and sizes, the `*_refs` lists that keep replaced arrays alive, and the sticky `only_strings` flag. `send_batch` hands all three to the server in one blocking call. |
| `stinger_net.py` | `StingerDataArray` | A typed pointer into one field of an algorithm's per-vertex data blob. The descriptor `"<tags> <name>..."` fixes the column layout. |
| `stinger_net.py` | `StingerAlg`, `StingerAlgState`, `StingerMon` | Thin wrappers over server calls: the phase protocol (begin/end init, pre, post), the monitor read lock and `wait_for_sync`. They keep no state; the order of the calls is the caller's. |
| `stinger_core.py` | `Stinger` | A handle on a graph. Edge insert, increment and remove calls resolve str names first: inserts create mappings, removes look them up, and every call creates a str etype. The vertex type and weight setters look the vertex up and create a str vtype. |
| `stinger_alg.py` | Streamed connected components wrappers | None of their own: each passes a `StingerSccInternal` (the library's component array and work arrays) and an edge batch to one library call. |

How the parts interact:
- A client fills a `StingerStream` batch and sends it to the server, which applies it to the graph.
- An algorithm process reads the result through `StingerDataArray` views, which `StingerAlg.get_alg_data` and `StingerAlgState.get_data_array` build.
- Vertex names in a batch or a data-array index are resolved by the same name mapping that `Stinger.create_mapping` / `get_mapping` expose.
- A monitor reads the graph (`Stinger.edges_of`) between `get_read_lock` and `release_read_lock`, while the server applies batches outside the lock.
- The server runs rounds: algorithms run `pre` in dependency order, the batch is applied under the write lock, then algorithms run `post`. A monitor's read lock keeps the batch from being applied. The server is not in the repository; it is modelled from `spec.md` (4.3, 4.5, 5).

## Modules

### `StingerStream` (+ `MC_StingerStream`)

State:
- `buf[b]` models one buffer `b`: the record array `arr`, `size`, `count`, the array generation `gen`, and `refs`, the generations kept alive by `*_refs`.
- `only_strings` is the sticky flag.
- `log` is a ghost variable. It holds the arguments and resulting record of every accepted add since the last send.

A `char*` field is either:
- `NULL`;
- `Wild`, which is what `c_char_p(int)` gives: an int taken as an address;
- a record naming the str and the array generation that keeps it alive.

Actions:
- `AddInsert`, `AddDelete` and `AddVertexUpdate` each model a whole `add_*` method:
  - growth (`GrowIfFull`: doubling, a memmove of `CopyLen` records, the old array appended to refs);
  - the field writes in code order (`EdgeWrite`, `VertexWrite`, `SetType`);
  - the `TypeError` that `c_int64(str)` raises part-way, which leaves the slot half written and the count unchanged;
  - the count increment (`Commit`).
- `SendBatch` models `send_batch`. It resets counts and refs and keeps the arrays and their records for reuse.

`add_vertex_update` assigns `.weight`, which is not a field (the field is `set_weight`). The model therefore never writes `set_weight`.

Two consequences of the code are not run, to keep the number of runs small; both follow from the modelled steps:
- the stale `etype_str` of a reused slot can point into an array whose refs entry `send_batch` dropped;
- an int given in strings mode is stored as `c_char_p(int)`, a wild pointer.

The constant `TrueDivision` selects Python 3's `/`. With it, the memmove length `sizeof(Update * (size / 2))` is a float, and the growth raises `TypeError` after `size` was doubled and the old array was appended to refs. The array keeps its old length, and later adds index past it and raise `IndexError`. `GrowthRaises`, `SlotMissing` and `AddRaises` model this. The code is Python 2: `stinger_alg.py` uses an implicit relative import, and strings mode needs `c_char_p` of a str, which Python 3 refuses. Every run therefore sets `TrueDivision` to FALSE. The Python 3 path is kept for a port, but its other Python 3 failures are not modelled.


### `StingerDataArray` (+ `MC_StingerDataArray`)

The blob is modelled byte by byte, little-endian, as `mem[a] \in 0..255`:
- a store writes the bytes of its value (`Stored`): two's complement for `l`, `i` and `b` (`IntBytes`; `c_int8` keeps only the low byte), and IEEE-754 binary64 or binary32 for `d` and `f` (`DoubleBytes`, `FloatBytes`);
- a read decodes the bytes at its address, whatever stored them (`Read`, `IntValue`). A `d` or `f` pattern that is not the encoding of a value in `Decodable` reads as `Garbage`.

Actions:
- `Construct(f)` is `__init__`. It covers `names.index` failing, a tag string that is too short, the offset `reduce` (`Offset`, a `FoldLeft`), and the cast.
- `GetItem` and `SetItem` are `__getitem__` and `__setitem__`. They resolve str indices through the name mapping (`Resolve`), treat a negative index as absent, and apply no upper bound.
- `WeightDouble(v, k)` is `weight_double`. The wrapper passes `self.data` whatever the view's tag, and the library routine doubles `nv` 8-byte cells from it as IEEE doubles. `DoubleCell` is that doubling on the bytes, and it is exact: a normal value's exponent goes up by one, and a subnormal's bits shift left by one. Small integers read as a double are subnormals, so the ints in a cell are doubled as ints, while a float in the high half of a cell is changed (1.0 becomes 1.125). The routine is not in the repository (`DoubleCell` is spec-modelled); the encodings and the doubling agree with Python's `struct` on all values up to 300 and on 40,000 random bit patterns. `Factors` is `{2}`: doubling by a power of two is what the byte model computes exactly. `Scalable` is the set of tags callers scale. `expected` is a ghost holding what each element should read after the sets and scalings so far (spec 4.4). `MaxValue` bounds the scaled values.

`TagBytes` and the `RECURSIVE` `WidthSum` are an independent reference definition of the layout. `OffsetLaw` compares `Offset` with it.

### `StingerGraph` (+ `MC_StingerGraph`)

The `Stinger` edge methods with their name resolution:
- `Insert` covers `insert_edge`, `insert_edge_pair`, `increment_edge` and `increment_edge_pair`. Weights are abstracted, so increment and insert have the same effect on the edge set.
- `Remove` covers `remove_edge` and `remove_edge_pair`, including the `vfrom > 0 and vto > 0` guard.

The engine is its contract:
- a set of typed edges;
- a name-to-id mapping that hands out 0, 1, ... and returns -1 for an unknown name;
- an etype table of the same kind.

`NextFree` is modelled from that contract, not from code in this repository.

### `UpdateBatch` and the refinement

`UpdateBatch` is the abstract batch: three sequences of decoded updates (`<<src, dst, etype>>` or `<<vertex, type>>`). An add appends one, `Send` empties all three. It is modelled from the spec, since the decoding happens on the server.

The refinement mapping `ServerView` decodes the first `count` records of each array as the server would (`DecodeRecord`); `ImplementsUpdateBatch` checks `Abs!Spec` as a property. The callers follow the docstrings (`ContractNext`, `ContractSpec`): a vertex is an int id in int mode and a str name in strings mode, and types are ints. `insert_strings` is what the docstring makes it, a per-call choice of how that call's vertices are read, at any point of a batch. But it sets `self.only_strings`, which `send_batch` hands over once for the whole batch: a switch re-reads every pending record under the new mode, and TLC finds the refinement violated (run `stream_refinement`).

### `StingerGraph`: vertex setters

`SetVType`, `SetVWeight` and `IncrementVWeight` model `set_vtype`, `set_vweight` and `increment_vweight`: the lookup, the vtype creation, and the engine call (`VertexCall`). An id outside `0..nv-1` reaches the engine as a write outside its vertex array, recorded in the ghost `stray`. Weights are bounded by `MaxWeight` in the guard of `IncrementVWeight`.

### `StingerSession` (+ `MC_StingerSession`)

The composition of the clients of one server:
- algorithm processes (`pc[a]`, `done[a]`): `Register`, `BeginInit`/`EndInit`, then rounds of `BeginPre`/`EndPre`/`BeginPost`/`EndPost`. A `begin_*` call is a request; the server's `Grant*` lets it return;
- the stream's `send_batch` (`stream`, `conn`): `SendBatch` blocks; `SendReturn` resets the batch whatever the answer, as the code does (the ghost `lost` records a reset after a failure);
- a monitor (`mon`): `WaitForSync`, `GetReadLock`, `ReleaseReadLock`. Nothing in the wrapper pairs the two lock calls: a caller that raises in between keeps the lock, and `SendCompletes` then fails (the `release_read_lock` mutant shows it).
- the monitor's graph reads through `Stinger.edges_of` (stinger_core.py 270-286) between the lock calls (`rd`, and the ghost `got`, the set of lists returned). `EdgesOfDegree` is `deg = self.outdegree(vtx)` (`Outdegree`) and `EdgesOfGather` is `stinger_gather_successors` into zero-filled arrays of length `deg`: `Gather` keeps the first `deg` successors of the current graph and pads with `Zero`, because the code ignores `outlen`. The graph version is `Succ[applied]`: the MC's batches alternately insert and delete the edge `e2` of the vertex read. `ReleaseReadLock` waits for `rd.at = "idle"`: the monitor is one thread and cannot release in the middle of its own call.

`StingerMon.stinger()` and `get_alg_state` (which calls it) raise `TypeError` on every call. `stinger()` passes `ctypes.c_void_p(...)` to `Stinger(s=...)`, and `Stinger.__init__` wraps it again in `c_void_p`, which ctypes refuses. Any call shows this, so no run is spent on it. The model's reads stand for a `Stinger` handle the caller built on the monitor's structure by other means.

Server actions, spec-modelled: `GrantInit`, `GrantPre`/`GrantPost` (after the dependencies ended that phase), `BeginApply`/`EndApply` (write lock; the ghost `applied` flips), `NextRound`, `SyncDone`, `GrantReadLock`. `ConnectionFails` and `SendFailsDown` are the transport failing.

## Runs

| Run | Expect | Shows |
|---|---|---|
| stream_insertions | pass | `add_insert` with growth, mode switches, the `TypeError` path and sends keeps every accepted record in its slot through memmoves (`PendingPreservesAdds`). Every str it wrote stays alive through the current array or a refs entry (`WrittenStringsAlive`). |
| stream_deletions_vertex_updates | pass | The same for the separate growth copies of `add_delete` and `add_vertex_update`, including their `TypeError` paths. |
| stream_stale_etype | violation | A reused slot keeps the last batch's `etype_str` when the next add gives an int etype. |
| stream_vertex_weight | violation | The vertex weight never reaches `set_weight`. |
| stream_refinement | violation | With `insert_strings` chosen per call, an int-mode insert followed in the same batch by a strings-mode insert makes the server read the first record's NULL `source_str`: `StingerStream` does not implement `UpdateBatch` (`ImplementsUpdateBatch`). |
| data_array_layout | pass | `OffsetLaw` holds for every descriptor. A get returns the last set of that field and vertex (`GetReturnsLastSet`), over byte-level memory, also after `weight_double` of a double field. `TypeOK` is the module's type invariant. |
| data_array_scale_narrow | violation | `weight_double` on a view that is not of doubles doubles 8-byte cells. TLC's trace scales an `f` view: the float 1.0 at bytes 4-7 is the high half of a double whose exponent goes up by one, and reads back as 1.125 (spec 4.4 says scaling multiplies the view's elements). On a narrower `i` or `b` view the ints are doubled correctly, but the cells run on into the next field's column, which is doubled too. |
| graph_pairs | pass | With only the `*_pair` methods, the graph stays symmetric (`PairSymmetric`) through name mapping, etype creation on removal and the vertex-0 skip. |
| graph_remove_vertex_zero | violation | An edge at vertex 0, the first name mapped, cannot be removed. |
| graph_stray_vertex_write | violation | A vertex setter on an unmapped name passes id -1 to the engine. |
| session_phases | pass | Every list `edges_of` returns under the read lock is the successor list of one graph version (`EdgesOfConsistent`). Once the monitor stops asking for the read lock, every `send_batch` returns (`SendCompletes`). |
| session_transport_failure | violation | A failed send returns normally and the batch is reset: it is lost silently. |

Each violation run is listed with its explanation under "findings" in `PROJECT.json`. Every property of a passing run has a mutant under which TLC reports it violated. The mutants are:
- a memmove one record short;
- growth without retaining the old array;
- `'l'` counted as 4 bytes;
- vertex 0 treated as absent by `__getitem__`;
- an absent index returning -1 from `__setitem__`;
- `remove_edge_pair` removing one direction;
- `edges_of`'s arrays allocated one entry longer than `deg`;
- `release_read_lock` doing nothing.

All of them change definitions translated from repository code.

## Bounds and why they are enough

### Stream runs

| Constant | Value | Why |
|---|---|---|
| `InitSize` | 1 | Growth happens at the second add. |
| `MaxPending` | 2 per array used, 0 for the others (3 for all three arrays in `stream_refinement`) | Two records: the second grows the array. |
| `Names` | `{a}` | One name, so int and str arguments meet. |
| `Ids` | `{1}` | One id. |
| `TypeNames` | `{t}` | One type name, so int and str types meet. |
| `TypeIds` | `{0}` | One type id. |

- Every reported violation needs at most two adds, one growth and one send.
- The insertion array is checked on its own.
- The deletion and vertex-update arrays are checked together, under both values of `only_strings`. The arrays interact only through that flag and `send_batch`.
- All three arrays together under `Spec` exceed 40 million states.
- `stream_refinement` finds its violation after two inserts.

### Session runs

- Two algorithms, `a2` depending on `a1`: the smallest case with a dependency and with an independent algorithm.
- One stream and one monitor. Rounds and batches are unbounded. The ghost `applied` is a parity bit, so the state space is finite (36,604 states).
- The two successor lists of the monitored vertex, `<<e1>>` and `<<e2, e1>>`, differ in length and in order. A write between the two calls of `edges_of` would therefore give a padded list (`<<e1, Zero>>`) or a truncated one (`<<e2>>`), and neither is a graph version.
- The monitor of the passing run reads only under the read lock, so no write falls between the two calls. A monitor that calls `edges_of` without the lock violates `EdgesOfConsistent`; I checked that on a copy of the model, and no run shows it.

### Data-array runs

- `NV = 2` and at most 2 fields, with descriptors over all five tags.
- Two str indices: one mapped to 1 and one unknown (-1).
- Widths 8, 4 and 1 all occur, so adjacent columns of different widths are covered.
- Values `{1}`, `weight_double` by 2, and `MaxValue = 2`. A set and a scaling of the same element both happen, and the scaled value fits.
- `data_array_layout` scales only `d` views (`Scalable = {"d"}`). `data_array_scale_narrow` lets callers scale any view.
- Indices are `-1 .. nv-1`. An index of `nv` writes into the next field's column and violates `GetReturnsLastSet` in the same way; no run shows it.

### Graph runs

All graph runs use `MC_StingerGraph`:
- three names fill three ids;
- a name and an int meet at id 0;
- two ids above 0 give real removals of edges that are not self-loops;
- one vertex type name, one weight amount, and `MaxWeight = 1`: a set and an increment to the bound both happen, and an unmapped name reaches every setter.

`graph_pairs` reaches 57,856 states.

## Fairness

The stream, data-array and graph runs check safety only. `session_phases` checks `SendCompletes` under `Fairness` in `StingerSession`:
- weak fairness on each algorithm's steps: the documented loop calls the next wrapper when the last one returns;
- weak fairness on `SendReturn` and `EdgesOfGather`: a blocked call returns once answered, and a library call returns;
- strong fairness on `ReleaseReadLock`. A monitor releases a lock it holds, since spec 4.5 pairs the calls. It can release only between its `edges_of` calls, so the action is enabled only now and then. The monitor is not required to ask for a lock;
- weak fairness on the server's grants, `BeginApply`, `EndApply`, `NextRound`, `SyncDone` and `GrantReadLock`: the server keeps serving;
- no fairness on `ConnectionFails`.

Nothing in the spec or the code gives the server's write lock priority over a monitor that takes the read lock again and again. `SendCompletes` therefore assumes, as its antecedent, that the monitor eventually stops asking for the lock (`<>[](mon # "locking")`). A `release_read_lock` that does not release (the mutant) keeps the monitor locked with no further request, and the send then never returns.

Deadlock is checked in every run.

## Not modelled

| Part | Why |
|---|---|
| The streamed connected components wrappers (`stinger_alg.py`) | Each is one forwarded library call with no state of its own, and the algorithm, internals and statistics are in the C library, which is not in the repository. A model of them could only check a contract written for the library. Their own code has three defects, each shown by any single call: insertion and deletion take `.value` of the int ctypes returns and raise `AttributeError` after the library has applied the batch; `get_components` sets no restype and returns the pointer as a C int; and without `STINGER_LIB_PATH` the module loads `libstinger_core.so` instead of `libstinger_alg.so`. |
| The accessors of `StingerMon` and `StingerAlgState` | They only read server state. |
| Degrees other than `outdegree`, the name and type getters, the str branch of `edges_of` (name translation) | They only read; `edges_of`'s two-call read is modelled in `StingerSession`. |
| `StingerMon.stinger()`, `get_alg_state` | They raise `TypeError` on every call (see `StingerSession`). |
| File load and save | I/O. |
| The server | Not in the repository. It is modelled from the spec only as far as the clients need, and no property restates it. |
| Library loading | Pure I/O. |

## Plan

1. Several streams against one server, and reordering of their batches.
2. Larger session bounds (three algorithms with a dependency chain).
