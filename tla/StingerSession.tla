--------------------------- MODULE StingerSession ---------------------------
(***************************************************************************)
(* The clients of one STINGER server and the server's batch cycle.         *)
(*                                                                         *)
(* Clients (stinger_net.py), each a blocking call per step:                *)
(*  - algorithms (StingerAlg): register, then begin_init / end_init, then  *)
(*    rounds of begin_pre / end_pre / begin_post / end_post;               *)
(*  - the stream (StingerStream.send_batch): sends a batch and blocks      *)
(*    until the server answers; its return value is ignored and the batch  *)
(*    is reset whatever the answer was;                                    *)
(*  - a monitor (StingerMon): wait_for_sync, get_read_lock,                *)
(*    release_read_lock, and between the two lock calls reads of the       *)
(*    shared graph through Stinger.edges_of (stinger_core.py), itself two  *)
(*    library calls: stinger_outdegree_get, then stinger_gather_successors *)
(*    into zero-filled arrays of that length.                              *)
(* A begin_* call is a request (the client blocks) and a grant (the server *)
(* lets it return).  The wrappers forward the calls and keep no state, so  *)
(* the order of the calls is the caller's.                                 *)
(*                                                                         *)
(* The server is not in this repository: its actions follow spec 4.3,    *)
(* 4.5 and 5.  A round has the stages "pre" (algorithms run pre in         *)
(* dependency order), "apply" (the batch is written under the write lock)  *)
(* and "post"; a new round starts once every algorithm that ran pre has    *)
(* run post.                                                               *)
(***************************************************************************)
EXTENDS Naturals, FiniteSets, Sequences

CONSTANTS
    Algs,   \* registered algorithm names
    Deps,   \* Deps[a]: the algorithms a declared as dependencies
    Succ,   \* Succ[p]: the successors of the monitored vertex, in gather
            \* order, when the number of batches written has parity p
    Zero    \* an entry of edges_of's arrays left as allocated (all zeros)

ASSUME Deps \in [Algs -> SUBSET Algs]

VARIABLES
    pc,       \* pc[a]: where algorithm a's program is
    done,     \* done[a]: the phases a ended in the current round
    stage,    \* the server's stage of the current round
    stream,   \* the stream client: idle, sending, or answered
    conn,     \* the stream's connection: "up" or "down"
    mon,      \* the monitor client
    applied,  \* parity of the number of batches written (ghost)
    lost,     \* a batch was reset by send_batch although it failed (ghost)
    rd,       \* the monitor's edges_of call: its place and the deg it read
    got       \* the lists edges_of has returned so far (ghost)

vars == <<pc, done, stage, stream, conn, mon, applied, lost, rd, got>>

PCs == {"unregistered", "start", "wait_init", "in_init", "ready",
        "wait_pre", "in_pre", "pre_done", "wait_post", "in_post"}

\* Algorithms that have begun static initialisation take part in rounds.
Initialised(a) == pc[a] \notin {"unregistered", "start", "wait_init"}

Step(a, from, to) ==
    /\ pc[a] = from
    /\ pc' = [pc EXCEPT ![a] = to]

----------------------------------------------------------------------------
(* Clients.                                                                *)
Init ==
    /\ pc = [a \in Algs |-> "unregistered"]
    /\ done = [a \in Algs |-> {}]
    /\ stage = "pre"
    /\ stream = "idle"
    /\ conn = "up"
    /\ mon = "idle"
    /\ applied = 0
    /\ lost = FALSE
    /\ rd = [at |-> "idle", deg |-> 0]
    /\ got = {}

\* StingerAlg.__init__: stinger_register_alg_impl, blocking until registered.
Register(a) ==
    /\ Step(a, "unregistered", "start")
    /\ UNCHANGED <<done, stage, stream, conn, mon, applied, lost, rd, got>>

BeginInit(a) ==
    /\ Step(a, "start", "wait_init")
    /\ UNCHANGED <<done, stage, stream, conn, mon, applied, lost, rd, got>>

EndInit(a) ==
    /\ Step(a, "in_init", "ready")
    /\ UNCHANGED <<done, stage, stream, conn, mon, applied, lost, rd, got>>

BeginPre(a) ==
    /\ Step(a, "ready", "wait_pre")
    /\ UNCHANGED <<done, stage, stream, conn, mon, applied, lost, rd, got>>

EndPre(a) ==
    /\ Step(a, "in_pre", "pre_done")
    /\ done' = [done EXCEPT ![a] = @ \cup {"pre"}]
    /\ UNCHANGED <<stage, stream, conn, mon, applied, lost, rd, got>>

BeginPost(a) ==
    /\ Step(a, "pre_done", "wait_post")
    /\ UNCHANGED <<done, stage, stream, conn, mon, applied, lost, rd, got>>

EndPost(a) ==
    /\ Step(a, "in_post", "ready")
    /\ done' = [done EXCEPT ![a] = @ \cup {"post"}]
    /\ UNCHANGED <<stage, stream, conn, mon, applied, lost, rd, got>>

\* send_batch: stream_send_batch is called and blocks.
SendBatch ==
    /\ stream = "idle"
    /\ stream' = "sending"
    /\ UNCHANGED <<pc, done, stage, conn, mon, applied, lost, rd, got>>

\* send_batch after the call returns: the answer is not looked at, counts
\* and refs are reset.
SendReturn ==
    /\ stream \in {"acked", "failed"}
    /\ stream' = "idle"
    /\ lost' = (lost \/ stream = "failed")
    /\ UNCHANGED <<pc, done, stage, conn, mon, applied, rd, got>>

WaitForSync ==
    /\ mon = "idle"
    /\ mon' = "syncing"
    /\ UNCHANGED <<pc, done, stage, stream, conn, applied, lost, rd, got>>

GetReadLock ==
    /\ mon \in {"idle", "synced"}
    /\ mon' = "locking"
    /\ UNCHANGED <<pc, done, stage, stream, conn, applied, lost, rd, got>>

\* Mutant: release_read_lock calls the library's get_read_lock.
ReleaseReadLockNoop ==
    /\ mon = "locked"
    /\ UNCHANGED vars

ReleaseReadLock ==
    /\ mon = "locked" /\ rd.at = "idle"
    /\ mon' = "idle"
    /\ UNCHANGED <<pc, done, stage, stream, conn, applied, lost, rd, got>>

\* Stinger.outdegree(vtx): stinger_outdegree_get of the current graph.
Outdegree(p) == Len(Succ[p])

\* Mutant: the arrays are allocated one entry longer than deg.
GatherOneMore(s, deg) == [i \in 1..deg + 1 |-> IF i <= Len(s) THEN s[i] ELSE Zero]

(* The array edges_of builds: gather_successors fills at most deg entries *)
(* of the current list; the rest keep their zeros; zip stops at deg.       *)
Gather(s, deg) == [i \in 1..deg |-> IF i <= Len(s) THEN s[i] ELSE Zero]

(* edges_of(vtx), int branch, first call: deg = self.outdegree(vtx).  The  *)
(* monitor reads the graph between get_read_lock and release_read_lock    *)
(* (spec 4.5).                                                             *)
EdgesOfDegree ==
    /\ mon = "locked" /\ rd.at = "idle"
    /\ rd' = [at |-> "gather", deg |-> Outdegree(applied)]
    /\ UNCHANGED <<pc, done, stage, stream, conn, mon, applied, lost, got>>

(* edges_of, second call: stinger_gather_successors(..., outlen, ..., deg); *)
(* outlen is ignored and the zip runs over the deg entries.                *)
EdgesOfGather ==
    /\ rd.at = "gather"
    /\ got' = got \cup {Gather(Succ[applied], rd.deg)}
    /\ rd' = [rd EXCEPT !.at = "idle"]
    /\ UNCHANGED <<pc, done, stage, stream, conn, mon, applied, lost>>

----------------------------------------------------------------------------
(* Server (spec 4.3, 4.5, 5).                                              *)

\* Initialisation is granted while the graph is not being written.
GrantInit(a) ==
    /\ stage # "apply"
    /\ Step(a, "wait_init", "in_init")
    /\ UNCHANGED <<done, stage, stream, conn, mon, applied, lost, rd, got>>

\* Pre of a round is granted once a batch has arrived and every dependency
\* has ended its pre of this round.
GrantPre(a) ==
    /\ stage = "pre" /\ stream = "sending" /\ conn = "up"
    /\ "pre" \notin done[a]
    /\ \A d \in Deps[a] : "pre" \in done[d]
    /\ Step(a, "wait_pre", "in_pre")
    /\ UNCHANGED <<done, stage, stream, conn, mon, applied, lost, rd, got>>

\* The write lock is taken once every initialised algorithm has ended pre
\* and no reader holds the read lock.
BeginApply ==
    /\ stage = "pre" /\ stream = "sending" /\ conn = "up"
    /\ \A a \in Algs : Initialised(a) => "pre" \in done[a] /\ pc[a] # "in_pre"
    /\ mon # "locked"
    /\ stage' = "apply"
    /\ UNCHANGED <<pc, done, stream, conn, mon, applied, lost, rd, got>>

\* The batch is written, the write lock released and send_batch answered.
EndApply ==
    /\ stage = "apply"
    /\ stage' = "post"
    /\ applied' = (applied + 1) % 2
    /\ stream' = "acked"
    /\ UNCHANGED <<pc, done, conn, mon, lost, rd, got>>

GrantPost(a) ==
    /\ stage = "post"
    /\ \A d \in Deps[a] : "post" \in done[d]
    /\ Step(a, "wait_post", "in_post")
    /\ UNCHANGED <<done, stage, stream, conn, mon, applied, lost, rd, got>>

NextRound ==
    /\ stage = "post"
    /\ \A a \in Algs : "pre" \in done[a] => "post" \in done[a]
    /\ stage' = "pre"
    /\ done' = [a \in Algs |-> {}]
    /\ UNCHANGED <<pc, stream, conn, mon, applied, lost, rd, got>>

\* The connection breaks (reset, short write) while a batch is in transit.
ConnectionFails ==
    /\ stream = "sending" /\ conn = "up" /\ stage = "pre"
    /\ stream' = "failed"
    /\ conn' = "down"
    /\ UNCHANGED <<pc, done, stage, mon, applied, lost, rd, got>>

\* On a broken connection stream_send_batch fails at once.
SendFailsDown ==
    /\ stream = "sending" /\ conn = "down"
    /\ stream' = "failed"
    /\ UNCHANGED <<pc, done, stage, conn, mon, applied, lost, rd, got>>

SyncDone ==
    /\ mon = "syncing" /\ stage # "apply"
    /\ mon' = "synced"
    /\ UNCHANGED <<pc, done, stage, stream, conn, applied, lost, rd, got>>

GrantReadLock ==
    /\ mon = "locking" /\ stage # "apply"
    /\ mon' = "locked"
    /\ UNCHANGED <<pc, done, stage, stream, conn, applied, lost, rd, got>>

----------------------------------------------------------------------------
AlgStep(a) ==
    \/ Register(a) \/ BeginInit(a) \/ EndInit(a) \/ BeginPre(a)
    \/ EndPre(a) \/ BeginPost(a) \/ EndPost(a)

ServerStep ==
    \/ \E a \in Algs : GrantInit(a) \/ GrantPre(a) \/ GrantPost(a)
    \/ BeginApply \/ EndApply \/ NextRound \/ SendFailsDown
    \/ SyncDone \/ GrantReadLock

Next ==
    \/ \E a \in Algs : AlgStep(a)
    \/ SendBatch \/ SendReturn
    \/ WaitForSync \/ GetReadLock \/ ReleaseReadLock
    \/ EdgesOfDegree \/ EdgesOfGather
    \/ ServerStep
    \/ ConnectionFails

(* Fairness.  The algorithms run the documented loop and the stream's     *)
(* send_batch returns once answered; a library call returns; the monitor  *)
(* need not ask for a lock but always releases one it holds (spec 4.5),   *)
(* strongly fairly since it can only between its edges_of calls.  The      *)
(* server keeps serving, with weak fairness only: nothing in the spec     *)
(* gives its write lock priority over a monitor that locks again and      *)
(* again.  A connection failure is never forced.                          *)
Fairness ==
    /\ \A a \in Algs : WF_vars(AlgStep(a))
    /\ \A a \in Algs : WF_vars(GrantInit(a)) /\ WF_vars(GrantPre(a)) /\ WF_vars(GrantPost(a))
    /\ WF_vars(SendReturn) /\ SF_vars(ReleaseReadLock) /\ WF_vars(EdgesOfGather)
    /\ WF_vars(BeginApply) /\ WF_vars(EndApply) /\ WF_vars(NextRound) /\ WF_vars(SendFailsDown)
    /\ WF_vars(SyncDone) /\ WF_vars(GrantReadLock)

Spec == Init /\ [][Next]_vars /\ Fairness

----------------------------------------------------------------------------
TypeOK ==
    /\ pc \in [Algs -> PCs]
    /\ done \in [Algs -> SUBSET {"pre", "post"}]
    /\ stage \in {"pre", "apply", "post"}
    /\ stream \in {"idle", "sending", "acked", "failed"}
    /\ conn \in {"up", "down"}
    /\ mon \in {"idle", "syncing", "synced", "locking", "locked"}
    /\ applied \in 0..1
    /\ lost \in BOOLEAN
    /\ rd \in [at : {"idle", "gather"}, deg : Nat]
    /\ got \subseteq Seq({Zero} \cup UNION {{Succ[p][i] : i \in DOMAIN Succ[p]} : p \in 0..1})

(* A read under the read lock is a snapshot: the list edges_of returns,   *)
(* read by two library calls with batches of the stream written in        *)
(* between by the server, is the successor list of one graph version,     *)
(* never one truncated or padded with zero entries by a write between    *)
(* outdegree and gather_successors.                                       *)
EdgesOfConsistent == \A g \in got : \E p \in 0..1 : g = Succ[p]

(* Every send_batch returns once the monitor stops asking for the read    *)
(* lock: with algorithms that follow the phase loop and a monitor whose    *)
(* release_read_lock really releases, a sent batch is answered.  While a  *)
(* monitor re-locks forever, the server's write may starve (no fairness   *)
(* of the server's lock is assumed).                                       *)
SendCompletes ==
    <>[](mon # "locking") => ((stream = "sending") ~> (stream = "idle"))

(* Transport failure is surfaced (spec 4.2, 7): a batch that send_batch   *)
(* reset and returned from was written to the graph.                       *)
NoBatchLost == ~lost

============================================================================
