---------------------------- MODULE Compositions ----------------------------
(* The composition store of every node (kiseki-composition, composition.rs), *)
(* the gateway calls that change it (kiseki-gateway, mem_gateway.rs), the    *)
(* hydrator that replays the delta log of one shard into it (hydrator.rs,    *)
(* hydrator_registry.rs) and the watermark round that prunes the log         *)
(* (kiseki-log, raft_shard_store.rs).                                        *)
(*                                                                           *)
(* An asynchronous PUT creates a row in a volatile overlay, acknowledges     *)
(* after the intent quorum, and the delta is incorporated later, in any      *)
(* order (LeaderSink); a synchronous one writes the row and waits for the    *)
(* append.  The hydrator stages a window of deltas against the durable       *)
(* state, commits it, then invalidates the read cache and drains the         *)
(* overlay id by id.  Gateway calls take per-id locks; the hydrator's stage  *)
(* and commit do not.                                                        *)
EXTENDS CompositionStorage

CONSTANTS Nodes,       \* the voters of the shard
          Ingress,     \* the nodes whose gateways take writes
          Comps,       \* composition ids, each created at most once
          Names,       \* object names
          Readers,     \* the nodes whose reads are followed through the cache
          Window,      \* KISEKI_HYDRATOR_BATCH
          MaxLog,      \* bound: deltas in the log
          MaxRestarts, \* bound: a node restarts on its store only below so many restarts
          MaxWipes,    \* bound: nodes whose store an operator wiped, each once
          MaxRollbacks \* bound: nodes whose NamespaceCreate failed once

ASSUME CompositionsAssumption ==
  /\ IsFiniteSet(Nodes) /\ IsFiniteSet(Comps) /\ NoName \notin Names
  /\ Ingress \subseteq Nodes /\ Ingress # {} /\ Readers \subseteq Nodes
  /\ Window \in Nat \ {0} /\ Retries \in Nat \ {0}
  /\ MaxLog \in Nat /\ MaxRestarts \in Nat /\ MaxWipes \in Nat /\ MaxRollbacks \in Nat

VARIABLES
  log,       \* the committed deltas of the shard, pruned ones included
  wm,        \* the replicated hydrator watermark: deltas below it are pruned
  intents,   \* creates submitted, not (or never) incorporated
  emits,     \* nodes with a NamespaceCreate proposed and not committed
  st,        \* per composition: where its request stands
  by,        \* per composition: the node serving its current request
  name, pseq,\* per composition: its name and perspective seq
  store,     \* per node: the durable storage
  pending,   \* per node: the volatile overlay, id -> row
  pnames,    \* per node: the overlay's name bindings
  cache,     \* per node: the read cache
  ns,        \* per node: the namespace is registered in memory
  hy,        \* per node: the hydrator's poll
  lk,        \* per node: the get or set_content_type that holds an id lock
  reported,  \* the node-local position reports
  gathered,  \* the answers of the leader's watermark round
  restarts, wiped, rolled,   \* faults so far
  forgot, skips      \* history: overlay rows lost by a restart; ids given up

vars == <<log, wm, intents, emits, st, by, name, pseq, store, pending, pnames, cache, ns, hy, lk,
          reported, gathered, restarts, wiped, rolled, forgot, skips>>
logv == <<log, wm, intents, emits>>
clients == <<st, by, name, pseq>>
volatile == <<pending, pnames, ns>>
marks == <<reported, gathered>>
faults == <<restarts, wiped, rolled, forgot, skips>>

Idle == [pc |-> "idle"]
Delta(op, x, k, q) == [at |-> Len(log) + 1, op |-> op, id |-> x, name |-> k, pseq |-> q]
Unlocked(n, x) == ~(lk[n].pc # "idle" /\ lk[n].id = x)
Visible(n, x) == x \in DOMAIN cache[n] \cup DOMAIN pending[n] \cup DOMAIN store[n].comps

Unbound(f, x) == [k \in {j \in DOMAIN f : f[j] # x} |-> f[k]]

Init ==
  /\ log = <<>> /\ wm = 0 /\ intents = {} /\ emits = {}
  /\ st = [x \in Comps |-> "unused"] /\ by = [x \in Comps |-> CHOOSE n \in Ingress : TRUE]
  /\ name = [x \in Comps |-> NoName] /\ pseq = [x \in Comps |-> 0]
  /\ store = [n \in Nodes |-> EmptyStorage]
  /\ pending = [n \in Nodes |-> Empty] /\ pnames = [n \in Nodes |-> Empty]
  /\ cache = [n \in Nodes |-> Empty] /\ ns = [n \in Nodes |-> FALSE]
  /\ hy = [n \in Nodes |-> Idle] /\ lk = [n \in Nodes |-> Idle]
  /\ reported = Empty /\ gathered = Empty
  /\ restarts = 0 /\ wiped = {} /\ rolled = {} /\ forgot = {} /\ skips = [n \in Nodes |-> {}]

-----------------------------------------------------------------------------
(* Gateway calls.                                                            *)

\* ensure_namespace_exists, the path without a control-plane provisioner:
\* registered locally first, so that other calls on this node go ahead...
RegisterNamespace(n) ==
  /\ n \in Ingress /\ ~ns[n]
  /\ ns' = [ns EXCEPT ![n] = TRUE] /\ emits' = emits \cup {n}
  /\ UNCHANGED <<log, wm, intents, clients, store, pending, pnames, cache, hy, lk, marks, faults>>

\* ... then replicated...
NamespaceCommitted(n) ==
  /\ n \in emits /\ Len(log) < MaxLog
  /\ log' = Append(log, Delta("ns", NoName, NoName, 0)) /\ emits' = emits \ {n}
  /\ UNCHANGED <<wm, intents, clients, store, volatile, cache, hy, lk, marks, faults>>

\* ... or rolled back, whether or not the proposal that failed was committed.
NamespaceEmitFails(n) ==
  /\ n \in emits /\ Cardinality(rolled) < MaxRollbacks
  /\ emits' = emits \ {n} /\ rolled' = rolled \cup {n}
  /\ ns' = [ns EXCEPT ![n] = FALSE]
  /\ \/ UNCHANGED log
     \/ Len(log) < MaxLog /\ log' = Append(log, Delta("ns", NoName, NoName, 0))
  /\ UNCHANGED <<wm, intents, clients, store, pending, pnames, cache, hy, lk, marks,
                 restarts, wiped, forgot, skips>>

Submit(n, x, k, q, state) ==
  /\ st[x] = "unused" /\ ns[n] /\ n \in Ingress
  /\ st' = [st EXCEPT ![x] = state] /\ by' = [by EXCEPT ![x] = n]
  /\ name' = [name EXCEPT ![x] = k] /\ pseq' = [pseq EXCEPT ![x] = q]
  /\ intents' = intents \cup {x}

NextSeq == 1 + Cardinality({x \in Comps : pseq[x] > 0})

\* create_with_name_volatile.
PutVolatile(n, x, k) ==
  /\ Submit(n, x, k, NextSeq, "fanning")
  /\ pending' = [pending EXCEPT ![n] = Bind(@, x, FALSE)]
  /\ pnames' = [pnames EXCEPT ![n] = Bind(@, k, x)]
  /\ UNCHANGED <<log, wm, emits, store, cache, ns, hy, lk, marks, faults>>

\* ... and its fallback to a durable create, when rows of other objects fill
\* the overlay to KISEKI_COMPOSITION_PENDING_MAX.
PutOverflow(n, x, k) ==
  /\ Submit(n, x, k, NextSeq, "fanning")
  /\ store' = [store EXCEPT ![n] = put_with_name(@, x, k)]
  /\ pnames' = [pnames EXCEPT ![n] = Drop(@, {k})]
  /\ UNCHANGED <<log, wm, emits, pending, cache, ns, hy, lk, marks, faults>>

\* create on a POSIX surface: the durable row first, then the append.
PutSync(n, x) ==
  /\ Submit(n, x, NoName, 0, "emitting")
  /\ store' = [store EXCEPT ![n] = put(@, x, FALSE)]
  /\ UNCHANGED <<log, wm, emits, volatile, cache, hy, lk, marks, faults>>

Created(x) == \E i \in DOMAIN log : log[i].op = "create" /\ log[i].id = x

\* The intent quorum answered, or the append returned.
PutAcked(x) ==
  /\ st[x] = "fanning" \/ (st[x] = "emitting" /\ Created(x))
  /\ st' = [st EXCEPT ![x] = "acked"]
  /\ UNCHANGED <<logv, by, name, pseq, store, volatile, cache, hy, lk, marks, faults>>

\* CompositionStore::delete: the overlay row, or the durable one and its cache
\* entry, under the id lock.
LocalDelete(n, x) ==
  /\ Unlocked(n, x)
  /\ IF x \in DOMAIN pending[n]
     THEN /\ pending' = [pending EXCEPT ![n] = Drop(@, {x})]
          /\ pnames' = [pnames EXCEPT ![n] = Unbound(@, x)]
          /\ UNCHANGED <<store, cache>>
     ELSE /\ store' = [store EXCEPT ![n] = IF x \in DOMAIN @.comps THEN remove(@, x) ELSE @]
          /\ cache' = [cache EXCEPT ![n] = IF x \in DOMAIN store[n].comps THEN Drop(@, {x}) ELSE @]
          /\ UNCHANGED <<pending, pnames>>

\* The fan or the append failed, or so it seems: discard_volatile, or a local
\* delete when the overlay has no such row.  The create may still be in the
\* log, or reach it later.
PutFails(x) ==
  /\ st[x] \in {"fanning", "emitting"}
  /\ LocalDelete(by[x], x)
  /\ st' = [st EXCEPT ![x] = "failed"]
  /\ UNCHANGED <<logv, by, name, pseq, ns, hy, lk, marks, faults>>

\* A create reaches the log: the committer's drain or the append.
Incorporate(x) ==
  /\ x \in intents /\ Len(log) < MaxLog
  /\ log' = Append(log, Delta("create", x, name[x], pseq[x]))
  /\ intents' = intents \ {x}
  /\ UNCHANGED <<wm, emits, clients, store, volatile, cache, hy, lk, marks, faults>>

\* delete: the composition is visible here, its Delete delta is committed...
DeleteEmit(n, x) ==
  /\ n \in Ingress /\ st[x] = "acked" /\ Visible(n, x) /\ Len(log) < MaxLog
  /\ log' = Append(log, Delta("delete", x, NoName, 0))
  /\ st' = [st EXCEPT ![x] = "deleting"] /\ by' = [by EXCEPT ![x] = n]
  /\ UNCHANGED <<wm, intents, emits, name, pseq, store, volatile, cache, hy, lk, marks, faults>>

\* ... then the local row goes, and the client has its answer.
DeleteLocal(x) ==
  /\ st[x] = "deleting"
  /\ x \in DOMAIN pending[by[x]] \cup DOMAIN store[by[x]].comps
  /\ LocalDelete(by[x], x)
  /\ st' = [st EXCEPT ![x] = "deleted"]
  /\ UNCHANGED <<logv, by, name, pseq, ns, hy, lk, marks, faults>>

\* The append's answer was lost, or the hydrator removed the row first.
DeleteFails(x) ==
  /\ st[x] = "deleting"
  /\ st' = [st EXCEPT ![x] = "limbo"]
  /\ UNCHANGED <<logv, by, name, pseq, store, volatile, cache, hy, lk, marks, faults>>

\* get, past the cache and the overlay: the id lock, then the storage read...
GetMiss(n, x) ==
  /\ n \in Readers /\ lk[n].pc = "idle" /\ x \notin DOMAIN cache[n] \cup DOMAIN pending[n]
  /\ x \in DOMAIN store[n].comps
  /\ lk' = [lk EXCEPT ![n] = [pc |-> "get", id |-> x, row |-> store[n].comps[x]]]
  /\ UNCHANGED <<logv, clients, store, volatile, cache, hy, marks, faults>>

\* ... then the cache entry, and the lock is released.
GetFill(n) ==
  /\ lk[n].pc = "get"
  /\ cache' = [cache EXCEPT ![n] = Bind(@, lk[n].id, lk[n].row)]
  /\ lk' = [lk EXCEPT ![n] = Idle]
  /\ UNCHANGED <<logv, clients, store, volatile, hy, marks, faults>>

\* set_content_type, called after a PUT was acknowledged, on an overlay row.
SetTypePending(n, x) ==
  /\ st[x] = "acked" /\ by[x] = n /\ Unlocked(n, x)
  /\ x \in DOMAIN pending[n] /\ ~pending[n][x]
  /\ pending' = [pending EXCEPT ![n] = Bind(@, x, TRUE)]
  /\ UNCHANGED <<logv, clients, store, pnames, ns, cache, hy, lk, marks, faults>>

\* set_content_type on a durable row: read under the id lock...
SetTypeRead(n, x) ==
  /\ st[x] = "acked" /\ by[x] = n /\ lk[n].pc = "idle" /\ x \notin DOMAIN pending[n]
  /\ x \in DOMAIN store[n].comps /\ ~store[n].comps[x]
  /\ lk' = [lk EXCEPT ![n] = [pc |-> "type", id |-> x, row |-> TRUE]]
  /\ UNCHANGED <<logv, clients, store, volatile, cache, hy, marks, faults>>

\* ... and written back.
SetTypeWrite(n) ==
  /\ lk[n].pc = "type"
  /\ store' = [store EXCEPT ![n] = put(@, lk[n].id, lk[n].row)]
  /\ cache' = [cache EXCEPT ![n] = Drop(@, {lk[n].id})]
  /\ lk' = [lk EXCEPT ![n] = Idle]
  /\ UNCHANGED <<logv, clients, volatile, hy, marks, faults>>

-----------------------------------------------------------------------------
(* The hydrator.                                                             *)

Staging(n, g, to) ==
  [pc |-> "staging", to |-> to, batch |-> StageDelta(store[n], ns[n], g, log[g.last + 1])]

\* read_deltas, and the first delta: the local state machine may lag, any
\* non-empty prefix of the window is read...
Poll(n) ==
  /\ hy[n].pc = "idle" /\ ~store[n].halted /\ store[n].last + 1 >= wm
  /\ \E to \in store[n].last + 1 .. Len(log) :
       /\ to <= store[n].last + Window
       /\ hy' = [hy EXCEPT ![n] = Staging(n, EmptyStaging(store[n]), to)]
  /\ UNCHANGED <<logv, clients, store, volatile, cache, lk, marks, faults>>

\* ... and each further one, against the storage and the namespaces as they are
\* at that moment, up to the first transient skip.
Stage(n) ==
  /\ hy[n].pc = "staging" /\ ~hy[n].batch.stop /\ hy[n].batch.last < hy[n].to
  /\ hy' = [hy EXCEPT ![n] = Staging(n, hy[n].batch, hy[n].to)]
  /\ UNCHANGED <<logv, clients, store, volatile, cache, lk, marks, faults>>

Staged(n) == hy[n].pc = "staging" /\ (hy[n].batch.stop \/ hy[n].batch.last = hy[n].to)

Touched(b) == DOMAIN b.puts \cup b.removes
Settling(todo) == IF todo = {} THEN Idle ELSE [pc |-> "settle", todo |-> todo]

\* The poll loop reports the position after every poll.
report_consumer_position(n, position) ==
  reported' = IF hy'[n].pc = "idle" THEN Bind(reported, n, position) ELSE reported

\* The first visible delta is past the expected one: the durable halt.
enter_halt_mode(n) ==
  /\ hy[n].pc = "idle" /\ ~store[n].halted /\ store[n].last + 1 < wm
  /\ store' = [store EXCEPT ![n].halted = TRUE]
  /\ UNCHANGED hy /\ report_consumer_position(n, store[n].last)
  /\ UNCHANGED <<logv, clients, volatile, cache, lk, gathered, faults>>

\* A poll that finds nothing, or finds itself halted, still reports.
PollNothing(n) ==
  /\ hy[n].pc = "idle" /\ n \notin DOMAIN reported
  /\ UNCHANGED hy /\ report_consumer_position(n, store[n].last)
  /\ UNCHANGED <<logv, clients, store, volatile, cache, lk, gathered, faults>>

\* Mutant: the staged namespaces are not registered.
Mut_Commit(n) ==
  /\ Staged(n)
  /\ store' = [store EXCEPT ![n] = apply_hydration_batch(@, hy[n].batch)]
  /\ skips' = [skips EXCEPT ![n] = @ \cup hy[n].batch.skipped]
  /\ hy' = [hy EXCEPT ![n] = Settling(Touched(hy[n].batch))]
  /\ report_consumer_position(n, hy[n].batch.last)
  /\ UNCHANGED <<logv, clients, volatile, cache, lk, gathered, restarts, wiped, rolled, forgot>>

\* Namespaces enter memory before the commit; the batch is atomic.
Commit(n) ==
  /\ Staged(n)
  /\ ns' = [ns EXCEPT ![n] = @ \/ hy[n].batch.ns]
  /\ store' = [store EXCEPT ![n] = apply_hydration_batch(@, hy[n].batch)]
  /\ skips' = [skips EXCEPT ![n] = @ \cup hy[n].batch.skipped]
  /\ hy' = [hy EXCEPT ![n] = Settling(Touched(hy[n].batch))]
  /\ report_consumer_position(n, hy[n].batch.last)
  /\ UNCHANGED <<logv, clients, pending, pnames, cache, lk, gathered, restarts, wiped, rolled, forgot>>

\* Mutant: the overlay is drained although the commit failed.
Mut_CommitFails(n) ==
  /\ Staged(n)
  /\ ns' = [ns EXCEPT ![n] = @ \/ hy[n].batch.ns]
  /\ hy' = [hy EXCEPT ![n] = Settling(Touched(hy[n].batch))]
  /\ report_consumer_position(n, store[n].last)
  /\ UNCHANGED <<logv, clients, store, pending, pnames, cache, lk, gathered, faults>>

\* A backend error: the position does not move, the next poll retries.
CommitFails(n) ==
  /\ Staged(n)
  /\ ns' = [ns EXCEPT ![n] = @ \/ hy[n].batch.ns]
  /\ hy' = [hy EXCEPT ![n] = Idle]
  /\ report_consumer_position(n, store[n].last)
  /\ UNCHANGED <<logv, clients, store, pending, pnames, cache, lk, gathered, faults>>

\* invalidate_cache of one touched id, then its drain_pending.
Invalidate(n, x) ==
  /\ hy[n].pc = "settle" /\ x \in hy[n].todo
  /\ cache' = [cache EXCEPT ![n] = Drop(@, {x})]
  /\ hy' = [hy EXCEPT ![n] = [pc |-> "drain", todo |-> hy[n].todo \ {x}, id |-> x]]
  /\ UNCHANGED <<logv, clients, store, volatile, lk, marks, faults>>

\* drain_pending under the id lock: the overlay row goes, and its content type
\* is written through to the row the batch made durable.
drain_pending(n) ==
  LET x == hy[n].id
      typed == x \in DOMAIN pending[n] /\ pending[n][x] /\ x \in DOMAIN store[n].comps
  IN
  /\ hy[n].pc = "drain" /\ Unlocked(n, x)
  /\ pending' = [pending EXCEPT ![n] = Drop(@, {x})]
  /\ pnames' = [pnames EXCEPT ![n] = Unbound(@, x)]
  /\ store' = [store EXCEPT ![n] = IF typed THEN put(@, x, TRUE) ELSE @]
  /\ cache' = [cache EXCEPT ![n] = IF typed THEN Drop(@, {x}) ELSE @]
  /\ hy' = [hy EXCEPT ![n] = Settling(hy[n].todo)]
  /\ report_consumer_position(n, store[n].last)
  /\ UNCHANGED <<logv, clients, ns, lk, gathered, faults>>

-----------------------------------------------------------------------------
(* Watermarks.                                                               *)

\* A voter that has reported since it started answers the leader's gather.
gather_voter_position(n) ==
  /\ n \in DOMAIN reported \ DOMAIN gathered
  /\ DOMAIN gathered \cup {n} # Nodes
  /\ gathered' = Bind(gathered, n, reported[n])
  /\ UNCHANGED <<logv, clients, store, volatile, cache, hy, lk, reported, faults>>

\* Mutant: the fastest voter decides.
Mut_watermark_advance_decision(positions) == Max({wm} \cup {positions[n] : n \in Nodes})

watermark_advance_decision(positions) == Max({wm, Min({positions[n] : n \in Nodes})})

\* The last voter answers: the minimum, if it is ahead, is replicated and every
\* replica prunes below it.
advance_hydrator_watermark_round(n) ==
  /\ n \in DOMAIN reported \ DOMAIN gathered
  /\ DOMAIN gathered \cup {n} = Nodes
  /\ wm' = watermark_advance_decision(Bind(gathered, n, reported[n]))
  /\ gathered' = Empty
  /\ UNCHANGED <<log, intents, emits, clients, store, volatile, cache, hy, lk, reported, faults>>

\* A voter is unreachable, times out or has not reported: no advance.
RoundSkipped ==
  /\ gathered # Empty /\ gathered' = Empty
  /\ UNCHANGED <<logv, clients, store, volatile, cache, hy, lk, reported, faults>>

-----------------------------------------------------------------------------
(* Faults.                                                                   *)

\* The process restarts: the overlay, the cache, the in-memory namespaces, the
\* reports and the calls in flight are gone.
LoseMemory(n) ==
  /\ restarts' = restarts + 1
  /\ pending' = [pending EXCEPT ![n] = Empty] /\ pnames' = [pnames EXCEPT ![n] = Empty]
  /\ cache' = [cache EXCEPT ![n] = Empty] /\ ns' = [ns EXCEPT ![n] = FALSE]
  /\ hy' = [hy EXCEPT ![n] = Idle] /\ lk' = [lk EXCEPT ![n] = Idle]
  /\ reported' = Drop(reported, {n})
  /\ forgot' = forgot \cup DOMAIN pending[n]
  /\ st' = [x \in Comps |->
       IF by[x] = n /\ st[x] \in {"fanning", "emitting", "deleting"} THEN "limbo" ELSE st[x]]
  /\ emits' = emits \ {n}
  /\ UNCHANGED <<log, wm, intents, by, name, pseq, gathered>>

Restart(n) == restarts < MaxRestarts /\ LoseMemory(n) /\ UNCHANGED <<store, wiped, rolled, skips>>

\* The documented recovery of a halted or damaged node: wipe and restart.
Wipe(n) ==
  /\ n \notin wiped /\ Cardinality(wiped) < MaxWipes /\ n \notin Ingress
  /\ LoseMemory(n)
  /\ store' = [store EXCEPT ![n] = EmptyStorage] /\ skips' = [skips EXCEPT ![n] = {}]
  /\ wiped' = wiped \cup {n} /\ UNCHANGED rolled

Next ==
  \/ \E x \in Comps : \/ PutAcked(x) \/ PutFails(x) \/ Incorporate(x)
                      \/ DeleteLocal(x) \/ DeleteFails(x)
  \/ \E n \in Nodes : \/ RegisterNamespace(n) \/ NamespaceCommitted(n) \/ NamespaceEmitFails(n) \/ GetFill(n) \/ SetTypeWrite(n)
                      \/ Poll(n) \/ Stage(n) \/ enter_halt_mode(n) \/ Commit(n) \/ CommitFails(n)
                      \/ drain_pending(n) \/ PollNothing(n)
                      \/ gather_voter_position(n) \/ advance_hydrator_watermark_round(n)
                      \/ Restart(n) \/ Wipe(n)
  \/ \E n \in Nodes, x \in Comps : \/ PutSync(n, x) \/ DeleteEmit(n, x) \/ GetMiss(n, x)
                                   \/ SetTypePending(n, x) \/ SetTypeRead(n, x)
                                   \/ Invalidate(n, x)
                                   \/ \E k \in Names : PutVolatile(n, x, k) \/ PutOverflow(n, x, k)
  \/ RoundSkipped

Spec == Init /\ [][Next]_vars

\* The hydrator task is polled and its backend does not fail every commit; a
\* call that holds an id lock releases it, and the drain gets its turn at it.
Fairness ==
  \A n \in Nodes : /\ WF_vars(Poll(n) \/ Stage(n) \/ enter_halt_mode(n) \/ \E x \in Comps : Invalidate(n, x))
                    /\ SF_vars(Commit(n)) /\ SF_vars(drain_pending(n))
                    /\ WF_vars(GetFill(n) \/ SetTypeWrite(n))

FairSpec == Spec /\ Fairness

-----------------------------------------------------------------------------
(* Properties.                                                               *)

\* f is a partial function from S to T.
PFun(f, S, T) == DOMAIN f \subseteq S /\ f \in [DOMAIN f -> T]

\* f is a function, or a record, with domain S.
On(f, S) == f = [x \in S |-> f[x]]

Deltas == {d \in [at : Nat, op : {"ns", "create", "delete"}, id : Comps \cup {NoName},
                  name : Names \cup {NoName}, pseq : Nat] : d.op # "ns" => d.id \in Comps}
Rows == BOOLEAN   \* a row: its content type has been set
Stucks == [at : Nat, n : 0 .. Retries - 1]
Binds == [name : Names, id : Comps, pseq : Nat]

StorageOK(s) ==
  /\ On(s, {"comps", "names", "rev", "seqs", "last", "stuck", "halted"})
  /\ PFun(s.comps, Comps, Rows) /\ PFun(s.names, Names, Comps) /\ PFun(s.rev, Comps, Names)
  /\ PFun(s.seqs, Names, Nat) /\ s.last \in Nat /\ s.stuck \in Stucks /\ s.halted \in BOOLEAN

BatchOK(g) ==
  /\ On(g, {"puts", "removes", "inserts", "unbinds", "ns", "last", "stuck", "stop", "skipped"})
  /\ PFun(g.puts, Comps, Rows) /\ g.removes \subseteq Comps /\ g.inserts \in Seq(Binds)
  /\ g.unbinds \subseteq Names /\ g.ns \in BOOLEAN /\ g.last \in Nat /\ g.stuck \in Stucks
  /\ g.stop \in BOOLEAN /\ g.skipped \subseteq Comps

PollOK(h) ==
  \/ h = Idle
  \/ h.pc = "staging" /\ On(h, {"pc", "to", "batch"}) /\ h.to \in Nat /\ BatchOK(h.batch)
  \/ h \in [pc : {"settle"}, todo : SUBSET Comps]
  \/ h \in [pc : {"drain"}, todo : SUBSET Comps, id : Comps]

Locks == {Idle} \cup [pc : {"get", "type"}, id : Comps, row : Rows]
Requests == {"unused", "fanning", "emitting", "acked", "failed", "deleting", "deleted", "limbo"}

LogOK ==
  /\ log \in Seq(Deltas) /\ Len(log) <= MaxLog /\ wm \in 0 .. Len(log)
  /\ intents \subseteq Comps /\ emits \subseteq Ingress

CallsOK ==
  /\ st \in [Comps -> Requests] /\ by \in [Comps -> Ingress]
  /\ name \in [Comps -> Names \cup {NoName}] /\ pseq \in [Comps -> Nat]

NodeOK(n) ==
  /\ StorageOK(store[n]) /\ store[n].last <= Len(log)
  /\ PFun(pending[n], Comps, Rows) /\ PFun(pnames[n], Names, Comps)
  /\ PFun(cache[n], Comps, Rows) /\ PollOK(hy[n])

NodesOK ==
  /\ On(store, Nodes) /\ On(pending, Nodes) /\ On(pnames, Nodes) /\ On(cache, Nodes) /\ On(hy, Nodes)
  /\ ns \in [Nodes -> BOOLEAN] /\ lk \in [Nodes -> Locks]
  /\ \A n \in Nodes : NodeOK(n)

MarksOK ==
  /\ PFun(reported, Nodes, 0 .. Len(log)) /\ PFun(gathered, Nodes, 0 .. Len(log))
  /\ restarts \in Nat /\ wiped \subseteq Nodes /\ rolled \subseteq Nodes
  /\ forgot \subseteq Comps /\ skips \in [Nodes -> SUBSET Comps]

(* Type invariant of the log, the requests, the stores, the hydrators and the *)
(* watermark.                                                                 *)
TypeOK == LogOK /\ CallsOK /\ NodesOK /\ MarksOK

(* ADR-047 read-your-writes: from its acknowledgement on, a composition is    *)
(* found on the node that took the PUT, in the overlay or durably, through    *)
(* staging, failed commits and the drain, until it is deleted or the node     *)
(* restarts (create_with_name_volatile, drain_pending).                       *)
ReadYourWrites ==
  \A x \in Comps \ forgot : st[x] = "acked" =>
    x \in DOMAIN pending[by[x]] \cup DOMAIN store[by[x]].comps

\* The delta that registers the namespace precedes the create of x in the log.
NamespaceFirst(x) ==
  \E i, j \in DOMAIN log : i < j /\ log[i].op = "ns" /\ log[j].op = "create" /\ log[j].id = x

(* I-CP1, I-CP6: on no node does an acknowledged composition fall between the *)
(* durable rows, the deltas still ahead of the durable position and the       *)
(* pending intents, whatever restarts and failed commits.  The only way to    *)
(* miss one is to give its Create up after Retries, and that takes a restart  *)
(* or a rollback that forgot a namespace already behind the position, or a    *)
(* Create that overtook the delta of its namespace (poll,                     *)
(* ensure_namespace_exists).                                                  *)
AckedNotMissed ==
  \A n \in Nodes, x \in Comps : st[x] = "acked" /\ ~store[n].halted =>
    \/ x \in DOMAIN store[n].comps \/ x \in intents
    \/ \E i \in DOMAIN log : i > store[n].last /\ log[i].op = "create" /\ log[i].id = x
    \/ x \in skips[n] /\ (restarts > 0 \/ n \in rolled \/ ~NamespaceFirst(x))

\* Ids created by the first p deltas and not deleted after their last create.
Replayed(p) ==
  {x \in Comps : \E i \in 1 .. p :
     /\ log[i].op = "create" /\ log[i].id = x
     /\ \A j \in i + 1 .. p : ~(log[j].op = "delete" /\ log[j].id = x)}

(* I-CP1: the rows of a node without gateway writes are, at every moment,     *)
(* the replay of the log up to the durable position one delta at a time,      *)
(* however the polls cut it into windows and wherever it was restarted        *)
(* (Staging, apply_hydration_batch).                                          *)
FollowerIsReplay ==
  \A n \in Nodes \ Ingress : skips[n] = {} =>
    DOMAIN store[n].comps = Replayed(store[n].last)

(* I-L4: pruning never outruns a voter's hydrator, whatever answers the round *)
(* mixed, from before or after restarts: a hydrator halts only on a store     *)
(* that was wiped (advance_hydrator_watermark_round, enter_halt_mode).        *)
HaltOnlyAfterWipe == \A n \in Nodes : store[n].last + 1 < wm => n \in wiped

(* I-CP6: no delta holds a hydrator up for ever, not even one that cannot be  *)
(* applied: every node catches up with the log again and again, or halts       *)
(* (poll, the transient-retry threshold).                                      *)
EveryDeltaIsPassed ==
  \A n \in Nodes : []<>(store[n].last = Len(log) \/ store[n].halted)

\* Among the first p deltas there is a create of x and, after it, a delete.
DeadBy(p, x) ==
  \E i, j \in 1 .. p : /\ i < j /\ log[i].op = "create" /\ log[j].op = "delete"
                       /\ log[i].id = x /\ log[j].id = x

(* A delete is final on the node that served it: once it was answered and the *)
(* hydrator is past its delta, the row is neither stored nor pending, at any  *)
(* moment and whichever of the local delete, the replay of the create, the    *)
(* drain, a concurrent set_content_type and a restart came first.  A Delete   *)
(* committed before its Create is excused, and a name can stay bound          *)
(* (stage_create, stage_delete, CompositionStore delete).                     *)
DeletedRowIsGone ==
  \A x \in Comps : LET n == by[x] IN
    st[x] = "deleted" /\ DeadBy(store[n].last, x) =>
      x \notin DOMAIN store[n].comps \cup DOMAIN pending[n]

-----------------------------------------------------------------------------
(* The inductive invariant behind the safety properties.  A live request was  *)
(* submitted and neither failed nor asked to be deleted.                      *)
Live(x) == st[x] \in {"fanning", "emitting", "acked"}
DeltaOf(op, x, i) == log[i].op = op /\ log[i].id = x
Polling(n) == hy[n].pc = "staging"
Undrained(n) == CASE hy[n].pc = "settle" -> hy[n].todo
                  [] hy[n].pc = "drain" -> hy[n].todo \cup {hy[n].id}
                  [] OTHER -> {}

\* Positions are indices; a composition is created at most once, from an intent
\* no longer pending; only a request on its way out has a Delete in the log.
RequestsInv ==
  /\ \A i \in DOMAIN log : log[i].at = i
  /\ \A x \in Comps :
       /\ \A i, j \in DOMAIN log : DeltaOf("create", x, i) /\ DeltaOf("create", x, j) => i = j
       /\ \A i \in DOMAIN log : DeltaOf("delete", x, i) => st[x] \in {"deleting", "deleted", "limbo"}
       /\ x \in intents => ~Created(x)
       /\ IF st[x] = "unused" THEN x \notin intents /\ ~Created(x) /\ \A n \in Nodes : x \notin DOMAIN pending[n]
                              ELSE x \in intents \/ Created(x)

\* What is reported, gathered and staged against what is durable.
PositionsInv ==
  \A n \in Nodes :
    /\ Polling(n) => /\ store[n].last <= hy[n].batch.last /\ hy[n].batch.last <= hy[n].to
                     /\ hy[n].to <= Len(log)
    /\ n \in DOMAIN reported => reported[n] <= store[n].last
    /\ n \notin wiped => /\ wm <= store[n].last
                         /\ n \in DOMAIN gathered => gathered[n] <= store[n].last

\* What is staged, and what is left to drain, against the log and the rows.
StagingInv ==
  \A n \in Nodes, x \in Comps :
    /\ Polling(n) => LET g == hy[n].batch IN
         /\ ~(x \in DOMAIN g.puts /\ x \in g.removes)
         /\ x \in g.removes => \E i \in DOMAIN log : DeltaOf("delete", x, i)
         /\ DeadBy(g.last, x) => x \notin DOMAIN g.puts
    /\ (Live(x) \/ st[x] = "unused") /\ x \in Undrained(n) => x \in DOMAIN store[n].comps

\* A live composition is on the node that took it, unless a restart forgot it.
HeldInv ==
  \A x \in Comps \ forgot : Live(x) =>
    x \in DOMAIN pending[by[x]] \cup DOMAIN store[by[x]].comps

\* x is a row, or will be: c are the rows, p the position, given those given up.
NotMissed(x, c, p, given) ==
  \/ x \in c \/ x \in intents \/ x \in given
  \/ \E i \in DOMAIN log : i > p /\ DeltaOf("create", x, i)

\* The namespaces behind position p are known, unless a fault made n forget them.
Registered(n, p, known) ==
  restarts = 0 /\ n \notin rolled /\ (\E i \in 1 .. p : log[i].op = "ns") => known

Excused(n, x) == Created(x) /\ (restarts > 0 \/ n \in rolled \/ ~NamespaceFirst(x))

MissedInv ==
  \A n \in Nodes :
    /\ Registered(n, store[n].last, ns[n])
    /\ \A x \in skips[n] : Excused(n, x)
    /\ \A x \in Comps : Live(x) => NotMissed(x, DOMAIN store[n].comps, store[n].last, skips[n])
    /\ Polling(n) => LET g == hy[n].batch IN
         /\ Registered(n, g.last, ns[n] \/ g.ns)
         /\ \A x \in g.skipped : Excused(n, x)
         /\ \A x \in Comps : Live(x) =>
              NotMissed(x, DOMAIN store[n].comps \cup DOMAIN g.puts, g.last, skips[n] \cup g.skipped)

\* The rows of a follower, and the rows it is about to have.
ReplayInv ==
  \A n \in Nodes \ Ingress :
    /\ lk[n].pc # "type"
    /\ skips[n] = {} => DOMAIN store[n].comps = Replayed(store[n].last)
    /\ Polling(n) => LET g == hy[n].batch IN
         skips[n] \cup g.skipped = {} =>
           (DOMAIN store[n].comps \cup DOMAIN g.puts) \ g.removes = Replayed(g.last)

\* On n, x is only in the overlay or its delete was answered: nothing writes its
\* row back.
Gone(n, x) == x \in DOMAIN pending[n] \/ (st[x] = "deleted" /\ by[x] = n)

DeletedInv ==
  \A n \in Nodes, x \in Comps :
    /\ lk[n].pc = "type" /\ lk[n].id = x => st[x] # "unused" /\ ~Gone(n, x)
    /\ st[x] = "deleted" => x \notin DOMAIN pending[by[x]]
    /\ DeadBy(store[n].last, x) /\ Gone(n, x) => x \notin DOMAIN store[n].comps
    /\ Polling(n) /\ DeadBy(hy[n].batch.last, x) /\ Gone(n, x) =>
         x \notin DOMAIN store[n].comps \ hy[n].batch.removes

(* The whole of it: what the requests, the log, the staged batches, the        *)
(* positions, the overlay and the rows of every node owe each other at every   *)
(* step of a poll, a gateway call, a watermark round and a restart.            *)
CompInv ==
  /\ TypeOK /\ RequestsInv /\ PositionsInv /\ StagingInv /\ HeldInv /\ MissedInv /\ ReplayInv
  /\ DeletedInv
=============================================================================
