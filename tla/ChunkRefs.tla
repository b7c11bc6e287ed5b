----------------------------- MODULE ChunkRefs ------------------------------
(***************************************************************************)
(* Who may still need a chunk: the two reference counts kiseki keeps.  Each *)
(* node's chunk store counts the writes that put a chunk there (local);     *)
(* the shard's state machine counts it once per cluster                     *)
(* (cluster_chunk_state, table).  Gateways write compositions (each of one  *)
(* chunk here), first trying to share a chunk their own node already has;   *)
(* deletes decrement both counts and, when the cluster's reaches zero, send *)
(* DeleteFragment to every other node.                                      *)
(*                                                                         *)
(* Raft is the sequence of committed table commands; the local store is     *)
(* ChunkStore, seen here as one atomic count per chunk; the intent that     *)
(* carries a create is LeaderSink, seen as a commit at any later time.      *)
(***************************************************************************)
EXTENDS Naturals, Sequences, FiniteSets

CONSTANTS Nodes,       \* gateways, all in the placement of the chunk
          Replicas,    \* nodes that replicate the shard
          Comps,       \* compositions, each written and deleted at most once
          Chunks,      \* chunk ids, derived from the content
          Content,     \* the chunk of each composition
          Need,        \* copies that acknowledge a chunk write
          ParkCap,     \* PENDING_CHUNK_DECREMENTS_CAP
          MaxFaults    \* lost requests, snapshots installed and scrub repairs

ASSUME ChunkRefsAssumption ==
  /\ IsFiniteSet(Nodes) /\ Replicas \subseteq Nodes /\ Replicas # {}
  /\ Content \in [Comps -> Chunks]
  /\ Need \in 1..Cardinality(Nodes) /\ ParkCap \in Nat /\ MaxFaults \in Nat

VARIABLES local,     \* local[n]: refcount of every chunk in n's store
          log,       \* committed Create and Decrement commands
          applied,   \* entries each state machine has applied or skipped
          table,     \* cluster_chunk_state of each replica
          parked,    \* pending_chunk_decrements of each replica
          net,       \* PutFragment requests on their way
          w,         \* state of the write of each composition
          d,         \* state of the delete of each composition
          installed, \* a replica skipped commands by installing a snapshot
          faults

vars == <<local, log, applied, table, parked, net, w, d,
          installed, faults>>
raft == <<log, applied, table, parked, installed>>

c(x) == Content[x]
Has(n, k) == k \in DOMAIN local[n]
Done == [pc |-> "done"]
Bind(f, k, v) == [j \in DOMAIN f \cup {k} |-> IF j = k THEN v ELSE f[j]]
Fault == faults < MaxFaults /\ faults' = faults + 1

-----------------------------------------------------------------------------
\* The local store: write_chunk creates or bumps, decrement_refcount refuses
\* an unknown chunk and one at zero.
Put(n, k) == local' = [local EXCEPT ![n] = Bind(@, k, IF Has(n, k) THEN @[k] + 1 ELSE 1)]

Mut_Drop(n, k) ==
  local' = IF Has(n, k) THEN [local EXCEPT ![n][k] = @ - 1] ELSE local

Drop(n, k) ==
  local' = IF Has(n, k) /\ local[n][k] > 0 THEN [local EXCEPT ![n][k] = @ - 1] ELSE local

\* gc of one node: chunks at zero leave its store.
Gc(n) ==
  /\ \E k \in DOMAIN local[n] : local[n][k] = 0
  /\ local' = [local EXCEPT ![n] = [k \in {j \in DOMAIN @ : @[j] > 0} |-> @[k]]]
  /\ UNCHANGED <<raft, net, w, d, faults>>

-----------------------------------------------------------------------------
Mut_Hit(x, n) ==
  /\ w[x].pc = "new" /\ Has(n, c(x))
  /\ w' = [w EXCEPT ![x] = [pc |-> "placed", at |-> n, fresh |-> FALSE, acks |-> {}]]
  /\ UNCHANGED <<raft, local, net, d, faults>>

\* write_impl, dedup preflight: try_increment_if_exists on the gateway's node.
\* A hit takes a local reference and reports no new chunk to the log.
Hit(x, n) ==
  /\ w[x].pc = "new" /\ Has(n, c(x))
  /\ Put(n, c(x))
  /\ w' = [w EXCEPT ![x] = [pc |-> "placed", at |-> n, fresh |-> FALSE, acks |-> {}]]
  /\ UNCHANGED <<raft, net, d, faults>>

\* A miss seals the chunk ...
Miss(x, n) ==
  /\ w[x].pc = "new" /\ ~Has(n, c(x))
  /\ w' = [w EXCEPT ![x] = [pc |-> "sealed", at |-> n, fresh |-> TRUE, acks |-> {}]]
  /\ UNCHANGED <<raft, local, net, d, faults>>

\* ... and ClusteredChunkStore::write_chunk puts it here and fans it out.
Fan(x) ==
  /\ w[x].pc = "sealed"
  /\ Put(w[x].at, c(x))
  /\ net' = net \cup {<<p, x>> : p \in Nodes \ {w[x].at}}
  /\ w' = [w EXCEPT ![x].pc = "fan", ![x].acks = {w[x].at}]
  /\ UNCHANGED <<raft, d, faults>>

\* handle_put_fragment on a peer; it may run long after the fan has ended.
PutFragment(p, x) ==
  /\ <<p, x>> \in net
  /\ Put(p, c(x))
  /\ net' = net \ {<<p, x>>}
  /\ w' = IF w[x].pc = "fan" THEN [w EXCEPT ![x].acks = @ \cup {p}] ELSE w
  /\ UNCHANGED <<raft, d, faults>>

\* Early exit at the quorum; the other requests keep going.
FanDone(x) ==
  /\ w[x].pc = "fan" /\ Cardinality(w[x].acks) >= Need
  /\ w' = [w EXCEPT ![x].pc = "placed", ![x].acks = {}]
  /\ UNCHANGED <<raft, local, net, d, faults>>

\* QuorumLost: the write fails; nothing that was stored is taken back, and a
\* request that timed out may still be served.
FanFails(x) ==
  /\ w[x].pc = "fan" /\ Cardinality(w[x].acks) < Need /\ Fault
  /\ w' = [w EXCEPT ![x].pc = "failed", ![x].acks = {}]
  /\ UNCHANGED <<raft, local, net, d>>

\* The intent of the create is recorded beside the chunk fan (try_join!); the
\* client has its answer when both are done.
Ack(x) ==
  /\ w[x].pc = "placed"
  /\ w' = [w EXCEPT ![x].pc = "acked"]
  /\ UNCHANGED <<raft, local, net, d, faults>>

-----------------------------------------------------------------------------
Mut_Created(s, k) ==
  IF k \in DOMAIN s.rows THEN s
  ELSE [s EXCEPT !.rows = Bind(@, k, [rc |-> 1, tomb |-> FALSE])]

MutB_Created(s, k) ==
  IF k \in DOMAIN s.rows THEN s
  ELSE [s EXCEPT !.rows = Bind(@, k, [rc |-> 1, tomb |-> s.parked[k] >= 0])]

\* apply_new_chunks: a known chunk keeps its row and its count; a new row
\* absorbs the parked decrements.
Created(s, k) ==
  IF k \in DOMAIN s.rows THEN s
  ELSE [rows   |-> Bind(s.rows, k, [rc   |-> IF s.parked[k] > 0 THEN 0 ELSE 1,
                                    tomb |-> s.parked[k] > 0]),
        parked |-> [s.parked EXCEPT ![k] = 0]]

\* A decrement of chunk k finds no place: it is not parked yet, and ParkCap
\* chunks are.
Refused(park, k) == park[k] = 0 /\ Cardinality({j \in Chunks : park[j] > 0}) >= ParkCap

\* DecrementChunkRefcount: saturating; on a missing row it is parked, unless
\* that is refused.
Decremented(s, k) ==
  IF k \in DOMAIN s.rows
  THEN LET rc == IF s.rows[k].rc = 0 THEN 0 ELSE s.rows[k].rc - 1
       IN [s EXCEPT !.rows[k] = [rc |-> rc, tomb |-> @.tomb \/ rc = 0]]
  ELSE IF Refused(s.parked, k) THEN s
  ELSE [s EXCEPT !.parked[k] = @ + 1]

\* The outcome the leader returns: this command made the tombstone.
TombstonedNow(s, k) == /\ k \in DOMAIN s.rows /\ ~s.rows[k].tomb
                       /\ Decremented(s, k).rows[k].tomb

Machine(n) == [rows |-> table[n], parked |-> parked[n]]
Effect(s, cmd) == IF cmd.op = "create" THEN Created(s, cmd.chunk)
                  ELSE Decremented(s, cmd.chunk)
SetMachine(n, s) == /\ table'  = [table EXCEPT ![n] = s.rows]
                    /\ parked' = [parked EXCEPT ![n] = s.parked]
                    /\ applied' = [applied EXCEPT ![n] = @ + 1]

InLog(x) == \E i \in 1..Len(log) : log[i].op = "create" /\ log[i].comp = x

\* The committer incorporates the create; only a sealed chunk is in new_chunks.
\* It may do so before the fan has ended, and even if the fan then fails: the
\* intent is durable on its own.
CommitCreate(x) ==
  /\ w[x].pc # "new" /\ w[x].fresh /\ ~InLog(x)
  /\ log' = Append(log, [op |-> "create", comp |-> x, chunk |-> c(x)])
  /\ UNCHANGED <<local, applied, table, parked, net, w, d, installed, faults>>

Apply(n) ==
  /\ applied[n] < Len(log)
  /\ SetMachine(n, Effect(Machine(n), log[applied[n] + 1]))
  /\ UNCHANGED <<local, log, net, w, d, installed, faults>>

\* install_snapshot leaves the chunk table and the parked decrements alone.
InstallSnapshot(n) ==
  /\ applied[n] < Len(log) /\ Fault
  /\ applied' = [applied EXCEPT ![n] = Len(log)]
  /\ installed' = TRUE
  /\ UNCHANGED <<local, log, table, parked, net, w, d>>

-----------------------------------------------------------------------------
\* delete at gateway n: the composition must be known there (its own writes
\* at once, others when hydrated); the delta is emitted, the entry removed,
\* the local reference dropped.
Delete(x, n) ==
  /\ w[x].pc = "acked" /\ d[x].pc = "no"
  /\ n = w[x].at \/ ~w[x].fresh \/ InLog(x)
  /\ Drop(n, c(x))
  /\ d' = [d EXCEPT ![x] = [pc |-> "dec", via |-> n]]
  /\ UNCHANGED <<raft, net, w, faults>>

\* decrement_cluster_refcount: proposed to the leader of the moment, which answers whether
\* this command made the tombstone.
DecrementCluster(x, r) ==
  /\ d[x].pc = "dec" /\ applied[r] = Len(log)
  /\ log' = Append(log, [op |-> "decrement", comp |-> x, chunk |-> c(x)])
  /\ SetMachine(r, Decremented(Machine(r), c(x)))
  /\ d' = IF TombstonedNow(Machine(r), c(x))
          THEN [d EXCEPT ![x] = [pc |-> "fan", todo |-> Nodes \ {@.via}]]
          ELSE [d EXCEPT ![x] = Done]
  /\ UNCHANGED <<local, net, w, installed, faults>>

\* No leader, no forwarder: the decrement is dropped with an error line.
DecrementFails(x) ==
  /\ d[x].pc = "dec" /\ Fault
  /\ d' = [d EXCEPT ![x] = Done]
  /\ UNCHANGED <<raft, local, net, w>>

Sent(r, p) == IF r.todo = {p} THEN Done ELSE [r EXCEPT !.todo = @ \ {p}]

\* delete_distributed: one DeleteFragment per peer, failures only counted.
DeleteFragment(x, p) ==
  /\ d[x].pc = "fan" /\ p \in d[x].todo
  /\ Drop(p, c(x)) /\ UNCHANGED faults
  /\ d' = [d EXCEPT ![x] = Sent(@, p)]
  /\ UNCHANGED <<raft, net, w>>

DeleteFragmentFails(x, p) ==
  /\ d[x].pc = "fan" /\ p \in d[x].todo /\ Fault
  /\ d' = [d EXCEPT ![x] = Sent(@, p)]
  /\ UNCHANGED <<raft, local, net, w>>

\* The under-replication scrub of node n: a chunk whose row is alive is read
\* from a holder and put to a peer that answered "no".  The probe asks for a
\* fragment index above zero, so a replica that has the chunk answers "no" too.
Repair(n, k, p) ==
  /\ Fault
  /\ k \in DOMAIN table[n] /\ ~table[n][k].tomb
  /\ \E s \in Nodes \ {p} : Has(s, k)
  /\ Put(p, k)
  /\ UNCHANGED <<raft, net, w, d>>

-----------------------------------------------------------------------------
Init ==
  /\ local = [n \in Nodes |-> <<>>]
  /\ log = <<>> /\ applied = [n \in Replicas |-> 0]
  /\ table = [n \in Replicas |-> <<>>] /\ parked = [n \in Replicas |-> [k \in Chunks |-> 0]]
  /\ net = {}
  /\ w = [x \in Comps |-> [pc |-> "new"]] /\ d = [x \in Comps |-> [pc |-> "no"]]
  /\ installed = FALSE
  /\ faults = 0

Next ==
  \/ \E n \in Nodes : Gc(n)
  \/ \E n \in Replicas : Apply(n) \/ InstallSnapshot(n)
  \/ \E x \in Comps :
       \/ \E n \in Nodes : Hit(x, n) \/ Miss(x, n) \/ Delete(x, n)
       \/ \E p \in Nodes : \/ PutFragment(p, x)
                           \/ DeleteFragment(x, p) \/ DeleteFragmentFails(x, p)
       \/ Fan(x) \/ FanDone(x) \/ FanFails(x) \/ Ack(x)
       \/ CommitCreate(x) \/ DecrementFails(x)
       \/ \E r \in Replicas : DecrementCluster(x, r)
  \/ \E n \in Replicas, k \in Chunks, p \in Nodes : Repair(n, k, p)

Spec == Init /\ [][Next]_vars

-----------------------------------------------------------------------------
Live(x) == w[x].pc = "acked" /\ d[x].pc = "no"
Holders(k) == {n \in Nodes : Has(n, k) /\ local[n][k] > 0}

Row == [rc : Nat, tomb : BOOLEAN]
Write == [pc : {"new"}]
           \cup [pc : {"sealed", "fan", "placed", "failed", "acked"}, at : Nodes,
                 fresh : BOOLEAN, acks : SUBSET Nodes]
Deletion == [pc : {"no", "done"}] \cup [pc : {"dec"}, via : Nodes]
              \cup [pc : {"fan"}, todo : SUBSET Nodes]
Command == [op : {"create", "decrement"}, comp : Comps, chunk : Chunks]
OnChunks(f, S) == DOMAIN f \subseteq Chunks /\ f \in [DOMAIN f -> S]

\* Types of the counts, the tables, the log and the calls in progress.
TypeOK ==
  /\ DOMAIN local = Nodes /\ \A n \in Nodes : OnChunks(local[n], Nat)
  /\ log \in Seq(Command) /\ applied \in [Replicas -> 0..Len(log)]
  /\ DOMAIN table = Replicas /\ \A n \in Replicas : OnChunks(table[n], Row)
  /\ parked \in [Replicas -> [Chunks -> Nat]]
  /\ net \subseteq Nodes \X Comps
  /\ w \in [Comps -> Write] /\ d \in [Comps -> Deletion] /\ installed \in BOOLEAN

\* The chunk of an acknowledged composition that nobody deleted is on some
\* node with a reference, however writes, dedup hits, deletes of others, late
\* fragments and GC interleave; unless a snapshot made the tables differ.
StillReadable == installed \/ \A x \in Comps : Live(x) => Holders(c(x)) # {}

\* A tombstone is made only by a delete: no replica shows one for a chunk of
\* which no composition was ever deleted.
NoEarlyTombstone ==
  \A n \in Replicas : \A k \in DOMAIN table[n] :
    table[n][k].tomb => \E x \in Comps : c(x) = k /\ d[x].pc # "no"

\* No delete is lost to the order of commands: once every composition of a
\* chunk was deleted, a replica that applied those decrements and has the row
\* shows the tombstone, even if the create came last (GH #241).
DeleteIsNotLost ==
  installed \/ \A n \in Replicas : \A k \in DOMAIN table[n] :
    (\A x \in Comps : c(x) = k /\ w[x].pc # "new" =>
        \E i \in 1..applied[n] : log[i].op = "decrement" /\ log[i].comp = x)
    => table[n][k].tomb

\* The tombstone that lets a delete remove the copies of all nodes is made
\* only when no other composition uses the chunk (I-C2; the comment of the
\* gateway's delete reads "not tombstoned" as "still referenced").
SharedNotTombstoned ==
  \A x \in Comps, n \in Replicas :
    Live(x) /\ c(x) \in DOMAIN table[n] => ~table[n][c(x)].tomb

-----------------------------------------------------------------------------
(* What makes these inductive. *)

Started(k) == \E x \in Comps : c(x) = k /\ w[x].pc # "new"
Deleting(k) == \E x \in Comps : c(x) = k /\ d[x].pc # "no"

\* A command names the chunk of its composition, written or deleted by then.
LogOK ==
  \A i \in 1..Len(log) :
    /\ log[i].chunk = c(log[i].comp)
    /\ log[i].op = "create" => w[log[i].comp].pc # "new"
    /\ log[i].op = "decrement" => d[log[i].comp].pc # "no"

\* A row counts to one, and is a tombstone from zero on.
RowsOK ==
  \A n \in Replicas :
    /\ \A k \in DOMAIN table[n] :
         /\ table[n][k].rc <= 1 /\ (table[n][k].tomb <=> table[n][k].rc = 0)
         /\ Started(k) /\ (table[n][k].tomb => Deleting(k))
    /\ \A k \in Chunks : parked[n][k] > 0 => Deleting(k)

(* What every command keeps, in whatever order creates and decrements reach   *)
(* the replicas (apply_new_chunks, DecrementChunkRefcount).                   *)
RefsInv == TypeOK /\ LogOK /\ RowsOK

(* A replica that skipped nothing remembers every decrement it applied, as a  *)
(* tombstone or parked until the row comes (GH #241).                         *)
DecrementsKept ==
  installed \/ \A n \in Replicas : \A i \in 1..applied[n] :
    log[i].op = "decrement" =>
      LET k == log[i].chunk IN
      IF k \in DOMAIN table[n] THEN table[n][k].tomb ELSE parked[n][k] > 0

\* A decrement that overtook its create would find its place now.
RoomToPark == \A n \in Replicas, k \in Chunks : ~Refused(parked[n], k)

-----------------------------------------------------------------------------
(* What makes StillReadable inductive: for each chunk, an account of the      *)
(* references given to the local stores and of those taken away again.        *)

Uses(k) == {x \in Comps : c(x) = k}
Deleted(k) == {x \in Uses(k) : d[x].pc # "no"}

\* Writes that shared the chunk, writes that fanned it out, the nodes a fan has
\* reached so far.
Hits(k) == {x \in Uses(k) : w[x].pc # "new" /\ ~w[x].fresh}
Fanned(k) == {x \in Uses(k) : w[x].pc \notin {"new", "sealed"} /\ w[x].fresh}
Reached(x) == {p \in Nodes : <<p, x>> \notin net}
Homes(k) == {p \in Nodes : \E x \in Fanned(k) : p \in Reached(x)}

\* References given: one per hit, one per node that a fan reached.  References
\* there are: as many tokens as the stores of all nodes count.
Copies(k) == {e \in Fanned(k) \X Nodes : e[2] \in Reached(e[1])}
Count(n, k) == IF Has(n, k) THEN local[n][k] ELSE 0
Tokens(k) == UNION {{<<n, i>> : i \in 1..Count(n, k)} : n \in Nodes}

\* Writes and deletes in progress: a request belongs to a fan, never to the
\* fan's own node; a quorum has the chunk; only acknowledged writes are deleted.
CallOK(x) ==
  /\ w[x].pc \in {"sealed", "fan", "failed"} => w[x].fresh
  /\ \A p \in Nodes :
       <<p, x>> \in net => w[x].pc \notin {"new", "sealed"} /\ w[x].fresh /\ p # w[x].at
  /\ w[x].pc = "fan" => w[x].acks \subseteq Reached(x)
  /\ w[x].pc \in {"placed", "acked"} /\ w[x].fresh => Cardinality(Reached(x)) >= Need
  /\ d[x].pc # "no" => w[x].pc = "acked"
CallsOK == IsFiniteSet({x \in Comps : w[x].pc # "new"}) /\ \A x \in Comps : CallOK(x)

\* A decrement of the chunk follows a create of it in the log: from then on no
\* replica that skipped nothing can make the tombstone again.
Logged(i, op, k) == log[i].op = op /\ log[i].chunk = k
Settled(k, m) == \E i, j \in 1..m : j < i /\ Logged(j, "create", k) /\ Logged(i, "decrement", k)
TablesOK ==
  \A n \in Replicas, k \in Chunks :
    /\ k \in DOMAIN table[n] <=> \E j \in 1..applied[n] : Logged(j, "create", k)
    /\ Settled(k, applied[n]) => table[n][k].tomb

\* The account of chunk k.  E are the deletes, and M the nodes a tombstone's
\* DeleteFragment was sent to, that took a reference away; R are nodes that a
\* scrub gave one.  A store has, and loses, references only where a fan or a
\* scrub has been.
Balanced(k, E, M, R) ==
  /\ IsFiniteSet(Tokens(k))
  /\ Cardinality(Tokens(k)) + Cardinality(E) + Cardinality(M)
       >= Cardinality(Copies(k)) + Cardinality(Hits(k)) + Cardinality(R)
  /\ \A p \in Nodes : Has(p, k) => p \in Homes(k) \cup R
  /\ M \subseteq Homes(k) \cup R
  /\ \A x \in E : d[x].pc = "dec" => d[x].via \in Homes(k) \cup R

\* One delete made the tombstone, and its own node was spared by the fan.
Spared(k, E, M, R) ==
  \/ M = {} /\ \A y \in Uses(k) : d[y].pc # "fan"
  \/ /\ Settled(k, Len(log))
     /\ \E z \in Deleted(k), v \in Nodes \ M :
          /\ z \in E => v \in Homes(k) \cup R
          /\ \A y \in Uses(k) : d[y].pc = "fan" => y = z /\ d[y].todo \cap (M \cup {v}) = {}

Accounted(k) ==
  \E E \in SUBSET Deleted(k), M \in SUBSET Nodes, R \in SUBSET Nodes :
    Balanced(k, E, M, R) /\ Spared(k, E, M, R)

(* No write, hit, delete, late fragment, scrub or GC loses a reference that    *)
(* the account does not show, while no snapshot makes the tables differ.       *)
CopiesInv == CallsOK /\ (installed \/ (TablesOK /\ \A k \in Chunks : Accounted(k)))
=============================================================================
