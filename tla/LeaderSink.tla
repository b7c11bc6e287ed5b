----------------------------- MODULE LeaderSink -----------------------------
(***************************************************************************)
(* The decoupled write acknowledgement of kiseki-log (ADR-047, LeaderSink) *)
(* for ONE shard.  A gateway node (the ingress) makes a write intent       *)
(* durable on MinAcks intent stores and acknowledges the client; only      *)
(* later does the shard leader's committer put the intent into the Raft    *)
(* log, where the state machine's dedup gate turns it into a delta.        *)
(*                                                                         *)
(*   ingress flush   intent_fan_coalescer.rs   Put .. Refuse               *)
(*   receiving peer  intent_sync.rs            LateApply                   *)
(*   supervisor      raft_shard_store.rs       Tick, Gather*, Recover      *)
(*   drain           committer_pipeline.rs     Drain                       *)
(*   state machine   raft/state_machine.rs     Apply                       *)
(*                                                                         *)
(* Openraft itself is external: `log' is the committed log, `tail' the     *)
(* current leader's uncommitted entries, and an election keeps an          *)
(* arbitrary prefix of that tail.  A perspective sequence (an HLC) is a    *)
(* natural number: its order is the HLC order, its value the physical      *)
(* milliseconds.  Writers issue them in any order (clock skew).            *)
(***************************************************************************)
EXTENDS Integers, Sequences, FiniteSets

CONSTANTS Nodes,      \* the shard's voters
          NoNode,     \* "no leader known"
          Intents,    \* perspective sequences
          Keys,       \* idempotency keys
          IdemKey,    \* the key of an intent (a keyless one: a key of its own)
          MinAcks,    \* durable copies an acknowledgement needs
          Window,     \* dedup_window_entries
          TimeEvict,  \* whether the wall-clock bound of the window may fire
          BatchCap,   \* DRAIN_BATCH_CAP
          MaxTerm,    \* bound on elections
          MaxLog,     \* bound on submitted items
          MaxCrashes  \* bound on process crashes

ASSUME NodesAssumption  == IsFiniteSet(Nodes) /\ Nodes # {} /\ NoNode \notin Nodes
ASSUME IntentAssumption == /\ IsFiniteSet(Intents) /\ Intents \subseteq Nat
                           /\ IdemKey \in [Intents -> Keys]
ASSUME BoundAssumption  == /\ MinAcks \in 1..Cardinality(Nodes)
                           /\ Window \in Nat \ {0} /\ BatchCap \in Nat \ {0}
                           /\ TimeEvict \in BOOLEAN
                           /\ MaxTerm \in Nat /\ MaxLog \in Nat /\ MaxCrashes \in Nat

VARIABLES
  \* --- ingress flush, per intent -----------------------------------------
  st,        \* "new", "local", "fan", "rescue", "acked", "refused"
  at,        \* the ingress node
  ldr,       \* the leader the resolver returned, or NoNode
  tried,     \* peers whose first attempt is over
  acks,      \* nodes that answered true (the ingress included)
  gaveUp,    \* peers whose rescue attempt is over without an ack
  net,       \* intent_put requests that may still reach their peer
  \* --- durable per-node intent store (abstracted to its pending set) -----
  pend,
  \* --- Raft (external) ----------------------------------------------------
  term, leader, isLeader, everLed, log, tail, entries,
  \* --- state machine of each node (volatile: rebuilt by log replay) ------
  applied, recent, cutoff, deltas,
  \* --- supervisor and committer of each node (volatile) ------------------
  pc, wasLeader, recovered, gfrom, got, inFlight,
  \* --- history ------------------------------------------------------------
  passTerm,  \* term in which the running supervisor pass sampled leadership
  recTerm,   \* term in which the pass of the last recovery sampled leadership
  ackedB4,   \* intents acknowledged before the current term began
  crashes

ingress == <<st, at, ldr, tried, acks, gaveUp, net>>
raft    == <<term, leader, isLeader, everLed, log, tail, entries>>
sm      == <<applied, recent, cutoff, deltas>>
sup     == <<pc, wasLeader, recovered, gfrom, got, inFlight, passTerm, recTerm>>
vars    == <<ingress, pend, raft, sm, sup, ackedB4, crashes>>

Item == [seq : Intents, entry : Nat]

-----------------------------------------------------------------------------
(* The intent store as its callers see it (put_batch): a sequence already  *)
(* pending is a no-op, an idempotency key already pending is a Duplicate   *)
(* and stores nothing, anything else is recorded.  All three acknowledge.  *)

KeysOf(S) == {IdemKey[j] : j \in S}

PutOne(S, i) == IF IdemKey[i] \in KeysOf(S) THEN S ELSE S \cup {i}

\* Restoring a gathered set puts its intents in ascending order.
PutAll(S, R) ==
  S \cup {i \in R : /\ IdemKey[i] \notin KeysOf(S)
                    /\ \A j \in R : j < i => IdemKey[j] # IdemKey[i]}

\* gather_threshold: the views that intersect every set of MinAcks voters.
Mut_GatherThreshold == Cardinality(Nodes) - MinAcks
MutB_GatherThreshold == Cardinality(Nodes) - MinAcks + 2
GatherThreshold == Cardinality(Nodes) - MinAcks + 1

-----------------------------------------------------------------------------
(* The ingress flush of one intent (a batch shares one fate; the batching   *)
(* itself is IntentFanCoalescer).                                          *)

\* Local durable copy; alone it is a quorum when MinAcks = 1.
Put(i, n) ==
  /\ st[i] = "new"
  /\ pend' = [pend EXCEPT ![n] = PutOne(@, i)]
  /\ st'   = [st EXCEPT ![i] = IF MinAcks = 1 THEN "acked" ELSE "local"]
  /\ at'   = [at EXCEPT ![i] = IF MinAcks = 1 THEN NoNode ELSE n]
  /\ acks' = [acks EXCEPT ![i] = {n}]
  /\ UNCHANGED <<ldr, tried, gaveUp, net, raft, sm, sup, ackedB4, crashes>>

\* The local commit failed: the batch is refused before anything is fanned.
PutFail(i) ==
  /\ st[i] = "new"
  /\ st' = [st EXCEPT ![i] = "refused"]
  /\ UNCHANGED <<at, ldr, tried, acks, gaveUp, net, pend, raft, sm, sup, ackedB4, crashes>>

\* The resolver reads the ingress node's view of the leader: unknown, or a
\* node that leads or once led.
Resolve(i, l) ==
  /\ st[i] = "local"
  /\ l \in everLed \cup {NoNode}
  /\ ldr' = [ldr EXCEPT ![i] = l]
  /\ st'  = [st EXCEPT ![i] = "fan"]
  /\ UNCHANGED <<at, tried, acks, gaveUp, net, pend, raft, sm, sup, ackedB4, crashes>>

LeaderHopDue(i) == ldr[i] # NoNode /\ ldr[i] # at[i] /\ ldr[i] \notin tried[i]

\* Leader first, then the other voters one at a time.
Candidates(i) ==
  IF LeaderHopDue(i) THEN {ldr[i]} ELSE Nodes \ (tried[i] \cup {at[i]})

\* The flush of i ends with outcome s: its bookkeeping is dropped.
EndFlush(i, s) ==
  /\ st'     = [st EXCEPT ![i] = s]
  /\ at'     = [at EXCEPT ![i] = NoNode]
  /\ ldr'    = [ldr EXCEPT ![i] = NoNode]
  /\ tried'  = [tried EXCEPT ![i] = {}]
  /\ gaveUp' = [gaveUp EXCEPT ![i] = {}]

\* Peer t stores i and answers true; the quorum, once reached, ends the flush.
AckedBy(i, t) ==
  /\ pend' = [pend EXCEPT ![t] = PutOne(@, i)]
  /\ acks' = [acks EXCEPT ![i] = @ \cup {t}]
  /\ IF Cardinality(acks[i] \cup {t}) >= MinAcks
     THEN EndFlush(i, "acked")
     ELSE /\ tried' = [tried EXCEPT ![i] = @ \cup {t}]
          /\ UNCHANGED <<st, at, ldr, gaveUp>>

\* One targeted RPC that answers in time.  The peer's put and the arrival of
\* its answer are one step: an answer that arrives later acknowledges later.
FanAck(i, t) ==
  /\ st[i] = "fan" /\ t \in Candidates(i)
  /\ AckedBy(i, t)
  /\ UNCHANGED <<net, raft, sm, sup, ackedB4, crashes>>

\* Timeout or error: the peer goes to the rescue pool, and may still apply
\* the abandoned request.
FanFail(i, t) ==
  /\ st[i] = "fan" /\ t \in Candidates(i)
  /\ tried' = [tried EXCEPT ![i] = @ \cup {t}]
  /\ net'   = net \cup {<<i, t>>}
  /\ UNCHANGED <<st, at, ldr, acks, gaveUp, pend, raft, sm, sup, ackedB4, crashes>>

\* The walk is over and still short: every peer that did not ack is asked again,
\* all at once.  The first acks that complete the quorum end the flush; the other
\* requests are abandoned, not cancelled at the peer.  `net' does not count the
\* requests of one intent to one peer: the answer to one may leave another.
RescuePool(i) == tried[i] \ (acks[i] \cup gaveUp[i])

StartRescue(i) ==
  /\ st[i] = "fan" /\ Candidates(i) = {} /\ RescuePool(i) # {}
  /\ st'  = [st EXCEPT ![i] = "rescue"]
  /\ net' = net \cup {<<i, t>> : t \in RescuePool(i)}
  /\ UNCHANGED <<at, ldr, tried, acks, gaveUp, pend, raft, sm, sup, ackedB4, crashes>>

RescueAck(i, t) ==
  /\ st[i] = "rescue" /\ t \in RescuePool(i) /\ <<i, t>> \in net
  /\ AckedBy(i, t)
  /\ net' \in {net, net \ {<<i, t>>}}
  /\ UNCHANGED <<raft, sm, sup, ackedB4, crashes>>

RescueFail(i, t) ==
  /\ st[i] = "rescue" /\ t \in RescuePool(i)
  /\ gaveUp' = [gaveUp EXCEPT ![i] = @ \cup {t}]
  /\ UNCHANGED <<st, at, ldr, tried, acks, net, pend, raft, sm, sup, ackedB4, crashes>>

Mut_Refuse(i) ==
  /\ st[i] = "rescue" /\ RescuePool(i) = {}
  /\ EndFlush(i, "acked")
  /\ UNCHANGED <<acks, net, pend, raft, sm, sup, ackedB4, crashes>>

\* Shortfall: the caller must not acknowledge.
Refuse(i) ==
  /\ \/ st[i] = "rescue" /\ RescuePool(i) = {}
     \/ st[i] = "fan" /\ Candidates(i) = {} /\ RescuePool(i) = {}
  /\ EndFlush(i, "refused")
  /\ acks' = [acks EXCEPT ![i] = {}]
  /\ UNCHANGED <<net, pend, raft, sm, sup, ackedB4, crashes>>

\* A request reaches its peer but its answer no longer counts.
LateApply(i, t) ==
  /\ <<i, t>> \in net
  /\ net'  = net \ {<<i, t>>}
  /\ pend' = [pend EXCEPT ![t] = PutOne(@, i)]
  /\ UNCHANGED <<st, at, ldr, tried, acks, gaveUp, raft, sm, sup, ackedB4, crashes>>

-----------------------------------------------------------------------------
(* Raft, external: leader completeness is assumed, liveness is not.         *)

Elect(n) ==
  /\ term < MaxTerm /\ leader # n /\ ~isLeader[n]
  /\ \E k \in 0..Len(tail) : tail' = SubSeq(tail, 1, k)
  /\ term' = term + 1 /\ leader' = n
  /\ isLeader' = [isLeader EXCEPT ![n] = TRUE]
  /\ everLed'  = everLed \cup {n}
  /\ ackedB4'  = {i \in Intents : st[i] = "acked"}
  /\ UNCHANGED <<ingress, pend, log, entries, sm, sup, crashes>>

\* A deposed leader learns of the higher term.
StepDown(n) ==
  /\ isLeader[n] /\ leader # n
  /\ isLeader' = [isLeader EXCEPT ![n] = FALSE]
  /\ UNCHANGED <<ingress, pend, term, leader, everLed, log, tail, entries, sm, sup,
                 ackedB4, crashes>>

\* The leader's oldest uncommitted entry reaches a majority.
Commit ==
  /\ leader # NoNode /\ tail # <<>>
  /\ entries' = entries + 1
  /\ log'  = log \o [k \in 1..Len(Head(tail)) |->
                       [seq |-> Head(tail)[k], entry |-> entries + 1]]
  /\ tail' = Tail(tail)
  /\ UNCHANGED <<ingress, pend, term, leader, isLeader, everLed, sm, sup, ackedB4, crashes>>

-----------------------------------------------------------------------------
(* The state machine.  An entry is applied item by item under one lock:     *)
(* MidEntry(n) says that node n holds it.                                   *)

MidEntry(n) == /\ applied[n] \in 1..(Len(log) - 1)
               /\ log[applied[n]].entry = log[applied[n] + 1].entry

RecentSeqs(n) == {recent[n][k].seq : k \in 1..Len(recent[n])}

\* push_recent_and_evict: push, then drop from the front while the entry cap
\* is exceeded or the front is older than the wall-clock bound (never the
\* entry just pushed, whose age is zero).
EvictionCounts(r) ==
  {m \in 0..(Len(r) - 1) : /\ Len(r) - m <= Window
                           /\ TimeEvict \/ m = 0 \/ Len(r) - m >= Window}

MaxNat(a, b) == IF a >= b THEN a ELSE b

\* The gates of apply_one_incorporate: duplicate, and ancient by log index.
Mut_Gated(n, it)  == it.entry < cutoff[n]
MutB_Gated(n, it) == it.seq \in RecentSeqs(n) \/ it.seq \notin pend[n]
Gated(n, it) == it.seq \in RecentSeqs(n) \/ it.entry < cutoff[n]

\* apply_one_incorporate: gates, append, record and evict.
Apply(n) ==
  LET it == log[applied[n] + 1]
      r  == Append(recent[n], it)
  IN
  /\ applied[n] < Len(log)
  /\ applied' = [applied EXCEPT ![n] = @ + 1]
  /\ IF Gated(n, it)
     THEN UNCHANGED <<recent, cutoff, deltas>>
     ELSE /\ deltas' = [deltas EXCEPT ![n] = Append(@, it.seq)]
          /\ \E m \in EvictionCounts(r) :
               /\ recent' = [recent EXCEPT ![n] = SubSeq(r, m + 1, Len(r))]
               /\ cutoff' = [cutoff EXCEPT ![n] =
                               IF m = 0 THEN @ ELSE MaxNat(@, r[m].entry + 1)]
  /\ UNCHANGED <<ingress, pend, raft, sup, ackedB4, crashes>>

-----------------------------------------------------------------------------
(* The supervisor loop (run_supervisor_loop), one pass:                     *)
(* self-prune and leadership sample; gather; recover; drain.                *)

\* Self-prune removes exactly the sequences in this node's recent set.
Mut_SelfPruned(n) == pend[n] \ (RecentSeqs(n) \cup inFlight[n])
SelfPruned(n) == pend[n] \ RecentSeqs(n)

\* Self-prune, then the leadership sample: a rising edge asks for a recovery (after a wait for
\* the applied index that a timeout may cut short, so it constrains nothing),
\* a falling edge forgets the rounds in flight (and `recovered', not read again
\* before the next rising edge clears it, is cleared at once).
Tick(n) ==
  /\ pc[n] = "tick" /\ ~MidEntry(n)
  /\ pend' = [pend EXCEPT ![n] = SelfPruned(n)]
  /\ wasLeader' = [wasLeader EXCEPT ![n] = isLeader[n]]
  /\ recovered' = [recovered EXCEPT ![n] = @ /\ isLeader[n] /\ wasLeader[n]]
  /\ recTerm'   = [recTerm EXCEPT ![n] = IF isLeader[n] THEN @ ELSE 0]
  /\ inFlight'  = [inFlight EXCEPT ![n] = IF ~isLeader[n] /\ wasLeader[n] THEN {} ELSE @]
  /\ pc' = [pc EXCEPT ![n] = IF ~isLeader[n] THEN "tick"
                             ELSE IF recovered'[n] THEN "drain" ELSE "gather"]
  /\ passTerm' = [passTerm EXCEPT ![n] = IF isLeader[n] THEN term ELSE 0]
  /\ UNCHANGED <<ingress, raft, sm, gfrom, got, ackedB4, crashes>>

Mut_GatherReply(n, p) ==
  /\ pc[n] = "gather" /\ p \in Nodes \ ({n} \cup gfrom[n])
  /\ gfrom' = [gfrom EXCEPT ![n] = @ \cup {p}]
  /\ UNCHANGED <<ingress, pend, raft, sm, pc, wasLeader, recovered, inFlight, passTerm,
                 recTerm, got, ackedB4, crashes>>

\* A peer answers the gather with its pending set.
GatherReply(n, p) ==
  /\ pc[n] = "gather" /\ p \in Nodes \ ({n} \cup gfrom[n])
  /\ gfrom' = [gfrom EXCEPT ![n] = @ \cup {p}]
  /\ got'   = [got EXCEPT ![n] = @ \cup pend[p]]
  /\ UNCHANGED <<ingress, pend, raft, sm, pc, wasLeader, recovered, inFlight, passTerm,
                 recTerm, ackedB4, crashes>>

EndGather(n) == /\ gfrom' = [gfrom EXCEPT ![n] = {}]
                /\ got'   = [got EXCEPT ![n] = {}]

Mut_GatherShort(n) ==
  /\ pc[n] = "gather" /\ Cardinality(gfrom[n]) + 1 < GatherThreshold
  /\ pc' = [pc EXCEPT ![n] = "retry"]
  /\ passTerm' = [passTerm EXCEPT ![n] = 0]
  /\ EndGather(n)
  /\ UNCHANGED <<ingress, pend, raft, sm, wasLeader, recovered, inFlight, recTerm,
                 ackedB4, crashes>>

\* The gather ends below the threshold: retry on the next tick, do not drain.
GatherShort(n) ==
  /\ pc[n] = "gather" /\ Cardinality(gfrom[n]) + 1 < GatherThreshold
  /\ pc' = [pc EXCEPT ![n] = "tick"]
  /\ passTerm' = [passTerm EXCEPT ![n] = 0]
  /\ EndGather(n)
  /\ UNCHANGED <<ingress, pend, raft, sm, wasLeader, recovered, inFlight, recTerm,
                 ackedB4, crashes>>

\* The recovery filter: drop what this node has applied, and, once the window
\* has evicted anything, what predates every recent entry by more than 1 ms.
Kept(n) ==
  {i \in got[n] : /\ i \notin RecentSeqs(n)
                  /\ \/ cutoff[n] = 0 \/ RecentSeqs(n) = {}
                     \/ \E r \in RecentSeqs(n) : /\ \A q \in RecentSeqs(n) : r <= q
                                                 /\ i >= r - 1}

Recover(n) ==
  /\ pc[n] = "gather" /\ ~MidEntry(n)
  /\ Cardinality(gfrom[n]) + 1 >= GatherThreshold
  /\ pend' = [pend EXCEPT ![n] = PutAll(@, Kept(n))]
  /\ recovered' = [recovered EXCEPT ![n] = TRUE]
  /\ recTerm'   = [recTerm EXCEPT ![n] = passTerm[n]]
  /\ pc' = [pc EXCEPT ![n] = "drain"]
  /\ EndGather(n)
  /\ UNCHANGED <<ingress, raft, sm, wasLeader, inFlight, passTerm, ackedB4, crashes>>

\* The store fails part of the way through restore_into, which puts one intent
\* at a time in ascending order: what was put stays, recovery is retried.
RestoreFails(n) ==
  /\ pc[n] = "gather" /\ ~MidEntry(n)
  /\ Cardinality(gfrom[n]) + 1 >= GatherThreshold
  /\ \E R \in SUBSET Kept(n) : /\ \A x \in R, y \in Kept(n) \ R : x < y
                              /\ pend' = [pend EXCEPT ![n] = PutAll(@, R)]
  /\ pc' = [pc EXCEPT ![n] = "tick"]
  /\ passTerm' = [passTerm EXCEPT ![n] = 0]
  /\ EndGather(n)
  /\ UNCHANGED <<ingress, raft, sm, wasLeader, recovered, inFlight, recTerm,
                 ackedB4, crashes>>

\* Rounds whose outcome is known are reaped: applied here, or failed because
\* this node no longer leads.
StillInFlight(n) ==
  IF leader = n
  THEN {i \in inFlight[n] :
          \/ \E k \in 1..Len(tail) : \E j \in 1..Len(tail[k]) : tail[k][j] = i
          \/ \E k \in (applied[n] + 1)..Len(log) : log[k].seq = i}
  ELSE {}

Ascending(b) == \A j, k \in DOMAIN b : j < k => b[j] < b[k]

TailItems == {p \in (1..Len(tail)) \X (1..BatchCap) : p[2] <= Len(tail[p[1]])}

\* One pass of drain_tick, one round per pass: the lowest BatchCap pending
\* sequences that are not in flight become one Raft entry, ascending; behind a
\* round in flight they may be held back (min_batch).  What a deposed leader
\* submits is fenced: it changes nothing.
Drain(n) ==
  /\ pc[n] = "drain"
  /\ pc' = [pc EXCEPT ![n] = "tick"]
  /\ passTerm' = [passTerm EXCEPT ![n] = 0]
  /\ LET fl   == StillInFlight(n)
         todo == pend[n] \ fl
     IN \/ /\ todo = {} \/ leader # n \/ fl # {}
           /\ inFlight' = [inFlight EXCEPT ![n] = fl]
           /\ UNCHANGED tail
        \/ /\ leader = n
           /\ \E S \in SUBSET todo :
                /\ S # {} /\ Cardinality(S) <= BatchCap
                /\ Cardinality(S) = BatchCap \/ S = todo
                /\ \A x \in S, y \in todo \ S : x < y
                /\ Len(log) + Cardinality(TailItems) + Cardinality(S) <= MaxLog
                /\ inFlight' = [inFlight EXCEPT ![n] = fl \cup S]
                /\ \E b \in [1..Cardinality(S) -> S] :
                     Ascending(b) /\ tail' = Append(tail, b)
  /\ UNCHANGED <<ingress, pend, term, leader, isLeader, everLed, log, entries, sm,
                 wasLeader, recovered, gfrom, got, recTerm, ackedB4, crashes>>

\* A process crash: the intent store and the Raft log survive, the state
\* machine and the supervisor do not, and the flushes of this ingress end
\* without an answer to the client.  The reopened store holds all it held and
\* may bring back pruned intents (PendingStore!Restart); what this node applied
\* stands for what it pruned.
Crash(n) ==
  /\ crashes < MaxCrashes /\ crashes' = crashes + 1
  /\ LET Cut(f, v) == [i \in Intents |-> IF at[i] = n THEN v ELSE f[i]]
     IN /\ st' = Cut(st, "refused") /\ at' = Cut(at, NoNode) /\ ldr' = Cut(ldr, NoNode)
        /\ tried' = Cut(tried, {}) /\ gaveUp' = Cut(gaveUp, {}) /\ acks' = Cut(acks, {})
  /\ leader'    = IF leader = n THEN NoNode ELSE leader
  /\ isLeader'  = [isLeader EXCEPT ![n] = FALSE]
  /\ applied'   = [applied EXCEPT ![n] = 0]
  /\ recent'    = [recent EXCEPT ![n] = <<>>]
  /\ cutoff'    = [cutoff EXCEPT ![n] = 0]
  /\ deltas'    = [deltas EXCEPT ![n] = <<>>]
  /\ pc'        = [pc EXCEPT ![n] = "tick"]
  /\ wasLeader' = [wasLeader EXCEPT ![n] = FALSE]
  /\ recovered' = [recovered EXCEPT ![n] = FALSE]
  /\ gfrom'     = [gfrom EXCEPT ![n] = {}]
  /\ got'       = [got EXCEPT ![n] = {}]
  /\ inFlight'  = [inFlight EXCEPT ![n] = {}]
  /\ passTerm'  = [passTerm EXCEPT ![n] = 0]
  /\ recTerm'   = [recTerm EXCEPT ![n] = 0]
  /\ \E R \in SUBSET {log[k].seq : k \in {j \in 1..Len(log) : j <= applied[n]}} :
       pend' = [pend EXCEPT ![n] = @ \cup R]
  /\ UNCHANGED <<net, term, everLed, log, tail, entries, ackedB4>>

-----------------------------------------------------------------------------
Init ==
  /\ st = [i \in Intents |-> "new"] /\ at = [i \in Intents |-> NoNode]
  /\ ldr = [i \in Intents |-> NoNode] /\ tried = [i \in Intents |-> {}]
  /\ acks = [i \in Intents |-> {}] /\ gaveUp = [i \in Intents |-> {}]
  /\ net = {} /\ pend = [n \in Nodes |-> {}]
  /\ term = 0 /\ leader = NoNode /\ isLeader = [n \in Nodes |-> FALSE]
  /\ everLed = {} /\ log = <<>> /\ tail = <<>> /\ entries = 0
  /\ applied = [n \in Nodes |-> 0] /\ recent = [n \in Nodes |-> <<>>]
  /\ cutoff = [n \in Nodes |-> 0] /\ deltas = [n \in Nodes |-> <<>>]
  /\ pc = [n \in Nodes |-> "tick"] /\ wasLeader = [n \in Nodes |-> FALSE]
  /\ recovered = [n \in Nodes |-> FALSE] /\ gfrom = [n \in Nodes |-> {}]
  /\ got = [n \in Nodes |-> {}] /\ inFlight = [n \in Nodes |-> {}]
  /\ passTerm = [n \in Nodes |-> 0] /\ recTerm = [n \in Nodes |-> 0]
  /\ ackedB4 = {} /\ crashes = 0

Flush(i) == \/ \E n \in Nodes : \/ Put(i, n) \/ FanAck(i, n) \/ FanFail(i, n)
                                \/ RescueAck(i, n) \/ RescueFail(i, n)
            \/ PutFail(i) \/ StartRescue(i) \/ Refuse(i)
            \/ \E l \in Nodes \cup {NoNode} : Resolve(i, l)

Supervise(n) == \/ Tick(n) \/ GatherShort(n) \/ Recover(n) \/ RestoreFails(n) \/ Drain(n)
                \/ \E p \in Nodes : GatherReply(n, p)

Next == \/ \E i \in Intents : Flush(i)
        \/ \E i \in Intents, n \in Nodes : LateApply(i, n)
        \/ \E n \in Nodes : \/ Elect(n) \/ StepDown(n) \/ Apply(n)
                            \/ Supervise(n) \/ Crash(n)
        \/ Commit

Spec == Init /\ [][Next]_vars

-----------------------------------------------------------------------------
Acked == {i \in Intents : st[i] = "acked"}
CommittedSeqs == {log[k].seq : k \in 1..Len(log)}
Committed(key) == key \in KeysOf(CommittedSeqs)
Holds(n, key)  == key \in KeysOf(pend[n])

IngressOK ==
  /\ st \in [Intents -> {"new", "local", "fan", "rescue", "acked", "refused"}]
  /\ at \in [Intents -> Nodes \cup {NoNode}] /\ ldr \in [Intents -> Nodes \cup {NoNode}]
  /\ tried \in [Intents -> SUBSET Nodes] /\ acks \in [Intents -> SUBSET Nodes]
  /\ gaveUp \in [Intents -> SUBSET Nodes] /\ net \subseteq Intents \X Nodes

RaftOK ==
  /\ term \in Nat /\ leader \in Nodes \cup {NoNode} /\ isLeader \in [Nodes -> BOOLEAN]
  /\ everLed \subseteq Nodes /\ entries \in Nat
  /\ log \in Seq(Item) /\ tail \in Seq(Seq(Intents))

StateMachineOK ==
  /\ applied \in [Nodes -> Nat] /\ recent \in [Nodes -> Seq(Item)]
  /\ cutoff \in [Nodes -> Nat] /\ deltas \in [Nodes -> Seq(Intents)]

SupervisorOK ==
  /\ pc \in [Nodes -> {"tick", "gather", "drain"}]
  /\ wasLeader \in [Nodes -> BOOLEAN] /\ recovered \in [Nodes -> BOOLEAN]
  /\ gfrom \in [Nodes -> SUBSET Nodes] /\ got \in [Nodes -> SUBSET Intents]
  /\ inFlight \in [Nodes -> SUBSET Intents]
  /\ passTerm \in [Nodes -> Nat] /\ recTerm \in [Nodes -> Nat]

(* Type invariant, by component. *)
TypeOK == /\ IngressOK /\ RaftOK /\ StateMachineOK /\ SupervisorOK
          /\ pend \in [Nodes -> SUBSET Intents]
          /\ ackedB4 \subseteq Intents /\ crashes \in Nat

(* I-L2 / I-CS1, "NO-LOSS CRITICAL": an acknowledged write is, at every      *)
(* moment, in the committed log or pending on at least MinAcks nodes,       *)
(* counting a copy under its idempotency key because a Duplicate answer     *)
(* acknowledges without storing the new sequence (put_intent_and_fan, the   *)
(* self-prune of run_supervisor_loop, crashes, late applies).               *)
AckedDurable ==
  \A i \in Acked : \/ Committed(IdemKey[i])
                   \/ Cardinality({n \in Nodes : Holds(n, IdemKey[i])}) >= MinAcks

(* Gate-1 O2: once the leader of the current term has recovered in it, every *)
(* write acknowledged before the term began is committed or in its store,    *)
(* whichever peers the gather reached (recover, gather_threshold).           *)
RecoveredHoldsAcked ==
  \A n \in Nodes : leader = n /\ recTerm[n] = term =>
    \A i \in ackedB4 : Committed(IdemKey[i]) \/ Holds(n, IdemKey[i])

(* Part 8: however often an intent is resubmitted (re-election, lost round,  *)
(* late apply, restart), no replica turns it into a delta twice              *)
(* (apply_one_incorporate).                                                  *)
NoDoubleIncorporation ==
  \A n \in Nodes : \A j, k \in DOMAIN deltas[n] : deltas[n][j] = deltas[n][k] => j = k

(* I-L1 and apply_one_incorporate step (4): replicas that have applied the    *)
(* same log prefix, each at its own time and with its own restarts, hold the   *)
(* same deltas, the same dedup window and the same ancient cutoff.             *)
SameLogSameState ==
  \A m, n \in Nodes : applied[m] = applied[n] =>
    deltas[m] = deltas[n] /\ recent[m] = recent[n] /\ cutoff[m] = cutoff[n]

(* PART 8 section T, over all steps (prune, recovery, crash, late request):  *)
(* a copy leaves an intent store only when its sequence is already in the    *)
(* committed log; nothing that is merely submitted is ever dropped.          *)
CopiesLeaveOnlyCommitted ==
  [][\A n \in Nodes : \A i \in pend[n] \ pend'[n] : i \in CommittedSeqs]_vars

(* The strengthening that makes AckedDurable inductive: the dedup window of   *)
(* every node holds committed sequences only, and every node whose answer     *)
(* was counted still holds the key or the key is committed.                   *)
RecentCommitted == \A n \in Nodes : RecentSeqs(n) \subseteq CommittedSeqs

AckersKeepOrCommit ==
  \A i \in Intents : \A n \in acks[i] : Holds(n, IdemKey[i]) \/ Committed(IdemKey[i])

AckedHasQuorum == \A i \in Acked : Cardinality(acks[i]) >= MinAcks

DurableInv == TypeOK /\ RecentCommitted /\ AckersKeepOrCommit /\ AckedHasQuorum

(* The strengthening behind RecoveredHoldsAcked.  A flush that has ended no    *)
(* longer belongs to a node, so a crash of its ingress cannot revoke an        *)
(* acknowledgement; passes and recoveries carry terms that have begun; a       *)
(* gather that sampled the current term has, of every write acknowledged       *)
(* before it, the key of each acker that answered, unless it is committed.     *)
FlushEnded ==
  /\ ackedB4 \subseteq Acked
  /\ \A i \in Intents : st[i] \in {"new", "acked", "refused"} => at[i] = NoNode

TermsBegun ==
  /\ leader # NoNode => term > 0
  /\ \A n \in Nodes : passTerm[n] <= term /\ recTerm[n] <= term

GatherFromPeers ==
  \A n \in Nodes : n \notin gfrom[n] /\ (pc[n] # "gather" => gfrom[n] = {})

GatheredSoFar ==
  \A n \in Nodes : pc[n] = "gather" /\ passTerm[n] = term =>
    \A i \in ackedB4 : gfrom[n] \cap acks[i] # {} =>
      Committed(IdemKey[i]) \/ IdemKey[i] \in KeysOf(got[n])

RecoveryInv == DurableInv /\ FlushEnded /\ TermsBegun /\ GatherFromPeers /\ GatheredSoFar

\* No dedup window has dropped an entry, so the recovery filter drops nothing
\* that is not in the window itself.
NothingEvicted == \A n \in Nodes : cutoff[n] = 0

(* The strengthening behind NoDoubleIncorporation: until its window evicts,    *)
(* a replica's window lists exactly its deltas, each once.                     *)
WindowIsHistory ==
  \A n \in Nodes : cutoff[n] = 0 =>
    /\ Len(recent[n]) = Len(deltas[n])
    /\ \A k \in 1..Len(deltas[n]) : recent[n][k].seq = deltas[n][k]
    /\ \A j, k \in 1..Len(deltas[n]) : deltas[n][j] = deltas[n][k] => j = k

-----------------------------------------------------------------------------
(* Liveness.  Weak fairness: the supervisor task is polled, the state         *)
(* machine applies, the current leader commits, a cluster without a leader    *)
(* elects one.  Strong fairness of GatherReply and Recover: a live peer       *)
(* answers some gather before its deadline, although any one may time out,    *)
(* and the local store does not fail every restore for ever.                  *)
Fairness ==
  /\ \A n \in Nodes : /\ WF_vars(Tick(n)) /\ SF_vars(Recover(n)) /\ WF_vars(Drain(n))
                      /\ WF_vars(GatherShort(n)) /\ WF_vars(Apply(n)) /\ WF_vars(StepDown(n))
                      /\ WF_vars(leader = NoNode /\ Elect(n))
                      /\ \A p \in Nodes : SF_vars(GatherReply(n, p))
  /\ WF_vars(Commit)

FairSpec == Spec /\ Fairness

(* A write the leader holds is incorporated while it leads: recovery, the     *)
(* in-flight filter, held batches and lost rounds never park it for good      *)
(* (run_supervisor_loop, drain_tick).                                         *)
HeldIsIncorporated ==
  \A i \in Intents, n \in Nodes :
    (leader = n /\ i \in pend[n]) ~> (Committed(IdemKey[i]) \/ leader # n)

(* R4 as put_intent_and_fan states it: no acknowledged write waits for an     *)
(* unrelated election before it is incorporated.                              *)
AckedIsIncorporated ==
  \A i \in Intents : (st[i] = "acked" /\ leader # NoNode) ~>
                       (Committed(IdemKey[i]) \/ leader = NoNode)
=============================================================================
