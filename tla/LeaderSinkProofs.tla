-------------------------- MODULE LeaderSinkProofs --------------------------
(* Machine-checked proofs about LeaderSink, for every number of voters,      *)
(* every set of intents and keys, and every value of the bounds.             *)
EXTENDS LeaderSink, FiniteSetTheorems, SequenceTheorems, WellFoundedInduction, TLAPS

-----------------------------------------------------------------------------
(* Type correctness. *)

(* The initial state is typed: nothing written, no leader, empty logs. *)
LEMMA InitType == Init => TypeOK
  BY NodesAssumption, IntentAssumption
  DEF Init, TypeOK, IngressOK, RaftOK, StateMachineOK, SupervisorOK

(* A component whose variables a step leaves alone keeps its types. *)
LEMMA SameIngress == IngressOK /\ UNCHANGED ingress => IngressOK'
  BY DEF IngressOK, ingress

(* ... the Raft variables, *)
LEMMA SameRaft == RaftOK /\ UNCHANGED raft => RaftOK'
  BY DEF RaftOK, raft

(* ... the state machines, *)
LEMMA SameStateMachine == StateMachineOK /\ UNCHANGED sm => StateMachineOK'
  BY DEF StateMachineOK, sm

(* ... the supervisors. *)
LEMMA SameSupervisor == SupervisorOK /\ UNCHANGED sup => SupervisorOK'
  BY DEF SupervisorOK, sup

(* What a put stores is a set of intents. *)
LEMMA PutOneType ==
  ASSUME NEW S \in SUBSET Intents, NEW i \in Intents
  PROVE  PutOne(S, i) \in SUBSET Intents
  BY DEF PutOne

(* ... and so is what a recovery restores. *)
LEMMA PutAllType ==
  ASSUME NEW S \in SUBSET Intents, NEW R \in SUBSET Intents
  PROVE  PutAll(S, R) \in SUBSET Intents
  BY DEF PutAll

(* An acknowledging peer leaves the ingress and the stores typed. *)
LEMMA AckedByType ==
  ASSUME IngressOK, pend \in [Nodes -> SUBSET Intents],
         NEW i \in Intents, NEW t \in Nodes, AckedBy(i, t)
  PROVE  /\ pend' \in [Nodes -> SUBSET Intents]
         /\ st' \in [Intents -> {"new", "local", "fan", "rescue", "acked", "refused"}]
         /\ at' \in [Intents -> Nodes \cup {NoNode}]
         /\ ldr' \in [Intents -> Nodes \cup {NoNode}]
         /\ tried' \in [Intents -> SUBSET Nodes] /\ acks' \in [Intents -> SUBSET Nodes]
         /\ gaveUp' \in [Intents -> SUBSET Nodes]
<1>0. PutOne(pend[t], i) \in SUBSET Intents
  BY PutOneType
<1>1. pend' \in [Nodes -> SUBSET Intents] /\ acks' \in [Intents -> SUBSET Nodes]
  BY <1>0 DEF AckedBy, IngressOK
<1>2. CASE Cardinality(acks[i] \cup {t}) >= MinAcks
  BY <1>1, <1>2 DEF AckedBy, EndFlush, IngressOK
<1>3. CASE ~(Cardinality(acks[i] \cup {t}) >= MinAcks)
  BY <1>1, <1>3 DEF AckedBy, IngressOK
<1> QED
  BY <1>2, <1>3

(* The ingress flush and the receiving peer keep the types. *)
LEMMA IngressType ==
  ASSUME TypeOK, NEW i \in Intents, NEW t \in Nodes,
         \/ Put(i, t) \/ PutFail(i) \/ FanAck(i, t) \/ FanFail(i, t)
         \/ StartRescue(i) \/ RescueAck(i, t) \/ RescueFail(i, t) \/ Refuse(i)
         \/ LateApply(i, t) \/ \E l \in Nodes \cup {NoNode} : Resolve(i, l)
  PROVE  TypeOK'
<1> IngressOK /\ pend \in [Nodes -> SUBSET Intents]
  BY DEF TypeOK
<1> SUFFICES IngressOK' /\ pend' \in [Nodes -> SUBSET Intents] /\ UNCHANGED <<raft, sm, sup, ackedB4, crashes>>
  BY SameRaft, SameStateMachine, SameSupervisor DEF TypeOK
<1> USE DEF IngressOK
<1>0. PutOne(pend[t], i) \in SUBSET Intents
  BY PutOneType
<1>1. CASE Put(i, t)
  BY <1>0, <1>1 DEF Put
<1>2. CASE PutFail(i)
  BY <1>2 DEF PutFail
<1>3. CASE FanAck(i, t)
  BY AckedByType, <1>3 DEF FanAck
<1>4. CASE FanFail(i, t)
  BY <1>4 DEF FanFail
<1>5. CASE StartRescue(i)
  BY <1>5 DEF StartRescue, RescuePool
<1>6. CASE RescueAck(i, t)
  BY AckedByType, <1>6 DEF RescueAck
<1>7. CASE RescueFail(i, t)
  BY <1>7 DEF RescueFail
<1>8. CASE Refuse(i)
  BY <1>8 DEF Refuse, EndFlush
<1>9. CASE LateApply(i, t)
  BY <1>0, <1>9 DEF LateApply
<1>10. CASE \E l \in Nodes \cup {NoNode} : Resolve(i, l)
  BY <1>10 DEF Resolve
<1> QED
  BY <1>1, <1>2, <1>3, <1>4, <1>5, <1>6, <1>7, <1>8, <1>9, <1>10

(* Elections, commits and demotions keep the types. *)
LEMMA RaftType ==
  ASSUME TypeOK, NEW n \in Nodes, Elect(n) \/ StepDown(n) \/ Commit
  PROVE  TypeOK'
<1> RaftOK
  BY DEF TypeOK
<1>1. CASE Elect(n)
  <2>1. PICK k \in 0..Len(tail) : tail' = SubSeq(tail, 1, k)
    BY <1>1 DEF Elect
  <2>2. tail' \in Seq(Seq(Intents))
    BY <2>1 DEF RaftOK
  <2>3. RaftOK'
    BY <1>1, <2>2 DEF Elect, RaftOK
  <2>4. UNCHANGED <<ingress, pend, sm, sup, crashes>> /\ ackedB4' \subseteq Intents
    BY <1>1 DEF Elect
  <2> QED
    BY <2>3, <2>4, SameIngress, SameStateMachine, SameSupervisor DEF TypeOK
<1>2. CASE StepDown(n)
  <2>1. RaftOK'
    BY <1>2 DEF StepDown, RaftOK
  <2> QED
    BY <1>2, <2>1, SameIngress, SameStateMachine, SameSupervisor DEF StepDown, TypeOK
<1>3. CASE Commit
  <2> DEFINE b == Head(tail)
             items == [k \in 1..Len(b) |-> [seq |-> b[k], entry |-> entries + 1]]
  <2>1. b \in Seq(Intents) /\ Tail(tail) \in Seq(Seq(Intents))
    BY <1>3 DEF Commit, RaftOK
  <2>2. entries + 1 \in Nat
    BY DEF RaftOK
  <2>3. \A k \in 1..Len(b) : [seq |-> b[k], entry |-> entries + 1] \in Item
    BY <2>1, <2>2 DEF Item
  <2>4. items \in Seq(Item)
    <3> HIDE DEF b
    <3>1. Len(b) \in Nat
      BY <2>1
    <3> QED
      BY <2>3, <3>1
  <2>5. log' \in Seq(Item)
    <3> HIDE DEF items
    <3>1. log' = log \o items
      BY <1>3 DEF Commit, items
    <3> QED
      BY <2>4, <3>1 DEF RaftOK
  <2>6. RaftOK'
    BY <1>3, <2>1, <2>2, <2>5 DEF Commit, RaftOK
  <2> QED
    BY <1>3, <2>6, SameIngress, SameStateMachine, SameSupervisor DEF Commit, TypeOK
<1> QED
  BY <1>1, <1>2, <1>3

(* Applying an item keeps the types. *)
LEMMA ApplyType ==
  ASSUME TypeOK, NEW n \in Nodes, Apply(n)
  PROVE  TypeOK'
<1> StateMachineOK /\ log \in Seq(Item)
  BY DEF TypeOK, RaftOK
<1> SUFFICES StateMachineOK'
  BY SameIngress, SameRaft, SameSupervisor DEF TypeOK, Apply
<1> DEFINE it == log[applied[n] + 1]
           r  == Append(recent[n], it)
<1>0. applied[n] \in Nat /\ recent[n] \in Seq(Item) /\ deltas[n] \in Seq(Intents)
  BY DEF StateMachineOK
<1>1. it \in Item /\ it.seq \in Intents
  <2>1. applied[n] + 1 \in 1..Len(log)
    BY <1>0 DEF Apply
  <2>2. it \in Item
    BY <2>1, ElementOfSeq
  <2> QED
    BY <2>2 DEF Item
<1>2. r \in Seq(Item) /\ Len(r) = Len(recent[n]) + 1 /\ Len(r) \in Nat
  BY <1>0, <1>1
<1>3. applied' \in [Nodes -> Nat]
  BY <1>0 DEF Apply, StateMachineOK
<1>4. CASE Gated(n, it)
  BY <1>3, <1>4 DEF Apply, StateMachineOK
<1>5. CASE ~Gated(n, it)
  <2>1. PICK m \in EvictionCounts(r) :
          /\ recent' = [recent EXCEPT ![n] = SubSeq(r, m + 1, Len(r))]
          /\ cutoff' = [cutoff EXCEPT ![n] = IF m = 0 THEN @ ELSE MaxNat(@, r[m].entry + 1)]
    BY <1>5 DEF Apply
  <2>2. deltas' = [deltas EXCEPT ![n] = Append(@, it.seq)]
    BY <1>5 DEF Apply
  <2> HIDE DEF r, it
  <2>3. m \in 0..(Len(r) - 1)
    BY <2>1 DEF EvictionCounts
  <2>4. SubSeq(r, m + 1, Len(r)) \in Seq(Item)
    BY <1>2, <2>3
  <2>5. m # 0 => r[m].entry \in Nat
    <3>1. m # 0 => m \in 1..Len(r)
      BY <1>2, <2>3
    <3>2. m # 0 => r[m] \in Item
      BY <1>2, <3>1, ElementOfSeq
    <3> QED
      BY <3>2 DEF Item
  <2>6. cutoff' \in [Nodes -> Nat]
    BY <2>1, <2>3, <2>5 DEF MaxNat, StateMachineOK
  <2>7. deltas' \in [Nodes -> Seq(Intents)]
    BY <1>0, <1>1, <2>2 DEF StateMachineOK
  <2>8. recent' \in [Nodes -> Seq(Item)]
    BY <2>1, <2>4 DEF StateMachineOK
  <2> QED
    BY <1>3, <2>6, <2>7, <2>8 DEF StateMachineOK
<1> QED
  BY <1>4, <1>5

(* The supervisor passes keep the types. *)
LEMMA SupervisorType ==
  ASSUME TypeOK, NEW n \in Nodes, NEW p \in Nodes,
         Tick(n) \/ GatherReply(n, p) \/ GatherShort(n) \/ Recover(n)
           \/ RestoreFails(n)
  PROVE  TypeOK'
<1> SupervisorOK /\ RaftOK /\ pend \in [Nodes -> SUBSET Intents]
  BY DEF TypeOK
<1> SUFFICES /\ SupervisorOK' /\ pend' \in [Nodes -> SUBSET Intents]
             /\ UNCHANGED <<ingress, raft, sm, ackedB4, crashes>>
  BY SameIngress, SameRaft, SameStateMachine DEF TypeOK
<1>1. CASE Tick(n)
  <2>1. pend' \in [Nodes -> SUBSET Intents]
    BY <1>1 DEF Tick, SelfPruned
  <2>2. isLeader[n] \in BOOLEAN /\ wasLeader[n] \in BOOLEAN /\ recovered[n] \in BOOLEAN
    BY DEF SupervisorOK, RaftOK
  <2>3. wasLeader' \in [Nodes -> BOOLEAN] /\ recovered' \in [Nodes -> BOOLEAN]
    BY <1>1, <2>2, Zenon DEF Tick, SupervisorOK
  <2>4. pc' \in [Nodes -> {"tick", "gather", "drain"}]
    BY <1>1 DEF Tick, SupervisorOK
  <2>5. /\ passTerm' \in [Nodes -> Nat] /\ recTerm' \in [Nodes -> Nat]
        /\ inFlight' \in [Nodes -> SUBSET Intents]
    BY <1>1 DEF Tick, SupervisorOK, RaftOK
  <2> QED
    BY <1>1, <2>1, <2>3, <2>4, <2>5 DEF Tick, SupervisorOK
<1>2. CASE GatherReply(n, p)
  BY <1>2 DEF GatherReply, SupervisorOK
<1>3. CASE GatherShort(n)
  BY <1>3 DEF GatherShort, EndGather, SupervisorOK
<1>4. CASE Recover(n)
  <2>1. PutAll(pend[n], Kept(n)) \in SUBSET Intents
    <3>1. Kept(n) \in SUBSET Intents
      BY DEF Kept, SupervisorOK
    <3> QED
      BY <3>1, PutAllType
  <2> QED
    BY <1>4, <2>1 DEF Recover, EndGather, SupervisorOK
<1>5. CASE RestoreFails(n)
  <2>1. PICK R \in SUBSET Kept(n) : pend' = [pend EXCEPT ![n] = PutAll(@, R)]
    BY <1>5 DEF RestoreFails
  <2>2. R \in SUBSET Intents
    BY DEF Kept, SupervisorOK
  <2>3. PutAll(pend[n], R) \in SUBSET Intents
    BY <2>2, PutAllType
  <2> QED
    BY <1>5, <2>1, <2>3 DEF RestoreFails, EndGather, SupervisorOK
<1> QED
  BY <1>1, <1>2, <1>3, <1>4, <1>5

(* A drain appends one finite ascending batch of pending intents. *)
LEMMA DrainType ==
  ASSUME TypeOK, NEW n \in Nodes, Drain(n)
  PROVE  TypeOK'
<1> SupervisorOK /\ RaftOK /\ pend \in [Nodes -> SUBSET Intents]
  BY DEF TypeOK
<1> DEFINE fl == StillInFlight(n)
           todo == pend[n] \ fl
<1>0. fl \in SUBSET Intents /\ todo \in SUBSET Intents
  BY DEF StillInFlight, SupervisorOK
<1>1. tail' \in Seq(Seq(Intents)) /\ inFlight' \in [Nodes -> SUBSET Intents]
  <2>1. CASE UNCHANGED tail /\ inFlight' = [inFlight EXCEPT ![n] = fl]
    BY <1>0, <2>1 DEF SupervisorOK, RaftOK
  <2>2. CASE \E S \in SUBSET todo :
               /\ inFlight' = [inFlight EXCEPT ![n] = fl \cup S]
               /\ \E b \in [1..Cardinality(S) -> S] : tail' = Append(tail, b)
    <3>1. PICK S \in SUBSET todo :
               /\ inFlight' = [inFlight EXCEPT ![n] = fl \cup S]
               /\ \E b \in [1..Cardinality(S) -> S] : tail' = Append(tail, b)
      BY <2>2
    <3>2. PICK b \in [1..Cardinality(S) -> S] : tail' = Append(tail, b)
      BY <3>1
    <3>3. Cardinality(S) \in Nat
      BY <1>0, FS_Subset, FS_CardinalityType, IntentAssumption
    <3>4. b \in Seq(Intents)
      <4>1. b \in [1..Cardinality(S) -> Intents]
        BY <1>0
      <4> QED
        BY <3>3, <4>1
    <3>5. tail' \in Seq(Seq(Intents))
      BY <3>2, <3>4 DEF RaftOK
    <3>6. inFlight' \in [Nodes -> SUBSET Intents]
      BY <1>0, <3>1 DEF SupervisorOK
    <3> QED
      BY <3>5, <3>6
  <2> QED
    BY <2>1, <2>2 DEF Drain
<1>2. RaftOK'
  BY <1>1 DEF Drain, RaftOK
<1>3. SupervisorOK'
  BY <1>1 DEF Drain, SupervisorOK
<1> QED
  BY <1>2, <1>3, SameIngress, SameStateMachine DEF Drain, TypeOK

(* A crash resets volatile state to typed values. *)
LEMMA CrashType ==
  ASSUME TypeOK, NEW n \in Nodes, Crash(n)
  PROVE  TypeOK'
<1>1. IngressOK'
  BY DEF Crash, TypeOK, IngressOK
<1>2. RaftOK'
  BY DEF Crash, TypeOK, RaftOK
<1>3. StateMachineOK'
  BY DEF Crash, TypeOK, StateMachineOK
<1>4. SupervisorOK'
  BY DEF Crash, TypeOK, SupervisorOK
<1>5. ackedB4' = ackedB4 /\ crashes' \in Nat
  BY DEF Crash, TypeOK
<1>6. pend' \in [Nodes -> SUBSET Intents]
  <2>1. \A k \in 1..Len(log) : log[k] \in Item
    BY ElementOfSeq DEF TypeOK, RaftOK
  <2>2. \A k \in 1..Len(log) : log[k].seq \in Intents
    BY <2>1 DEF Item
  <2> QED
    BY <2>2 DEF Crash, TypeOK
<1> QED
  BY <1>1, <1>2, <1>3, <1>4, <1>5, <1>6 DEF TypeOK

(* Every step of the protocol keeps the types. *)
LEMMA NextType == TypeOK /\ [Next]_vars => TypeOK'
<1> SUFFICES ASSUME TypeOK, [Next]_vars PROVE TypeOK'
  OBVIOUS
<1>1. ASSUME NEW i \in Intents, Flush(i) PROVE TypeOK'
  <2>1. PICK t \in Nodes : TRUE
    BY NodesAssumption
  <2> QED
    BY <1>1, <2>1, IngressType DEF Flush
<1>2. ASSUME NEW i \in Intents, NEW n \in Nodes, LateApply(i, n) PROVE TypeOK'
  BY <1>2, IngressType
<1>3. ASSUME NEW n \in Nodes, Elect(n) \/ StepDown(n) PROVE TypeOK'
  BY <1>3, RaftType
<1>4. ASSUME NEW n \in Nodes, Supervise(n) PROVE TypeOK'
  BY <1>4, SupervisorType, DrainType DEF Supervise
<1>5. CASE Commit
  <2>1. PICK n \in Nodes : TRUE
    BY NodesAssumption
  <2> QED
    BY <1>5, <2>1, RaftType
<1>6. CASE UNCHANGED vars
  BY <1>6, SameIngress, SameRaft, SameStateMachine, SameSupervisor DEF vars, TypeOK
<1> QED
  BY <1>1, <1>2, <1>3, <1>4, <1>5, <1>6, ApplyType, CrashType DEF Next

(* Type correctness of the whole protocol, for every cluster size. *)
THEOREM TypeCorrect == Spec => []TypeOK
  BY InitType, NextType, PTL DEF Spec

-----------------------------------------------------------------------------
(* Durability.  What a step does to the copies of an intent is stated once   *)
(* per kind of state, and the theorems combine those facts.                  *)

(* A put keeps what was there and leaves the key of i present. *)
LEMMA PutOneKeeps ==
  ASSUME NEW S \in SUBSET Intents, NEW i \in Intents
  PROVE  S \subseteq PutOne(S, i) /\ IdemKey[i] \in KeysOf(PutOne(S, i))
  BY DEF PutOne, KeysOf

(* The committed log only grows. *)
LEMMA CommittedGrows ==
  ASSUME TypeOK, [Next]_vars
  PROVE  CommittedSeqs \subseteq CommittedSeqs'
<1>1. CASE Commit
  <2> DEFINE b == Head(tail)
             items == [k \in 1..Len(b) |-> [seq |-> b[k], entry |-> entries + 1]]
  <2>1. log \in Seq(Item) /\ Len(b) \in Nat
    BY <1>1 DEF Commit, TypeOK, RaftOK
  <2>2. log' = log \o items
    BY <1>1 DEF Commit
  <2>3. \A k \in 1..Len(b) : items[k] \in [seq : {b[k]}, entry : {entries + 1}]
    OBVIOUS
  <2>4. items \in Seq([seq : {b[k] : k \in 1..Len(b)}, entry : {entries + 1}])
    BY <2>1
  <2> HIDE DEF items
  <2>5. \A k \in 1..Len(log) : log'[k] = log[k]
    BY <2>1, <2>2, <2>4
  <2>6. Len(log) <= Len(log') /\ Len(log) \in Nat /\ Len(log') \in Nat
    BY <2>1, <2>2, <2>4
  <2> QED
    BY <2>5, <2>6 DEF CommittedSeqs
<1>2. CASE ~Commit
  <2>1. UNCHANGED log
    <3>1. ASSUME NEW i \in Intents, Flush(i) PROVE UNCHANGED log
      BY <3>1 DEF Flush, Put, PutFail, FanAck, FanFail, StartRescue, RescueAck, RescueFail,
                  Refuse, Resolve, raft
    <3>2. ASSUME NEW n \in Nodes, Supervise(n) PROVE UNCHANGED log
      BY <3>2 DEF Supervise, Tick, GatherReply, GatherShort, Recover, RestoreFails, Drain, raft
    <3> QED
      BY <1>2, <3>1, <3>2
      DEF Next, LateApply, Elect, StepDown, Apply, Crash, raft, vars
  <2> QED
    BY <2>1 DEF CommittedSeqs
<1> QED
  BY <1>1, <1>2

(* A copy leaves a store only by the self-prune, and so only when the dedup   *)
(* window of the node, hence the committed log, has it.                       *)
LEMMA CopiesStep ==
  ASSUME TypeOK, RecentCommitted, [Next]_vars
  PROVE  \A n \in Nodes : \A i \in pend[n] \ pend'[n] : i \in CommittedSeqs
<1> pend \in [Nodes -> SUBSET Intents]
  BY DEF TypeOK
<1> SUFFICES (\A n \in Nodes : pend[n] \subseteq pend'[n]) \/ \E n \in Nodes : Tick(n)
  BY DEF Tick, SelfPruned, RecentCommitted
<1>1. ASSUME NEW i \in Intents, NEW t \in Nodes, pend' = [pend EXCEPT ![t] = PutOne(@, i)]
      PROVE  \A n \in Nodes : pend[n] \subseteq pend'[n]
  BY <1>1, PutOneKeeps
<1>2. ASSUME NEW n \in Nodes, Recover(n) \/ RestoreFails(n)
      PROVE  \A m \in Nodes : pend[m] \subseteq pend'[m]
  BY <1>2 DEF Recover, RestoreFails, PutAll
<1>3. ASSUME NEW i \in Intents, Flush(i)
      PROVE  \A n \in Nodes : pend[n] \subseteq pend'[n]
  BY <1>1, <1>3 DEF Flush, Put, PutFail, FanAck, FanFail, AckedBy, StartRescue, RescueAck,
                    RescueFail, Refuse, Resolve
<1>4. ASSUME NEW n \in Nodes, Supervise(n)
      PROVE  (\A m \in Nodes : pend[m] \subseteq pend'[m]) \/ Tick(n)
  BY <1>2, <1>4 DEF Supervise, GatherReply, GatherShort, Drain
<1>5. ASSUME NEW n \in Nodes, Crash(n)
      PROVE  \A m \in Nodes : pend[m] \subseteq pend'[m]
  BY <1>5 DEF Crash
<1> QED
  BY <1>1, <1>3, <1>4, <1>5 DEF Next, LateApply, Elect, StepDown, Apply, Commit, vars

(* A node newly counted as an acker holds the key. *)
LEMMA AcksStep ==
  ASSUME TypeOK, [Next]_vars, NEW i \in Intents, NEW n \in acks'[i]
  PROVE  n \in acks[i] \/ Holds(n, IdemKey[i])'
<1> pend \in [Nodes -> SUBSET Intents] /\ acks \in [Intents -> SUBSET Nodes]
  BY DEF TypeOK, IngressOK
<1>1. ASSUME NEW j \in Intents, NEW t \in Nodes, AckedBy(j, t)
      PROVE  n \in acks[i] \/ Holds(n, IdemKey[i])'
  BY <1>1, PutOneKeeps DEF AckedBy, Holds
<1>2. ASSUME NEW j \in Intents, NEW t \in Nodes, Put(j, t)
      PROVE  n \in acks[i] \/ Holds(n, IdemKey[i])'
  BY <1>2, PutOneKeeps DEF Put, Holds
<1>3. ASSUME NEW j \in Intents, Flush(j)
      PROVE  n \in acks[i] \/ Holds(n, IdemKey[i])'
  BY <1>1, <1>2, <1>3 DEF Flush, PutFail, FanAck, FanFail, StartRescue, RescueAck,
                          RescueFail, Refuse, Resolve
<1>4. ASSUME NEW m \in Nodes, Supervise(m) PROVE UNCHANGED acks
  BY <1>4 DEF Supervise, Tick, GatherReply, GatherShort, Recover, RestoreFails, Drain, ingress
<1>5. ASSUME NEW m \in Nodes, Crash(m) PROVE n \in acks[i]
  BY <1>5 DEF Crash
<1> QED
  BY <1>3, <1>4, <1>5
  DEF Next, LateApply, Elect, StepDown, Apply, Commit, ingress, vars

(* A counted quorum is reached before the client is told. *)
LEMMA QuorumStep ==
  ASSUME TypeOK, AckedHasQuorum, [Next]_vars
  PROVE  AckedHasQuorum'
<1> IngressOK /\ pend \in [Nodes -> SUBSET Intents]
  BY DEF TypeOK
<1> SUFFICES ASSUME NEW i \in Intents, st'[i] = "acked"
             PROVE  Cardinality(acks'[i]) >= MinAcks
  BY DEF AckedHasQuorum, Acked
<1>0. st[i] = "acked" => Cardinality(acks[i]) >= MinAcks
  BY DEF AckedHasQuorum, Acked
<1>1. ASSUME NEW j \in Intents, NEW t \in Nodes, AckedBy(j, t), st[j] # "acked"
      PROVE  Cardinality(acks'[i]) >= MinAcks
  <2>1. CASE j = i
    <3>1. Cardinality(acks[i] \cup {t}) >= MinAcks
      BY <1>1, <2>1 DEF AckedBy
    <3>2. acks'[i] = acks[i] \cup {t}
      BY <1>1, <2>1 DEF AckedBy, IngressOK
    <3> QED
      BY <3>1, <3>2
  <2>2. CASE j # i
    <3>1. acks'[i] = acks[i]
      BY <1>1, <2>2 DEF AckedBy, IngressOK
    <3>2. st[i] = "acked"
      BY <1>1, <2>2 DEF AckedBy, EndFlush, IngressOK
    <3> QED
      BY <1>0, <3>1, <3>2
  <2> QED
    BY <2>1, <2>2
<1>2. ASSUME NEW j \in Intents, NEW t \in Nodes, Put(j, t)
      PROVE  Cardinality(acks'[i]) >= MinAcks
  <2>1. CASE j = i
    <3>1. acks'[i] = {t} /\ MinAcks = 1
      BY <1>2, <2>1 DEF Put, IngressOK
    <3>2. Cardinality({t}) = 1
      BY FS_Singleton
    <3> QED
      BY <3>1, <3>2
  <2>2. CASE j # i
    BY <1>0, <1>2, <2>2 DEF Put, IngressOK
  <2> QED
    BY <2>1, <2>2
<1>3. ASSUME NEW j \in Intents, Flush(j)
      PROVE  Cardinality(acks'[i]) >= MinAcks
  <2>1. CASE Refuse(j)
    BY <1>0, <2>1 DEF Refuse, EndFlush, IngressOK
  <2>2. CASE \E t \in Nodes : Put(j, t) \/ FanAck(j, t) \/ RescueAck(j, t)
    BY <1>1, <1>2, <2>2 DEF FanAck, RescueAck
  <2>3. CASE PutFail(j) \/ StartRescue(j) \/ (\E l \in Nodes \cup {NoNode} : Resolve(j, l))
             \/ \E t \in Nodes : FanFail(j, t) \/ RescueFail(j, t)
    <3>1. acks'[i] = acks[i]
      BY <2>3 DEF PutFail, StartRescue, Resolve, FanFail, RescueFail
    <3>2. st[i] = "acked"
      BY <2>3 DEF PutFail, StartRescue, Resolve, FanFail, RescueFail, IngressOK
    <3> QED
      BY <1>0, <3>1, <3>2
  <2> QED
    BY <1>3, <2>1, <2>2, <2>3 DEF Flush
<1>4. ASSUME NEW m \in Nodes, Supervise(m) PROVE UNCHANGED <<st, acks>>
  BY <1>4 DEF Supervise, Tick, GatherReply, GatherShort, Recover, RestoreFails, Drain, ingress
<1>5. ASSUME NEW m \in Nodes, Crash(m) PROVE Cardinality(acks'[i]) >= MinAcks
  BY <1>0, <1>5 DEF Crash, IngressOK
<1> QED
  BY <1>0, <1>3, <1>4, <1>5
  DEF Next, LateApply, Elect, StepDown, Apply, Commit, ingress, vars

(* The dedup window only ever records what the log delivers. *)
LEMMA RecentStep ==
  ASSUME TypeOK, RecentCommitted, [Next]_vars
  PROVE  RecentCommitted'
<1> StateMachineOK /\ log \in Seq(Item)
  BY DEF TypeOK, RaftOK
<1>0. CommittedSeqs \subseteq CommittedSeqs'
  BY CommittedGrows
<1> SUFFICES ASSUME NEW n \in Nodes PROVE RecentSeqs(n)' \subseteq CommittedSeqs'
  BY DEF RecentCommitted
<1>1. ASSUME NEW m \in Nodes, Apply(m) PROVE RecentSeqs(n)' \subseteq CommittedSeqs'
  <2> DEFINE it == log[applied[m] + 1]
             r  == Append(recent[m], it)
  <2>1. CASE UNCHANGED recent
    BY <1>0, <2>1 DEF RecentCommitted, RecentSeqs
  <2>2. CASE \E k \in EvictionCounts(r) :
               recent' = [recent EXCEPT ![m] = SubSeq(r, k + 1, Len(r))]
    <3>1. PICK k \in EvictionCounts(r) :
               recent' = [recent EXCEPT ![m] = SubSeq(r, k + 1, Len(r))]
      BY <2>2
    <3>2. applied[m] + 1 \in 1..Len(log) /\ recent[m] \in Seq(Item)
      BY <1>1 DEF Apply, StateMachineOK
    <3>3. it \in Item /\ it.seq \in CommittedSeqs
      BY <3>2, ElementOfSeq DEF CommittedSeqs
    <3>4. /\ r \in Seq(Item) /\ Len(r) = Len(recent[m]) + 1 /\ Len(recent[m]) \in Nat
          /\ \A q \in 1..Len(recent[m]) : r[q] = recent[m][q]
          /\ r[Len(r)] = it
      BY <3>2, <3>3
    <3>5. \A q \in 1..Len(r) : r[q].seq \in CommittedSeqs
      <4> SUFFICES ASSUME NEW q \in 1..Len(r) PROVE r[q].seq \in CommittedSeqs
        OBVIOUS
      <4>1. CASE q = Len(r)
        BY <3>3, <3>4, <4>1
      <4>2. CASE q # Len(r)
        <5>1. q \in 1..Len(recent[m]) /\ r[q] = recent[m][q]
          BY <3>4, <4>2
        <5> QED
          BY <5>1 DEF RecentCommitted, RecentSeqs
      <4> QED
        BY <4>1, <4>2
    <3> HIDE DEF r, it
    <3>6. k \in 0..(Len(r) - 1)
      BY <3>1 DEF EvictionCounts
    <3>7. \A q \in 1..Len(SubSeq(r, k + 1, Len(r))) :
            SubSeq(r, k + 1, Len(r))[q].seq \in CommittedSeqs
      BY <3>4, <3>5, <3>6
    <3>8. CASE n = m
      BY <1>0, <3>1, <3>7, <3>8 DEF RecentSeqs, StateMachineOK
    <3>9. CASE n # m
      BY <1>0, <3>1, <3>9 DEF RecentSeqs, RecentCommitted, StateMachineOK
    <3> QED
      BY <3>8, <3>9
  <2> QED
    BY <1>1, <2>1, <2>2 DEF Apply
<1>2. ASSUME NEW m \in Nodes, Crash(m) PROVE RecentSeqs(n)' \subseteq CommittedSeqs'
  <2>1. recent'[n] = <<>> \/ recent'[n] = recent[n]
    BY <1>2 DEF Crash, StateMachineOK
  <2> QED
    BY <1>0, <2>1 DEF RecentSeqs, RecentCommitted
<1>3. CASE UNCHANGED recent
  BY <1>0, <1>3 DEF RecentSeqs, RecentCommitted
<1>4. ASSUME NEW i \in Intents, Flush(i) PROVE UNCHANGED recent
  BY <1>4 DEF Flush, Put, PutFail, FanAck, FanFail, StartRescue, RescueAck, RescueFail,
              Refuse, Resolve, sm
<1>5. ASSUME NEW m \in Nodes, Supervise(m) PROVE UNCHANGED recent
  BY <1>5 DEF Supervise, Tick, GatherReply, GatherShort, Recover, RestoreFails, Drain, sm
<1> QED
  BY <1>1, <1>2, <1>3, <1>4, <1>5 DEF Next, LateApply, Elect, StepDown, Commit, sm, vars

(* A counted acker keeps the key until it is committed. *)
LEMMA AckersStep ==
  ASSUME TypeOK, RecentCommitted, AckersKeepOrCommit, [Next]_vars
  PROVE  AckersKeepOrCommit'
<1> SUFFICES ASSUME NEW i \in Intents, NEW n \in acks'[i]
             PROVE  (Holds(n, IdemKey[i]) \/ Committed(IdemKey[i]))'
  BY DEF AckersKeepOrCommit
<1>1. CommittedSeqs \subseteq CommittedSeqs'
  BY CommittedGrows
<1>2. CASE Holds(n, IdemKey[i])'
  BY <1>2
<1>3. CASE n \in acks[i]
  <2>1. n \in Nodes
    BY <1>3 DEF TypeOK, IngressOK
  <2>2. CASE Committed(IdemKey[i])
    BY <1>1, <2>2 DEF Committed, KeysOf
  <2>3. CASE Holds(n, IdemKey[i])
    <3>1. PICK j \in pend[n] : IdemKey[j] = IdemKey[i]
      BY <2>3 DEF Holds, KeysOf
    <3>2. j \in pend'[n] \/ j \in CommittedSeqs'
      BY <1>1, <2>1, CopiesStep
    <3> QED
      BY <3>1, <3>2 DEF Holds, Committed, KeysOf
  <2> QED
    BY <1>3, <2>2, <2>3 DEF AckersKeepOrCommit
<1> QED
  BY <1>2, <1>3, AcksStep

(* The inductive invariant behind durability. *)
THEOREM DurableInvariant == Spec => []DurableInv
<1>1. Init => DurableInv
  <2>1. Init => RecentCommitted /\ AckersKeepOrCommit /\ AckedHasQuorum
    BY DEF Init, RecentCommitted, RecentSeqs, AckersKeepOrCommit, AckedHasQuorum, Acked
  <2> QED
    BY <2>1, InitType DEF DurableInv
<1>2. DurableInv /\ [Next]_vars => DurableInv'
  BY NextType, RecentStep, AckersStep, QuorumStep DEF DurableInv
<1> QED
  BY <1>1, <1>2, PTL DEF Spec

(* No acknowledged write is ever lost: it is committed, or MinAcks stores     *)
(* hold it, for any number of voters, crashes, elections and late requests.   *)
THEOREM AckedWritesDurable == Spec => []AckedDurable
<1>1. DurableInv => AckedDurable
  <2> SUFFICES ASSUME DurableInv, NEW i \in Acked, ~Committed(IdemKey[i])
               PROVE  Cardinality({n \in Nodes : Holds(n, IdemKey[i])}) >= MinAcks
    BY DEF AckedDurable
  <2> DEFINE H == {n \in Nodes : Holds(n, IdemKey[i])}
  <2>1. i \in Intents /\ acks[i] \subseteq Nodes
    BY DEF Acked, DurableInv, TypeOK, IngressOK
  <2>2. acks[i] \subseteq H
    BY <2>1 DEF DurableInv, AckersKeepOrCommit
  <2>3. IsFiniteSet(H)
    BY NodesAssumption, FS_Subset
  <2> HIDE DEF H
  <2>4. Cardinality(acks[i]) <= Cardinality(H) /\ IsFiniteSet(acks[i])
    BY <2>2, <2>3, FS_Subset
  <2>5. Cardinality(acks[i]) \in Nat /\ Cardinality(H) \in Nat
    BY <2>3, <2>4, FS_CardinalityType
  <2>6. Cardinality(acks[i]) >= MinAcks
    BY DEF DurableInv, AckedHasQuorum
  <2> QED
    BY <2>4, <2>5, <2>6, BoundAssumption, NodesAssumption, FS_CardinalityType DEF H
<1> QED
  BY <1>1, DurableInvariant, PTL

(* A copy leaves a store only once its sequence is committed. *)
THEOREM CopiesLeaveOnlyWhenCommitted == Spec => CopiesLeaveOnlyCommitted
<1>1. DurableInv /\ [Next]_vars =>
        [\A n \in Nodes : \A i \in pend[n] \ pend'[n] : i \in CommittedSeqs]_vars
  BY CopiesStep DEF DurableInv
<1> QED
  BY <1>1, DurableInvariant, PTL DEF Spec, CopiesLeaveOnlyCommitted

-----------------------------------------------------------------------------
(* A new leader's recovery is complete: for every number of voters and every *)
(* MinAcks, gathering GatherThreshold views is enough to hold every write    *)
(* acknowledged before the term began.                                       *)

(* Which steps touch what. *)

(* The supervisor leaves the ingress and Raft alone. *)
LEMMA SuperviseFrame ==
  ASSUME NEW n \in Nodes, Supervise(n)
  PROVE  /\ UNCHANGED <<ingress, ackedB4, term, leader, isLeader, log>>
         /\ Tick(n) \/ UNCHANGED pend \/ Recover(n) \/ RestoreFails(n)
  BY DEF Supervise, Tick, GatherReply, GatherShort, Recover, RestoreFails, Drain, raft

(* A flush leaves Raft, the state machines and the supervisors alone. *)
LEMMA FlushFrame ==
  ASSUME NEW i \in Intents, Flush(i)
  PROVE  UNCHANGED <<raft, sm, sup, ackedB4, crashes>>
  BY DEF Flush, Put, PutFail, FanAck, FanFail, StartRescue, RescueAck, RescueFail, Refuse,
         Resolve

(* The steps outside the flushes and the supervisors. *)
LEMMA OtherFrame ==
  ASSUME [Next]_vars
  PROVE  \/ \E i \in Intents : Flush(i)
         \/ \E n \in Nodes : Supervise(n)
         \/ \E n \in Nodes : Elect(n)
         \/ \E n \in Nodes : Crash(n)
         \/ UNCHANGED <<st, at, acks, term, leader, ackedB4, sup>>
<1>1. ASSUME NEW i \in Intents, NEW n \in Nodes, LateApply(i, n)
      PROVE  UNCHANGED <<st, at, acks, term, leader, ackedB4, sup>>
  BY <1>1 DEF LateApply, raft
<1>2. ASSUME NEW n \in Nodes, StepDown(n) \/ Apply(n)
      PROVE  UNCHANGED <<st, at, acks, term, leader, ackedB4, sup>>
  BY <1>2 DEF StepDown, Apply, ingress, raft
<1>3. ASSUME Commit \/ UNCHANGED vars
      PROVE  UNCHANGED <<st, at, acks, term, leader, ackedB4, sup>>
  BY <1>3 DEF Commit, vars, ingress, raft
<1> QED
  BY <1>1, <1>2, <1>3 DEF Next

-----------------------------------------------------------------------------
(* Acknowledgements are final. *)

(* An acknowledged write stays acknowledged, and its ackers are fixed. *)
LEMMA AckedFrozen ==
  ASSUME TypeOK, FlushEnded, [Next]_vars, NEW i \in Acked
  PROVE  st'[i] = "acked" /\ acks'[i] = acks[i]
<1>0. i \in Intents /\ st[i] = "acked" /\ at[i] = NoNode /\ IngressOK
  BY DEF Acked, FlushEnded, TypeOK
<1>1. ASSUME NEW j \in Intents, Flush(j)
      PROVE  st'[i] = "acked" /\ acks'[i] = acks[i]
  <2>1. ASSUME st[j] # "acked", NEW t \in Nodes, AckedBy(j, t)
        PROVE  st'[i] = "acked" /\ acks'[i] = acks[i]
    BY <1>0, <2>1 DEF AckedBy, EndFlush, IngressOK
  <2>2. CASE \E t \in Nodes : FanAck(j, t) \/ RescueAck(j, t)
    BY <2>1, <2>2 DEF FanAck, RescueAck
  <2>3. CASE Refuse(j)
    BY <1>0, <2>3 DEF Refuse, EndFlush, IngressOK
  <2>4. CASE \E t \in Nodes : Put(j, t)
    BY <1>0, <2>4 DEF Put, IngressOK
  <2>5. CASE PutFail(j) \/ StartRescue(j) \/ (\E l \in Nodes \cup {NoNode} : Resolve(j, l))
             \/ \E t \in Nodes : FanFail(j, t) \/ RescueFail(j, t)
    BY <1>0, <2>5 DEF PutFail, StartRescue, Resolve, FanFail, RescueFail, IngressOK
  <2> QED
    BY <1>1, <2>2, <2>3, <2>4, <2>5 DEF Flush
<1>2. ASSUME NEW n \in Nodes, Crash(n)
      PROVE  st'[i] = "acked" /\ acks'[i] = acks[i]
  BY <1>0, <1>2, NodesAssumption DEF Crash
<1>3. ASSUME NEW n \in Nodes, Supervise(n) \/ Elect(n)
      PROVE  UNCHANGED <<st, acks>>
  BY <1>3, SuperviseFrame DEF Elect, ingress
<1> QED
  BY <1>0, <1>1, <1>2, <1>3, OtherFrame

(* A flush that ends leaves its ingress: no later crash refuses it. *)
LEMMA FlushEndedStep ==
  ASSUME TypeOK, FlushEnded, [Next]_vars
  PROVE  FlushEnded'
<1>0. IngressOK
  BY DEF TypeOK
<1>1. ackedB4' \subseteq Acked'
  <2>1. Acked \subseteq Acked'
    BY AckedFrozen DEF Acked
  <2>2. ASSUME NEW n \in Nodes, Elect(n) PROVE ackedB4' = Acked
    BY <2>2 DEF Elect, Acked
  <2>3. ASSUME NEW n \in Nodes, Crash(n) \/ Supervise(n) PROVE ackedB4' = ackedB4
    BY <2>3, SuperviseFrame DEF Crash
  <2> QED
    BY <2>1, <2>2, <2>3, FlushFrame, OtherFrame DEF FlushEnded
<1>2. ASSUME NEW i \in Intents, st'[i] \in {"new", "acked", "refused"}
      PROVE  at'[i] = NoNode
  <2>0. st[i] \in {"new", "acked", "refused"} => at[i] = NoNode
    BY DEF FlushEnded
  <2>1. ASSUME NEW j \in Intents, Flush(j) PROVE at'[i] = NoNode
    <3>1. ASSUME st[j] \in {"fan", "rescue"}, NEW t \in Nodes, AckedBy(j, t)
          PROVE  at'[i] = NoNode
      BY <1>0, <1>2, <2>0, <3>1 DEF AckedBy, EndFlush, IngressOK
    <3>2. CASE \E t \in Nodes : FanAck(j, t) \/ RescueAck(j, t)
      BY <3>1, <3>2 DEF FanAck, RescueAck
    <3>3. CASE Refuse(j)
      BY <1>0, <1>2, <2>0, <3>3 DEF Refuse, EndFlush, IngressOK
    <3>4. CASE \E t \in Nodes : Put(j, t)
      BY <1>0, <1>2, <2>0, <3>4 DEF Put, IngressOK
    <3>5. CASE PutFail(j) \/ StartRescue(j) \/ (\E l \in Nodes \cup {NoNode} : Resolve(j, l))
               \/ \E t \in Nodes : FanFail(j, t) \/ RescueFail(j, t)
      BY <1>0, <1>2, <2>0, <3>5 DEF PutFail, StartRescue, Resolve, FanFail, RescueFail, IngressOK
    <3> QED
      BY <2>1, <3>2, <3>3, <3>4, <3>5 DEF Flush
  <2>2. ASSUME NEW n \in Nodes, Crash(n) PROVE at'[i] = NoNode
    BY <1>2, <2>0, <2>2 DEF Crash
  <2>3. ASSUME NEW n \in Nodes, Supervise(n) \/ Elect(n) PROVE UNCHANGED <<st, at>>
    BY <2>3, SuperviseFrame DEF Elect, ingress
  <2> QED
    BY <1>2, <2>0, <2>1, <2>2, <2>3, OtherFrame
<1> QED
  BY <1>1, <1>2 DEF FlushEnded

-----------------------------------------------------------------------------
(* Terms and gathers. *)

(* A pass samples the current term; only an election begins another. *)
LEMMA TermsStep ==
  ASSUME TypeOK, TermsBegun, [Next]_vars
  PROVE  TermsBegun'
<1>0. RaftOK /\ SupervisorOK
  BY DEF TypeOK
<1>1. ASSUME NEW n \in Nodes, Supervise(n) PROVE TermsBegun'
  <2>1. UNCHANGED <<term, leader>> /\ term \in Nat
    BY <1>0, <1>1, SuperviseFrame DEF RaftOK
  <2>2. \A m \in Nodes : /\ passTerm'[m] \in {passTerm[m], term, 0}
                         /\ recTerm'[m] \in {recTerm[m], passTerm[m], 0}
    BY <1>0, <1>1 DEF Supervise, Tick, GatherReply, GatherShort, Recover, RestoreFails, Drain,
                      SupervisorOK
  <2> QED
    BY <1>0, <2>1, <2>2 DEF TermsBegun, SupervisorOK
<1>2. ASSUME NEW n \in Nodes, Elect(n) PROVE TermsBegun'
  BY <1>0, <1>2 DEF Elect, TermsBegun, sup, RaftOK, SupervisorOK
<1>3. ASSUME NEW n \in Nodes, Crash(n) PROVE TermsBegun'
  BY <1>0, <1>3 DEF Crash, TermsBegun, RaftOK, SupervisorOK
<1>4. ASSUME UNCHANGED <<term, leader, sup>> PROVE TermsBegun'
  BY <1>4 DEF TermsBegun, sup
<1> QED
  BY <1>1, <1>2, <1>3, <1>4, FlushFrame, OtherFrame DEF raft

(* A gather asks the other voters, and its answers go when it ends. *)
LEMMA GatherFromPeersStep ==
  ASSUME TypeOK, GatherFromPeers, [Next]_vars
  PROVE  GatherFromPeers'
<1>0. SupervisorOK
  BY DEF TypeOK
<1>1. ASSUME NEW n \in Nodes, Supervise(n) PROVE GatherFromPeers'
  <2>1. CASE Tick(n)
    BY <1>0, <2>1 DEF Tick, GatherFromPeers, SupervisorOK
  <2>2. CASE \E p \in Nodes : GatherReply(n, p)
    BY <1>0, <2>2 DEF GatherReply, GatherFromPeers, SupervisorOK
  <2>3. CASE GatherShort(n) \/ Recover(n) \/ RestoreFails(n)
    BY <1>0, <2>3 DEF GatherShort, Recover, RestoreFails, EndGather, GatherFromPeers, SupervisorOK
  <2>4. CASE Drain(n)
    BY <1>0, <2>4 DEF Drain, GatherFromPeers, SupervisorOK
  <2> QED
    BY <1>1, <2>1, <2>2, <2>3, <2>4 DEF Supervise
<1>2. ASSUME NEW n \in Nodes, Crash(n) PROVE GatherFromPeers'
  BY <1>0, <1>2 DEF Crash, GatherFromPeers, SupervisorOK
<1>3. ASSUME UNCHANGED sup PROVE GatherFromPeers'
  BY <1>3 DEF GatherFromPeers, sup
<1>4. ASSUME NEW n \in Nodes, Elect(n) PROVE UNCHANGED sup
  BY <1>4 DEF Elect
<1> QED
  BY <1>1, <1>2, <1>3, <1>4, FlushFrame, OtherFrame

(* A key that is committed stays committed. *)
LEMMA CommittedStays ==
  ASSUME TypeOK, [Next]_vars, NEW key, Committed(key)
  PROVE  Committed(key)'
  BY CommittedGrows DEF Committed, KeysOf

(* A key that a node holds stays there or is committed. *)
LEMMA HoldsStays ==
  ASSUME TypeOK, RecentCommitted, [Next]_vars, NEW n \in Nodes, NEW key, Holds(n, key)
  PROVE  Holds(n, key)' \/ Committed(key)'
<1>1. PICK j \in pend[n] : IdemKey[j] = key
  BY DEF Holds, KeysOf
<1>2. j \in pend'[n] \/ j \in CommittedSeqs'
  BY CopiesStep, CommittedGrows
<1> QED
  BY <1>1, <1>2 DEF Holds, Committed, KeysOf

(* The answers of a gather keep covering the ackers that gave them. *)
LEMMA GatheredStep ==
  ASSUME RecoveryInv, [Next]_vars
  PROVE  GatheredSoFar'
<1>0. TypeOK /\ SupervisorOK /\ FlushEnded /\ TermsBegun /\ GatherFromPeers /\ GatheredSoFar
      /\ term \in Nat
  BY DEF RecoveryInv, DurableInv, TypeOK, RaftOK
<1> SUFFICES ASSUME NEW n \in Nodes, pc'[n] = "gather", passTerm'[n] = term',
                    NEW i \in ackedB4', NEW q \in gfrom'[n] \cap acks'[i]
             PROVE  Committed(IdemKey[i])' \/ IdemKey[i] \in KeysOf(got[n])'
  BY DEF GatheredSoFar
<1>1. ASSUME pc[n] = "gather", i \in ackedB4,
             UNCHANGED <<term, passTerm[n], gfrom[n], got[n]>>
      PROVE  Committed(IdemKey[i])' \/ IdemKey[i] \in KeysOf(got[n])'
  <2>1. acks'[i] = acks[i]
    BY <1>0, <1>1, AckedFrozen DEF FlushEnded
  <2>2. Committed(IdemKey[i]) \/ IdemKey[i] \in KeysOf(got[n])
    BY <1>0, <1>1, <2>1 DEF GatheredSoFar
  <2> QED
    BY <1>0, <1>1, <2>2, CommittedStays DEF KeysOf
<1>2. ASSUME NEW m \in Nodes, Elect(m) PROVE FALSE
  BY <1>0, <1>2 DEF Elect, TermsBegun, sup, SupervisorOK
<1>3. ASSUME NEW m \in Nodes, Crash(m)
      PROVE  Committed(IdemKey[i])' \/ IdemKey[i] \in KeysOf(got[n])'
  <2>1. n # m
    BY <1>0, <1>3 DEF Crash, SupervisorOK
  <2> QED
    BY <1>0, <1>1, <1>3, <2>1 DEF Crash, SupervisorOK
<1>4. ASSUME NEW m \in Nodes, Supervise(m)
      PROVE  Committed(IdemKey[i])' \/ IdemKey[i] \in KeysOf(got[n])'
  <2>0. ackedB4' = ackedB4 /\ term' = term
    BY <1>4, SuperviseFrame
  <2>1. CASE n # m
    <3>1. UNCHANGED <<pc[n], passTerm[n], gfrom[n], got[n]>>
      BY <1>0, <1>4, <2>1 DEF Supervise, Tick, GatherReply, GatherShort, Recover,
                              RestoreFails, Drain, EndGather, SupervisorOK
    <3> QED
      BY <1>1, <2>0, <3>1
  <2>2. CASE n = m /\ Tick(m)
    <3>1. gfrom'[n] = {}
      BY <1>0, <2>2 DEF Tick, GatherFromPeers, SupervisorOK
    <3> QED
      BY <3>1
  <2>3. CASE n = m /\ \E p \in Nodes : GatherReply(m, p)
    <3>1. PICK p \in Nodes : GatherReply(n, p)
      BY <2>3
    <3>2. /\ pc[n] = "gather" /\ passTerm'[n] = passTerm[n]
          /\ gfrom'[n] = gfrom[n] \cup {p} /\ got'[n] = got[n] \cup pend[p]
      BY <1>0, <3>1 DEF GatherReply, SupervisorOK
    <3>3. acks'[i] = acks[i] /\ i \in Intents
      BY <1>0, <2>0, AckedFrozen DEF FlushEnded, Acked
    <3>4. CASE q = p
      <4>1. Holds(p, IdemKey[i]) \/ Committed(IdemKey[i])
        BY <3>3, <3>4 DEF RecoveryInv, DurableInv, AckersKeepOrCommit
      <4> QED
        BY <1>0, <3>2, <4>1, CommittedStays DEF Holds, KeysOf
    <3>5. CASE q \in gfrom[n]
      <4>1. Committed(IdemKey[i]) \/ IdemKey[i] \in KeysOf(got[n])
        BY <1>0, <2>0, <3>2, <3>3, <3>5 DEF GatheredSoFar
      <4> QED
        BY <1>0, <3>2, <4>1, CommittedStays DEF KeysOf
    <3> QED
      BY <3>2, <3>4, <3>5
  <2>4. CASE n = m /\ (GatherShort(m) \/ Recover(m) \/ RestoreFails(m) \/ Drain(m))
    BY <1>0, <2>4 DEF GatherShort, Recover, RestoreFails, Drain, SupervisorOK
  <2> QED
    BY <1>4, <2>1, <2>2, <2>3, <2>4 DEF Supervise
<1>5. ASSUME UNCHANGED <<term, ackedB4, sup>>
      PROVE  Committed(IdemKey[i])' \/ IdemKey[i] \in KeysOf(got[n])'
  BY <1>1, <1>5 DEF sup
<1> QED
  BY <1>2, <1>3, <1>4, <1>5, FlushFrame, OtherFrame DEF raft

-----------------------------------------------------------------------------
(* Recovery. *)

(* A restore leaves the key of everything it was given: of the intents with    *)
(* one key the first is put, unless the store has that key already.            *)
LEMMA PutAllKeepsKeys ==
  ASSUME NEW S \in SUBSET Intents, NEW R \in SUBSET Intents, NEW j \in R
  PROVE  S \subseteq PutAll(S, R) /\ IdemKey[j] \in KeysOf(PutAll(S, R))
<1>1. S \subseteq PutAll(S, R)
  BY DEF PutAll
<1>2. CASE IdemKey[j] \in KeysOf(S)
  BY <1>1, <1>2 DEF KeysOf
<1>3. CASE IdemKey[j] \notin KeysOf(S)
  <2> DEFINE T == {x \in R : IdemKey[x] = IdemKey[j]}
  <2>1. T \subseteq Nat /\ T # {}
    BY IntentAssumption
  <2>2. PICK x \in T : \A y \in T : ~(<<y, x>> \in OpToRel(<, Nat))
    BY <2>1, WFMin, NatLessThanWellFounded
  <2>3. \A y \in T : y \in Nat /\ x \in Nat /\ ~(y < x)
    BY <2>1, <2>2, Zenon DEF OpToRel
  <2>4. x \in PutAll(S, R)
    BY <1>3, <2>3 DEF PutAll
  <2> QED
    BY <1>1, <2>4 DEF KeysOf
<1> QED
  BY <1>1, <1>2, <1>3

(* Enough views meet every quorum of ackers. *)
LEMMA GatherMeetsQuorum ==
  ASSUME NEW n \in Nodes, NEW G \in SUBSET Nodes, n \notin G,
         NEW A \in SUBSET Nodes, Cardinality(A) >= MinAcks,
         Cardinality(G) + 1 >= GatherThreshold
  PROVE  n \in A \/ G \cap A # {}
<1>1. /\ IsFiniteSet(Nodes) /\ Cardinality(Nodes) \in Nat /\ IsFiniteSet(G)
      /\ Cardinality(G) \in Nat /\ Cardinality(A) \in Nat /\ MinAcks \in Nat
  BY NodesAssumption, BoundAssumption, FS_Subset, FS_CardinalityType
<1> DEFINE V == G \cup {n}
<1>2. Cardinality(V) = Cardinality(G) + 1
  BY <1>1, FS_AddElement
<1> HIDE DEF V
<1>3. Cardinality(V) + Cardinality(A) > Cardinality(Nodes)
  BY <1>1, <1>2 DEF GatherThreshold
<1>4. V \subseteq Nodes
  BY DEF V
<1>5. V \cap A # {}
  BY <1>1, <1>3, <1>4, FS_MajoritiesIntersect
<1> QED
  BY <1>5 DEF V

(* A recovery restores every write acknowledged before its pass's term. *)
LEMMA RecoverHolds ==
  ASSUME RecoveryInv, [Next]_vars, NEW n \in Nodes, Recover(n), cutoff[n] = 0,
         passTerm[n] = term, NEW i \in ackedB4
  PROVE  Committed(IdemKey[i])' \/ Holds(n, IdemKey[i])'
<1>0. /\ TypeOK /\ RecentCommitted /\ AckersKeepOrCommit /\ i \in Acked /\ i \in Intents
      /\ pend \in [Nodes -> SUBSET Intents] /\ got[n] \in SUBSET Intents
      /\ gfrom[n] \in SUBSET Nodes /\ acks[i] \in SUBSET Nodes
      /\ Cardinality(acks[i]) >= MinAcks
  BY DEF RecoveryInv, DurableInv, FlushEnded, Acked, AckedHasQuorum, TypeOK, SupervisorOK,
         IngressOK
<1>1. /\ pc[n] = "gather" /\ Cardinality(gfrom[n]) + 1 >= GatherThreshold
      /\ pend'[n] = PutAll(pend[n], Kept(n))
  BY <1>0 DEF Recover
<1>2. n \notin gfrom[n]
  BY DEF RecoveryInv, GatherFromPeers
<1>3. n \in acks[i] \/ gfrom[n] \cap acks[i] # {}
  BY <1>0, <1>1, <1>2, GatherMeetsQuorum
<1>4. CASE n \in acks[i]
  <2>1. Holds(n, IdemKey[i]) \/ Committed(IdemKey[i])
    BY <1>0, <1>4 DEF AckersKeepOrCommit
  <2> QED
    BY <1>0, <2>1, HoldsStays, CommittedStays
<1>5. CASE gfrom[n] \cap acks[i] # {}
  <2>1. Committed(IdemKey[i]) \/ IdemKey[i] \in KeysOf(got[n])
    BY <1>1, <1>5 DEF RecoveryInv, GatheredSoFar
  <2>2. CASE Committed(IdemKey[i])
    BY <1>0, <2>2, CommittedStays
  <2>3. CASE IdemKey[i] \in KeysOf(got[n])
    <3>1. PICK j \in got[n] : IdemKey[j] = IdemKey[i]
      BY <2>3 DEF KeysOf
    <3>2. CASE j \in RecentSeqs(n)
      <4>1. Committed(IdemKey[i])
        BY <1>0, <3>1, <3>2 DEF RecentCommitted, Committed, KeysOf
      <4> QED
        BY <1>0, <4>1, CommittedStays
    <3>3. CASE j \notin RecentSeqs(n)
      <4>1. j \in Kept(n) /\ Kept(n) \in SUBSET Intents
        BY <1>0, <3>1, <3>3 DEF Kept
      <4>2. IdemKey[j] \in KeysOf(PutAll(pend[n], Kept(n)))
        BY <1>0, <4>1, PutAllKeepsKeys
      <4> QED
        BY <1>1, <3>1, <4>2 DEF Holds
    <3> QED
      BY <3>2, <3>3
  <2> QED
    BY <2>1, <2>2, <2>3
<1> QED
  BY <1>3, <1>4, <1>5

(* What a recovered leader holds it keeps, as long as it leads in its term. *)
LEMMA RecoveredStep ==
  ASSUME RecoveryInv, NothingEvicted, RecoveredHoldsAcked, [Next]_vars
  PROVE  RecoveredHoldsAcked'
<1>0. TypeOK /\ RecentCommitted /\ SupervisorOK /\ TermsBegun /\ term \in Nat
  BY DEF RecoveryInv, DurableInv, TypeOK, RaftOK
<1> SUFFICES ASSUME NEW n \in Nodes, leader' = n, recTerm'[n] = term', NEW i \in ackedB4'
             PROVE  Committed(IdemKey[i])' \/ Holds(n, IdemKey[i])'
  BY DEF RecoveredHoldsAcked
<1>1. ASSUME leader = n, recTerm[n] = term, i \in ackedB4
      PROVE  Committed(IdemKey[i])' \/ Holds(n, IdemKey[i])'
  <2>1. Committed(IdemKey[i]) \/ Holds(n, IdemKey[i])
    BY <1>1 DEF RecoveredHoldsAcked
  <2> QED
    BY <1>0, <2>1, CommittedStays, HoldsStays
<1>2. ASSUME NEW m \in Nodes, Elect(m) PROVE FALSE
  BY <1>0, <1>2 DEF Elect, TermsBegun, sup, SupervisorOK
<1>3. ASSUME NEW m \in Nodes, Crash(m)
      PROVE  Committed(IdemKey[i])' \/ Holds(n, IdemKey[i])'
  <2>1. n # m /\ leader = n
    BY <1>3, NodesAssumption DEF Crash
  <2>2. recTerm'[n] = recTerm[n] /\ term' = term /\ ackedB4' = ackedB4
    BY <1>0, <1>3, <2>1 DEF Crash, SupervisorOK
  <2> QED
    BY <1>1, <2>1, <2>2
<1>4. ASSUME NEW m \in Nodes, Supervise(m)
      PROVE  Committed(IdemKey[i])' \/ Holds(n, IdemKey[i])'
  <2>0. ackedB4' = ackedB4 /\ term' = term /\ leader' = leader
    BY <1>4, SuperviseFrame
  <2>1. CASE recTerm'[n] = recTerm[n]
    BY <1>1, <2>0, <2>1
  <2>2. CASE n = m /\ Recover(n)
    <3>1. passTerm[n] = term
      BY <1>0, <2>0, <2>2 DEF Recover, SupervisorOK
    <3> QED
      BY <2>0, <2>2, <3>1, RecoverHolds DEF NothingEvicted
  <2>3. CASE n = m /\ Tick(n) /\ recTerm'[n] # recTerm[n]
    <3>1. recTerm'[n] = 0
      BY <1>0, <2>3 DEF Tick, SupervisorOK
    <3>2. term > 0
      BY <1>0, <2>0, NodesAssumption DEF TermsBegun
    <3> QED
      BY <1>0, <2>0, <3>1, <3>2
  <2>4. recTerm'[n] = recTerm[n] \/ (n = m /\ (Recover(n) \/ Tick(n)))
    BY <1>0, <1>4 DEF Supervise, Tick, GatherReply, GatherShort, Recover, RestoreFails, Drain,
                      SupervisorOK
  <2> QED
    BY <2>1, <2>2, <2>3, <2>4
<1>5. ASSUME UNCHANGED <<term, leader, ackedB4, sup>>
      PROVE  Committed(IdemKey[i])' \/ Holds(n, IdemKey[i])'
  BY <1>1, <1>5 DEF sup
<1> QED
  BY <1>2, <1>3, <1>4, <1>5, FlushFrame, OtherFrame DEF raft

-----------------------------------------------------------------------------
(* The inductive invariant behind recovery: acknowledgements are final, and    *)
(* every gather in the current term covers the ackers that answered it.        *)
THEOREM RecoveryInvariant == Spec => []RecoveryInv
<1>1. Init => FlushEnded /\ TermsBegun /\ GatherFromPeers /\ GatheredSoFar
  BY DEF Init, FlushEnded, TermsBegun, GatherFromPeers, GatheredSoFar, Acked
<1>2. RecoveryInv /\ [Next]_vars => FlushEnded' /\ TermsBegun' /\ GatherFromPeers' /\ GatheredSoFar'
  BY FlushEndedStep, TermsStep, GatherFromPeersStep, GatheredStep DEF RecoveryInv, DurableInv
<1>3. RecoveryInv <=> DurableInv /\ FlushEnded /\ TermsBegun /\ GatherFromPeers /\ GatheredSoFar
  BY DEF RecoveryInv
<1> QED
  BY <1>1, <1>2, <1>3, DurableInvariant, PTL DEF Spec

(* Gate-1 O2: as long as no dedup window has evicted an entry, a leader that   *)
(* has recovered in the current term holds, or the log has, every write that   *)
(* was acknowledged before the term began, whichever GatherThreshold voters    *)
(* its gather reached.                                                         *)
THEOREM RecoveryIsComplete == Spec /\ []NothingEvicted => []RecoveredHoldsAcked
<1>1. Init => RecoveredHoldsAcked
  BY NodesAssumption DEF Init, RecoveredHoldsAcked
<1>2. RecoveryInv /\ NothingEvicted /\ RecoveredHoldsAcked /\ [Next]_vars => RecoveredHoldsAcked'
  BY RecoveredStep
<1> QED
  BY <1>1, <1>2, RecoveryInvariant, PTL DEF Spec
=============================================================================
