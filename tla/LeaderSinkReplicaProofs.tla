------------------------ MODULE LeaderSinkReplicaProofs ------------------------
(* Machine-checked proofs about the replicas of LeaderSink: without the        *)
(* wall-clock bound every replica is a function of the log prefix it applied,  *)
(* and until a window evicts no intent becomes a delta twice.                  *)
EXTENDS LeaderSinkProofs

-----------------------------------------------------------------------------
(* Frames. *)

(* Only an apply and a crash change a state machine. *)
LEMMA StateMachineFrame ==
  ASSUME [Next]_vars
  PROVE  \/ \E n \in Nodes : Apply(n) /\ UNCHANGED log
         \/ \E n \in Nodes : Crash(n) /\ UNCHANGED log
         \/ UNCHANGED <<sm, log>>
         \/ Commit /\ UNCHANGED sm
<1>1. ASSUME NEW i \in Intents, Flush(i) PROVE UNCHANGED <<sm, log>>
  BY <1>1 DEF Flush, Put, PutFail, FanAck, FanFail, StartRescue, RescueAck, RescueFail,
              Refuse, Resolve, raft
<1>2. ASSUME NEW n \in Nodes, Supervise(n) PROVE UNCHANGED <<sm, log>>
  BY <1>2 DEF Supervise, Tick, GatherReply, GatherShort, Recover, RestoreFails, Drain, raft
<1>3. ASSUME NEW i \in Intents, NEW n \in Nodes, LateApply(i, n) PROVE UNCHANGED <<sm, log>>
  BY <1>3 DEF LateApply, raft
<1>4. ASSUME NEW n \in Nodes, Elect(n) \/ StepDown(n) PROVE UNCHANGED <<sm, log>>
  BY <1>4 DEF Elect, StepDown
<1>5. ASSUME NEW n \in Nodes, Apply(n) \/ Crash(n) PROVE UNCHANGED log
  BY <1>5 DEF Apply, Crash, raft
<1>6. Commit => UNCHANGED sm
  BY DEF Commit
<1>7. UNCHANGED vars => UNCHANGED <<sm, log>>
  BY DEF vars, raft
<1> QED
  BY <1>1, <1>2, <1>3, <1>4, <1>5, <1>6, <1>7 DEF Next

(* A commit appends: what was in the log stays where it was. *)
LEMMA LogAppends ==
  ASSUME TypeOK, [Next]_vars
  PROVE  /\ Len(log) \in Nat /\ Len(log') \in Nat /\ Len(log) <= Len(log')
         /\ \A k \in 1..Len(log) : log'[k] = log[k]
<1>0. log \in Seq(Item)
  BY DEF TypeOK, RaftOK
<1>1. CASE Commit
  <2> DEFINE b == Head(tail)
             items == [k \in 1..Len(b) |-> [seq |-> b[k], entry |-> entries + 1]]
  <2>1. Len(b) \in Nat
    BY <1>1 DEF Commit, TypeOK, RaftOK
  <2>2. log' = log \o items
    BY <1>1 DEF Commit
  <2>3. items \in Seq([seq : {b[k] : k \in 1..Len(b)}, entry : {entries + 1}])
    BY <2>1
  <2> HIDE DEF items
  <2> QED
    BY <1>0, <2>2, <2>3
<1>2. CASE UNCHANGED log
  BY <1>0, <1>2
<1> QED
  BY <1>1, <1>2, StateMachineFrame

-----------------------------------------------------------------------------
(* Determinism of apply. *)

StateOf(n) == <<deltas[n], recent[n], cutoff[n]>>

Evicted(r) == IF Len(r) <= Window THEN 0 ELSE Len(r) - Window

\* What applying item `it' makes of a state machine's deltas, window and cutoff.
Step(s, it) ==
  IF it.seq \in {s[2][k].seq : k \in 1..Len(s[2])} \/ it.entry < s[3]
  THEN s
  ELSE LET r == Append(s[2], it)
           m == Evicted(r)
       IN << Append(s[1], it.seq), SubSeq(r, m + 1, Len(r)),
             IF m = 0 THEN s[3] ELSE MaxNat(s[3], r[m].entry + 1) >>

(* Without the wall-clock bound the number of evicted entries is determined. *)
LEMMA EvictionIsUnique ==
  ASSUME ~TimeEvict, NEW r \in Seq(Item), NEW m \in EvictionCounts(r)
  PROVE  m = Evicted(r)
<1>1. Len(r) \in Nat /\ Window \in Nat
  BY BoundAssumption
<1> QED
  BY <1>1 DEF EvictionCounts, Evicted

(* So an apply is a function of the replica's state and of the item. *)
LEMMA ApplyIsStep ==
  ASSUME ~TimeEvict, TypeOK, NEW n \in Nodes, Apply(n)
  PROVE  /\ applied[n] \in Nat /\ applied[n] < Len(log) /\ applied'[n] = applied[n] + 1
         /\ StateOf(n)' = Step(StateOf(n), log[applied[n] + 1])
         /\ \A q \in Nodes \ {n} : StateOf(q)' = StateOf(q) /\ applied'[q] = applied[q]
<1>0. StateMachineOK /\ log \in Seq(Item)
  BY DEF TypeOK, RaftOK
<1> DEFINE it == log[applied[n] + 1]
           r  == Append(recent[n], it)
<1>1. applied[n] \in Nat /\ applied[n] < Len(log) /\ applied'[n] = applied[n] + 1
      /\ \A q \in Nodes \ {n} : applied'[q] = applied[q]
  BY <1>0 DEF Apply, StateMachineOK
<1>2. Gated(n, it) <=> it.seq \in {recent[n][k].seq : k \in 1..Len(recent[n])}
                       \/ it.entry < cutoff[n]
  BY DEF Gated, RecentSeqs
<1>3. CASE Gated(n, it)
  <2>1. UNCHANGED <<recent, cutoff, deltas>>
    BY <1>3 DEF Apply
  <2> HIDE DEF it
  <2>2. Step(StateOf(n), it) = StateOf(n)
    BY <1>2, <1>3 DEF Step, StateOf
  <2> QED
    BY <1>1, <2>1, <2>2 DEF StateOf, it
<1>4. CASE ~Gated(n, it)
  <2>1. /\ deltas' = [deltas EXCEPT ![n] = Append(@, it.seq)]
        /\ \E m \in EvictionCounts(r) :
             /\ recent' = [recent EXCEPT ![n] = SubSeq(r, m + 1, Len(r))]
             /\ cutoff' = [cutoff EXCEPT ![n] = IF m = 0 THEN @ ELSE MaxNat(@, r[m].entry + 1)]
    BY <1>4 DEF Apply
  <2>2. it \in Item /\ r \in Seq(Item)
    <3>1. applied[n] + 1 \in 1..Len(log) /\ recent[n] \in Seq(Item)
      BY <1>0, <1>1 DEF StateMachineOK
    <3>2. it \in Item
      BY <1>0, <3>1, ElementOfSeq
    <3> QED
      BY <3>1, <3>2
  <2> HIDE DEF it
  <2>3. PICK m \in EvictionCounts(r) :
             /\ recent' = [recent EXCEPT ![n] = SubSeq(r, m + 1, Len(r))]
             /\ cutoff' = [cutoff EXCEPT ![n] = IF m = 0 THEN @ ELSE MaxNat(@, r[m].entry + 1)]
    BY <2>1
  <2>4. m = Evicted(r)
    BY <2>2, <2>3, EvictionIsUnique
  <2>5. /\ deltas'[n] = Append(deltas[n], it.seq) /\ recent'[n] = SubSeq(r, m + 1, Len(r))
        /\ cutoff'[n] = IF m = 0 THEN cutoff[n] ELSE MaxNat(cutoff[n], r[m].entry + 1)
        /\ \A q \in Nodes \ {n} : /\ deltas'[q] = deltas[q] /\ recent'[q] = recent[q]
                                  /\ cutoff'[q] = cutoff[q]
    BY <1>0, <2>1, <2>3 DEF StateMachineOK
  <2>6. StateOf(n)' = <<deltas'[n], recent'[n], cutoff'[n]>>
    BY DEF StateOf
  <2>7. Step(StateOf(n), it) = <<deltas'[n], recent'[n], cutoff'[n]>>
    BY <1>2, <1>4, <2>4, <2>5 DEF Step, StateOf
  <2> QED
    BY <1>1, <2>5, <2>6, <2>7 DEF StateOf, it
<1> QED
  BY <1>3, <1>4

-----------------------------------------------------------------------------
(* Replicas agree. *)

\* R lists the states that replaying the first M items passes through, and
\* every replica is where its applied index says.
Replays(R, M) ==
  /\ R[0] = << <<>>, <<>>, 0 >>
  /\ \A k \in 1..M : R[k] = Step(R[k - 1], log[k])
  /\ \A n \in Nodes : applied[n] \in 0..M /\ StateOf(n) = R[applied[n]]

\* There is one such list for all replicas.
ReplayInv == \E M \in 0..Len(log) : \E R : Replays(R, M)

(* A replica that applies the item after its own prefix either follows the     *)
(* list or is the first to extend it.                                          *)
LEMMA ReplayApply ==
  ASSUME ~TimeEvict, TypeOK, ReplayInv, NEW n \in Nodes, Apply(n), UNCHANGED log
  PROVE  ReplayInv'
<1>0. Len(log) \in Nat
  BY DEF TypeOK, RaftOK
<1>1. PICK M \in 0..Len(log) : \E R : Replays(R, M)
  BY DEF ReplayInv
<1>2. PICK R : Replays(R, M)
  BY <1>1
<1> DEFINE a == applied[n]
<1>3. /\ a \in Nat /\ a < Len(log) /\ applied'[n] = a + 1
      /\ StateOf(n)' = Step(StateOf(n), log[a + 1])
      /\ \A q \in Nodes \ {n} : StateOf(q)' = StateOf(q) /\ applied'[q] = applied[q]
  BY ApplyIsStep
<1>4. a \in 0..M /\ StateOf(n) = R[a]
  BY <1>2 DEF Replays
<1> HIDE DEF a
<1>5. CASE a < M
  <2>1. a + 1 \in 1..M /\ (a + 1) - 1 = a
    BY <1>0, <1>3, <1>5
  <2>2. R[a + 1] = Step(R[a], log[a + 1])
    BY <1>2, <2>1 DEF Replays
  <2>3. Replays(R, M)'
    <3>1. \A k \in 1..M : R[k] = Step(R[k - 1], log'[k])
      BY <1>2 DEF Replays
    <3>2. ASSUME NEW q \in Nodes PROVE applied'[q] \in 0..M /\ StateOf(q)' = R[applied'[q]]
      <4>1. CASE q = n
        BY <1>0, <1>3, <1>4, <2>1, <2>2, <4>1
      <4>2. CASE q # n
        BY <1>2, <1>3, <4>2 DEF Replays
      <4> QED
        BY <4>1, <4>2
    <3> QED
      BY <1>2, <3>1, <3>2 DEF Replays
  <2> QED
    BY <2>3 DEF ReplayInv
<1>6. CASE a = M
  <2>1. M + 1 \in 0..Len(log) /\ M \in Nat
    BY <1>0, <1>3, <1>6
  <2>2. PICK Q : Q[M + 1] = Step(R[M], log[M + 1]) /\ \A k \in 0..M : Q[k] = R[k]
    <3> DEFINE P == [k \in 0..(M + 1) |-> IF k = M + 1 THEN Step(R[M], log[M + 1]) ELSE R[k]]
    <3>1. P[M + 1] = Step(R[M], log[M + 1]) /\ \A k \in 0..M : P[k] = R[k]
      BY <2>1
    <3> HIDE DEF P
    <3> QED
      BY <3>1
  <2>3. Replays(Q, M + 1)'
    <3>1. Q[0] = << <<>>, <<>>, 0 >>
      BY <1>2, <2>1, <2>2 DEF Replays
    <3>2. ASSUME NEW k \in 1..(M + 1) PROVE Q[k] = Step(Q[k - 1], log'[k])
      <4>1. k - 1 \in 0..M /\ (k = M + 1 \/ k \in 1..M)
        BY <2>1
      <4>2. CASE k = M + 1
        <5>1. k - 1 = M
          BY <2>1, <4>2
        <5> QED
          BY <2>1, <2>2, <4>1, <4>2, <5>1
      <4>3. CASE k \in 1..M
        <5>1. Q[k] = R[k] /\ Q[k - 1] = R[k - 1]
          BY <2>1, <2>2, <4>1, <4>3
        <5> QED
          BY <1>2, <4>3, <5>1 DEF Replays
      <4> QED
        BY <4>1, <4>2, <4>3
    <3>3. ASSUME NEW q \in Nodes
          PROVE  applied'[q] \in 0..(M + 1) /\ StateOf(q)' = Q[applied'[q]]
      <4>1. CASE q = n
        BY <1>3, <1>4, <1>6, <2>1, <2>2, <4>1
      <4>2. CASE q # n
        <5>1. applied[q] \in 0..M /\ StateOf(q) = R[applied[q]]
          BY <1>2 DEF Replays
        <5>2. applied[q] \in 0..(M + 1) /\ Q[applied[q]] = R[applied[q]]
          BY <2>1, <2>2, <5>1
        <5> QED
          BY <1>3, <4>2, <5>1, <5>2
      <4> QED
        BY <4>1, <4>2
    <3> QED
      BY <3>1, <3>2, <3>3 DEF Replays
  <2> QED
    BY <2>1, <2>3 DEF ReplayInv
<1> QED
  BY <1>0, <1>4, <1>5, <1>6

(* A commit, a restart and every other step keep the list. *)
LEMMA ReplayStep ==
  ASSUME ~TimeEvict, TypeOK, ReplayInv, [Next]_vars
  PROVE  ReplayInv'
<1>1. ASSUME NEW n \in Nodes, Apply(n), UNCHANGED log PROVE ReplayInv'
  BY <1>1, ReplayApply
<1>2. PICK M \in 0..Len(log) : \E R : Replays(R, M)
  BY DEF ReplayInv
<1>3. PICK R : Replays(R, M)
  BY <1>2
<1>4. /\ Len(log) \in Nat /\ Len(log') \in Nat /\ Len(log) <= Len(log')
      /\ \A k \in 1..Len(log) : log'[k] = log[k]
  BY LogAppends
<1>5. M \in 0..Len(log') /\ \A k \in 1..M : log'[k] = log[k]
  BY <1>4
<1>6. \A k \in 1..M : R[k] = Step(R[k - 1], log'[k])
  BY <1>3, <1>5 DEF Replays
<1>7. ASSUME NEW n \in Nodes, Crash(n) PROVE ReplayInv'
  <2>0. StateMachineOK
    BY DEF TypeOK
  <2>1. /\ applied'[n] = 0 /\ StateOf(n)' = << <<>>, <<>>, 0 >>
        /\ \A q \in Nodes \ {n} : StateOf(q)' = StateOf(q) /\ applied'[q] = applied[q]
    BY <1>7, <2>0 DEF Crash, StateOf, StateMachineOK
  <2>2. \A q \in Nodes : applied'[q] \in 0..M /\ StateOf(q)' = R[applied'[q]]
    BY <1>3, <1>4, <2>1 DEF Replays
  <2>3. Replays(R, M)'
    BY <1>3, <1>6, <2>2 DEF Replays
  <2> QED
    BY <1>5, <2>3 DEF ReplayInv
<1>8. ASSUME UNCHANGED sm PROVE ReplayInv'
  <2>1. \A q \in Nodes : applied'[q] \in 0..M /\ StateOf(q)' = R[applied'[q]]
    BY <1>3, <1>8 DEF Replays, StateOf, sm
  <2>2. Replays(R, M)'
    BY <1>3, <1>6, <2>1 DEF Replays
  <2> QED
    BY <1>5, <2>2 DEF ReplayInv
<1> QED
  BY <1>1, <1>7, <1>8, StateMachineFrame

(* I-L1: without the wall-clock bound of the window (dedup_window_ms), two     *)
(* replicas that have applied the same number of log items hold the same       *)
(* deltas, window and cutoff, whatever restarts each has been through.         *)
THEOREM ReplicasAgree == ASSUME ~TimeEvict PROVE Spec => []SameLogSameState
<1>1. Init => ReplayInv
  <2> SUFFICES ASSUME Init PROVE ReplayInv
    OBVIOUS
  <2> DEFINE R == [k \in {0} |-> << <<>>, <<>>, 0 >>]
  <2>1. Replays(R, 0) /\ 0 \in 0..Len(log)
    BY DEF Init, Replays, StateOf
  <2> QED
    BY <2>1 DEF ReplayInv
<1>2. TypeOK /\ ReplayInv /\ [Next]_vars => ReplayInv'
  BY ReplayStep
<1>3. ReplayInv => SameLogSameState
  <2> SUFFICES ASSUME ReplayInv, NEW m \in Nodes, NEW n \in Nodes, applied[m] = applied[n]
               PROVE  deltas[m] = deltas[n] /\ recent[m] = recent[n] /\ cutoff[m] = cutoff[n]
    BY DEF SameLogSameState
  <2>1. StateOf(m) = StateOf(n)
    BY DEF ReplayInv, Replays
  <2> QED
    BY <2>1 DEF StateOf
<1> QED
  BY <1>1, <1>2, <1>3, TypeCorrect, PTL DEF Spec

-----------------------------------------------------------------------------
(* No intent twice. *)

(* Applying an item to a replica whose window lists its whole history either    *)
(* evicts, which the cutoff records, or extends history and window alike.       *)
LEMMA WindowApply ==
  ASSUME TypeOK, WindowIsHistory, NEW n \in Nodes, Apply(n)
  PROVE  WindowIsHistory'
<1>0. StateMachineOK /\ log \in Seq(Item)
  BY DEF TypeOK, RaftOK
<1> DEFINE it == log[applied[n] + 1]
           r  == Append(recent[n], it)
           d  == Append(deltas[n], it.seq)
<1>1. CASE UNCHANGED <<recent, cutoff, deltas>>
  BY <1>1 DEF WindowIsHistory
<1>2. CASE ~Gated(n, it) /\ ~UNCHANGED <<recent, cutoff, deltas>>
  <2>1. /\ deltas' = [deltas EXCEPT ![n] = d]
        /\ \E m \in EvictionCounts(r) :
             /\ recent' = [recent EXCEPT ![n] = SubSeq(r, m + 1, Len(r))]
             /\ cutoff' = [cutoff EXCEPT ![n] = IF m = 0 THEN @ ELSE MaxNat(@, r[m].entry + 1)]
    BY <1>2 DEF Apply
  <2>2. it \in Item /\ it.seq \in Intents
    <3>1. applied[n] + 1 \in 1..Len(log)
      BY <1>0 DEF Apply, StateMachineOK
    <3>2. it \in Item
      BY <1>0, <3>1, ElementOfSeq
    <3> QED
      BY <3>2 DEF Item
  <2>3. it.seq \notin RecentSeqs(n)
    BY <1>2 DEF Gated
  <2> HIDE DEF it
  <2>4. /\ recent[n] \in Seq(Item) /\ deltas[n] \in Seq(Intents) /\ cutoff[n] \in Nat
        /\ Len(recent[n]) \in Nat /\ Len(deltas[n]) \in Nat
    BY <1>0 DEF StateMachineOK
  <2>5. /\ r \in Seq(Item) /\ Len(r) = Len(recent[n]) + 1
        /\ \A k \in 1..Len(recent[n]) : r[k] = recent[n][k]
        /\ r[Len(recent[n]) + 1] = it
    BY <2>2, <2>4
  <2>6. /\ Len(d) = Len(deltas[n]) + 1
        /\ \A k \in 1..Len(deltas[n]) : d[k] = deltas[n][k]
        /\ d[Len(deltas[n]) + 1] = it.seq
    BY <2>2, <2>4
  <2> HIDE DEF r, d
  <2>7. PICK m \in EvictionCounts(r) :
             /\ recent' = [recent EXCEPT ![n] = SubSeq(r, m + 1, Len(r))]
             /\ cutoff' = [cutoff EXCEPT ![n] = IF m = 0 THEN @ ELSE MaxNat(@, r[m].entry + 1)]
    BY <2>1
  <2>8. m \in 0..(Len(r) - 1)
    BY <2>7 DEF EvictionCounts
  <2>9. CASE m # 0
    <3>1. r[m] \in Item
      BY <2>4, <2>5, <2>8, <2>9, ElementOfSeq
    <3>2. r[m].entry \in Nat
      BY <3>1 DEF Item
    <3>3. cutoff'[n] # 0
      BY <1>0, <2>4, <2>7, <2>9, <3>2 DEF MaxNat, StateMachineOK
    <3>4. ASSUME NEW q \in Nodes \ {n} PROVE UNCHANGED <<recent[q], cutoff[q], deltas[q]>>
      BY <1>0, <2>1, <2>7 DEF StateMachineOK
    <3> QED
      BY <3>3, <3>4 DEF WindowIsHistory
  <2>10. CASE m = 0
    <3>1. SubSeq(r, 1, Len(r)) = r
      BY <2>5
    <3>2. recent'[n] = r /\ deltas'[n] = d /\ cutoff'[n] = cutoff[n]
      BY <1>0, <2>1, <2>7, <2>10, <3>1 DEF StateMachineOK
    <3>3. ASSUME NEW q \in Nodes \ {n} PROVE UNCHANGED <<recent[q], cutoff[q], deltas[q]>>
      BY <1>0, <2>1, <2>7 DEF StateMachineOK
    <3>4. ASSUME cutoff[n] = 0
          PROVE  /\ Len(r) = Len(d) /\ \A k \in 1..Len(d) : r[k].seq = d[k]
                 /\ \A j, k \in 1..Len(d) : d[j] = d[k] => j = k
      <4> DEFINE L == Len(deltas[n])
      <4>1. /\ Len(recent[n]) = L /\ \A k \in 1..L : recent[n][k].seq = deltas[n][k]
            /\ \A j, k \in 1..L : deltas[n][j] = deltas[n][k] => j = k
        BY <3>4 DEF WindowIsHistory
      <4>2. \A k \in 1..L : deltas[n][k] # it.seq
        BY <2>3, <4>1 DEF RecentSeqs
      <4> HIDE DEF L
      <4>3. L \in Nat /\ Len(d) = L + 1 /\ \A k \in 1..(L + 1) : k \in 1..L \/ k = L + 1
        BY <2>4, <2>6 DEF L
      <4>4. \A k \in 1..(L + 1) : r[k].seq = d[k]
        BY <2>5, <2>6, <4>1, <4>3 DEF L
      <4>5. \A j, k \in 1..(L + 1) : d[j] = d[k] => j = k
        BY <2>6, <4>1, <4>2, <4>3 DEF L
      <4> QED
        BY <2>5, <4>1, <4>3, <4>4, <4>5
    <3> QED
      BY <3>2, <3>3, <3>4 DEF WindowIsHistory
  <2> QED
    BY <2>9, <2>10
<1> QED
  BY <1>1, <1>2 DEF Apply

(* Until its window evicts, each replica's window is its history. *)
THEOREM WindowInvariant == Spec => []WindowIsHistory
<1>1. Init => WindowIsHistory
  BY DEF Init, WindowIsHistory
<1>2. TypeOK /\ WindowIsHistory /\ [Next]_vars => WindowIsHistory'
  <2> SUFFICES ASSUME TypeOK, WindowIsHistory, [Next]_vars PROVE WindowIsHistory'
    OBVIOUS
  <2>1. ASSUME NEW n \in Nodes, Crash(n) PROVE WindowIsHistory'
    BY <2>1 DEF Crash, WindowIsHistory, TypeOK, StateMachineOK
  <2>2. ASSUME UNCHANGED sm PROVE WindowIsHistory'
    BY <2>2 DEF WindowIsHistory, sm
  <2> QED
    BY <2>1, <2>2, WindowApply, StateMachineFrame
<1> QED
  BY <1>1, <1>2, TypeCorrect, PTL DEF Spec

(* Part 8: while no window has evicted an entry, no replica turns an intent     *)
(* into a delta twice, however often it was resubmitted.                        *)
THEOREM NothingTwice == Spec => [](NothingEvicted => NoDoubleIncorporation)
<1>1. TypeOK /\ WindowIsHistory /\ NothingEvicted => NoDoubleIncorporation
  <2> SUFFICES ASSUME TypeOK, WindowIsHistory, NothingEvicted, NEW n \in Nodes
               PROVE  \A j, k \in DOMAIN deltas[n] : deltas[n][j] = deltas[n][k] => j = k
    BY DEF NoDoubleIncorporation
  <2>1. DOMAIN deltas[n] = 1..Len(deltas[n])
    BY DEF TypeOK, StateMachineOK
  <2> QED
    BY <2>1 DEF WindowIsHistory, NothingEvicted
<1> QED
  BY <1>1, WindowInvariant, TypeCorrect, PTL
=============================================================================
