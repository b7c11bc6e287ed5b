--------------------------- MODULE ChunkRefsProofs ---------------------------
(* Machine-checked proofs about ChunkRefs, for any nodes, replicas,           *)
(* compositions, contents, quorum and number of faults: what the replicated   *)
(* chunk table remembers of the deletes, and what becomes of the references   *)
(* in the stores of the nodes.                                                *)
EXTENDS ChunkRefs, FiniteSetTheorems, TLAPS

-----------------------------------------------------------------------------
(* One table and its parked decrements. *)

\* The table R and the parked decrements P of a replica, when the chunks of St
\* are written and those of De deleted.
GoodRows(R, P, St, De) ==
  /\ OnChunks(R, Row) /\ P \in [Chunks -> Nat]
  /\ \A k \in DOMAIN R : /\ R[k].rc <= 1 /\ (R[k].tomb <=> R[k].rc = 0)
                         /\ k \in St /\ (R[k].tomb => k \in De)
  /\ \A k \in Chunks : P[k] > 0 => k \in De

\* A decrement of chunk k is remembered.
Kept(R, P, k) == IF k \in DOMAIN R THEN R[k].tomb ELSE P[k] > 0

(* apply_new_chunks keeps the table good and forgets no decrement: a new row   *)
(* takes the parked ones.                                                     *)
LEMMA CreatedIs ==
  ASSUME NEW R, NEW P, NEW St, NEW De, GoodRows(R, P, St, De), NEW k \in Chunks, k \in St
  PROVE  LET s == Created([rows |-> R, parked |-> P], k) IN
         /\ GoodRows(s.rows, s.parked, St, De)
         /\ \A j \in Chunks : Kept(R, P, j) => Kept(s.rows, s.parked, j)
<1> DEFINE s == Created([rows |-> R, parked |-> P], k)
<1>0. P \in [Chunks -> Nat]
  BY DEF GoodRows
<1>1. CASE k \in DOMAIN R
  <2>1. s.rows = R /\ s.parked = P
    BY <1>1 DEF Created
  <2> QED
    BY <2>1
<1>2. CASE k \notin DOMAIN R
  <2>1. PICK row : row = [rc |-> IF P[k] > 0 THEN 0 ELSE 1, tomb |-> P[k] > 0]
    OBVIOUS
  <2>2. s.rows = Bind(R, k, row) /\ s.parked = [P EXCEPT ![k] = 0]
    BY <1>2, <2>1 DEF Created
  <2> HIDE DEF s
  <2>3. /\ row \in Row /\ row.rc <= 1 /\ (row.tomb <=> row.rc = 0) /\ (row.tomb <=> P[k] > 0)
    <3>9. (P[k] > 0) \in BOOLEAN
      BY <1>0
    <3>1. PICK gone \in BOOLEAN : gone = (P[k] > 0)
      BY <3>9, Zenon
    <3>2. row = [rc |-> IF P[k] > 0 THEN 0 ELSE 1, tomb |-> gone]
      BY <2>1, <3>1
    <3>3. row.tomb = gone /\ row.rc = (IF P[k] > 0 THEN 0 ELSE 1) /\ row \in Row
      BY <3>2 DEF Row
    <3>4. gone <=> P[k] > 0
      BY <3>1
    <3>5. row.rc <= 1 /\ (row.rc = 0 <=> P[k] > 0)
      BY <3>3
    <3> QED
      BY <3>3, <3>4, <3>5
  <2>4. PICK R2, P2 : R2 = s.rows /\ P2 = s.parked
    OBVIOUS
  <2>5. /\ DOMAIN R2 = DOMAIN R \cup {k} /\ R2[k] = row
        /\ \A j \in DOMAIN R : R2[j] = R[j]
        /\ R2 = [j \in DOMAIN R \cup {k} |-> R2[j]]
    BY <1>2, <2>2, <2>4 DEF Bind
  <2>6. P2 \in [Chunks -> Nat] /\ P2[k] = 0 /\ \A j \in Chunks \ {k} : P2[j] = P[j]
    BY <1>0, <2>2, <2>4
  <2>7. OnChunks(R2, Row)
    BY <2>3, <2>5 DEF GoodRows, OnChunks
  <2>8. GoodRows(R2, P2, St, De)
    BY <2>3, <2>5, <2>6, <2>7 DEF GoodRows
  <2>9. \A j \in Chunks : Kept(R, P, j) => Kept(R2, P2, j)
    BY <1>2, <2>3, <2>5, <2>6 DEF Kept
  <2> QED
    BY <2>4, <2>8, <2>9 DEF s
<1> QED
  BY <1>1, <1>2

(* DecrementChunkRefcount keeps the table good and forgets no decrement.       *)
LEMMA DecrementedIs ==
  ASSUME NEW R, NEW P, NEW St, NEW De, GoodRows(R, P, St, De), NEW k \in Chunks, k \in De
  PROVE  LET s == Decremented([rows |-> R, parked |-> P], k) IN
         /\ GoodRows(s.rows, s.parked, St, De)
         /\ \A j \in Chunks : Kept(R, P, j) => Kept(s.rows, s.parked, j)
         /\ ~Refused(P, k) => Kept(s.rows, s.parked, k)
<1> DEFINE s == Decremented([rows |-> R, parked |-> P], k)
<1>0. P \in [Chunks -> Nat]
  BY DEF GoodRows
<1>1. CASE k \in DOMAIN R
  <2>1. R[k] \in Row /\ R[k].rc \in {0, 1} /\ (R[k].tomb <=> R[k].rc = 0)
    BY <1>1 DEF GoodRows, OnChunks, Row
  <2>2. PICK rc : rc = IF R[k].rc = 0 THEN 0 ELSE R[k].rc - 1
    OBVIOUS
  <2>3. rc = 0
    BY <2>1, <2>2
  <2>4. PICK row : row = [rc |-> rc, tomb |-> R[k].tomb \/ rc = 0]
    OBVIOUS
  <2>5. row \in Row /\ row.rc = 0 /\ row.tomb
    BY <2>1, <2>3, <2>4 DEF Row
  <2>6. s.rows = [R EXCEPT ![k] = row] /\ s.parked = P
    BY <1>1, <2>2, <2>4 DEF Decremented
  <2>7. PICK R2 : R2 = s.rows
    OBVIOUS
  <2>8. /\ DOMAIN R2 = DOMAIN R /\ R2[k] = row /\ \A j \in DOMAIN R \ {k} : R2[j] = R[j]
        /\ R2 = [j \in DOMAIN R |-> R2[j]]
    BY <1>1, <2>6, <2>7
  <2>9. OnChunks(R2, Row)
    BY <2>5, <2>8 DEF GoodRows, OnChunks
  <2>10. GoodRows(R2, P, St, De)
    BY <2>5, <2>8, <2>9 DEF GoodRows
  <2>11. Kept(R2, P, k) /\ \A j \in Chunks : Kept(R, P, j) => Kept(R2, P, j)
    BY <1>1, <2>5, <2>8 DEF Kept
  <2> QED
    BY <2>6, <2>7, <2>10, <2>11
<1>2. CASE k \notin DOMAIN R
  <2>1. CASE Refused(P, k)
    <3>1. s.rows = R /\ s.parked = P
      BY <1>2, <2>1 DEF Decremented
    <3> QED
      BY <2>1, <3>1
  <2>2. CASE ~Refused(P, k)
    <3>1. s.rows = R /\ s.parked = [P EXCEPT ![k] = @ + 1]
      BY <1>2, <2>2 DEF Decremented
    <3> HIDE DEF s
    <3>2. PICK P2 : P2 = s.parked
      OBVIOUS
    <3>3. /\ P2 \in [Chunks -> Nat] /\ P2[k] > 0 /\ \A j \in Chunks \ {k} : P2[j] = P[j]
      BY <1>0, <3>1, <3>2
    <3>4. GoodRows(R, P2, St, De)
      BY <3>3 DEF GoodRows
    <3>5. Kept(R, P2, k) /\ \A j \in Chunks : Kept(R, P, j) => Kept(R, P2, j)
      BY <1>2, <3>3 DEF Kept
    <3> QED
      BY <3>1, <3>2, <3>4, <3>5 DEF s
  <2> QED
    BY <2>1, <2>2
<1> QED
  BY <1>1, <1>2

-----------------------------------------------------------------------------
(* The calls of the gateways and the local stores. *)

(* A committed command. *)
LEMMA CommandsAre ==
  ASSUME TypeOK, NEW i \in 1..Len(log)
  PROVE  /\ log[i] \in Command /\ log[i].comp \in Comps /\ log[i].chunk \in Chunks
         /\ log[i].op \in {"create", "decrement"}
<1>1. log \in Seq(Command)
  BY DEF TypeOK
<1>2. log[i] \in Command
  BY <1>1
<1> QED
  BY <1>2 DEF Command

LocalOK == DOMAIN local = Nodes /\ \A n \in Nodes : OnChunks(local[n], Nat)

(* A write to a node's store. *)
LEMMA PutIs ==
  ASSUME LocalOK, NEW n \in Nodes, NEW k \in Chunks, Put(n, k)
  PROVE  LocalOK'
<1>1. PICK v : v = IF Has(n, k) THEN local[n][k] + 1 ELSE 1
  OBVIOUS
<1>2. v \in Nat
  <2>1. CASE Has(n, k)
    <3>1. local[n][k] \in Nat
      BY <2>1 DEF LocalOK, OnChunks, Has
    <3> QED
      BY <1>1, <2>1, <3>1
  <2>2. CASE ~Has(n, k)
    BY <1>1, <2>2
  <2> QED
    BY <2>1, <2>2
<1>3. PICK f : f = Bind(local[n], k, v)
  OBVIOUS
<1>4. OnChunks(f, Nat)
  <2>1. f \in [DOMAIN local[n] \cup {k} -> Nat]
    BY <1>2, <1>3 DEF LocalOK, OnChunks, Bind
  <2> QED
    BY <2>1 DEF LocalOK, OnChunks
<1>5. local' = [local EXCEPT ![n] = f]
  BY <1>1, <1>3 DEF Put
<1> QED
  BY <1>4, <1>5 DEF LocalOK

(* A reference dropped at a node's store. *)
LEMMA DropIs ==
  ASSUME LocalOK, NEW n \in Nodes, NEW k \in Chunks, Drop(n, k)
  PROVE  LocalOK'
<1>1. CASE Has(n, k) /\ local[n][k] > 0
  <2>1. local[n] \in [DOMAIN local[n] -> Nat] /\ DOMAIN local[n] \subseteq Chunks
    BY DEF LocalOK, OnChunks
  <2>2. local[n][k] - 1 \in Nat
    BY <1>1, <2>1 DEF Has
  <2>3. PICK f : f = [local[n] EXCEPT ![k] = local[n][k] - 1]
    OBVIOUS
  <2>4. f \in [DOMAIN local[n] -> Nat]
    BY <2>1, <2>2, <2>3
  <2>5. local' = [local EXCEPT ![n] = f]
    BY <1>1, <2>3 DEF Drop
  <2> QED
    BY <2>1, <2>4, <2>5 DEF LocalOK, OnChunks
<1>2. CASE ~(Has(n, k) /\ local[n][k] > 0)
  BY <1>2 DEF LocalOK, Drop
<1> QED
  BY <1>1, <1>2

(* gc of a node's store. *)
LEMMA GcIs ==
  ASSUME LocalOK, NEW n \in Nodes, Gc(n)
  PROVE  LocalOK'
<1>1. PICK f : f = [k \in {j \in DOMAIN local[n] : local[n][j] > 0} |-> local[n][k]]
  OBVIOUS
<1>2. OnChunks(f, Nat)
  BY <1>1 DEF LocalOK, OnChunks
<1>3. /\ DOMAIN local' = Nodes /\ local'[n] = f
      /\ \A m \in Nodes \ {n} : local'[m] = local[m]
  BY <1>1 DEF Gc, LocalOK
<1> QED
  BY <1>2, <1>3 DEF LocalOK

(* A step that only moves writes and deletes on keeps what was said of them. *)
LEMMA CallsKeep ==
  ASSUME RefsInv, UNCHANGED raft,
         \A x \in Comps : /\ w[x].pc # "new" => w'[x].pc # "new"
                          /\ d[x].pc # "no" => d'[x].pc # "no"
  PROVE  LogOK' /\ RowsOK' /\ (DecrementsKept => DecrementsKept')
<1>1. \A i \in 1..Len(log) : log[i].comp \in Comps
  BY CommandsAre DEF RefsInv
<1>2. LogOK'
  BY <1>1 DEF RefsInv, LogOK, raft, c
<1>3. \A k : (Started(k) => Started(k)') /\ (Deleting(k) => Deleting(k)')
  BY DEF Started, Deleting, c
<1>4. RowsOK'
  BY <1>3 DEF RefsInv, RowsOK, raft
<1>5. DecrementsKept => DecrementsKept'
  BY DEF DecrementsKept, raft
<1> QED
  BY <1>2, <1>4, <1>5

(* Each call of a gateway or a store keeps the types and moves only forward. *)
LEMMA CallSteps ==
  ASSUME RefsInv,
         \/ \E n \in Nodes : Gc(n)
         \/ \E x \in Comps, n \in Nodes :
              \/ Hit(x, n) \/ Miss(x, n) \/ Delete(x, n) \/ PutFragment(n, x)
              \/ DeleteFragment(x, n) \/ DeleteFragmentFails(x, n)
         \/ \E x \in Comps : Fan(x) \/ FanDone(x) \/ FanFails(x) \/ Ack(x) \/ DecrementFails(x)
         \/ \E n \in Replicas, k \in Chunks, p \in Nodes : Repair(n, k, p)
  PROVE  RefsInv' /\ (DecrementsKept => DecrementsKept')
<1> DEFINE Forward == \A x \in Comps : /\ w[x].pc # "new" => w'[x].pc # "new"
                                       /\ d[x].pc # "no" => d'[x].pc # "no"
           Calls == w \in [Comps -> Write] /\ d \in [Comps -> Deletion]
           CallsP == w' \in [Comps -> Write] /\ d' \in [Comps -> Deletion]
           NetP == net' \subseteq Nodes \X Comps
<1>1. TypeOK /\ LocalOK /\ Calls /\ net \subseteq Nodes \X Comps
  BY DEF RefsInv, TypeOK, LocalOK
<1>2. \A x \in Comps : c(x) \in Chunks
  BY ChunkRefsAssumption DEF c
<1>3. SUFFICES UNCHANGED raft /\ LocalOK' /\ CallsP /\ NetP /\ Forward
  <2>1. ASSUME UNCHANGED raft, LocalOK', CallsP, NetP, Forward
        PROVE  RefsInv' /\ (DecrementsKept => DecrementsKept')
    <3>1. LogOK' /\ RowsOK' /\ (DecrementsKept => DecrementsKept')
      BY <2>1, CallsKeep
    <3>2. TypeOK'
      BY <1>1, <2>1 DEF TypeOK, LocalOK, raft
    <3> QED
      BY <3>1, <3>2 DEF RefsInv
  <2> QED
    BY <2>1
<1>4. ASSUME NEW n \in Nodes, Gc(n) PROVE UNCHANGED raft /\ LocalOK' /\ CallsP /\ NetP /\ Forward
  <2>1. LocalOK'
    BY <1>1, <1>4, GcIs
  <2> QED
    BY <1>1, <1>4, <2>1 DEF Gc
<1>5. ASSUME NEW x \in Comps, NEW n \in Nodes, Hit(x, n)
      PROVE  UNCHANGED raft /\ LocalOK' /\ CallsP /\ NetP /\ Forward
  <2>1. LocalOK'
    BY <1>1, <1>2, <1>5, PutIs DEF Hit
  <2> QED
    BY <1>1, <1>5, <2>1 DEF Hit, Write
<1>6. ASSUME NEW x \in Comps, NEW n \in Nodes, Miss(x, n)
      PROVE  UNCHANGED raft /\ LocalOK' /\ CallsP /\ NetP /\ Forward
  BY <1>1, <1>6 DEF Miss, Write, LocalOK
<1>7. ASSUME NEW x \in Comps, NEW n \in Nodes, Delete(x, n)
      PROVE  UNCHANGED raft /\ LocalOK' /\ CallsP /\ NetP /\ Forward
  <2>1. LocalOK'
    BY <1>1, <1>2, <1>7, DropIs DEF Delete
  <2> QED
    BY <1>1, <1>7, <2>1 DEF Delete, Deletion
<1>8. ASSUME NEW x \in Comps, NEW n \in Nodes, PutFragment(n, x)
      PROVE  UNCHANGED raft /\ LocalOK' /\ CallsP /\ NetP /\ Forward
  <2>1. LocalOK'
    BY <1>1, <1>2, <1>8, PutIs DEF PutFragment
  <2>2. CASE w[x].pc = "fan"
    <3>1. w[x] \in [pc : {"sealed", "fan", "placed", "failed", "acked"}, at : Nodes,
                    fresh : BOOLEAN, acks : SUBSET Nodes]
      BY <1>1, <2>2 DEF Write
    <3> QED
      BY <1>1, <1>8, <2>1, <2>2, <3>1 DEF PutFragment, Write
  <2>3. CASE w[x].pc # "fan"
    BY <1>1, <1>8, <2>1, <2>3 DEF PutFragment
  <2> QED
    BY <2>2, <2>3
<1>9. ASSUME NEW x \in Comps, NEW n \in Nodes, DeleteFragment(x, n) \/ DeleteFragmentFails(x, n)
      PROVE  UNCHANGED raft /\ LocalOK' /\ CallsP /\ NetP /\ Forward
  <2>1. LocalOK'
    BY <1>1, <1>2, <1>9, DropIs DEF DeleteFragment, DeleteFragmentFails, LocalOK
  <2>2. d[x].pc = "fan" /\ d' = [d EXCEPT ![x] = Sent(@, n)] /\ w' = w /\ net' = net /\ UNCHANGED raft
    BY <1>9 DEF DeleteFragment, DeleteFragmentFails
  <2>3. d[x] \in [pc : {"fan"}, todo : SUBSET Nodes]
    BY <1>1, <2>2 DEF Deletion
  <2>4. Sent(d[x], n) \in Deletion /\ Sent(d[x], n).pc # "no"
    BY <2>3 DEF Sent, Deletion, Done
  <2> QED
    BY <1>1, <2>1, <2>2, <2>4
<1>10. ASSUME NEW x \in Comps, Fan(x)
       PROVE  UNCHANGED raft /\ LocalOK' /\ CallsP /\ NetP /\ Forward
  <2>1. w[x] \in [pc : {"sealed", "fan", "placed", "failed", "acked"}, at : Nodes,
                  fresh : BOOLEAN, acks : SUBSET Nodes]
    BY <1>1, <1>10 DEF Fan, Write
  <2>2. LocalOK'
    BY <1>1, <1>2, <1>10, <2>1, PutIs DEF Fan
  <2>3. NetP
    BY <1>1, <1>10 DEF Fan
  <2> QED
    BY <1>1, <1>10, <2>1, <2>2, <2>3 DEF Fan, Write
<1>11. ASSUME NEW x \in Comps, FanDone(x) \/ FanFails(x) \/ Ack(x)
       PROVE  UNCHANGED raft /\ LocalOK' /\ CallsP /\ NetP /\ Forward
  <2>1. w[x] \in [pc : {"sealed", "fan", "placed", "failed", "acked"}, at : Nodes,
                  fresh : BOOLEAN, acks : SUBSET Nodes]
    BY <1>1, <1>11 DEF FanDone, FanFails, Ack, Write
  <2>2. /\ UNCHANGED <<raft, local, net, d>>
        /\ \/ w' = [w EXCEPT ![x].pc = "placed", ![x].acks = {}]
           \/ w' = [w EXCEPT ![x].pc = "failed", ![x].acks = {}]
           \/ w' = [w EXCEPT ![x].pc = "acked"]
    BY <1>11 DEF FanDone, FanFails, Ack
  <2> QED
    BY <1>1, <2>1, <2>2 DEF LocalOK, Write
<1>12. ASSUME NEW x \in Comps, DecrementFails(x)
       PROVE  UNCHANGED raft /\ LocalOK' /\ CallsP /\ NetP /\ Forward
  BY <1>1, <1>12 DEF DecrementFails, LocalOK, Done, Deletion
<1>13. ASSUME NEW n \in Replicas, NEW k \in Chunks, NEW p \in Nodes, Repair(n, k, p)
       PROVE  UNCHANGED raft /\ LocalOK' /\ CallsP /\ NetP /\ Forward
  <2>1. LocalOK'
    BY <1>1, <1>13, PutIs DEF Repair
  <2> QED
    BY <1>1, <1>13, <2>1 DEF Repair
<1> HIDE DEF Forward, Calls, CallsP, NetP
<1> QED
  BY <1>4, <1>5, <1>6, <1>7, <1>8, <1>9, <1>10, <1>11, <1>12, <1>13

-----------------------------------------------------------------------------
(* The commands of the log. *)

StartedChunks == {k \in Chunks : Started(k)}
DeletedChunks == {k \in Chunks : Deleting(k)}

(* What RefsInv says of one replica. *)
LEMMA ReplicaIsGood ==
  ASSUME RefsInv, NEW n \in Replicas
  PROVE  GoodRows(table[n], parked[n], StartedChunks, DeletedChunks)
<1>1. OnChunks(table[n], Row) /\ parked[n] \in [Chunks -> Nat]
  BY DEF RefsInv, TypeOK
<1>2. DOMAIN table[n] \subseteq Chunks
  BY <1>1 DEF OnChunks
<1> QED
  BY <1>1, <1>2 DEF RefsInv, RowsOK, GoodRows, StartedChunks, DeletedChunks

(* A replica that goes from one good table to another, while no write or       *)
(* delete goes back.                                                          *)
LEMMA TableStep ==
  ASSUME RefsInv, NEW n \in Replicas, NEW R, NEW P,
         GoodRows(R, P, StartedChunks, DeletedChunks),
         table' = [table EXCEPT ![n] = R], parked' = [parked EXCEPT ![n] = P],
         \A k \in Chunks : (Started(k) => Started(k)') /\ (Deleting(k) => Deleting(k)')
  PROVE  /\ RowsOK'
         /\ (DOMAIN table = Replicas /\ \A m \in Replicas : OnChunks(table[m], Row))'
         /\ (parked \in [Replicas -> [Chunks -> Nat]])'
<1>1. /\ DOMAIN table = Replicas /\ \A m \in Replicas : OnChunks(table[m], Row)
      /\ parked \in [Replicas -> [Chunks -> Nat]] /\ RowsOK
  BY DEF RefsInv, TypeOK
<1>2. OnChunks(R, Row) /\ P \in [Chunks -> Nat] /\ DOMAIN R \subseteq Chunks
  BY DEF GoodRows, OnChunks
<1>3. /\ DOMAIN table' = Replicas /\ table'[n] = R /\ \A m \in Replicas \ {n} : table'[m] = table[m]
      /\ parked'[n] = P /\ \A m \in Replicas \ {n} : parked'[m] = parked[m]
      /\ parked' \in [Replicas -> [Chunks -> Nat]]
  BY <1>1, <1>2
<1>4. \A m \in Replicas : OnChunks(table'[m], Row)
  BY <1>1, <1>2, <1>3
<1>5. ASSUME NEW m \in Replicas
      PROVE  /\ \A k \in DOMAIN table'[m] :
                  /\ table'[m][k].rc <= 1 /\ (table'[m][k].tomb <=> table'[m][k].rc = 0)
                  /\ Started(k)' /\ (table'[m][k].tomb => Deleting(k)')
             /\ \A k \in Chunks : parked'[m][k] > 0 => Deleting(k)'
  <2>1. CASE m = n
    BY <1>2, <1>3, <2>1 DEF GoodRows, StartedChunks, DeletedChunks
  <2>2. CASE m # n
    <3>1. DOMAIN table[m] \subseteq Chunks
      BY <1>1 DEF OnChunks
    <3> QED
      BY <1>1, <1>3, <2>2, <3>1 DEF RowsOK
  <2> QED
    BY <2>1, <2>2
<1> QED
  BY <1>3, <1>4, <1>5 DEF RowsOK

(* The create of a composition enters the log. *)
LEMMA CommitStep ==
  ASSUME RefsInv, NEW x \in Comps, CommitCreate(x)
  PROVE  RefsInv' /\ (DecrementsKept => DecrementsKept')
<1>1. TypeOK /\ log \in Seq(Command) /\ applied \in [Replicas -> 0..Len(log)] /\ LogOK /\ RowsOK
  BY DEF RefsInv, TypeOK
<1>2. PICK cmd : cmd = [op |-> "create", comp |-> x, chunk |-> c(x)]
  OBVIOUS
<1>3. cmd \in Command /\ cmd.op = "create" /\ cmd.comp = x /\ cmd.chunk = c(x)
  BY <1>2, ChunkRefsAssumption DEF Command, c
<1>4. log' = Append(log, cmd) /\ w[x].pc # "new"
  BY <1>2 DEF CommitCreate
<1>5. UNCHANGED <<local, applied, table, parked, net, w, d, installed, faults>>
  BY DEF CommitCreate
<1>6. /\ log' \in Seq(Command) /\ Len(log') = Len(log) + 1 /\ Len(log) \in Nat
      /\ log'[Len(log) + 1] = cmd /\ \A i \in 1..Len(log) : log'[i] = log[i]
  BY <1>1, <1>3, <1>4
<1>7. applied' \in [Replicas -> 0..Len(log')]
  BY <1>1, <1>5, <1>6
<1>8. TypeOK'
  BY <1>1, <1>5, <1>6, <1>7 DEF TypeOK
<1>9. LogOK'
  <2>1. SUFFICES ASSUME NEW i \in 1..Len(log')
                 PROVE  /\ log'[i].chunk = c(log'[i].comp)
                        /\ log'[i].op = "create" => w[log'[i].comp].pc # "new"
                        /\ log'[i].op = "decrement" => d[log'[i].comp].pc # "no"
    BY <1>5 DEF LogOK, c
  <2>2. i \in 1..Len(log) \/ i = Len(log) + 1
    BY <1>6
  <2>3. CASE i \in 1..Len(log)
    BY <1>1, <1>6, <2>3 DEF LogOK
  <2>4. CASE i = Len(log) + 1
    BY <1>3, <1>4, <1>6, <2>4
  <2> QED
    BY <2>2, <2>3, <2>4
<1>10. RowsOK'
  BY <1>1, <1>5 DEF RowsOK, Started, Deleting, c
<1>11. ASSUME DecrementsKept PROVE DecrementsKept'
  <2>1. \A n \in Replicas : \A i \in 1..applied[n] : i \in 1..Len(log) /\ log'[i] = log[i]
    BY <1>1, <1>6
  <2> QED
    BY <1>5, <1>11, <2>1 DEF DecrementsKept
<1> QED
  BY <1>8, <1>9, <1>10, <1>11 DEF RefsInv

(* A replica applies the next command. *)
LEMMA ApplyStep ==
  ASSUME RefsInv, NEW n \in Replicas, Apply(n)
  PROVE  /\ RefsInv'
         /\ RoomToPark /\ DecrementsKept => DecrementsKept'
<1>1. TypeOK /\ log \in Seq(Command) /\ applied \in [Replicas -> 0..Len(log)] /\ LogOK /\ RowsOK
  BY DEF RefsInv, TypeOK
<1>2. UNCHANGED <<local, log, net, w, d, installed, faults>> /\ applied[n] < Len(log)
  BY DEF Apply
<1>3. PICK i : i = applied[n] + 1
  OBVIOUS
<1>4. i \in 1..Len(log) /\ applied[n] \in 0..Len(log) /\ Len(log) \in Nat
  BY <1>1, <1>2, <1>3
<1>5. PICK k : k = log[i].chunk
  OBVIOUS
<1>6. /\ log[i].comp \in Comps /\ k \in Chunks /\ k = c(log[i].comp)
      /\ log[i].op \in {"create", "decrement"}
  BY <1>1, <1>4, <1>5, CommandsAre DEF LogOK
<1>7. PICK s : s = Effect(Machine(n), log[i])
  OBVIOUS
<1>8. /\ table' = [table EXCEPT ![n] = s.rows] /\ parked' = [parked EXCEPT ![n] = s.parked]
      /\ applied' = [applied EXCEPT ![n] = i]
  BY <1>3, <1>7 DEF Apply, SetMachine
<1>9. GoodRows(table[n], parked[n], StartedChunks, DeletedChunks)
  BY ReplicaIsGood
<1>10. /\ GoodRows(s.rows, s.parked, StartedChunks, DeletedChunks)
       /\ \A j \in Chunks : Kept(table[n], parked[n], j) => Kept(s.rows, s.parked, j)
       /\ RoomToPark /\ log[i].op = "decrement" => Kept(s.rows, s.parked, k)
  <2>1. CASE log[i].op = "create"
    <3>1. w[log[i].comp].pc # "new"
      BY <1>1, <1>4, <2>1 DEF LogOK
    <3>2. k \in StartedChunks
      BY <1>6, <3>1 DEF StartedChunks, Started
    <3>3. s = Created([rows |-> table[n], parked |-> parked[n]], k)
      BY <1>5, <1>7, <2>1 DEF Effect, Machine
    <3> QED
      BY <1>6, <1>9, <2>1, <3>2, <3>3, CreatedIs
  <2>2. CASE log[i].op = "decrement"
    <3>1. d[log[i].comp].pc # "no"
      BY <1>1, <1>4, <2>2 DEF LogOK
    <3>2. k \in DeletedChunks
      BY <1>6, <3>1 DEF DeletedChunks, Deleting
    <3>3. s = Decremented([rows |-> table[n], parked |-> parked[n]], k)
      BY <1>5, <1>7, <2>2 DEF Effect, Machine
    <3> QED
      BY <1>6, <1>9, <3>2, <3>3, DecrementedIs DEF RoomToPark
  <2> QED
    BY <1>6, <2>1, <2>2
<1>11. \A j \in Chunks : (Started(j) => Started(j)') /\ (Deleting(j) => Deleting(j)')
  BY <1>2 DEF Started, Deleting, c
<1>12. /\ RowsOK'
       /\ (DOMAIN table = Replicas /\ \A m \in Replicas : OnChunks(table[m], Row))'
       /\ (parked \in [Replicas -> [Chunks -> Nat]])'
  BY <1>8, <1>10, <1>11, TableStep
<1>13. applied' \in [Replicas -> 0..Len(log')]
  BY <1>1, <1>2, <1>4, <1>8
<1>14. TypeOK'
  BY <1>1, <1>2, <1>12, <1>13 DEF TypeOK
<1>15. LogOK'
  BY <1>1, <1>2 DEF LogOK, c
<1>16. ASSUME RoomToPark, DecrementsKept, ~installed,
              NEW m \in Replicas, NEW j \in 1..applied'[m], log[j].op = "decrement"
       PROVE  Kept(table'[m], parked'[m], log[j].chunk)
  <2>1. j \in 1..Len(log)
    BY <1>1, <1>4, <1>8, <1>16
  <2>2. log[j].chunk \in Chunks
    BY <1>1, <2>1, CommandsAre
  <2>3. CASE j \in 1..applied[m]
    <3>1. Kept(table[m], parked[m], log[j].chunk)
      BY <1>16, <2>3 DEF DecrementsKept, Kept
    <3>2. CASE m = n
      <4>1. table'[m] = s.rows /\ parked'[m] = s.parked
        BY <1>1, <1>8, <3>2 DEF TypeOK
      <4> QED
        BY <1>10, <2>2, <3>1, <3>2, <4>1
    <3>3. CASE m # n
      <4>1. table'[m] = table[m] /\ parked'[m] = parked[m]
        BY <1>1, <1>8, <3>3 DEF TypeOK
      <4> QED
        BY <3>1, <4>1
    <3> QED
      BY <3>2, <3>3
  <2>4. CASE j \notin 1..applied[m]
    <3>1. m = n /\ j = i
      BY <1>1, <1>3, <1>4, <1>8, <1>16, <2>4
    <3>2. table'[m] = s.rows /\ parked'[m] = s.parked
      BY <1>1, <1>8, <3>1 DEF TypeOK
    <3> QED
      BY <1>5, <1>10, <1>16, <3>1, <3>2
  <2> QED
    BY <2>3, <2>4
<1>17. ASSUME RoomToPark, DecrementsKept
       PROVE  DecrementsKept'
  BY <1>2, <1>16, <1>17 DEF DecrementsKept, Kept
<1> QED
  BY <1>12, <1>14, <1>15, <1>17 DEF RefsInv

(* The leader of the moment commits and applies the decrement of a delete. *)
LEMMA DecrementStep ==
  ASSUME RefsInv, NEW x \in Comps, NEW r \in Replicas, DecrementCluster(x, r)
  PROVE  /\ RefsInv'
         /\ RoomToPark /\ DecrementsKept => DecrementsKept'
<1>1. /\ TypeOK /\ log \in Seq(Command) /\ applied \in [Replicas -> 0..Len(log)]
      /\ LogOK /\ RowsOK /\ d \in [Comps -> Deletion] /\ c(x) \in Chunks
  BY ChunkRefsAssumption DEF RefsInv, TypeOK, c
<1>2. UNCHANGED <<local, net, w, installed, faults>> /\ applied[r] = Len(log) /\ d[x].pc = "dec"
  BY DEF DecrementCluster
<1>3. PICK cmd : cmd = [op |-> "decrement", comp |-> x, chunk |-> c(x)]
  OBVIOUS
<1>4. cmd \in Command /\ cmd.op = "decrement" /\ cmd.comp = x /\ cmd.chunk = c(x)
  BY <1>1, <1>3 DEF Command
<1>5. PICK s : s = Decremented([rows |-> table[r], parked |-> parked[r]], c(x))
  OBVIOUS
<1>6. /\ table' = [table EXCEPT ![r] = s.rows] /\ parked' = [parked EXCEPT ![r] = s.parked]
      /\ applied' = [applied EXCEPT ![r] = Len(log) + 1] /\ log' = Append(log, cmd)
  BY <1>1, <1>2, <1>3, <1>5 DEF DecrementCluster, SetMachine, Machine
<1>7. /\ log' \in Seq(Command) /\ Len(log') = Len(log) + 1 /\ Len(log) \in Nat
      /\ log'[Len(log) + 1] = cmd /\ \A i \in 1..Len(log) : log'[i] = log[i]
  BY <1>1, <1>4, <1>6
<1>8. /\ applied' \in [Replicas -> 0..Len(log')] /\ applied'[r] = Len(log) + 1
      /\ \A m \in Replicas \ {r} : applied'[m] = applied[m]
  BY <1>1, <1>6, <1>7
<1>9. /\ d' \in [Comps -> Deletion] /\ \A y \in Comps : d[y].pc # "no" => d'[y].pc # "no"
  <2>1. PICK e : e \in Deletion /\ e.pc # "no" /\ d' = [d EXCEPT ![x] = e]
    <3>1. CASE TombstonedNow(Machine(r), c(x))
      <4>1. [pc |-> "fan", todo |-> Nodes \ {d[x].via}] \in Deletion
        BY DEF Deletion
      <4>2. d' = [d EXCEPT ![x] = [pc |-> "fan", todo |-> Nodes \ {d[x].via}]]
        BY <3>1 DEF DecrementCluster
      <4> QED
        BY <4>1, <4>2
    <3>2. CASE ~TombstonedNow(Machine(r), c(x))
      <4>1. Done \in Deletion /\ Done.pc # "no"
        BY DEF Deletion, Done
      <4>2. d' = [d EXCEPT ![x] = Done]
        BY <3>2 DEF DecrementCluster
      <4> QED
        BY <4>1, <4>2
    <3> QED
      BY <3>1, <3>2
  <2> QED
    BY <1>1, <2>1
<1>10. c(x) \in DeletedChunks
  BY <1>1, <1>2 DEF DeletedChunks, Deleting
<1>11. /\ GoodRows(s.rows, s.parked, StartedChunks, DeletedChunks)
       /\ \A j \in Chunks : Kept(table[r], parked[r], j) => Kept(s.rows, s.parked, j)
       /\ RoomToPark => Kept(s.rows, s.parked, c(x))
  <2>1. GoodRows(table[r], parked[r], StartedChunks, DeletedChunks)
    BY ReplicaIsGood
  <2> QED
    BY <1>1, <1>5, <1>10, <2>1, DecrementedIs DEF RoomToPark
<1>12. \A j \in Chunks : (Started(j) => Started(j)') /\ (Deleting(j) => Deleting(j)')
  BY <1>2, <1>9 DEF Started, Deleting, c
<1>13. /\ RowsOK'
       /\ (DOMAIN table = Replicas /\ \A m \in Replicas : OnChunks(table[m], Row))'
       /\ (parked \in [Replicas -> [Chunks -> Nat]])'
  BY <1>6, <1>11, <1>12, TableStep
<1>14. TypeOK'
  BY <1>1, <1>2, <1>7, <1>8, <1>9, <1>13 DEF TypeOK
<1>15. LogOK'
  <2>1. SUFFICES ASSUME NEW i \in 1..Len(log')
                 PROVE  /\ log'[i].chunk = c(log'[i].comp)
                        /\ log'[i].op = "create" => w[log'[i].comp].pc # "new"
                        /\ log'[i].op = "decrement" => d'[log'[i].comp].pc # "no"
    BY <1>2 DEF LogOK, c
  <2>2. i \in 1..Len(log) \/ i = Len(log) + 1
    BY <1>7
  <2>3. CASE i \in 1..Len(log)
    <3>1. log[i].comp \in Comps
      BY <1>1, <2>3, CommandsAre
    <3> QED
      BY <1>1, <1>7, <1>9, <2>3, <3>1 DEF LogOK
  <2>4. CASE i = Len(log) + 1
    BY <1>2, <1>4, <1>7, <1>9, <2>4
  <2> QED
    BY <2>2, <2>3, <2>4
<1>16. ASSUME RoomToPark, DecrementsKept, ~installed,
              NEW m \in Replicas, NEW j \in 1..applied'[m], log'[j].op = "decrement"
       PROVE  Kept(table'[m], parked'[m], log'[j].chunk)
  <2>1. CASE m = r
    <3>1. table'[m] = s.rows /\ parked'[m] = s.parked
      BY <1>1, <1>6, <2>1 DEF TypeOK
    <3>2. j \in 1..Len(log) \/ j = Len(log) + 1
      BY <1>7, <1>8, <1>16, <2>1
    <3>3. CASE j \in 1..Len(log)
      <4>1. j \in 1..applied[m] /\ log'[j] = log[j]
        BY <1>2, <1>7, <2>1, <3>3
      <4>2. log[j].chunk \in Chunks
        BY <1>1, <3>3, CommandsAre
      <4>3. Kept(table[m], parked[m], log[j].chunk)
        BY <1>16, <4>1 DEF DecrementsKept, Kept
      <4> QED
        BY <1>11, <2>1, <3>1, <4>1, <4>2, <4>3
    <3>4. CASE j = Len(log) + 1
      BY <1>4, <1>7, <1>11, <1>16, <3>1, <3>4
    <3> QED
      BY <3>2, <3>3, <3>4
  <2>2. CASE m # r
    <3>1. table'[m] = table[m] /\ parked'[m] = parked[m]
      BY <1>1, <1>6, <2>2 DEF TypeOK
    <3>2. applied[m] \in 0..Len(log) /\ applied'[m] = applied[m]
      BY <1>1, <1>8, <2>2
    <3>3. j \in 1..applied[m] /\ log'[j] = log[j]
      BY <1>7, <1>16, <3>2
    <3> QED
      BY <1>16, <3>1, <3>3 DEF DecrementsKept, Kept
  <2> QED
    BY <2>1, <2>2
<1>17. ASSUME RoomToPark, DecrementsKept
       PROVE  DecrementsKept'
  BY <1>2, <1>16, <1>17 DEF DecrementsKept, Kept
<1> QED
  BY <1>13, <1>14, <1>15, <1>17 DEF RefsInv

(* A replica skips to the end of the log: its table stays as it was. *)
LEMMA SnapshotStep ==
  ASSUME RefsInv, NEW n \in Replicas, InstallSnapshot(n)
  PROVE  RefsInv' /\ DecrementsKept'
<1>1. TypeOK /\ log \in Seq(Command) /\ applied \in [Replicas -> 0..Len(log)] /\ LogOK /\ RowsOK
  BY DEF RefsInv, TypeOK
<1>2. /\ UNCHANGED <<local, log, table, parked, net, w, d>> /\ installed' = TRUE
      /\ applied' = [applied EXCEPT ![n] = Len(log)]
  BY DEF InstallSnapshot
<1>3. applied' \in [Replicas -> 0..Len(log')]
  BY <1>1, <1>2
<1>4. TypeOK'
  BY <1>1, <1>2, <1>3 DEF TypeOK
<1>5. LogOK' /\ RowsOK'
  BY <1>1, <1>2 DEF LogOK, RowsOK, Started, Deleting, c
<1> QED
  BY <1>2, <1>4, <1>5 DEF RefsInv, DecrementsKept

(* An empty cluster. *)
LEMMA InitIsGood ==
  ASSUME Init
  PROVE  RefsInv /\ DecrementsKept
<1>1. \A S : OnChunks(<<>>, S)
  BY DEF OnChunks
<1>2. /\ log = <<>> /\ Len(log) = 0 /\ log \in Seq(Command)
      /\ applied \in [Replicas -> 0..Len(log)] /\ \A n \in Replicas : applied[n] = 0
  BY DEF Init
<1>3. w \in [Comps -> Write] /\ d \in [Comps -> Deletion]
  BY DEF Init, Write, Deletion
<1>4. TypeOK
  BY <1>1, <1>2, <1>3 DEF Init, TypeOK
<1>5. LogOK
  BY <1>2 DEF LogOK
<1>6. RowsOK
  BY DEF Init, RowsOK
<1>7. DecrementsKept
  BY <1>2 DEF DecrementsKept
<1> QED
  BY <1>4, <1>5, <1>6, <1>7 DEF RefsInv

(* Every step, and a stutter. *)
LEMMA StepsAreGood ==
  ASSUME RefsInv, [Next]_vars
  PROVE  /\ RefsInv'
         /\ RoomToPark /\ DecrementsKept => DecrementsKept'
<1>1. ASSUME NEW n \in Replicas, Apply(n)
      PROVE  RefsInv' /\ (RoomToPark /\ DecrementsKept => DecrementsKept')
  BY <1>1, ApplyStep
<1>2. ASSUME NEW n \in Replicas, InstallSnapshot(n) PROVE RefsInv' /\ DecrementsKept'
  BY <1>2, SnapshotStep
<1>3. ASSUME NEW x \in Comps, CommitCreate(x) PROVE RefsInv' /\ (DecrementsKept => DecrementsKept')
  BY <1>3, CommitStep
<1>4. ASSUME NEW x \in Comps, NEW r \in Replicas, DecrementCluster(x, r)
      PROVE  RefsInv' /\ (RoomToPark /\ DecrementsKept => DecrementsKept')
  BY <1>4, DecrementStep
<1>5. ASSUME vars' = vars PROVE RefsInv' /\ (DecrementsKept => DecrementsKept')
  BY <1>5 DEF RefsInv, TypeOK, LogOK, RowsOK, DecrementsKept, Started, Deleting, c, vars
<1> QED
  BY <1>1, <1>2, <1>3, <1>4, <1>5, CallSteps DEF Next

-----------------------------------------------------------------------------
(* The chunk table counts to one and holds a tombstone exactly at zero, and    *)
(* every row and parked decrement stems from a write or a delete, however      *)
(* commands, snapshots, retries and scrub repairs interleave (apply_new_chunks, *)
(* DecrementChunkRefcount, install_snapshot).                                 *)
THEOREM RefsInvariant == Spec => []RefsInv
<1>1. Init => RefsInv
  BY InitIsGood
<1>2. RefsInv /\ [Next]_vars => RefsInv'
  BY StepsAreGood
<1> QED
  BY <1>1, <1>2, PTL DEF Spec

(* The counts, tables, log and calls in progress always have their types.      *)
THEOREM RefsTypeCorrect == Spec => []TypeOK
<1>1. RefsInv => TypeOK
  BY DEF RefsInv
<1> QED
  BY <1>1, RefsInvariant, PTL

(* No replica shows a tombstone for a chunk of which nothing was ever deleted. *)
THEOREM TombstonesComeFromDeletes == Spec => []NoEarlyTombstone
<1>1. RefsInv => NoEarlyTombstone
  BY DEF RefsInv, RowsOK, Deleting, NoEarlyTombstone
<1> QED
  BY <1>1, RefsInvariant, PTL

(* As long as no replica is out of places to park a decrement, a replica that  *)
(* skipped nothing remembers every decrement it applied, as a tombstone or     *)
(* parked (DecrementChunkRefcount).                                           *)
THEOREM DecrementsAreKept == Spec /\ []RoomToPark => []DecrementsKept
<1>1. Init => DecrementsKept
  BY InitIsGood
<1>2. RefsInv /\ RoomToPark /\ DecrementsKept /\ [Next]_vars => DecrementsKept'
  BY StepsAreGood
<1> QED
  BY <1>1, <1>2, RefsInvariant, PTL DEF Spec

(* As long as no replica is out of places to park a decrement, no delete is     *)
(* lost to the order of commands: once every composition of a chunk was deleted, *)
(* a replica that applied those decrements and has the row shows the tombstone   *)
(* (GH #241).                                                                   *)
THEOREM DeletesAreNotLost == Spec /\ []RoomToPark => []DeleteIsNotLost
<1>1. RefsInv /\ DecrementsKept => DeleteIsNotLost
  <2>1. SUFFICES ASSUME RefsInv, DecrementsKept, ~installed, NEW n \in Replicas,
                        NEW k \in DOMAIN table[n],
                        \A x \in Comps : c(x) = k /\ w[x].pc # "new" =>
                          \E i \in 1..applied[n] : log[i].op = "decrement" /\ log[i].comp = x
                 PROVE  table[n][k].tomb
    BY DEF DeleteIsNotLost
  <2>2. PICK x \in Comps : c(x) = k /\ w[x].pc # "new"
    BY <2>1 DEF RefsInv, RowsOK, Started
  <2>3. PICK i \in 1..applied[n] : log[i].op = "decrement" /\ log[i].comp = x
    BY <2>1, <2>2
  <2>4. i \in 1..Len(log)
    BY <2>1 DEF RefsInv, TypeOK
  <2>5. log[i].chunk = k
    BY <2>1, <2>2, <2>3, <2>4 DEF RefsInv, LogOK
  <2> QED
    BY <2>1, <2>3, <2>5 DEF DecrementsKept
<1> QED
  BY <1>1, RefsInvariant, DecrementsAreKept, PTL

(* There is room whenever there are no more chunks than places. *)
LEMMA FewChunksFit ==
  ASSUME RefsInv, IsFiniteSet(Chunks), Cardinality(Chunks) <= ParkCap
  PROVE  RoomToPark
<1>1. SUFFICES ASSUME NEW n \in Replicas, NEW k \in Chunks, Refused(parked[n], k) PROVE FALSE
  BY DEF RoomToPark
<1>2. PICK S : S = {j \in Chunks : parked[n][j] > 0}
  OBVIOUS
<1>3. parked[n][k] = 0 /\ Cardinality(S) >= ParkCap
  BY <1>1, <1>2 DEF Refused
<1>4. S \in SUBSET (Chunks \ {k})
  BY <1>2, <1>3
<1>5. IsFiniteSet(Chunks \ {k}) /\ Cardinality(Chunks \ {k}) = Cardinality(Chunks) - 1
  BY FS_RemoveElement
<1>6. Cardinality(S) <= Cardinality(Chunks \ {k}) /\ IsFiniteSet(S)
  BY <1>4, <1>5, FS_Subset
<1>7. Cardinality(Chunks) \in Nat /\ Cardinality(S) \in Nat
  BY <1>6, FS_CardinalityType
<1> QED
  BY <1>3, <1>5, <1>6, <1>7, ChunkRefsAssumption

(* With no more chunks than places to park, the delete of GH #241 is never lost. *)
COROLLARY FewChunksLoseNoDelete ==
  ASSUME IsFiniteSet(Chunks), Cardinality(Chunks) <= ParkCap
  PROVE  Spec => []DeleteIsNotLost
<1>1. RefsInv => RoomToPark
  BY FewChunksFit
<1> QED
  BY <1>1, RefsInvariant, DeletesAreNotLost, PTL

-----------------------------------------------------------------------------
(* The references of one chunk, counted over the stores of all nodes. *)

\* As many tokens as the counts f of the nodes.
TokensOf(f) == UNION {{<<n, i>> : i \in 1..f[n]} : n \in Nodes}
Counts(k) == [n \in Nodes |-> Count(n, k)]

(* Two counts that differ by one at one node differ by one token. *)
LEMMA OneToken ==
  ASSUME NEW f \in [Nodes -> Nat], NEW g \in [Nodes -> Nat], NEW n \in Nodes, g[n] = f[n] + 1,
         \A m \in Nodes \ {n} : g[m] = f[m], IsFiniteSet(TokensOf(f)) \/ IsFiniteSet(TokensOf(g))
  PROVE  /\ IsFiniteSet(TokensOf(f)) /\ IsFiniteSet(TokensOf(g))
         /\ Cardinality(TokensOf(g)) = Cardinality(TokensOf(f)) + 1
<1>1. PICK S, T, q, a : S = TokensOf(f) /\ T = TokensOf(g) /\ q = f[n] /\ a = <<n, q + 1>>
  OBVIOUS
<1>2. q \in Nat /\ g[n] = q + 1
  BY <1>1
<1>3. \A t : t \in S <=> \E m \in Nodes : \E i \in 1..f[m] : t = <<m, i>>
  BY <1>1 DEF TokensOf
<1>4. \A t : t \in T <=> \E m \in Nodes : \E i \in 1..g[m] : t = <<m, i>>
  BY <1>1 DEF TokensOf
<1>5. a \notin S
  BY <1>1, <1>2, <1>3
<1>6. ASSUME NEW t PROVE t \in T <=> t \in S \cup {a}
  <2>1. ASSUME t \in T PROVE t \in S \cup {a}
    <3>1. PICK m \in Nodes : \E i \in 1..g[m] : t = <<m, i>>
      BY <1>4, <2>1
    <3>2. PICK i \in 1..g[m] : t = <<m, i>>
      BY <3>1
    <3>3. CASE m = n
      <4>1. i \in 1..q \/ i = q + 1
        BY <1>2, <3>2, <3>3
      <4> QED BY <1>1, <1>3, <3>2, <3>3, <4>1
    <3>4. CASE m # n
      BY <1>3, <3>2, <3>4
    <3> QED BY <3>3, <3>4
  <2>2. ASSUME t \in S PROVE t \in T
    <3>1. PICK m \in Nodes : \E i \in 1..f[m] : t = <<m, i>>
      BY <1>3, <2>2
    <3>2. PICK i \in 1..f[m] : t = <<m, i>>
      BY <3>1
    <3>3. i \in 1..g[m]
      BY <1>1, <1>2, <3>2
    <3> QED BY <1>4, <3>2, <3>3
  <2>3. a \in T
    <3>1. q + 1 \in 1..(q + 1)
      BY <1>2
    <3> QED BY <1>1, <1>2, <1>4, <3>1
  <2> QED BY <2>1, <2>2, <2>3
<1>7. T = S \cup {a} /\ S = T \ {a}
  BY <1>5, <1>6
<1>8. IsFiniteSet(S)
  <2>1. CASE IsFiniteSet(T)
    BY <1>7, <2>1, FS_Subset
  <2> QED BY <1>1, <2>1
<1>9. IsFiniteSet(S \cup {a}) /\ Cardinality(S \cup {a}) = Cardinality(S) + 1
  BY <1>5, <1>8, FS_AddElement
<1> QED BY <1>1, <1>7, <1>8, <1>9

(* The tokens of a chunk, now and after a step. *)
LEMMA TokensAre ==
  ASSUME LocalOK, LocalOK', NEW k
  PROVE  /\ Tokens(k) = TokensOf(Counts(k)) /\ Tokens(k)' = TokensOf(Counts(k)')
         /\ Counts(k) \in [Nodes -> Nat] /\ Counts(k)' \in [Nodes -> Nat]
<1>1. \A n \in Nodes : Count(n, k) \in Nat /\ Count(n, k)' \in Nat
  BY DEF LocalOK, OnChunks, Count, Has
<1>2. \A n \in Nodes : Counts(k)[n] = Count(n, k) /\ Counts(k)'[n] = Count(n, k)'
  BY DEF Counts
<1> QED BY <1>1, <1>2 DEF Tokens, TokensOf, Counts

\* What a step does to the tokens of chunk k.
Tally(k, delta) == IsFiniteSet(Tokens(k)') /\ Cardinality(Tokens(k)') = Cardinality(Tokens(k)) + delta

(* A write to a node's store. *)
LEMMA PutTokens ==
  ASSUME LocalOK, NEW n \in Nodes, NEW k \in Chunks, Put(n, k)
  PROVE  /\ IsFiniteSet(Tokens(k)) => Tally(k, 1)
         /\ \A p \in Nodes : Has(p, k)' <=> Has(p, k) \/ p = n
         /\ \A j \in Chunks \ {k} : Tokens(j)' = Tokens(j) /\ \A p \in Nodes : Has(p, j)' <=> Has(p, j)
<1>1. LocalOK'
  BY PutIs
<1>2. PICK q : q = IF Has(n, k) THEN local[n][k] + 1 ELSE 1
  OBVIOUS
<1>3. local' = [local EXCEPT ![n] = Bind(local[n], k, q)]
  BY <1>2 DEF Put
<1>4. /\ DOMAIN local'[n] = DOMAIN local[n] \cup {k} /\ local'[n][k] = q
      /\ \A j \in DOMAIN local[n] \ {k} : local'[n][j] = local[n][j]
      /\ \A m \in Nodes \ {n} : local'[m] = local[m]
  BY <1>3 DEF LocalOK, Bind
<1>5. \A j \in Chunks \ {k} : \A p \in Nodes : (Has(p, j)' <=> Has(p, j)) /\ Count(p, j)' = Count(p, j)
  BY <1>4 DEF Has, Count
<1>6. /\ \A p \in Nodes : Has(p, k)' <=> Has(p, k) \/ p = n
      /\ \A p \in Nodes \ {n} : Count(p, k)' = Count(p, k)
      /\ Count(n, k)' = Count(n, k) + 1
  BY <1>2, <1>4 DEF Has, Count
<1>7. \A j \in Chunks \ {k} : Tokens(j)' = Tokens(j)
  BY <1>5 DEF Tokens
<1>8. ASSUME IsFiniteSet(Tokens(k)) PROVE Tally(k, 1)
  <2>1. PICK f, g : f = Counts(k) /\ g = Counts(k)'
    OBVIOUS
  <2>2. /\ f \in [Nodes -> Nat] /\ g \in [Nodes -> Nat]
        /\ Tokens(k) = TokensOf(f) /\ Tokens(k)' = TokensOf(g)
    BY <1>1, <2>1, TokensAre
  <2>3. g[n] = f[n] + 1 /\ \A m \in Nodes \ {n} : g[m] = f[m]
    BY <1>6, <2>1 DEF Counts
  <2> QED BY <1>8, <2>2, <2>3, OneToken DEF Tally
<1> QED BY <1>5, <1>6, <1>7, <1>8

(* A reference dropped at a node's store: one token less, or nothing. *)
LEMMA DropTokens ==
  ASSUME LocalOK, NEW n \in Nodes, NEW k \in Chunks, Drop(n, k)
  PROVE  /\ \A j \in Chunks : \A p \in Nodes : Has(p, j)' <=> Has(p, j)
         /\ \A j \in Chunks \ {k} : Tokens(j)' = Tokens(j)
         /\ \/ Tokens(k)' = Tokens(k)
            \/ Has(n, k) /\ (IsFiniteSet(Tokens(k)) => Tally(k, -1))
<1>1. LocalOK'
  BY DropIs
<1>2. CASE ~(Has(n, k) /\ local[n][k] > 0)
  <2>1. local' = local
    BY <1>2 DEF Drop
  <2> QED BY <2>1 DEF Has, Tokens, Count
<1>3. CASE Has(n, k) /\ local[n][k] > 0
  <2>1. local' = [local EXCEPT ![n][k] = local[n][k] - 1] /\ local[n][k] \in Nat
    BY <1>3 DEF Drop, LocalOK, OnChunks, Has
  <2>2. /\ DOMAIN local'[n] = DOMAIN local[n] /\ local'[n][k] = local[n][k] - 1
        /\ \A j \in DOMAIN local[n] \ {k} : local'[n][j] = local[n][j]
        /\ \A m \in Nodes \ {n} : local'[m] = local[m]
    BY <1>3, <2>1 DEF LocalOK, Has
  <2>3. \A j \in Chunks : \A p \in Nodes : Has(p, j)' <=> Has(p, j)
    BY <2>2 DEF Has
  <2>4. \A j \in Chunks \ {k} : \A p \in Nodes : Count(p, j)' = Count(p, j)
    BY <2>2 DEF Has, Count
  <2>5. \A j \in Chunks \ {k} : Tokens(j)' = Tokens(j)
    BY <2>4 DEF Tokens
  <2>6. Count(n, k) = Count(n, k)' + 1 /\ \A p \in Nodes \ {n} : Count(p, k)' = Count(p, k)
    BY <1>3, <2>1, <2>2 DEF Has, Count
  <2>7. ASSUME IsFiniteSet(Tokens(k)) PROVE Tally(k, -1)
    <3>1. PICK f, g : f = Counts(k)' /\ g = Counts(k)
      OBVIOUS
    <3>2. /\ f \in [Nodes -> Nat] /\ g \in [Nodes -> Nat]
          /\ Tokens(k) = TokensOf(g) /\ Tokens(k)' = TokensOf(f)
      BY <1>1, <3>1, TokensAre
    <3>3. g[n] = f[n] + 1 /\ \A m \in Nodes \ {n} : g[m] = f[m]
      BY <2>6, <3>1 DEF Counts
    <3>4. /\ IsFiniteSet(TokensOf(f)) /\ IsFiniteSet(TokensOf(g))
          /\ Cardinality(TokensOf(g)) = Cardinality(TokensOf(f)) + 1
      BY <2>7, <3>2, <3>3, OneToken
    <3>5. Cardinality(TokensOf(f)) \in Nat
      BY <3>4, FS_CardinalityType
    <3> QED BY <3>2, <3>4, <3>5 DEF Tally
  <2> QED BY <1>3, <2>3, <2>5, <2>7
<1> QED BY <1>2, <1>3

(* gc takes no reference. *)
LEMMA GcTokens ==
  ASSUME LocalOK, NEW n \in Nodes, Gc(n), NEW k \in Chunks
  PROVE  Tokens(k)' = Tokens(k) /\ \A p \in Nodes : Has(p, k)' => Has(p, k)
<1>1. /\ local'[n] = [j \in {i \in DOMAIN local[n] : local[n][i] > 0} |-> local[n][j]]
      /\ \A m \in Nodes \ {n} : local'[m] = local[m]
  BY DEF Gc, LocalOK
<1>2. \A p \in Nodes : Has(p, k)' => Has(p, k)
  BY <1>1 DEF Has
<1>3. \A p \in Nodes \ {n} : Count(p, k)' = Count(p, k)
  BY <1>1 DEF Count, Has
<1>4. Count(n, k)' = Count(n, k)
  <2>1. CASE Has(n, k)
    <3>1. local[n][k] \in Nat
      BY <2>1 DEF LocalOK, OnChunks, Has
    <3> QED BY <1>1, <2>1, <3>1 DEF Count, Has
  <2>2. CASE ~Has(n, k)
    BY <1>1, <2>2 DEF Count, Has
  <2> QED BY <2>1, <2>2
<1> QED BY <1>2, <1>3, <1>4 DEF Tokens

-----------------------------------------------------------------------------
(* Writes and deletes in progress. *)

\* The fields of a write that has started.
Running == [pc : {"sealed", "fan", "placed", "failed", "acked"}, at : Nodes,
            fresh : BOOLEAN, acks : SUBSET Nodes]

(* What a node's request is to a write. *)
LEMMA ReachedIs ==
  ASSUME NEW x \in Comps
  PROVE  /\ IsFiniteSet(Reached(x)) /\ Cardinality(Reached(x)) \in Nat
         /\ \A S \in SUBSET Reached(x) : Cardinality(S) <= Cardinality(Reached(x))
         /\ \A T \in SUBSET Nodes : Reached(x) \subseteq T => Cardinality(Reached(x)) <= Cardinality(T)
         /\ Need \in Nat
<1>1. \A S \in SUBSET Nodes : IsFiniteSet(S) /\ Cardinality(S) \in Nat
  BY ChunkRefsAssumption, FS_Subset, FS_CardinalityType
<1>2. Reached(x) \in SUBSET Nodes
  BY DEF Reached
<1>3. Need \in Nat
  BY <1>1, ChunkRefsAssumption
<1> QED BY <1>1, <1>2, <1>3, FS_Subset

(* A write that nothing happens to. *)
LEMMA CallElsewhere ==
  ASSUME NEW x \in Comps, CallOK(x), w'[x] = w[x],
         d'[x].pc # "no" => d[x].pc # "no" \/ w[x].pc = "acked",
         \A p \in Nodes : <<p, x>> \in net' <=> <<p, x>> \in net
  PROVE  CallOK(x)'
<1>1. Reached(x)' = Reached(x)
  BY DEF Reached
<1> QED BY <1>1 DEF CallOK

(* Started writes stay finitely many. *)
LEMMA StartedFinite ==
  ASSUME NEW x \in Comps, IsFiniteSet({y \in Comps : w[y].pc # "new"}),
         \A y \in Comps \ {x} : w'[y] = w[y]
  PROVE  IsFiniteSet({y \in Comps : w'[y].pc # "new"})
<1>1. PICK S, T : S = {y \in Comps : w[y].pc # "new"} /\ T = {y \in Comps : w'[y].pc # "new"}
  OBVIOUS
<1>2. IsFiniteSet(S \cup {x})
  BY <1>1, FS_AddElement
<1>3. T \subseteq S \cup {x}
  BY <1>1
<1>4. IsFiniteSet(T)
  BY <1>2, <1>3, FS_Subset
<1> QED BY <1>1, <1>4

(* Steps of one write. *)
LEMMA WriteCalls ==
  ASSUME TypeOK, CallsOK, NEW x \in Comps,
         \/ \E n \in Nodes : Hit(x, n) \/ Miss(x, n) \/ PutFragment(n, x)
         \/ Fan(x) \/ FanDone(x) \/ FanFails(x) \/ Ack(x)
  PROVE  CallsOK'
<1>1. /\ w \in [Comps -> Write] /\ d \in [Comps -> Deletion] /\ CallOK(x)
      /\ w[x].pc # "new" => w[x] \in Running
      /\ d[x].pc \in {"no", "done", "dec", "fan"}
  BY DEF TypeOK, CallsOK, Write, Deletion, Running
<1>2. d' = d
  BY DEF Hit, Miss, PutFragment, Fan, FanDone, FanFails, Ack
<1>3. \A y \in Comps \ {x} : w'[y] = w[y]
  BY <1>1 DEF Hit, Miss, PutFragment, Fan, FanDone, FanFails, Ack
<1>4. \A y \in Comps \ {x} : \A p \in Nodes : <<p, y>> \in net' <=> <<p, y>> \in net
  <2>1. CASE \E n \in Nodes : PutFragment(n, x)
    BY <2>1 DEF PutFragment
  <2>2. CASE Fan(x)
    BY <2>2 DEF Fan
  <2>3. CASE (\E n \in Nodes : Hit(x, n) \/ Miss(x, n)) \/ FanDone(x) \/ FanFails(x) \/ Ack(x)
    <3>1. net' = net
      BY <2>3 DEF Hit, Miss, FanDone, FanFails, Ack
    <3> QED BY <3>1
  <2> QED BY <2>1, <2>2, <2>3
<1>5. \A y \in Comps \ {x} : CallOK(y)'
  BY <1>2, <1>3, <1>4, CallElsewhere DEF CallsOK
<1>6. CallOK(x)'
  <2>1. CASE \E n \in Nodes : Hit(x, n)
    <3>1. /\ w[x].pc = "new" /\ net' = net /\ w'[x].pc = "placed" /\ ~w'[x].fresh
      BY <1>1, <2>1 DEF Hit
    <3> QED BY <1>1, <1>2, <3>1 DEF CallOK
  <2>2. CASE \E n \in Nodes : Miss(x, n)
    <3>1. /\ w[x].pc = "new" /\ net' = net /\ w'[x].pc = "sealed" /\ w'[x].fresh
      BY <1>1, <2>2 DEF Miss
    <3> QED BY <1>1, <1>2, <3>1 DEF CallOK
  <2>3. CASE Fan(x)
    <3>1. /\ w[x].pc = "sealed" /\ w[x] \in Running /\ w'[x].pc = "fan" /\ w'[x].acks = {w[x].at}
          /\ w'[x].fresh = w[x].fresh /\ w'[x].at = w[x].at
      BY <1>1, <2>3 DEF Fan, Running
    <3>2. \A p \in Nodes : <<p, x>> \in net' <=> p # w[x].at
      BY <1>1, <2>3, <3>1 DEF Fan, CallOK
    <3>3. w[x].at \in Nodes
      BY <3>1 DEF Running
    <3>4. w[x].at \in Reached(x)'
      BY <3>2, <3>3 DEF Reached
    <3> QED BY <1>1, <1>2, <3>1, <3>2, <3>4 DEF CallOK
  <2>4. CASE \E n \in Nodes : PutFragment(n, x)
    <3>1. PICK n \in Nodes : PutFragment(n, x)
      BY <2>4
    <3>2. <<n, x>> \in net /\ \A p \in Nodes : <<p, x>> \in net' <=> <<p, x>> \in net /\ p # n
      BY <3>1 DEF PutFragment
    <3>3. Reached(x)' = Reached(x) \cup {n}
      BY <3>2 DEF Reached
    <3>4. w[x].pc \notin {"new", "sealed"} /\ w[x].fresh /\ w[x] \in Running
      BY <1>1, <3>2 DEF CallOK
    <3>5. /\ w'[x].pc = w[x].pc /\ w'[x].fresh = w[x].fresh /\ w'[x].at = w[x].at
          /\ w[x].pc = "fan" => w'[x].acks = w[x].acks \cup {n}
      BY <1>1, <3>1, <3>4 DEF PutFragment, Running
    <3>6. w[x].pc = "fan" => w'[x].acks \subseteq Reached(x)'
      BY <1>1, <3>3, <3>5 DEF CallOK
    <3>7. w[x].pc \in {"placed", "acked"} => Cardinality(Reached(x)') >= Need
      <4>1. PICK S, T : S = Reached(x) /\ T = Reached(x)'
        OBVIOUS
      <4>2. T \in SUBSET Nodes /\ S \subseteq T
        BY <3>3, <4>1 DEF Reached
      <4>3. Cardinality(S) <= Cardinality(T) /\ Cardinality(S) \in Nat /\ Need \in Nat
        BY <4>1, <4>2, ReachedIs
      <4>4. Cardinality(T) \in Nat
        BY <4>2, ChunkRefsAssumption, FS_Subset, FS_CardinalityType
      <4>5. w[x].pc \in {"placed", "acked"} => Cardinality(S) >= Need
        BY <1>1, <3>4, <4>1 DEF CallOK
      <4> QED BY <4>1, <4>3, <4>4, <4>5
    <3>8. \A p \in Nodes :
            <<p, x>> \in net' => w'[x].pc \notin {"new", "sealed"} /\ w'[x].fresh /\ p # w'[x].at
      BY <1>1, <3>2, <3>5 DEF CallOK
    <3> QED BY <1>1, <1>2, <3>4, <3>5, <3>6, <3>7, <3>8 DEF CallOK
  <2>5. CASE FanDone(x)
    <3>1. /\ w[x].pc = "fan" /\ Cardinality(w[x].acks) >= Need /\ net' = net /\ w[x] \in Running
      BY <1>1, <2>5 DEF FanDone
    <3>2. w'[x].pc = "placed" /\ w'[x].fresh = w[x].fresh /\ w'[x].at = w[x].at
      BY <1>1, <2>5, <3>1 DEF FanDone, Running
    <3>3. w[x].acks \in SUBSET Reached(x) /\ Reached(x)' = Reached(x)
      BY <1>1, <3>1 DEF CallOK, Reached
    <3>4. Cardinality(Reached(x)) >= Need
      <4>1. Cardinality(w[x].acks) \in Nat
        BY <3>3, ReachedIs, FS_Subset, FS_CardinalityType
      <4> QED BY <3>1, <3>3, <4>1, ReachedIs
    <3> QED BY <1>1, <1>2, <3>1, <3>2, <3>3, <3>4 DEF CallOK
  <2>6. CASE FanFails(x)
    <3>1. /\ w[x].pc = "fan" /\ net' = net /\ w[x] \in Running
      BY <1>1, <2>6 DEF FanFails
    <3>2. w'[x].pc = "failed" /\ w'[x].fresh = w[x].fresh /\ w'[x].at = w[x].at
      BY <1>1, <2>6, <3>1 DEF FanFails, Running
    <3> QED BY <1>1, <1>2, <3>1, <3>2 DEF CallOK
  <2>7. CASE Ack(x)
    <3>1. /\ w[x].pc = "placed" /\ net' = net /\ w[x] \in Running
      BY <1>1, <2>7 DEF Ack
    <3>2. w'[x].pc = "acked" /\ w'[x].fresh = w[x].fresh /\ w'[x].at = w[x].at
      BY <1>1, <2>7, <3>1 DEF Ack, Running
    <3>3. Reached(x)' = Reached(x)
      BY <3>1 DEF Reached
    <3> QED BY <1>1, <1>2, <3>1, <3>2, <3>3 DEF CallOK
  <2> QED BY <2>1, <2>2, <2>3, <2>4, <2>5, <2>6, <2>7
<1>7. IsFiniteSet({y \in Comps : w'[y].pc # "new"})
  BY <1>3, StartedFinite DEF CallsOK
<1> QED BY <1>5, <1>6, <1>7 DEF CallsOK

(* Steps of deletes, of replicas and of the stores. *)
LEMMA DeleteCalls ==
  ASSUME TypeOK, CallsOK, w' = w, net' = net,
         \A x \in Comps : d'[x].pc # "no" => d[x].pc # "no" \/ w[x].pc = "acked"
  PROVE  CallsOK'
<1>1. \A x \in Comps : CallOK(x)'
  BY CallElsewhere DEF CallsOK
<1> QED BY <1>1 DEF CallsOK

-----------------------------------------------------------------------------
(* The table of a replica that applied every command up to m. *)
TableAt(L, m, R) ==
  \A k \in Chunks :
    /\ k \in DOMAIN R <=> \E j \in 1..m : L[j].op = "create" /\ L[j].chunk = k
    /\ (\E i, j \in 1..m : /\ j < i /\ L[j].op = "create" /\ L[j].chunk = k
                           /\ L[i].op = "decrement" /\ L[i].chunk = k)
         => R[k].tomb

(* TablesOK says this of every replica. *)
LEMMA TablesAre ==
  TablesOK <=> \A n \in Replicas : TableAt(log, applied[n], table[n])
BY DEF TablesOK, TableAt, Settled, Logged

(* Later commands change nothing. *)
LEMMA TablePrefix ==
  ASSUME NEW L, NEW K, NEW m, NEW R, TableAt(L, m, R), \A i \in 1..m : K[i] = L[i]
  PROVE  TableAt(K, m, R)
BY DEF TableAt

(* The next command, applied. *)
LEMMA TableNext ==
  ASSUME NEW L, NEW m \in Nat, NEW R, NEW P, NEW cmd, TableAt(L, m, R), cmd = L[m + 1],
         cmd.op \in {"create", "decrement"}, cmd.chunk \in Chunks,
         OnChunks(R, Row), \A k \in DOMAIN R : R[k].rc <= 1
  PROVE  TableAt(L, m + 1, Effect([rows |-> R, parked |-> P], cmd).rows)
<1>1. PICK s, h, S : s = [rows |-> R, parked |-> P] /\ h = cmd.chunk /\ S = Effect(s, cmd).rows
  OBVIOUS
<1>2. s.rows = R /\ s.parked = P /\ h \in Chunks
  BY <1>1
<1>3. \A i : i \in 1..(m + 1) <=> i \in 1..m \/ i = m + 1
  OBVIOUS
<1>4. CASE cmd.op = "create"
  <2>1. S = Created(s, h).rows
    BY <1>1, <1>4 DEF Effect
  <2>2. DOMAIN S = DOMAIN R \cup {h} /\ \A k \in DOMAIN R : S[k] = R[k]
    <3>1. CASE h \in DOMAIN R
      BY <1>2, <2>1, <3>1 DEF Created
    <3>2. CASE h \notin DOMAIN R
      <4>1. PICK v : S = Bind(R, h, v)
        BY <1>2, <2>1, <3>2 DEF Created
      <4> QED BY <3>2, <4>1 DEF Bind
    <3> QED BY <3>1, <3>2
  <2>3. ASSUME NEW k \in Chunks
        PROVE  k \in DOMAIN S <=> \E j \in 1..(m + 1) : L[j].op = "create" /\ L[j].chunk = k
    <3>1. k \in DOMAIN R <=> \E j \in 1..m : L[j].op = "create" /\ L[j].chunk = k
      BY DEF TableAt
    <3> QED BY <1>1, <1>3, <1>4, <2>2, <3>1
  <2>4. ASSUME NEW k \in Chunks, NEW i \in 1..(m + 1), NEW j \in 1..(m + 1), j < i,
               L[j].op = "create", L[j].chunk = k, L[i].op = "decrement", L[i].chunk = k
        PROVE  S[k].tomb
    <3>1. i \in 1..m /\ j \in 1..m
      BY <1>3, <1>4, <2>4
    <3>2. k \in DOMAIN R /\ R[k].tomb
      BY <2>4, <3>1 DEF TableAt
    <3> QED BY <2>2, <3>2
  <2> QED BY <1>1, <2>3, <2>4 DEF TableAt
<1>5. CASE cmd.op = "decrement"
  <2>1. S = Decremented(s, h).rows
    BY <1>1, <1>5 DEF Effect
  <2>2. /\ DOMAIN S = DOMAIN R /\ \A k \in DOMAIN R : k # h => S[k] = R[k]
        /\ h \in DOMAIN R => S[h].tomb
    <3>1. CASE h \in DOMAIN R
      <4>1. PICK q : q = IF R[h].rc = 0 THEN 0 ELSE R[h].rc - 1
        OBVIOUS
      <4>2. S = [R EXCEPT ![h] = [rc |-> q, tomb |-> @.tomb \/ q = 0]]
        BY <1>2, <2>1, <3>1, <4>1 DEF Decremented
      <4>3. R[h] \in Row /\ R[h].rc <= 1
        BY <3>1 DEF OnChunks
      <4>4. q = 0
        BY <4>1, <4>3 DEF Row
      <4> QED BY <3>1, <4>2, <4>4
    <3>2. CASE h \notin DOMAIN R
      <4>1. S = R
        BY <1>2, <2>1, <3>2 DEF Decremented
      <4> QED BY <3>2, <4>1
    <3> QED BY <3>1, <3>2
  <2>3. ASSUME NEW k \in Chunks
        PROVE  k \in DOMAIN S <=> \E j \in 1..(m + 1) : L[j].op = "create" /\ L[j].chunk = k
    <3>1. k \in DOMAIN R <=> \E j \in 1..m : L[j].op = "create" /\ L[j].chunk = k
      BY DEF TableAt
    <3> QED BY <1>3, <1>5, <2>2, <3>1
  <2>4. ASSUME NEW k \in Chunks, NEW i \in 1..(m + 1), NEW j \in 1..(m + 1), j < i,
               L[j].op = "create", L[j].chunk = k, L[i].op = "decrement", L[i].chunk = k
        PROVE  S[k].tomb
    <3>1. j \in 1..m
      BY <1>3, <1>5, <2>4
    <3>2. k \in DOMAIN R
      BY <2>4, <3>1 DEF TableAt
    <3>3. CASE i = m + 1
      BY <1>1, <2>2, <2>4, <3>2, <3>3
    <3>4. CASE i \in 1..m
      <4>1. R[k].tomb
        BY <2>4, <3>1, <3>4 DEF TableAt
      <4> QED BY <2>2, <3>2, <4>1
    <3> QED BY <1>3, <3>3, <3>4
  <2> QED BY <1>1, <2>3, <2>4 DEF TableAt
<1> QED BY <1>4, <1>5

(* The log grows by one command. *)
LEMMA LogGrows ==
  ASSUME RefsInv, NEW cmd, cmd \in Command, log' = Append(log, cmd)
  PROVE  /\ Len(log') = Len(log) + 1 /\ Len(log) \in Nat /\ log'[Len(log) + 1] = cmd
         /\ \A i \in 1..Len(log) : log'[i] = log[i]
         /\ \A n \in Replicas : applied[n] \in 0..Len(log) /\ 1..applied[n] \subseteq 1..Len(log)
BY DEF RefsInv, TypeOK

(* Commands keep the tables of the replicas. *)
LEMMA NextTables ==
  ASSUME RefsInv, TablesOK, [Next]_vars
  PROVE  installed' \/ TablesOK'
<1>1. \A n \in Replicas : TableAt(log, applied[n], table[n])
  BY TablesAre
<1>2. /\ applied \in [Replicas -> 0..Len(log)] /\ DOMAIN table = Replicas /\ log \in Seq(Command)
      /\ \A n \in Replicas : OnChunks(table[n], Row) /\ \A k \in DOMAIN table[n] : table[n][k].rc <= 1
  BY DEF RefsInv, TypeOK, RowsOK
<1>3. CASE \E n \in Replicas : Apply(n)
  <2>1. PICK n \in Replicas : Apply(n)
    BY <1>3
  <2>2. PICK m, cmd, s : /\ m = applied[n] /\ cmd = log[m + 1]
                         /\ s = Effect([rows |-> table[n], parked |-> parked[n]], cmd)
    OBVIOUS
  <2>3. m \in Nat /\ m + 1 \in 1..Len(log)
    BY <1>2, <2>1, <2>2 DEF Apply
  <2>4. cmd.op \in {"create", "decrement"} /\ cmd.chunk \in Chunks
    BY <2>2, <2>3, CommandsAre DEF RefsInv
  <2>5. TableAt(log, m + 1, s.rows)
    BY <1>1, <1>2, <2>2, <2>3, <2>4, TableNext
  <2>6. /\ log' = log /\ table' = [table EXCEPT ![n] = s.rows] /\ applied' = [applied EXCEPT ![n] = m + 1]
    BY <2>1, <2>2 DEF Apply, SetMachine, Machine
  <2>7. \A l \in Replicas : TableAt(log', applied'[l], table'[l])
    BY <1>1, <1>2, <2>5, <2>6
  <2> QED BY <2>7 DEF TablesOK, TableAt, Settled, Logged
<1>4. CASE \E n \in Replicas : InstallSnapshot(n)
  BY <1>4 DEF InstallSnapshot
<1>5. CASE \E x \in Comps : CommitCreate(x)
  <2>1. PICK x \in Comps : CommitCreate(x)
    BY <1>5
  <2>2. PICK cmd : cmd = [op |-> "create", comp |-> x, chunk |-> c(x)]
    OBVIOUS
  <2>3. cmd \in Command
    BY <2>2, ChunkRefsAssumption DEF Command, c
  <2>4. log' = Append(log, cmd) /\ applied' = applied /\ table' = table
    BY <2>1, <2>2 DEF CommitCreate
  <2>5. \A n \in Replicas : \A i \in 1..applied[n] : log'[i] = log[i]
    BY <2>3, <2>4, LogGrows
  <2>6. \A l \in Replicas : TableAt(log', applied'[l], table'[l])
    BY <1>1, <2>4, <2>5, TablePrefix
  <2> QED BY <2>6 DEF TablesOK, TableAt, Settled, Logged
<1>6. CASE \E x \in Comps, r \in Replicas : DecrementCluster(x, r)
  <2>1. PICK x \in Comps, r \in Replicas : DecrementCluster(x, r)
    BY <1>6
  <2>2. PICK m, cmd, s : /\ m = Len(log) /\ cmd = [op |-> "decrement", comp |-> x, chunk |-> c(x)]
                         /\ s = Effect([rows |-> table[r], parked |-> parked[r]], cmd)
    OBVIOUS
  <2>3. cmd \in Command /\ cmd.op = "decrement" /\ cmd.chunk = c(x) /\ c(x) \in Chunks
    BY <2>2, ChunkRefsAssumption DEF Command, c
  <2>4. /\ log' = Append(log, cmd) /\ table' = [table EXCEPT ![r] = s.rows]
        /\ applied[r] = m /\ applied' = [applied EXCEPT ![r] = m + 1]
    BY <2>1, <2>2, <2>3 DEF DecrementCluster, SetMachine, Machine, Effect
  <2>5. /\ m \in Nat /\ log'[m + 1] = cmd
        /\ \A n \in Replicas : \A i \in 1..applied[n] : log'[i] = log[i]
    BY <2>2, <2>3, <2>4, LogGrows
  <2>6. \A n \in Replicas : TableAt(log', applied[n], table[n])
    BY <1>1, <2>5, TablePrefix
  <2>7. TableAt(log', m + 1, s.rows)
    BY <1>2, <2>2, <2>3, <2>4, <2>5, <2>6, TableNext
  <2>8. \A l \in Replicas : TableAt(log', applied'[l], table'[l])
    BY <1>2, <2>4, <2>6, <2>7
  <2> QED BY <2>8 DEF TablesOK, TableAt, Settled, Logged
<1>7. ASSUME UNCHANGED <<log, applied, table>> PROVE TablesOK'
  BY <1>7 DEF TablesOK, Settled, Logged
<1>8. CASE \/ \E n \in Nodes : Gc(n)
           \/ \E x \in Comps, n \in Nodes :
                \/ Hit(x, n) \/ Miss(x, n) \/ Delete(x, n) \/ PutFragment(n, x)
                \/ DeleteFragment(x, n) \/ DeleteFragmentFails(x, n)
           \/ \E x \in Comps : Fan(x) \/ FanDone(x) \/ FanFails(x) \/ Ack(x) \/ DecrementFails(x)
           \/ \E n \in Replicas, k \in Chunks, p \in Nodes : Repair(n, k, p)
           \/ UNCHANGED vars
  <2>1. UNCHANGED <<log, applied, table>>
    BY <1>8 DEF Gc, Hit, Miss, Delete, PutFragment, DeleteFragment, DeleteFragmentFails, Fan, FanDone,
                FanFails, Ack, DecrementFails, Repair, raft, vars
  <2> QED BY <1>7, <2>1
<1> QED BY <1>3, <1>4, <1>5, <1>6, <1>8 DEF Next

-----------------------------------------------------------------------------
(* The account of one chunk. *)

\* A step leaves the references given for chunk k alone.
Still(k) == Copies(k)' = Copies(k) /\ Hits(k)' = Hits(k) /\ Homes(k)' = Homes(k)

(* It does when no write becomes a hit, starts its fan or reaches a node. *)
LEMMA StillIs ==
  ASSUME NEW k, net' = net \/ \A y \in Uses(k), p \in Nodes : <<p, y>> \in net' <=> <<p, y>> \in net,
         \A y \in Uses(k) :
           /\ w'[y].pc # "new" /\ ~w'[y].fresh <=> w[y].pc # "new" /\ ~w[y].fresh
           /\ w'[y].pc \notin {"new", "sealed"} /\ w'[y].fresh
                <=> w[y].pc \notin {"new", "sealed"} /\ w[y].fresh
  PROVE  Still(k)
<1>1. Hits(k)' = Hits(k) /\ Fanned(k)' = Fanned(k)
  BY DEF Hits, Fanned, Uses, c
<1>2. \A y \in Fanned(k) : Reached(y)' = Reached(y)
  BY DEF Fanned, Reached
<1>3. Copies(k)' = Copies(k)
  BY <1>1, <1>2 DEF Copies
<1>4. Homes(k)' = Homes(k)
  BY <1>1, <1>2 DEF Homes
<1> QED BY <1>1, <1>3, <1>4 DEF Still

(* The sets of the account are finite. *)
LEMMA AccountFinite ==
  ASSUME CallsOK, NEW k
  PROVE  /\ IsFiniteSet(Hits(k)) /\ Cardinality(Hits(k)) \in Nat
         /\ IsFiniteSet(Copies(k)) /\ Cardinality(Copies(k)) \in Nat
         /\ \A E \in SUBSET Deleted(k) : IsFiniteSet(E) /\ Cardinality(E) \in Nat
         /\ \A S \in SUBSET Nodes : IsFiniteSet(S) /\ Cardinality(S) \in Nat
<1>1. PICK S : S = {x \in Comps : w[x].pc # "new"}
  OBVIOUS
<1>2. IsFiniteSet(S) /\ IsFiniteSet(Nodes)
  BY <1>1, ChunkRefsAssumption DEF CallsOK
<1>3. IsFiniteSet(S \X Nodes)
  BY <1>2, FS_Product
<1>4. Hits(k) \subseteq S
  BY <1>1 DEF Hits, Uses
<1>5. Copies(k) \subseteq S \X Nodes
  BY <1>1 DEF Copies, Fanned, Uses
<1>6. Deleted(k) \subseteq S
  BY <1>1 DEF Deleted, Uses, CallsOK, CallOK
<1>7. \A E \in SUBSET Deleted(k) : E \subseteq S
  BY <1>6
<1> QED BY <1>2, <1>3, <1>4, <1>5, <1>7, FS_Subset, FS_CardinalityType

(* Nothing of the account moves, but rows at zero may leave the stores. *)
LEMMA AccountSame ==
  ASSUME NEW k, Accounted(k), Still(k), Tokens(k)' = Tokens(k),
         \A p \in Nodes : Has(p, k)' => Has(p, k),
         Settled(k, Len(log)) => Settled(k, Len(log))', \A y \in Uses(k) : d'[y] = d[y]
  PROVE  Accounted(k)'
<1>1. PICK E \in SUBSET Deleted(k), M \in SUBSET Nodes, R \in SUBSET Nodes :
        Balanced(k, E, M, R) /\ Spared(k, E, M, R)
  BY DEF Accounted
<1>2. Uses(k)' = Uses(k) /\ Deleted(k)' = Deleted(k) /\ E \subseteq Uses(k)
  BY <1>1 DEF Uses, Deleted, c
<1>3. Balanced(k, E, M, R)'
  BY <1>1, <1>2 DEF Balanced, Still
<1>4. Spared(k, E, M, R)'
  BY <1>1, <1>2 DEF Spared, Still
<1>5. E \in SUBSET Deleted(k)'
  BY <1>1, <1>2
<1> QED BY <1>1, <1>3, <1>4, <1>5 DEF Accounted

(* A store gets a reference that a hit or a fan accounts for. *)
LEMMA AccountGain ==
  ASSUME CallsOK, NEW k, NEW x, NEW n \in Nodes, Accounted(k), UNCHANGED <<d, log>>,
         IsFiniteSet(Tokens(k)) => Tally(k, 1), \A p \in Nodes : Has(p, k)' <=> Has(p, k) \/ p = n,
         \/ /\ Has(n, k) /\ x \notin Hits(k) /\ Hits(k)' = Hits(k) \cup {x}
            /\ Copies(k)' = Copies(k) /\ Homes(k)' = Homes(k)
         \/ /\ <<x, n>> \notin Copies(k) /\ Copies(k)' = Copies(k) \cup {<<x, n>>}
            /\ Hits(k)' = Hits(k) /\ Homes(k)' = Homes(k) \cup {n}
  PROVE  Accounted(k)'
<1>1. PICK E \in SUBSET Deleted(k), M \in SUBSET Nodes, R \in SUBSET Nodes :
        Balanced(k, E, M, R) /\ Spared(k, E, M, R)
  BY DEF Accounted
<1>2. Uses(k)' = Uses(k) /\ Deleted(k)' = Deleted(k) /\ Settled(k, Len(log))' = Settled(k, Len(log))
  BY DEF Uses, Deleted, c, Settled, Logged
<1>3. /\ Tally(k, 1) /\ IsFiniteSet(Tokens(k)) /\ Cardinality(Tokens(k)) \in Nat
  BY <1>1, FS_CardinalityType DEF Balanced
<1>4. /\ Cardinality(E) \in Nat /\ Cardinality(M) \in Nat /\ Cardinality(R) \in Nat
      /\ Cardinality(Hits(k)) \in Nat /\ Cardinality(Copies(k)) \in Nat
      /\ IsFiniteSet(Hits(k)) /\ IsFiniteSet(Copies(k))
  BY <1>1, AccountFinite
<1>5. Cardinality(Copies(k)') + Cardinality(Hits(k)') = Cardinality(Copies(k)) + Cardinality(Hits(k)) + 1
  <2>1. x \notin Hits(k) => Cardinality(Hits(k) \cup {x}) = Cardinality(Hits(k)) + 1
    BY <1>4, FS_AddElement
  <2>2. <<x, n>> \notin Copies(k) => Cardinality(Copies(k) \cup {<<x, n>>}) = Cardinality(Copies(k)) + 1
    BY <1>4, FS_AddElement
  <2> QED BY <1>4, <2>1, <2>2
<1>6. Homes(k) \subseteq Homes(k)' /\ (n \in Homes(k)' \/ Has(n, k))
  OBVIOUS
<1>7. Balanced(k, E, M, R)'
  <2>1. Cardinality(Tokens(k)') + Cardinality(E) + Cardinality(M)
          >= Cardinality(Copies(k)') + Cardinality(Hits(k)') + Cardinality(R)
    <3>1. PICK a, b, e, m, r, ca, ha, cb : 
            /\ a = Cardinality(Tokens(k)) /\ b = Cardinality(Tokens(k)') /\ e = Cardinality(E)
            /\ m = Cardinality(M) /\ r = Cardinality(R) /\ ca = Cardinality(Copies(k))
            /\ ha = Cardinality(Hits(k)) /\ cb = Cardinality(Copies(k)') + Cardinality(Hits(k)')
      OBVIOUS
    <3>2. a + e + m >= ca + ha + r /\ b = a + 1 /\ cb = ca + ha + 1
      BY <1>1, <1>3, <1>5, <3>1 DEF Balanced, Tally
    <3>3. a \in Nat /\ e \in Nat /\ m \in Nat /\ r \in Nat /\ ca \in Nat /\ ha \in Nat
      BY <1>3, <1>4, <3>1
    <3>4. b + e + m >= cb + r
      BY <3>2, <3>3
    <3> QED BY <3>1, <3>4
  <2>2. \A p \in Nodes : Has(p, k)' => p \in Homes(k)' \cup R
    BY <1>1, <1>6 DEF Balanced
  <2>3. \A y \in E : d'[y].pc = "dec" => d'[y].via \in Homes(k)' \cup R
    BY <1>1, <1>6 DEF Balanced
  <2>4. M \subseteq Homes(k)' \cup R
    BY <1>1, <1>6 DEF Balanced
  <2> QED BY <1>3, <2>1, <2>2, <2>3, <2>4 DEF Balanced, Tally
<1>8. Spared(k, E, M, R)'
  BY <1>1, <1>2, <1>6 DEF Spared
<1> QED BY <1>1, <1>2, <1>7, <1>8 DEF Accounted

(* The scrub gives a store a reference. *)
LEMMA AccountRepair ==
  ASSUME CallsOK, NEW k, NEW n \in Nodes, Accounted(k), UNCHANGED <<d, log>>, Still(k),
         IsFiniteSet(Tokens(k)) => Tally(k, 1), \A p \in Nodes : Has(p, k)' <=> Has(p, k) \/ p = n
  PROVE  Accounted(k)'
<1>1. PICK E \in SUBSET Deleted(k), M \in SUBSET Nodes, R \in SUBSET Nodes :
        Balanced(k, E, M, R) /\ Spared(k, E, M, R)
  BY DEF Accounted
<1>2. Uses(k)' = Uses(k) /\ Deleted(k)' = Deleted(k) /\ Settled(k, Len(log))' = Settled(k, Len(log))
  BY DEF Uses, Deleted, c, Settled, Logged
<1>3. /\ Tally(k, 1) /\ IsFiniteSet(Tokens(k)) /\ Cardinality(Tokens(k)) \in Nat
  BY <1>1, FS_CardinalityType DEF Balanced
<1>4. PICK Q : Q = R \cup {n}
  OBVIOUS
<1>5. /\ Cardinality(E) \in Nat /\ Cardinality(M) \in Nat /\ Cardinality(R) \in Nat
      /\ Cardinality(Hits(k)) \in Nat /\ Cardinality(Copies(k)) \in Nat
      /\ IsFiniteSet(R) /\ Q \in SUBSET Nodes
  BY <1>1, <1>4, AccountFinite
<1>6. Cardinality(Q) \in Nat /\ Cardinality(Q) <= Cardinality(R) + 1
  <2>1. CASE n \in R
    <3>1. Q = R
      BY <1>4, <2>1
    <3> QED BY <1>5, <3>1
  <2>2. CASE n \notin R
    <3>1. Cardinality(R \cup {n}) = Cardinality(R) + 1
      BY <1>5, <2>2, FS_AddElement
    <3> QED BY <1>4, <1>5, <3>1
  <2> QED BY <2>1, <2>2
<1>7. Balanced(k, E, M, Q)'
  <2>1. Cardinality(Tokens(k)') + Cardinality(E) + Cardinality(M)
          >= Cardinality(Copies(k)') + Cardinality(Hits(k)') + Cardinality(Q)
    <3>1. PICK a, b, e, m, r, ca, ha, q :
            /\ a = Cardinality(Tokens(k)) /\ b = Cardinality(Tokens(k)') /\ e = Cardinality(E)
            /\ m = Cardinality(M) /\ r = Cardinality(R) /\ ca = Cardinality(Copies(k))
            /\ ha = Cardinality(Hits(k)) /\ q = Cardinality(Q)
      OBVIOUS
    <3>2. a + e + m >= ca + ha + r /\ b = a + 1 /\ q <= r + 1
      BY <1>1, <1>3, <1>6, <3>1 DEF Balanced, Tally
    <3>3. a \in Nat /\ e \in Nat /\ m \in Nat /\ r \in Nat /\ ca \in Nat /\ ha \in Nat /\ q \in Nat
      BY <1>3, <1>5, <1>6, <3>1
    <3>4. b + e + m >= ca + ha + q
      BY <3>2, <3>3
    <3> QED BY <3>1, <3>4 DEF Still
  <2>2. \A p \in Nodes : Has(p, k)' => p \in Homes(k)' \cup Q
    BY <1>1, <1>4 DEF Balanced, Still
  <2>3. M \subseteq Homes(k)' \cup Q /\ \A y \in E : d'[y].pc = "dec" => d'[y].via \in Homes(k)' \cup Q
    BY <1>1, <1>4 DEF Balanced, Still
  <2> QED BY <1>3, <2>1, <2>2, <2>3 DEF Balanced, Tally
<1>8. Spared(k, E, M, Q)'
  BY <1>1, <1>2, <1>4 DEF Spared, Still
<1> QED BY <1>1, <1>2, <1>5, <1>7, <1>8 DEF Accounted

\* One more delete, or one more node, took a reference: F and N instead of E, M.
OneMore(E, M, F, N) ==
  \/ N = M /\ \E x : x \notin E /\ F = E \cup {x}
  \/ F = E /\ \E p : p \notin M /\ N = M \cup {p}

(* A store loses a reference that a delete, or a node of the tombstone's fan,  *)
(* accounts for.                                                              *)
LEMMA BalanceLoss ==
  ASSUME CallsOK, NEW k, NEW E \in SUBSET Deleted(k), NEW M \in SUBSET Nodes, NEW R \in SUBSET Nodes,
         Balanced(k, E, M, R), Still(k), NEW F, NEW N,
         IsFiniteSet(Tokens(k)) => Tally(k, -1), OneMore(E, M, F, N)
  PROVE  /\ IsFiniteSet(Tokens(k)')
         /\ Cardinality(Tokens(k)') + Cardinality(F) + Cardinality(N)
              >= Cardinality(Copies(k)') + Cardinality(Hits(k)') + Cardinality(R)
<1>1. /\ Tally(k, -1) /\ IsFiniteSet(Tokens(k)) /\ Cardinality(Tokens(k)) \in Nat
  BY FS_CardinalityType DEF Balanced
<1>2. /\ Cardinality(E) \in Nat /\ Cardinality(M) \in Nat /\ Cardinality(R) \in Nat
      /\ Cardinality(Hits(k)) \in Nat /\ Cardinality(Copies(k)) \in Nat
      /\ IsFiniteSet(E) /\ IsFiniteSet(M)
  BY AccountFinite
<1>3. \A x : x \notin E => Cardinality(E \cup {x}) = Cardinality(E) + 1
  BY <1>2, FS_AddElement
<1>4. \A p : p \notin M => Cardinality(M \cup {p}) = Cardinality(M) + 1
  BY <1>2, FS_AddElement
<1>5. PICK a, b, e, m, r, ca, ha, f, l :
        /\ a = Cardinality(Tokens(k)) /\ b = Cardinality(Tokens(k)') /\ e = Cardinality(E)
        /\ m = Cardinality(M) /\ r = Cardinality(R) /\ ca = Cardinality(Copies(k))
        /\ ha = Cardinality(Hits(k)) /\ f = Cardinality(F) /\ l = Cardinality(N)
  OBVIOUS
<1>6. (f = e + 1 /\ l = m) \/ (f = e /\ l = m + 1)
  BY <1>3, <1>4, <1>5 DEF OneMore
<1>7. a + e + m >= ca + ha + r /\ b = a + (-1)
  BY <1>1, <1>5 DEF Balanced, Tally
<1>8. a \in Nat /\ e \in Nat /\ m \in Nat /\ r \in Nat /\ ca \in Nat /\ ha \in Nat
  BY <1>1, <1>2, <1>5
<1>9. b + f + l >= ca + ha + r
  BY <1>6, <1>7, <1>8
<1> QED BY <1>1, <1>5, <1>9 DEF Still, Tally

(* Or it loses none. *)
LEMMA BalanceKept ==
  ASSUME NEW k, NEW E, NEW M, NEW R, Balanced(k, E, M, R), Still(k), Tokens(k)' = Tokens(k)
  PROVE  /\ IsFiniteSet(Tokens(k)')
         /\ Cardinality(Tokens(k)') + Cardinality(E) + Cardinality(M)
              >= Cardinality(Copies(k)') + Cardinality(Hits(k)') + Cardinality(R)
BY DEF Balanced, Still

(* The first step of a delete. *)
LEMMA AccountDelete ==
  ASSUME TypeOK, CallsOK, NEW x \in Comps, NEW n \in Nodes, Delete(x, n), NEW k, k = c(x), Accounted(k), Still(k)
  PROVE  Accounted(k)'
<1>1. PICK E \in SUBSET Deleted(k), M \in SUBSET Nodes, R \in SUBSET Nodes :
        Balanced(k, E, M, R) /\ Spared(k, E, M, R)
  BY DEF Accounted
<1>2. /\ d \in [Comps -> Deletion] /\ LocalOK /\ k \in Chunks
  BY ChunkRefsAssumption DEF TypeOK, LocalOK, c
<1>3. d[x].pc = "no" /\ d' = [d EXCEPT ![x] = [pc |-> "dec", via |-> n]] /\ log' = log /\ Drop(n, k)
  BY DEF Delete, raft
<1>4. d'[x].pc = "dec" /\ d'[x].via = n /\ \A y \in Comps \ {x} : d'[y] = d[y]
  BY <1>2, <1>3
<1>5. Uses(k)' = Uses(k) /\ x \in Uses(k) /\ Settled(k, Len(log))' = Settled(k, Len(log))
  BY <1>3 DEF Uses, c, Settled, Logged
<1>6. Deleted(k)' = Deleted(k) \cup {x} /\ x \notin Deleted(k)
  BY <1>3, <1>4, <1>5 DEF Deleted, Uses
<1>7. E \subseteq Comps \ {x}
  BY <1>6 DEF Deleted, Uses
<1>8. /\ \A p \in Nodes : Has(p, k)' <=> Has(p, k)
      /\ Tokens(k)' = Tokens(k) \/ (Has(n, k) /\ (IsFiniteSet(Tokens(k)) => Tally(k, -1)))
  BY <1>2, <1>3, DropTokens
<1>9. PICK F : \/ F = E /\ Tokens(k)' = Tokens(k)
               \/ F = E \cup {x} /\ n \in Homes(k) \cup R /\ (IsFiniteSet(Tokens(k)) => Tally(k, -1))
  BY <1>1, <1>8 DEF Balanced
<1>10. F \in SUBSET Deleted(k)' /\ E \subseteq F /\ F \subseteq E \cup {x}
  BY <1>6, <1>9
<1>11. /\ IsFiniteSet(Tokens(k)')
       /\ Cardinality(Tokens(k)') + Cardinality(F) + Cardinality(M)
            >= Cardinality(Copies(k)') + Cardinality(Hits(k)') + Cardinality(R)
  <2>1. CASE F = E /\ Tokens(k)' = Tokens(k)
    BY <1>1, <2>1, BalanceKept
  <2>2. CASE F = E \cup {x} /\ (IsFiniteSet(Tokens(k)) => Tally(k, -1))
    <3>1. OneMore(E, M, F, M)
      BY <1>6, <2>2 DEF OneMore
    <3> QED BY <1>1, <2>2, <3>1, BalanceLoss
  <2> QED BY <1>9, <2>1, <2>2
<1>12. \A y \in F : d'[y].pc = "dec" => d'[y].via \in Homes(k)' \cup R
  <2>1. \A y \in E : d'[y].pc = "dec" => d'[y].via \in Homes(k)' \cup R
    BY <1>1, <1>4, <1>7 DEF Balanced, Still
  <2>2. x \in F => n \in Homes(k) \cup R
    BY <1>6, <1>7, <1>9
  <2> QED BY <1>4, <1>10, <2>1, <2>2 DEF Still
<1>13. Balanced(k, F, M, R)'
  BY <1>1, <1>8, <1>11, <1>12 DEF Balanced, Still
<1>14. Spared(k, F, M, R)'
  <2>1. \A y \in Uses(k) : d'[y].pc = "fan" => d[y].pc = "fan" /\ d'[y] = d[y]
    BY <1>4 DEF Uses
  <2>2. \A z \in Deleted(k) : z \in Deleted(k)' /\ (z \in F => z \in E)
    BY <1>6, <1>10
  <2> QED BY <1>1, <1>5, <2>1, <2>2 DEF Spared, Still
<1> QED BY <1>1, <1>10, <1>13, <1>14 DEF Accounted

(* A decrement that ends the delete: it made no tombstone, or was not sent. *)
LEMMA AccountDone ==
  ASSUME TypeOK, NEW x \in Comps, NEW k, k = c(x), Accounted(k), Still(k), d[x].pc = "dec",
         d' = [d EXCEPT ![x] = Done], Settled(k, Len(log)) => Settled(k, Len(log))', local' = local
  PROVE  Accounted(k)'
<1>1. PICK E \in SUBSET Deleted(k), M \in SUBSET Nodes, R \in SUBSET Nodes :
        Balanced(k, E, M, R) /\ Spared(k, E, M, R)
  BY DEF Accounted
<1>2. d \in [Comps -> Deletion]
  BY DEF TypeOK
<1>3. d'[x].pc = "done" /\ \A y \in Comps \ {x} : d'[y] = d[y]
  BY <1>2 DEF Done
<1>4. Uses(k)' = Uses(k) /\ Deleted(k)' = Deleted(k) /\ E \subseteq Comps
  BY <1>1, <1>3 DEF Uses, c, Deleted
<1>5. Tokens(k)' = Tokens(k) /\ \A p \in Nodes : Has(p, k)' <=> Has(p, k)
  BY DEF Tokens, Count, Has
<1>6. Balanced(k, E, M, R)'
  <2>1. \A y \in E : d'[y].pc = "dec" => d'[y].via \in Homes(k)' \cup R
    BY <1>1, <1>3, <1>4 DEF Balanced, Still
  <2> QED BY <1>1, <1>5, <2>1 DEF Balanced, Still
<1>7. Spared(k, E, M, R)'
  <2>1. \A y \in Uses(k) : d'[y].pc = "fan" => d[y].pc = "fan" /\ d'[y] = d[y]
    BY <1>3 DEF Uses
  <2> QED BY <1>1, <1>4, <2>1 DEF Spared, Still
<1> QED BY <1>1, <1>4, <1>6, <1>7 DEF Accounted

(* A decrement that made the tombstone: the first after a create. *)
LEMMA AccountTombstone ==
  ASSUME TypeOK, NEW x \in Comps, NEW k, k = c(x), Accounted(k), Still(k), d[x].pc = "dec",
         d' = [d EXCEPT ![x] = [pc |-> "fan", todo |-> Nodes \ {d[x].via}]], local' = local,
         ~Settled(k, Len(log)), Settled(k, Len(log))'
  PROVE  Accounted(k)'
<1>1. PICK E \in SUBSET Deleted(k), M \in SUBSET Nodes, R \in SUBSET Nodes :
        Balanced(k, E, M, R) /\ Spared(k, E, M, R)
  BY DEF Accounted
<1>2. d \in [Comps -> Deletion] /\ d[x].via \in Nodes
  BY DEF TypeOK, Deletion
<1>3. PICK v : v = d[x].via
  OBVIOUS
<1>4. d'[x].pc = "fan" /\ d'[x].todo = Nodes \ {v} /\ \A y \in Comps \ {x} : d'[y] = d[y]
  BY <1>2, <1>3
<1>5. Uses(k)' = Uses(k) /\ x \in Uses(k) /\ Deleted(k)' = Deleted(k) /\ E \subseteq Comps /\ x \in Deleted(k)
  BY <1>1, <1>4 DEF Uses, c, Deleted
<1>6. Tokens(k)' = Tokens(k) /\ \A p \in Nodes : Has(p, k)' <=> Has(p, k)
  BY DEF Tokens, Count, Has
<1>7. M = {} /\ \A y \in Uses(k) : d[y].pc # "fan"
  BY <1>1 DEF Spared
<1>8. Balanced(k, E, M, R)'
  <2>1. \A y \in E : d'[y].pc = "dec" => d'[y].via \in Homes(k)' \cup R
    BY <1>1, <1>4, <1>5 DEF Balanced, Still
  <2> QED BY <1>1, <1>6, <2>1 DEF Balanced, Still
<1>9. x \in E => v \in Homes(k)' \cup R
  BY <1>1, <1>3 DEF Balanced, Still
<1>10. \A y \in Uses(k)' : d'[y].pc = "fan" => y = x /\ d'[y].todo \cap (M \cup {v}) = {}
  <2>1. \A y \in Uses(k) \ {x} : d'[y].pc # "fan"
    BY <1>4, <1>7 DEF Uses
  <2> QED BY <1>4, <1>5, <1>7, <2>1
<1>11. Spared(k, E, M, R)'
  BY <1>2, <1>3, <1>5, <1>7, <1>9, <1>10 DEF Spared
<1> QED BY <1>1, <1>5, <1>8, <1>11 DEF Accounted

(* A request of the tombstone's fan, served or lost. *)
LEMMA AccountFragment ==
  ASSUME TypeOK, CallsOK, NEW x \in Comps, NEW k, k = c(x), Accounted(k), Still(k), NEW p \in Nodes,
         d[x].pc = "fan", p \in d[x].todo, d' = [d EXCEPT ![x] = Sent(d[x], p)], log' = log,
         Drop(p, k) \/ local' = local
  PROVE  Accounted(k)'
<1>1. PICK E \in SUBSET Deleted(k), M \in SUBSET Nodes, R \in SUBSET Nodes :
        Balanced(k, E, M, R) /\ Spared(k, E, M, R)
  BY DEF Accounted
<1>2. d \in [Comps -> Deletion] /\ d[x] \in [pc : {"fan"}, todo : SUBSET Nodes] /\ LocalOK /\ k \in Chunks
  BY ChunkRefsAssumption DEF TypeOK, Deletion, LocalOK, c
<1>3. /\ d'[x].pc \in {"fan", "done"} /\ (d'[x].pc = "fan" => d'[x].todo = d[x].todo \ {p})
      /\ \A y \in Comps \ {x} : d'[y] = d[y]
  BY <1>2 DEF Sent, Done
<1>4. /\ Uses(k)' = Uses(k) /\ x \in Uses(k) /\ Deleted(k)' = Deleted(k) /\ E \subseteq Comps
      /\ Settled(k, Len(log))' = Settled(k, Len(log))
  BY <1>1, <1>3 DEF Uses, c, Deleted, Settled, Logged
<1>5. PICK z \in Deleted(k), v \in Nodes \ M :
        /\ Settled(k, Len(log)) /\ z \in E => v \in Homes(k) \cup R
        /\ \A y \in Uses(k) : d[y].pc = "fan" => y = z /\ d[y].todo \cap (M \cup {v}) = {}
  BY <1>1, <1>4 DEF Spared
<1>6. z = x /\ d[x].todo \cap (M \cup {v}) = {} /\ p \notin M /\ p # v /\ Settled(k, Len(log))
  BY <1>1, <1>4, <1>5 DEF Spared
<1>7. /\ \A q \in Nodes : Has(q, k)' <=> Has(q, k)
      /\ Tokens(k)' = Tokens(k) \/ (Has(p, k) /\ (IsFiniteSet(Tokens(k)) => Tally(k, -1)))
  <2>1. CASE Drop(p, k)
    BY <1>2, <2>1, DropTokens
  <2>2. CASE local' = local
    BY <2>2 DEF Tokens, Count, Has
  <2> QED BY <2>1, <2>2
<1>8. PICK N : \/ N = M /\ Tokens(k)' = Tokens(k)
               \/ N = M \cup {p} /\ p \in Homes(k) \cup R /\ (IsFiniteSet(Tokens(k)) => Tally(k, -1))
  BY <1>1, <1>7 DEF Balanced
<1>9. N \in SUBSET Nodes /\ N \subseteq M \cup {p} /\ v \notin N
  BY <1>5, <1>6, <1>8
<1>10. /\ IsFiniteSet(Tokens(k)')
       /\ Cardinality(Tokens(k)') + Cardinality(E) + Cardinality(N)
            >= Cardinality(Copies(k)') + Cardinality(Hits(k)') + Cardinality(R)
  <2>1. CASE N = M /\ Tokens(k)' = Tokens(k)
    BY <1>1, <2>1, BalanceKept
  <2>2. CASE N = M \cup {p} /\ (IsFiniteSet(Tokens(k)) => Tally(k, -1))
    <3>1. OneMore(E, M, E, N)
      BY <1>6, <2>2 DEF OneMore
    <3> QED BY <1>1, <2>2, <3>1, BalanceLoss
  <2> QED BY <1>8, <2>1, <2>2
<1>11. \A y \in E : d'[y].pc = "dec" => d'[y].via \in Homes(k)' \cup R
  BY <1>1, <1>3, <1>4 DEF Balanced, Still
<1>12. N \subseteq Homes(k)' \cup R
  BY <1>1, <1>8 DEF Balanced, Still
<1>13. Balanced(k, E, N, R)'
  BY <1>1, <1>7, <1>10, <1>11, <1>12 DEF Balanced, Still
<1>14. \A y \in Uses(k)' : d'[y].pc = "fan" => y = x /\ d'[y].todo \cap (N \cup {v}) = {}
  <2>1. \A y \in Uses(k) \ {x} : d'[y].pc # "fan"
    BY <1>3, <1>5, <1>6 DEF Uses
  <2>2. d'[x].pc = "fan" => d'[x].todo \cap (N \cup {v}) = {}
    BY <1>3, <1>6, <1>9
  <2> QED BY <1>4, <2>1, <2>2
<1>15. Spared(k, E, N, R)'
  BY <1>4, <1>5, <1>6, <1>9, <1>14 DEF Spared, Still
<1> QED BY <1>1, <1>4, <1>9, <1>13, <1>15 DEF Accounted

(* The stores of other chunks than the one a step writes or drops. *)
LEMMA StoreElsewhere ==
  ASSUME LocalOK, NEW k \in Chunks,
         local' = local \/ \E n \in Nodes, j \in Chunks \ {k} : Put(n, j) \/ Drop(n, j)
  PROVE  Tokens(k)' = Tokens(k) /\ \A p \in Nodes : Has(p, k)' => Has(p, k)
<1>1. CASE local' = local
  BY <1>1 DEF Tokens, Count, Has
<1>2. CASE \E n \in Nodes, j \in Chunks \ {k} : Put(n, j) \/ Drop(n, j)
  <2>1. PICK n \in Nodes, j \in Chunks \ {k} : Put(n, j) \/ Drop(n, j)
    BY <1>2
  <2>2. k \in Chunks \ {j}
    BY <2>1
  <2>3. CASE Put(n, j)
    BY <2>2, <2>3, PutTokens
  <2>4. CASE Drop(n, j)
    BY <2>2, <2>4, DropTokens
  <2> QED BY <2>1, <2>3, <2>4
<1> QED BY <1>1, <1>2

(* A decrement that follows a create in the log does so for good. *)
LEMMA SettledKept ==
  ASSUME RefsInv, NEW k, log' = log \/ \E cmd \in Command : log' = Append(log, cmd)
  PROVE  Settled(k, Len(log)) => Settled(k, Len(log))'
<1>1. CASE log' = log
  BY <1>1 DEF Settled, Logged
<1>2. CASE \E cmd \in Command : log' = Append(log, cmd)
  <2>1. /\ Len(log') = Len(log) + 1 /\ Len(log) \in Nat /\ \A i \in 1..Len(log) : log'[i] = log[i]
    BY <1>2, LogGrows
  <2>2. 1..Len(log) \subseteq 1..Len(log')
    BY <2>1
  <2> QED BY <2>1, <2>2 DEF Settled, Logged
<1> QED BY <1>1, <1>2

(* The decrement that is answered "tombstoned" is the first after a create.    *)
LEMMA TombstoneIsFirst ==
  ASSUME RefsInv, TablesOK, NEW x \in Comps, NEW r \in Replicas, NEW k, k = c(x),
         DecrementCluster(x, r), TombstonedNow(Machine(r), k)
  PROVE  ~Settled(k, Len(log)) /\ Settled(k, Len(log))'
<1>1. applied[r] = Len(log) /\ k \in Chunks /\ k \in DOMAIN table[r] /\ ~table[r][k].tomb
  BY ChunkRefsAssumption DEF DecrementCluster, TombstonedNow, Machine, c
<1>2. ~Settled(k, Len(log))
  BY <1>1 DEF TablesOK
<1>3. PICK j \in 1..Len(log) : Logged(j, "create", k)
  BY <1>1 DEF TablesOK
<1>4. PICK cmd : cmd = [op |-> "decrement", comp |-> x, chunk |-> c(x)]
  OBVIOUS
<1>5. cmd \in Command /\ cmd.op = "decrement" /\ cmd.chunk = k /\ log' = Append(log, cmd)
  BY <1>1, <1>4 DEF Command, DecrementCluster
<1>6. /\ Len(log') = Len(log) + 1 /\ Len(log) \in Nat /\ log'[Len(log) + 1] = cmd
      /\ \A i \in 1..Len(log) : log'[i] = log[i]
  BY <1>5, LogGrows
<1>7. PICK i : i = Len(log) + 1
  OBVIOUS
<1>8. i \in 1..Len(log') /\ j \in 1..Len(log') /\ j < i
  BY <1>3, <1>6, <1>7
<1>9. Logged(j, "create", k)' /\ Logged(i, "decrement", k)'
  BY <1>3, <1>5, <1>6, <1>7 DEF Logged
<1> QED BY <1>2, <1>8, <1>9 DEF Settled

(* What a fan's step does to the references given. *)
LEMMA FanGives ==
  ASSUME NEW x \in Comps, NEW n \in Nodes, NEW k, k = c(x), Hits(k)' = Hits(k),
         Fanned(k)' = Fanned(k) \cup {x}, \A y \in Fanned(k) \ {x} : Reached(y)' = Reached(y),
         \/ x \in Fanned(k) /\ n \notin Reached(x) /\ Reached(x)' = Reached(x) \cup {n}
         \/ x \notin Fanned(k) /\ Reached(x)' = {n}
  PROVE  /\ <<x, n>> \notin Copies(k) /\ Copies(k)' = Copies(k) \cup {<<x, n>>}
         /\ Hits(k)' = Hits(k) /\ Homes(k)' = Homes(k) \cup {n}
<1>1. \A e : e \in Copies(k) <=> \E y \in Fanned(k), p \in Nodes : e = <<y, p>> /\ p \in Reached(y)
  BY DEF Copies
<1>2. \A e : e \in Copies(k)' <=> \E y \in Fanned(k)', p \in Nodes : e = <<y, p>> /\ p \in Reached(y)'
  BY DEF Copies
<1>3. <<x, n>> \notin Copies(k)
  BY <1>1
<1>4. \A y \in Fanned(k)', p \in Nodes :
        p \in Reached(y)' <=> (y \in Fanned(k) /\ p \in Reached(y)) \/ (y = x /\ p = n)
  OBVIOUS
<1>5. \A e : e \in Copies(k)' <=> e \in Copies(k) \/ e = <<x, n>>
  BY <1>1, <1>2, <1>4
<1>6. Homes(k)' = Homes(k) \cup {n}
  <2>1. \A p \in Nodes : p \in Homes(k)' <=> \E y \in Fanned(k)' : p \in Reached(y)'
    BY DEF Homes
  <2>2. \A p \in Nodes : p \in Homes(k) <=> \E y \in Fanned(k) : p \in Reached(y)
    BY DEF Homes
  <2>3. \A p \in Nodes : p \in Homes(k)' <=> p \in Homes(k) \/ p = n
    BY <1>4, <2>1, <2>2
  <2>4. Homes(k) \subseteq Nodes /\ Homes(k)' \subseteq Nodes
    BY DEF Homes
  <2> QED BY <2>3, <2>4
<1> QED BY <1>3, <1>5, <1>6

(* Every write's step keeps the account of every chunk. *)
LEMMA WriteAccount ==
  ASSUME RefsInv, CallsOK, NEW k \in Chunks, Accounted(k), NEW x \in Comps,
         \/ \E n \in Nodes : Hit(x, n) \/ Miss(x, n) \/ PutFragment(n, x)
         \/ Fan(x) \/ FanDone(x) \/ FanFails(x) \/ Ack(x)
  PROVE  Accounted(k)'
<1>1. /\ w \in [Comps -> Write] /\ CallOK(x) /\ LocalOK /\ c(x) \in Chunks
      /\ w[x].pc # "new" => w[x] \in Running
  BY ChunkRefsAssumption DEF RefsInv, TypeOK, CallsOK, LocalOK, c, Write, Running
<1>2. d' = d /\ log' = log
  BY DEF Hit, Miss, PutFragment, Fan, FanDone, FanFails, Ack, raft
<1>3. \A y \in Comps \ {x} : w'[y] = w[y]
  BY <1>1 DEF Hit, Miss, PutFragment, Fan, FanDone, FanFails, Ack
<1>4. \A y \in Comps \ {x} : \A p \in Nodes : <<p, y>> \in net' <=> <<p, y>> \in net
  <2>1. CASE \E n \in Nodes : PutFragment(n, x)
    BY <2>1 DEF PutFragment
  <2>2. CASE Fan(x)
    BY <2>2 DEF Fan
  <2>3. CASE (\E n \in Nodes : Hit(x, n) \/ Miss(x, n)) \/ FanDone(x) \/ FanFails(x) \/ Ack(x)
    <3>1. net' = net
      BY <2>3 DEF Hit, Miss, FanDone, FanFails, Ack
    <3> QED BY <3>1
  <2> QED BY <2>1, <2>2, <2>3
<1>5. Settled(k, Len(log)) => Settled(k, Len(log))'
  BY <1>2, SettledKept
<1>6. ASSUME k # c(x) PROVE Accounted(k)'
  <2>1. \A y \in Uses(k) : y \in Comps \ {x}
    BY <1>6 DEF Uses
  <2>2. Still(k)
    BY <1>3, <1>4, <2>1, StillIs
  <2>3. local' = local \/ \E n \in Nodes, j \in Chunks \ {k} : Put(n, j) \/ Drop(n, j)
    <3>1. Fan(x) => w[x].at \in Nodes
      BY <1>1 DEF Fan, Running
    <3>2. \A n \in Nodes : Hit(x, n) \/ PutFragment(n, x) => Put(n, c(x))
      BY DEF Hit, PutFragment
    <3>3. Fan(x) => Put(w[x].at, c(x))
      BY DEF Fan
    <3>4. (\E n \in Nodes : Miss(x, n)) \/ FanDone(x) \/ FanFails(x) \/ Ack(x) => local' = local
      BY DEF Miss, FanDone, FanFails, Ack
    <3> QED BY <1>1, <1>6, <3>1, <3>2, <3>3, <3>4
  <2>4. Tokens(k)' = Tokens(k) /\ \A p \in Nodes : Has(p, k)' => Has(p, k)
    BY <1>1, <2>3, StoreElsewhere
  <2> QED BY <1>2, <1>5, <2>2, <2>4, AccountSame
<1>7. ASSUME k = c(x) PROVE Accounted(k)'
  <2>1. x \in Uses(k) /\ Uses(k) \subseteq Comps /\ Uses(k)' = Uses(k)
    BY <1>7 DEF Uses, c
  <2>2. CASE \E n \in Nodes : Hit(x, n)
    <3>1. PICK n \in Nodes : Hit(x, n)
      BY <2>2
    <3>2. w[x].pc = "new" /\ Has(n, k) /\ net' = net /\ w'[x].pc = "placed" /\ ~w'[x].fresh /\ Put(n, k)
      BY <1>1, <1>7, <3>1 DEF Hit
    <3>3. x \notin Hits(k) /\ Hits(k)' = Hits(k) \cup {x} /\ Fanned(k)' = Fanned(k)
      BY <1>3, <2>1, <3>2 DEF Hits, Fanned
    <3>4. Copies(k)' = Copies(k) /\ Homes(k)' = Homes(k)
      BY <3>2, <3>3 DEF Copies, Homes, Reached
    <3>5. (IsFiniteSet(Tokens(k)) => Tally(k, 1)) /\ \A p \in Nodes : Has(p, k)' <=> Has(p, k) \/ p = n
      BY <1>1, <3>2, PutTokens
    <3> QED BY <1>2, <3>2, <3>3, <3>4, <3>5, AccountGain
  <2>3. CASE (\E n \in Nodes : Miss(x, n)) \/ FanDone(x) \/ FanFails(x) \/ Ack(x)
    <3>1. local' = local /\ net' = net
      BY <2>3 DEF Miss, FanDone, FanFails, Ack
    <3>2. /\ w'[x].pc # "new" /\ ~w'[x].fresh <=> w[x].pc # "new" /\ ~w[x].fresh
          /\ w'[x].pc \notin {"new", "sealed"} /\ w'[x].fresh
                <=> w[x].pc \notin {"new", "sealed"} /\ w[x].fresh
      <4>1. CASE \E n \in Nodes : Miss(x, n)
        <5>1. w[x].pc = "new" /\ w'[x].pc = "sealed" /\ w'[x].fresh
          BY <1>1, <4>1 DEF Miss
        <5> QED BY <5>1
      <4>2. CASE FanDone(x)
        BY <1>1, <4>2 DEF FanDone, Running
      <4>3. CASE FanFails(x)
        BY <1>1, <4>3 DEF FanFails, Running
      <4>4. CASE Ack(x)
        BY <1>1, <4>4 DEF Ack, Running
      <4> QED BY <2>3, <4>1, <4>2, <4>3, <4>4
    <3>3. Still(k)
      BY <1>3, <2>1, <3>1, <3>2, StillIs
    <3>4. Tokens(k)' = Tokens(k) /\ \A p \in Nodes : Has(p, k)' => Has(p, k)
      BY <1>1, <3>1, StoreElsewhere
    <3> QED BY <1>2, <1>5, <3>3, <3>4, AccountSame
  <2>4. CASE Fan(x)
    <3>1. PICK n : n = w[x].at
      OBVIOUS
    <3>2. /\ w[x].pc = "sealed" /\ w[x] \in Running /\ n \in Nodes /\ w[x].fresh
          /\ w'[x].pc = "fan" /\ w'[x].fresh /\ Put(n, k)
      BY <1>1, <1>7, <2>4, <3>1 DEF Fan, Running, CallOK
    <3>3. \A p \in Nodes : <<p, x>> \in net' <=> p # n
      BY <1>1, <2>4, <3>1, <3>2 DEF Fan, CallOK
    <3>4. Reached(x)' = {n}
      BY <3>2, <3>3 DEF Reached
    <3>5. Hits(k)' = Hits(k) /\ Fanned(k)' = Fanned(k) \cup {x} /\ x \notin Fanned(k)
      BY <1>3, <2>1, <3>2 DEF Hits, Fanned
    <3>6. \A y \in Fanned(k) \ {x} : Reached(y)' = Reached(y)
      BY <1>4, <2>1 DEF Fanned, Reached
    <3>7. /\ <<x, n>> \notin Copies(k) /\ Copies(k)' = Copies(k) \cup {<<x, n>>}
          /\ Hits(k)' = Hits(k) /\ Homes(k)' = Homes(k) \cup {n}
      BY <1>7, <3>2, <3>4, <3>5, <3>6, FanGives
    <3>8. (IsFiniteSet(Tokens(k)) => Tally(k, 1)) /\ \A p \in Nodes : Has(p, k)' <=> Has(p, k) \/ p = n
      BY <1>1, <3>2, PutTokens
    <3> QED BY <1>2, <3>2, <3>7, <3>8, AccountGain
  <2>5. CASE \E n \in Nodes : PutFragment(n, x)
    <3>1. PICK n \in Nodes : PutFragment(n, x)
      BY <2>5
    <3>2. /\ <<n, x>> \in net /\ Put(n, k)
          /\ \A p \in Nodes : <<p, x>> \in net' <=> <<p, x>> \in net /\ p # n
      BY <1>7, <3>1 DEF PutFragment
    <3>3. w[x].pc \notin {"new", "sealed"} /\ w[x].fresh /\ w[x] \in Running
      BY <1>1, <3>2 DEF CallOK
    <3>4. w'[x].pc = w[x].pc /\ w'[x].fresh = w[x].fresh
      BY <1>1, <3>1, <3>3 DEF PutFragment, Running
    <3>5. n \notin Reached(x) /\ Reached(x)' = Reached(x) \cup {n}
      BY <3>2 DEF Reached
    <3>6. Hits(k)' = Hits(k) /\ Fanned(k)' = Fanned(k) \cup {x} /\ x \in Fanned(k)
      BY <1>3, <2>1, <3>3, <3>4 DEF Hits, Fanned
    <3>7. \A y \in Fanned(k) \ {x} : Reached(y)' = Reached(y)
      BY <1>4, <2>1 DEF Fanned, Reached
    <3>8. /\ <<x, n>> \notin Copies(k) /\ Copies(k)' = Copies(k) \cup {<<x, n>>}
          /\ Hits(k)' = Hits(k) /\ Homes(k)' = Homes(k) \cup {n}
      BY <1>7, <3>5, <3>6, <3>7, FanGives
    <3>9. (IsFiniteSet(Tokens(k)) => Tally(k, 1)) /\ \A p \in Nodes : Has(p, k)' <=> Has(p, k) \/ p = n
      BY <1>1, <3>2, PutTokens
    <3> QED BY <1>2, <3>8, <3>9, AccountGain
  <2> QED BY <2>2, <2>3, <2>4, <2>5
<1> QED BY <1>6, <1>7

(* So does every delete's step. *)
LEMMA DeleteAccount ==
  ASSUME RefsInv, CallsOK, TablesOK, NEW k \in Chunks, Accounted(k), NEW x \in Comps,
         \/ \E n \in Nodes : Delete(x, n) \/ DeleteFragment(x, n) \/ DeleteFragmentFails(x, n)
         \/ \E r \in Replicas : DecrementCluster(x, r)
         \/ DecrementFails(x)
  PROVE  Accounted(k)'
<1>1. /\ d \in [Comps -> Deletion] /\ LocalOK /\ c(x) \in Chunks /\ TypeOK
  BY ChunkRefsAssumption DEF RefsInv, TypeOK, LocalOK, c
<1>2. w' = w /\ net' = net
  BY DEF Delete, DeleteFragment, DeleteFragmentFails, DecrementCluster, DecrementFails
<1>3. Still(k)
  BY <1>2, StillIs
<1>4. \A y \in Comps \ {x} : d'[y] = d[y]
  BY <1>1 DEF Delete, DeleteFragment, DeleteFragmentFails, DecrementCluster, DecrementFails
<1>5. log' = log \/ \E cmd \in Command : log' = Append(log, cmd)
  <2>1. CASE \E r \in Replicas : DecrementCluster(x, r)
    <3>1. [op |-> "decrement", comp |-> x, chunk |-> c(x)] \in Command
      BY <1>1 DEF Command
    <3> QED BY <2>1, <3>1 DEF DecrementCluster
  <2>2. CASE \/ \E n \in Nodes : Delete(x, n) \/ DeleteFragment(x, n) \/ DeleteFragmentFails(x, n)
             \/ DecrementFails(x)
    BY <2>2 DEF Delete, DeleteFragment, DeleteFragmentFails, DecrementFails, raft
  <2> QED BY <2>1, <2>2
<1>6. Settled(k, Len(log)) => Settled(k, Len(log))'
  BY <1>5, SettledKept
<1>7. ASSUME k # c(x) PROVE Accounted(k)'
  <2>1. \A y \in Uses(k) : d'[y] = d[y]
    BY <1>4, <1>7 DEF Uses
  <2>2. local' = local \/ \E n \in Nodes, j \in Chunks \ {k} : Put(n, j) \/ Drop(n, j)
    BY <1>1, <1>7 DEF Delete, DeleteFragment, DeleteFragmentFails, DecrementCluster, DecrementFails
  <2>3. Tokens(k)' = Tokens(k) /\ \A p \in Nodes : Has(p, k)' => Has(p, k)
    BY <1>1, <2>2, StoreElsewhere
  <2> QED BY <1>3, <1>6, <2>1, <2>3, AccountSame
<1>8. ASSUME k = c(x) PROVE Accounted(k)'
  <2>1. CASE \E n \in Nodes : Delete(x, n)
    BY <1>1, <1>3, <1>8, <2>1, AccountDelete
  <2>2. CASE \E n \in Nodes : DeleteFragment(x, n) \/ DeleteFragmentFails(x, n)
    <3>1. PICK n \in Nodes : DeleteFragment(x, n) \/ DeleteFragmentFails(x, n)
      BY <2>2
    <3>2. /\ d[x].pc = "fan" /\ n \in d[x].todo /\ d' = [d EXCEPT ![x] = Sent(d[x], n)] /\ log' = log
          /\ Drop(n, k) \/ local' = local
      BY <1>8, <3>1 DEF DeleteFragment, DeleteFragmentFails, raft
    <3> QED BY <1>1, <1>3, <1>8, <3>2, AccountFragment
  <2>3. CASE DecrementFails(x)
    <3>1. d[x].pc = "dec" /\ d' = [d EXCEPT ![x] = Done] /\ local' = local
      BY <2>3 DEF DecrementFails
    <3> QED BY <1>1, <1>3, <1>6, <1>8, <3>1, AccountDone
  <2>4. CASE \E r \in Replicas : DecrementCluster(x, r)
    <3>1. PICK r \in Replicas : DecrementCluster(x, r)
      BY <2>4
    <3>2. d[x].pc = "dec" /\ local' = local
      BY <3>1 DEF DecrementCluster
    <3>3. CASE TombstonedNow(Machine(r), k)
      <4>1. d' = [d EXCEPT ![x] = [pc |-> "fan", todo |-> Nodes \ {d[x].via}]]
        BY <1>8, <3>1, <3>3 DEF DecrementCluster
      <4>2. ~Settled(k, Len(log)) /\ Settled(k, Len(log))'
        BY <1>8, <3>1, <3>3, TombstoneIsFirst
      <4> QED BY <1>1, <1>3, <1>8, <3>2, <4>1, <4>2, AccountTombstone
    <3>4. CASE ~TombstonedNow(Machine(r), k)
      <4>1. d' = [d EXCEPT ![x] = Done]
        BY <1>8, <3>1, <3>4 DEF DecrementCluster
      <4> QED BY <1>1, <1>3, <1>6, <1>8, <3>2, <4>1, AccountDone
    <3> QED BY <3>3, <3>4
  <2> QED BY <2>1, <2>2, <2>3, <2>4
<1> QED BY <1>7, <1>8

(* And the steps of replicas, of gc and of the scrub. *)
LEMMA OtherAccount ==
  ASSUME RefsInv, CallsOK, NEW k \in Chunks, Accounted(k),
         \/ \E n \in Nodes : Gc(n)
         \/ \E n \in Replicas : Apply(n)
         \/ \E x \in Comps : CommitCreate(x)
         \/ \E n \in Replicas, j \in Chunks, p \in Nodes : Repair(n, j, p)
         \/ UNCHANGED vars
  PROVE  Accounted(k)'
<1>1. LocalOK
  BY DEF RefsInv, TypeOK, LocalOK
<1>2. w' = w /\ net' = net /\ d' = d
  BY DEF Gc, Apply, CommitCreate, Repair, vars
<1>3. Still(k)
  BY <1>2, StillIs
<1>4. log' = log \/ \E cmd \in Command : log' = Append(log, cmd)
  <2>1. CASE \E x \in Comps : CommitCreate(x)
    <3>1. \A x \in Comps : [op |-> "create", comp |-> x, chunk |-> c(x)] \in Command
      BY ChunkRefsAssumption DEF Command, c
    <3> QED BY <2>1, <3>1 DEF CommitCreate
  <2>2. CASE ~\E x \in Comps : CommitCreate(x)
    BY <2>2 DEF Gc, Apply, Repair, vars, raft
  <2> QED BY <2>1, <2>2
<1>5. Settled(k, Len(log)) => Settled(k, Len(log))'
  BY <1>4, SettledKept
<1>6. ASSUME Tokens(k)' = Tokens(k) /\ \A p \in Nodes : Has(p, k)' => Has(p, k) PROVE Accounted(k)'
  BY <1>2, <1>3, <1>5, <1>6, AccountSame
<1>7. CASE \E n \in Nodes : Gc(n)
  BY <1>1, <1>6, <1>7, GcTokens
<1>8. CASE (\E n \in Replicas : Apply(n)) \/ (\E x \in Comps : CommitCreate(x)) \/ UNCHANGED vars
  <2>1. local' = local
    BY <1>8 DEF Apply, CommitCreate, vars
  <2> QED BY <1>1, <1>6, <2>1, StoreElsewhere
<1>9. CASE \E n \in Replicas, j \in Chunks, p \in Nodes : Repair(n, j, p)
  <2>1. PICK j \in Chunks, p \in Nodes : \E n \in Replicas : Repair(n, j, p)
    BY <1>9
  <2>2. Put(p, j) /\ log' = log
    BY <2>1 DEF Repair, raft
  <2>3. CASE j # k
    BY <1>1, <1>6, <2>2, <2>3, StoreElsewhere
  <2>4. CASE j = k
    <3>1. (IsFiniteSet(Tokens(k)) => Tally(k, 1)) /\ \A q \in Nodes : Has(q, k)' <=> Has(q, k) \/ q = p
      BY <1>1, <2>2, <2>4, PutTokens
    <3> QED BY <1>2, <1>3, <2>2, <3>1, AccountRepair
  <2> QED BY <2>3, <2>4
<1> QED BY <1>7, <1>8, <1>9

(* No step leaves the account, while no snapshot is installed. *)
LEMMA NextCopies ==
  ASSUME RefsInv, CopiesInv, [Next]_vars
  PROVE  CopiesInv'
<1>1. TypeOK /\ CallsOK /\ d \in [Comps -> Deletion]
  BY DEF RefsInv, TypeOK, CopiesInv
<1>2. CASE \E x \in Comps :
             \/ \E n \in Nodes : Hit(x, n) \/ Miss(x, n) \/ PutFragment(n, x)
             \/ Fan(x) \/ FanDone(x) \/ FanFails(x) \/ Ack(x)
  <2>1. CallsOK'
    BY <1>1, <1>2, WriteCalls
  <2>2. installed' = installed
    BY <1>2 DEF Hit, Miss, PutFragment, Fan, FanDone, FanFails, Ack, raft
  <2>3. ~installed => \A k \in Chunks : Accounted(k)'
    BY <1>1, <1>2, WriteAccount DEF CopiesInv
  <2>4. ~installed => installed' \/ TablesOK'
    BY NextTables DEF CopiesInv
  <2> QED BY <2>1, <2>2, <2>3, <2>4 DEF CopiesInv
<1>3. CASE \E x \in Comps :
             \/ \E n \in Nodes : Delete(x, n) \/ DeleteFragment(x, n) \/ DeleteFragmentFails(x, n)
             \/ \E r \in Replicas : DecrementCluster(x, r)
             \/ DecrementFails(x)
  <2>1. PICK x \in Comps :
             \/ \E n \in Nodes : Delete(x, n) \/ DeleteFragment(x, n) \/ DeleteFragmentFails(x, n)
             \/ \E r \in Replicas : DecrementCluster(x, r)
             \/ DecrementFails(x)
    BY <1>3
  <2>2. /\ w' = w /\ net' = net /\ installed' = installed
        /\ \A y \in Comps \ {x} : d'[y] = d[y]
        /\ d[x].pc # "no" \/ w[x].pc = "acked"
    BY <1>1, <2>1 DEF Delete, DeleteFragment, DeleteFragmentFails, DecrementCluster, DecrementFails, raft
  <2>3. CallsOK'
    BY <1>1, <2>2, DeleteCalls
  <2>4. ~installed => \A k \in Chunks : Accounted(k)'
    BY <1>1, <2>1, DeleteAccount DEF CopiesInv
  <2>5. ~installed => installed' \/ TablesOK'
    BY NextTables DEF CopiesInv
  <2> QED BY <2>2, <2>3, <2>4, <2>5 DEF CopiesInv
<1>4. CASE \/ \E n \in Nodes : Gc(n)
           \/ \E n \in Replicas : Apply(n)
           \/ \E x \in Comps : CommitCreate(x)
           \/ \E n \in Replicas, j \in Chunks, p \in Nodes : Repair(n, j, p)
           \/ UNCHANGED vars
  <2>1. w' = w /\ net' = net /\ d' = d /\ installed' = installed
    BY <1>4 DEF Gc, Apply, CommitCreate, Repair, vars, raft
  <2>2. CallsOK'
    BY <1>1, <2>1, DeleteCalls
  <2>3. ~installed => \A k \in Chunks : Accounted(k)'
    BY <1>1, <1>4, OtherAccount DEF CopiesInv
  <2>4. ~installed => installed' \/ TablesOK'
    BY NextTables DEF CopiesInv
  <2> QED BY <2>1, <2>2, <2>3, <2>4 DEF CopiesInv
<1>5. CASE \E n \in Replicas : InstallSnapshot(n)
  <2>1. w' = w /\ net' = net /\ d' = d /\ installed'
    BY <1>5 DEF InstallSnapshot
  <2>2. CallsOK'
    BY <1>1, <2>1, DeleteCalls
  <2> QED BY <2>1, <2>2 DEF CopiesInv
<1> QED BY <1>2, <1>3, <1>4, <1>5 DEF Next

(* At first there is nothing to account for. *)
LEMMA InitCopies ==
  ASSUME Init
  PROVE  CopiesInv
<1>1. /\ \A x \in Comps : w[x].pc = "new" /\ d[x].pc = "no"
      /\ net = {} /\ log = <<>> /\ Len(log) = 0
      /\ \A n \in Nodes : DOMAIN local[n] = {}
      /\ \A n \in Replicas : DOMAIN table[n] = {} /\ applied[n] = 0
  BY DEF Init
<1>2. CallsOK
  <2>1. {x \in Comps : w[x].pc # "new"} = {}
    BY <1>1
  <2>2. IsFiniteSet({x \in Comps : w[x].pc # "new"})
    BY <2>1, FS_EmptySet
  <2> QED BY <1>1, <2>2 DEF CallsOK, CallOK
<1>3. TablesOK
  BY <1>1 DEF TablesOK, Settled
<1>4. ASSUME NEW k \in Chunks PROVE Accounted(k)
  <2>1. Hits(k) = {} /\ Fanned(k) = {}
    BY <1>1 DEF Hits, Fanned, Uses
  <2>2. Copies(k) = {}
    BY <2>1 DEF Copies
  <2>3. \A n \in Nodes : ~Has(n, k) /\ Count(n, k) = 0
    BY <1>1 DEF Has, Count
  <2>4. Tokens(k) = {}
    BY <2>3 DEF Tokens
  <2>5. IsFiniteSet({}) /\ Cardinality({}) = 0
    BY FS_EmptySet
  <2>6. Balanced(k, {}, {}, {})
    BY <2>1, <2>2, <2>3, <2>4, <2>5 DEF Balanced
  <2>7. Spared(k, {}, {}, {})
    BY <1>1 DEF Spared, Uses
  <2> QED BY <2>6, <2>7 DEF Accounted
<1> QED BY <1>2, <1>3, <1>4 DEF CopiesInv

(* The references of every chunk are accounted for, for any number of nodes    *)
(* and any quorum, as long as no replica skipped commands with a snapshot:     *)
(* what the local stores count is what writes, hits and scrubs put there less  *)
(* one for each delete and each node of the one tombstone's DeleteFragment.    *)
THEOREM CopiesInvariant == Spec => []CopiesInv
<1>1. Init => CopiesInv
  BY InitCopies
<1>2. RefsInv /\ CopiesInv /\ [Next]_vars => CopiesInv'
  BY NextCopies
<1> QED
  BY <1>1, <1>2, RefsInvariant, PTL DEF Spec

-----------------------------------------------------------------------------
(* Where the account leaves a reference. *)

(* A fanned write that was acknowledged has a copy at its own node. *)
LEMMA OwnCopies ==
  ASSUME TypeOK, CallsOK, NEW k, NEW S, S \subseteq Fanned(k)
  PROVE  /\ IsFiniteSet({<<y, w[y].at>> : y \in S})
         /\ Cardinality({<<y, w[y].at>> : y \in S}) = Cardinality(S)
         /\ {<<y, w[y].at>> : y \in S} \subseteq Copies(k)
<1>1. PICK T, f : T = {<<y, w[y].at>> : y \in S} /\ f = [y \in S |-> <<y, w[y].at>>]
  OBVIOUS
<1>2. IsFiniteSet(S)
  <2>1. S \subseteq {x \in Comps : w[x].pc # "new"}
    BY DEF Fanned, Uses
  <2> QED BY <2>1, FS_Subset DEF CallsOK
<1>3. f \in [S -> T] /\ (\A a, b \in S : f[a] = f[b] => a = b) /\ \A t \in T : \E s \in S : f[s] = t
  BY <1>1
<1>4. ExistsBijection(S, T)
  <2>1. f \in Injection(S, T)
    BY <1>3 DEF Injection, IsInjective
  <2>2. f \in Surjection(S, T)
    BY <1>3 DEF Surjection
  <2> QED BY <2>1, <2>2 DEF ExistsBijection, Bijection
<1>5. IsFiniteSet(T) /\ Cardinality(T) = Cardinality(S)
  BY <1>2, <1>4, FS_Bijection
<1>6. \A y \in S : w[y].at \in Reached(y) /\ w[y].at \in Nodes
  <2>1. TAKE y \in S
  <2>2. y \in Comps /\ w[y].pc \notin {"new", "sealed"} /\ CallOK(y)
    BY DEF Fanned, Uses, CallsOK
  <2>3. w[y].at \in Nodes
    BY <2>2 DEF TypeOK, Write
  <2> QED BY <2>2, <2>3 DEF CallOK, Reached
<1>7. T \subseteq Copies(k)
  BY <1>1, <1>6 DEF Copies
<1> QED BY <1>1, <1>5, <1>7

(* There are no more homes than copies. *)
LEMMA HomesBound ==
  ASSUME CallsOK, NEW k
  PROVE  Cardinality(Homes(k)) <= Cardinality(Copies(k))
<1>1. PICK f : f = [e \in Copies(k) |-> e[2]]
  OBVIOUS
<1>2. \A e \in Copies(k) : e[2] \in Homes(k)
  BY DEF Copies, Homes
<1>3. \A p \in Homes(k) : \E e \in Copies(k) : e[2] = p
  <2>1. TAKE p \in Homes(k)
  <2>2. PICK y \in Fanned(k) : p \in Reached(y) /\ p \in Nodes
    BY DEF Homes
  <2>3. <<y, p>> \in Copies(k) /\ <<y, p>>[2] = p
    BY <2>2 DEF Copies
  <2> QED BY <2>3
<1>4. f \in Surjection(Copies(k), Homes(k))
  BY <1>1, <1>2, <1>3 DEF Surjection
<1>5. IsFiniteSet(Copies(k))
  BY AccountFinite
<1> QED BY <1>4, <1>5, FS_Surjection

(* Two acknowledged fans are on a quorum each, the others on their own nodes.  *)
LEMMA TwoFans ==
  ASSUME TypeOK, CallsOK, NEW k, NEW F, F \subseteq Fanned(k), NEW a \in F, NEW b \in F, a # b,
         w[a].pc = "acked", w[b].pc = "acked"
  PROVE  Cardinality(Copies(k)) + 2 >= Cardinality(F) + 2 * Need
<1>1. PICK S, A, B, T : /\ S = F \ {a, b} /\ A = {a} \X Reached(a) /\ B = {b} \X Reached(b)
                        /\ T = {<<y, w[y].at>> : y \in S}
  OBVIOUS
<1>2. /\ a \in Comps /\ w[a].fresh /\ CallOK(a) /\ a \in Fanned(k)
      /\ b \in Comps /\ w[b].fresh /\ CallOK(b) /\ b \in Fanned(k)
  BY DEF Fanned, Uses, CallsOK
<1>3. /\ IsFiniteSet(Reached(a)) /\ Cardinality(Reached(a)) \in Nat /\ Cardinality(Reached(a)) >= Need
      /\ IsFiniteSet(Reached(b)) /\ Cardinality(Reached(b)) \in Nat /\ Cardinality(Reached(b)) >= Need
      /\ Need \in Nat
  BY <1>2, ReachedIs DEF CallOK
<1>4. \A q : IsFiniteSet({q}) /\ Cardinality({q}) = 1
  BY FS_Singleton
<1>5. /\ IsFiniteSet(A) /\ Cardinality(A) = Cardinality(Reached(a))
      /\ IsFiniteSet(B) /\ Cardinality(B) = Cardinality(Reached(b))
  <2>1. IsFiniteSet(A) /\ Cardinality(A) = Cardinality({a}) * Cardinality(Reached(a))
    BY <1>1, <1>3, <1>4, FS_Product
  <2>2. IsFiniteSet(B) /\ Cardinality(B) = Cardinality({b}) * Cardinality(Reached(b))
    BY <1>1, <1>3, <1>4, FS_Product
  <2>3. PICK ra, rb : ra = Cardinality(Reached(a)) /\ rb = Cardinality(Reached(b))
    OBVIOUS
  <2>4. ra \in Nat /\ rb \in Nat /\ 1 * ra = ra /\ 1 * rb = rb
    BY <1>3, <2>3
  <2>5. Cardinality({a}) = 1 /\ Cardinality({b}) = 1
    BY <1>4
  <2> QED BY <2>1, <2>2, <2>3, <2>4, <2>5
<1>6. S \subseteq Fanned(k)
  BY <1>1
<1>7. IsFiniteSet(T) /\ Cardinality(T) = Cardinality(S) /\ T \subseteq Copies(k)
  BY <1>1, <1>6, OwnCopies
<1>8. IsFiniteSet(F) /\ Cardinality(F) \in Nat /\ IsFiniteSet(S) /\ Cardinality(F) = Cardinality(S) + 2 /\ Cardinality(S) \in Nat
  <2>1. F \subseteq {x \in Comps : w[x].pc # "new"}
    BY DEF Fanned, Uses
  <2>2. IsFiniteSet(F)
    BY <2>1, FS_Subset DEF CallsOK
  <2>3. S = (F \ {a}) \ {b}
    BY <1>1
  <2>4. IsFiniteSet(F \ {a}) /\ Cardinality(F \ {a}) = Cardinality(F) - 1
    BY <2>2, FS_RemoveElement
  <2>5. b \in F \ {a}
    OBVIOUS
  <2>6. IsFiniteSet(S) /\ Cardinality(S) = Cardinality(F \ {a}) - 1
    BY <2>3, <2>4, <2>5, FS_RemoveElement
  <2>7. Cardinality(F) \in Nat /\ Cardinality(S) \in Nat
    BY <2>2, <2>6, FS_CardinalityType
  <2> QED BY <2>2, <2>4, <2>6, <2>7
<1>9. A \subseteq Copies(k) /\ B \subseteq Copies(k)
  BY <1>1, <1>2 DEF Copies, Reached
<1>10. A \cap B = {} /\ (A \cup B) \cap T = {}
  BY <1>1
<1>11. Cardinality(A \cap B) = 0 /\ Cardinality((A \cup B) \cap T) = 0
  BY <1>10, FS_EmptySet
<1>12. IsFiniteSet(A \cup B) /\ Cardinality(A \cup B) = Cardinality(A) + Cardinality(B) - Cardinality(A \cap B)
  BY <1>5, FS_Union
<1>13. /\ IsFiniteSet((A \cup B) \cup T)
       /\ Cardinality((A \cup B) \cup T) = Cardinality(A \cup B) + Cardinality(T) - Cardinality((A \cup B) \cap T)
  BY <1>7, <1>12, FS_Union
<1>14. (A \cup B) \cup T \in SUBSET Copies(k) /\ IsFiniteSet(Copies(k)) /\ Cardinality(Copies(k)) \in Nat
  BY <1>7, <1>9, AccountFinite
<1>15. Cardinality((A \cup B) \cup T) <= Cardinality(Copies(k))
  BY <1>14, FS_Subset
<1>16. PICK ra, rb, s, f, ca, u :
         /\ ra = Cardinality(Reached(a)) /\ rb = Cardinality(Reached(b)) /\ s = Cardinality(S)
         /\ f = Cardinality(F) /\ ca = Cardinality(Copies(k)) /\ u = Cardinality((A \cup B) \cup T)
  OBVIOUS
<1>17. ra \in Nat /\ rb \in Nat /\ s \in Nat /\ f \in Nat /\ ca \in Nat
  BY <1>3, <1>8, <1>14, <1>16
<1>18. u = ra + rb + s
  <2>1. Cardinality(A) = ra /\ Cardinality(B) = rb /\ Cardinality(T) = s
    BY <1>5, <1>7, <1>16, <1>17
  <2>2. Cardinality(A \cup B) = ra + rb
    BY <1>11, <1>12, <1>17, <2>1
  <2> QED BY <1>11, <1>13, <1>16, <1>17, <2>1, <2>2
<1>19. u <= ca /\ f = s + 2 /\ ra >= Need /\ rb >= Need /\ Need \in Nat
  BY <1>3, <1>8, <1>15, <1>16
<1>20. ca + 2 >= f + 2 * Need
  BY <1>17, <1>18, <1>19
<1> QED BY <1>16, <1>20

(* The hits and the acknowledged fans of a chunk are no fewer than its deletes *)
(* and one live composition.                                                  *)
LEMMA UsesBound ==
  ASSUME TypeOK, CallsOK, NEW x \in Comps, Live(x), NEW k, k = c(x), NEW F,
         F = (Deleted(k) \cup {x}) \ Hits(k)
  PROVE  /\ F \subseteq Fanned(k) /\ \A y \in F : w[y].pc = "acked"
         /\ IsFiniteSet(F) /\ Cardinality(F) \in Nat /\ Cardinality(Deleted(k)) \in Nat
         /\ Cardinality(Hits(k)) + Cardinality(F) >= Cardinality(Deleted(k)) + 1
<1>1. PICK D, U, H : D = Deleted(k) /\ U = D \cup {x} /\ H = Hits(k)
  OBVIOUS
<1>2. x \notin D /\ w[x].pc = "acked" /\ x \in Uses(k)
  BY <1>1 DEF Live, Deleted, Uses
<1>3. \A y \in U : y \in Uses(k) /\ y \in Comps /\ w[y].pc = "acked"
  BY <1>1, <1>2 DEF Deleted, Uses, CallsOK, CallOK
<1>4. F \subseteq Fanned(k) /\ \A y \in F : w[y].pc = "acked"
  BY <1>1, <1>3 DEF Hits, Fanned
<1>5. IsFiniteSet(D) /\ Cardinality(D) \in Nat /\ IsFiniteSet(H) /\ Cardinality(H) \in Nat
  BY <1>1, AccountFinite
<1>6. IsFiniteSet(U) /\ Cardinality(U) = Cardinality(D) + 1
  BY <1>1, <1>2, <1>5, FS_AddElement
<1>7. U \subseteq H \cup F /\ F \subseteq U
  BY <1>1
<1>8. IsFiniteSet(F) /\ Cardinality(F) \in Nat
  BY <1>6, <1>7, FS_Subset, FS_CardinalityType
<1>9. IsFiniteSet(H \cup F) /\ Cardinality(H \cup F) = Cardinality(H) + Cardinality(F) - Cardinality(H \cap F)
  BY <1>5, <1>8, FS_Union
<1>10. IsFiniteSet(H \cap F) /\ Cardinality(H \cap F) \in Nat
  <2>1. H \cap F \in SUBSET F
    OBVIOUS
  <2> QED BY <1>8, <2>1, FS_Subset, FS_CardinalityType
<1>11. Cardinality(U) <= Cardinality(H \cup F)
  BY <1>7, <1>9, FS_Subset
<1>12. Cardinality(H) + Cardinality(F) >= Cardinality(D) + 1
  <2>1. PICK h, f, q, g : /\ h = Cardinality(H) /\ f = Cardinality(F) /\ q = Cardinality(D)
                          /\ g = Cardinality(H \cap F)
    OBVIOUS
  <2>2. h \in Nat /\ f \in Nat /\ q \in Nat /\ g \in Nat /\ q + 1 <= h + f - g
    BY <1>5, <1>6, <1>8, <1>9, <1>10, <1>11, <2>1
  <2>3. h + f >= q + 1
    BY <2>2
  <2> QED BY <2>1, <2>3
<1> QED BY <1>1, <1>4, <1>5, <1>8, <1>12

(* The nodes that lost a copy to the tombstone's fan, and the node it spared.  *)
LEMMA SparedBound ==
  ASSUME CallsOK, NEW k, NEW M \in SUBSET Nodes, NEW R \in SUBSET Nodes,
         NEW v \in Nodes \ M, M \subseteq Homes(k) \cup R
  PROVE  /\ Cardinality(M) + 1 <= Cardinality(Nodes)
         /\ Cardinality(M) <= Cardinality(Copies(k)) + Cardinality(R)
         /\ v \in Homes(k) \cup R => Cardinality(M) + 1 <= Cardinality(Copies(k)) + Cardinality(R)
<1>1. PICK H, Q, N : H = Homes(k) /\ Q = H \cup R /\ N = M \cup {v}
  OBVIOUS
<1>2. H \in SUBSET Nodes /\ Q \in SUBSET Nodes /\ N \in SUBSET Nodes
  BY <1>1 DEF Homes
<1>3. /\ IsFiniteSet(H) /\ Cardinality(H) \in Nat /\ IsFiniteSet(Q) /\ Cardinality(Q) \in Nat
      /\ IsFiniteSet(M) /\ Cardinality(M) \in Nat /\ IsFiniteSet(R) /\ Cardinality(R) \in Nat
      /\ IsFiniteSet(Nodes) /\ Cardinality(Nodes) \in Nat
      /\ Cardinality(Copies(k)) \in Nat
  BY <1>2, AccountFinite
<1>4. Cardinality(N) = Cardinality(M) + 1
  BY <1>1, <1>3, FS_AddElement
<1>5. Cardinality(N) <= Cardinality(Nodes)
  BY <1>2, <1>3, FS_Subset
<1>6. Cardinality(Q) <= Cardinality(H) + Cardinality(R)
  <2>1. Cardinality(Q) = Cardinality(H) + Cardinality(R) - Cardinality(H \cap R)
    BY <1>1, <1>3, FS_Union
  <2>2. H \cap R \in SUBSET R
    OBVIOUS
  <2>3. Cardinality(H \cap R) \in Nat
    BY <1>3, <2>2, FS_Subset, FS_CardinalityType
  <2> QED BY <1>3, <2>1, <2>3
<1>7. Cardinality(H) <= Cardinality(Copies(k))
  BY <1>1, HomesBound
<1>8. Cardinality(Q) <= Cardinality(Copies(k)) + Cardinality(R)
  BY <1>3, <1>6, <1>7
<1>9. Cardinality(M) <= Cardinality(Q)
  BY <1>1, <1>3, FS_Subset
<1>10. v \in Q => Cardinality(N) <= Cardinality(Q)
  <2>1. v \in Q => N \in SUBSET Q
    BY <1>1
  <2> QED BY <1>3, <2>1, FS_Subset
<1> QED BY <1>1, <1>3, <1>4, <1>5, <1>8, <1>9, <1>10

(* With quorums of a majority, the account of a live composition's chunk shows *)
(* a reference.                                                               *)
LEMMA TokenLeft ==
  ASSUME TypeOK, CallsOK, 2 * Need > Cardinality(Nodes), NEW x \in Comps, Live(x), Accounted(c(x))
  PROVE  Tokens(c(x)) # {}
<1>1. PICK k : k = c(x)
  OBVIOUS
<1>2. PICK E \in SUBSET Deleted(k), M \in SUBSET Nodes, R \in SUBSET Nodes :
        Balanced(k, E, M, R) /\ Spared(k, E, M, R)
  BY <1>1 DEF Accounted
<1>3. PICK F : F = (Deleted(k) \cup {x}) \ Hits(k)
  OBVIOUS
<1>4. /\ F \subseteq Fanned(k) /\ \A y \in F : w[y].pc = "acked"
      /\ IsFiniteSet(F) /\ Cardinality(F) \in Nat /\ Cardinality(Deleted(k)) \in Nat
      /\ Cardinality(Hits(k)) + Cardinality(F) >= Cardinality(Deleted(k)) + 1
  BY <1>1, <1>3, UsesBound
<1>5. PICK t, e, m, r, ca, ha, f, q, nn :
        /\ t = Cardinality(Tokens(k)) /\ e = Cardinality(E) /\ m = Cardinality(M) /\ r = Cardinality(R)
        /\ ca = Cardinality(Copies(k)) /\ ha = Cardinality(Hits(k)) /\ f = Cardinality(F)
        /\ q = Cardinality(Deleted(k)) /\ nn = Cardinality(Nodes)
  OBVIOUS
<1>6. /\ t \in Nat /\ e \in Nat /\ m \in Nat /\ r \in Nat /\ ca \in Nat /\ ha \in Nat /\ f \in Nat
      /\ q \in Nat /\ nn \in Nat /\ Need \in Nat /\ IsFiniteSet(Deleted(k))
  <2>1. t \in Nat
    BY <1>2, <1>5, FS_CardinalityType DEF Balanced
  <2>2. e \in Nat /\ m \in Nat /\ r \in Nat /\ ca \in Nat /\ ha \in Nat /\ nn \in Nat /\ IsFiniteSet(Deleted(k))
    BY <1>2, <1>5, AccountFinite
  <2>3. Need \in Nat
    BY ReachedIs
  <2> QED BY <1>4, <1>5, <2>1, <2>2, <2>3
<1>7. t + e + m >= ca + ha + r /\ ha + f >= q + 1 /\ 2 * Need > nn
  BY <1>2, <1>4, <1>5 DEF Balanced
<1>8. e <= q
  BY <1>2, <1>5, <1>6, FS_Subset
<1>9. f <= ca
  <2>1. PICK T : T = {<<y, w[y].at>> : y \in F}
    OBVIOUS
  <2>2. Cardinality(T) = Cardinality(F) /\ T \in SUBSET Copies(k)
    BY <1>4, <2>1, OwnCopies
  <2>3. IsFiniteSet(Copies(k))
    BY AccountFinite
  <2>4. Cardinality(T) <= Cardinality(Copies(k))
    BY <2>2, <2>3, FS_Subset
  <2> QED BY <1>5, <2>2, <2>4
<1>10. t >= 1
  <2>1. CASE M = {}
    <3>1. m = 0
      BY <1>5, <2>1, FS_EmptySet
    <3> QED BY <1>6, <1>7, <1>8, <1>9, <3>1
  <2>2. CASE M # {}
    <3>1. PICK z \in Deleted(k), v \in Nodes \ M : z \in E => v \in Homes(k) \cup R
      BY <1>2, <2>2 DEF Spared
    <3>2. M \subseteq Homes(k) \cup R
      BY <1>2 DEF Balanced
    <3>3. m + 1 <= nn /\ m <= ca + r /\ (v \in Homes(k) \cup R => m + 1 <= ca + r)
      BY <1>2, <1>5, <3>1, <3>2, SparedBound
    <3>4. CASE \E a, b \in F : a # b
      <4>1. ca + 2 >= f + 2 * Need
        BY <1>4, <1>5, <3>4, TwoFans
      <4> QED BY <1>6, <1>7, <1>8, <3>3, <4>1
    <3>5. CASE ~\E a, b \in F : a # b
      <4>1. f <= 1
        <5>1. CASE F = {}
          BY <1>5, <5>1, FS_EmptySet
        <5>2. CASE F # {}
          <6>1. PICK a \in F : TRUE
            BY <5>2
          <6>2. F = {a}
            BY <3>5, <6>1
          <6>3. Cardinality({a}) = 1
            BY FS_Singleton
          <6> QED BY <1>5, <6>2, <6>3
        <5> QED BY <5>1, <5>2
      <4>2. CASE z \in E
        BY <1>6, <1>7, <1>8, <3>1, <3>3, <4>1, <4>2
      <4>3. CASE z \notin E
        <5>1. E \in SUBSET (Deleted(k) \ {z})
          BY <1>2, <4>3
        <5>2. IsFiniteSet(Deleted(k) \ {z}) /\ Cardinality(Deleted(k) \ {z}) = q - 1
          BY <1>5, <1>6, <3>1, FS_RemoveElement
        <5>3. e <= q - 1
          BY <1>5, <5>1, <5>2, FS_Subset
        <5> QED BY <1>6, <1>7, <3>3, <4>1, <5>3
      <4> QED BY <4>2, <4>3
    <3> QED BY <3>4, <3>5
  <2> QED BY <2>1, <2>2
<1> QED BY <1>1, <1>5, <1>10, FS_EmptySet

(* With write quorums of a majority of the placement (1 of 1, 2 of 2, 2 of 3:  *)
(* the replicated strategies of defaults_for), the chunk of an acknowledged    *)
(* composition that nobody deleted is on some node with a reference, however   *)
(* writes, dedup hits, deletes of others, late and lost fragments, scrubs and  *)
(* gc interleave, unless a snapshot made the tables differ.                    *)
THEOREM LiveChunksStayReadable ==
  ASSUME 2 * Need > Cardinality(Nodes)
  PROVE  Spec => []StillReadable
<1>1. TypeOK /\ CopiesInv => StillReadable
  <2>1. SUFFICES ASSUME TypeOK, CopiesInv, ~installed, NEW x \in Comps, Live(x)
                 PROVE  Holders(c(x)) # {}
    BY DEF StillReadable
  <2>2. Accounted(c(x)) /\ CallsOK
    BY <2>1, ChunkRefsAssumption DEF CopiesInv, c
  <2>3. PICK t : t \in Tokens(c(x))
    BY <2>1, <2>2, TokenLeft
  <2>4. PICK n \in Nodes : 1..Count(n, c(x)) # {}
    BY <2>3 DEF Tokens
  <2>5. Has(n, c(x)) /\ local[n][c(x)] > 0
    <3>1. CASE ~Has(n, c(x))
      BY <2>4, <3>1 DEF Count
    <3>2. CASE Has(n, c(x))
      <4>1. local[n][c(x)] \in Nat
        BY <2>1, <3>2 DEF TypeOK, OnChunks, Has
      <4> QED BY <2>4, <3>2, <4>1 DEF Count
    <3> QED BY <3>1, <3>2
  <2> QED BY <2>5 DEF Holders
<1> QED
  BY <1>1, CopiesInvariant, RefsTypeCorrect, PTL

=============================================================================
