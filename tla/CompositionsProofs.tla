------------------------ MODULE CompositionsProofs ------------------------
(* Proofs about Compositions: the inductive invariant CompInv and, from it,  *)
(* every safety property of the composition stores, for every number of      *)
(* nodes, compositions and names, every window and every retry threshold.    *)
EXTENDS Compositions, FiniteSetTheorems, SequenceTheorems, WellFoundedInduction, TLAPS

-----------------------------------------------------------------------------
(* Partial functions.                                                        *)

(* The empty keyspace. *)
LEMMA EmptyIs == DOMAIN Empty = {} /\ \A S, T : PFun(Empty, S, T)
BY DEF Empty, PFun

(* What Bind, Drop and Over do to the keys. *)
LEMMA Keys ==
  /\ \A f, x, v : DOMAIN Bind(f, x, v) = DOMAIN f \cup {x}
  /\ \A f, K : DOMAIN Drop(f, K) = DOMAIN f \ K
  /\ \A f, g : DOMAIN Over(g, f) = DOMAIN g \cup DOMAIN f
BY DEF Bind, Drop, Over

(* Bind adds or replaces one key and nothing else. *)
LEMMA BindIs ==
  ASSUME NEW S, NEW T, NEW f, PFun(f, S, T), NEW x \in S, NEW v \in T
  PROVE  PFun(Bind(f, x, v), S, T)
BY DEF Bind, PFun

(* Drop removes keys and nothing else. *)
LEMMA DropIs ==
  ASSUME NEW S, NEW T, NEW f, PFun(f, S, T), NEW K
  PROVE  PFun(Drop(f, K), S, T)
BY DEF Drop, PFun

(* The puts of a batch over the rows. *)
LEMMA OverIs ==
  ASSUME NEW S, NEW T, NEW f, PFun(f, S, T), NEW g, PFun(g, S, T)
  PROVE  PFun(Over(g, f), S, T)
BY DEF Over, PFun

(* Unbinding a composition keeps the type of a name table. *)
LEMMA UnboundIs ==
  ASSUME NEW S, NEW T, NEW f, PFun(f, S, T), NEW x
  PROVE  PFun(Unbound(f, x), S, T)
BY DEF Unbound, PFun

(* An option read from a table is a value of the table. *)
LEMMA AtIs ==
  ASSUME NEW S, NEW T, NEW f, PFun(f, S, T), NEW x
  PROVE  At(f, x) \subseteq T
BY DEF At, PFun

(* Min of a nonempty set of naturals is its least element. *)
LEMMA MinIs ==
  ASSUME NEW S \in SUBSET Nat, S # {}
  PROVE  Min(S) \in S /\ \A y \in S : Min(S) <= y
<1>1. PICK x \in S : \A y \in S : ~(<<y, x>> \in OpToRel(<, Nat))
  BY WFMin, NatLessThanWellFounded
<1>2. \A y \in S : y \in Nat /\ ~(y < x)
  BY <1>1, Zenon DEF OpToRel
<1>3. x \in Nat /\ \A y \in S : x <= y
  BY <1>2
<1> QED
  BY <1>3 DEF Min

(* Max of a nonempty bounded one is its greatest: the distance to the bound    *)
(* is least there.                                                            *)
LEMMA MaxIs ==
  ASSUME NEW S \in SUBSET Nat, S # {}, NEW b \in Nat, \A y \in S : y <= b
  PROVE  Max(S) \in S /\ \A y \in S : y <= Max(S)
<1> DEFINE D == {d \in Nat : b - d \in S}
<1>1. \A y \in S : b - y \in D
  BY SMT
<1>2. D \in SUBSET Nat /\ D # {}
  BY <1>1
<1>3. Min(D) \in D /\ \A d \in D : Min(D) <= d
  BY <1>2, MinIs
<1> DEFINE x == b - Min(D)
<1>4. x \in S /\ \A y \in S : y <= x
  BY <1>1, <1>3
<1>5. \A y \in S : y \in Nat /\ x >= y
  BY <1>4
<1> HIDE DEF x
<1> QED
  BY <1>4, <1>5 DEF Max

(* The greater of two numbers. *)
LEMMA OfTwo ==
  ASSUME NEW a \in Nat, NEW b \in Nat
  PROVE  Max({a, b}) = IF a >= b THEN a ELSE b
BY DEF Max

(* The keyspace after a batch of writes has keys and values of its type: they *)
(* are the old ones or those of a write.                                      *)
LEMMA WrittenIs ==
  ASSUME NEW S, NEW T, NEW f, PFun(f, S, T), NEW b \in Nat, NEW I \in SUBSET (1 .. b),
         NEW key, NEW val, NEW cut,
         \A i \in I : key[i] \in S /\ val[i] \in T
  PROVE  PFun(Written(f, I, key, val, cut), S, T)
<1> DEFINE W(k) == {i \in I : key[i] = k \/ k \in cut[i]}
           D == {j \in DOMAIN f : W(j) = {}} \cup {j \in {key[i] : i \in I} : key[Max(W(j))] = j}
<1>0. \A i \in I : i \in Nat /\ i <= b
  OBVIOUS
<1>1. \A k : W(k) # {} => Max(W(k)) \in I
  <2> TAKE k
  <2> HAVE W(k) # {}
  <2>1. W(k) \in SUBSET Nat /\ \A y \in W(k) : y <= b
    BY <1>0
  <2> QED BY <2>1, MaxIs
<1>2. Written(f, I, key, val, cut) =
        [k \in D |-> IF W(k) = {} THEN f[k] ELSE val[Max(W(k))]]
  BY DEF Written
<1>3. \A j \in {key[i] : i \in I} : W(j) # {} /\ j \in S
  OBVIOUS
<1> HIDE DEF W
<1>4. D \subseteq S
  BY <1>3 DEF PFun
<1>5. \A k \in D : (IF W(k) = {} THEN f[k] ELSE val[Max(W(k))]) \in T
  BY <1>1, <1>3 DEF PFun
<1> QED BY <1>2, <1>4, <1>5 DEF PFun

-----------------------------------------------------------------------------
(* The durable storage.                                                      *)

(* The store of a fresh or wiped node. *)
LEMMA EmptyStorageIs ==
  StorageOK(EmptyStorage) /\ DOMAIN EmptyStorage.comps = {} /\ EmptyStorage.last = 0
BY EmptyIs, CompositionsAssumption DEF EmptyStorage, StorageOK, On, NoStuck, Stucks

(* put touches one row. *)
LEMMA PutIs ==
  ASSUME NEW s, StorageOK(s), NEW x \in Comps, NEW row \in Rows
  PROVE  /\ StorageOK(put(s, x, row)) /\ put(s, x, row).last = s.last
         /\ DOMAIN put(s, x, row).comps = DOMAIN s.comps \cup {x}
<1>1. PFun(Bind(s.comps, x, row), Comps, Rows)
  BY BindIs, Zenon DEF StorageOK
<1> QED BY <1>1, Keys DEF StorageOK, On, put

(* remove drops one row, whatever happens to its name. *)
LEMMA RemoveIs ==
  ASSUME NEW s, StorageOK(s), NEW x \in Comps
  PROVE  /\ StorageOK(remove(s, x)) /\ remove(s, x).last = s.last
         /\ DOMAIN remove(s, x).comps = DOMAIN s.comps \ {x}
<1>1. PFun(Drop(s.comps, {x}), Comps, Rows)
  BY DropIs, Zenon DEF StorageOK
<1>2. PFun(Drop(s.names, At(s.rev, x)), Names, Comps)
  BY DropIs, Zenon DEF StorageOK
<1>3. PFun(Drop(s.rev, {x}), Comps, Names)
  BY DropIs, Zenon DEF StorageOK
<1>4. PFun(Drop(s.seqs, At(s.rev, x)), Names, Nat)
  BY DropIs, Zenon DEF StorageOK
<1> QED BY <1>1, <1>2, <1>3, <1>4, Keys DEF StorageOK, On, remove

(* put_with_name adds one row. *)
LEMMA PutWithNameIs ==
  ASSUME NEW s, StorageOK(s), NEW x \in Comps, NEW k \in Names
  PROVE  /\ StorageOK(put_with_name(s, x, k)) /\ put_with_name(s, x, k).last = s.last
         /\ DOMAIN put_with_name(s, x, k).comps = DOMAIN s.comps \cup {x}
<1>1. PFun(Drop(s.rev, At(s.names, k)), Comps, Names)
  BY DropIs, Zenon DEF StorageOK
<1>2. PFun(Drop(s.seqs, {k}), Names, Nat)
  BY DropIs, Zenon DEF StorageOK
<1>3. PFun(Bind(s.comps, x, FALSE), Comps, Rows)
  <2>1. FALSE \in Rows
    BY DEF Rows
  <2> QED BY <2>1, BindIs, Zenon DEF StorageOK
<1>4. PFun(Bind(s.names, k, x), Names, Comps)
  BY BindIs, Zenon DEF StorageOK
<1>5. PFun(Bind(Drop(s.rev, At(s.names, k)), x, k), Comps, Names)
  BY <1>1, BindIs, Zenon
<1> DEFINE c == Bind(s.comps, x, FALSE)
           m == Bind(s.names, k, x)
           r == Bind(Drop(s.rev, At(s.names, k)), x, k)
           q == Drop(s.seqs, {k})
<1>6. /\ put_with_name(s, x, k) = [s EXCEPT !.comps = c, !.names = m, !.rev = r, !.seqs = q]
      /\ DOMAIN c = DOMAIN s.comps \cup {x}
  BY Keys DEF put_with_name
<1> HIDE DEF c, m, r, q
<1> QED BY <1>2, <1>3, <1>4, <1>5, <1>6 DEF StorageOK, On, c, m, r, q

(* The name inserts of a batch touch the three name keyspaces only. *)
LEMMA InsertNamesIs ==
  ASSUME NEW s, NEW w, StorageOK(w), NEW ins \in Seq(Binds)
  PROVE  LET r == InsertNames(s, w, ins) IN
         /\ StorageOK(r) /\ r.comps = w.comps /\ r.last = w.last
<1> DEFINE I == {i \in DOMAIN ins : lww_accepts_bind(At(s.seqs, ins[i].name), ins[i].pseq)}
           bound == [i \in I |-> ins[i].name]
           owner == [i \in I |-> ins[i].id]
           stamp == [i \in I |-> ins[i].pseq]
           old == [i \in I |-> At(s.rev, ins[i].id) \ {ins[i].name}]
           prev == [i \in I |-> At(s.names, ins[i].name) \ {ins[i].id}]
           seqs == Written(w.seqs, I, bound, stamp, old)
<1>1. Len(ins) \in Nat /\ I \in SUBSET (1 .. Len(ins))
  OBVIOUS
<1>2. \A i \in I : bound[i] \in Names /\ owner[i] \in Comps /\ stamp[i] \in Nat
  <2> TAKE i \in I
  <2>1. ins[i] \in Binds
    OBVIOUS
  <2> QED BY <2>1 DEF Binds
<1>3. PFun(w.names, Names, Comps) /\ PFun(w.rev, Comps, Names) /\ PFun(w.seqs, Names, Nat)
  BY DEF StorageOK
<1> DEFINE names == Written(w.names, I, bound, owner, old)
           rev == Written(w.rev, I, owner, bound, prev)
           kept == Drop(seqs, {k \in DOMAIN seqs : seqs[k] = 0})
<1>4. InsertNames(s, w, ins) = [w EXCEPT !.names = names, !.rev = rev, !.seqs = kept]
  BY DEF InsertNames
<1> HIDE DEF I, bound, owner, stamp, old, prev
<1>5. PFun(names, Names, Comps)
  BY <1>1, <1>2, <1>3, WrittenIs
<1>6. PFun(rev, Comps, Names)
  BY <1>1, <1>2, <1>3, WrittenIs
<1>7. PFun(seqs, Names, Nat)
  BY <1>1, <1>2, <1>3, WrittenIs
<1> HIDE DEF seqs
<1>8. PFun(kept, Names, Nat)
  BY <1>7, DropIs
<1> HIDE DEF names, rev, kept
<1> QED BY <1>4, <1>5, <1>6, <1>8 DEF StorageOK, On

(* The name removes, likewise. *)
LEMMA RemoveNamesIs ==
  ASSUME NEW s, NEW w, StorageOK(w), NEW K
  PROVE  LET r == RemoveNames(s, w, K) IN
         /\ StorageOK(r) /\ r.comps = w.comps /\ r.last = w.last
<1>1. PFun(w.names, Names, Comps) /\ PFun(w.rev, Comps, Names) /\ PFun(w.seqs, Names, Nat)
  BY DEF StorageOK
<1> DEFINE ids == UNION {At(s.names, k) : k \in K}
<1>2. RemoveNames(s, w, K) =
        [w EXCEPT !.names = Drop(w.names, K), !.seqs = Drop(w.seqs, K), !.rev = Drop(w.rev, ids)]
  BY DEF RemoveNames
<1> HIDE DEF ids
<1>3. /\ PFun(Drop(w.names, K), Names, Comps) /\ PFun(Drop(w.seqs, K), Names, Nat)
      /\ PFun(Drop(w.rev, ids), Comps, Names)
  BY <1>1, DropIs
<1> QED BY <1>2, <1>3 DEF StorageOK, On

(* A batch moves the position to its own, and the rows to those staged over    *)
(* the old ones, without those removed.                                        *)
LEMMA BatchIs ==
  ASSUME NEW s, StorageOK(s), NEW b, BatchOK(b)
  PROVE  LET r == apply_hydration_batch(s, b) IN
         /\ StorageOK(r) /\ r.last = b.last
         /\ DOMAIN r.comps = (DOMAIN s.comps \cup DOMAIN b.puts) \ b.removes
<1> DEFINE gone == UNION {At(s.rev, x) : x \in b.removes}
           c == Drop(Over(b.puts, s.comps), b.removes)
           rows == [s EXCEPT !.comps = c, !.names = Drop(s.names, gone),
                             !.rev = Drop(s.rev, b.removes), !.seqs = Drop(s.seqs, gone),
                             !.last = b.last, !.stuck = b.stuck]
<1>1. b.inserts \in Seq(Binds) /\ b.last \in Nat /\ b.stuck \in Stucks
  BY DEF BatchOK
<1>2. PFun(Over(b.puts, s.comps), Comps, Rows)
  BY OverIs, Zenon DEF StorageOK, BatchOK
<1>3. PFun(c, Comps, Rows)
  BY <1>2, DropIs, Zenon
<1>4. DOMAIN c = (DOMAIN s.comps \cup DOMAIN b.puts) \ b.removes
  <2>1. DOMAIN Over(b.puts, s.comps) = DOMAIN b.puts \cup DOMAIN s.comps
    BY Keys
  <2>2. DOMAIN c = DOMAIN Over(b.puts, s.comps) \ b.removes
    BY Keys
  <2> HIDE DEF c
  <2> QED BY <2>1, <2>2
<1> HIDE DEF gone, c
<1>a. PFun(Drop(s.names, gone), Names, Comps)
  BY DropIs, Zenon DEF StorageOK
<1>b. PFun(Drop(s.seqs, gone), Names, Nat)
  BY DropIs, Zenon DEF StorageOK
<1>c. PFun(Drop(s.rev, b.removes), Comps, Names)
  BY DropIs, Zenon DEF StorageOK
<1>5. StorageOK(rows) /\ rows.last = b.last /\ rows.comps = c
  BY <1>1, <1>3, <1>a, <1>b, <1>c DEF StorageOK, On
<1>6. apply_hydration_batch(s, b) = RemoveNames(s, InsertNames(s, rows, b.inserts), b.unbinds)
  BY DEF apply_hydration_batch, gone, c
<1> HIDE DEF rows
<1>7. LET r == InsertNames(s, rows, b.inserts) IN
      StorageOK(r) /\ r.comps = rows.comps /\ r.last = rows.last
  BY <1>1, <1>5, InsertNamesIs
<1>8. LET r == RemoveNames(s, InsertNames(s, rows, b.inserts), b.unbinds) IN
      /\ StorageOK(r) /\ r.comps = InsertNames(s, rows, b.inserts).comps
      /\ r.last = InsertNames(s, rows, b.inserts).last
  BY <1>7, RemoveNamesIs
<1> QED BY <1>4, <1>5, <1>6, <1>7, <1>8

-----------------------------------------------------------------------------
(* Staging.                                                                  *)

(* A poll starts with nothing staged, at the durable position. *)
LEMMA EmptyStagingIs ==
  ASSUME NEW s, StorageOK(s)
  PROVE  LET g == EmptyStaging(s) IN
         /\ BatchOK(g) /\ DOMAIN g.puts = {} /\ g.removes = {} /\ g.last = s.last
         /\ g.ns = FALSE /\ g.skipped = {} /\ g.stop = FALSE
<1>1. <<>> \in Seq(Binds) /\ NoStuck \in Stucks /\ s.last \in Nat
  BY CompositionsAssumption DEF StorageOK, NoStuck, Stucks
<1> QED BY <1>1, EmptyIs DEF EmptyStaging, BatchOK, On

(* A staged put cancels a staged remove of the same id. *)
LEMMA StagePutIs ==
  ASSUME NEW g, BatchOK(g), NEW x \in Comps
  PROVE  LET h == StagePut(g, x) IN
         /\ BatchOK(h) /\ DOMAIN h.puts = DOMAIN g.puts \cup {x} /\ h.removes = g.removes \ {x}
         /\ h.last = g.last /\ h.ns = g.ns /\ h.skipped = g.skipped /\ h.stop = g.stop
<1>1. PFun(Bind(g.puts, x, FALSE), Comps, Rows)
  <2>1. FALSE \in Rows
    BY DEF Rows
  <2> QED BY <2>1, BindIs, Zenon DEF BatchOK
<1> QED BY <1>1, Keys DEF StagePut, BatchOK, On

(* A staged delete cancels a staged put, and unbinds the durable name. *)
LEMMA StageDeleteIs ==
  ASSUME NEW s, StorageOK(s), NEW g, BatchOK(g), NEW d \in Deltas, d.op = "delete"
  PROVE  LET h == stage_delete(s, g, d) IN
         /\ BatchOK(h) /\ DOMAIN h.puts = DOMAIN g.puts \ {d.id}
         /\ h.removes = g.removes \cup {d.id}
         /\ h.last = g.last /\ h.ns = g.ns /\ h.skipped = g.skipped /\ h.stop = g.stop
<1>1. d.id \in Comps
  BY DEF Deltas
<1>2. At(s.rev, d.id) \subseteq Names
  BY AtIs, Zenon DEF StorageOK
<1> DEFINE u == [g EXCEPT !.unbinds = g.unbinds \cup At(s.rev, d.id)]
<1>3. /\ BatchOK(u) /\ u.puts = g.puts /\ u.removes = g.removes
      /\ u.last = g.last /\ u.ns = g.ns /\ u.skipped = g.skipped /\ u.stop = g.stop
  BY <1>2 DEF BatchOK, On
<1>4. stage_delete(s, g, d) = [u EXCEPT !.puts = Drop(u.puts, {d.id}), !.removes = u.removes \cup {d.id}]
  BY DEF stage_delete, StageRemove
<1> HIDE DEF u
<1> DEFINE p == Drop(u.puts, {d.id})
<1>5. PFun(p, Comps, Rows)
  BY <1>3, DropIs, Zenon DEF BatchOK
<1>6. DOMAIN p = DOMAIN g.puts \ {d.id}
  BY <1>3, Keys
<1> HIDE DEF p
<1>7. u.removes \cup {d.id} \subseteq Comps
  BY <1>1, <1>3 DEF BatchOK
<1> DEFINE h == stage_delete(s, g, d)
<1>8. h = [u EXCEPT !.puts = p, !.removes = u.removes \cup {d.id}]
  BY <1>4 DEF p
<1> HIDE DEF h
<1>9. BatchOK(h)
  BY <1>3, <1>5, <1>7, <1>8 DEF BatchOK, On
<1>10. /\ h.puts = p /\ h.removes = u.removes \cup {d.id}
       /\ h.last = u.last /\ h.ns = u.ns /\ h.skipped = u.skipped /\ h.stop = u.stop
  BY <1>3, <1>8 DEF BatchOK, On
<1> QED BY <1>3, <1>6, <1>9, <1>10 DEF h

(* A name bind adds to the list of inserts only. *)
LEMMA StageBindIs ==
  ASSUME NEW g, BatchOK(g), NEW d \in Deltas, d.op = "create"
  PROVE  LET h == StageBind(g, d) IN
         /\ BatchOK(h) /\ h.puts = g.puts /\ h.removes = g.removes
         /\ h.last = g.last /\ h.ns = g.ns /\ h.skipped = g.skipped /\ h.stop = g.stop
<1>1. CASE d.name = NoName
  BY <1>1 DEF StageBind
<1>2. CASE d.name # NoName
  <2>1. [name |-> d.name, id |-> d.id, pseq |-> d.pseq] \in Binds
    BY <1>2 DEF Deltas, Binds
  <2>2. g.inserts \in Seq(Binds)
    BY DEF BatchOK
  <2>3. Append(g.inserts, [name |-> d.name, id |-> d.id, pseq |-> d.pseq]) \in Seq(Binds)
    BY <2>1, <2>2
  <2> QED BY <1>2, <2>3 DEF StageBind, BatchOK, On
<1> QED BY <1>1, <1>2

(* A position advance moves nothing else. *)
LEMMA AdvanceIs ==
  ASSUME NEW g, BatchOK(g), NEW d \in Deltas
  PROVE  LET h == Advance(g, d) IN
         /\ BatchOK(h) /\ h.puts = g.puts /\ h.removes = g.removes
         /\ h.last = d.at /\ h.ns = g.ns /\ h.skipped = g.skipped /\ h.stop = g.stop
<1>1. d.at \in Nat
  BY DEF Deltas
<1> QED BY <1>1 DEF Advance, BatchOK, On

\* What staging one delta does to the batch g, as far as rows and positions go.
StageEffect(s, r, g, d, h) ==
  \/ /\ d.op = "ns" /\ h.ns /\ h.last = d.at
     /\ h.puts = g.puts /\ h.removes = g.removes /\ h.skipped = g.skipped
  \/ /\ d.op = "delete" /\ h.ns = g.ns /\ h.last = d.at
     /\ DOMAIN h.puts = DOMAIN g.puts \ {d.id} /\ h.removes = g.removes \cup {d.id}
     /\ h.skipped = g.skipped
  \/ /\ d.op = "create" /\ h.ns = g.ns /\ h.last = d.at /\ h.skipped = g.skipped
     /\ IF view(s, g, d.id) THEN h.puts = g.puts /\ h.removes = g.removes
        ELSE DOMAIN h.puts = DOMAIN g.puts \cup {d.id} /\ h.removes = g.removes \ {d.id}
  \/ /\ d.op = "create" /\ ~r /\ ~g.ns /\ h.ns = g.ns /\ h.puts = g.puts /\ h.removes = g.removes
     /\ \/ h.last = d.at /\ h.skipped = g.skipped \cup {d.id}
        \/ h.last = g.last /\ h.skipped = g.skipped

(* One delta is staged in one of four ways. *)
LEMMA StageDeltaIs ==
  ASSUME NEW s, StorageOK(s), NEW r \in BOOLEAN, NEW g, BatchOK(g), NEW d \in Deltas
  PROVE  BatchOK(StageDelta(s, r, g, d)) /\ StageEffect(s, r, g, d, StageDelta(s, r, g, d))
<1> DEFINE h == StageDelta(s, r, g, d)
<1>0. d.op \in {"ns", "create", "delete"} /\ d.at \in Nat /\ (d.op # "ns" => d.id \in Comps)
  BY DEF Deltas
<1>1. CASE d.op = "ns"
  <2> DEFINE u == Advance(g, d)
  <2>1. h = [u EXCEPT !.ns = TRUE]
    BY <1>1 DEF StageDelta
  <2>2. BatchOK(u) /\ u.puts = g.puts /\ u.removes = g.removes /\ u.last = d.at /\ u.skipped = g.skipped
    BY AdvanceIs
  <2> HIDE DEF u, h
  <2>3. /\ BatchOK(h) /\ h.ns = TRUE /\ h.last = d.at
        /\ h.puts = g.puts /\ h.removes = g.removes /\ h.skipped = g.skipped
    BY <2>1, <2>2 DEF BatchOK, On
  <2> QED BY <1>1, <2>3 DEF StageEffect, h
<1>2. CASE d.op = "delete"
  <2> DEFINE u == stage_delete(s, g, d)
  <2>1. h = Advance(u, d)
    BY <1>2 DEF StageDelta
  <2>2. /\ BatchOK(u) /\ DOMAIN u.puts = DOMAIN g.puts \ {d.id} /\ u.removes = g.removes \cup {d.id}
        /\ u.ns = g.ns /\ u.skipped = g.skipped
    BY <1>2, StageDeleteIs
  <2> HIDE DEF u, h
  <2>3. /\ BatchOK(h) /\ h.puts = u.puts /\ h.removes = u.removes
        /\ h.last = d.at /\ h.ns = u.ns /\ h.skipped = u.skipped
    BY <2>1, <2>2, AdvanceIs
  <2> QED BY <1>2, <2>2, <2>3 DEF StageEffect, h
<1>3. CASE d.op = "create" /\ (view(s, g, d.id) \/ r \/ g.ns)
  <2> DEFINE u == IF view(s, g, d.id) THEN g ELSE StagePut(g, d.id)
             b == StageBind(u, d)
  <2>1. h = Advance(b, d)
    BY <1>3 DEF StageDelta, stage_create
  <2>2. /\ BatchOK(u) /\ u.ns = g.ns /\ u.skipped = g.skipped
        /\ IF view(s, g, d.id) THEN u.puts = g.puts /\ u.removes = g.removes
           ELSE DOMAIN u.puts = DOMAIN g.puts \cup {d.id} /\ u.removes = g.removes \ {d.id}
    BY <1>0, <1>3, StagePutIs
  <2> HIDE DEF u
  <2>3. /\ BatchOK(b) /\ b.puts = u.puts /\ b.removes = u.removes
        /\ b.ns = u.ns /\ b.skipped = u.skipped
    BY <1>3, <2>2, StageBindIs
  <2> HIDE DEF b, h
  <2>4. /\ BatchOK(h) /\ h.puts = b.puts /\ h.removes = b.removes
        /\ h.last = d.at /\ h.ns = b.ns /\ h.skipped = b.skipped
    BY <2>1, <2>3, AdvanceIs
  <2> QED BY <1>3, <2>2, <2>3, <2>4 DEF StageEffect, h
<1>4. CASE d.op = "create" /\ ~(view(s, g, d.id) \/ r \/ g.ns)
  <2> DEFINE n == (IF s.stuck.at = d.at THEN s.stuck.n ELSE 0) + 1
             u == Advance(g, d)
  <2>1. h = TransientSkip(s, g, d)
    BY <1>4 DEF StageDelta
  <2>2. h = IF n >= Retries THEN [u EXCEPT !.skipped = g.skipped \cup {d.id}]
            ELSE [g EXCEPT !.stuck = [at |-> d.at, n |-> n], !.stop = TRUE]
    BY <2>1 DEF TransientSkip
  <2>3. n \in Nat /\ (n < Retries => [at |-> d.at, n |-> n] \in Stucks) /\ Retries \in Nat
    BY <1>0, CompositionsAssumption DEF StorageOK, Stucks
  <2>4. /\ BatchOK(u) /\ u.puts = g.puts /\ u.removes = g.removes /\ u.ns = g.ns
        /\ u.last = d.at /\ u.skipped = g.skipped
    BY AdvanceIs
  <2> HIDE DEF u, n, h
  <2>5. CASE n >= Retries
    <3>1. /\ BatchOK(h) /\ h.ns = g.ns /\ h.puts = g.puts /\ h.removes = g.removes
          /\ h.last = d.at /\ h.skipped = g.skipped \cup {d.id}
      BY <1>0, <1>4, <2>2, <2>4, <2>5 DEF BatchOK, On
    <3> QED BY <1>4, <3>1 DEF StageEffect, h
  <2>6. CASE n < Retries
    <3>0. h = [g EXCEPT !.stuck = [at |-> d.at, n |-> n], !.stop = TRUE]
      BY <2>2, <2>3, <2>6
    <3>1. /\ BatchOK(h) /\ h.ns = g.ns /\ h.puts = g.puts /\ h.removes = g.removes
          /\ h.last = g.last /\ h.skipped = g.skipped
      BY <2>3, <2>6, <3>0 DEF BatchOK, On
    <3> QED BY <1>4, <3>1 DEF StageEffect, h
  <2> QED BY <2>3, <2>5, <2>6
<1> QED BY <1>0, <1>1, <1>2, <1>3, <1>4

-----------------------------------------------------------------------------
(* The log and the requests.                                                 *)

\* One delta is appended, or none.
Appended(d) == d \in Deltas /\ d.at = Len(log) + 1 /\ Len(log) < MaxLog /\ log' = Append(log, d)

(* The deltas the actions write are deltas. *)
LEMMA DeltaIs ==
  ASSUME log \in Seq(Deltas), NEW x \in Comps, NEW k \in Names \cup {NoName}, NEW q \in Nat
  PROVE  /\ Delta("ns", NoName, NoName, 0) \in Deltas
         /\ Delta("create", x, k, q) \in Deltas /\ Delta("delete", x, NoName, 0) \in Deltas
<1>1. Len(log) + 1 \in Nat
  OBVIOUS
<1> QED BY <1>1 DEF Delta, Deltas

(* The delta of a namespace is a delta. *)
LEMMA NsDeltaIs ==
  ASSUME log \in Seq(Deltas)
  PROVE  Delta("ns", NoName, NoName, 0) \in Deltas
<1>1. Len(log) + 1 \in Nat
  OBVIOUS
<1> QED BY <1>1 DEF Delta, Deltas

(* What an append leaves alone, and what it adds. *)
LEMMA AppendedIs ==
  ASSUME log \in Seq(Deltas), NEW d, Appended(d)
  PROVE  /\ log' \in Seq(Deltas) /\ Len(log) \in Nat /\ Len(log') = Len(log) + 1 /\ Len(log') <= MaxLog
         /\ DOMAIN log = 1 .. Len(log) /\ DOMAIN log' = 1 .. Len(log) + 1
         /\ \A i \in 1 .. Len(log) : log'[i] = log[i]
         /\ log'[Len(log) + 1] = d
<1>1. MaxLog \in Nat
  BY CompositionsAssumption
<1> QED BY <1>1 DEF Appended

(* A step appends one delta to the log or leaves it alone. *)
LEMMA LogStep ==
  ASSUME LogOK, CallsOK, [Next]_vars
  PROVE  UNCHANGED log \/ \E d : Appended(d)
<1>1. CASE \E n \in Nodes : NamespaceCommitted(n) \/ NamespaceEmitFails(n)
  <2>1. log' = log \/ (Len(log) < MaxLog /\ log' = Append(log, Delta("ns", NoName, NoName, 0)))
    BY <1>1 DEF NamespaceCommitted, NamespaceEmitFails
  <2>2. Delta("ns", NoName, NoName, 0) \in Deltas /\ Delta("ns", NoName, NoName, 0).at = Len(log) + 1
    BY NsDeltaIs DEF LogOK, Delta
  <2> QED BY <2>1, <2>2 DEF Appended
<1>2. CASE \E x \in Comps : Incorporate(x)
  <2>1. PICK x \in Comps : Incorporate(x)
    BY <1>2
  <2>2. name[x] \in Names \cup {NoName} /\ pseq[x] \in Nat
    BY DEF CallsOK
  <2>3. Delta("create", x, name[x], pseq[x]) \in Deltas
    BY <2>2, DeltaIs DEF LogOK
  <2>4. Delta("create", x, name[x], pseq[x]).at = Len(log) + 1
    BY DEF Delta
  <2> QED BY <2>1, <2>3, <2>4 DEF Appended, Incorporate
<1>3. CASE \E n \in Nodes, x \in Comps : DeleteEmit(n, x)
  <2>1. PICK n \in Nodes, x \in Comps : DeleteEmit(n, x)
    BY <1>3
  <2>2. Delta("delete", x, NoName, 0) \in Deltas
    BY DeltaIs DEF LogOK
  <2>3. Delta("delete", x, NoName, 0).at = Len(log) + 1
    BY DEF Delta
  <2> QED BY <2>1, <2>2, <2>3 DEF Appended, DeleteEmit
<1>4. CASE \E x \in Comps : PutAcked(x) \/ PutFails(x) \/ DeleteLocal(x) \/ DeleteFails(x)
  BY <1>4 DEF PutAcked, PutFails, DeleteLocal, DeleteFails, logv
<1>5. CASE \E n \in Nodes : \/ RegisterNamespace(n) \/ GetFill(n) \/ SetTypeWrite(n) \/ Poll(n)
                            \/ Stage(n) \/ enter_halt_mode(n) \/ Commit(n) \/ CommitFails(n)
  BY <1>5 DEF RegisterNamespace, GetFill, SetTypeWrite, Poll, Stage, enter_halt_mode, Commit,
              CommitFails, logv
<1>6. CASE \E n \in Nodes : \/ drain_pending(n) \/ PollNothing(n) \/ gather_voter_position(n)
                            \/ advance_hydrator_watermark_round(n) \/ Restart(n) \/ Wipe(n)
  BY <1>6 DEF drain_pending, PollNothing, gather_voter_position, advance_hydrator_watermark_round,
              Restart, Wipe, LoseMemory, logv
<1>7. CASE \E n \in Nodes, x \in Comps : \/ PutSync(n, x) \/ GetMiss(n, x) \/ SetTypePending(n, x)
                                         \/ SetTypeRead(n, x) \/ Invalidate(n, x)
  BY <1>7, ZenonT(30) DEF PutSync, GetMiss, SetTypePending, SetTypeRead, Invalidate, logv
<1>8. CASE \E n \in Nodes, x \in Comps, k \in Names : PutVolatile(n, x, k) \/ PutOverflow(n, x, k)
  BY <1>8 DEF PutVolatile, PutOverflow
<1>9. CASE RoundSkipped \/ UNCHANGED vars
  BY <1>9 DEF RoundSkipped, vars, logv
<1> QED BY <1>1, <1>2, <1>3, <1>4, <1>5, <1>6, <1>7, <1>8, <1>9 DEF Next

-----------------------------------------------------------------------------
(* What a step does to the nodes.                                            *)

\* Nothing happens on m.
Same(m) ==
  /\ store'[m] = store[m] /\ pending'[m] = pending[m] /\ pnames'[m] = pnames[m]
  /\ cache'[m] = cache[m] /\ hy'[m] = hy[m] /\ ns'[m] = ns[m] /\ lk'[m] = lk[m]
  /\ skips'[m] = skips[m]

\* The tables have an entry per node.
Tables ==
  /\ On(store, Nodes) /\ On(pending, Nodes) /\ On(pnames, Nodes) /\ On(cache, Nodes) /\ On(hy, Nodes)
  /\ ns \in [Nodes -> BOOLEAN] /\ lk \in [Nodes -> Locks] /\ skips \in [Nodes -> SUBSET Comps]

\* A step of n alone.
Frame(n) == Tables' /\ \A m \in Nodes \ {n} : Same(m)

(* Nothing moves when the tables do not. *)
LEMMA SameIs ==
  ASSUME Tables, UNCHANGED <<store, pending, pnames, cache, hy, ns, lk, skips>>
  PROVE  Tables' /\ \A m \in Nodes : Same(m)
BY DEF Tables, Same, On

(* RegisterNamespace touches the namespaces of n. *)
LEMMA RegisterNamespaceIs ==
  ASSUME Tables, NEW n \in Nodes, RegisterNamespace(n)
  PROVE  /\ Frame(n) /\ ns'[n] = TRUE
         /\ UNCHANGED <<store, pending, pnames, cache, hy, lk, skips>>
<1>1. /\ ns' = [ns EXCEPT ![n] = TRUE]
      /\ UNCHANGED <<store, pending, pnames, cache, hy, lk, skips>>
  BY DEF RegisterNamespace, faults
<1>2. ns' \in [Nodes -> BOOLEAN] /\ ns'[n] = TRUE /\ \A m \in Nodes \ {n} : ns'[m] = ns[m]
  BY <1>1 DEF Tables
<1> QED BY <1>1, <1>2 DEF Tables, Frame, Same, On

(* NamespaceEmitFails likewise. *)
LEMMA NamespaceEmitFailsIs ==
  ASSUME Tables, NEW n \in Nodes, NamespaceEmitFails(n)
  PROVE  /\ Frame(n) /\ ns'[n] = FALSE
         /\ UNCHANGED <<store, pending, pnames, cache, hy, lk, skips>>
<1>1. /\ ns' = [ns EXCEPT ![n] = FALSE]
      /\ UNCHANGED <<store, pending, pnames, cache, hy, lk, skips>>
  BY DEF NamespaceEmitFails
<1>2. ns' \in [Nodes -> BOOLEAN] /\ ns'[n] = FALSE /\ \A m \in Nodes \ {n} : ns'[m] = ns[m]
  BY <1>1 DEF Tables
<1> QED BY <1>1, <1>2 DEF Tables, Frame, Same, On

(* PutVolatile adds an overlay row. *)
LEMMA PutVolatileIs ==
  ASSUME Tables, NEW n \in Nodes, NodeOK(n), NEW x \in Comps, NEW k \in Names, PutVolatile(n, x, k)
  PROVE  /\ Frame(n) /\ UNCHANGED <<store, cache, ns, hy, lk, skips>>
         /\ PFun(pending'[n], Comps, Rows) /\ PFun(pnames'[n], Names, Comps)
         /\ DOMAIN pending'[n] = DOMAIN pending[n] \cup {x}
<1>1. /\ pending' = [pending EXCEPT ![n] = Bind(pending[n], x, FALSE)]
      /\ pnames' = [pnames EXCEPT ![n] = Bind(pnames[n], k, x)]
      /\ UNCHANGED <<store, cache, ns, hy, lk, skips>>
  BY DEF PutVolatile, faults
<1>2. On(pending', Nodes) /\ pending'[n] = Bind(pending[n], x, FALSE) /\ \A m \in Nodes \ {n} : pending'[m] = pending[m]
  BY <1>1 DEF Tables, On
<1>3. On(pnames', Nodes) /\ pnames'[n] = Bind(pnames[n], k, x) /\ \A m \in Nodes \ {n} : pnames'[m] = pnames[m]
  BY <1>1 DEF Tables, On
<1>4. PFun(Bind(pending[n], x, FALSE), Comps, Rows)
  <2>1. FALSE \in Rows
    BY DEF Rows
  <2> QED BY <2>1, BindIs, Zenon DEF NodeOK
<1>5. PFun(Bind(pnames[n], k, x), Names, Comps)
  BY BindIs, Zenon DEF NodeOK
<1>6. Frame(n)
  BY <1>1, <1>2, <1>3 DEF Tables, Frame, Same, On
<1>7. DOMAIN Bind(pending[n], x, FALSE) = DOMAIN pending[n] \cup {x}
  BY Keys
<1> QED BY <1>1, <1>2, <1>3, <1>4, <1>5, <1>6, <1>7

(* PutOverflow adds a durable row. *)
LEMMA PutOverflowIs ==
  ASSUME Tables, NEW n \in Nodes, NodeOK(n), NEW x \in Comps, NEW k \in Names, PutOverflow(n, x, k)
  PROVE  /\ Frame(n) /\ UNCHANGED <<pending, cache, ns, hy, lk, skips>>
         /\ StorageOK(store'[n]) /\ store'[n].last = store[n].last /\ PFun(pnames'[n], Names, Comps)
         /\ DOMAIN store'[n].comps = DOMAIN store[n].comps \cup {x}
<1>1. /\ store' = [store EXCEPT ![n] = put_with_name(store[n], x, k)]
      /\ pnames' = [pnames EXCEPT ![n] = Drop(pnames[n], {k})]
      /\ UNCHANGED <<pending, cache, ns, hy, lk, skips>>
  BY DEF PutOverflow, faults
<1>2. On(store', Nodes) /\ store'[n] = put_with_name(store[n], x, k) /\ \A m \in Nodes \ {n} : store'[m] = store[m]
  BY <1>1 DEF Tables, On
<1>3. On(pnames', Nodes) /\ pnames'[n] = Drop(pnames[n], {k}) /\ \A m \in Nodes \ {n} : pnames'[m] = pnames[m]
  BY <1>1 DEF Tables, On
<1>4. PFun(Drop(pnames[n], {k}), Names, Comps)
  BY DropIs, Zenon DEF NodeOK
<1>5. LET r == put_with_name(store[n], x, k) IN
      StorageOK(r) /\ r.last = store[n].last /\ DOMAIN r.comps = DOMAIN store[n].comps \cup {x}
  BY PutWithNameIs DEF NodeOK
<1>6. Frame(n)
  BY <1>1, <1>2, <1>3 DEF Tables, Frame, Same, On
<1> QED BY <1>1, <1>2, <1>3, <1>4, <1>5, <1>6

(* PutSync too. *)
LEMMA PutSyncIs ==
  ASSUME Tables, NEW n \in Nodes, NodeOK(n), NEW x \in Comps, PutSync(n, x)
  PROVE  /\ Frame(n) /\ UNCHANGED <<pending, pnames, cache, ns, hy, lk, skips>>
         /\ StorageOK(store'[n]) /\ store'[n].last = store[n].last
         /\ DOMAIN store'[n].comps = DOMAIN store[n].comps \cup {x}
<1>1. /\ store' = [store EXCEPT ![n] = put(store[n], x, FALSE)]
      /\ UNCHANGED <<pending, pnames, cache, ns, hy, lk, skips>>
  BY DEF PutSync, faults, volatile
<1>2. On(store', Nodes) /\ store'[n] = put(store[n], x, FALSE) /\ \A m \in Nodes \ {n} : store'[m] = store[m]
  BY <1>1 DEF Tables, On
<1>3. FALSE \in Rows
  BY DEF Rows
<1>4. LET r == put(store[n], x, FALSE) IN
      StorageOK(r) /\ r.last = store[n].last /\ DOMAIN r.comps = DOMAIN store[n].comps \cup {x}
  BY <1>3, PutIs DEF NodeOK
<1>5. Frame(n)
  BY <1>1, <1>2 DEF Tables, Frame, Same, On
<1> QED BY <1>1, <1>2, <1>4, <1>5

(* LocalDelete drops the overlay row or, when there is none, the durable one. *)
LEMMA LocalDeleteIs ==
  ASSUME Tables, NEW n \in Nodes, NodeOK(n), NEW x \in Comps, LocalDelete(n, x),
         UNCHANGED <<ns, hy, lk, skips>>
  PROVE  /\ Frame(n) /\ Unlocked(n, x)
         /\ StorageOK(store'[n]) /\ store'[n].last = store[n].last
         /\ PFun(pending'[n], Comps, Rows) /\ PFun(pnames'[n], Names, Comps) /\ PFun(cache'[n], Comps, Rows)
         /\ DOMAIN pending'[n] = DOMAIN pending[n] \ {x}
         /\ DOMAIN store'[n].comps = IF x \in DOMAIN pending[n] THEN DOMAIN store[n].comps
                                     ELSE DOMAIN store[n].comps \ {x}
<1>0. Unlocked(n, x)
  BY DEF LocalDelete
<1>1. CASE x \in DOMAIN pending[n]
  <2>1. /\ pending' = [pending EXCEPT ![n] = Drop(pending[n], {x})]
        /\ pnames' = [pnames EXCEPT ![n] = Unbound(pnames[n], x)]
        /\ UNCHANGED <<store, cache>>
    BY <1>1 DEF LocalDelete
  <2>2. On(pending', Nodes) /\ pending'[n] = Drop(pending[n], {x}) /\ \A m \in Nodes \ {n} : pending'[m] = pending[m]
    BY <2>1 DEF Tables, On
  <2>3. On(pnames', Nodes) /\ pnames'[n] = Unbound(pnames[n], x) /\ \A m \in Nodes \ {n} : pnames'[m] = pnames[m]
    BY <2>1 DEF Tables, On
  <2>4. PFun(Drop(pending[n], {x}), Comps, Rows)
    BY DropIs, Zenon DEF NodeOK
  <2>5. PFun(Unbound(pnames[n], x), Names, Comps)
    BY UnboundIs, Zenon DEF NodeOK
  <2>6. Frame(n)
    BY <2>1, <2>2, <2>3 DEF Tables, Frame, Same, On
  <2>7. StorageOK(store[n]) /\ PFun(cache[n], Comps, Rows)
    BY DEF NodeOK
  <2>8. DOMAIN Drop(pending[n], {x}) = DOMAIN pending[n] \ {x}
    BY Keys
  <2> QED BY <1>0, <1>1, <2>1, <2>2, <2>3, <2>4, <2>5, <2>6, <2>7, <2>8
<1>2. CASE x \notin DOMAIN pending[n]
  <2> DEFINE s == IF x \in DOMAIN store[n].comps THEN remove(store[n], x) ELSE store[n]
             c == IF x \in DOMAIN store[n].comps THEN Drop(cache[n], {x}) ELSE cache[n]
  <2>1. store' = [store EXCEPT ![n] = s] /\ cache' = [cache EXCEPT ![n] = c] /\ UNCHANGED <<pending, pnames>>
    BY <1>2 DEF LocalDelete
  <2>2. StorageOK(s) /\ s.last = store[n].last /\ DOMAIN s.comps = DOMAIN store[n].comps \ {x}
    BY RemoveIs DEF NodeOK
  <2>3. PFun(c, Comps, Rows)
    BY DropIs, Zenon DEF NodeOK
  <2> HIDE DEF s, c
  <2>4. On(store', Nodes) /\ store'[n] = s /\ \A m \in Nodes \ {n} : store'[m] = store[m]
    BY <2>1 DEF Tables, On
  <2>5. On(cache', Nodes) /\ cache'[n] = c /\ \A m \in Nodes \ {n} : cache'[m] = cache[m]
    BY <2>1 DEF Tables, On
  <2>6. Frame(n)
    BY <2>1, <2>4, <2>5 DEF Tables, Frame, Same, On
  <2>7. PFun(pending[n], Comps, Rows) /\ PFun(pnames[n], Names, Comps)
    BY DEF NodeOK
  <2> QED BY <1>0, <1>2, <2>1, <2>2, <2>3, <2>4, <2>5, <2>6, <2>7
<1> QED BY <1>1, <1>2

(* GetMiss takes an id lock. *)
LEMMA GetMissIs ==
  ASSUME Tables, NEW n \in Nodes, NodeOK(n), NEW x \in Comps, GetMiss(n, x)
  PROVE  /\ Frame(n) /\ UNCHANGED <<store, pending, pnames, cache, ns, hy, skips>>
         /\ lk'[n].pc = "get"
<1> DEFINE v == [pc |-> "get", id |-> x, row |-> store[n].comps[x]]
<1>1. /\ lk' = [lk EXCEPT ![n] = v] /\ x \in DOMAIN store[n].comps
      /\ UNCHANGED <<store, pending, pnames, cache, ns, hy, skips>>
  BY DEF GetMiss, volatile, faults
<1>2. store[n].comps[x] \in Rows
  BY <1>1 DEF NodeOK, StorageOK, PFun
<1>3. v \in Locks /\ v.pc = "get"
  BY <1>2 DEF Locks
<1> HIDE DEF v
<1>4. lk' \in [Nodes -> Locks] /\ lk'[n] = v /\ \A m \in Nodes \ {n} : lk'[m] = lk[m]
  BY <1>1, <1>3 DEF Tables
<1> QED BY <1>1, <1>3, <1>4 DEF Tables, Frame, Same, On

(* GetFill releases it and fills the cache. *)
LEMMA GetFillIs ==
  ASSUME Tables, NEW n \in Nodes, NodeOK(n), GetFill(n)
  PROVE  /\ Frame(n) /\ UNCHANGED <<store, pending, pnames, ns, hy, skips>>
         /\ lk'[n] = Idle /\ PFun(cache'[n], Comps, Rows)
<1>1. /\ lk[n].pc = "get" /\ lk' = [lk EXCEPT ![n] = Idle]
      /\ cache' = [cache EXCEPT ![n] = Bind(cache[n], lk[n].id, lk[n].row)]
      /\ UNCHANGED <<store, pending, pnames, ns, hy, skips>>
  BY DEF GetFill, volatile, faults
<1>2. lk[n].id \in Comps /\ lk[n].row \in Rows
  BY <1>1 DEF Tables, Locks, Idle
<1>3. PFun(Bind(cache[n], lk[n].id, lk[n].row), Comps, Rows)
  BY <1>2, BindIs, Zenon DEF NodeOK
<1>4. On(cache', Nodes) /\ cache'[n] = Bind(cache[n], lk[n].id, lk[n].row) /\ \A m \in Nodes \ {n} : cache'[m] = cache[m]
  BY <1>1 DEF Tables, On
<1>5. Idle \in Locks
  BY DEF Locks
<1>6. lk' \in [Nodes -> Locks] /\ lk'[n] = Idle /\ \A m \in Nodes \ {n} : lk'[m] = lk[m]
  BY <1>1, <1>5 DEF Tables
<1>7. Frame(n)
  BY <1>1, <1>4, <1>6 DEF Tables, Frame, Same, On
<1> QED BY <1>1, <1>3, <1>4, <1>6, <1>7

(* SetTypePending changes the content of an overlay row. *)
LEMMA SetTypePendingIs ==
  ASSUME Tables, NEW n \in Nodes, NodeOK(n), NEW x \in Comps, SetTypePending(n, x)
  PROVE  /\ Frame(n) /\ UNCHANGED <<store, pnames, cache, ns, hy, lk, skips>>
         /\ PFun(pending'[n], Comps, Rows) /\ DOMAIN pending'[n] = DOMAIN pending[n]
<1>1. /\ pending' = [pending EXCEPT ![n] = Bind(pending[n], x, TRUE)] /\ x \in DOMAIN pending[n]
      /\ UNCHANGED <<store, pnames, cache, ns, hy, lk, skips>>
  BY DEF SetTypePending, faults
<1>2. PFun(Bind(pending[n], x, TRUE), Comps, Rows)
  <2>1. TRUE \in Rows
    BY DEF Rows
  <2> QED BY <2>1, BindIs, Zenon DEF NodeOK
<1>3. DOMAIN Bind(pending[n], x, TRUE) = DOMAIN pending[n]
  <2>1. DOMAIN Bind(pending[n], x, TRUE) = DOMAIN pending[n] \cup {x}
    BY Keys
  <2> QED BY <1>1, <2>1
<1>4. On(pending', Nodes) /\ pending'[n] = Bind(pending[n], x, TRUE) /\ \A m \in Nodes \ {n} : pending'[m] = pending[m]
  BY <1>1 DEF Tables, On
<1>5. Frame(n)
  BY <1>1, <1>4 DEF Tables, Frame, Same, On
<1> QED BY <1>1, <1>2, <1>3, <1>4, <1>5

(* SetTypeRead locks an id that is not in the overlay. *)
LEMMA SetTypeReadIs ==
  ASSUME Tables, NEW n \in Nodes, NEW x \in Comps, SetTypeRead(n, x)
  PROVE  /\ Frame(n) /\ UNCHANGED <<store, pending, pnames, cache, ns, hy, skips>>
         /\ lk'[n].pc = "type" /\ lk'[n].id = x
<1> DEFINE v == [pc |-> "type", id |-> x, row |-> TRUE]
<1>1. /\ lk' = [lk EXCEPT ![n] = v]
      /\ UNCHANGED <<store, pending, pnames, cache, ns, hy, skips>>
  BY DEF SetTypeRead, volatile, faults
<1>2. v \in Locks /\ v.pc = "type" /\ v.id = x
  BY DEF Locks, Rows
<1> HIDE DEF v
<1>3. lk' \in [Nodes -> Locks] /\ lk'[n] = v /\ \A m \in Nodes \ {n} : lk'[m] = lk[m]
  BY <1>1, <1>2 DEF Tables
<1> QED BY <1>1, <1>2, <1>3 DEF Tables, Frame, Same, On

(* SetTypeWrite writes the row it had read, whatever happened to it since. *)
LEMMA SetTypeWriteIs ==
  ASSUME Tables, NEW n \in Nodes, NodeOK(n), SetTypeWrite(n)
  PROVE  /\ Frame(n) /\ UNCHANGED <<pending, pnames, ns, hy, skips>>
         /\ lk[n].pc = "type" /\ lk[n].id \in Comps /\ lk'[n] = Idle
         /\ StorageOK(store'[n]) /\ store'[n].last = store[n].last /\ PFun(cache'[n], Comps, Rows)
         /\ DOMAIN store'[n].comps = DOMAIN store[n].comps \cup {lk[n].id}
<1> DEFINE s == put(store[n], lk[n].id, lk[n].row)
           c == Drop(cache[n], {lk[n].id})
<1>1. /\ lk[n].pc = "type" /\ lk' = [lk EXCEPT ![n] = Idle]
      /\ store' = [store EXCEPT ![n] = s] /\ cache' = [cache EXCEPT ![n] = c]
      /\ UNCHANGED <<pending, pnames, ns, hy, skips>>
  BY DEF SetTypeWrite, volatile, faults
<1>2. lk[n].id \in Comps /\ lk[n].row \in Rows
  BY <1>1 DEF Tables, Locks, Idle
<1>3. StorageOK(s) /\ s.last = store[n].last /\ DOMAIN s.comps = DOMAIN store[n].comps \cup {lk[n].id}
  BY <1>2, PutIs DEF NodeOK
<1>4. PFun(c, Comps, Rows)
  BY DropIs, Zenon DEF NodeOK
<1> HIDE DEF s, c
<1>5. On(store', Nodes) /\ store'[n] = s /\ \A m \in Nodes \ {n} : store'[m] = store[m]
  BY <1>1 DEF Tables, On
<1>6. On(cache', Nodes) /\ cache'[n] = c /\ \A m \in Nodes \ {n} : cache'[m] = cache[m]
  BY <1>1 DEF Tables, On
<1>7. Idle \in Locks
  BY DEF Locks
<1>8. lk' \in [Nodes -> Locks] /\ lk'[n] = Idle /\ \A m \in Nodes \ {n} : lk'[m] = lk[m]
  BY <1>1, <1>7 DEF Tables
<1>9. Frame(n)
  BY <1>1, <1>5, <1>6, <1>8 DEF Tables, Frame, Same, On
<1> QED BY <1>1, <1>2, <1>3, <1>4, <1>5, <1>6, <1>8, <1>9

(* Staging the next delta over the batch g. *)
LEMMA StagingIs ==
  ASSUME log \in Seq(Deltas), NEW n \in Nodes, StorageOK(store[n]), ns[n] \in BOOLEAN,
         NEW g, BatchOK(g), NEW to \in Nat, g.last + 1 \in 1 .. Len(log)
  PROVE  LET h == Staging(n, g, to) IN
         /\ PollOK(h) /\ h.pc = "staging" /\ h.to = to /\ BatchOK(h.batch)
         /\ StageEffect(store[n], ns[n], g, log[g.last + 1], h.batch)
<1> DEFINE b == StageDelta(store[n], ns[n], g, log[g.last + 1])
           h == [pc |-> "staging", to |-> to, batch |-> b]
<1>1. log[g.last + 1] \in Deltas
  OBVIOUS
<1>2. BatchOK(b) /\ StageEffect(store[n], ns[n], g, log[g.last + 1], b)
  BY <1>1, StageDeltaIs
<1>3. Staging(n, g, to) = h
  BY DEF Staging
<1> HIDE DEF b
<1>4. h.pc = "staging" /\ h.to = to /\ h.batch = b /\ On(h, {"pc", "to", "batch"})
  BY DEF On
<1> HIDE DEF h
<1>5. PollOK(h)
  BY <1>2, <1>4 DEF PollOK
<1> QED BY <1>2, <1>3, <1>4, <1>5

\* The next delta has been staged on n over the batch g.
Advanced(n, g) ==
  /\ BatchOK(g) /\ store[n].last <= g.last /\ g.last < hy'[n].to /\ hy'[n].to <= Len(log)
  /\ log[g.last + 1] \in Deltas
  /\ PollOK(hy'[n]) /\ hy'[n].pc = "staging" /\ BatchOK(hy'[n].batch)
  /\ StageEffect(store[n], ns[n], g, log[g.last + 1], hy'[n].batch)

(* Poll stages over the empty batch. *)
LEMMA PollIs ==
  ASSUME Tables, LogOK, NEW n \in Nodes, NodeOK(n), Poll(n)
  PROVE  /\ Frame(n) /\ UNCHANGED <<store, pending, pnames, cache, ns, lk, skips>>
         /\ ~Polling(n) /\ Advanced(n, EmptyStaging(store[n]))
<1>1. PICK to \in store[n].last + 1 .. Len(log) :
        hy' = [hy EXCEPT ![n] = Staging(n, EmptyStaging(store[n]), to)]
  BY DEF Poll
<1>2. hy[n].pc = "idle" /\ UNCHANGED <<store, pending, pnames, cache, ns, lk, skips>>
  BY DEF Poll, volatile, faults
<1> DEFINE g == EmptyStaging(store[n])
<1>3. StorageOK(store[n]) /\ store[n].last \in Nat
  BY DEF NodeOK, StorageOK
<1>4. BatchOK(g) /\ g.last = store[n].last
  BY <1>3, EmptyStagingIs
<1> HIDE DEF g
<1>5. log \in Seq(Deltas) /\ Len(log) \in Nat
  BY DEF LogOK
<1>6. to \in Nat /\ g.last + 1 \in 1 .. Len(log) /\ g.last < to /\ to <= Len(log)
  BY <1>3, <1>4, <1>5
<1>7. ns[n] \in BOOLEAN
  BY DEF Tables
<1> DEFINE h == Staging(n, g, to)
<1>8. /\ PollOK(h) /\ h.pc = "staging" /\ h.to = to /\ BatchOK(h.batch)
      /\ StageEffect(store[n], ns[n], g, log[g.last + 1], h.batch)
  BY <1>3, <1>4, <1>5, <1>6, <1>7, StagingIs
<1>9. hy' = [hy EXCEPT ![n] = h]
  BY <1>1 DEF g
<1> HIDE DEF h
<1>10. On(hy', Nodes) /\ hy'[n] = h /\ \A m \in Nodes \ {n} : hy'[m] = hy[m]
  BY <1>9 DEF Tables, On
<1>11. Frame(n)
  BY <1>2, <1>10 DEF Tables, Frame, Same, On
<1>12. log[g.last + 1] \in Deltas /\ store[n].last <= g.last
  BY <1>3, <1>4, <1>5, <1>6
<1>13. Advanced(n, g)
  BY <1>4, <1>6, <1>8, <1>10, <1>12 DEF Advanced
<1> QED BY <1>2, <1>11, <1>13 DEF Polling, g

(* Stage goes on with the batch it has. *)
LEMMA StageIs ==
  ASSUME Tables, LogOK, NEW n \in Nodes, NodeOK(n), PositionsInv, Stage(n)
  PROVE  /\ Frame(n) /\ UNCHANGED <<store, pending, pnames, cache, ns, lk, skips>>
         /\ Polling(n) /\ Advanced(n, hy[n].batch)
<1> DEFINE g == hy[n].batch
           to == hy[n].to
           h == Staging(n, g, to)
<1>1. /\ hy[n].pc = "staging" /\ g.last < to /\ hy' = [hy EXCEPT ![n] = h]
      /\ UNCHANGED <<store, pending, pnames, cache, ns, lk, skips>>
  BY DEF Stage, volatile, faults
<1>2. BatchOK(g) /\ to \in Nat /\ StorageOK(store[n]) /\ store[n].last \in Nat
  BY <1>1 DEF NodeOK, PollOK, Idle, StorageOK
<1>3. store[n].last <= g.last /\ to <= Len(log)
  BY <1>1 DEF PositionsInv, Polling
<1> HIDE DEF g, to
<1>4. log \in Seq(Deltas) /\ Len(log) \in Nat /\ g.last \in Nat
  BY <1>2 DEF LogOK, BatchOK
<1>5. g.last + 1 \in 1 .. Len(log) /\ log[g.last + 1] \in Deltas
  BY <1>1, <1>2, <1>3, <1>4
<1>6. ns[n] \in BOOLEAN
  BY DEF Tables
<1>7. /\ PollOK(h) /\ h.pc = "staging" /\ h.to = to /\ BatchOK(h.batch)
      /\ StageEffect(store[n], ns[n], g, log[g.last + 1], h.batch)
  BY <1>2, <1>4, <1>5, <1>6, StagingIs
<1> HIDE DEF h
<1>8. On(hy', Nodes) /\ hy'[n] = h /\ \A m \in Nodes \ {n} : hy'[m] = hy[m]
  BY <1>1 DEF Tables, On
<1>9. Frame(n)
  BY <1>1, <1>8 DEF Tables, Frame, Same, On
<1>10. Advanced(n, g)
  BY <1>1, <1>2, <1>3, <1>5, <1>7, <1>8 DEF Advanced
<1> QED BY <1>1, <1>9, <1>10 DEF Polling, g

(* The durable halt touches no row and no position. *)
LEMMA HaltIs ==
  ASSUME Tables, NEW n \in Nodes, NodeOK(n), enter_halt_mode(n)
  PROVE  /\ Frame(n) /\ UNCHANGED <<pending, pnames, cache, hy, ns, lk, skips>>
         /\ StorageOK(store'[n]) /\ store'[n].last = store[n].last
         /\ store'[n].comps = store[n].comps
<1> DEFINE s == [store[n] EXCEPT !.halted = TRUE]
<1>1. /\ store' = [store EXCEPT ![n] = s]
      /\ UNCHANGED <<pending, pnames, cache, hy, ns, lk, skips>>
  BY DEF enter_halt_mode, volatile, faults
<1>2. StorageOK(s) /\ s.last = store[n].last /\ s.comps = store[n].comps
  BY DEF NodeOK, StorageOK, On
<1> HIDE DEF s
<1>3. On(store', Nodes) /\ store'[n] = s /\ \A m \in Nodes \ {n} : store'[m] = store[m]
  BY <1>1 DEF Tables, On
<1>4. Frame(n)
  BY <1>1, <1>3 DEF Tables, Frame, Same, On
<1> QED BY <1>1, <1>2, <1>3, <1>4

\* What is left to drain for the poll state h.
Todo(h) == CASE h.pc = "settle" -> h.todo
             [] h.pc = "drain" -> h.todo \cup {h.id}
             [] OTHER -> {}

(* Settling: the touched ids are to be drained. *)
LEMMA SettlingIs ==
  ASSUME NEW T \in SUBSET Comps
  PROVE  /\ PollOK(Settling(T)) /\ Settling(T).pc \in {"idle", "settle"}
         /\ Todo(Settling(T)) = T
<1>1. CASE T = {}
  BY <1>1 DEF Settling, PollOK, Idle, Todo
<1>2. CASE T # {}
  <2>1. Settling(T) = [pc |-> "settle", todo |-> T]
    BY <1>2 DEF Settling
  <2> QED BY <2>1 DEF PollOK, Todo
<1> QED BY <1>1, <1>2

(* Commit applies the batch and leaves the ids it touched to be drained. *)
LEMMA CommitIs ==
  ASSUME Tables, NEW n \in Nodes, NodeOK(n), Commit(n)
  PROVE  LET g == hy[n].batch IN
         /\ Frame(n) /\ UNCHANGED <<pending, pnames, cache, lk>>
         /\ Polling(n) /\ BatchOK(g) /\ StorageOK(store'[n]) /\ store'[n].last = g.last
         /\ DOMAIN store'[n].comps = (DOMAIN store[n].comps \cup DOMAIN g.puts) \ g.removes
         /\ ns'[n] = (ns[n] \/ g.ns) /\ skips'[n] = skips[n] \cup g.skipped
         /\ PollOK(hy'[n]) /\ hy'[n].pc \in {"idle", "settle"}
         /\ Todo(hy'[n]) = DOMAIN g.puts \cup g.removes
<1> DEFINE g == hy[n].batch
           s == apply_hydration_batch(store[n], g)
           h == Settling(DOMAIN g.puts \cup g.removes)
<1>1. /\ hy[n].pc = "staging" /\ UNCHANGED <<pending, pnames, cache, lk>>
      /\ store' = [store EXCEPT ![n] = s] /\ ns' = [ns EXCEPT ![n] = ns[n] \/ g.ns]
      /\ skips' = [skips EXCEPT ![n] = skips[n] \cup g.skipped]
      /\ hy' = [hy EXCEPT ![n] = h]
  BY DEF Commit, Staged, Touched
<1>2. BatchOK(g)
  BY <1>1 DEF NodeOK, PollOK, Idle
<1>3. /\ StorageOK(s) /\ s.last = g.last
      /\ DOMAIN s.comps = (DOMAIN store[n].comps \cup DOMAIN g.puts) \ g.removes
  BY <1>2, BatchIs DEF NodeOK
<1> HIDE DEF g
<1>4. DOMAIN g.puts \cup g.removes \in SUBSET Comps /\ g.skipped \subseteq Comps /\ g.ns \in BOOLEAN
  BY <1>2 DEF BatchOK, PFun
<1>5. PollOK(h) /\ h.pc \in {"idle", "settle"} /\ Todo(h) = DOMAIN g.puts \cup g.removes
  BY <1>4, SettlingIs
<1> HIDE DEF s, h
<1>6. On(store', Nodes) /\ store'[n] = s /\ \A m \in Nodes \ {n} : store'[m] = store[m]
  BY <1>1 DEF Tables, On
<1>7. On(hy', Nodes) /\ hy'[n] = h /\ \A m \in Nodes \ {n} : hy'[m] = hy[m]
  BY <1>1 DEF Tables, On
<1>8. (ns[n] \/ g.ns) \in BOOLEAN
  BY <1>4 DEF Tables
<1>9. ns' \in [Nodes -> BOOLEAN] /\ ns'[n] = (ns[n] \/ g.ns) /\ \A m \in Nodes \ {n} : ns'[m] = ns[m]
  BY <1>1, <1>8, Zenon DEF Tables
<1>10. /\ skips' \in [Nodes -> SUBSET Comps] /\ skips'[n] = skips[n] \cup g.skipped
       /\ \A m \in Nodes \ {n} : skips'[m] = skips[m]
  BY <1>1, <1>4 DEF Tables
<1>11. Frame(n)
  <2>1. Tables'
    BY <1>1, <1>6, <1>7, <1>9, <1>10 DEF Tables, On
  <2>2. \A m \in Nodes \ {n} : Same(m)
    BY <1>1, <1>6, <1>7, <1>9, <1>10 DEF Same
  <2> QED BY <2>1, <2>2 DEF Frame
<1> QED BY <1>1, <1>2, <1>3, <1>5, <1>6, <1>7, <1>9, <1>10, <1>11 DEF Polling, g

(* CommitFails drops the batch; the namespaces stay in memory. *)
LEMMA CommitFailsIs ==
  ASSUME Tables, NEW n \in Nodes, NodeOK(n), CommitFails(n)
  PROVE  /\ Frame(n) /\ UNCHANGED <<store, pending, pnames, cache, lk, skips>>
         /\ (ns[n] => ns'[n]) /\ hy'[n] = Idle
<1> DEFINE g == hy[n].batch
<1>1. /\ hy[n].pc = "staging" /\ UNCHANGED <<store, pending, pnames, cache, lk, skips>>
      /\ ns' = [ns EXCEPT ![n] = ns[n] \/ g.ns] /\ hy' = [hy EXCEPT ![n] = Idle]
  BY DEF CommitFails, Staged, faults
<1>2. BatchOK(g)
  BY <1>1 DEF NodeOK, PollOK, Idle
<1> HIDE DEF g
<1>3. (ns[n] \/ g.ns) \in BOOLEAN
  BY <1>2 DEF Tables, BatchOK
<1>4. ns' \in [Nodes -> BOOLEAN] /\ ns'[n] = (ns[n] \/ g.ns) /\ \A m \in Nodes \ {n} : ns'[m] = ns[m]
  BY <1>1, <1>3, Zenon DEF Tables
<1>5. On(hy', Nodes) /\ hy'[n] = Idle /\ \A m \in Nodes \ {n} : hy'[m] = hy[m]
  BY <1>1 DEF Tables, On
<1>6. Tables'
  BY <1>1, <1>4, <1>5 DEF Tables, On
<1>7. \A m \in Nodes \ {n} : Same(m)
  BY <1>1, <1>4, <1>5 DEF Same
<1> QED BY <1>1, <1>4, <1>5, <1>6, <1>7 DEF Frame

(* Invalidate goes from settling to draining, with the same ids left. *)
LEMMA InvalidateIs ==
  ASSUME Tables, NEW n \in Nodes, NodeOK(n), NEW x \in Comps, Invalidate(n, x)
  PROVE  /\ Frame(n) /\ UNCHANGED <<store, pending, pnames, ns, lk, skips>>
         /\ PFun(cache'[n], Comps, Rows) /\ PollOK(hy'[n]) /\ hy'[n].pc = "drain"
         /\ Todo(hy'[n]) = Todo(hy[n])
<1> DEFINE h == [pc |-> "drain", todo |-> hy[n].todo \ {x}, id |-> x]
           c == Drop(cache[n], {x})
<1>1. /\ hy[n].pc = "settle" /\ x \in hy[n].todo /\ UNCHANGED <<store, pending, pnames, ns, lk, skips>>
      /\ cache' = [cache EXCEPT ![n] = c] /\ hy' = [hy EXCEPT ![n] = h]
  BY DEF Invalidate, volatile, faults
<1>2. hy[n].todo \in SUBSET Comps
  BY <1>1 DEF NodeOK, PollOK, Idle
<1>3. PollOK(h) /\ h.pc = "drain" /\ Todo(h) = Todo(hy[n])
  BY <1>1, <1>2 DEF PollOK, Todo
<1>4. PFun(c, Comps, Rows)
  BY DropIs, Zenon DEF NodeOK
<1> HIDE DEF h, c
<1>5. On(hy', Nodes) /\ hy'[n] = h /\ \A m \in Nodes \ {n} : hy'[m] = hy[m]
  BY <1>1 DEF Tables, On
<1>6. On(cache', Nodes) /\ cache'[n] = c /\ \A m \in Nodes \ {n} : cache'[m] = cache[m]
  BY <1>1 DEF Tables, On
<1>7. Frame(n)
  BY <1>1, <1>5, <1>6 DEF Tables, Frame, Same, On
<1> QED BY <1>1, <1>3, <1>4, <1>5, <1>6, <1>7

(* drain_pending takes one id out of the overlay; a row it writes was there. *)
LEMMA DrainIs ==
  ASSUME Tables, NEW n \in Nodes, NodeOK(n), drain_pending(n)
  PROVE  /\ Frame(n) /\ UNCHANGED <<ns, lk, skips>>
         /\ StorageOK(store'[n]) /\ store'[n].last = store[n].last
         /\ DOMAIN store'[n].comps = DOMAIN store[n].comps
         /\ PFun(pending'[n], Comps, Rows) /\ PFun(pnames'[n], Names, Comps) /\ PFun(cache'[n], Comps, Rows)
         /\ hy[n].id \in Todo(hy[n]) /\ DOMAIN pending'[n] = DOMAIN pending[n] \ {hy[n].id}
         /\ PollOK(hy'[n]) /\ hy'[n].pc \in {"idle", "settle"} /\ Todo(hy'[n]) \subseteq Todo(hy[n])
<1> DEFINE x == hy[n].id
           typed == x \in DOMAIN pending[n] /\ pending[n][x] /\ x \in DOMAIN store[n].comps
           s == IF typed THEN put(store[n], x, TRUE) ELSE store[n]
           c == IF typed THEN Drop(cache[n], {x}) ELSE cache[n]
           h == Settling(hy[n].todo)
           p == Drop(pending[n], {x})
           q == Unbound(pnames[n], x)
<1>1. /\ hy[n].pc = "drain" /\ UNCHANGED <<ns, lk, skips>>
      /\ pending' = [pending EXCEPT ![n] = p] /\ pnames' = [pnames EXCEPT ![n] = q]
      /\ store' = [store EXCEPT ![n] = s] /\ cache' = [cache EXCEPT ![n] = c]
      /\ hy' = [hy EXCEPT ![n] = h]
  BY DEF drain_pending, faults
<1>2. hy[n].todo \in SUBSET Comps /\ x \in Comps
  BY <1>1 DEF NodeOK, PollOK, Idle
<1>3. /\ PollOK(h) /\ h.pc \in {"idle", "settle"} /\ Todo(h) = hy[n].todo
      /\ Todo(hy[n]) = hy[n].todo \cup {x}
  BY <1>1, <1>2, SettlingIs DEF Todo
<1>4. PFun(p, Comps, Rows) /\ DOMAIN p = DOMAIN pending[n] \ {x}
  <2>1. PFun(p, Comps, Rows)
    BY DropIs, Zenon DEF NodeOK
  <2>2. DOMAIN p = DOMAIN pending[n] \ {x}
    BY Keys
  <2> QED BY <2>1, <2>2
<1>5. PFun(q, Names, Comps)
  BY UnboundIs, Zenon DEF NodeOK
<1>6. PFun(c, Comps, Rows)
  BY DropIs, Zenon DEF NodeOK
<1>7. StorageOK(s) /\ s.last = store[n].last /\ DOMAIN s.comps = DOMAIN store[n].comps
  <2> HIDE DEF x
  <2>1. TRUE \in Rows /\ StorageOK(store[n])
    BY DEF Rows, NodeOK
  <2> DEFINE r == put(store[n], x, TRUE)
  <2>2. StorageOK(r) /\ r.last = store[n].last /\ DOMAIN r.comps = DOMAIN store[n].comps \cup {x}
    BY <1>2, <2>1, PutIs
  <2>3. s = IF typed THEN r ELSE store[n]
    OBVIOUS
  <2>4. typed => x \in DOMAIN store[n].comps
    OBVIOUS
  <2> HIDE DEF s, r, typed
  <2>5. CASE typed
    <3>1. s = r
      BY <2>3, <2>5
    <3> QED BY <2>2, <2>4, <2>5, <3>1
  <2>6. CASE ~typed
    <3>1. s = store[n]
      BY <2>3, <2>6
    <3> QED BY <2>1, <3>1
  <2> QED BY <2>5, <2>6
<1> HIDE DEF s, c, h, p, q
<1>8. On(store', Nodes) /\ store'[n] = s /\ \A m \in Nodes \ {n} : store'[m] = store[m]
  BY <1>1 DEF Tables, On
<1>9. On(cache', Nodes) /\ cache'[n] = c /\ \A m \in Nodes \ {n} : cache'[m] = cache[m]
  BY <1>1 DEF Tables, On
<1>10. On(hy', Nodes) /\ hy'[n] = h /\ \A m \in Nodes \ {n} : hy'[m] = hy[m]
  BY <1>1 DEF Tables, On
<1>11. On(pending', Nodes) /\ pending'[n] = p /\ \A m \in Nodes \ {n} : pending'[m] = pending[m]
  BY <1>1 DEF Tables, On
<1>12. On(pnames', Nodes) /\ pnames'[n] = q /\ \A m \in Nodes \ {n} : pnames'[m] = pnames[m]
  BY <1>1 DEF Tables, On
<1>13. Tables'
  BY <1>1, <1>8, <1>9, <1>10, <1>11, <1>12 DEF Tables
<1>14. \A m \in Nodes \ {n} : Same(m)
  BY <1>1, <1>8, <1>9, <1>10, <1>11, <1>12 DEF Same
<1>15. Frame(n)
  BY <1>13, <1>14 DEF Frame
<1> QED BY <1>1, <1>3, <1>4, <1>5, <1>6, <1>7, <1>8, <1>9, <1>10, <1>11, <1>12, <1>15

(* A restart empties the memory of n and keeps its store. *)
LEMMA RestartIs ==
  ASSUME Tables, NEW n \in Nodes, Restart(n)
  PROVE  /\ Frame(n) /\ UNCHANGED <<store, skips>>
         /\ pending'[n] = Empty /\ pnames'[n] = Empty /\ cache'[n] = Empty
         /\ hy'[n] = Idle /\ lk'[n] = Idle /\ ns'[n] = FALSE
<1>1. /\ pending' = [pending EXCEPT ![n] = Empty] /\ pnames' = [pnames EXCEPT ![n] = Empty]
      /\ cache' = [cache EXCEPT ![n] = Empty] /\ ns' = [ns EXCEPT ![n] = FALSE]
      /\ hy' = [hy EXCEPT ![n] = Idle] /\ lk' = [lk EXCEPT ![n] = Idle] /\ UNCHANGED <<store, skips>>
  BY DEF Restart, LoseMemory
<1>2. Idle \in Locks
  BY DEF Locks
<1>3. /\ pending'[n] = Empty /\ pnames'[n] = Empty /\ cache'[n] = Empty
      /\ hy'[n] = Idle /\ lk'[n] = Idle /\ ns'[n] = FALSE
  BY <1>1 DEF Tables, On
<1>4. Tables'
  <2>1. On(pending', Nodes) /\ On(pnames', Nodes) /\ On(cache', Nodes) /\ On(hy', Nodes)
    BY <1>1 DEF Tables, On
  <2>2. lk' \in [Nodes -> Locks] /\ ns' \in [Nodes -> BOOLEAN]
    BY <1>1, <1>2 DEF Tables
  <2> QED BY <1>1, <2>1, <2>2 DEF Tables
<1>5. \A m \in Nodes \ {n} : Same(m)
  BY <1>1 DEF Tables, On, Same
<1> QED BY <1>1, <1>3, <1>4, <1>5 DEF Frame

(* A wipe empties its store too. *)
LEMMA WipeIs ==
  ASSUME Tables, NEW n \in Nodes, Wipe(n)
  PROVE  /\ Frame(n) /\ store'[n] = EmptyStorage /\ skips'[n] = {}
         /\ pending'[n] = Empty /\ pnames'[n] = Empty /\ cache'[n] = Empty
         /\ hy'[n] = Idle /\ lk'[n] = Idle /\ ns'[n] = FALSE
<1>1. /\ pending' = [pending EXCEPT ![n] = Empty] /\ pnames' = [pnames EXCEPT ![n] = Empty]
      /\ cache' = [cache EXCEPT ![n] = Empty] /\ ns' = [ns EXCEPT ![n] = FALSE]
      /\ hy' = [hy EXCEPT ![n] = Idle] /\ lk' = [lk EXCEPT ![n] = Idle]
      /\ store' = [store EXCEPT ![n] = EmptyStorage] /\ skips' = [skips EXCEPT ![n] = {}]
  BY DEF Wipe, LoseMemory
<1>2. Idle \in Locks
  BY DEF Locks
<1>3. /\ pending'[n] = Empty /\ pnames'[n] = Empty /\ cache'[n] = Empty
      /\ hy'[n] = Idle /\ lk'[n] = Idle /\ ns'[n] = FALSE
      /\ store'[n] = EmptyStorage /\ skips'[n] = {}
  BY <1>1 DEF Tables, On
<1>4. Tables'
  <2>1. On(pending', Nodes) /\ On(pnames', Nodes) /\ On(cache', Nodes) /\ On(hy', Nodes) /\ On(store', Nodes)
    BY <1>1 DEF Tables, On
  <2>2. lk' \in [Nodes -> Locks] /\ ns' \in [Nodes -> BOOLEAN] /\ skips' \in [Nodes -> SUBSET Comps]
    BY <1>1, <1>2 DEF Tables
  <2> QED BY <1>1, <2>1, <2>2 DEF Tables
<1>5. \A m \in Nodes \ {n} : Same(m)
  BY <1>1 DEF Tables, On, Same
<1> QED BY <1>1, <1>3, <1>4, <1>5 DEF Frame

-----------------------------------------------------------------------------
(* Type correctness.                                                         *)

\* The log does not shrink.
Grows == Len(log) \in Nat /\ Len(log') \in Nat /\ Len(log) <= Len(log')

(* Nor does it. *)
LEMMA LogGrows ==
  ASSUME LogOK, CallsOK, [Next]_vars
  PROVE  Grows /\ log' \in Seq(Deltas) /\ Len(log') <= MaxLog
<1>1. log \in Seq(Deltas) /\ Len(log) \in Nat /\ Len(log) <= MaxLog
  BY DEF LogOK
<1>2. CASE UNCHANGED log
  BY <1>1, <1>2 DEF Grows
<1>3. CASE \E d : Appended(d)
  <2>1. PICK d : Appended(d)
    BY <1>3
  <2>2. log' \in Seq(Deltas) /\ Len(log') = Len(log) + 1 /\ Len(log') <= MaxLog
    BY <1>1, <2>1, AppendedIs
  <2> QED BY <1>1, <2>2 DEF Grows
<1> QED BY <1>2, <1>3, LogStep

(* The nodes where nothing happens keep their type. *)
LEMMA OthersOK ==
  ASSUME NodesOK, Grows, NEW m \in Nodes, Same(m)
  PROVE  NodeOK(m)'
<1>1. NodeOK(m) /\ store[m].last \in Nat
  BY DEF NodesOK, NodeOK, StorageOK
<1> QED BY <1>1 DEF NodeOK, Same, Grows

(* So do all of them when the one that moves does. *)
LEMMA NodesStep ==
  ASSUME NodesOK, MarksOK, Grows, NEW n \in Nodes, Frame(n), NodeOK(n)'
  PROVE  NodesOK'
<1>1. \A m \in Nodes : NodeOK(m)'
  BY OthersOK DEF Frame
<1> QED BY <1>1 DEF NodesOK, Frame, Tables

(* The type of the nodes holds their tables. *)
LEMMA TablesOK ==
  ASSUME NodesOK, MarksOK
  PROVE  Tables /\ \A n \in Nodes : NodeOK(n)
BY DEF NodesOK, MarksOK, Tables

(* Every step keeps the type of the nodes. *)
LEMMA NodesTyped ==
  ASSUME LogOK, CallsOK, NodesOK, MarksOK, PositionsInv, [Next]_vars
  PROVE  NodesOK' /\ Tables'
<1>0. Tables /\ Grows /\ \A n \in Nodes : NodeOK(n)
  BY TablesOK, LogGrows
<1>a. ASSUME NEW n \in Nodes, Frame(n), NodeOK(n)'
      PROVE  NodesOK' /\ Tables'
  BY <1>0, <1>a, NodesStep DEF Frame
<1>b. ASSUME UNCHANGED <<store, pending, pnames, cache, hy, ns, lk, skips>>
      PROVE  NodesOK' /\ Tables'
  <2>1. Tables' /\ \A m \in Nodes : Same(m)
    BY <1>0, <1>b, SameIs
  <2>2. \A m \in Nodes : NodeOK(m)'
    BY <1>0, <2>1, OthersOK
  <2> QED BY <2>1, <2>2 DEF NodesOK, Tables
<1>c. \A n \in Nodes : /\ StorageOK(store[n]) /\ store[n].last <= Len(log) /\ PollOK(hy[n])
                       /\ PFun(pending[n], Comps, Rows) /\ PFun(pnames[n], Names, Comps)
                       /\ PFun(cache[n], Comps, Rows) /\ store[n].last <= Len(log')
  BY <1>0 DEF NodeOK, StorageOK, Grows
<1>1. CASE \E n \in Nodes : RegisterNamespace(n)
  <2>1. PICK n \in Nodes : RegisterNamespace(n)
    BY <1>1
  <2>2. Frame(n) /\ UNCHANGED <<store, pending, pnames, cache, hy, lk>>
    BY <1>0, <2>1, RegisterNamespaceIs
  <2>3. NodeOK(n)'
    BY <1>c, <2>2 DEF NodeOK
  <2> QED BY <1>a, <2>2, <2>3
<1>2. CASE \E n \in Nodes : NamespaceEmitFails(n)
  <2>1. PICK n \in Nodes : NamespaceEmitFails(n)
    BY <1>2
  <2>2. Frame(n) /\ UNCHANGED <<store, pending, pnames, cache, hy, lk>>
    BY <1>0, <2>1, NamespaceEmitFailsIs
  <2>3. NodeOK(n)'
    BY <1>c, <2>2 DEF NodeOK
  <2> QED BY <1>a, <2>2, <2>3
<1>3. CASE \E n \in Nodes, x \in Comps, k \in Names : PutVolatile(n, x, k)
  <2>1. PICK n \in Nodes, x \in Comps, k \in Names : PutVolatile(n, x, k)
    BY <1>3
  <2>2. /\ Frame(n) /\ UNCHANGED <<store, cache, hy>>
        /\ PFun(pending'[n], Comps, Rows) /\ PFun(pnames'[n], Names, Comps)
    BY <1>0, <2>1, PutVolatileIs
  <2>3. NodeOK(n)'
    BY <1>c, <2>2 DEF NodeOK
  <2> QED BY <1>a, <2>2, <2>3
<1>4. CASE \E n \in Nodes, x \in Comps, k \in Names : PutOverflow(n, x, k)
  <2>1. PICK n \in Nodes, x \in Comps, k \in Names : PutOverflow(n, x, k)
    BY <1>4
  <2>2. /\ Frame(n) /\ UNCHANGED <<pending, cache, hy>>
        /\ StorageOK(store'[n]) /\ store'[n].last = store[n].last /\ PFun(pnames'[n], Names, Comps)
    BY <1>0, <2>1, PutOverflowIs
  <2>3. NodeOK(n)'
    BY <1>c, <2>2 DEF NodeOK
  <2> QED BY <1>a, <2>2, <2>3
<1>5. CASE \E n \in Nodes, x \in Comps : PutSync(n, x)
  <2>1. PICK n \in Nodes, x \in Comps : PutSync(n, x)
    BY <1>5
  <2>2. /\ Frame(n) /\ UNCHANGED <<pending, pnames, cache, hy>>
        /\ StorageOK(store'[n]) /\ store'[n].last = store[n].last
    BY <1>0, <2>1, PutSyncIs
  <2>3. NodeOK(n)'
    BY <1>c, <2>2 DEF NodeOK
  <2> QED BY <1>a, <2>2, <2>3
<1>6. CASE \E x \in Comps : PutFails(x) \/ DeleteLocal(x)
  <2>1. PICK x \in Comps : LocalDelete(by[x], x) /\ UNCHANGED <<ns, hy, lk, skips>>
    BY <1>6 DEF PutFails, DeleteLocal, faults
  <2>2. PICK n \in Nodes : n = by[x]
    BY CompositionsAssumption DEF CallsOK
  <2>3. NodeOK(n) /\ LocalDelete(n, x)
    BY <1>0, <2>1, <2>2
  <2>4. /\ Frame(n) /\ StorageOK(store'[n]) /\ store'[n].last = store[n].last
        /\ PFun(pending'[n], Comps, Rows) /\ PFun(pnames'[n], Names, Comps) /\ PFun(cache'[n], Comps, Rows)
    BY <1>0, <2>1, <2>3, LocalDeleteIs
  <2>5. NodeOK(n)'
    BY <1>c, <2>1, <2>4 DEF NodeOK
  <2> QED BY <1>a, <2>4, <2>5
<1>7. CASE \E n \in Nodes, x \in Comps : GetMiss(n, x)
  <2>1. PICK n \in Nodes, x \in Comps : GetMiss(n, x)
    BY <1>7
  <2>2. Frame(n) /\ UNCHANGED <<store, pending, pnames, cache, hy>>
    BY <1>0, <2>1, GetMissIs
  <2>3. NodeOK(n)'
    BY <1>c, <2>2 DEF NodeOK
  <2> QED BY <1>a, <2>2, <2>3
<1>8. CASE \E n \in Nodes : GetFill(n)
  <2>1. PICK n \in Nodes : GetFill(n)
    BY <1>8
  <2>2. Frame(n) /\ UNCHANGED <<store, pending, pnames, hy>> /\ PFun(cache'[n], Comps, Rows)
    BY <1>0, <2>1, GetFillIs
  <2>3. NodeOK(n)'
    BY <1>c, <2>2 DEF NodeOK
  <2> QED BY <1>a, <2>2, <2>3
<1>9. CASE \E n \in Nodes, x \in Comps : SetTypePending(n, x)
  <2>1. PICK n \in Nodes, x \in Comps : SetTypePending(n, x)
    BY <1>9
  <2>2. Frame(n) /\ UNCHANGED <<store, pnames, cache, hy>> /\ PFun(pending'[n], Comps, Rows)
    BY <1>0, <2>1, SetTypePendingIs
  <2>3. NodeOK(n)'
    BY <1>c, <2>2 DEF NodeOK
  <2> QED BY <1>a, <2>2, <2>3
<1>10. CASE \E n \in Nodes, x \in Comps : SetTypeRead(n, x)
  <2>1. PICK n \in Nodes, x \in Comps : SetTypeRead(n, x)
    BY <1>10
  <2>2. Frame(n) /\ UNCHANGED <<store, pending, pnames, cache, hy>>
    BY <1>0, <2>1, SetTypeReadIs
  <2>3. NodeOK(n)'
    BY <1>c, <2>2 DEF NodeOK
  <2> QED BY <1>a, <2>2, <2>3
<1>11. CASE \E n \in Nodes : SetTypeWrite(n)
  <2>1. PICK n \in Nodes : SetTypeWrite(n)
    BY <1>11
  <2>2. /\ Frame(n) /\ UNCHANGED <<pending, pnames, hy>> /\ PFun(cache'[n], Comps, Rows)
        /\ StorageOK(store'[n]) /\ store'[n].last = store[n].last
    BY <1>0, <2>1, SetTypeWriteIs
  <2>3. NodeOK(n)'
    BY <1>c, <2>2 DEF NodeOK
  <2> QED BY <1>a, <2>2, <2>3
<1>12. CASE \E n \in Nodes : Poll(n) \/ Stage(n)
  <2>1. PICK n \in Nodes : Poll(n) \/ Stage(n)
    BY <1>12
  <2>2. PICK g : /\ Frame(n) /\ UNCHANGED <<store, pending, pnames, cache>> /\ Advanced(n, g)
    BY <1>0, <2>1, PollIs, StageIs
  <2>3. PollOK(hy'[n])
    BY <2>2 DEF Advanced
  <2>4. NodeOK(n)'
    BY <1>c, <2>2, <2>3 DEF NodeOK
  <2> QED BY <1>a, <2>2, <2>4
<1>13. CASE \E n \in Nodes : enter_halt_mode(n)
  <2>1. PICK n \in Nodes : enter_halt_mode(n)
    BY <1>13
  <2>2. /\ Frame(n) /\ UNCHANGED <<pending, pnames, cache, hy>>
        /\ StorageOK(store'[n]) /\ store'[n].last = store[n].last
    BY <1>0, <2>1, HaltIs
  <2>3. NodeOK(n)'
    BY <1>c, <2>2 DEF NodeOK
  <2> QED BY <1>a, <2>2, <2>3
<1>14. CASE \E n \in Nodes : Commit(n)
  <2>1. PICK n \in Nodes : Commit(n)
    BY <1>14
  <2>2. /\ Frame(n) /\ UNCHANGED <<pending, pnames, cache>> /\ Polling(n) /\ BatchOK(hy[n].batch)
        /\ StorageOK(store'[n]) /\ store'[n].last = hy[n].batch.last /\ PollOK(hy'[n])
    BY <1>0, <2>1, CommitIs
  <2>3. hy[n].to \in Nat
    BY <1>c, <2>2 DEF PollOK, Polling, Idle
  <2>4. hy[n].batch.last <= hy[n].to /\ hy[n].to <= Len(log)
    BY <2>2 DEF PositionsInv
  <2>5. store'[n].last <= Len(log')
    BY <1>0, <2>2, <2>3, <2>4 DEF Grows, BatchOK
  <2>6. NodeOK(n)'
    BY <1>c, <2>2, <2>5 DEF NodeOK
  <2> QED BY <1>a, <2>2, <2>6
<1>15. CASE \E n \in Nodes : CommitFails(n)
  <2>1. PICK n \in Nodes : CommitFails(n)
    BY <1>15
  <2>2. Frame(n) /\ UNCHANGED <<store, pending, pnames, cache>> /\ hy'[n] = Idle
    BY <1>0, <2>1, CommitFailsIs
  <2>3. PollOK(hy'[n])
    BY <2>2 DEF PollOK
  <2>4. NodeOK(n)'
    BY <1>c, <2>2, <2>3 DEF NodeOK
  <2> QED BY <1>a, <2>2, <2>4
<1>16. CASE \E n \in Nodes, x \in Comps : Invalidate(n, x)
  <2>1. PICK n \in Nodes, x \in Comps : Invalidate(n, x)
    BY <1>16
  <2>2. /\ Frame(n) /\ UNCHANGED <<store, pending, pnames>>
        /\ PFun(cache'[n], Comps, Rows) /\ PollOK(hy'[n])
    BY <1>0, <2>1, InvalidateIs
  <2>3. NodeOK(n)'
    BY <1>c, <2>2 DEF NodeOK
  <2> QED BY <1>a, <2>2, <2>3
<1>17. CASE \E n \in Nodes : drain_pending(n)
  <2>1. PICK n \in Nodes : drain_pending(n)
    BY <1>17
  <2>2. /\ Frame(n) /\ StorageOK(store'[n]) /\ store'[n].last = store[n].last /\ PollOK(hy'[n])
        /\ PFun(pending'[n], Comps, Rows) /\ PFun(pnames'[n], Names, Comps) /\ PFun(cache'[n], Comps, Rows)
    BY <1>0, <2>1, DrainIs
  <2>3. NodeOK(n)'
    BY <1>c, <2>2 DEF NodeOK
  <2> QED BY <1>a, <2>2, <2>3
<1>18. CASE \E n \in Nodes : Restart(n) \/ Wipe(n)
  <2>1. PICK n \in Nodes : Restart(n) \/ Wipe(n)
    BY <1>18
  <2>2. /\ Frame(n) /\ pending'[n] = Empty /\ pnames'[n] = Empty /\ cache'[n] = Empty /\ hy'[n] = Idle
        /\ store' = store \/ store'[n] = EmptyStorage
    BY <1>0, <2>1, RestartIs, WipeIs
  <2>3. StorageOK(store'[n]) /\ store'[n].last <= Len(log')
    BY <1>0, <1>c, <2>2, EmptyStorageIs DEF Grows
  <2>4. PollOK(hy'[n])
    BY <2>2 DEF PollOK
  <2>5. /\ PFun(pending'[n], Comps, Rows) /\ PFun(pnames'[n], Names, Comps) /\ PFun(cache'[n], Comps, Rows)
    BY <2>2, EmptyIs
  <2>6. NodeOK(n)'
    BY <2>3, <2>4, <2>5 DEF NodeOK
  <2> QED BY <1>a, <2>2, <2>6
<1>19. CASE \E x \in Comps : PutAcked(x) \/ Incorporate(x) \/ DeleteFails(x)
  BY <1>b, <1>19 DEF PutAcked, Incorporate, DeleteFails, volatile, faults
<1>20. CASE \E n \in Nodes : \/ NamespaceCommitted(n) \/ PollNothing(n) \/ gather_voter_position(n)
                             \/ advance_hydrator_watermark_round(n)
  BY <1>b, <1>20 DEF NamespaceCommitted, PollNothing, gather_voter_position,
                     advance_hydrator_watermark_round, volatile, faults
<1>21. CASE (\E n \in Nodes, x \in Comps : DeleteEmit(n, x)) \/ RoundSkipped \/ UNCHANGED vars
  BY <1>b, <1>21 DEF DeleteEmit, RoundSkipped, vars, volatile, faults
<1> QED
  BY <1>1, <1>2, <1>3, <1>4, <1>5, <1>6, <1>7, <1>8, <1>9, <1>10, <1>11, <1>12, <1>13, <1>14,
     <1>15, <1>16, <1>17, <1>18, <1>19, <1>20, <1>21, Zenon DEF Next

(* A watermark round moves the watermark forward, to no more than any voter's *)
(* answer.                                                                    *)
LEMMA RoundIs ==
  ASSUME LogOK, MarksOK, NEW n \in Nodes, advance_hydrator_watermark_round(n)
  PROVE  /\ wm' \in 0 .. Len(log) /\ wm <= wm'
         /\ wm' = wm \/ \A m \in Nodes : wm' <= IF m = n THEN reported[n] ELSE gathered[m]
<1> DEFINE pos == Bind(gathered, n, reported[n])
           S == {pos[m] : m \in Nodes}
<1>1. n \in DOMAIN reported /\ DOMAIN gathered \cup {n} = Nodes /\ wm' = Max({wm, Min(S)})
  BY DEF advance_hydrator_watermark_round, watermark_advance_decision
<1>2. \A m \in Nodes : pos[m] = IF m = n THEN reported[n] ELSE gathered[m]
  BY <1>1 DEF Bind
<1>3. \A m \in Nodes : (IF m = n THEN reported[n] ELSE gathered[m]) \in 0 .. Len(log)
  BY <1>1 DEF MarksOK, PFun
<1>4. Len(log) \in Nat /\ wm \in Nat /\ wm <= Len(log)
  BY DEF LogOK
<1> HIDE DEF pos
<1>5. S \in SUBSET Nat /\ S # {} /\ \A y \in S : y <= Len(log)
  BY <1>2, <1>3, <1>4
<1>6. Min(S) \in S /\ \A y \in S : Min(S) <= y
  BY <1>5, MinIs
<1>7. \A m \in Nodes : Min(S) <= pos[m]
  BY <1>6
<1> HIDE DEF S
<1>8. Min(S) \in Nat /\ Min(S) <= Len(log)
  BY <1>5, <1>6
<1>9. wm' = IF wm >= Min(S) THEN wm ELSE Min(S)
  BY <1>1, <1>4, <1>8, OfTwo
<1>10. wm' = wm \/ \A m \in Nodes : wm' <= IF m = n THEN reported[n] ELSE gathered[m]
  BY <1>2, <1>7, <1>9
<1> QED BY <1>4, <1>8, <1>9, <1>10

(* What a step does to the log's bookkeeping. *)
LEMMA LogTyped ==
  ASSUME LogOK, CallsOK, NodesOK, MarksOK, [Next]_vars
  PROVE  LogOK'
<1>1. log' \in Seq(Deltas) /\ Len(log') <= MaxLog /\ Grows
  BY LogGrows
<1> USE DEF LogOK
<1>2. CASE \E n \in Nodes : advance_hydrator_watermark_round(n)
  <2>1. PICK n \in Nodes : advance_hydrator_watermark_round(n)
    BY <1>2
  <2>2. wm' \in 0 .. Len(log)
    BY <2>1, RoundIs
  <2>3. UNCHANGED <<log, intents, emits>>
    BY <2>1 DEF advance_hydrator_watermark_round
  <2> QED BY <2>2, <2>3
<1>3. ASSUME UNCHANGED wm, intents' \subseteq Comps, emits' \subseteq Ingress
      PROVE  LogOK'
  BY <1>1, <1>3 DEF Grows
<1>4. CASE \E x \in Comps : \/ PutAcked(x) \/ PutFails(x) \/ Incorporate(x) \/ DeleteLocal(x) \/ DeleteFails(x)
  BY <1>3, <1>4 DEF PutAcked, PutFails, Incorporate, DeleteLocal, DeleteFails, logv
<1>5. CASE \E n \in Nodes : \/ RegisterNamespace(n) \/ NamespaceCommitted(n) \/ NamespaceEmitFails(n)
                            \/ GetFill(n) \/ SetTypeWrite(n) \/ Poll(n) \/ Stage(n)
  BY <1>3, <1>5 DEF RegisterNamespace, NamespaceCommitted, NamespaceEmitFails, GetFill,
                    SetTypeWrite, Poll, Stage, logv
<1>6. CASE \E n \in Nodes : \/ enter_halt_mode(n) \/ Commit(n) \/ CommitFails(n) \/ drain_pending(n)
                            \/ PollNothing(n) \/ gather_voter_position(n)
  BY <1>3, <1>6 DEF enter_halt_mode, Commit, CommitFails, drain_pending, PollNothing,
                    gather_voter_position, logv
<1>10. CASE \E n \in Nodes : Restart(n) \/ Wipe(n)
  <2>1. PICK n \in Nodes : LoseMemory(n)
    BY <1>10 DEF Restart, Wipe
  <2> QED BY <1>3, <2>1 DEF LoseMemory
<1>7. CASE \E n \in Nodes, x \in Comps : \/ DeleteEmit(n, x) \/ GetMiss(n, x) \/ SetTypePending(n, x)
                                         \/ SetTypeRead(n, x) \/ Invalidate(n, x)
  <2>1. UNCHANGED <<wm, intents, emits>>
    <3>1. PICK n \in Nodes, x \in Comps : \/ DeleteEmit(n, x) \/ GetMiss(n, x) \/ SetTypePending(n, x)
                                           \/ SetTypeRead(n, x) \/ Invalidate(n, x)
      BY <1>7
    <3>2. CASE DeleteEmit(n, x)
      BY <3>2 DEF DeleteEmit
    <3>3. CASE GetMiss(n, x) \/ SetTypePending(n, x) \/ SetTypeRead(n, x)
      BY <3>3 DEF GetMiss, SetTypePending, SetTypeRead, logv
    <3>4. CASE Invalidate(n, x)
      BY <3>4 DEF Invalidate, logv
    <3> QED BY <3>1, <3>2, <3>3, <3>4
  <2> QED BY <1>3, <2>1
<1>11. CASE \E n \in Nodes, x \in Comps : PutSync(n, x)
  BY <1>3, <1>11 DEF PutSync, Submit
<1>8. CASE \E n \in Nodes, x \in Comps, k \in Names : PutVolatile(n, x, k) \/ PutOverflow(n, x, k)
  BY <1>3, <1>8, ZenonT(30) DEF PutVolatile, PutOverflow, Submit
<1>9. CASE RoundSkipped \/ UNCHANGED vars
  BY <1>3, <1>9 DEF RoundSkipped, vars, logv
<1> QED BY <1>2, <1>4, <1>5, <1>6, <1>7, <1>8, <1>9, <1>10, <1>11, Zenon DEF Next

(* A submission is a request of the type. *)
LEMMA SubmitTyped ==
  ASSUME CallsOK, NEW n \in Nodes, NEW x \in Comps, NEW k \in Names \cup {NoName}, NEW q \in Nat,
         NEW v \in Requests, Submit(n, x, k, q, v)
  PROVE  CallsOK'
BY DEF CallsOK, Submit

(* The perspective sequence is a number. *)
LEMMA NextSeqIs == NextSeq \in Nat
<1>1. IsFiniteSet({x \in Comps : pseq[x] > 0})
  BY FS_Subset, CompositionsAssumption
<1> QED BY <1>1, FS_CardinalityType DEF NextSeq

(* Every step keeps the type of the requests. *)
LEMMA CallsTyped ==
  ASSUME CallsOK, [Next]_vars
  PROVE  CallsOK'
<1>1. CASE \E n \in Nodes, x \in Comps, k \in Names : PutVolatile(n, x, k) \/ PutOverflow(n, x, k)
  <2>1. PICK n \in Nodes, x \in Comps, k \in Names : Submit(n, x, k, NextSeq, "fanning")
    BY <1>1 DEF PutVolatile, PutOverflow
  <2>2. k \in Names \cup {NoName} /\ "fanning" \in Requests
    BY DEF Requests
  <2> QED BY <2>1, <2>2, NextSeqIs, SubmitTyped
<1>2. CASE \E n \in Nodes, x \in Comps : PutSync(n, x)
  <2>1. PICK n \in Nodes, x \in Comps : Submit(n, x, NoName, 0, "emitting")
    BY <1>2 DEF PutSync
  <2>2. NoName \in Names \cup {NoName} /\ "emitting" \in Requests
    BY DEF Requests
  <2> QED BY <2>1, <2>2, SubmitTyped
<1>3. CASE \E x \in Comps : \/ PutAcked(x) \/ PutFails(x) \/ Incorporate(x) \/ DeleteLocal(x) \/ DeleteFails(x)
  BY <1>3 DEF CallsOK, Requests, PutAcked, PutFails, Incorporate, DeleteLocal, DeleteFails, clients
<1>4. CASE \E n \in Nodes, x \in Comps : DeleteEmit(n, x)
  BY <1>4 DEF CallsOK, Requests, DeleteEmit
<1>5. CASE \E n \in Nodes : Restart(n) \/ Wipe(n)
  <2>1. PICK n \in Nodes : LoseMemory(n)
    BY <1>5 DEF Restart, Wipe
  <2> QED BY <2>1 DEF CallsOK, Requests, LoseMemory
<1>6. CASE UNCHANGED clients
  BY <1>6 DEF CallsOK, clients
<1>7. CASE \E n \in Nodes : \/ RegisterNamespace(n) \/ NamespaceCommitted(n) \/ NamespaceEmitFails(n)
                            \/ GetFill(n) \/ SetTypeWrite(n) \/ Poll(n) \/ Stage(n)
  BY <1>6, <1>7 DEF RegisterNamespace, NamespaceCommitted, NamespaceEmitFails, GetFill,
                    SetTypeWrite, Poll, Stage
<1>8. CASE \E n \in Nodes : \/ enter_halt_mode(n) \/ Commit(n) \/ CommitFails(n) \/ drain_pending(n)
                            \/ PollNothing(n) \/ gather_voter_position(n) \/ advance_hydrator_watermark_round(n)
  BY <1>6, <1>8 DEF enter_halt_mode, Commit, CommitFails, drain_pending, PollNothing,
                    gather_voter_position, advance_hydrator_watermark_round
<1>9. CASE \E n \in Nodes, x \in Comps : \/ GetMiss(n, x) \/ SetTypePending(n, x) \/ SetTypeRead(n, x)
                                         \/ Invalidate(n, x)
  BY <1>6, <1>9 DEF GetMiss, SetTypePending, SetTypeRead, Invalidate
<1>10. CASE RoundSkipped \/ UNCHANGED vars
  BY <1>6, <1>10 DEF RoundSkipped, vars, clients
<1> QED BY <1>1, <1>2, <1>3, <1>4, <1>5, <1>7, <1>8, <1>9, <1>10, Zenon DEF Next

(* A table of positions stays one when the log grows. *)
LEMMA Widen ==
  ASSUME NEW f, NEW a \in Nat, NEW b \in Nat, a <= b, PFun(f, Nodes, 0 .. a)
  PROVE  PFun(f, Nodes, 0 .. b)
BY DEF PFun

(* A report of a position within the log. *)
LEMMA ReportIs ==
  ASSUME LogOK, MarksOK, NEW n \in Nodes, NEW p \in 0 .. Len(log), report_consumer_position(n, p)
  PROVE  PFun(reported', Nodes, 0 .. Len(log))
<1>1. PFun(reported, Nodes, 0 .. Len(log))
  BY DEF MarksOK
<1>2. PFun(Bind(reported, n, p), Nodes, 0 .. Len(log))
  BY <1>1, BindIs, Zenon
<1> QED BY <1>1, <1>2 DEF report_consumer_position

(* Every step keeps the type of the marks. *)
LEMMA MarksTyped ==
  ASSUME LogOK, CallsOK, NodesOK, MarksOK, PositionsInv, [Next]_vars
  PROVE  MarksOK'
<1>1. Grows /\ Tables' /\ Tables /\ \A n \in Nodes : NodeOK(n)
  BY LogGrows, NodesTyped, TablesOK
<1>2. /\ PFun(reported, Nodes, 0 .. Len(log)) /\ PFun(gathered, Nodes, 0 .. Len(log))
      /\ restarts \in Nat /\ wiped \subseteq Nodes /\ rolled \subseteq Nodes /\ forgot \subseteq Comps
  BY DEF MarksOK
<1>3. \A n \in Nodes : store[n].last \in 0 .. Len(log)
  BY <1>1 DEF NodeOK, StorageOK, Grows
<1>a. ASSUME PFun(reported', Nodes, 0 .. Len(log)), PFun(gathered', Nodes, 0 .. Len(log)),
             restarts' \in Nat, wiped' \subseteq Nodes, rolled' \subseteq Nodes, forgot' \subseteq Comps
      PROVE  MarksOK'
  <2>1. PFun(reported', Nodes, 0 .. Len(log'))
    BY <1>1, <1>a, Widen DEF Grows
  <2>2. PFun(gathered', Nodes, 0 .. Len(log'))
    BY <1>1, <1>a, Widen DEF Grows
  <2>3. skips' \in [Nodes -> SUBSET Comps]
    BY <1>1 DEF Tables
  <2> QED BY <1>a, <2>1, <2>2, <2>3 DEF MarksOK
<1>4. CASE \E n \in Nodes : Commit(n)
  <2>1. PICK n \in Nodes : Commit(n)
    BY <1>4
  <2>2. Polling(n) /\ BatchOK(hy[n].batch)
    BY <1>1, <2>1, CommitIs
  <2>3. hy[n].to \in Nat /\ hy[n].batch.last <= hy[n].to /\ hy[n].to <= Len(log)
    BY <1>1, <2>2 DEF PositionsInv, NodeOK, PollOK, Polling, Idle
  <2> DEFINE p == hy[n].batch.last
  <2>4. p \in 0 .. Len(log)
    BY <1>1, <2>2, <2>3 DEF BatchOK, Grows
  <2>5. report_consumer_position(n, p) /\ UNCHANGED <<gathered, restarts, wiped, rolled, forgot>>
    BY <2>1 DEF Commit
  <2> HIDE DEF p
  <2>6. PFun(reported', Nodes, 0 .. Len(log))
    BY <2>4, <2>5, ReportIs
  <2> QED BY <1>2, <1>a, <2>5, <2>6
<1>5. CASE \E n \in Nodes : \/ enter_halt_mode(n) \/ PollNothing(n) \/ CommitFails(n) \/ drain_pending(n)
  <2>1. PICK n \in Nodes : \/ enter_halt_mode(n) \/ PollNothing(n) \/ CommitFails(n) \/ drain_pending(n)
    BY <1>5
  <2> DEFINE p == store[n].last
  <2>2. report_consumer_position(n, p) /\ UNCHANGED <<gathered, restarts, wiped, rolled, forgot>>
    BY <2>1 DEF enter_halt_mode, PollNothing, CommitFails, drain_pending, faults
  <2>3. p \in 0 .. Len(log)
    BY <1>3
  <2> HIDE DEF p
  <2>4. PFun(reported', Nodes, 0 .. Len(log))
    BY <2>2, <2>3, ReportIs
  <2> QED BY <1>2, <1>a, <2>2, <2>4
<1>6. CASE \E n \in Nodes : gather_voter_position(n)
  <2>1. PICK n \in Nodes : gather_voter_position(n)
    BY <1>6
  <2>2. /\ n \in DOMAIN reported /\ gathered' = Bind(gathered, n, reported[n])
        /\ UNCHANGED <<reported, restarts, wiped, rolled, forgot>>
    BY <2>1 DEF gather_voter_position, faults
  <2>3. reported[n] \in 0 .. Len(log)
    BY <1>2, <2>2 DEF PFun
  <2>4. PFun(Bind(gathered, n, reported[n]), Nodes, 0 .. Len(log))
    BY <1>2, <2>3, BindIs, Zenon
  <2> QED BY <1>2, <1>a, <2>2, <2>4
<1>7. CASE (\E n \in Nodes : advance_hydrator_watermark_round(n)) \/ RoundSkipped
  <2>1. gathered' = Empty /\ UNCHANGED <<reported, restarts, wiped, rolled, forgot>>
    BY <1>7 DEF advance_hydrator_watermark_round, RoundSkipped, faults
  <2>2. PFun(Empty, Nodes, 0 .. Len(log))
    BY EmptyIs
  <2> QED BY <1>2, <1>a, <2>1, <2>2
<1>8. CASE \E n \in Nodes : Restart(n) \/ Wipe(n)
  <2>1. PICK n \in Nodes : Restart(n) \/ Wipe(n)
    BY <1>8
  <2>2. /\ reported' = Drop(reported, {n}) /\ restarts' = restarts + 1
        /\ forgot' = forgot \cup DOMAIN pending[n] /\ UNCHANGED <<gathered, rolled>>
        /\ wiped' = wiped \/ wiped' = wiped \cup {n}
    BY <2>1 DEF Restart, Wipe, LoseMemory
  <2>3. PFun(Drop(reported, {n}), Nodes, 0 .. Len(log))
    BY <1>2, DropIs, Zenon
  <2>4. DOMAIN pending[n] \subseteq Comps
    BY <1>1 DEF NodeOK, PFun
  <2>5. /\ restarts' \in Nat /\ wiped' \subseteq Nodes /\ rolled' \subseteq Nodes
        /\ forgot' \subseteq Comps
    BY <1>2, <2>2, <2>4
  <2> QED BY <1>2, <1>a, <2>2, <2>3, <2>5
<1>9. CASE \E n \in Nodes : NamespaceEmitFails(n)
  <2>1. /\ rolled' \subseteq Nodes /\ UNCHANGED <<reported, gathered, restarts, wiped, forgot>>
    BY <1>2, <1>9 DEF NamespaceEmitFails, marks
  <2> QED BY <1>2, <1>a, <2>1
<1>b. ASSUME UNCHANGED <<marks, faults>>
      PROVE  MarksOK'
  BY <1>2, <1>a, <1>b DEF marks, faults
<1>10. CASE \E x \in Comps : \/ PutAcked(x) \/ PutFails(x) \/ Incorporate(x) \/ DeleteLocal(x) \/ DeleteFails(x)
  BY <1>b, <1>10 DEF PutAcked, PutFails, Incorporate, DeleteLocal, DeleteFails
<1>11. CASE \E n \in Nodes : \/ RegisterNamespace(n) \/ NamespaceCommitted(n)
                             \/ GetFill(n) \/ SetTypeWrite(n) \/ Poll(n) \/ Stage(n)
  BY <1>b, <1>11 DEF RegisterNamespace, NamespaceCommitted, GetFill, SetTypeWrite, Poll, Stage
<1>12. CASE \E n \in Nodes, x \in Comps : \/ GetMiss(n, x) \/ SetTypePending(n, x)
                                          \/ SetTypeRead(n, x) \/ Invalidate(n, x)
  BY <1>b, <1>12 DEF GetMiss, SetTypePending, SetTypeRead, Invalidate
<1>13. CASE \E n \in Nodes, x \in Comps : DeleteEmit(n, x) \/ PutSync(n, x)
  BY <1>b, <1>13 DEF DeleteEmit, PutSync
<1>14. CASE \E n \in Nodes, x \in Comps, k \in Names : PutVolatile(n, x, k) \/ PutOverflow(n, x, k)
  BY <1>b, <1>14 DEF PutVolatile, PutOverflow
<1>15. CASE UNCHANGED vars
  BY <1>b, <1>15 DEF vars, marks, faults
<1> QED
  BY <1>4, <1>5, <1>6, <1>7, <1>8, <1>9, <1>10, <1>11, <1>12, <1>13, <1>14, <1>15, Zenon DEF Next

(* Type correctness is preserved, given where the polls stand. *)
LEMMA TypeStep ==
  ASSUME TypeOK, PositionsInv, [Next]_vars
  PROVE  TypeOK'
BY LogTyped, CallsTyped, NodesTyped, MarksTyped DEF TypeOK

-----------------------------------------------------------------------------
(* What a step does to the requests, the log, the rows and the positions: the *)
(* thirteen kinds of step the invariants tell apart.                          *)

\* Nothing the invariants speak of changes on m, but a poll may be dropped, a
\* drain go on, a namespace be registered and a lock be released.
QuietAt(m) ==
  /\ DOMAIN store'[m].comps = DOMAIN store[m].comps /\ store'[m].last = store[m].last
  /\ DOMAIN pending'[m] = DOMAIN pending[m] /\ skips'[m] = skips[m]
  /\ Todo(hy'[m]) \subseteq Todo(hy[m]) /\ (hy'[m].pc = "staging" => hy'[m] = hy[m])
  /\ (ns[m] => ns'[m]) /\ (lk'[m].pc = "type" => lk'[m] = lk[m])

Quiet ==
  /\ UNCHANGED <<log, intents, st, by, restarts, rolled, forgot>>
  /\ \A m \in Nodes : QuietAt(m)

\* The request of x changes, no other does.
Only(x) == \A y \in Comps \ {x} : st'[y] = st[y] /\ by'[y] = by[y]

\* x is created on n, in the overlay or durably.
Submitted(n, x) ==
  /\ st[x] = "unused" /\ st'[x] \in {"fanning", "emitting"} /\ Only(x)
  /\ by'[x] = n /\ n \in Ingress /\ intents' = intents \cup {x}
  /\ UNCHANGED <<log, restarts, rolled, forgot, hy, ns, lk, skips>>
  /\ \A m \in Nodes \ {n} : Same(m)
  /\ store'[n].last = store[n].last
  /\ DOMAIN pending[n] \subseteq DOMAIN pending'[n] /\ DOMAIN pending'[n] \subseteq DOMAIN pending[n] \cup {x}
  /\ DOMAIN store[n].comps \subseteq DOMAIN store'[n].comps
  /\ DOMAIN store'[n].comps \subseteq DOMAIN store[n].comps \cup {x}
  /\ x \in DOMAIN pending'[n] \cup DOMAIN store'[n].comps

\* The local delete of a request that failed or is being deleted.
Withdrawn(n, x) ==
  /\ n = by[x] /\ Only(x) /\ UNCHANGED <<log, intents, by, restarts, rolled, forgot, hy, ns, lk, skips>>
  /\ \/ st[x] \in {"fanning", "emitting"} /\ st'[x] = "failed"
     \/ st[x] = "deleting" /\ st'[x] = "deleted"
  /\ Unlocked(n, x) /\ \A m \in Nodes \ {n} : Same(m)
  /\ store'[n].last = store[n].last
  /\ DOMAIN pending'[n] = DOMAIN pending[n] \ {x}
  /\ DOMAIN store'[n].comps = IF x \in DOMAIN pending[n] THEN DOMAIN store[n].comps
                              ELSE DOMAIN store[n].comps \ {x}

\* Nothing on the nodes.
Still == UNCHANGED <<store, pending, hy, lk, skips>>

Answered(x) ==
  /\ Still /\ UNCHANGED <<log, intents, by, restarts, rolled, forgot, ns>> /\ Only(x)
  /\ \/ st[x] \in {"fanning", "emitting"} /\ st'[x] = "acked"
     \/ st[x] = "deleting" /\ st'[x] = "limbo"

\* A NamespaceCreate is committed or fails.
Named ==
  /\ Still /\ UNCHANGED <<intents, st, by, restarts, forgot>>
  /\ UNCHANGED log \/ \E d : Appended(d) /\ d.op = "ns"
  /\ rolled \subseteq rolled' /\ \A m \in Nodes : ns'[m] = ns[m] \/ m \in rolled'

Incorporated(x) ==
  /\ Still /\ UNCHANGED <<st, by, restarts, rolled, forgot, ns>>
  /\ \E d : Appended(d) /\ d.op = "create" /\ d.id = x
  /\ x \in intents /\ intents' = intents \ {x}

DeleteSent(x) ==
  /\ Still /\ UNCHANGED <<intents, restarts, rolled, forgot, ns>> /\ Only(x)
  /\ \E d : Appended(d) /\ d.op = "delete" /\ d.id = x
  /\ st[x] = "acked" /\ st'[x] = "deleting" /\ by'[x] \in Ingress

\* Nothing in the requests and the log.
Off == UNCHANGED <<log, intents, st, by, restarts, rolled, forgot>>

TypeLocked(n, x) ==
  /\ Off /\ UNCHANGED <<store, pending, hy, ns, skips>> /\ \A m \in Nodes \ {n} : Same(m)
  /\ lk'[n].pc = "type" /\ lk'[n].id = x /\ st[x] = "acked" /\ by[x] = n /\ x \notin DOMAIN pending[n]

TypeWritten(n) ==
  /\ Off /\ UNCHANGED <<pending, hy, ns, skips>> /\ \A m \in Nodes \ {n} : Same(m)
  /\ lk[n].pc = "type" /\ lk'[n] = Idle /\ store'[n].last = store[n].last
  /\ DOMAIN store'[n].comps = DOMAIN store[n].comps \cup {lk[n].id}

Staged1(n, g) ==
  /\ Off /\ UNCHANGED <<store, pending, lk, ns, skips>> /\ \A m \in Nodes \ {n} : Same(m)
  /\ Advanced(n, g) /\ \/ ~Polling(n) /\ g = EmptyStaging(store[n])
                       \/ Polling(n) /\ g = hy[n].batch

Committed(n, g) ==
  /\ Off /\ UNCHANGED <<pending, lk>> /\ \A m \in Nodes \ {n} : Same(m)
  /\ Polling(n) /\ g = hy[n].batch /\ BatchOK(g) /\ store'[n].last = g.last
  /\ DOMAIN store'[n].comps = (DOMAIN store[n].comps \cup DOMAIN g.puts) \ g.removes
  /\ ns'[n] = (ns[n] \/ g.ns) /\ skips'[n] = skips[n] \cup g.skipped
  /\ hy'[n].pc \in {"idle", "settle"} /\ Todo(hy'[n]) = DOMAIN g.puts \cup g.removes

Drained(n, x) ==
  /\ Off /\ UNCHANGED <<ns, lk, skips>> /\ \A m \in Nodes \ {n} : Same(m)
  /\ store'[n].last = store[n].last /\ DOMAIN store'[n].comps = DOMAIN store[n].comps
  /\ x \in Todo(hy[n]) /\ DOMAIN pending'[n] = DOMAIN pending[n] \ {x}
  /\ hy'[n].pc \in {"idle", "settle"} /\ Todo(hy'[n]) \subseteq Todo(hy[n])

\* A restart of n; wipe: of a node without gateway, with its store.
Restarted(n, wipe) ==
  /\ UNCHANGED <<log, intents, by, rolled>> /\ restarts' = restarts + 1
  /\ \A m \in Nodes \ {n} : Same(m)
  /\ DOMAIN pending'[n] = {} /\ hy'[n] = Idle /\ lk'[n] = Idle
  /\ forgot' = forgot \cup DOMAIN pending[n]
  /\ \A x \in Comps : \/ st'[x] = st[x]
                      \/ st[x] \in {"fanning", "emitting", "deleting"} /\ st'[x] = "limbo"
  /\ IF wipe THEN /\ n \notin Ingress /\ DOMAIN store'[n].comps = {} /\ store'[n].last = 0
                  /\ skips'[n] = {} /\ n \in wiped' /\ n \notin DOMAIN reported'
             ELSE UNCHANGED <<store, skips>>

Kinds ==
  \/ Quiet \/ Named
  \/ \E x \in Comps : Answered(x) \/ Incorporated(x) \/ DeleteSent(x)
  \/ \E n \in Nodes, x \in Comps : Submitted(n, x) \/ Withdrawn(n, x) \/ TypeLocked(n, x)
  \/ \E n \in Nodes : TypeWritten(n)
  \/ \E n \in Nodes : \E g : Staged1(n, g)
  \/ \E n \in Nodes : \E g : Committed(n, g)
  \/ \E n \in Nodes : \E x : Drained(n, x)
  \/ \E n \in Nodes, wipe \in BOOLEAN : Restarted(n, wipe)

(* Every step is of one of those kinds. *)
LEMMA KindsIs ==
  ASSUME TypeOK, PositionsInv, [Next]_vars
  PROVE  Kinds
<1>0. Tables /\ LogOK /\ CallsOK /\ \A n \in Nodes : NodeOK(n)
  BY TablesOK DEF TypeOK
<1>a. ASSUME NEW n \in Nodes, Frame(n), QuietAt(n),
             UNCHANGED <<log, intents, st, by, restarts, rolled, forgot>>
      PROVE  Kinds
  <2>1. \A m \in Nodes : QuietAt(m)
    BY <1>a DEF Frame, Same, QuietAt
  <2> QED BY <1>a, <2>1 DEF Kinds, Quiet
<1>b. ASSUME UNCHANGED <<log, intents, st, by, restarts, rolled, forgot>>,
             UNCHANGED <<store, pending, hy, ns, lk, skips>>
      PROVE  Kinds
  BY <1>b DEF Kinds, Quiet, QuietAt
<1>1. CASE \E n \in Nodes : RegisterNamespace(n)
  <2>1. PICK n \in Nodes : RegisterNamespace(n)
    BY <1>1
  <2>2. Frame(n) /\ ns'[n] = TRUE /\ UNCHANGED <<store, pending, hy, lk, skips>>
    BY <1>0, <2>1, RegisterNamespaceIs
  <2>3. UNCHANGED <<log, intents, st, by, restarts, rolled, forgot>>
    BY <2>1 DEF RegisterNamespace, clients, faults
  <2>4. QuietAt(n)
    BY <2>2 DEF QuietAt
  <2> QED BY <1>a, <2>2, <2>3, <2>4
<1>2. CASE \E n \in Nodes : NamespaceCommitted(n)
  <2>1. PICK n \in Nodes : NamespaceCommitted(n)
    BY <1>2
  <2> DEFINE d == Delta("ns", NoName, NoName, 0)
  <2>2. d \in Deltas /\ d.at = Len(log) + 1 /\ d.op = "ns"
    BY <1>0, NsDeltaIs DEF LogOK, Delta
  <2>3. /\ Len(log) < MaxLog /\ log' = Append(log, d)
        /\ Still /\ UNCHANGED <<intents, st, by, restarts, forgot, rolled, ns>>
    BY <2>1 DEF NamespaceCommitted, Still, clients, faults, volatile
  <2> HIDE DEF d
  <2>4. Appended(d)
    BY <2>2, <2>3 DEF Appended
  <2>5. Named
    BY <2>2, <2>3, <2>4 DEF Named
  <2> QED BY <2>5 DEF Kinds
<1>3. CASE \E n \in Nodes : NamespaceEmitFails(n)
  <2>1. PICK n \in Nodes : NamespaceEmitFails(n)
    BY <1>3
  <2> DEFINE d == Delta("ns", NoName, NoName, 0)
  <2>2. d \in Deltas /\ d.at = Len(log) + 1 /\ d.op = "ns"
    BY <1>0, NsDeltaIs DEF LogOK, Delta
  <2>3. /\ UNCHANGED log \/ (Len(log) < MaxLog /\ log' = Append(log, d))
        /\ rolled' = rolled \cup {n}
        /\ Still /\ UNCHANGED <<intents, st, by, restarts, forgot>>
    BY <2>1 DEF NamespaceEmitFails, Still, clients
  <2>4. \A m \in Nodes \ {n} : ns'[m] = ns[m]
    BY <1>0, <2>1, NamespaceEmitFailsIs DEF Frame, Same
  <2> HIDE DEF d
  <2>5. UNCHANGED log \/ Appended(d)
    BY <2>2, <2>3 DEF Appended
  <2>6. Named
    BY <2>2, <2>3, <2>4, <2>5 DEF Named
  <2> QED BY <2>6 DEF Kinds
<1>4. CASE \E n \in Nodes, x \in Comps, k \in Names : PutVolatile(n, x, k)
  <2>1. PICK n \in Nodes, x \in Comps, k \in Names : PutVolatile(n, x, k)
    BY <1>4
  <2>2. /\ Frame(n) /\ UNCHANGED <<store, ns, hy, lk, skips>>
        /\ DOMAIN pending'[n] = DOMAIN pending[n] \cup {x}
    BY <1>0, <2>1, PutVolatileIs
  <2>3. Submit(n, x, k, NextSeq, "fanning") /\ UNCHANGED <<log, restarts, rolled, forgot>>
    BY <2>1 DEF PutVolatile, faults
  <2>4. /\ st[x] = "unused" /\ st'[x] = "fanning" /\ by'[x] = n /\ Only(x)
        /\ n \in Ingress /\ intents' = intents \cup {x}
    BY <1>0, <2>3 DEF Submit, Only, CallsOK
  <2>5. Submitted(n, x)
    BY <2>2, <2>3, <2>4 DEF Submitted, Frame
  <2> QED BY <2>5 DEF Kinds
<1>5. CASE \E n \in Nodes, x \in Comps, k \in Names : PutOverflow(n, x, k)
  <2>1. PICK n \in Nodes, x \in Comps, k \in Names : PutOverflow(n, x, k)
    BY <1>5
  <2>2. /\ Frame(n) /\ UNCHANGED <<pending, ns, hy, lk, skips>> /\ store'[n].last = store[n].last
        /\ DOMAIN store'[n].comps = DOMAIN store[n].comps \cup {x}
    BY <1>0, <2>1, PutOverflowIs
  <2>3. Submit(n, x, k, NextSeq, "fanning") /\ UNCHANGED <<log, restarts, rolled, forgot>>
    BY <2>1 DEF PutOverflow, faults
  <2>4. /\ st[x] = "unused" /\ st'[x] = "fanning" /\ by'[x] = n /\ Only(x)
        /\ n \in Ingress /\ intents' = intents \cup {x}
    BY <1>0, <2>3 DEF Submit, Only, CallsOK
  <2>5. Submitted(n, x)
    BY <2>2, <2>3, <2>4 DEF Submitted, Frame
  <2> QED BY <2>5 DEF Kinds
<1>6. CASE \E n \in Nodes, x \in Comps : PutSync(n, x)
  <2>1. PICK n \in Nodes, x \in Comps : PutSync(n, x)
    BY <1>6
  <2>2. /\ Frame(n) /\ UNCHANGED <<pending, ns, hy, lk, skips>> /\ store'[n].last = store[n].last
        /\ DOMAIN store'[n].comps = DOMAIN store[n].comps \cup {x}
    BY <1>0, <2>1, PutSyncIs
  <2>3. Submit(n, x, NoName, 0, "emitting") /\ UNCHANGED <<log, restarts, rolled, forgot>>
    BY <2>1 DEF PutSync, faults
  <2>4. /\ st[x] = "unused" /\ st'[x] = "emitting" /\ by'[x] = n /\ Only(x)
        /\ n \in Ingress /\ intents' = intents \cup {x}
    BY <1>0, <2>3 DEF Submit, Only, CallsOK
  <2>5. Submitted(n, x)
    BY <2>2, <2>3, <2>4 DEF Submitted, Frame
  <2> QED BY <2>5 DEF Kinds
<1>7. CASE \E x \in Comps : PutFails(x) \/ DeleteLocal(x)
  <2>1. PICK x \in Comps : PutFails(x) \/ DeleteLocal(x)
    BY <1>7
  <2>2. /\ LocalDelete(by[x], x)
        /\ UNCHANGED <<log, intents, by, restarts, rolled, forgot, hy, ns, lk, skips>>
    BY <2>1 DEF PutFails, DeleteLocal, faults, logv
  <2>3. /\ Only(x) /\ \/ st[x] \in {"fanning", "emitting"} /\ st'[x] = "failed"
                      \/ st[x] = "deleting" /\ st'[x] = "deleted"
    BY <1>0, <2>1 DEF PutFails, DeleteLocal, Only, CallsOK
  <2>4. PICK n \in Nodes : n = by[x]
    BY <1>0, CompositionsAssumption DEF CallsOK
  <2>5. NodeOK(n) /\ LocalDelete(n, x)
    BY <1>0, <2>2, <2>4
  <2>6. /\ Frame(n) /\ Unlocked(n, x) /\ store'[n].last = store[n].last
        /\ DOMAIN pending'[n] = DOMAIN pending[n] \ {x}
        /\ DOMAIN store'[n].comps = IF x \in DOMAIN pending[n] THEN DOMAIN store[n].comps
                                    ELSE DOMAIN store[n].comps \ {x}
    BY <1>0, <2>2, <2>5, LocalDeleteIs
  <2>7. Withdrawn(n, x)
    BY <2>2, <2>3, <2>4, <2>6 DEF Withdrawn, Frame
  <2> QED BY <2>7 DEF Kinds
<1>8. CASE \E x \in Comps : PutAcked(x) \/ DeleteFails(x)
  <2>1. PICK x \in Comps : PutAcked(x) \/ DeleteFails(x)
    BY <1>8
  <2>2. Still /\ UNCHANGED <<log, intents, by, restarts, rolled, forgot, ns>>
    BY <2>1 DEF PutAcked, DeleteFails, Still, faults, logv, volatile
  <2>3. /\ Only(x) /\ \/ st[x] \in {"fanning", "emitting"} /\ st'[x] = "acked"
                      \/ st[x] = "deleting" /\ st'[x] = "limbo"
    BY <1>0, <2>1 DEF PutAcked, DeleteFails, Only, CallsOK
  <2>4. Answered(x)
    BY <2>2, <2>3 DEF Answered
  <2> QED BY <2>4 DEF Kinds
<1>9. CASE \E x \in Comps : Incorporate(x)
  <2>1. PICK x \in Comps : Incorporate(x)
    BY <1>9
  <2> DEFINE d == Delta("create", x, name[x], pseq[x])
  <2>2. name[x] \in Names \cup {NoName} /\ pseq[x] \in Nat
    BY <1>0 DEF CallsOK
  <2>3. d \in Deltas
    BY <1>0, <2>2, DeltaIs DEF LogOK
  <2>4. d.at = Len(log) + 1 /\ d.op = "create" /\ d.id = x
    BY DEF Delta
  <2>5. /\ Len(log) < MaxLog /\ log' = Append(log, d) /\ x \in intents /\ intents' = intents \ {x}
        /\ Still /\ UNCHANGED <<st, by, restarts, rolled, forgot, ns>>
    BY <2>1 DEF Incorporate, Still, faults, clients, volatile
  <2> HIDE DEF d
  <2>6. Appended(d)
    BY <2>3, <2>4, <2>5 DEF Appended
  <2>7. Incorporated(x)
    BY <2>4, <2>5, <2>6 DEF Incorporated
  <2> QED BY <2>7 DEF Kinds
<1>10. CASE \E n \in Nodes, x \in Comps : DeleteEmit(n, x)
  <2>1. PICK n \in Nodes, x \in Comps : DeleteEmit(n, x)
    BY <1>10
  <2> DEFINE d == Delta("delete", x, NoName, 0)
  <2>2. d \in Deltas
    BY <1>0, DeltaIs DEF LogOK
  <2>3. d.at = Len(log) + 1 /\ d.op = "delete" /\ d.id = x
    BY DEF Delta
  <2>4. /\ Len(log) < MaxLog /\ log' = Append(log, d)
        /\ Still /\ UNCHANGED <<intents, restarts, rolled, forgot, ns>>
    BY <2>1 DEF DeleteEmit, Still, faults, volatile
  <2>5. Only(x) /\ st[x] = "acked" /\ st'[x] = "deleting" /\ by'[x] \in Ingress
    BY <1>0, <2>1 DEF DeleteEmit, Only, CallsOK
  <2> HIDE DEF d
  <2>6. Appended(d)
    BY <2>2, <2>3, <2>4 DEF Appended
  <2>7. DeleteSent(x)
    BY <2>3, <2>4, <2>5, <2>6 DEF DeleteSent
  <2> QED BY <2>7 DEF Kinds
<1>11. CASE \E n \in Nodes, x \in Comps : GetMiss(n, x)
  <2>1. PICK n \in Nodes, x \in Comps : GetMiss(n, x)
    BY <1>11
  <2>2. Frame(n) /\ UNCHANGED <<store, pending, ns, hy, skips>> /\ lk'[n].pc = "get"
    BY <1>0, <2>1, GetMissIs
  <2>3. UNCHANGED <<log, intents, st, by, restarts, rolled, forgot>>
    BY <2>1 DEF GetMiss, clients, faults, logv
  <2>4. QuietAt(n)
    BY <2>2 DEF QuietAt
  <2> QED BY <1>a, <2>2, <2>3, <2>4
<1>12. CASE \E n \in Nodes : GetFill(n)
  <2>1. PICK n \in Nodes : GetFill(n)
    BY <1>12
  <2>2. Frame(n) /\ UNCHANGED <<store, pending, ns, hy, skips>> /\ lk'[n] = Idle
    BY <1>0, <2>1, GetFillIs
  <2>3. UNCHANGED <<log, intents, st, by, restarts, rolled, forgot>>
    BY <2>1 DEF GetFill, clients, faults, logv
  <2>4. QuietAt(n)
    BY <2>2 DEF QuietAt, Idle
  <2> QED BY <1>a, <2>2, <2>3, <2>4
<1>13. CASE \E n \in Nodes, x \in Comps : SetTypePending(n, x)
  <2>1. PICK n \in Nodes, x \in Comps : SetTypePending(n, x)
    BY <1>13
  <2>2. Frame(n) /\ UNCHANGED <<store, ns, hy, lk, skips>> /\ DOMAIN pending'[n] = DOMAIN pending[n]
    BY <1>0, <2>1, SetTypePendingIs
  <2>3. UNCHANGED <<log, intents, st, by, restarts, rolled, forgot>>
    BY <2>1 DEF SetTypePending, clients, faults, logv
  <2>4. QuietAt(n)
    BY <2>2 DEF QuietAt
  <2> QED BY <1>a, <2>2, <2>3, <2>4
<1>14. CASE \E n \in Nodes, x \in Comps : SetTypeRead(n, x)
  <2>1. PICK n \in Nodes, x \in Comps : SetTypeRead(n, x)
    BY <1>14
  <2>2. /\ Frame(n) /\ UNCHANGED <<store, pending, ns, hy, skips>>
        /\ lk'[n].pc = "type" /\ lk'[n].id = x
    BY <1>0, <2>1, SetTypeReadIs
  <2>3. Off /\ st[x] = "acked" /\ by[x] = n /\ x \notin DOMAIN pending[n]
    BY <2>1 DEF SetTypeRead, Off, clients, faults, logv
  <2>4. TypeLocked(n, x)
    BY <2>2, <2>3 DEF TypeLocked, Frame
  <2> QED BY <2>4 DEF Kinds
<1>15. CASE \E n \in Nodes : SetTypeWrite(n)
  <2>1. PICK n \in Nodes : SetTypeWrite(n)
    BY <1>15
  <2>2. /\ Frame(n) /\ UNCHANGED <<pending, ns, hy, skips>>
        /\ lk[n].pc = "type" /\ lk'[n] = Idle /\ store'[n].last = store[n].last
        /\ DOMAIN store'[n].comps = DOMAIN store[n].comps \cup {lk[n].id}
    BY <1>0, <2>1, SetTypeWriteIs
  <2>3. Off
    BY <2>1 DEF SetTypeWrite, Off, clients, faults, logv
  <2>4. TypeWritten(n)
    BY <2>2, <2>3 DEF TypeWritten, Frame
  <2> QED BY <2>4 DEF Kinds
<1>16. CASE \E n \in Nodes : Poll(n) \/ Stage(n)
  <2>1. PICK n \in Nodes : Poll(n) \/ Stage(n)
    BY <1>16
  <2>2. Off
    BY <2>1 DEF Poll, Stage, Off, clients, faults, logv
  <2>3. CASE Poll(n)
    <3>1. /\ Frame(n) /\ UNCHANGED <<store, pending, ns, lk, skips>>
          /\ ~Polling(n) /\ Advanced(n, EmptyStaging(store[n]))
      BY <1>0, <2>3, PollIs
    <3>2. Staged1(n, EmptyStaging(store[n]))
      BY <2>2, <3>1 DEF Staged1, Frame
    <3> QED BY <3>2 DEF Kinds
  <2>4. CASE Stage(n)
    <3>1. /\ Frame(n) /\ UNCHANGED <<store, pending, ns, lk, skips>>
          /\ Polling(n) /\ Advanced(n, hy[n].batch)
      BY <1>0, <2>4, StageIs
    <3>2. Staged1(n, hy[n].batch)
      BY <2>2, <3>1 DEF Staged1, Frame
    <3> QED BY <3>2 DEF Kinds
  <2> QED BY <2>1, <2>3, <2>4
<1>17. CASE \E n \in Nodes : enter_halt_mode(n)
  <2>1. PICK n \in Nodes : enter_halt_mode(n)
    BY <1>17
  <2>2. /\ Frame(n) /\ UNCHANGED <<pending, hy, ns, lk, skips>>
        /\ store'[n].last = store[n].last /\ store'[n].comps = store[n].comps
    BY <1>0, <2>1, HaltIs
  <2>3. UNCHANGED <<log, intents, st, by, restarts, rolled, forgot>>
    BY <2>1 DEF enter_halt_mode, clients, faults, logv
  <2>4. QuietAt(n)
    BY <2>2 DEF QuietAt
  <2> QED BY <1>a, <2>2, <2>3, <2>4
<1>18. CASE \E n \in Nodes : Commit(n)
  <2>1. PICK n \in Nodes : Commit(n)
    BY <1>18
  <2> DEFINE g == hy[n].batch
  <2>2. /\ Frame(n) /\ UNCHANGED <<pending, lk>> /\ Polling(n) /\ BatchOK(g) /\ store'[n].last = g.last
        /\ DOMAIN store'[n].comps = (DOMAIN store[n].comps \cup DOMAIN g.puts) \ g.removes
        /\ ns'[n] = (ns[n] \/ g.ns) /\ skips'[n] = skips[n] \cup g.skipped
        /\ hy'[n].pc \in {"idle", "settle"} /\ Todo(hy'[n]) = DOMAIN g.puts \cup g.removes
    BY <1>0, <2>1, CommitIs
  <2>3. Off
    BY <2>1 DEF Commit, Off, clients, logv
  <2>4. g = hy[n].batch
    OBVIOUS
  <2> HIDE DEF g
  <2>5. Committed(n, g)
    BY <2>2, <2>3, <2>4, Zenon DEF Committed, Frame
  <2> QED BY <2>5 DEF Kinds
<1>19. CASE \E n \in Nodes : CommitFails(n)
  <2>1. PICK n \in Nodes : CommitFails(n)
    BY <1>19
  <2>2. Frame(n) /\ UNCHANGED <<store, pending, lk, skips>> /\ (ns[n] => ns'[n]) /\ hy'[n] = Idle
    BY <1>0, <2>1, CommitFailsIs
  <2>3. UNCHANGED <<log, intents, st, by, restarts, rolled, forgot>>
    BY <2>1 DEF CommitFails, clients, faults, logv
  <2>4. Todo(hy'[n]) = {} /\ hy'[n].pc = "idle"
    BY <2>2 DEF Todo, Idle
  <2>5. QuietAt(n)
    BY <2>2, <2>4 DEF QuietAt
  <2> QED BY <1>a, <2>2, <2>3, <2>5
<1>20. CASE \E n \in Nodes, x \in Comps : Invalidate(n, x)
  <2>1. PICK n \in Nodes, x \in Comps : Invalidate(n, x)
    BY <1>20
  <2>2. /\ Frame(n) /\ UNCHANGED <<store, pending, ns, lk, skips>> /\ hy'[n].pc = "drain"
        /\ Todo(hy'[n]) = Todo(hy[n])
    BY <1>0, <2>1, InvalidateIs
  <2>3. UNCHANGED <<log, intents, st, by, restarts, rolled, forgot>>
    BY <2>1 DEF Invalidate, clients, faults, logv
  <2>4. QuietAt(n)
    BY <2>2 DEF QuietAt
  <2> QED BY <1>a, <2>2, <2>3, <2>4
<1>21. CASE \E n \in Nodes : drain_pending(n)
  <2>1. PICK n \in Nodes : drain_pending(n)
    BY <1>21
  <2> DEFINE x == hy[n].id
  <2>2. /\ Frame(n) /\ UNCHANGED <<ns, lk, skips>>
        /\ store'[n].last = store[n].last /\ DOMAIN store'[n].comps = DOMAIN store[n].comps
        /\ x \in Todo(hy[n]) /\ DOMAIN pending'[n] = DOMAIN pending[n] \ {x}
        /\ hy'[n].pc \in {"idle", "settle"} /\ Todo(hy'[n]) \subseteq Todo(hy[n])
    BY <1>0, <2>1, DrainIs
  <2>3. Off
    BY <2>1 DEF drain_pending, Off, clients, faults, logv
  <2> HIDE DEF x
  <2>4. Drained(n, x)
    BY <2>2, <2>3 DEF Drained, Frame
  <2> QED BY <2>4 DEF Kinds
<1>22. CASE \E n \in Nodes : Restart(n) \/ Wipe(n)
  <2>1. PICK n \in Nodes : Restart(n) \/ Wipe(n)
    BY <1>22
  <2>2. /\ LoseMemory(n) /\ UNCHANGED rolled
    BY <2>1 DEF Restart, Wipe
  <2>3. /\ UNCHANGED <<log, intents, by, rolled>> /\ restarts' = restarts + 1
        /\ forgot' = forgot \cup DOMAIN pending[n]
    BY <2>2 DEF LoseMemory
  <2>4. \A x \in Comps : \/ st'[x] = st[x]
                         \/ st[x] \in {"fanning", "emitting", "deleting"} /\ st'[x] = "limbo"
    BY <2>2 DEF LoseMemory
  <2>5. CASE Restart(n)
    <3>1. Frame(n) /\ UNCHANGED <<store, skips>> /\ pending'[n] = Empty /\ hy'[n] = Idle /\ lk'[n] = Idle
      BY <1>0, <2>5, RestartIs
    <3>2. Restarted(n, FALSE)
      BY <2>3, <2>4, <3>1, EmptyIs DEF Restarted, Frame
    <3> QED BY <3>2 DEF Kinds
  <2>6. CASE Wipe(n)
    <3>1. /\ Frame(n) /\ store'[n] = EmptyStorage /\ skips'[n] = {} /\ pending'[n] = Empty
          /\ hy'[n] = Idle /\ lk'[n] = Idle /\ n \notin Ingress /\ n \in wiped'
      BY <1>0, <2>6, WipeIs DEF Wipe
    <3>2. n \notin DOMAIN reported'
      <4>1. reported' = Drop(reported, {n})
        BY <2>2 DEF LoseMemory
      <4> QED BY <4>1 DEF Drop
    <3>3. Restarted(n, TRUE)
      BY <2>3, <2>4, <3>1, <3>2, EmptyIs, EmptyStorageIs DEF Restarted, Frame
    <3> QED BY <3>3 DEF Kinds
  <2> QED BY <2>1, <2>5, <2>6
<1>23. CASE \E n \in Nodes : \/ PollNothing(n) \/ gather_voter_position(n) \/ advance_hydrator_watermark_round(n)
  BY <1>b, <1>23 DEF PollNothing, gather_voter_position, advance_hydrator_watermark_round,
                     volatile, faults, clients, logv
<1>24. CASE RoundSkipped \/ UNCHANGED vars
  BY <1>b, <1>24 DEF RoundSkipped, vars, volatile, faults, clients, logv
<1> QED
  BY <1>1, <1>2, <1>3, <1>4, <1>5, <1>6, <1>7, <1>8, <1>9, <1>10, <1>11, <1>12, <1>13, <1>14,
     <1>15, <1>16, <1>17, <1>18, <1>19, <1>20, <1>21, <1>22, <1>23, <1>24, Zenon DEF Next

-----------------------------------------------------------------------------
(* The requests against the log.                                             *)

\* The predicates of the invariant, of a log l.
OpIn(l, op, x) == \E i \in DOMAIN l : l[i].op = op /\ l[i].id = x
Dead(l, p, x) ==
  \E i, j \in 1 .. p : /\ i < j /\ l[i].op = "create" /\ l[j].op = "delete" /\ l[i].id = x /\ l[j].id = x
NsIn(l, p) == \E i \in 1 .. p : l[i].op = "ns"
NsBefore(l, x) == \E i, j \in DOMAIN l : i < j /\ l[i].op = "ns" /\ l[j].op = "create" /\ l[j].id = x
After(l, p, x) == \E i \in DOMAIN l : i > p /\ l[i].op = "create" /\ l[i].id = x
Replay(l, p) ==
  {x \in Comps : \E i \in 1 .. p : /\ l[i].op = "create" /\ l[i].id = x
                                   /\ \A j \in i + 1 .. p : ~(l[j].op = "delete" /\ l[j].id = x)}
Once(l) == \A x \in Comps : \A i, j \in DOMAIN l :
  l[i].op = "create" /\ l[i].id = x /\ l[j].op = "create" /\ l[j].id = x => i = j
Placed(l) == \A i \in DOMAIN l : l[i].at = i

\* The request of one composition: its state, whether its create is pending,
\* the log, and the overlays.
RequestOK(s, pend, l, x, held) ==
  /\ OpIn(l, "delete", x) => s \in {"deleting", "deleted", "limbo"}
  /\ pend => ~OpIn(l, "create", x)
  /\ IF s = "unused" THEN ~pend /\ ~OpIn(l, "create", x) /\ ~held
                     ELSE pend \/ OpIn(l, "create", x)

(* The invariant of the requests, in those terms. *)
LEMMA RequestsAre ==
  /\ RequestsInv <=>
       /\ Placed(log) /\ Once(log)
       /\ \A x \in Comps : RequestOK(st[x], x \in intents, log, x, \E n \in Nodes : x \in DOMAIN pending[n])
  /\ RequestsInv' <=>
       /\ Placed(log') /\ Once(log')
       /\ \A x \in Comps : RequestOK(st'[x], x \in intents', log', x, \E n \in Nodes : x \in DOMAIN pending'[n])
BY DEF RequestsInv, Placed, Once, RequestOK, OpIn, DeltaOf, Created

(* An append changes the predicates of the log at its end only. *)
LEMMA LogFrame ==
  ASSUME log \in Seq(Deltas), NEW d, Appended(d)
  PROVE  /\ \A op, x : OpIn(log', op, x) <=> OpIn(log, op, x) \/ (d.op = op /\ d.id = x)
         /\ \A p \in 0 .. Len(log) : \A x : Dead(log', p, x) <=> Dead(log, p, x)
         /\ \A p \in 0 .. Len(log) : NsIn(log', p) <=> NsIn(log, p)
         /\ \A p \in 0 .. Len(log) : Replay(log', p) = Replay(log, p)
         /\ \A p \in 0 .. Len(log) : \A x :
              After(log', p, x) <=> After(log, p, x) \/ (d.op = "create" /\ d.id = x)
<1>1. /\ Len(log) \in Nat /\ DOMAIN log = 1 .. Len(log) /\ DOMAIN log' = 1 .. Len(log) + 1
      /\ \A i \in 1 .. Len(log) : log'[i] = log[i]
      /\ log'[Len(log) + 1] = d
  BY AppendedIs
<1>2. DOMAIN log' = DOMAIN log \cup {Len(log) + 1}
  BY <1>1
<1>3. \A op, x : OpIn(log', op, x) <=> OpIn(log, op, x) \/ (d.op = op /\ d.id = x)
  <2> TAKE op, x
  <2> QED BY <1>1, <1>2 DEF OpIn
<1>4. \A p \in 0 .. Len(log) : \A x : Dead(log', p, x) <=> Dead(log, p, x)
  <2> TAKE p \in 0 .. Len(log)
  <2> TAKE x
  <2>1. \A i \in 1 .. p : log'[i] = log[i]
    BY <1>1
  <2> QED BY <2>1 DEF Dead
<1>5. \A p \in 0 .. Len(log) : NsIn(log', p) <=> NsIn(log, p)
  <2> TAKE p \in 0 .. Len(log)
  <2>1. \A i \in 1 .. p : log'[i] = log[i]
    BY <1>1
  <2> QED BY <2>1 DEF NsIn
<1>6. \A p \in 0 .. Len(log) : Replay(log', p) = Replay(log, p)
  <2> TAKE p \in 0 .. Len(log)
  <2>1. \A i \in 1 .. p : log'[i] = log[i]
    BY <1>1
  <2>2. \A i \in 1 .. p : \A j \in i + 1 .. p : j \in 1 .. p
    BY <1>1
  <2> QED BY <2>1, <2>2 DEF Replay
<1>7. \A p \in 0 .. Len(log) : \A x :
        After(log', p, x) <=> After(log, p, x) \/ (d.op = "create" /\ d.id = x)
  <2> TAKE p \in 0 .. Len(log)
  <2> TAKE x
  <2>1. Len(log) + 1 > p
    BY <1>1
  <2> QED BY <1>1, <1>2, <2>1 DEF After
<1> QED BY <1>3, <1>4, <1>5, <1>6, <1>7

(* An append keeps positions and the uniqueness of creates. *)
LEMMA OnceFrame ==
  ASSUME log \in Seq(Deltas), NEW d, Appended(d), Placed(log), Once(log),
         d.op = "create" => ~OpIn(log, "create", d.id)
  PROVE  Placed(log') /\ Once(log')
<1>1. /\ Len(log) \in Nat /\ DOMAIN log = 1 .. Len(log) /\ DOMAIN log' = 1 .. Len(log) + 1
      /\ \A i \in 1 .. Len(log) : log'[i] = log[i]
      /\ log'[Len(log) + 1] = d /\ d.at = Len(log) + 1
  BY AppendedIs DEF Appended
<1>2. Placed(log')
  BY <1>1 DEF Placed
<1>3. Once(log')
  <2> SUFFICES ASSUME NEW x \in Comps, NEW i \in DOMAIN log', NEW j \in DOMAIN log',
                      log'[i].op = "create", log'[i].id = x, log'[j].op = "create", log'[j].id = x
               PROVE  i = j
    BY DEF Once
  <2>1. i \in DOMAIN log \/ i = Len(log) + 1
    BY <1>1
  <2>2. j \in DOMAIN log \/ j = Len(log) + 1
    BY <1>1
  <2>3. CASE i \in DOMAIN log /\ j \in DOMAIN log
    BY <1>1, <2>3 DEF Once
  <2>4. CASE i \in DOMAIN log /\ j = Len(log) + 1
    BY <1>1, <2>4 DEF OpIn
  <2>5. CASE i = Len(log) + 1 /\ j \in DOMAIN log
    BY <1>1, <2>5 DEF OpIn
  <2> QED BY <2>1, <2>2, <2>3, <2>4, <2>5
<1> QED BY <1>2, <1>3

\* While the log stands still: what a step may do to the requests.
RequestStep(x) ==
  /\ st'[x] = "unused" => /\ st[x] = "unused" /\ (x \in intents' => x \in intents)
                          /\ \A m \in Nodes : x \in DOMAIN pending'[m] => x \in DOMAIN pending[m]
  /\ st'[x] # "unused" => (st[x] # "unused" /\ (x \in intents => x \in intents')) \/ x \in intents'
  /\ x \in intents' => x \in intents \/ st[x] = "unused"
  /\ st[x] \in {"deleting", "deleted", "limbo"} => st'[x] \in {"deleting", "deleted", "limbo"}

(* The requests are in order while the log stands still. *)
LEMMA RequestFrame ==
  ASSUME RequestsInv, UNCHANGED log, \A x \in Comps : RequestStep(x)
  PROVE  RequestsInv'
<1>1. ASSUME NEW x \in Comps
      PROVE  RequestOK(st'[x], x \in intents', log', x, \E n \in Nodes : x \in DOMAIN pending'[n])
  <2>1. RequestOK(st[x], x \in intents, log, x, \E n \in Nodes : x \in DOMAIN pending[n])
    BY RequestsAre
  <2> QED BY <2>1 DEF RequestOK, RequestStep
<1> QED BY <1>1, RequestsAre

(* The requests stay in order. *)
LEMMA RequestsStep ==
  ASSUME TypeOK, RequestsInv, Kinds
  PROVE  RequestsInv'
<1>0. log \in Seq(Deltas)
  BY DEF TypeOK, LogOK
<1>1. CASE Quiet
  <2>1. \A x \in Comps : RequestStep(x)
    BY <1>1 DEF Quiet, QuietAt, RequestStep
  <2> QED BY <1>1, <2>1, RequestFrame DEF Quiet
<1>2. CASE Named
  <2>1. CASE UNCHANGED log
    <3>1. \A x \in Comps : RequestStep(x)
      BY <1>2 DEF Named, Still, RequestStep
    <3> QED BY <2>1, <3>1, RequestFrame
  <2>2. CASE \E d : Appended(d) /\ d.op = "ns"
    <3>1. PICK d : Appended(d) /\ d.op = "ns"
      BY <2>2
    <3>2. Placed(log') /\ Once(log')
      BY <1>0, <3>1, OnceFrame, RequestsAre
    <3>3. \A op, x : OpIn(log', op, x) <=> OpIn(log, op, x) \/ (d.op = op /\ d.id = x)
      BY <1>0, <3>1, LogFrame
    <3>4. UNCHANGED <<st, intents, pending>>
      BY <1>2 DEF Named, Still
    <3>5. ASSUME NEW x \in Comps
          PROVE  RequestOK(st'[x], x \in intents', log', x, \E n \in Nodes : x \in DOMAIN pending'[n])
      <4>1. RequestOK(st[x], x \in intents, log, x, \E n \in Nodes : x \in DOMAIN pending[n])
        BY RequestsAre
      <4>2. (OpIn(log', "create", x) <=> OpIn(log, "create", x)) /\ (OpIn(log', "delete", x) <=> OpIn(log, "delete", x))
        BY <3>1, <3>3
      <4> QED BY <3>4, <4>1, <4>2 DEF RequestOK
    <3> QED BY <3>2, <3>5, RequestsAre
  <2> QED BY <1>2, <2>1, <2>2 DEF Named
<1>3. CASE \E y \in Comps : Answered(y)
  <2>1. PICK y \in Comps : Answered(y)
    BY <1>3
  <2>2. \A x \in Comps : RequestStep(x)
    BY <2>1 DEF Answered, Still, Only, RequestStep
  <2> QED BY <2>1, <2>2, RequestFrame DEF Answered
<1>4. CASE \E y \in Comps : Incorporated(y)
  <2>1. PICK y \in Comps : Incorporated(y)
    BY <1>4
  <2>2. PICK d : Appended(d) /\ d.op = "create" /\ d.id = y
    BY <2>1 DEF Incorporated
  <2>3. y \in intents /\ intents' = intents \ {y} /\ UNCHANGED <<st, pending>>
    BY <2>1 DEF Incorporated, Still
  <2>4. \A x \in Comps : RequestOK(st[x], x \in intents, log, x, \E n \in Nodes : x \in DOMAIN pending[n])
    BY RequestsAre
  <2>5. ~OpIn(log, "create", y)
    BY <2>3, <2>4 DEF RequestOK
  <2>6. Placed(log') /\ Once(log')
    BY <1>0, <2>2, <2>5, OnceFrame, RequestsAre
  <2>7. \A op, x : OpIn(log', op, x) <=> OpIn(log, op, x) \/ (d.op = op /\ d.id = x)
    BY <1>0, <2>2, LogFrame
  <2>8. ASSUME NEW x \in Comps
        PROVE  RequestOK(st'[x], x \in intents', log', x, \E n \in Nodes : x \in DOMAIN pending'[n])
    <3>1. RequestOK(st[x], x \in intents, log, x, \E n \in Nodes : x \in DOMAIN pending[n])
      BY <2>4
    <3>2. /\ OpIn(log', "create", x) <=> OpIn(log, "create", x) \/ x = y
          /\ OpIn(log', "delete", x) <=> OpIn(log, "delete", x)
      BY <2>2, <2>7
    <3> QED BY <2>3, <3>1, <3>2 DEF RequestOK
  <2> QED BY <2>6, <2>8, RequestsAre
<1>5. CASE \E y \in Comps : DeleteSent(y)
  <2>1. PICK y \in Comps : DeleteSent(y)
    BY <1>5
  <2>2. PICK d : Appended(d) /\ d.op = "delete" /\ d.id = y
    BY <2>1 DEF DeleteSent
  <2>3. /\ UNCHANGED <<intents, pending>> /\ st[y] = "acked" /\ st'[y] = "deleting"
        /\ \A x \in Comps \ {y} : st'[x] = st[x]
    BY <2>1 DEF DeleteSent, Still, Only
  <2>4. Placed(log') /\ Once(log')
    BY <1>0, <2>2, OnceFrame, RequestsAre
  <2>5. \A op, x : OpIn(log', op, x) <=> OpIn(log, op, x) \/ (d.op = op /\ d.id = x)
    BY <1>0, <2>2, LogFrame
  <2>6. ASSUME NEW x \in Comps
        PROVE  RequestOK(st'[x], x \in intents', log', x, \E n \in Nodes : x \in DOMAIN pending'[n])
    <3>1. RequestOK(st[x], x \in intents, log, x, \E n \in Nodes : x \in DOMAIN pending[n])
      BY RequestsAre
    <3>2. /\ OpIn(log', "create", x) <=> OpIn(log, "create", x)
          /\ OpIn(log', "delete", x) <=> OpIn(log, "delete", x) \/ x = y
      BY <2>2, <2>5
    <3> QED BY <2>3, <3>1, <3>2 DEF RequestOK
  <2> QED BY <2>4, <2>6, RequestsAre
<1>6. CASE \E n \in Nodes, y \in Comps : Submitted(n, y)
  <2>1. PICK n \in Nodes, y \in Comps : Submitted(n, y)
    BY <1>6
  <2>2. \A x \in Comps : RequestStep(x)
    <3> TAKE x \in Comps
    <3>1. CASE x = y
      BY <2>1, <3>1 DEF Submitted, RequestStep
    <3>2. CASE x # y
      <4>1. st'[x] = st[x] /\ (x \in intents' <=> x \in intents)
        BY <2>1, <3>2 DEF Submitted, Only
      <4>2. \A m \in Nodes : x \in DOMAIN pending'[m] => x \in DOMAIN pending[m]
        BY <2>1, <3>2 DEF Submitted, Same
      <4> QED BY <4>1, <4>2 DEF RequestStep
    <3> QED BY <3>1, <3>2
  <2> QED BY <2>1, <2>2, RequestFrame DEF Submitted
<1>7. CASE \E n \in Nodes, y \in Comps : Withdrawn(n, y)
  <2>1. PICK n \in Nodes, y \in Comps : Withdrawn(n, y)
    BY <1>7
  <2>2. \A m \in Nodes : DOMAIN pending'[m] \subseteq DOMAIN pending[m]
    BY <2>1 DEF Withdrawn, Same
  <2>3. \A x \in Comps : RequestStep(x)
    BY <2>1, <2>2 DEF Withdrawn, Only, RequestStep
  <2> QED BY <2>1, <2>3, RequestFrame DEF Withdrawn
<1>8. CASE \/ \E n \in Nodes, x \in Comps : TypeLocked(n, x)
           \/ \E n \in Nodes : TypeWritten(n)
           \/ \E n \in Nodes : \E g : Staged1(n, g)
           \/ \E n \in Nodes : \E g : Committed(n, g)
  <2>1. UNCHANGED <<log, intents, st, pending>>
    BY <1>8 DEF TypeLocked, TypeWritten, Staged1, Committed, Off
  <2>2. \A x \in Comps : RequestStep(x)
    BY <2>1 DEF RequestStep
  <2> QED BY <2>1, <2>2, RequestFrame
<1>9. CASE \E n \in Nodes : \E y : Drained(n, y)
  <2>0. PICK n \in Nodes : \E y : Drained(n, y)
    BY <1>9
  <2>1. PICK y : Drained(n, y)
    BY <2>0
  <2>2. \A m \in Nodes : DOMAIN pending'[m] \subseteq DOMAIN pending[m]
    BY <2>1 DEF Drained, Same
  <2>3. UNCHANGED <<log, intents, st>>
    BY <2>1 DEF Drained, Off
  <2>4. \A x \in Comps : RequestStep(x)
    BY <2>2, <2>3 DEF RequestStep
  <2> QED BY <2>3, <2>4, RequestFrame
<1>10. CASE \E n \in Nodes, wipe \in BOOLEAN : Restarted(n, wipe)
  <2>1. PICK n \in Nodes, wipe \in BOOLEAN : Restarted(n, wipe)
    BY <1>10
  <2>2. \A m \in Nodes : DOMAIN pending'[m] \subseteq DOMAIN pending[m]
    BY <2>1 DEF Restarted, Same
  <2>3. \A x \in Comps : RequestStep(x)
    BY <2>1, <2>2 DEF Restarted, RequestStep
  <2> QED BY <2>1, <2>3, RequestFrame DEF Restarted
<1> QED BY <1>1, <1>2, <1>3, <1>4, <1>5, <1>6, <1>7, <1>8, <1>9, <1>10, Zenon DEF Kinds

-----------------------------------------------------------------------------
(* The positions.                                                            *)

(* Staging moves on by one position at most. *)
LEMMA AdvancedIs ==
  ASSUME TypeOK, Placed(log), NEW n \in Nodes, NEW g, Advanced(n, g)
  PROVE  LET p == g.last
             h == hy'[n].batch IN
         /\ p \in Nat /\ p + 1 \in DOMAIN log /\ p < Len(log) /\ Len(log) \in Nat
         /\ log[p + 1].at = p + 1 /\ (h.last = p \/ h.last = p + 1)
         /\ log[p + 1].op # "ns" => log[p + 1].id \in Comps
         /\ store[n].last \in Nat /\ hy'[n].to \in Nat
<1>1. g.last \in Nat /\ hy'[n].to \in Nat /\ BatchOK(hy'[n].batch)
  BY DEF Advanced, BatchOK, PollOK, Idle
<1>2. log \in Seq(Deltas) /\ Len(log) \in Nat
  BY DEF TypeOK, LogOK
<1>3. g.last < hy'[n].to /\ hy'[n].to <= Len(log)
  BY DEF Advanced
<1>4. g.last + 1 \in DOMAIN log
  BY <1>1, <1>2, <1>3
<1>5. log[g.last + 1].at = g.last + 1
  BY <1>4 DEF Placed
<1>6. hy'[n].batch.last = g.last \/ hy'[n].batch.last = g.last + 1
  BY <1>5 DEF Advanced, StageEffect
<1>7. store[n].last \in Nat
  BY DEF TypeOK, NodesOK, NodeOK, StorageOK
<1>8. log[g.last + 1].op # "ns" => log[g.last + 1].id \in Comps
  BY DEF Advanced, Deltas
<1> QED BY <1>1, <1>2, <1>3, <1>4, <1>5, <1>6, <1>7, <1>8

\* Where the poll of n stands.
PollAt(n) == store[n].last <= hy[n].batch.last /\ hy[n].batch.last <= hy[n].to /\ hy[n].to <= Len(log)

(* A poll stands between the durable position and the end of the log. *)
LEMMA PollsStep ==
  ASSUME TypeOK, RequestsInv, PositionsInv, Kinds, Grows, NEW n \in Nodes, Polling(n)'
  PROVE  PollAt(n)'
<1>0. hy'[n].pc = "staging"
  BY DEF Polling
<1>1. Polling(n) => PollAt(n) /\ hy[n].to \in Nat /\ Len(log) <= Len(log')
  BY DEF PositionsInv, PollAt, Polling, TypeOK, NodesOK, NodeOK, PollOK, Idle, Grows
<1>2. ASSUME hy'[n] = hy[n], store'[n].last = store[n].last
      PROVE  PollAt(n)'
  BY <1>0, <1>1, <1>2 DEF PollAt, Polling, Grows
<1>3. CASE Quiet
  BY <1>0, <1>2, <1>3 DEF Quiet, QuietAt
<1>4. CASE Named \/ \E x \in Comps : Answered(x) \/ Incorporated(x) \/ DeleteSent(x)
  <2>1. Still
    BY <1>4 DEF Named, Answered, Incorporated, DeleteSent
  <2> QED BY <1>2, <2>1 DEF Still
<1>5. CASE \E m \in Nodes, x \in Comps : Submitted(m, x) \/ Withdrawn(m, x) \/ TypeLocked(m, x)
  <2>1. PICK m \in Nodes, x \in Comps : Submitted(m, x) \/ Withdrawn(m, x) \/ TypeLocked(m, x)
    BY <1>5
  <2>2. hy'[n] = hy[n] /\ store'[n].last = store[n].last
    BY <2>1 DEF Submitted, Withdrawn, TypeLocked, Same
  <2> QED BY <1>2, <2>2
<1>6. CASE \E m \in Nodes : TypeWritten(m)
  BY <1>2, <1>6 DEF TypeWritten, Same
<1>7. CASE \E m \in Nodes : \E g : Staged1(m, g)
  <2>0. PICK m \in Nodes : \E g : Staged1(m, g)
    BY <1>7
  <2>1. PICK g : Staged1(m, g)
    BY <2>0
  <2>2. CASE m # n
    BY <1>2, <2>1, <2>2 DEF Staged1, Same
  <2>3. CASE m = n
    <3>1. Advanced(n, g) /\ UNCHANGED <<store, log>>
      BY <2>1, <2>3 DEF Staged1, Off
    <3>2. Placed(log)
      BY RequestsAre
    <3>3. /\ g.last \in Nat /\ hy'[n].to \in Nat /\ store[n].last \in Nat
          /\ hy'[n].batch.last = g.last \/ hy'[n].batch.last = g.last + 1
      BY <3>1, <3>2, AdvancedIs
    <3>4. store[n].last <= g.last /\ g.last < hy'[n].to /\ hy'[n].to <= Len(log)
      BY <3>1 DEF Advanced
    <3> QED BY <3>1, <3>3, <3>4 DEF PollAt
  <2> QED BY <2>2, <2>3
<1>8. CASE \E m \in Nodes : \E g : Committed(m, g)
  <2>0. PICK m \in Nodes : \E g : Committed(m, g)
    BY <1>8
  <2>1. PICK g : Committed(m, g)
    BY <2>0
  <2>2. m # n
    BY <1>0, <2>1 DEF Committed
  <2> QED BY <1>2, <2>1, <2>2 DEF Committed, Same
<1>9. CASE \E m \in Nodes : \E x : Drained(m, x)
  <2>0. PICK m \in Nodes : \E x : Drained(m, x)
    BY <1>9
  <2>1. PICK x : Drained(m, x)
    BY <2>0
  <2>2. m # n
    BY <1>0, <2>1 DEF Drained
  <2> QED BY <1>2, <2>1, <2>2 DEF Drained, Same
<1>10. CASE \E m \in Nodes, wipe \in BOOLEAN : Restarted(m, wipe)
  <2>1. PICK m \in Nodes, wipe \in BOOLEAN : Restarted(m, wipe)
    BY <1>10
  <2>2. m # n
    BY <1>0, <2>1 DEF Restarted, Idle
  <2> QED BY <1>2, <2>1, <2>2 DEF Restarted, Same
<1> QED BY <1>3, <1>4, <1>5, <1>6, <1>7, <1>8, <1>9, <1>10, Zenon DEF Kinds

(* The durable position of a node moves forward, unless its store is wiped. *)
LEMMA LastStep ==
  ASSUME TypeOK, PositionsInv, Kinds, NEW n \in Nodes
  PROVE  store[n].last <= store'[n].last \/ (n \in wiped' /\ n \notin DOMAIN reported')
<1>0. store[n].last \in Nat
  BY DEF TypeOK, NodesOK, NodeOK, StorageOK
<1>1. ASSUME store'[n].last = store[n].last
      PROVE  store[n].last <= store'[n].last
  BY <1>0, <1>1
<1>2. CASE Quiet
  BY <1>1, <1>2 DEF Quiet, QuietAt
<1>3. CASE Named \/ \E x \in Comps : Answered(x) \/ Incorporated(x) \/ DeleteSent(x)
  <2>1. Still
    BY <1>3 DEF Named, Answered, Incorporated, DeleteSent
  <2> QED BY <1>1, <2>1 DEF Still
<1>4. CASE \E m \in Nodes, x \in Comps : Submitted(m, x) \/ Withdrawn(m, x) \/ TypeLocked(m, x)
  <2>1. PICK m \in Nodes, x \in Comps : Submitted(m, x) \/ Withdrawn(m, x) \/ TypeLocked(m, x)
    BY <1>4
  <2>2. store'[n].last = store[n].last
    BY <2>1 DEF Submitted, Withdrawn, TypeLocked, Same
  <2> QED BY <1>1, <2>2
<1>5. CASE \E m \in Nodes : TypeWritten(m)
  BY <1>1, <1>5 DEF TypeWritten, Same
<1>6. CASE \E m \in Nodes : \E g : Staged1(m, g)
  BY <1>1, <1>6 DEF Staged1
<1>7. CASE \E m \in Nodes : \E g : Committed(m, g)
  <2>0. PICK m \in Nodes : \E g : Committed(m, g)
    BY <1>7
  <2>1. PICK g : Committed(m, g)
    BY <2>0
  <2>2. CASE m # n
    BY <1>1, <2>1, <2>2 DEF Committed, Same
  <2>3. CASE m = n
    <3>1. Polling(n) /\ g = hy[n].batch /\ store'[n].last = g.last
      BY <2>1, <2>3 DEF Committed
    <3> QED BY <3>1 DEF PositionsInv
  <2> QED BY <2>2, <2>3
<1>8. CASE \E m \in Nodes : \E x : Drained(m, x)
  BY <1>1, <1>8 DEF Drained, Same
<1>9. CASE \E m \in Nodes, wipe \in BOOLEAN : Restarted(m, wipe)
  <2>1. PICK m \in Nodes, wipe \in BOOLEAN : Restarted(m, wipe)
    BY <1>9
  <2>2. CASE m # n
    BY <1>1, <2>1, <2>2 DEF Restarted, Same
  <2>3. CASE m = n
    BY <1>1, <2>1, <2>3 DEF Restarted
  <2> QED BY <2>2, <2>3
<1> QED BY <1>2, <1>3, <1>4, <1>5, <1>6, <1>7, <1>8, <1>9, Zenon DEF Kinds

\* What a step may report and gather.
ReportsOf ==
  /\ wiped \subseteq wiped'
  /\ \A m \in DOMAIN reported' : \/ m \in DOMAIN reported /\ reported'[m] = reported[m]
                                 \/ reported'[m] = store'[m].last
  /\ \A m \in DOMAIN gathered' : \/ m \in DOMAIN gathered /\ gathered'[m] = gathered[m]
                                 \/ m \in DOMAIN reported /\ gathered'[m] = reported[m]
  /\ \/ wm' = wm
     \/ \A m \in Nodes : \/ m \in DOMAIN gathered /\ wm' <= gathered[m]
                         \/ m \in DOMAIN reported /\ wm' <= reported[m]

(* A report is of the position the node has then. *)
LEMMA ReportedIs ==
  ASSUME NEW n \in Nodes, NEW p, report_consumer_position(n, p), p = store'[n].last
  PROVE  \A m \in DOMAIN reported' : \/ m \in DOMAIN reported /\ reported'[m] = reported[m]
                                     \/ reported'[m] = store'[m].last
BY DEF report_consumer_position, Bind

(* Every step reports and gathers so. *)
LEMMA ReportStep ==
  ASSUME TypeOK, PositionsInv, [Next]_vars
  PROVE  ReportsOf
<1>0. Tables /\ LogOK /\ MarksOK /\ \A n \in Nodes : NodeOK(n)
  BY TablesOK DEF TypeOK
<1>a. ASSUME UNCHANGED <<wm, marks, wiped>>
      PROVE  ReportsOf
  BY <1>a DEF ReportsOf, marks
<1>1. CASE \E n \in Nodes : Commit(n)
  <2>1. PICK n \in Nodes : Commit(n)
    BY <1>1
  <2>2. PICK p : p = hy[n].batch.last
    OBVIOUS
  <2>3. report_consumer_position(n, p) /\ UNCHANGED <<wm, gathered, wiped>>
    BY <2>1, <2>2 DEF Commit, logv
  <2>4. p = store'[n].last
    BY <1>0, <2>1, <2>2, CommitIs
  <2> QED BY <2>3, <2>4, ReportedIs DEF ReportsOf
<1>2. CASE \E n \in Nodes : \/ enter_halt_mode(n) \/ PollNothing(n) \/ CommitFails(n) \/ drain_pending(n)
  <2>1. PICK n \in Nodes : \/ enter_halt_mode(n) \/ PollNothing(n) \/ CommitFails(n) \/ drain_pending(n)
    BY <1>2
  <2>2. PICK p : p = store[n].last
    OBVIOUS
  <2>3. report_consumer_position(n, p) /\ UNCHANGED <<wm, gathered, wiped>>
    BY <2>1, <2>2 DEF enter_halt_mode, PollNothing, CommitFails, drain_pending, faults, logv
  <2>4. p = store'[n].last
    <3>1. CASE enter_halt_mode(n)
      BY <1>0, <2>2, <3>1, HaltIs
    <3>2. CASE drain_pending(n)
      BY <1>0, <2>2, <3>2, DrainIs
    <3>3. CASE PollNothing(n) \/ CommitFails(n)
      BY <2>2, <3>3 DEF PollNothing, CommitFails
    <3> QED BY <2>1, <3>1, <3>2, <3>3
  <2> QED BY <2>3, <2>4, ReportedIs DEF ReportsOf
<1>3. CASE \E n \in Nodes : gather_voter_position(n)
  <2>1. PICK n \in Nodes : gather_voter_position(n)
    BY <1>3
  <2>2. /\ n \in DOMAIN reported /\ gathered' = Bind(gathered, n, reported[n])
        /\ UNCHANGED <<wm, reported, wiped>>
    BY <2>1 DEF gather_voter_position, faults, logv
  <2> QED BY <2>2 DEF ReportsOf, Bind
<1>4. CASE \E n \in Nodes : advance_hydrator_watermark_round(n)
  <2>1. PICK n \in Nodes : advance_hydrator_watermark_round(n)
    BY <1>4
  <2>2. wm' = wm \/ \A m \in Nodes : wm' <= IF m = n THEN reported[n] ELSE gathered[m]
    BY <1>0, <2>1, RoundIs
  <2>3. /\ n \in DOMAIN reported /\ DOMAIN gathered \cup {n} = Nodes
        /\ gathered' = Empty /\ UNCHANGED <<reported, wiped>>
    BY <2>1 DEF advance_hydrator_watermark_round, faults
  <2>4. wm' = wm \/ \A m \in Nodes : \/ m \in DOMAIN gathered /\ wm' <= gathered[m]
                                     \/ m \in DOMAIN reported /\ wm' <= reported[m]
    BY <2>2, <2>3
  <2> QED BY <2>3, <2>4, EmptyIs DEF ReportsOf
<1>5. CASE RoundSkipped
  BY <1>5, EmptyIs DEF RoundSkipped, ReportsOf, faults, logv
<1>6. CASE \E n \in Nodes : Restart(n) \/ Wipe(n)
  <2>1. PICK n \in Nodes : Restart(n) \/ Wipe(n)
    BY <1>6
  <2>2. reported' = Drop(reported, {n}) /\ UNCHANGED <<wm, gathered>> /\ wiped \subseteq wiped'
    BY <2>1 DEF Restart, Wipe, LoseMemory
  <2>3. \A m \in DOMAIN reported' : m \in DOMAIN reported /\ reported'[m] = reported[m]
    BY <2>2 DEF Drop
  <2> QED BY <2>2, <2>3 DEF ReportsOf
<1>7. CASE \E n \in Nodes : NamespaceEmitFails(n)
  BY <1>a, <1>7 DEF NamespaceEmitFails
<1>8. CASE \E x \in Comps : \/ PutAcked(x) \/ PutFails(x) \/ Incorporate(x) \/ DeleteLocal(x) \/ DeleteFails(x)
  BY <1>a, <1>8 DEF PutAcked, PutFails, Incorporate, DeleteLocal, DeleteFails, faults, logv
<1>9. CASE \E n \in Nodes : \/ RegisterNamespace(n) \/ NamespaceCommitted(n)
                            \/ GetFill(n) \/ SetTypeWrite(n) \/ Poll(n) \/ Stage(n)
  BY <1>a, <1>9 DEF RegisterNamespace, NamespaceCommitted, GetFill, SetTypeWrite, Poll, Stage, faults, logv
<1>10. CASE \E n \in Nodes, x \in Comps : \/ GetMiss(n, x) \/ SetTypePending(n, x)
                                          \/ SetTypeRead(n, x) \/ Invalidate(n, x)
  BY <1>a, <1>10, ZenonT(30) DEF GetMiss, SetTypePending, SetTypeRead, Invalidate, faults, logv
<1>11. CASE \E n \in Nodes, x \in Comps : DeleteEmit(n, x) \/ PutSync(n, x)
  BY <1>a, <1>11 DEF DeleteEmit, PutSync, faults
<1>12. CASE \E n \in Nodes, x \in Comps, k \in Names : PutVolatile(n, x, k) \/ PutOverflow(n, x, k)
  BY <1>a, <1>12 DEF PutVolatile, PutOverflow, faults
<1>13. CASE UNCHANGED vars
  BY <1>a, <1>13 DEF vars, marks
<1> QED
  BY <1>1, <1>2, <1>3, <1>4, <1>5, <1>6, <1>7, <1>8, <1>9, <1>10, <1>11, <1>12, <1>13, Zenon DEF Next

(* The positions stay in order. *)
LEMMA PositionsStep ==
  ASSUME TypeOK, RequestsInv, PositionsInv, [Next]_vars
  PROVE  PositionsInv'
<1>0. Kinds /\ Grows /\ ReportsOf
  BY KindsIs, LogGrows, ReportStep DEF TypeOK
<1> SUFFICES ASSUME NEW n \in Nodes
             PROVE  /\ Polling(n)' => PollAt(n)'
                    /\ n \in DOMAIN reported' => reported'[n] <= store'[n].last
                    /\ n \notin wiped' => /\ wm' <= store'[n].last
                                          /\ n \in DOMAIN gathered' => gathered'[n] <= store'[n].last
  BY DEF PositionsInv, PollAt
<1>1. Polling(n)' => PollAt(n)'
  BY <1>0, PollsStep
<1>2. store[n].last <= store'[n].last \/ (n \in wiped' /\ n \notin DOMAIN reported')
  BY <1>0, LastStep
<1>3. /\ n \in DOMAIN reported => reported[n] <= store[n].last
      /\ n \notin wiped => /\ wm <= store[n].last
                           /\ n \in DOMAIN gathered => gathered[n] <= store[n].last
  BY DEF PositionsInv
<1>4. TypeOK'
  BY TypeStep
<1>5. store[n].last \in Nat /\ store'[n].last \in Nat /\ wm \in Nat /\ wm' \in Nat
  BY <1>4 DEF TypeOK, NodesOK, NodeOK, StorageOK, LogOK
<1>6. /\ n \in DOMAIN reported => reported[n] \in Nat
      /\ n \in DOMAIN gathered => gathered[n] \in Nat
  BY DEF TypeOK, MarksOK, PFun
<1>7. n \in DOMAIN reported' => reported'[n] <= store'[n].last
  BY <1>0, <1>2, <1>3, <1>5, <1>6 DEF ReportsOf
<1>8. n \notin wiped' => wm' <= store'[n].last
  BY <1>0, <1>2, <1>3, <1>5, <1>6 DEF ReportsOf
<1>9. n \notin wiped' /\ n \in DOMAIN gathered' => gathered'[n] <= store'[n].last
  BY <1>0, <1>2, <1>3, <1>5, <1>6 DEF ReportsOf
<1> QED BY <1>1, <1>7, <1>8, <1>9

-----------------------------------------------------------------------------
(* Staging one more delta.                                                   *)

(* What the delta at p + 1 adds to the predicates of a log prefix. *)
LEMMA Prefix ==
  ASSUME NEW l, NEW p \in Nat
  PROVE  /\ NsIn(l, p + 1) <=> NsIn(l, p) \/ l[p + 1].op = "ns"
         /\ \A x : Dead(l, p + 1, x) => \/ Dead(l, p, x)
                                        \/ l[p + 1].op = "delete" /\ l[p + 1].id = x
         /\ \A x : l[p + 1].op = "create" /\ l[p + 1].id = x /\ Dead(l, p + 1, x)
                     => \E i \in 1 .. p : l[i].op = "create" /\ l[i].id = x
<1>0. 1 .. p + 1 = (1 .. p) \cup {p + 1} /\ p + 1 \notin 1 .. p
  OBVIOUS
<1>1. NsIn(l, p + 1) <=> NsIn(l, p) \/ l[p + 1].op = "ns"
  BY <1>0 DEF NsIn
<1>2. ASSUME NEW x, Dead(l, p + 1, x)
      PROVE  \/ Dead(l, p, x) /\ \E i \in 1 .. p : l[i].op = "create" /\ l[i].id = x
             \/ l[p + 1].op = "delete" /\ l[p + 1].id = x
  <2>1. PICK i \in 1 .. p + 1, j \in 1 .. p + 1 :
          /\ i < j /\ l[i].op = "create" /\ l[j].op = "delete" /\ l[i].id = x /\ l[j].id = x
    BY <1>2 DEF Dead
  <2>2. CASE j = p + 1
    BY <2>1, <2>2
  <2>3. CASE j # p + 1
    <3>1. i \in 1 .. p /\ j \in 1 .. p
      BY <2>1, <2>3
    <3> QED BY <2>1, <3>1 DEF Dead
  <2> QED BY <2>2, <2>3
<1> QED BY <1>1, <1>2

(* The replay of one more delta. *)
LEMMA ReplayNext ==
  ASSUME NEW l, NEW p \in Nat, l[p + 1].op \in {"ns", "create", "delete"},
         l[p + 1].op # "ns" => l[p + 1].id \in Comps
  PROVE  LET d == l[p + 1] IN
         Replay(l, p + 1) = CASE d.op = "ns" -> Replay(l, p)
                              [] d.op = "create" -> Replay(l, p) \cup {d.id}
                              [] d.op = "delete" -> Replay(l, p) \ {d.id}
<1> DEFINE d == l[p + 1]
           In(x, i, q) == /\ l[i].op = "create" /\ l[i].id = x
                          /\ \A j \in i + 1 .. q : ~(l[j].op = "delete" /\ l[j].id = x)
<1>1. \A x : x \in Replay(l, p + 1) <=> x \in Comps /\ \E i \in 1 .. p + 1 : In(x, i, p + 1)
  BY DEF Replay
<1>2. \A x : x \in Replay(l, p) <=> x \in Comps /\ \E i \in 1 .. p : In(x, i, p)
  BY DEF Replay
<1>3. \A x, i : i \in 1 .. p => (In(x, i, p + 1) <=> In(x, i, p) /\ ~(d.op = "delete" /\ d.id = x))
  <2> SUFFICES ASSUME NEW x, NEW i, i \in 1 .. p
               PROVE  In(x, i, p + 1) <=> In(x, i, p) /\ ~(d.op = "delete" /\ d.id = x)
    OBVIOUS
  <2>1. i + 1 .. p + 1 = (i + 1 .. p) \cup {p + 1}
    OBVIOUS
  <2> QED BY <2>1
<1>4. \A x : In(x, p + 1, p + 1) <=> d.op = "create" /\ d.id = x
  <2>1. p + 1 + 1 .. p + 1 = {}
    OBVIOUS
  <2> QED BY <2>1
<1>5. 1 .. p + 1 = (1 .. p) \cup {p + 1}
  OBVIOUS
<1> HIDE DEF In, d
<1>6. \A x : x \in Replay(l, p + 1) <=>
               \/ x \in Replay(l, p) /\ ~(d.op = "delete" /\ d.id = x)
               \/ x \in Comps /\ d.op = "create" /\ d.id = x
  BY <1>1, <1>2, <1>3, <1>4, <1>5
<1>7. d.op \in {"ns", "create", "delete"} /\ (d.op # "ns" => d.id \in Comps)
  BY DEF d
<1>8. CASE d.op = "ns"
  <2>1. Replay(l, p + 1) = Replay(l, p)
    BY <1>6, <1>8
  <2> QED BY <1>8, <2>1 DEF d
<1>9. CASE d.op = "create"
  <2>1. Replay(l, p + 1) = Replay(l, p) \cup {d.id}
    BY <1>6, <1>7, <1>9
  <2> QED BY <1>9, <2>1 DEF d
<1>10. CASE d.op = "delete"
  <2>1. Replay(l, p + 1) = Replay(l, p) \ {d.id}
    BY <1>6, <1>10
  <2> QED BY <1>10, <2>1 DEF d
<1> QED BY <1>7, <1>8, <1>9, <1>10

\* A batch g against the log l, as far as x goes.
BatchInv(g, l, x) ==
  /\ ~(x \in DOMAIN g.puts /\ x \in g.removes)
  /\ x \in g.removes => OpIn(l, "delete", x)
  /\ Dead(l, g.last, x) => x \notin DOMAIN g.puts

\* x has not been asked to go.
Wanted(s) == s \in {"unused", "fanning", "emitting", "acked"}

(* The invariant of what is staged, in those terms. *)
LEMMA StagingIsInv ==
  /\ StagingInv <=> \A n \in Nodes, x \in Comps :
       /\ hy[n].pc = "staging" => BatchInv(hy[n].batch, log, x)
       /\ Wanted(st[x]) /\ x \in Todo(hy[n]) => x \in DOMAIN store[n].comps
  /\ StagingInv' <=> \A n \in Nodes, x \in Comps :
       /\ hy'[n].pc = "staging" => BatchInv(hy'[n].batch, log', x)
       /\ Wanted(st'[x]) /\ x \in Todo(hy'[n]) => x \in DOMAIN store'[n].comps
<1>1. StagingInv <=> \A n \in Nodes, x \in Comps :
       /\ hy[n].pc = "staging" => BatchInv(hy[n].batch, log, x)
       /\ Wanted(st[x]) /\ x \in Todo(hy[n]) => x \in DOMAIN store[n].comps
  BY DEF StagingInv, Polling, BatchInv, OpIn, DeltaOf, DeadBy, Dead, Wanted, Live, Undrained, Todo
<1>2. StagingInv' <=> \A n \in Nodes, x \in Comps :
       /\ hy'[n].pc = "staging" => BatchInv(hy'[n].batch, log', x)
       /\ Wanted(st'[x]) /\ x \in Todo(hy'[n]) => x \in DOMAIN store'[n].comps
  BY DEF StagingInv, Polling, BatchInv, OpIn, DeltaOf, DeadBy, Dead, Wanted, Live, Undrained, Todo
<1> QED BY <1>1, <1>2

(* A batch stays right when the log grows. *)
LEMMA BatchFrame ==
  ASSUME log \in Seq(Deltas), UNCHANGED log \/ \E d : Appended(d),
         NEW g, NEW x, g.last \in 0 .. Len(log), BatchInv(g, log, x)
  PROVE  BatchInv(g, log', x)
<1>1. CASE UNCHANGED log
  BY <1>1
<1>2. CASE \E d : Appended(d)
  <2>1. PICK d : Appended(d)
    BY <1>2
  <2>2. OpIn(log, "delete", x) => OpIn(log', "delete", x)
    BY <2>1, LogFrame
  <2>3. Dead(log', g.last, x) <=> Dead(log, g.last, x)
    BY <2>1, LogFrame
  <2> QED BY <2>2, <2>3 DEF BatchInv
<1> QED BY <1>1, <1>2

(* A batch stays right when a delta is staged. *)
LEMMA BatchNext ==
  ASSUME TypeOK, Placed(log), Once(log), NEW n \in Nodes, NEW g, Advanced(n, g), NEW x \in Comps,
         BatchInv(g, log, x)
  PROVE  BatchInv(hy'[n].batch, log, x)
<1> DEFINE p == g.last
           h == hy'[n].batch
           d == log[p + 1]
<1>1. /\ p \in Nat /\ p + 1 \in DOMAIN log /\ p < Len(log) /\ Len(log) \in Nat
      /\ d.at = p + 1
  BY AdvancedIs
<1>2. StageEffect(store[n], ns[n], g, d, h)
  BY DEF Advanced
<1>3. \A i \in 1 .. p : i \in DOMAIN log /\ i # p + 1
  BY <1>1
<1>4. \A y : Dead(log, p + 1, y) => Dead(log, p, y) \/ (d.op = "delete" /\ d.id = y)
  BY <1>1, Prefix
<1>5. d.op = "create" /\ d.id = x => ~Dead(log, p + 1, x)
  <2> SUFFICES ASSUME d.op = "create", d.id = x, Dead(log, p + 1, x)
               PROVE  FALSE
    OBVIOUS
  <2>0. \A y : d.op = "create" /\ d.id = y /\ Dead(log, p + 1, y)
                => \E i \in 1 .. p : log[i].op = "create" /\ log[i].id = y
    BY <1>1, Prefix
  <2>1. PICK i \in 1 .. p : log[i].op = "create" /\ log[i].id = x
    BY <2>0
  <2> QED BY <1>1, <1>3, <2>1 DEF Once
<1>6. d.op = "delete" /\ d.id = x => OpIn(log, "delete", x)
  BY <1>1 DEF OpIn
<1>7. g.last = p
  OBVIOUS
<1> HIDE DEF p, h, d
<1> SUFFICES BatchInv(h, log, x)
  BY DEF h
<1>8. CASE d.op = "ns"
  BY <1>1, <1>2, <1>4, <1>7, <1>8 DEF StageEffect, BatchInv
<1>9. CASE d.op = "delete"
  BY <1>1, <1>2, <1>4, <1>6, <1>7, <1>9 DEF StageEffect, BatchInv
<1>10. CASE d.op = "create"
  BY <1>1, <1>2, <1>4, <1>5, <1>7, <1>10 DEF StageEffect, BatchInv
<1>11. d.op \in {"ns", "create", "delete"}
  BY <1>2 DEF StageEffect
<1> QED BY <1>8, <1>9, <1>10, <1>11

(* The log, in every kind of step. *)
LEMMA LogKinds ==
  ASSUME Kinds
  PROVE  UNCHANGED log \/ \E d : Appended(d)
<1>1. CASE Quiet \/ Named
  BY <1>1 DEF Quiet, Named
<1>2. CASE \E x \in Comps : Answered(x) \/ Incorporated(x) \/ DeleteSent(x)
  BY <1>2 DEF Answered, Incorporated, DeleteSent
<1>3. CASE \E n \in Nodes, x \in Comps : Submitted(n, x) \/ Withdrawn(n, x) \/ TypeLocked(n, x)
  BY <1>3 DEF Submitted, Withdrawn, TypeLocked, Off
<1>4. CASE \/ \E n \in Nodes : TypeWritten(n)
           \/ \E n \in Nodes : \E g : Staged1(n, g)
           \/ \E n \in Nodes : \E g : Committed(n, g)
           \/ \E n \in Nodes : \E x : Drained(n, x)
           \/ \E n \in Nodes, wipe \in BOOLEAN : Restarted(n, wipe)
  BY <1>4 DEF TypeWritten, Staged1, Committed, Drained, Restarted, Off
<1> QED BY <1>1, <1>2, <1>3, <1>4, Zenon DEF Kinds

\* Nothing is staged, committed or wiped on n; only rows asked to go do.
Undisturbed(n) ==
  /\ DOMAIN store[n].comps \subseteq DOMAIN store'[n].comps \cup {x \in Comps : ~Wanted(st'[x])}
  /\ Todo(hy'[n]) \subseteq Todo(hy[n]) /\ (hy'[n].pc = "staging" => hy'[n] = hy[n])
  /\ store'[n].last = store[n].last /\ skips'[n] = skips[n]

(* What happens on n in a step, as far as its rows and its poll go. *)
LEMMA NodeKinds ==
  ASSUME Kinds, NEW n \in Nodes
  PROVE  \/ Undisturbed(n)
         \/ \E g : Staged1(n, g)
         \/ \E g : Committed(n, g)
         \/ Restarted(n, TRUE)
<1>a. ASSUME Same(n)
      PROVE  Undisturbed(n)
  BY <1>a DEF Same, Undisturbed
<1>1. CASE Quiet
  BY <1>1 DEF Quiet, QuietAt, Undisturbed
<1>2. CASE Named \/ \E x \in Comps : Answered(x) \/ Incorporated(x) \/ DeleteSent(x)
  <2>1. Still
    BY <1>2 DEF Named, Answered, Incorporated, DeleteSent
  <2> QED BY <2>1 DEF Still, Undisturbed
<1>3. CASE \E m \in Nodes, x \in Comps : Submitted(m, x)
  BY <1>3 DEF Submitted, Same, Undisturbed
<1>4. CASE \E m \in Nodes, x \in Comps : Withdrawn(m, x)
  <2>1. PICK m \in Nodes, x \in Comps : Withdrawn(m, x)
    BY <1>4
  <2>2. CASE m # n
    BY <1>a, <2>1, <2>2 DEF Withdrawn
  <2>3. CASE m = n
    <3>1. ~Wanted(st'[x]) /\ UNCHANGED <<hy, skips>> /\ store'[n].last = store[n].last
      BY <2>1, <2>3 DEF Withdrawn, Wanted
    <3>2. DOMAIN store[n].comps \subseteq DOMAIN store'[n].comps \cup {x}
      BY <2>1, <2>3 DEF Withdrawn
    <3> QED BY <3>1, <3>2 DEF Undisturbed
  <2> QED BY <2>2, <2>3
<1>5. CASE \E m \in Nodes, x \in Comps : TypeLocked(m, x)
  BY <1>5 DEF TypeLocked, Undisturbed
<1>6. CASE \E m \in Nodes : TypeWritten(m)
  BY <1>6 DEF TypeWritten, Same, Undisturbed
<1>7. CASE \E m \in Nodes : \E g : Staged1(m, g)
  <2>0. PICK m \in Nodes : \E g : Staged1(m, g)
    BY <1>7
  <2>1. PICK g : Staged1(m, g)
    BY <2>0
  <2>2. m # n => Same(n)
    BY <2>1 DEF Staged1
  <2> QED BY <1>a, <2>1, <2>2
<1>8. CASE \E m \in Nodes : \E g : Committed(m, g)
  <2>0. PICK m \in Nodes : \E g : Committed(m, g)
    BY <1>8
  <2>1. PICK g : Committed(m, g)
    BY <2>0
  <2>2. m # n => Same(n)
    BY <2>1 DEF Committed
  <2> QED BY <1>a, <2>1, <2>2
<1>9. CASE \E m \in Nodes : \E x : Drained(m, x)
  <2>0. PICK m \in Nodes : \E y : Drained(m, y)
    BY <1>9
  <2>1. PICK y : Drained(m, y)
    BY <2>0
  <2>2. CASE m # n
    BY <1>a, <2>1, <2>2 DEF Drained
  <2>3. CASE m = n
    <3>1. /\ DOMAIN store'[n].comps = DOMAIN store[n].comps /\ Todo(hy'[n]) \subseteq Todo(hy[n])
          /\ hy'[n].pc # "staging" /\ store'[n].last = store[n].last /\ UNCHANGED skips
      BY <2>1, <2>3 DEF Drained
    <3> QED BY <3>1 DEF Undisturbed
  <2> QED BY <2>2, <2>3
<1>10. CASE \E m \in Nodes, wipe \in BOOLEAN : Restarted(m, wipe)
  <2>1. PICK m \in Nodes, wipe \in BOOLEAN : Restarted(m, wipe)
    BY <1>10
  <2>2. CASE m # n
    BY <1>a, <2>1, <2>2 DEF Restarted
  <2>3. CASE m = n /\ wipe = TRUE
    BY <2>1, <2>3
  <2>4. CASE m = n /\ wipe = FALSE
    <3>1. hy'[n] = Idle /\ UNCHANGED <<store, skips>>
      BY <2>1, <2>4 DEF Restarted
    <3>2. Todo(hy'[n]) = {} /\ hy'[n].pc # "staging"
      BY <3>1 DEF Todo, Idle
    <3> QED BY <3>1, <3>2 DEF Undisturbed
  <2> QED BY <2>2, <2>3, <2>4
<1> QED BY <1>1, <1>2, <1>3, <1>4, <1>5, <1>6, <1>7, <1>8, <1>9, <1>10, Zenon DEF Kinds

(* A composition that was asked to go is never wanted again. *)
LEMMA WantedKinds ==
  ASSUME Kinds, NEW x \in Comps, Wanted(st'[x])
  PROVE  Wanted(st[x])
<1>1. CASE Quiet \/ Named
  BY <1>1 DEF Quiet, Named
<1>2. CASE \E y \in Comps : Answered(y) \/ Incorporated(y) \/ DeleteSent(y)
  BY <1>2 DEF Answered, Incorporated, DeleteSent, Wanted, Only
<1>3. CASE \E n \in Nodes, y \in Comps : Submitted(n, y) \/ Withdrawn(n, y) \/ TypeLocked(n, y)
  <2>1. PICK n \in Nodes, y \in Comps : Submitted(n, y) \/ Withdrawn(n, y) \/ TypeLocked(n, y)
    BY <1>3
  <2> QED BY <2>1 DEF Submitted, Withdrawn, TypeLocked, Off, Wanted, Only
<1>4. CASE \/ \E n \in Nodes : TypeWritten(n)
           \/ \E n \in Nodes : \E g : Staged1(n, g)
           \/ \E n \in Nodes : \E g : Committed(n, g)
           \/ \E n \in Nodes : \E y : Drained(n, y)
  BY <1>4 DEF TypeWritten, Staged1, Committed, Drained, Off
<1>5. CASE \E n \in Nodes, wipe \in BOOLEAN : Restarted(n, wipe)
  BY <1>5 DEF Restarted, Wanted
<1> QED BY <1>1, <1>2, <1>3, <1>4, <1>5, Zenon DEF Kinds

(* What a wanted composition has in the log, and in no batch. *)
LEMMA WantedIs ==
  ASSUME RequestsInv, StagingInv, NEW x \in Comps, Wanted(st[x]), NEW n \in Nodes, Polling(n)
  PROVE  ~OpIn(log, "delete", x) /\ x \notin hy[n].batch.removes
<1>1. RequestOK(st[x], x \in intents, log, x, \E m \in Nodes : x \in DOMAIN pending[m])
  BY RequestsAre
<1>2. ~OpIn(log, "delete", x)
  BY <1>1 DEF RequestOK, Wanted
<1>3. BatchInv(hy[n].batch, log, x)
  BY StagingIsInv DEF Polling
<1> QED BY <1>2, <1>3 DEF BatchInv

(* What is staged and left to drain stays right. *)
LEMMA StagingStep ==
  ASSUME TypeOK, RequestsInv, PositionsInv, StagingInv, Kinds
  PROVE  StagingInv'
<1>0. log \in Seq(Deltas) /\ Len(log) \in Nat /\ Placed(log) /\ Once(log)
  BY RequestsAre DEF TypeOK, LogOK
<1> SUFFICES ASSUME NEW n \in Nodes, NEW x \in Comps
             PROVE  /\ hy'[n].pc = "staging" => BatchInv(hy'[n].batch, log', x)
                    /\ Wanted(st'[x]) /\ x \in Todo(hy'[n]) => x \in DOMAIN store'[n].comps
  BY StagingIsInv
<1>1. /\ hy[n].pc = "staging" => BatchInv(hy[n].batch, log, x)
      /\ Wanted(st[x]) /\ x \in Todo(hy[n]) => x \in DOMAIN store[n].comps
  BY StagingIsInv
<1>2. CASE Undisturbed(n)
  <2>1. Undisturbed(n)
    BY <1>2
  <2>2. ASSUME hy'[n].pc = "staging"
        PROVE  BatchInv(hy'[n].batch, log', x)
    <3>1. hy'[n] = hy[n] /\ hy[n].pc = "staging"
      BY <2>1, <2>2 DEF Undisturbed
    <3>2. hy[n].batch.last \in 0 .. Len(log)
      <4>1. BatchOK(hy[n].batch) /\ hy[n].to \in Nat
        BY <3>1 DEF TypeOK, NodesOK, NodeOK, PollOK, Idle
      <4>2. hy[n].batch.last <= hy[n].to /\ hy[n].to <= Len(log)
        BY <3>1 DEF PositionsInv, Polling
      <4> QED BY <1>0, <4>1, <4>2 DEF BatchOK
    <3> QED BY <1>0, <1>1, <3>1, <3>2, LogKinds, BatchFrame
  <2>3. ASSUME Wanted(st'[x]), x \in Todo(hy'[n])
        PROVE  x \in DOMAIN store'[n].comps
    <3>1. Wanted(st[x]) /\ x \in Todo(hy[n])
      BY <2>1, <2>3, WantedKinds DEF Undisturbed
    <3>2. x \in DOMAIN store[n].comps
      BY <1>1, <3>1
    <3> QED BY <2>1, <2>3, <3>2 DEF Undisturbed
  <2> QED BY <2>2, <2>3
<1>3. CASE \E g : Staged1(n, g)
  <2>1. PICK g : Staged1(n, g)
    BY <1>3
  <2>2. Advanced(n, g) /\ UNCHANGED log
    BY <2>1 DEF Staged1, Off
  <2>3. BatchInv(g, log, x)
    <3>1. CASE g = EmptyStaging(store[n])
      <4>1. StorageOK(store[n])
        BY DEF TypeOK, NodesOK, NodeOK
      <4>2. DOMAIN g.puts = {} /\ g.removes = {}
        BY <3>1, <4>1, EmptyStagingIs
      <4> QED BY <4>2 DEF BatchInv
    <3>2. CASE Polling(n) /\ g = hy[n].batch
      BY <1>1, <3>2 DEF Polling
    <3> QED BY <2>1, <3>1, <3>2 DEF Staged1
  <2>4. BatchInv(hy'[n].batch, log', x)
    BY <1>0, <2>2, <2>3, BatchNext
  <2>5. Todo(hy'[n]) = {}
    BY <2>2 DEF Advanced, Todo
  <2> QED BY <2>4, <2>5
<1>4. CASE \E g : Committed(n, g)
  <2>1. PICK g : Committed(n, g)
    BY <1>4
  <2>2. /\ Polling(n) /\ g = hy[n].batch /\ hy'[n].pc # "staging" /\ UNCHANGED st
        /\ DOMAIN store'[n].comps = (DOMAIN store[n].comps \cup DOMAIN g.puts) \ g.removes
        /\ Todo(hy'[n]) = DOMAIN g.puts \cup g.removes
    BY <2>1 DEF Committed, Off
  <2>3. Wanted(st[x]) => x \notin g.removes
    BY <2>2, WantedIs
  <2> QED BY <2>2, <2>3
<1>5. CASE Restarted(n, TRUE)
  <2>1. hy'[n] = Idle
    BY <1>5 DEF Restarted
  <2>2. hy'[n].pc # "staging" /\ Todo(hy'[n]) = {}
    BY <2>1 DEF Idle, Todo
  <2> QED BY <2>2
<1> QED BY <1>2, <1>3, <1>4, <1>5, NodeKinds

-----------------------------------------------------------------------------
(* Live compositions are held, and none is missed.                           *)

\* The compositions submitted and neither failed nor asked to be deleted.
Lives(s) == {x \in Comps : s[x] \in {"fanning", "emitting", "acked"}}

(* A live composition was live before, with the same server, or is submitted. *)
LEMMA LiveKinds ==
  ASSUME Kinds, NEW x \in Lives(st')
  PROVE  \/ x \in Lives(st) /\ by'[x] = by[x]
         \/ \E n \in Nodes : Submitted(n, x)
<1>0. x \in Comps
  BY DEF Lives
<1> USE DEF Lives
<1>1. CASE Quiet \/ Named
  BY <1>1 DEF Quiet, Named
<1>2. CASE \E y \in Comps : Answered(y) \/ Incorporated(y) \/ DeleteSent(y)
  BY <1>0, <1>2 DEF Answered, Incorporated, DeleteSent, Only
<1>3. CASE \E n \in Nodes, y \in Comps : Submitted(n, y) \/ Withdrawn(n, y) \/ TypeLocked(n, y)
  <2>1. PICK n \in Nodes, y \in Comps : Submitted(n, y) \/ Withdrawn(n, y) \/ TypeLocked(n, y)
    BY <1>3
  <2>2. CASE Submitted(n, y) /\ x = y
    BY <2>2
  <2>3. CASE Submitted(n, y) /\ x # y
    BY <1>0, <2>3 DEF Submitted, Only
  <2>4. CASE Withdrawn(n, y) \/ TypeLocked(n, y)
    BY <1>0, <2>4 DEF Withdrawn, TypeLocked, Off, Only
  <2> QED BY <2>1, <2>2, <2>3, <2>4
<1>4. CASE \/ \E n \in Nodes : TypeWritten(n)
           \/ \E n \in Nodes : \E g : Staged1(n, g)
           \/ \E n \in Nodes : \E g : Committed(n, g)
           \/ \E n \in Nodes : \E y : Drained(n, y)
  BY <1>4 DEF TypeWritten, Staged1, Committed, Drained, Off
<1>5. CASE \E n \in Nodes, wipe \in BOOLEAN : Restarted(n, wipe)
  BY <1>0, <1>5 DEF Restarted
<1> QED BY <1>1, <1>2, <1>3, <1>4, <1>5, Zenon DEF Kinds

(* How a composition leaves an overlay. *)
LEMMA OverlayKinds ==
  ASSUME Kinds, NEW n \in Nodes, NEW x \in DOMAIN pending[n]
  PROVE  \/ x \in DOMAIN pending'[n] \/ Drained(n, x) \/ Withdrawn(n, x)
         \/ \E wipe \in BOOLEAN : Restarted(n, wipe)
<1>1. CASE Quiet
  BY <1>1 DEF Quiet, QuietAt
<1>2. CASE Named \/ \E y \in Comps : Answered(y) \/ Incorporated(y) \/ DeleteSent(y)
  <2>1. Still
    BY <1>2 DEF Named, Answered, Incorporated, DeleteSent
  <2> QED BY <2>1 DEF Still
<1>3. CASE \E m \in Nodes, y \in Comps : Submitted(m, y) \/ TypeLocked(m, y)
  BY <1>3 DEF Submitted, TypeLocked, Same
<1>4. CASE \E m \in Nodes, y \in Comps : Withdrawn(m, y)
  <2>1. PICK m \in Nodes, y \in Comps : Withdrawn(m, y)
    BY <1>4
  <2>2. CASE m = n /\ x = y
    BY <2>1, <2>2
  <2>3. CASE m = n /\ x # y
    BY <2>1, <2>3 DEF Withdrawn
  <2>4. CASE m # n
    BY <2>1, <2>4 DEF Withdrawn, Same
  <2> QED BY <2>2, <2>3, <2>4
<1>5. CASE \/ \E m \in Nodes : TypeWritten(m)
           \/ \E m \in Nodes : \E g : Staged1(m, g)
           \/ \E m \in Nodes : \E g : Committed(m, g)
  BY <1>5 DEF TypeWritten, Staged1, Committed
<1>6. CASE \E m \in Nodes : \E y : Drained(m, y)
  <2>0. PICK m \in Nodes : \E y : Drained(m, y)
    BY <1>6
  <2>1. PICK y : Drained(m, y)
    BY <2>0
  <2>2. CASE m = n /\ x = y
    BY <2>1, <2>2
  <2>3. CASE m = n /\ x # y
    BY <2>1, <2>3 DEF Drained
  <2>4. CASE m # n
    BY <2>1, <2>4 DEF Drained, Same
  <2> QED BY <2>2, <2>3, <2>4
<1>7. CASE \E m \in Nodes, wipe \in BOOLEAN : Restarted(m, wipe)
  <2>1. PICK m \in Nodes, wipe \in BOOLEAN : Restarted(m, wipe)
    BY <1>7
  <2>2. m # n => Same(n)
    BY <2>1 DEF Restarted
  <2> QED BY <2>1, <2>2 DEF Same
<1> QED BY <1>1, <1>2, <1>3, <1>4, <1>5, <1>6, <1>7, Zenon DEF Kinds

(* How a wanted composition loses a durable row: its store is wiped. *)
LEMMA RowKinds ==
  ASSUME RequestsInv, StagingInv, Kinds, NEW n \in Nodes, NEW x \in Comps, Wanted(st'[x]),
         x \in DOMAIN store[n].comps
  PROVE  x \in DOMAIN store'[n].comps \/ Restarted(n, TRUE)
<1>0. Wanted(st[x])
  BY WantedKinds
<1>1. CASE Undisturbed(n)
  BY <1>1 DEF Undisturbed
<1>2. CASE \E g : Staged1(n, g)
  BY <1>2 DEF Staged1
<1>3. CASE \E g : Committed(n, g)
  <2>1. PICK g : Committed(n, g)
    BY <1>3
  <2>2. x \notin g.removes
    BY <1>0, <2>1, WantedIs DEF Committed
  <2> QED BY <2>1, <2>2 DEF Committed
<1> QED BY <1>1, <1>2, <1>3, NodeKinds

(* Live compositions stay held by the node that took them. *)
LEMMA HeldStep ==
  ASSUME TypeOK, RequestsInv, StagingInv, HeldInv, Kinds
  PROVE  HeldInv'
<1> SUFFICES ASSUME NEW x \in Comps, x \notin forgot', x \in Lives(st')
             PROVE  x \in DOMAIN pending'[by'[x]] \cup DOMAIN store'[by'[x]].comps
  BY DEF HeldInv, Live, Lives
<1>1. CASE \E n \in Nodes : Submitted(n, x)
  BY <1>1 DEF Submitted
<1>2. CASE x \in Lives(st) /\ by'[x] = by[x]
  <2>1. PICK n \in Nodes : n = by[x] /\ n \in Ingress
    BY CompositionsAssumption DEF TypeOK, CallsOK
  <2>2. Wanted(st'[x]) /\ Wanted(st[x])
    BY <1>2 DEF Lives, Wanted
  <2>3. ~Restarted(n, TRUE)
    BY <2>1 DEF Restarted
  <2>4. ASSUME x \in DOMAIN store[n].comps
        PROVE  x \in DOMAIN store'[n].comps
    BY <2>2, <2>3, <2>4, RowKinds
  <2>5. ASSUME x \in DOMAIN pending[n], x \notin DOMAIN pending'[n]
        PROVE  x \in DOMAIN store'[n].comps
    <3>1. CASE Drained(n, x)
      <4>1. x \in Todo(hy[n])
        BY <3>1 DEF Drained
      <4>2. x \in DOMAIN store[n].comps
        BY <2>2, <4>1, StagingIsInv
      <4> QED BY <2>4, <4>2
    <3>2. CASE Withdrawn(n, x)
      BY <2>2, <3>2 DEF Withdrawn, Wanted
    <3>3. CASE \E wipe \in BOOLEAN : Restarted(n, wipe)
      BY <2>5, <3>3 DEF Restarted
    <3> QED BY <2>5, <3>1, <3>2, <3>3, OverlayKinds
  <2>6. x \notin forgot
    BY DEF Kinds, Quiet, Named, Answered, Incorporated, DeleteSent, Submitted, Withdrawn,
           TypeLocked, TypeWritten, Staged1, Committed, Drained, Restarted, Off
  <2>7. x \in DOMAIN pending[n] \cup DOMAIN store[n].comps
    BY <1>2, <2>1, <2>6 DEF HeldInv, Live, Lives
  <2> QED BY <1>2, <2>1, <2>4, <2>5, <2>7
<1> QED BY <1>1, <1>2, LiveKinds

\* No restart, and no rollback on n, has forgotten a namespace.
Calm(r, roll, n) == r = 0 /\ n \notin roll

\* What a node at position p of the log l owes the live compositions L: known,
\* the namespace is known; sk, those given up; c, the rows; I, the intents.
NoMiss(l, calm, p, known, sk, c, L, I) ==
  /\ calm /\ NsIn(l, p) => known
  /\ \A x \in sk : OpIn(l, "create", x) /\ (calm => ~NsBefore(l, x))
  /\ \A x \in L : x \in c \/ x \in I \/ x \in sk \/ After(l, p, x)

\* The same of the durable state and of a batch over it.
NoMissOn(n) ==
  /\ NoMiss(log, Calm(restarts, rolled, n), store[n].last, ns[n], skips[n],
            DOMAIN store[n].comps, Lives(st), intents)
  /\ hy[n].pc = "staging" =>
       NoMiss(log, Calm(restarts, rolled, n), hy[n].batch.last, ns[n] \/ hy[n].batch.ns,
              skips[n] \cup hy[n].batch.skipped,
              DOMAIN store[n].comps \cup DOMAIN hy[n].batch.puts, Lives(st), intents)

NoneMissed == \A n \in Nodes : NoMissOn(n)

(* The invariant of what is missed, in those terms. *)
LEMMA MissedIs == restarts \in Nat => (MissedInv <=> NoneMissed)
<1> SUFFICES ASSUME restarts \in Nat, NEW n \in Nodes
             PROVE  /\ Registered(n, store[n].last, ns[n])
                    /\ \A x \in skips[n] : Excused(n, x)
                    /\ \A x \in Comps : Live(x) => NotMissed(x, DOMAIN store[n].comps, store[n].last, skips[n])
                    /\ Polling(n) => LET g == hy[n].batch IN
                         /\ Registered(n, g.last, ns[n] \/ g.ns)
                         /\ \A x \in g.skipped : Excused(n, x)
                         /\ \A x \in Comps : Live(x) =>
                              NotMissed(x, DOMAIN store[n].comps \cup DOMAIN g.puts, g.last,
                                        skips[n] \cup g.skipped)
                    <=> NoMissOn(n)
  BY DEF MissedInv, NoneMissed
<1> DEFINE calm == Calm(restarts, rolled, n)
<1>1. \A p, known : Registered(n, p, known) <=> (calm /\ NsIn(log, p) => known)
  BY DEF Registered, Calm, NsIn
<1>2. \A x : Excused(n, x) <=> OpIn(log, "create", x) /\ (calm => ~NsBefore(log, x))
  BY DEF Excused, Created, NamespaceFirst, OpIn, NsBefore, Calm
<1>3. \A x, c, p, sk : NotMissed(x, c, p, sk) <=> x \in c \/ x \in intents \/ x \in sk \/ After(log, p, x)
  BY DEF NotMissed, DeltaOf, After
<1>4. \A x : x \in Lives(st) <=> x \in Comps /\ Live(x)
  BY DEF Lives, Live
<1> HIDE DEF calm
<1>5. ASSUME NEW p, NEW known, NEW sk, NEW c
      PROVE  /\ Registered(n, p, known)
             /\ \A x \in sk : Excused(n, x)
             /\ \A x \in Comps : Live(x) => NotMissed(x, c, p, sk)
             <=> NoMiss(log, calm, p, known, sk, c, Lives(st), intents)
  BY <1>1, <1>2, <1>3, <1>4 DEF NoMiss
<1> DEFINE g == hy[n].batch
<1>6. /\ Registered(n, store[n].last, ns[n])
      /\ \A x \in skips[n] : Excused(n, x)
      /\ \A x \in Comps : Live(x) => NotMissed(x, DOMAIN store[n].comps, store[n].last, skips[n])
      <=> NoMiss(log, calm, store[n].last, ns[n], skips[n], DOMAIN store[n].comps, Lives(st), intents)
  BY <1>5
<1>7. /\ Registered(n, g.last, ns[n] \/ g.ns)
      /\ \A x \in skips[n] \cup g.skipped : Excused(n, x)
      /\ \A x \in Comps : Live(x) =>
           NotMissed(x, DOMAIN store[n].comps \cup DOMAIN g.puts, g.last, skips[n] \cup g.skipped)
      <=> NoMiss(log, calm, g.last, ns[n] \/ g.ns, skips[n] \cup g.skipped,
                 DOMAIN store[n].comps \cup DOMAIN g.puts, Lives(st), intents)
  BY <1>5
<1>8. (\A x \in skips[n] \cup g.skipped : Excused(n, x))
        <=> (\A x \in skips[n] : Excused(n, x)) /\ (\A x \in g.skipped : Excused(n, x))
  OBVIOUS
<1> QED BY <1>6, <1>7, <1>8 DEF NoMissOn, Polling, calm

(* Namespaces are only forgotten by a fault. *)
LEMMA CalmKinds ==
  ASSUME Kinds, restarts \in Nat, NEW n \in Nodes, Calm(restarts', rolled', n)
  PROVE  Calm(restarts, rolled, n) /\ (ns[n] => ns'[n])
<1> USE DEF Calm
<1>1. CASE Quiet
  BY <1>1 DEF Quiet, QuietAt
<1>2. CASE Named
  BY <1>2 DEF Named
<1>3. CASE \E y \in Comps : Answered(y) \/ Incorporated(y) \/ DeleteSent(y)
  BY <1>3 DEF Answered, Incorporated, DeleteSent
<1>4. CASE \E m \in Nodes, y \in Comps : Submitted(m, y) \/ Withdrawn(m, y) \/ TypeLocked(m, y)
  BY <1>4 DEF Submitted, Withdrawn, TypeLocked, Off
<1>5. CASE \/ \E m \in Nodes : TypeWritten(m)
           \/ \E m \in Nodes : \E g : Staged1(m, g)
           \/ \E m \in Nodes : \E y : Drained(m, y)
  BY <1>5 DEF TypeWritten, Staged1, Drained, Off
<1>6. CASE \E m \in Nodes : \E g : Committed(m, g)
  BY <1>6 DEF Committed, Off, Same
<1>7. CASE \E m \in Nodes, wipe \in BOOLEAN : Restarted(m, wipe)
  <2>1. restarts' = restarts + 1
    BY <1>7 DEF Restarted
  <2> QED BY <2>1
<1> QED BY <1>1, <1>2, <1>3, <1>4, <1>5, <1>6, <1>7, Zenon DEF Kinds

(* An intent leaves by reaching the log. *)
LEMMA IntentKinds ==
  ASSUME Kinds, NEW x \in intents
  PROVE  x \in intents' \/ \E d : Appended(d) /\ d.op = "create" /\ d.id = x
<1>1. CASE Quiet \/ Named
  BY <1>1 DEF Quiet, Named
<1>2. CASE \E y \in Comps : Answered(y) \/ Incorporated(y) \/ DeleteSent(y)
  BY <1>2 DEF Answered, Incorporated, DeleteSent
<1>3. CASE \E m \in Nodes, y \in Comps : Submitted(m, y) \/ Withdrawn(m, y) \/ TypeLocked(m, y)
  BY <1>3 DEF Submitted, Withdrawn, TypeLocked, Off
<1>4. CASE \/ \E m \in Nodes : TypeWritten(m)
           \/ \E m \in Nodes : \E g : Staged1(m, g)
           \/ \E m \in Nodes : \E g : Committed(m, g)
           \/ \E m \in Nodes : \E y : Drained(m, y)
           \/ \E m \in Nodes, wipe \in BOOLEAN : Restarted(m, wipe)
  BY <1>4 DEF TypeWritten, Staged1, Committed, Drained, Restarted, Off
<1> QED BY <1>1, <1>2, <1>3, <1>4, Zenon DEF Kinds

(* A create that is in the log is not overtaken by a namespace. *)
LEMMA NsBeforeFrame ==
  ASSUME log \in Seq(Deltas), UNCHANGED log \/ \E d : Appended(d), Once(log'),
         NEW x \in Comps, OpIn(log, "create", x), NsBefore(log', x)
  PROVE  NsBefore(log, x)
<1>1. CASE UNCHANGED log
  BY <1>1
<1>2. CASE \E d : Appended(d)
  <2>1. PICK d : Appended(d)
    BY <1>2
  <2>2. Len(log) \in Nat /\ DOMAIN log = 1 .. Len(log)
    OBVIOUS
  <2>3. /\ DOMAIN log' = 1 .. Len(log) + 1 /\ \A i \in DOMAIN log : log'[i] = log[i]
    BY <2>1 DEF Appended
  <2>4. PICK k \in DOMAIN log : log[k].op = "create" /\ log[k].id = x
    BY DEF OpIn
  <2>5. PICK i \in DOMAIN log', j \in DOMAIN log' :
          i < j /\ log'[i].op = "ns" /\ log'[j].op = "create" /\ log'[j].id = x
    BY DEF NsBefore
  <2>6. j = k
    BY <2>2, <2>3, <2>4, <2>5 DEF Once
  <2>7. i \in DOMAIN log
    BY <2>2, <2>3, <2>4, <2>5, <2>6
  <2> QED BY <2>3, <2>4, <2>5, <2>6, <2>7 DEF NsBefore
<1> QED BY <1>1, <1>2

(* What a node owes is kept while its position stands. *)
LEMMA MissFrame ==
  ASSUME TypeOK, Kinds, Once(log'), NEW n \in Nodes, NEW p \in 0 .. Len(log),
         NEW k, NEW k1, NEW sk \in SUBSET Comps, NEW c, NEW c1,
         Calm(restarts', rolled', n) /\ k => k1, \A x \in Lives(st') : x \in c => x \in c1,
         NoMiss(log, Calm(restarts, rolled, n), p, k, sk, c, Lives(st), intents)
  PROVE  NoMiss(log', Calm(restarts', rolled', n), p, k1, sk, c1, Lives(st'), intents')
<1>0. log \in Seq(Deltas) /\ restarts \in Nat /\ (UNCHANGED log \/ \E d : Appended(d))
  BY LogKinds DEF TypeOK, LogOK, MarksOK
<1>1. Calm(restarts', rolled', n) => Calm(restarts, rolled, n)
  BY <1>0, CalmKinds
<1>2. NsIn(log', p) <=> NsIn(log, p)
  BY <1>0, LogFrame
<1>3. \A x : OpIn(log, "create", x) => OpIn(log', "create", x)
  <2>1. CASE UNCHANGED log
    BY <2>1
  <2>2. CASE \E d : Appended(d)
    BY <1>0, <2>2, LogFrame
  <2> QED BY <1>0, <2>1, <2>2
<1>4. \A x : After(log, p, x) => After(log', p, x)
  <2>1. CASE UNCHANGED log
    BY <2>1
  <2>2. CASE \E d : Appended(d)
    BY <1>0, <2>2, LogFrame
  <2> QED BY <1>0, <2>1, <2>2
<1>5. ASSUME NEW x \in intents
      PROVE  x \in intents' \/ After(log', p, x)
  <2>1. CASE \E d : Appended(d) /\ d.op = "create" /\ d.id = x
    BY <1>0, <2>1, LogFrame
  <2> QED BY <2>1, IntentKinds
<1>6. ASSUME NEW x \in Lives(st')
      PROVE  x \in Lives(st) \/ x \in intents'
  <2>1. ASSUME NEW m \in Nodes, Submitted(m, x)
        PROVE  x \in intents'
    BY <2>1 DEF Submitted
  <2> QED BY <2>1, LiveKinds
<1>7. ASSUME NEW x \in sk, NsBefore(log', x), OpIn(log, "create", x)
      PROVE  NsBefore(log, x)
  BY <1>0, <1>7, NsBeforeFrame
<1> DEFINE calm == Calm(restarts, rolled, n)
           calm1 == Calm(restarts', rolled', n)
           L == Lives(st)
           L1 == Lives(st')
<1>8. /\ calm1 => calm
      /\ calm1 /\ k => k1
      /\ \A x \in L1 : x \in c => x \in c1
      /\ \A x \in L1 : x \in L \/ x \in intents'
      /\ NoMiss(log, calm, p, k, sk, c, L, intents)
  BY <1>1, <1>6
<1> HIDE DEF calm, calm1, L, L1
<1>9. calm1 /\ NsIn(log', p) => k1
  BY <1>2, <1>8 DEF NoMiss
<1>10. \A x \in sk : OpIn(log', "create", x) /\ (calm1 => ~NsBefore(log', x))
  BY <1>3, <1>7, <1>8 DEF NoMiss
<1>11. \A x \in L1 : x \in c1 \/ x \in intents' \/ x \in sk \/ After(log', p, x)
  BY <1>4, <1>5, <1>8 DEF NoMiss
<1>12. NoMiss(log', calm1, p, k1, sk, c1, L1, intents')
  BY <1>9, <1>10, <1>11 DEF NoMiss
<1> QED BY <1>12 DEF calm1, L1

(* What a node owes is kept when a delta is staged: a Create is staged, or it  *)
(* is given up, and then no namespace was before it.                           *)
LEMMA MissNext ==
  ASSUME TypeOK, Placed(log), Once(log), NEW n \in Nodes, NEW g, Advanced(n, g), NEW calm \in BOOLEAN,
         NEW L \in SUBSET Comps, \A x \in L : ~OpIn(log, "delete", x),
         NoMiss(log, calm, g.last, ns[n] \/ g.ns, skips[n] \cup g.skipped,
                DOMAIN store[n].comps \cup DOMAIN g.puts, L, intents)
  PROVE  LET h == hy'[n].batch IN
         NoMiss(log, calm, h.last, ns[n] \/ h.ns, skips[n] \cup h.skipped,
                DOMAIN store[n].comps \cup DOMAIN h.puts, L, intents)
<1> DEFINE p == g.last
           h == hy'[n].batch
           d == log[p + 1]
           c == DOMAIN store[n].comps
<1>1. /\ p \in Nat /\ p + 1 \in DOMAIN log /\ p < Len(log) /\ Len(log) \in Nat
      /\ d.at = p + 1 /\ (d.op # "ns" => d.id \in Comps)
  BY AdvancedIs
<1>2. StageEffect(store[n], ns[n], g, d, h) /\ g.last = p
  BY DEF Advanced
<1>3. d.op = "delete" => d.id \notin L
  BY <1>1 DEF OpIn
<1>4. d.op = "create" => OpIn(log, "create", d.id)
  BY <1>1 DEF OpIn
<1>5. NsIn(log, p + 1) <=> NsIn(log, p) \/ d.op = "ns"
  BY <1>1, Prefix
<1>6. \A x : After(log, p, x) => After(log, p + 1, x) \/ (d.op = "create" /\ d.id = x)
  <2> SUFFICES ASSUME NEW x, After(log, p, x), ~(d.op = "create" /\ d.id = x)
               PROVE  After(log, p + 1, x)
    OBVIOUS
  <2>1. PICK i \in DOMAIN log : i > p /\ log[i].op = "create" /\ log[i].id = x
    BY DEF After
  <2>2. i \in Nat /\ i # p + 1
    BY <2>1 DEF TypeOK, LogOK
  <2>3. i > p + 1
    BY <1>1, <2>1, <2>2
  <2> QED BY <2>1, <2>3 DEF After
<1>7. d.op = "create" /\ NsBefore(log, d.id) => NsIn(log, p)
  <2> SUFFICES ASSUME d.op = "create", NsBefore(log, d.id)
               PROVE  NsIn(log, p)
    OBVIOUS
  <2>1. PICK i \in DOMAIN log, j \in DOMAIN log :
          i < j /\ log[i].op = "ns" /\ log[j].op = "create" /\ log[j].id = d.id
    BY DEF NsBefore
  <2>2. j = p + 1
    BY <1>1, <2>1 DEF Once
  <2>3. DOMAIN log = 1 .. Len(log)
    BY DEF TypeOK, LogOK
  <2>4. i \in 1 .. p
    BY <1>1, <2>1, <2>2, <2>3
  <2> QED BY <2>1, <2>4 DEF NsIn
<1>8. /\ calm /\ NsIn(log, p) => ns[n] \/ g.ns
      /\ \A x \in skips[n] \cup g.skipped : OpIn(log, "create", x) /\ (calm => ~NsBefore(log, x))
      /\ \A x \in L : x \in c \cup DOMAIN g.puts \/ x \in intents \/ x \in skips[n] \cup g.skipped
                        \/ After(log, p, x)
  BY DEF NoMiss
<1>9. view(store[n], g, d.id) => d.id \in c \cup DOMAIN g.puts
  BY DEF view
<1> HIDE DEF p, h, d, c
<1> SUFFICES NoMiss(log, calm, h.last, ns[n] \/ h.ns, skips[n] \cup h.skipped, c \cup DOMAIN h.puts, L, intents)
  BY DEF h, c
<1>10. CASE d.op = "ns"
  <2>1. h.ns /\ h.last = p + 1 /\ h.puts = g.puts /\ h.skipped = g.skipped
    BY <1>1, <1>2, <1>10 DEF StageEffect
  <2> QED BY <1>6, <1>8, <1>10, <2>1 DEF NoMiss
<1>11. CASE d.op = "delete"
  <2>1. h.ns = g.ns /\ h.last = p + 1 /\ DOMAIN h.puts = DOMAIN g.puts \ {d.id} /\ h.skipped = g.skipped
    BY <1>1, <1>2, <1>11 DEF StageEffect
  <2> QED BY <1>3, <1>5, <1>6, <1>8, <1>11, <2>1 DEF NoMiss
<1>12. CASE d.op = "create"
  <2>1. CASE /\ h.ns = g.ns /\ h.last = p + 1 /\ h.skipped = g.skipped
             /\ DOMAIN g.puts \subseteq DOMAIN h.puts /\ d.id \in c \cup DOMAIN h.puts
    BY <1>5, <1>6, <1>8, <1>12, <2>1 DEF NoMiss
  <2>2. CASE /\ ~ns[n] /\ ~g.ns /\ h.ns = g.ns /\ h.last = p + 1 /\ h.puts = g.puts
             /\ h.skipped = g.skipped \cup {d.id}
    <3>1. calm => ~NsIn(log, p)
      BY <1>8, <2>2
    <3>2. calm => ~NsBefore(log, d.id)
      BY <1>7, <1>12, <3>1
    <3> QED BY <1>4, <1>5, <1>6, <1>8, <1>12, <2>2, <3>1, <3>2 DEF NoMiss
  <2>3. CASE h.ns = g.ns /\ h.last = p /\ h.puts = g.puts /\ h.skipped = g.skipped
    BY <1>8, <2>3 DEF NoMiss
  <2> QED BY <1>1, <1>2, <1>9, <1>12, <2>1, <2>2, <2>3 DEF StageEffect
<1>13. d.op \in {"ns", "create", "delete"}
  BY <1>2 DEF StageEffect
<1> QED BY <1>10, <1>11, <1>12, <1>13

(* A live composition has an intent or a Create, and no Delete. *)
LEMMA LiveIs ==
  ASSUME RequestsInv, NEW x \in Lives(st)
  PROVE  ~OpIn(log, "delete", x) /\ (x \in intents \/ OpIn(log, "create", x))
<1>1. RequestOK(st[x], x \in intents, log, x, \E m \in Nodes : x \in DOMAIN pending[m])
  BY RequestsAre DEF Lives
<1> QED BY <1>1 DEF RequestOK, Lives

(* Nothing live is missed. *)
LEMMA MissedStep ==
  ASSUME TypeOK, RequestsInv, PositionsInv, StagingInv, MissedInv, Kinds, TypeOK', RequestsInv'
  PROVE  MissedInv'
<1>0. /\ log \in Seq(Deltas) /\ Len(log) \in Nat /\ restarts \in Nat /\ restarts' \in Nat
      /\ Placed(log) /\ Once(log) /\ Once(log')
  BY RequestsAre DEF TypeOK, LogOK, MarksOK
<1>a. MissedInv' <=> NoneMissed'
  <2>1. (restarts \in Nat)'
    BY <1>0
  <2> QED BY <2>1, MissedIs, PTL
<1> SUFFICES ASSUME NEW n \in Nodes
             PROVE  NoMissOn(n)'
  BY <1>a DEF NoneMissed
<1>1. NoMissOn(n)
  BY <1>0, MissedIs DEF NoneMissed
<1>2. StorageOK(store[n]) /\ store[n].last \in 0 .. Len(log) /\ skips[n] \in SUBSET Comps
  <2>1. StorageOK(store[n]) /\ store[n].last <= Len(log)
    BY DEF TypeOK, NodesOK, NodeOK
  <2>2. skips[n] \in SUBSET Comps
    BY DEF TypeOK, MarksOK
  <2> QED BY <1>0, <2>1, <2>2 DEF StorageOK
<1>3. ASSUME hy[n].pc = "staging"
      PROVE  BatchOK(hy[n].batch) /\ hy[n].batch.last \in 0 .. Len(log) /\ hy[n].batch.skipped \in SUBSET Comps
  <2>1. BatchOK(hy[n].batch) /\ hy[n].to \in Nat
    BY <1>3 DEF TypeOK, NodesOK, NodeOK, PollOK, Idle
  <2>2. hy[n].batch.last <= hy[n].to /\ hy[n].to <= Len(log)
    BY <1>3 DEF PositionsInv, Polling
  <2> QED BY <1>0, <2>1, <2>2 DEF BatchOK
<1> DEFINE calm == Calm(restarts, rolled, n)
           calm1 == Calm(restarts', rolled', n)
<1>4. calm1 /\ ns[n] => ns'[n]
  BY <1>0, CalmKinds
<1>5. CASE Undisturbed(n)
  <2>1. /\ store'[n].last = store[n].last /\ skips'[n] = skips[n]
        /\ hy'[n].pc = "staging" => hy'[n] = hy[n]
    BY <1>5 DEF Undisturbed
  <2>2. \A x \in Lives(st') : x \in DOMAIN store[n].comps => x \in DOMAIN store'[n].comps
    BY <1>5 DEF Undisturbed, Lives, Wanted
  <2>3. NoMiss(log', calm1, store[n].last, ns'[n], skips[n], DOMAIN store'[n].comps, Lives(st'), intents')
    <3>1. NoMiss(log, calm, store[n].last, ns[n], skips[n], DOMAIN store[n].comps, Lives(st), intents)
      BY <1>1 DEF NoMissOn
    <3> QED BY <1>0, <1>2, <1>4, <2>2, <3>1, MissFrame
  <2>4. ASSUME hy'[n].pc = "staging"
        PROVE  NoMiss(log', calm1, hy[n].batch.last, ns'[n] \/ hy[n].batch.ns, skips[n] \cup hy[n].batch.skipped,
                      DOMAIN store'[n].comps \cup DOMAIN hy[n].batch.puts, Lives(st'), intents')
    <3> DEFINE g == hy[n].batch
    <3>1. hy[n].pc = "staging"
      BY <2>1, <2>4
    <3>2. NoMiss(log, calm, g.last, ns[n] \/ g.ns, skips[n] \cup g.skipped,
                 DOMAIN store[n].comps \cup DOMAIN g.puts, Lives(st), intents)
      BY <1>1, <3>1 DEF NoMissOn
    <3>3. g.last \in 0 .. Len(log) /\ skips[n] \cup g.skipped \in SUBSET Comps
      BY <1>2, <1>3, <3>1
    <3>4. calm1 /\ (ns[n] \/ g.ns) => (ns'[n] \/ g.ns)
      BY <1>4
    <3>5. \A x \in Lives(st') : x \in DOMAIN store[n].comps \cup DOMAIN g.puts
                                  => x \in DOMAIN store'[n].comps \cup DOMAIN g.puts
      BY <2>2
    <3> HIDE DEF g
    <3>6. NoMiss(log', calm1, g.last, ns'[n] \/ g.ns, skips[n] \cup g.skipped,
                 DOMAIN store'[n].comps \cup DOMAIN g.puts, Lives(st'), intents')
      BY <1>0, <3>2, <3>3, <3>4, <3>5, MissFrame
    <3> QED BY <3>6 DEF g
  <2> QED BY <2>1, <2>3, <2>4 DEF NoMissOn
<1>6. CASE \E g : Staged1(n, g)
  <2>1. PICK g : Staged1(n, g)
    BY <1>6
  <2>2. Advanced(n, g) /\ UNCHANGED <<log, intents, st, restarts, rolled, store, ns, skips>>
    BY <2>1 DEF Staged1, Off
  <2>3. NoMiss(log, calm, g.last, ns[n] \/ g.ns, skips[n] \cup g.skipped,
               DOMAIN store[n].comps \cup DOMAIN g.puts, Lives(st), intents)
    <3>1. CASE g = EmptyStaging(store[n])
      <4>1. DOMAIN g.puts = {} /\ g.last = store[n].last /\ g.ns = FALSE /\ g.skipped = {}
        BY <1>2, <3>1, EmptyStagingIs
      <4> QED BY <1>1, <4>1 DEF NoMissOn, NoMiss
    <3>2. CASE Polling(n) /\ g = hy[n].batch
      BY <1>1, <3>2 DEF Polling, NoMissOn
    <3> QED BY <2>1, <3>1, <3>2 DEF Staged1
  <2>4. calm \in BOOLEAN /\ Lives(st) \in SUBSET Comps /\ \A x \in Lives(st) : ~OpIn(log, "delete", x)
    BY LiveIs DEF Lives, Calm
  <2>5. LET h == hy'[n].batch IN
        NoMiss(log, calm, h.last, ns[n] \/ h.ns, skips[n] \cup h.skipped,
               DOMAIN store[n].comps \cup DOMAIN h.puts, Lives(st), intents)
    <3> HIDE DEF calm
    <3> QED BY <1>0, <2>2, <2>3, <2>4, MissNext
  <2> QED BY <1>1, <2>2, <2>5 DEF NoMissOn
<1>7. CASE \E g : Committed(n, g)
  <2>1. PICK g : Committed(n, g)
    BY <1>7
  <2>2. /\ UNCHANGED <<log, intents, st, restarts, rolled>> /\ hy[n].pc = "staging" /\ g = hy[n].batch
        /\ store'[n].last = g.last
        /\ DOMAIN store'[n].comps = (DOMAIN store[n].comps \cup DOMAIN g.puts) \ g.removes
        /\ ns'[n] = (ns[n] \/ g.ns) /\ skips'[n] = skips[n] \cup g.skipped /\ hy'[n].pc # "staging"
    BY <2>1 DEF Committed, Off, Polling
  <2>3. \A x \in Lives(st) : x \notin g.removes
    BY <2>2, WantedIs DEF Lives, Wanted, Polling
  <2>4. NoMiss(log, calm, g.last, ns[n] \/ g.ns, skips[n] \cup g.skipped,
               DOMAIN store[n].comps \cup DOMAIN g.puts, Lives(st), intents)
    BY <1>1, <2>2 DEF NoMissOn
  <2>5. NoMiss(log, calm, g.last, ns'[n], skips'[n], DOMAIN store'[n].comps, Lives(st), intents)
    <3> HIDE DEF calm
    <3> QED BY <2>2, <2>3, <2>4 DEF NoMiss
  <2> QED BY <2>2, <2>5 DEF NoMissOn
<1>8. CASE Restarted(n, TRUE)
  <2>1. /\ restarts' = restarts + 1 /\ hy'[n] = Idle /\ store'[n].last = 0 /\ skips'[n] = {}
    BY <1>8 DEF Restarted
  <2>2. ~calm1
    BY <1>0, <2>1 DEF Calm
  <2>3. \A x \in Lives(st') : x \in intents' \/ After(log', 0, x)
    <3> SUFFICES ASSUME NEW x \in Lives(st'), x \notin intents'
                 PROVE  After(log', 0, x)
      OBVIOUS
    <3>1. OpIn(log', "create", x)
      <4>1. RequestOK(st'[x], x \in intents', log', x, \E m \in Nodes : x \in DOMAIN pending'[m])
        BY RequestsAre DEF Lives
      <4> QED BY <4>1 DEF RequestOK, Lives
    <3>2. DOMAIN log' = 1 .. Len(log')
      BY DEF TypeOK, LogOK
    <3> QED BY <3>1, <3>2 DEF OpIn, After
  <2>4. hy'[n].pc # "staging"
    BY <2>1 DEF Idle
  <2> HIDE DEF calm1
  <2>5. NoMiss(log', calm1, store'[n].last, ns'[n], skips'[n], DOMAIN store'[n].comps, Lives(st'), intents')
    BY <2>1, <2>2, <2>3 DEF NoMiss
  <2> QED BY <2>4, <2>5 DEF NoMissOn, calm1
<1> QED BY <1>5, <1>6, <1>7, <1>8, NodeKinds

-----------------------------------------------------------------------------
(* A follower is the replay of the log.                                      *)

FollowOn(n) ==
  /\ lk[n].pc # "type"
  /\ skips[n] = {} => DOMAIN store[n].comps = Replay(log, store[n].last)
  /\ hy[n].pc = "staging" /\ skips[n] \cup hy[n].batch.skipped = {} =>
       (DOMAIN store[n].comps \cup DOMAIN hy[n].batch.puts) \ hy[n].batch.removes
         = Replay(log, hy[n].batch.last)

(* The invariant of the followers, in those terms. *)
LEMMA ReplayIs ==
  /\ ReplayInv <=> \A n \in Nodes \ Ingress : FollowOn(n)
  /\ ReplayInv' <=> \A n \in Nodes \ Ingress : FollowOn(n)'
<1>1. \A p : Replayed(p) = Replay(log, p)
  BY DEF Replayed, Replay
<1>3. ReplayInv <=> \A n \in Nodes \ Ingress : FollowOn(n)
  BY <1>1 DEF ReplayInv, FollowOn, Polling
<1>4. ReplayInv' <=> \A n \in Nodes \ Ingress : FollowOn(n)'
  BY DEF ReplayInv, FollowOn, Polling, Replayed, Replay
<1> QED BY <1>3, <1>4

\* Nothing that a replay depends on changes on n.
Follows(n) ==
  /\ DOMAIN store'[n].comps = DOMAIN store[n].comps /\ store'[n].last = store[n].last
  /\ skips'[n] = skips[n] /\ (hy'[n].pc = "staging" => hy'[n] = hy[n])
  /\ (lk'[n].pc = "type" => lk'[n] = lk[n])

(* What happens on a follower in a step: its rows are the hydrator's. *)
LEMMA FollowerKinds ==
  ASSUME TypeOK, Kinds, NEW n \in Nodes, n \notin Ingress, lk[n].pc # "type"
  PROVE  \/ Follows(n)
         \/ \E g : Staged1(n, g)
         \/ \E g : Committed(n, g)
         \/ Restarted(n, TRUE)
<1>a. ASSUME Same(n)
      PROVE  Follows(n)
  BY <1>a DEF Same, Follows
<1>b. \A x \in Comps : by[x] # n
  BY DEF TypeOK, CallsOK
<1>1. CASE Quiet
  BY <1>1 DEF Quiet, QuietAt, Follows
<1>2. CASE Named \/ \E x \in Comps : Answered(x) \/ Incorporated(x) \/ DeleteSent(x)
  <2>1. Still
    BY <1>2 DEF Named, Answered, Incorporated, DeleteSent
  <2> QED BY <2>1 DEF Still, Follows
<1>3. CASE \E m \in Nodes, x \in Comps : Submitted(m, x)
  <2>1. PICK m \in Nodes, x \in Comps : Submitted(m, x)
    BY <1>3
  <2>2. m # n /\ Same(n)
    BY <2>1 DEF Submitted
  <2> QED BY <1>a, <2>2
<1>4. CASE \E m \in Nodes, x \in Comps : Withdrawn(m, x)
  <2>1. PICK m \in Nodes, x \in Comps : Withdrawn(m, x)
    BY <1>4
  <2>2. m # n
    BY <1>b, <2>1 DEF Withdrawn
  <2>3. Same(n)
    BY <2>1, <2>2 DEF Withdrawn
  <2> QED BY <1>a, <2>3
<1>5. CASE \E m \in Nodes, x \in Comps : TypeLocked(m, x)
  <2>1. PICK m \in Nodes, x \in Comps : TypeLocked(m, x)
    BY <1>5
  <2>2. m # n
    BY <1>b, <2>1 DEF TypeLocked
  <2>3. Same(n)
    BY <2>1, <2>2 DEF TypeLocked
  <2> QED BY <1>a, <2>3
<1>6. CASE \E m \in Nodes : TypeWritten(m)
  <2>1. PICK m \in Nodes : TypeWritten(m)
    BY <1>6
  <2>2. m # n /\ Same(n)
    BY <2>1 DEF TypeWritten
  <2> QED BY <1>a, <2>2
<1>7. CASE \E m \in Nodes : \E g : Staged1(m, g)
  <2>0. PICK m \in Nodes : \E g : Staged1(m, g)
    BY <1>7
  <2>1. PICK g : Staged1(m, g)
    BY <2>0
  <2>2. m # n => Same(n)
    BY <2>1 DEF Staged1
  <2> QED BY <1>a, <2>1, <2>2
<1>8. CASE \E m \in Nodes : \E g : Committed(m, g)
  <2>0. PICK m \in Nodes : \E g : Committed(m, g)
    BY <1>8
  <2>1. PICK g : Committed(m, g)
    BY <2>0
  <2>2. m # n => Same(n)
    BY <2>1 DEF Committed
  <2> QED BY <1>a, <2>1, <2>2
<1>9. CASE \E m \in Nodes : \E x : Drained(m, x)
  <2>0. PICK m \in Nodes : \E y : Drained(m, y)
    BY <1>9
  <2>1. PICK y : Drained(m, y)
    BY <2>0
  <2>2. CASE m # n
    BY <1>a, <2>1, <2>2 DEF Drained
  <2>3. CASE m = n
    <3>1. /\ DOMAIN store'[n].comps = DOMAIN store[n].comps /\ hy'[n].pc # "staging"
          /\ store'[n].last = store[n].last /\ UNCHANGED <<skips, lk>>
      BY <2>1, <2>3 DEF Drained
    <3> QED BY <3>1 DEF Follows
  <2> QED BY <2>2, <2>3
<1>10. CASE \E m \in Nodes, wipe \in BOOLEAN : Restarted(m, wipe)
  <2>1. PICK m \in Nodes, wipe \in BOOLEAN : Restarted(m, wipe)
    BY <1>10
  <2>2. CASE m # n
    BY <1>a, <2>1, <2>2 DEF Restarted
  <2>3. CASE m = n /\ wipe = TRUE
    BY <2>1, <2>3
  <2>4. CASE m = n /\ wipe = FALSE
    <3>1. hy'[n] = Idle /\ lk'[n] = Idle /\ UNCHANGED <<store, skips>>
      BY <2>1, <2>4 DEF Restarted
    <3>2. hy'[n].pc # "staging" /\ lk'[n].pc # "type"
      BY <3>1 DEF Idle
    <3> QED BY <3>1, <3>2 DEF Follows
  <2> QED BY <2>2, <2>3, <2>4
<1> QED BY <1>1, <1>2, <1>3, <1>4, <1>5, <1>6, <1>7, <1>8, <1>9, <1>10, Zenon DEF Kinds

(* Staging one more delta is replaying one more delta. *)
LEMMA FollowNext ==
  ASSUME TypeOK, Placed(log), NEW n \in Nodes, NEW g, Advanced(n, g),
         skips[n] \cup g.skipped = {} =>
           (DOMAIN store[n].comps \cup DOMAIN g.puts) \ g.removes = Replay(log, g.last),
         skips[n] \cup hy'[n].batch.skipped = {}
  PROVE  LET h == hy'[n].batch IN
         (DOMAIN store[n].comps \cup DOMAIN h.puts) \ h.removes = Replay(log, h.last)
<1> DEFINE p == g.last
           h == hy'[n].batch
           d == log[p + 1]
           c == DOMAIN store[n].comps
<1>1. p \in Nat /\ d.at = p + 1 /\ (d.op # "ns" => d.id \in Comps)
  BY AdvancedIs
<1>2. StageEffect(store[n], ns[n], g, d, h)
  BY DEF Advanced
<1>3. d.op \in {"ns", "create", "delete"}
  BY <1>2 DEF StageEffect
<1>4. Replay(log, p + 1) = CASE d.op = "ns" -> Replay(log, p)
                             [] d.op = "create" -> Replay(log, p) \cup {d.id}
                             [] d.op = "delete" -> Replay(log, p) \ {d.id}
  BY <1>1, <1>3, ReplayNext
<1>5. skips[n] \cup g.skipped = {} => (c \cup DOMAIN g.puts) \ g.removes = Replay(log, p)
  OBVIOUS
<1>6. skips[n] = {} /\ h.skipped = {}
  OBVIOUS
<1>7. view(store[n], g, d.id) <=> d.id \notin g.removes /\ d.id \in DOMAIN g.puts \cup c
  BY DEF view
<1>9. g.last = p
  OBVIOUS
<1> HIDE DEF p, h, d, c
<1> SUFFICES (c \cup DOMAIN h.puts) \ h.removes = Replay(log, h.last)
  BY DEF h, c
<1>8. g.skipped = {}
  BY <1>2, <1>6 DEF StageEffect
<1>10. (c \cup DOMAIN g.puts) \ g.removes = Replay(log, p)
  BY <1>5, <1>6, <1>8
<1>11. CASE d.op = "ns"
  <2>1. h.last = p + 1 /\ h.puts = g.puts /\ h.removes = g.removes
    BY <1>1, <1>2, <1>11 DEF StageEffect
  <2> QED BY <1>4, <1>10, <1>11, <2>1
<1>12. CASE d.op = "delete"
  <2>1. /\ h.last = p + 1 /\ DOMAIN h.puts = DOMAIN g.puts \ {d.id}
        /\ h.removes = g.removes \cup {d.id}
    BY <1>1, <1>2, <1>12 DEF StageEffect
  <2>2. Replay(log, p + 1) = Replay(log, p) \ {d.id}
    BY <1>4, <1>12
  <2> QED BY <1>10, <2>1, <2>2
<1>13. CASE d.op = "create"
  <2>1. Replay(log, p + 1) = Replay(log, p) \cup {d.id}
    BY <1>4, <1>13
  <2>2. CASE h.last = p + 1 /\ view(store[n], g, d.id) /\ h.puts = g.puts /\ h.removes = g.removes
    BY <1>7, <1>10, <2>1, <2>2
  <2>3. CASE h.last = p + 1 /\ DOMAIN h.puts = DOMAIN g.puts \cup {d.id} /\ h.removes = g.removes \ {d.id}
    BY <1>10, <2>1, <2>3
  <2>4. CASE h.last = p /\ h.puts = g.puts /\ h.removes = g.removes
    BY <1>10, <2>4
  <2>5. CASE h.skipped = g.skipped \cup {d.id}
    BY <1>6, <2>5
  <2> QED BY <1>1, <1>2, <1>9, <1>13, <2>2, <2>3, <2>4, <2>5 DEF StageEffect
<1> QED BY <1>3, <1>11, <1>12, <1>13

(* A follower stays the replay of the log. *)
LEMMA ReplayStep ==
  ASSUME TypeOK, RequestsInv, PositionsInv, ReplayInv, Kinds
  PROVE  ReplayInv'
<1>0. /\ log \in Seq(Deltas) /\ Len(log) \in Nat /\ Placed(log)
      /\ UNCHANGED log \/ \E d : Appended(d)
  BY RequestsAre, LogKinds DEF TypeOK, LogOK
<1>a. \A p \in 0 .. Len(log) : Replay(log', p) = Replay(log, p)
  BY <1>0, LogFrame
<1> SUFFICES ASSUME NEW n \in Nodes, n \notin Ingress
             PROVE  FollowOn(n)'
  BY ReplayIs
<1>1. FollowOn(n)
  BY ReplayIs
<1>2. StorageOK(store[n]) /\ store[n].last \in 0 .. Len(log)
  <2>1. StorageOK(store[n]) /\ store[n].last <= Len(log)
    BY DEF TypeOK, NodesOK, NodeOK
  <2> QED BY <1>0, <2>1 DEF StorageOK
<1>3. ASSUME hy[n].pc = "staging"
      PROVE  hy[n].batch.last \in 0 .. Len(log)
  <2>1. BatchOK(hy[n].batch) /\ hy[n].to \in Nat
    BY <1>3 DEF TypeOK, NodesOK, NodeOK, PollOK, Idle
  <2>2. hy[n].batch.last <= hy[n].to /\ hy[n].to <= Len(log)
    BY <1>3 DEF PositionsInv, Polling
  <2> QED BY <1>0, <2>1, <2>2 DEF BatchOK
<1>4. CASE Follows(n)
  BY <1>1, <1>2, <1>3, <1>4, <1>a DEF Follows, FollowOn
<1>5. CASE \E g : Staged1(n, g)
  <2>1. PICK g : Staged1(n, g)
    BY <1>5
  <2>2. Advanced(n, g) /\ UNCHANGED <<log, store, lk, skips>>
    BY <2>1 DEF Staged1, Off
  <2>3. skips[n] \cup g.skipped = {} =>
           (DOMAIN store[n].comps \cup DOMAIN g.puts) \ g.removes = Replay(log, g.last)
    <3>1. CASE g = EmptyStaging(store[n])
      <4>1. DOMAIN g.puts = {} /\ g.removes = {} /\ g.last = store[n].last
        BY <1>2, <3>1, EmptyStagingIs
      <4>2. skips[n] = {} => DOMAIN store[n].comps = Replay(log, store[n].last)
        BY <1>1 DEF FollowOn
      <4> QED BY <4>1, <4>2
    <3>2. CASE Polling(n) /\ g = hy[n].batch
      BY <1>1, <3>2 DEF Polling, FollowOn
    <3> QED BY <2>1, <3>1, <3>2 DEF Staged1
  <2>4. LET h == hy'[n].batch IN skips[n] \cup h.skipped = {} =>
           (DOMAIN store[n].comps \cup DOMAIN h.puts) \ h.removes = Replay(log, h.last)
    BY <1>0, <2>2, <2>3, FollowNext
  <2> QED BY <1>1, <2>2, <2>4 DEF FollowOn
<1>6. CASE \E g : Committed(n, g)
  <2>1. PICK g : Committed(n, g)
    BY <1>6
  <2>2. /\ UNCHANGED <<log, lk>> /\ hy[n].pc = "staging" /\ g = hy[n].batch /\ store'[n].last = g.last
        /\ DOMAIN store'[n].comps = (DOMAIN store[n].comps \cup DOMAIN g.puts) \ g.removes
        /\ skips'[n] = skips[n] \cup g.skipped /\ hy'[n].pc # "staging"
    BY <2>1 DEF Committed, Off, Polling
  <2> QED BY <1>1, <2>2 DEF FollowOn
<1>7. CASE Restarted(n, TRUE)
  <2>1. hy'[n] = Idle /\ lk'[n] = Idle /\ store'[n].last = 0 /\ DOMAIN store'[n].comps = {}
    BY <1>7 DEF Restarted
  <2>2. Replay(log', 0) = {}
    BY DEF Replay
  <2>3. hy'[n].pc # "staging" /\ lk'[n].pc # "type"
    BY <2>1 DEF Idle
  <2> QED BY <2>1, <2>2, <2>3 DEF FollowOn
<1>8. lk[n].pc # "type"
  BY <1>1 DEF FollowOn
<1> QED BY <1>4, <1>5, <1>6, <1>7, <1>8, FollowerKinds

-----------------------------------------------------------------------------
(* A delete is final.                                                        *)

\* The first p deltas killed x, and x is gone from n: only a staged remove R
\* still covers a row of it.
RowGone(n, x, p, R) == Dead(log, p, x) /\ Gone(n, x) => x \notin DOMAIN store[n].comps \ R

GoneOn(n, x) ==
  /\ lk[n].pc = "type" /\ lk[n].id = x => st[x] # "unused" /\ ~Gone(n, x)
  /\ st[x] = "deleted" => x \notin DOMAIN pending[by[x]]
  /\ RowGone(n, x, store[n].last, {})
  /\ hy[n].pc = "staging" => RowGone(n, x, hy[n].batch.last, hy[n].batch.removes)

(* The invariant of the deletes, in those terms. *)
LEMMA DeletedIs ==
  /\ DeletedInv <=> \A n \in Nodes, x \in Comps : GoneOn(n, x)
  /\ DeletedInv' <=> \A n \in Nodes, x \in Comps : GoneOn(n, x)'
<1>1. DeletedInv <=> \A n \in Nodes, x \in Comps : GoneOn(n, x)
  BY DEF DeletedInv, GoneOn, RowGone, Polling, Dead, DeadBy
<1>2. DeletedInv' <=> \A n \in Nodes, x \in Comps : GoneOn(n, x)'
  BY DEF DeletedInv, GoneOn, RowGone, Polling, Dead, DeadBy
<1> QED BY <1>1, <1>2

(* What a deleted composition has in the log. *)
LEMMA DeadIs ==
  ASSUME log \in Seq(Deltas), NEW p \in 0 .. Len(log), NEW x, Dead(log, p, x)
  PROVE  OpIn(log, "create", x)
<1>1. Len(log) \in Nat /\ DOMAIN log = 1 .. Len(log)
  OBVIOUS
<1>2. PICK i \in 1 .. p : log[i].op = "create" /\ log[i].id = x
  BY DEF Dead
<1>3. i \in DOMAIN log
  BY <1>1, <1>2
<1> QED BY <1>2, <1>3 DEF OpIn

(* How a composition comes to be gone from a node. *)
LEMMA GoneKinds ==
  ASSUME Kinds, NEW n \in Nodes, NEW x \in Comps, Gone(n, x)'
  PROVE  Gone(n, x) \/ Submitted(n, x) \/ Withdrawn(n, x)
<1> USE DEF Gone
<1>a. ASSUME \A m \in Nodes : DOMAIN pending'[m] \subseteq DOMAIN pending[m],
             st'[x] = "deleted" => st[x] = "deleted" /\ by'[x] = by[x]
      PROVE  Gone(n, x)
  BY <1>a
<1>1. CASE Quiet
  BY <1>a, <1>1 DEF Quiet, QuietAt
<1>2. CASE Named \/ \E y \in Comps : Answered(y) \/ Incorporated(y) \/ DeleteSent(y)
  <2>1. Still
    BY <1>2 DEF Named, Answered, Incorporated, DeleteSent
  <2>2. st'[x] = "deleted" => st[x] = "deleted" /\ by'[x] = by[x]
    BY <1>2 DEF Named, Answered, Incorporated, DeleteSent, Only
  <2> QED BY <1>a, <2>1, <2>2 DEF Still
<1>3. CASE \E m \in Nodes, y \in Comps : Submitted(m, y)
  <2>1. PICK m \in Nodes, y \in Comps : Submitted(m, y)
    BY <1>3
  <2>2. CASE y # x
    <3>1. st'[x] = st[x] /\ by'[x] = by[x]
      BY <2>1, <2>2 DEF Submitted, Only
    <3>2. x \in DOMAIN pending'[n] => x \in DOMAIN pending[n]
      BY <2>1, <2>2 DEF Submitted, Same
    <3> QED BY <3>1, <3>2
  <2>3. CASE y = x /\ m # n
    <3>1. st'[x] # "deleted"
      BY <2>1, <2>3 DEF Submitted
    <3>2. DOMAIN pending'[n] = DOMAIN pending[n]
      BY <2>1, <2>3 DEF Submitted, Same
    <3> QED BY <3>1, <3>2
  <2> QED BY <2>1, <2>2, <2>3
<1>4. CASE \E m \in Nodes, y \in Comps : Withdrawn(m, y)
  <2>1. PICK m \in Nodes, y \in Comps : Withdrawn(m, y)
    BY <1>4
  <2>2. by'[x] = by[x] /\ (x # y => st'[x] = st[x]) /\ m = by[y]
    BY <2>1 DEF Withdrawn, Only
  <2>3. x \in DOMAIN pending'[n] => x \in DOMAIN pending[n]
    BY <2>1 DEF Withdrawn, Same
  <2> QED BY <2>1, <2>2, <2>3
<1>5. CASE \E m \in Nodes, y \in Comps : TypeLocked(m, y)
  BY <1>a, <1>5 DEF TypeLocked, Off
<1>6. CASE \/ \E m \in Nodes : TypeWritten(m)
           \/ \E m \in Nodes : \E g : Staged1(m, g)
           \/ \E m \in Nodes : \E g : Committed(m, g)
  BY <1>a, <1>6 DEF TypeWritten, Staged1, Committed, Off
<1>7. CASE \E m \in Nodes : \E y : Drained(m, y)
  <2>1. UNCHANGED <<st, by>> /\ \A m \in Nodes : DOMAIN pending'[m] \subseteq DOMAIN pending[m]
    BY <1>7 DEF Drained, Off, Same
  <2> QED BY <1>a, <2>1
<1>8. CASE \E m \in Nodes, wipe \in BOOLEAN : Restarted(m, wipe)
  <2>1. /\ UNCHANGED by /\ (st'[x] = "deleted" => st[x] = "deleted")
        /\ \A m \in Nodes : DOMAIN pending'[m] \subseteq DOMAIN pending[m]
    BY <1>8 DEF Restarted, Same
  <2> QED BY <1>a, <2>1
<1> QED BY <1>1, <1>2, <1>3, <1>4, <1>5, <1>6, <1>7, <1>8, Zenon DEF Kinds

(* How a row comes to be stored. *)
LEMMA GainKinds ==
  ASSUME Kinds, NEW n \in Nodes, NEW x \in Comps, x \in DOMAIN store'[n].comps, x \notin DOMAIN store[n].comps
  PROVE  \/ Submitted(n, x) \/ (lk[n].pc = "type" /\ lk[n].id = x)
         \/ \E g : Committed(n, g)
<1>a. ~Same(n)
  BY DEF Same
<1>1. CASE Quiet
  BY <1>1 DEF Quiet, QuietAt
<1>2. CASE Named \/ \E y \in Comps : Answered(y) \/ Incorporated(y) \/ DeleteSent(y)
  <2>1. Still
    BY <1>2 DEF Named, Answered, Incorporated, DeleteSent
  <2> QED BY <2>1 DEF Still
<1>3. CASE \E m \in Nodes, y \in Comps : Submitted(m, y)
  <2>1. PICK m \in Nodes, y \in Comps : Submitted(m, y)
    BY <1>3
  <2>2. m = n
    BY <1>a, <2>1 DEF Submitted
  <2>3. x = y
    BY <2>1, <2>2 DEF Submitted
  <2> QED BY <2>1, <2>2, <2>3
<1>4. CASE \E m \in Nodes, y \in Comps : Withdrawn(m, y)
  <2>1. PICK m \in Nodes, y \in Comps : Withdrawn(m, y)
    BY <1>4
  <2>2. m = n
    BY <1>a, <2>1 DEF Withdrawn
  <2> QED BY <2>1, <2>2 DEF Withdrawn
<1>5. CASE \E m \in Nodes, y \in Comps : TypeLocked(m, y)
  BY <1>5 DEF TypeLocked
<1>6. CASE \E m \in Nodes : TypeWritten(m)
  <2>1. PICK m \in Nodes : TypeWritten(m)
    BY <1>6
  <2>2. m = n
    BY <1>a, <2>1 DEF TypeWritten
  <2> QED BY <2>1, <2>2 DEF TypeWritten
<1>7. CASE \E m \in Nodes : \E g : Staged1(m, g)
  BY <1>7 DEF Staged1
<1>8. CASE \E m \in Nodes : \E g : Committed(m, g)
  <2>0. PICK m \in Nodes : \E g : Committed(m, g)
    BY <1>8
  <2>1. PICK g : Committed(m, g)
    BY <2>0
  <2>2. m = n
    BY <1>a, <2>1 DEF Committed
  <2> QED BY <2>1, <2>2
<1>9. CASE \E m \in Nodes : \E y : Drained(m, y)
  BY <1>9 DEF Drained, Same
<1>10. CASE \E m \in Nodes, wipe \in BOOLEAN : Restarted(m, wipe)
  BY <1>10 DEF Restarted, Same
<1> QED BY <1>1, <1>2, <1>3, <1>4, <1>5, <1>6, <1>7, <1>8, <1>9, <1>10, Zenon DEF Kinds

(* Only a commit brings back the row of a composition that is gone. *)
LEMMA GoneFrame ==
  ASSUME TypeOK, RequestsInv, Kinds, NEW n \in Nodes, NEW x \in Comps, GoneOn(n, x),
         \A g : ~Committed(n, g), NEW p \in 0 .. Len(log), NEW R, RowGone(n, x, p, R)
  PROVE  Dead(log', p, x) /\ Gone(n, x)' => x \notin DOMAIN store'[n].comps \ R
<1> SUFFICES ASSUME Dead(log', p, x), Gone(n, x)', x \in DOMAIN store'[n].comps, x \notin R
             PROVE  FALSE
  OBVIOUS
<1>0. log \in Seq(Deltas) /\ (UNCHANGED log \/ \E d : Appended(d))
  BY LogKinds DEF TypeOK, LogOK
<1>1. Dead(log, p, x)
  <2>1. CASE UNCHANGED log
    BY <2>1
  <2>2. CASE \E d : Appended(d)
    BY <1>0, <2>2, LogFrame
  <2> QED BY <1>0, <2>1, <2>2
<1>2. st[x] # "unused"
  <2>1. OpIn(log, "create", x)
    BY <1>0, <1>1, DeadIs
  <2>2. RequestOK(st[x], x \in intents, log, x, \E m \in Nodes : x \in DOMAIN pending[m])
    BY RequestsAre
  <2> QED BY <2>1, <2>2 DEF RequestOK
<1>3. ~Submitted(n, x)
  BY <1>2 DEF Submitted
<1>4. CASE Gone(n, x)
  <2>1. x \notin DOMAIN store[n].comps
    BY <1>1, <1>4 DEF RowGone
  <2>2. ~(lk[n].pc = "type" /\ lk[n].id = x)
    BY <1>4 DEF GoneOn
  <2> QED BY <1>3, <2>1, <2>2, GainKinds
<1>5. CASE ~Gone(n, x) /\ Withdrawn(n, x)
  BY <1>5 DEF Withdrawn, Gone
<1> QED BY <1>3, <1>4, <1>5, GoneKinds

(* Staging the next delta covers a row with its Delete. *)
LEMMA GoneNext ==
  ASSUME TypeOK, Placed(log), Once(log), NEW n \in Nodes, NEW g, Advanced(n, g), NEW x \in Comps,
         RowGone(n, x, g.last, g.removes)
  PROVE  RowGone(n, x, hy'[n].batch.last, hy'[n].batch.removes)
<1> DEFINE p == g.last
           h == hy'[n].batch
           d == log[p + 1]
<1>1. p \in Nat /\ p + 1 \in DOMAIN log /\ p < Len(log) /\ Len(log) \in Nat /\ d.at = p + 1
  BY AdvancedIs
<1>2. StageEffect(store[n], ns[n], g, d, h) /\ g.last = p
  BY DEF Advanced
<1>3. \A y : Dead(log, p + 1, y) => Dead(log, p, y) \/ (d.op = "delete" /\ d.id = y)
  BY <1>1, Prefix
<1>4. d.op = "create" /\ d.id = x => ~Dead(log, p, x)
  <2> SUFFICES ASSUME d.op = "create", d.id = x, Dead(log, p, x)
               PROVE  FALSE
    OBVIOUS
  <2>1. PICK i \in 1 .. p : log[i].op = "create" /\ log[i].id = x
    BY DEF Dead
  <2>2. DOMAIN log = 1 .. Len(log)
    BY DEF TypeOK, LogOK
  <2>3. i \in DOMAIN log /\ i # p + 1
    BY <1>1, <2>1, <2>2
  <2> QED BY <1>1, <2>1, <2>3 DEF Once
<1> HIDE DEF p, h, d
<1> SUFFICES RowGone(n, x, h.last, h.removes)
  BY DEF h
<1>5. CASE h.last = p /\ h.removes = g.removes
  BY <1>2, <1>5
<1>6. CASE h.last = p + 1
  <2> SUFFICES ASSUME Dead(log, p + 1, x), Gone(n, x)
               PROVE  x \notin DOMAIN store[n].comps \ h.removes
    BY <1>6 DEF RowGone
  <2>1. CASE d.op = "delete" /\ d.id = x
    BY <1>2, <2>1 DEF StageEffect
  <2>2. CASE Dead(log, p, x)
    <3>1. x \notin DOMAIN store[n].comps \ g.removes
      BY <1>2, <2>2 DEF RowGone
    <3>2. x \in g.removes => x \in h.removes
      BY <1>2, <1>4, <2>2 DEF StageEffect
    <3> QED BY <3>1, <3>2
  <2> QED BY <1>3, <2>1, <2>2
<1> QED BY <1>1, <1>2, <1>5, <1>6 DEF StageEffect

(* A type is written back only to a row that is not gone. *)
LEMMA LockKinds ==
  ASSUME Kinds, NEW n \in Nodes, NEW x \in Comps, lk'[n].pc = "type", lk'[n].id = x
  PROVE  lk'[n] = lk[n] \/ TypeLocked(n, x)
<1>a. ASSUME Same(n)
      PROVE  lk'[n] = lk[n]
  BY <1>a DEF Same
<1>b. lk'[n] # Idle
  BY DEF Idle
<1>1. CASE Quiet
  BY <1>1 DEF Quiet, QuietAt
<1>2. CASE Named \/ \E y \in Comps : Answered(y) \/ Incorporated(y) \/ DeleteSent(y)
  <2>1. Still
    BY <1>2 DEF Named, Answered, Incorporated, DeleteSent
  <2> QED BY <2>1 DEF Still
<1>3. CASE \E m \in Nodes, y \in Comps : Submitted(m, y) \/ Withdrawn(m, y)
  BY <1>3 DEF Submitted, Withdrawn
<1>4. CASE \E m \in Nodes, y \in Comps : TypeLocked(m, y)
  <2>1. PICK m \in Nodes, y \in Comps : TypeLocked(m, y)
    BY <1>4
  <2>2. CASE m = n
    <3>1. y = x
      BY <2>1, <2>2 DEF TypeLocked
    <3> QED BY <2>1, <2>2, <3>1
  <2>3. CASE m # n
    BY <1>a, <2>1, <2>3 DEF TypeLocked
  <2> QED BY <2>2, <2>3
<1>5. CASE \E m \in Nodes : TypeWritten(m)
  <2>1. PICK m \in Nodes : TypeWritten(m)
    BY <1>5
  <2>2. Same(n) \/ lk'[n] = Idle
    BY <2>1 DEF TypeWritten
  <2> QED BY <1>a, <1>b, <2>2
<1>6. CASE \/ \E m \in Nodes : \E g : Staged1(m, g)
           \/ \E m \in Nodes : \E g : Committed(m, g)
           \/ \E m \in Nodes : \E y : Drained(m, y)
  BY <1>6 DEF Staged1, Committed, Drained
<1>7. CASE \E m \in Nodes, wipe \in BOOLEAN : Restarted(m, wipe)
  <2>1. PICK m \in Nodes, wipe \in BOOLEAN : Restarted(m, wipe)
    BY <1>7
  <2>2. Same(n) \/ lk'[n] = Idle
    BY <2>1 DEF Restarted
  <2> QED BY <1>a, <1>b, <2>2
<1> QED BY <1>1, <1>2, <1>3, <1>4, <1>5, <1>6, <1>7, Zenon DEF Kinds

(* A request is submitted once and for all. *)
LEMMA UsedKinds ==
  ASSUME Kinds, NEW x \in Comps, st[x] # "unused"
  PROVE  st'[x] # "unused"
<1>1. CASE Quiet \/ Named
  BY <1>1 DEF Quiet, Named
<1>2. CASE \E y \in Comps : Answered(y) \/ Incorporated(y) \/ DeleteSent(y)
  BY <1>2 DEF Answered, Incorporated, DeleteSent, Only
<1>3. CASE \E m \in Nodes, y \in Comps : Submitted(m, y) \/ Withdrawn(m, y) \/ TypeLocked(m, y)
  <2>1. PICK m \in Nodes, y \in Comps : Submitted(m, y) \/ Withdrawn(m, y) \/ TypeLocked(m, y)
    BY <1>3
  <2> QED BY <2>1 DEF Submitted, Withdrawn, TypeLocked, Off, Only
<1>4. CASE \/ \E m \in Nodes : TypeWritten(m)
           \/ \E m \in Nodes : \E g : Staged1(m, g)
           \/ \E m \in Nodes : \E g : Committed(m, g)
           \/ \E m \in Nodes : \E y : Drained(m, y)
  BY <1>4 DEF TypeWritten, Staged1, Committed, Drained, Off
<1>5. CASE \E m \in Nodes, wipe \in BOOLEAN : Restarted(m, wipe)
  BY <1>5 DEF Restarted
<1> QED BY <1>1, <1>2, <1>3, <1>4, <1>5, Zenon DEF Kinds

(* How a composition comes to be deleted. *)
LEMMA DeletedKinds ==
  ASSUME Kinds, NEW x \in Comps, st'[x] = "deleted"
  PROVE  \/ /\ st[x] = "deleted" /\ by'[x] = by[x]
            /\ \A m \in Nodes : x \in DOMAIN pending'[m] => x \in DOMAIN pending[m]
         \/ \E n \in Nodes : Withdrawn(n, x)
<1>1. CASE Quiet
  BY <1>1 DEF Quiet, QuietAt
<1>2. CASE Named \/ \E y \in Comps : Answered(y) \/ Incorporated(y) \/ DeleteSent(y)
  <2>1. Still
    BY <1>2 DEF Named, Answered, Incorporated, DeleteSent
  <2>2. st[x] = "deleted" /\ by'[x] = by[x]
    BY <1>2 DEF Named, Answered, Incorporated, DeleteSent, Only
  <2> QED BY <2>1, <2>2 DEF Still
<1>3. CASE \E m \in Nodes, y \in Comps : Submitted(m, y)
  <2>1. PICK m \in Nodes, y \in Comps : Submitted(m, y)
    BY <1>3
  <2>2. y # x
    BY <2>1 DEF Submitted
  <2>3. st'[x] = st[x] /\ by'[x] = by[x]
    BY <2>1, <2>2 DEF Submitted, Only
  <2>4. \A k \in Nodes : x \in DOMAIN pending'[k] => x \in DOMAIN pending[k]
    BY <2>1, <2>2 DEF Submitted, Same
  <2> QED BY <2>3, <2>4
<1>4. CASE \E m \in Nodes, y \in Comps : Withdrawn(m, y)
  <2>1. PICK m \in Nodes, y \in Comps : Withdrawn(m, y)
    BY <1>4
  <2>2. CASE x # y
    <3>1. st'[x] = st[x] /\ by'[x] = by[x]
      BY <2>1, <2>2 DEF Withdrawn, Only
    <3>2. \A k \in Nodes : x \in DOMAIN pending'[k] => x \in DOMAIN pending[k]
      BY <2>1, <2>2 DEF Withdrawn, Same
    <3> QED BY <3>1, <3>2
  <2> QED BY <2>1, <2>2
<1>5. CASE \/ \E m \in Nodes, y \in Comps : TypeLocked(m, y)
           \/ \E m \in Nodes : TypeWritten(m)
           \/ \E m \in Nodes : \E g : Staged1(m, g)
           \/ \E m \in Nodes : \E g : Committed(m, g)
  BY <1>5 DEF TypeLocked, TypeWritten, Staged1, Committed, Off
<1>6. CASE \E m \in Nodes : \E y : Drained(m, y)
  BY <1>6 DEF Drained, Off, Same
<1>7. CASE \E m \in Nodes, wipe \in BOOLEAN : Restarted(m, wipe)
  BY <1>7 DEF Restarted, Same
<1> QED BY <1>1, <1>2, <1>3, <1>4, <1>5, <1>6, <1>7, Zenon DEF Kinds

(* What was deleted stays gone. *)
LEMMA DeletedStep ==
  ASSUME TypeOK, RequestsInv, PositionsInv, StagingInv, DeletedInv, Kinds
  PROVE  DeletedInv'
<1>0. log \in Seq(Deltas) /\ Len(log) \in Nat /\ Placed(log) /\ Once(log)
  BY RequestsAre DEF TypeOK, LogOK
<1> SUFFICES ASSUME NEW n \in Nodes, NEW x \in Comps
             PROVE  GoneOn(n, x)'
  BY DeletedIs
<1>1. \A m \in Nodes : GoneOn(m, x)
  BY DeletedIs
<1>2. StorageOK(store[n]) /\ store[n].last \in 0 .. Len(log)
  <2>1. StorageOK(store[n]) /\ store[n].last <= Len(log)
    BY DEF TypeOK, NodesOK, NodeOK
  <2> QED BY <1>0, <2>1 DEF StorageOK
<1>3. ASSUME hy[n].pc = "staging"
      PROVE  hy[n].batch.last \in 0 .. Len(log)
  <2>1. BatchOK(hy[n].batch) /\ hy[n].to \in Nat
    BY <1>3 DEF TypeOK, NodesOK, NodeOK, PollOK, Idle
  <2>2. hy[n].batch.last <= hy[n].to /\ hy[n].to <= Len(log)
    BY <1>3 DEF PositionsInv, Polling
  <2> QED BY <1>0, <2>1, <2>2 DEF BatchOK
<1>4. ASSUME lk'[n].pc = "type", lk'[n].id = x
      PROVE  st'[x] # "unused" /\ ~Gone(n, x)'
  <2>1. CASE TypeLocked(n, x)
    BY <2>1 DEF TypeLocked, Off, Gone
  <2>2. CASE lk'[n] = lk[n]
    <3>1. st[x] # "unused" /\ ~Gone(n, x) /\ ~Unlocked(n, x)
      BY <1>1, <1>4, <2>2 DEF GoneOn, Unlocked
    <3>2. ~Submitted(n, x) /\ ~Withdrawn(n, x)
      BY <3>1 DEF Submitted, Withdrawn
    <3> QED BY <3>1, <3>2, GoneKinds, UsedKinds
  <2> QED BY <1>4, <2>1, <2>2, LockKinds
<1>5. st'[x] = "deleted" => x \notin DOMAIN pending'[by'[x]]
  <2> SUFFICES ASSUME st'[x] = "deleted"
               PROVE  x \notin DOMAIN pending'[by'[x]]
    OBVIOUS
  <2>1. CASE \E m \in Nodes : Withdrawn(m, x)
    BY <2>1 DEF Withdrawn
  <2>2. CASE /\ st[x] = "deleted" /\ by'[x] = by[x]
             /\ \A m \in Nodes : x \in DOMAIN pending'[m] => x \in DOMAIN pending[m]
    <3>1. by[x] \in Nodes
      BY CompositionsAssumption DEF TypeOK, CallsOK
    <3>2. x \notin DOMAIN pending[by[x]]
      BY <1>1, <2>2 DEF GoneOn
    <3> QED BY <2>2, <3>1, <3>2
  <2> QED BY <2>1, <2>2, DeletedKinds
<1>6. RowGone(n, x, store[n].last, {})
  BY <1>1 DEF GoneOn
<1> SUFFICES /\ Dead(log', store'[n].last, x) /\ Gone(n, x)' => x \notin DOMAIN store'[n].comps \ {}
             /\ hy'[n].pc = "staging" /\ Dead(log', hy'[n].batch.last, x) /\ Gone(n, x)'
                  => x \notin DOMAIN store'[n].comps \ hy'[n].batch.removes
  BY <1>4, <1>5 DEF GoneOn, RowGone
<1>7. CASE Undisturbed(n) /\ \A g : ~Committed(n, g)
  <2>1. store'[n].last = store[n].last /\ (hy'[n].pc = "staging" => hy'[n] = hy[n])
    BY <1>7 DEF Undisturbed
  <2>2. Dead(log', store[n].last, x) /\ Gone(n, x)' => x \notin DOMAIN store'[n].comps \ {}
    BY <1>1, <1>2, <1>6, <1>7, GoneFrame
  <2>3. ASSUME hy'[n].pc = "staging"
        PROVE  Dead(log', hy[n].batch.last, x) /\ Gone(n, x)'
                 => x \notin DOMAIN store'[n].comps \ hy[n].batch.removes
    <3>1. hy[n].pc = "staging"
      BY <2>1, <2>3
    <3>2. RowGone(n, x, hy[n].batch.last, hy[n].batch.removes)
      BY <1>1, <3>1 DEF GoneOn
    <3> QED BY <1>1, <1>3, <1>7, <3>1, <3>2, GoneFrame
  <2> QED BY <2>1, <2>2, <2>3
<1>8. CASE \E g : Staged1(n, g)
  <2>1. PICK g : Staged1(n, g)
    BY <1>8
  <2>2. Advanced(n, g) /\ UNCHANGED <<log, store, pending, st, by>>
    BY <2>1 DEF Staged1, Off
  <2>3. RowGone(n, x, g.last, g.removes)
    <3>1. CASE g = EmptyStaging(store[n])
      <4>1. g.removes = {} /\ g.last = store[n].last
        BY <1>2, <3>1, EmptyStagingIs
      <4> QED BY <1>6, <4>1
    <3>2. CASE Polling(n) /\ g = hy[n].batch
      BY <1>1, <3>2 DEF Polling, GoneOn
    <3> QED BY <2>1, <3>1, <3>2 DEF Staged1
  <2>4. RowGone(n, x, hy'[n].batch.last, hy'[n].batch.removes)
    BY <1>0, <2>2, <2>3, GoneNext
  <2>5. Gone(n, x)' = Gone(n, x)
    BY <2>2 DEF Gone
  <2> QED BY <1>6, <2>2, <2>4, <2>5 DEF RowGone
<1>9. CASE \E g : Committed(n, g)
  <2>1. PICK g : Committed(n, g)
    BY <1>9
  <2>2. /\ UNCHANGED <<log, pending, st, by>> /\ hy[n].pc = "staging" /\ g = hy[n].batch
        /\ store'[n].last = g.last /\ hy'[n].pc # "staging"
        /\ DOMAIN store'[n].comps = (DOMAIN store[n].comps \cup DOMAIN g.puts) \ g.removes
    BY <2>1 DEF Committed, Off, Polling
  <2>3. Gone(n, x)' = Gone(n, x)
    BY <2>2 DEF Gone
  <2>4. RowGone(n, x, g.last, g.removes)
    BY <1>1, <2>2 DEF GoneOn
  <2>5. BatchInv(g, log, x)
    BY <2>2, StagingIsInv
  <2> QED BY <2>2, <2>3, <2>4, <2>5 DEF RowGone, BatchInv
<1>10. CASE Restarted(n, TRUE)
  <2>1. hy'[n] = Idle /\ DOMAIN store'[n].comps = {}
    BY <1>10 DEF Restarted
  <2>2. hy'[n].pc # "staging"
    BY <2>1 DEF Idle
  <2> QED BY <2>1, <2>2
<1> QED BY <1>7, <1>8, <1>9, <1>10, NodeKinds

-----------------------------------------------------------------------------
(* Theorems.                                                                 *)

(* The initial state: no log, no request, no row. *)
LEMMA InitIs ==
  ASSUME Init
  PROVE  CompInv
<1> USE CompositionsAssumption
<1>0. Idle.pc = "idle" /\ DOMAIN Empty = {} /\ \A S, T : PFun(Empty, S, T)
  BY EmptyIs DEF Idle
<1>a. /\ DOMAIN log = {} /\ Len(log) = 0 /\ intents = {} /\ wm = 0 /\ restarts = 0 /\ forgot = {}
      /\ \A x \in Comps : st[x] = "unused"
  BY DEF Init
<1>b. \A n \in Nodes : /\ store[n] = EmptyStorage /\ pending[n] = Empty /\ pnames[n] = Empty
                       /\ cache[n] = Empty /\ ns[n] = FALSE /\ hy[n] = Idle /\ lk[n] = Idle /\ skips[n] = {}
  BY DEF Init
<1>c. StorageOK(EmptyStorage) /\ EmptyStorage.last = 0 /\ DOMAIN EmptyStorage.comps = {}
  BY <1>0, EmptyStorageIs DEF EmptyStorage
<1>1. LogOK
  BY DEF Init, LogOK
<1>2. CallsOK
  <2>1. (CHOOSE n \in Ingress : TRUE) \in Ingress
    OBVIOUS
  <2> QED BY <2>1 DEF Init, CallsOK, Requests
<1>3. NodesOK
  <2>1. /\ On(store, Nodes) /\ On(pending, Nodes) /\ On(pnames, Nodes) /\ On(cache, Nodes) /\ On(hy, Nodes)
        /\ ns \in [Nodes -> BOOLEAN] /\ lk \in [Nodes -> Locks]
    BY DEF Init, On, Locks
  <2>2. ASSUME NEW n \in Nodes
        PROVE  NodeOK(n)
    BY <1>0, <1>a, <1>b, <1>c DEF NodeOK, PollOK
  <2> QED BY <2>1, <2>2 DEF NodesOK
<1>4. MarksOK
  BY <1>0 DEF Init, MarksOK
<1>5. RequestsInv
  BY <1>0, <1>a, <1>b DEF RequestsInv, Created
<1>6. PositionsInv
  BY <1>0, <1>a, <1>b, <1>c DEF PositionsInv, Polling, Init
<1>7. StagingInv
  BY <1>0, <1>b DEF StagingInv, Polling, Undrained
<1>8. HeldInv
  BY <1>a DEF HeldInv, Live
<1>9. MissedInv
  BY <1>0, <1>a, <1>b, <1>c DEF MissedInv, Registered, Live, Polling
<1>10. ReplayInv
  <2>1. Replayed(0) = {}
    BY DEF Replayed
  <2> QED BY <1>0, <1>b, <1>c, <2>1 DEF ReplayInv, Polling
<1>11. DeletedInv
  BY <1>0, <1>a, <1>b, <1>c DEF DeletedInv, Polling
<1> QED BY <1>1, <1>2, <1>3, <1>4, <1>5, <1>6, <1>7, <1>8, <1>9, <1>10, <1>11 DEF CompInv, TypeOK

(* Every step of a gateway call, a hydrator, a watermark round or a fault      *)
(* keeps the inductive invariant.                                              *)
LEMMA InvStep ==
  ASSUME CompInv, [Next]_vars
  PROVE  CompInv'
<1>1. TypeOK /\ RequestsInv /\ PositionsInv /\ StagingInv /\ HeldInv /\ MissedInv /\ ReplayInv /\ DeletedInv
  BY DEF CompInv
<1>2. Kinds
  BY <1>1, KindsIs
<1>3. TypeOK'
  BY <1>1, TypeStep
<1>4. RequestsInv'
  BY <1>1, <1>2, RequestsStep
<1>5. PositionsInv'
  BY <1>1, PositionsStep
<1>6. StagingInv'
  BY <1>1, <1>2, StagingStep
<1>7. HeldInv'
  BY <1>1, <1>2, HeldStep
<1>8. MissedInv'
  BY <1>1, <1>2, <1>3, <1>4, MissedStep
<1>9. ReplayInv'
  BY <1>1, <1>2, ReplayStep
<1>10. DeletedInv'
  BY <1>1, <1>2, DeletedStep
<1> QED BY <1>3, <1>4, <1>5, <1>6, <1>7, <1>8, <1>9, <1>10 DEF CompInv

(* The requests, the log, the staged batches, the positions, the overlay and   *)
(* the rows of every node owe each other what CompInv says, in every reachable *)
(* state, for any number of nodes, compositions and names, any window and any  *)
(* retry threshold.                                                            *)
THEOREM CompositionsInvariant == Spec => []CompInv
<1>1. CompInv /\ [Next]_vars => CompInv'
  BY InvStep
<1> QED BY <1>1, InitIs, PTL DEF Spec

(* The log, the requests, the stores, the hydrators and the watermark keep     *)
(* their types.                                                                *)
THEOREM TypeCorrect == Spec => []TypeOK
<1>1. CompInv => TypeOK
  BY DEF CompInv
<1> QED BY <1>1, CompositionsInvariant, PTL

(* ADR-047 read-your-writes: an acknowledged composition is found on the node  *)
(* that took its PUT, in the overlay or durably, until it is deleted or that   *)
(* node restarts.                                                              *)
THEOREM ReadYourWritesHolds == Spec => []ReadYourWrites
<1>1. CompInv => ReadYourWrites
  BY DEF CompInv, HeldInv, ReadYourWrites, Live
<1> QED BY <1>1, CompositionsInvariant, PTL

(* I-CP1, I-CP6: an acknowledged composition is, on every node that is not     *)
(* halted, a row, an intent or ahead of the hydrator, or was given up for a    *)
(* namespace that a restart or a rollback forgot or that came after it.        *)
THEOREM AckedNotMissedHolds == Spec => []AckedNotMissed
<1>1. CompInv => AckedNotMissed
  <2> SUFFICES ASSUME CompInv, NEW n \in Nodes, NEW x \in Comps, st[x] = "acked"
               PROVE  \/ x \in DOMAIN store[n].comps \/ x \in intents
                      \/ \E i \in DOMAIN log : i > store[n].last /\ log[i].op = "create" /\ log[i].id = x
                      \/ x \in skips[n] /\ (restarts > 0 \/ n \in rolled \/ ~NamespaceFirst(x))
    BY DEF AckedNotMissed
  <2>1. NotMissed(x, DOMAIN store[n].comps, store[n].last, skips[n])
    BY DEF CompInv, MissedInv, Live
  <2>2. x \in skips[n] => Excused(n, x)
    BY DEF CompInv, MissedInv
  <2> QED BY <2>1, <2>2 DEF NotMissed, Excused, DeltaOf
<1> QED BY <1>1, CompositionsInvariant, PTL

(* I-CP1: the rows of a node without gateway writes are the replay of the log  *)
(* up to its durable position, however the polls cut it into windows.          *)
THEOREM FollowerIsReplayHolds == Spec => []FollowerIsReplay
<1>1. CompInv => FollowerIsReplay
  BY DEF CompInv, ReplayInv, FollowerIsReplay
<1> QED BY <1>1, CompositionsInvariant, PTL

(* I-L4: the log is never pruned past the hydrator of a voter whose store was  *)
(* not wiped, so that only a wiped node halts.                                 *)
THEOREM HaltOnlyAfterWipeHolds == Spec => []HaltOnlyAfterWipe
<1>1. CompInv => HaltOnlyAfterWipe
  <2> SUFFICES ASSUME CompInv, NEW n \in Nodes, store[n].last + 1 < wm, n \notin wiped
               PROVE  FALSE
    BY DEF HaltOnlyAfterWipe
  <2>1. wm <= store[n].last
    BY DEF CompInv, PositionsInv
  <2>2. wm \in Nat /\ store[n].last \in Nat
    BY DEF CompInv, TypeOK, LogOK, NodesOK, NodeOK, StorageOK
  <2> QED BY <2>1, <2>2
<1> QED BY <1>1, CompositionsInvariant, PTL

(* A delete is final: once it was answered and the hydrator of its node is     *)
(* past the Create and the Delete, nothing stores or overlays the row again.   *)
THEOREM DeletedRowIsGoneHolds == Spec => []DeletedRowIsGone
<1>1. CompInv => DeletedRowIsGone
  <2> SUFFICES ASSUME CompInv, NEW x \in Comps, st[x] = "deleted", DeadBy(store[by[x]].last, x)
               PROVE  x \notin DOMAIN store[by[x]].comps \cup DOMAIN pending[by[x]]
    BY DEF DeletedRowIsGone
  <2>1. PICK n \in Nodes : n = by[x]
    BY CompositionsAssumption DEF CompInv, TypeOK, CallsOK
  <2>2. Gone(n, x)
    BY <2>1 DEF Gone
  <2> QED BY <2>1, <2>2 DEF CompInv, DeletedInv
<1> QED BY <1>1, CompositionsInvariant, PTL
=============================================================================
