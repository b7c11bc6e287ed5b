-------------------------- MODULE IntentStoreProofs --------------------------
(* Machine-checked proofs about IntentStore, for every set of sequences and   *)
(* keys, every rotation threshold and every value of the bounds: the store    *)
(* loses no recorded intent, and it implements PendingStore.                  *)
EXTENDS IntentStore, FiniteSetTheorems, WellFoundedInduction, TLAPS

-----------------------------------------------------------------------------
(* Least and greatest elements. *)

(* A nonempty set of naturals has a least element, and MinOf is it. *)
LEMMA MinExists ==
  ASSUME NEW S \in SUBSET Nat, S # {}
  PROVE  MinOf(S) \in S /\ \A y \in S : MinOf(S) <= y
<1>1. PICK x \in S : \A y \in S : ~(<<y, x>> \in OpToRel(<, Nat))
  BY WFMin, NatLessThanWellFounded
<1>2. \A y \in S : y \in Nat /\ ~(y < x)
  BY <1>1, Zenon DEF OpToRel
<1>3. x \in Nat /\ \A y \in S : x <= y
  BY <1>2
<1> QED
  BY <1>3 DEF MinOf

(* A bounded one has a greatest element, and MaxOf is it: its distance to the  *)
(* bound is least.                                                            *)
LEMMA MaxExists ==
  ASSUME NEW S \in SUBSET Nat, S # {}, NEW b \in Nat, \A y \in S : y <= b
  PROVE  MaxOf(S) \in S /\ \A y \in S : y <= MaxOf(S)
<1> DEFINE D == {d \in Nat : b - d \in S}
<1>1. \A y \in S : b - y \in D
  BY SMT
<1>2. D \in SUBSET Nat /\ D # {}
  BY <1>1
<1>3. MinOf(D) \in D /\ \A d \in D : MinOf(D) <= d
  BY <1>2, MinExists
<1> DEFINE x == b - MinOf(D)
<1>4. x \in S /\ \A y \in S : y <= x
  BY <1>1, <1>3
<1> HIDE DEF x
<1> QED
  BY <1>4 DEF MaxOf

(* A finite set of naturals is bounded: along an enumeration of the set, the   *)
(* shortest prefix without a bound would be one longer than a bounded one.     *)
LEMMA FiniteIsBounded ==
  ASSUME NEW S \in SUBSET Nat, IsFiniteSet(S)
  PROVE  \E b \in Nat : \A y \in S : y <= b
<1> DEFINE N == Cardinality(S)
<1>1. N \in Nat /\ ExistsBijection(1..N, S)
  BY FS_CardinalityType
<1>2. PICK f \in [1..N -> S] : \A y \in S : \E k \in 1..N : f[k] = y
  BY <1>1 DEF ExistsBijection, Bijection, Injection, Surjection
<1> HIDE DEF N
<1> DEFINE Bad == {k \in 0..N : ~ \E b \in Nat : \A j \in 1..k : f[j] <= b}
<1>3. Bad = {}
  <2> SUFFICES ASSUME Bad # {} PROVE FALSE
    OBVIOUS
  <2>1. Bad \in SUBSET Nat
    BY <1>1
  <2> DEFINE k == MinOf(Bad)
  <2>2. k \in Bad /\ \A j \in Bad : k <= j
    BY <2>1, MinExists
  <2> HIDE DEF k
  <2>3. k \in 0..N /\ ~ \E b \in Nat : \A j \in 1..k : f[j] <= b
    BY <2>2
  <2>4. k # 0
    <3>1. \A j \in 1..0 : f[j] <= 0
      BY SMT
    <3> QED
      BY <2>3, <3>1
  <2>5. k \in Nat /\ k - 1 \in 0..N /\ k \in 1..N /\ ~(k <= k - 1)
    BY <1>1, <2>3, <2>4
  <2>6. \E b \in Nat : \A j \in 1..(k - 1) : f[j] <= b
    BY <2>2, <2>5
  <2> HIDE DEF Bad
  <2>7. PICK b \in Nat : \A j \in 1..(k - 1) : f[j] <= b
    BY <2>6
  <2>8. f[k] \in Nat
    BY <1>2, <2>5
  <2>9. \A j \in 1..k : j \in 1..N /\ (j \in 1..(k - 1) \/ j = k)
    BY <1>1, <2>3, <2>5
  <2>10. b + f[k] \in Nat /\ b <= b + f[k] /\ f[k] <= b + f[k]
    BY <2>8
  <2>11. ASSUME NEW j \in 1..k PROVE f[j] <= b + f[k]
    <3>1. f[j] \in Nat
      BY <1>2, <2>9
    <3>2. CASE j = k
      BY <2>10, <3>2
    <3>3. CASE j \in 1..(k - 1)
      BY <2>7, <2>8, <3>1, <3>3
    <3> QED
      BY <2>9, <3>2, <3>3
  <2> QED
    BY <2>3, <2>10, <2>11
<1>4. N \in 0..N
  BY <1>1
<1>5. PICK b \in Nat : \A j \in 1..N : f[j] <= b
  BY <1>3, <1>4
<1> QED
  BY <1>2, <1>5

(* Sets of sequences are finite, and their extremes are members. *)
LEMMA SeqSets ==
  ASSUME NEW S \in SUBSET Seqs
  PROVE  /\ IsFiniteSet(S) /\ Cardinality(S) \in Nat
         /\ S # {} => /\ MinOf(S) \in S /\ MaxOf(S) \in S
                      /\ \A s \in S : MinOf(S) <= s
<1>1. IsFiniteSet(S) /\ S \in SUBSET Nat
  BY SeqsAssumption, FS_Subset
<1>2. PICK b \in Nat : \A y \in S : y <= b
  BY <1>1, FiniteIsBounded
<1>3. S # {} => MaxOf(S) \in S
  BY <1>1, <1>2, MaxExists
<1>4. S # {} => MinOf(S) \in S /\ \A s \in S : MinOf(S) <= s
  BY <1>1, MinExists
<1> QED
  BY <1>1, <1>3, <1>4, FS_CardinalityType

(* The extremes of a nonempty set of epochs are members. *)
LEMMA EpochSets ==
  ASSUME NEW E \in SUBSET Epochs, E # {}
  PROVE  MinOf(E) \in E /\ MaxOf(E) \in E /\ \A e \in E : e <= MaxOf(E)
<1>1. E \in SUBSET Nat /\ MaxEpoch \in Nat /\ \A e \in E : e <= MaxEpoch
  BY LimitsAssumption DEF Epochs
<1> QED
  BY <1>1, MinExists, MaxExists

-----------------------------------------------------------------------------
(* A commit. *)

RecsOf(g) == {k \in DOMAIN g : Recorded(g, k)}
NewOf(g)  == {g[k] : k \in RecsOf(g)}

(* A group writes sequences that were not pending, and at most one per record. *)
LEMMA GroupWrites ==
  ASSUME NEW g \in Groups
  PROVE  /\ NewOf(g) \in SUBSET Seqs
         /\ \A s \in NewOf(g) : mirror[s] = None
         /\ Cardinality(RecsOf(g)) \in Nat
         /\ Cardinality(NewOf(g)) <= Cardinality(RecsOf(g))
<1>1. PICK k \in 1..GroupCap : g \in [1..k -> Seqs]
  BY DEF Groups
<1>2. IsFiniteSet(1..k)
  BY FS_Interval, LimitsAssumption
<1>3. RecsOf(g) \in SUBSET (1..k)
  BY <1>1 DEF RecsOf
<1>4. IsFiniteSet(RecsOf(g)) /\ Cardinality(RecsOf(g)) \in Nat
  BY <1>2, <1>3, FS_Subset, FS_CardinalityType
<1>5. NewOf(g) \in SUBSET Seqs /\ \A s \in NewOf(g) : mirror[s] = None
  BY <1>1 DEF NewOf, RecsOf, Recorded
<1> DEFINE f == [j \in RecsOf(g) |-> g[j]]
<1>6. f \in Surjection(RecsOf(g), NewOf(g))
  BY DEF Surjection, NewOf
<1> HIDE DEF f
<1>7. Cardinality(NewOf(g)) <= Cardinality(RecsOf(g))
  BY <1>4, <1>6, FS_Surjection
<1> QED
  BY <1>4, <1>5, <1>7

(* A commit lowers the watermark to its lowest new sequence when it must. *)
LEMMA LoweredWmBelow ==
  ASSUME wm \in Nat, NEW S \in SUBSET Seqs, S # {}
  PROVE  /\ LoweredWm(S) \in Nat /\ LoweredWm(S) <= wm
         /\ \A s \in S : LoweredWm(S) <= s
<1>1. \A s \in S : s \in Nat /\ MinOf(S) <= s
  BY SeqSets, SeqsAssumption
<1>2. MinOf(S) \in Nat
  BY SeqSets, SeqsAssumption
<1> QED
  BY <1>1, <1>2 DEF LoweredWm

(* A commit keeps the invariant. *)
LEMMA CommitInv ==
  ASSUME StoreInv, NEW g \in Groups, Commit(g)
  PROVE  StoreInv'
<1> DEFINE new == NewOf(g)
           n   == Cardinality(RecsOf(g))
           w   == LoweredWm(new)
<1>1. /\ up /\ pc = "idle" /\ new # {}
      /\ rows'   = [rows EXCEPT ![activeNo] = @ \cup new]
      /\ dwm'    = IF w # wm THEN w ELSE dwm
      /\ wm'     = w
      /\ mirror' = [s \in Seqs |-> IF s \in new THEN activeNo ELSE mirror[s]]
      /\ byIdem' = [x \in Keys |-> IF \E s \in new : IdemKey[s] = x
                                   THEN CHOOSE s \in new : IdemKey[s] = x
                                   ELSE byIdem[x]]
      /\ live'   = [live EXCEPT ![activeNo] = @ + n]
      /\ activeInserts' = activeInserts + n
      /\ owed' = owed \cup new
      /\ pc' \in {"idle", "rotate"} /\ puts' = puts + 1
      /\ UNCHANGED <<elist, up, opening, activeNo, sealed, dead, gone, crashes>>
  BY DEF Commit, NewOf, RecsOf
<1>2. /\ new \in SUBSET Seqs /\ \A s \in new : mirror[s] = None
      /\ n \in Nat /\ Cardinality(new) <= n
  BY GroupWrites
<1>3. TypeOK
  BY DEF StoreInv
<1>4. w \in Nat /\ w <= wm /\ \A s \in new : w <= s
  BY <1>1, <1>2, <1>3, LoweredWmBelow DEF TypeOK
<1> HIDE DEF new, n, w
<1>5. TypeOK'
  <2>1. byIdem' \in [Keys -> Seqs \cup {None}]
    BY <1>1, <1>2, <1>3 DEF TypeOK
  <2>2. rows' \in [Epochs -> SUBSET Seqs]
    BY <1>1, <1>2, <1>3 DEF TypeOK
  <2>3. mirror' \in [Seqs -> Epochs \cup {None}]
    BY <1>1, <1>2, <1>3 DEF TypeOK
  <2>4. live' \in [Epochs -> Nat]
    BY <1>1, <1>2, <1>3 DEF TypeOK
  <2>5. dwm' \in Nat /\ wm' \in Nat /\ activeInserts' \in Nat /\ puts' \in Nat
    BY <1>1, <1>2, <1>3, <1>4 DEF TypeOK
  <2>6. owed' \subseteq Seqs
    BY <1>1, <1>2, <1>3 DEF TypeOK
  <2> QED
    BY <1>1, <1>3, <2>1, <2>2, <2>3, <2>4, <2>5, <2>6 DEF TypeOK
<1>6. Pending' = Pending \cup new /\ Pending \cap new = {}
  BY <1>1, <1>2, <1>3 DEF Pending, TypeOK, None, Epochs
<1>7. LiveCoversPending'
  <2> SUFFICES ASSUME NEW e \in Epochs
               PROVE  live'[e] >= Cardinality({s \in Seqs : mirror'[s] = e})
    BY DEF LiveCoversPending
  <2> DEFINE old == {s \in Seqs : mirror[s] = e}
  <2>1. /\ live[e] >= Cardinality(old) /\ live[e] \in Nat /\ Cardinality(old) \in Nat
        /\ IsFiniteSet(old) /\ IsFiniteSet(new) /\ Cardinality(new) \in Nat
    BY <1>1, <1>2, <1>3, SeqSets DEF StoreInv, LiveCoversPending, TypeOK
  <2>2. CASE e = activeNo
    <3>1. {s \in Seqs : mirror'[s] = e} = old \cup new
      BY <1>1, <1>2, <2>2
    <3>2. Cardinality(old \cup new) <= Cardinality(old) + Cardinality(new)
      <4>1. IsFiniteSet(old \cap new) /\ Cardinality(old \cap new) \in Nat
        BY <2>1, FS_Intersection, FS_CardinalityType
      <4> HIDE DEF old
      <4> QED
        BY <2>1, <4>1, FS_Union
    <3>3. live'[e] = live[e] + n
      BY <1>1, <1>3, <2>2 DEF TypeOK
    <3>4. Cardinality(old \cup new) \in Nat
      BY <2>1, FS_Union, FS_CardinalityType
    <3> HIDE DEF old
    <3> QED
      BY <1>2, <2>1, <3>1, <3>2, <3>3, <3>4
  <2>3. CASE e # activeNo
    <3>1. {s \in Seqs : mirror'[s] = e} = old
      BY <1>1, <1>2, <2>3 DEF None, Epochs
    <3>2. live'[e] = live[e]
      BY <1>1, <1>3, <2>3 DEF TypeOK
    <3> QED
      BY <2>1, <3>1, <3>2
  <2> QED
    BY <2>2, <2>3
<1>8. PendingStored'
  <2> SUFFICES ASSUME NEW s \in Pending'
               PROVE  s \in rows'[mirror'[s]] /\ mirror'[s] \in LiveEpochs' /\ s >= wm'
    BY DEF PendingStored
  <2>1. activeNo \in Epochs /\ rows'[activeNo] = rows[activeNo] \cup new
    BY <1>1, <1>3 DEF TypeOK
  <2>2. CASE s \in new
    BY <1>1, <1>2, <1>4, <2>1, <2>2, SeqsAssumption DEF LiveEpochs
  <2>3. CASE s \in Pending /\ s \notin new
    <3>1. s \in rows[mirror[s]] /\ mirror[s] \in LiveEpochs /\ s >= wm /\ s \in Nat
      BY <1>1, <2>3, SeqsAssumption DEF StoreInv, PendingStored, Pending
    <3>2. mirror'[s] = mirror[s] /\ rows[mirror[s]] \subseteq rows'[mirror[s]]
      BY <1>1, <1>3, <2>3, <3>1 DEF Pending, TypeOK, LiveEpochs
    <3>3. s >= wm'
      BY <1>1, <1>3, <1>4, <3>1 DEF TypeOK
    <3> QED
      BY <1>1, <3>1, <3>2, <3>3 DEF LiveEpochs
  <2> QED
    BY <1>6, <2>2, <2>3
<1>9. ReclaimSafe'
  BY <1>1 DEF StoreInv, ReclaimSafe, LiveEpochs
<1>10. View' = View \cup new
  BY <1>1, <1>6 DEF View
<1>11. \A e \in Epochs : rows'[e] \subseteq rows[e] \cup new
  BY <1>1, <1>3 DEF TypeOK
<1> QED
  BY <1>1, <1>5, <1>7, <1>8, <1>9, <1>10, <1>11 DEF StoreInv

-----------------------------------------------------------------------------
(* A retirement. *)

(* The watermark a retirement writes passes no survivor. *)
LEMMA RetiredWmBelow ==
  ASSUME TypeOK, NEW S \in SUBSET Pending, S # {}, \A s \in Pending : s >= wm
  PROVE  /\ RetiredWm(S) \in Nat
         /\ \A s \in Pending \ S : s >= RetiredWm(S)
<1> DEFINE left == Pending \ S
<1>1. left \in SUBSET Seqs /\ S \in SUBSET Seqs /\ wm \in Nat
  BY DEF Pending, TypeOK
<1>2. MaxOf(S) \in Nat
  BY <1>1, SeqSets, SeqsAssumption
<1>3. left # {} => MinOf(left) \in Nat /\ \A s \in left : MinOf(left) <= s
  BY <1>1, SeqSets, SeqsAssumption
<1>4. \A s \in left : s \in Nat /\ s >= wm
  BY <1>1, SeqsAssumption
<1>5. RetiredWm(S) = LET w == IF left = {} THEN MaxOf(S) + 1 ELSE MinOf(left)
                     IN IF wm # 0 /\ wm >= w THEN wm ELSE w
  BY DEF RetiredWm
<1> HIDE DEF left
<1>6. CASE left = {}
  BY <1>1, <1>2, <1>5, <1>6 DEF left
<1>7. CASE left # {}
  <2>1. RetiredWm(S) \in Nat /\ \A s \in left : s >= RetiredWm(S)
    BY <1>1, <1>3, <1>4, <1>5, <1>7
  <2> QED
    BY <2>1 DEF left
<1> QED
  BY <1>6, <1>7

(* Taking sequences out of the index keeps it typed and shrinks the pending   *)
(* set by exactly them.                                                      *)
LEMMA UnindexedShrinks ==
  ASSUME TypeOK, NEW S \in SUBSET Pending, Unindexed(S)
  PROVE  /\ mirror' \in [Seqs -> Epochs \cup {None}]
         /\ byIdem' \in [Keys -> Seqs \cup {None}]
         /\ Pending' = Pending \ S
         /\ \A s \in Pending \ S : mirror'[s] = mirror[s]
         /\ \A e \in Epochs : {s \in Seqs : mirror'[s] = e}
                               = {s \in Seqs : mirror[s] = e} \ {s \in S : mirror[s] = e}
<1>1. mirror' = [s \in Seqs |-> IF s \in S THEN None ELSE mirror[s]]
  BY DEF Unindexed
<1>2. S \in SUBSET Seqs
  BY DEF Pending
<1>3. byIdem' \in [Keys -> Seqs \cup {None}]
  BY DEF Unindexed, TypeOK
<1>4. mirror' \in [Seqs -> Epochs \cup {None}]
  BY <1>1 DEF TypeOK
<1>5. Pending' = Pending \ S /\ \A s \in Pending \ S : mirror'[s] = mirror[s]
  BY <1>1, <1>2 DEF Pending, None
<1>6. \A e \in Epochs : e # None
  BY DEF Epochs, None
<1>7. \A e \in Epochs : {s \in Seqs : mirror'[s] = e}
                         = {s \in Seqs : mirror[s] = e} \ {s \in S : mirror[s] = e}
  BY <1>1, <1>2, <1>6
<1> QED
  BY <1>3, <1>4, <1>5, <1>7

(* An epoch without a survivor count has no survivor: reclamation after a     *)
(* retirement counts down by what was removed, and never below the rest.      *)
LEMMA CountsCover ==
  ASSUME StoreInv, up, NEW S \in SUBSET Pending, NEW e \in Epochs
  PROVE  /\ RemovedIn(S, e) \in Nat
         /\ live[e] >= RemovedIn(S, e)
         /\ live[e] - RemovedIn(S, e) >=
              Cardinality({s \in Seqs : mirror[s] = e} \ {s \in S : mirror[s] = e})
<1> DEFINE all == {s \in Seqs : mirror[s] = e}
           out == {s \in S : mirror[s] = e}
<1>1. all \in SUBSET Seqs /\ out \in SUBSET all /\ out \in SUBSET Seqs
  BY DEF Pending
<1>2. live[e] \in Nat /\ live[e] >= Cardinality(all)
  BY DEF StoreInv, LiveCoversPending, TypeOK
<1>3. RemovedIn(S, e) = Cardinality(out)
  BY DEF RemovedIn
<1> HIDE DEF all, out
<1>4. IsFiniteSet(all) /\ Cardinality(all) \in Nat /\ Cardinality(out) \in Nat
  BY <1>1, SeqSets
<1>5. Cardinality(out) <= Cardinality(all)
  BY <1>1, <1>4, FS_Subset
<1>6. all \cap out = out
  BY <1>1
<1>7. Cardinality(all \ out) = Cardinality(all) - Cardinality(out)
  BY <1>4, <1>6, FS_Difference
<1>8. /\ RemovedIn(S, e) \in Nat /\ live[e] >= RemovedIn(S, e)
      /\ live[e] - RemovedIn(S, e) >= Cardinality(all \ out)
  BY <1>2, <1>3, <1>4, <1>5, <1>7
<1> QED
  BY <1>8 DEF all, out

(* A successful retirement keeps the invariant: the watermark passes no        *)
(* survivor, and an epoch goes only when its counter, hence its pending        *)
(* set, is empty.                                                              *)
LEMMA RetireInv ==
  ASSUME StoreInv, NEW S \in SUBSET Seqs, Retire(S)
  PROVE  StoreInv'
<1> DEFINE l == [e \in Epochs |->
                   IF live[e] >= RemovedIn(S, e) THEN live[e] - RemovedIn(S, e) ELSE 0]
<1>1. /\ up /\ pc = "idle" /\ S # {} /\ S \in SUBSET Pending /\ Unindexed(S)
      /\ wm' = RetiredWm(S) /\ dwm' = RetiredWm(S)
      /\ sealed' = sealed \ Dead(sealed, l) /\ dead' = Dead(sealed, l) /\ live' = l
      /\ pc' = IF Dead(sealed, l) = {} THEN "idle" ELSE "drop"
      /\ owed' = owed \ S /\ gone' = gone \cup S
      /\ UNCHANGED <<rows, elist, up, opening, activeNo, activeInserts, puts, crashes>>
  BY DEF Retire, BeginGc
<1>2. TypeOK /\ PendingStored /\ ReclaimSafe /\ dead = {}
  BY <1>1 DEF StoreInv
<1>3. RetiredWm(S) \in Nat /\ \A s \in Pending \ S : s >= RetiredWm(S)
  BY <1>1, <1>2, RetiredWmBelow DEF PendingStored
<1>4. /\ mirror' \in [Seqs -> Epochs \cup {None}] /\ byIdem' \in [Keys -> Seqs \cup {None}]
      /\ Pending' = Pending \ S /\ \A s \in Pending \ S : mirror'[s] = mirror[s]
  BY <1>1, <1>2, UnindexedShrinks
<1>5. \A e \in Epochs :
        /\ l[e] \in Nat /\ Cardinality({s \in Seqs : mirror'[s] = e}) \in Nat
        /\ l[e] >= Cardinality({s \in Seqs : mirror'[s] = e})
  <2> TAKE e \in Epochs
  <2> DEFINE left == {s \in Seqs : mirror'[s] = e}
  <2>1. left = {s \in Seqs : mirror[s] = e} \ {s \in S : mirror[s] = e}
    BY <1>1, <1>2, UnindexedShrinks
  <2>2. /\ RemovedIn(S, e) \in Nat /\ live[e] >= RemovedIn(S, e)
        /\ live[e] - RemovedIn(S, e) >= Cardinality(left)
    BY <1>1, <2>1, CountsCover
  <2>3. live[e] \in Nat /\ Cardinality(left) \in Nat
    BY <1>2, SeqSets DEF TypeOK
  <2>4. l[e] = live[e] - RemovedIn(S, e)
    BY <2>2
  <2> HIDE DEF left, l
  <2>5. l[e] \in Nat /\ Cardinality(left) \in Nat /\ l[e] >= Cardinality(left)
    BY <2>2, <2>3, <2>4
  <2> QED
    BY <2>5 DEF left
<1>6. l \in [Epochs -> Nat]
  BY <1>5
<1> HIDE DEF l
<1>7. TypeOK'
  BY <1>1, <1>2, <1>3, <1>4, <1>6 DEF TypeOK, Dead
<1>8. LiveCoversPending'
  BY <1>1, <1>5 DEF LiveCoversPending
<1>9. \A s \in Pending' : mirror'[s] \notin dead'
  <2> SUFFICES ASSUME NEW s \in Pending', mirror'[s] \in dead'
               PROVE  FALSE
    OBVIOUS
  <2> DEFINE e == mirror'[s]
             at == {q \in Seqs : mirror'[q] = e}
  <2>1. e \in Epochs /\ l[e] = 0
    BY <1>1, <1>2 DEF Dead, TypeOK
  <2>2. IsFiniteSet(at) /\ Cardinality(at) = 0
    <3>1. Cardinality(at) \in Nat /\ Cardinality(at) <= 0
      BY <1>5, <2>1
    <3> QED
      BY <3>1, SeqSets
  <2>3. s \in at
    BY DEF Pending
  <2> QED
    BY <2>2, <2>3, FS_EmptySet
<1>10. PendingStored'
  BY <1>1, <1>2, <1>3, <1>4, <1>9 DEF PendingStored, LiveEpochs
<1>11. ReclaimSafe'
  <2>1. activeNo \in Int /\ ~(activeNo < activeNo)
    BY <1>2 DEF TypeOK, Epochs
  <2>2. activeNo \notin sealed
    BY <1>2, <2>1 DEF ReclaimSafe
  <2> QED
    BY <1>1, <1>2, <2>2 DEF ReclaimSafe, LiveEpochs, Dead
<1> QED
  BY <1>1, <1>2, <1>4, <1>7, <1>8, <1>10, <1>11 DEF StoreInv, View

(* So does one whose commit fails: the mirror forgets, nothing durable moves. *)
LEMMA RetireFailsInv ==
  ASSUME StoreInv, NEW S \in SUBSET Seqs, RetireFails(S)
  PROVE  StoreInv'
<1>1. /\ up /\ pc = "idle" /\ S # {} /\ S \in SUBSET Pending /\ Unindexed(S)
      /\ owed' = owed \ S /\ gone' = gone \cup S
      /\ UNCHANGED <<durable, up, opening, epochs, pc, dead, puts, crashes>>
  BY DEF RetireFails
<1>2. TypeOK /\ PendingStored /\ ReclaimSafe
  BY <1>1 DEF StoreInv
<1>3. /\ mirror' \in [Seqs -> Epochs \cup {None}] /\ byIdem' \in [Keys -> Seqs \cup {None}]
      /\ Pending' = Pending \ S /\ \A s \in Pending \ S : mirror'[s] = mirror[s]
  BY <1>1, <1>2, UnindexedShrinks
<1>4. TypeOK'
  BY <1>1, <1>2, <1>3 DEF TypeOK, durable, epochs
<1>5. LiveCoversPending'
  <2> SUFFICES ASSUME NEW e \in Epochs
               PROVE  live[e] >= Cardinality({s \in Seqs : mirror'[s] = e})
    BY <1>1 DEF LiveCoversPending, epochs
  <2> DEFINE left == {s \in Seqs : mirror'[s] = e}
  <2>1. left = {s \in Seqs : mirror[s] = e} \ {s \in S : mirror[s] = e}
    BY <1>1, <1>2, UnindexedShrinks
  <2>2. RemovedIn(S, e) \in Nat /\ live[e] - RemovedIn(S, e) >= Cardinality(left)
    BY <1>1, <2>1, CountsCover
  <2>3. live[e] \in Nat /\ Cardinality(left) \in Nat
    BY <1>2, SeqSets DEF TypeOK
  <2> HIDE DEF left
  <2>4. live[e] >= Cardinality(left)
    BY <2>2, <2>3
  <2> QED
    BY <2>4 DEF left
<1>6. PendingStored'
  BY <1>1, <1>2, <1>3 DEF PendingStored, LiveEpochs, durable, epochs
<1>7. ReclaimSafe'
  BY <1>1, <1>2 DEF ReclaimSafe, LiveEpochs, durable, epochs
<1> QED
  BY <1>1, <1>3, <1>4, <1>5, <1>6, <1>7 DEF StoreInv, View, durable

-----------------------------------------------------------------------------
(* Rotation and reclamation. *)

(* Rotation keeps the invariant: the new epoch is younger than every other     *)
(* and none is being deleted.                                                  *)
LEMMA RotateInv ==
  ASSUME StoreInv, RotateEpoch
  PROVE  StoreInv'
<1>1. /\ up /\ pc = "rotate" /\ TypeOK /\ PendingStored /\ ReclaimSafe /\ dead = {}
      /\ UNCHANGED <<rows, dwm, up, opening, index, live, wm, dead, owed, gone, puts, crashes>>
  BY DEF RotateEpoch, StoreInv
<1>2. activeNo \in Epochs /\ activeNo + 1 \in Epochs /\ sealed \subseteq Epochs
  BY <1>1, LimitsAssumption DEF RotateEpoch, TypeOK, Epochs
<1>3. TypeOK'
  BY <1>1, <1>2 DEF RotateEpoch, TypeOK, index
<1>4. Pending' = Pending /\ LiveEpochs \subseteq LiveEpochs'
  BY <1>1 DEF RotateEpoch, Pending, index, LiveEpochs
<1>5. PendingStored'
  BY <1>1, <1>4 DEF PendingStored, index
<1>6. \A e \in sealed' : e < activeNo'
  <2>1. \A e \in sealed : e < activeNo
    BY <1>1 DEF ReclaimSafe
  <2> QED
    BY <1>2, <2>1 DEF RotateEpoch, Epochs
<1>7. ReclaimSafe'
  BY <1>1, <1>6 DEF RotateEpoch, ReclaimSafe, LiveEpochs
<1>8. LiveCoversPending'
  BY <1>1 DEF StoreInv, LiveCoversPending, index
<1> QED
  BY <1>1, <1>3, <1>4, <1>5, <1>7, <1>8 DEF RotateEpoch, StoreInv, View

(* A failed rotation and a failed reclamation only end the call. *)
LEMMA FailsInv ==
  ASSUME StoreInv, RotateFails \/ GcFails
  PROVE  StoreInv'
<1>1. /\ UNCHANGED <<durable, up, opening, index, epochs, owed, gone, puts, crashes>>
      /\ pc' = "idle" /\ dead' = {} /\ up
  BY DEF StoreInv, RotateFails, GcFails
<1>2. TypeOK' /\ LiveCoversPending' /\ PendingStored' /\ ReclaimSafe' /\ View' = View
  BY <1>1 DEF StoreInv, TypeOK, LiveCoversPending, PendingStored, ReclaimSafe, LiveEpochs,
              View, Pending, durable, index, epochs
<1> QED
  BY <1>1, <1>2 DEF StoreInv, durable

(* Deleting a dead epoch's rows takes no pending one. *)
LEMMA DropInv ==
  ASSUME StoreInv, DropEpoch
  PROVE  StoreInv'
<1>1. /\ up /\ pc = "drop" /\ TypeOK /\ PendingStored /\ ReclaimSafe /\ dead # {}
      /\ UNCHANGED <<elist, dwm, up, opening, index, epochs, owed, gone, puts, crashes>>
  BY DEF DropEpoch, StoreInv
<1>2. MinOf(dead) \in dead /\ dead \subseteq Epochs
  BY <1>1, EpochSets DEF TypeOK
<1>3. /\ rows' \in [Epochs -> SUBSET Seqs]
      /\ \A e \in Epochs : rows'[e] \subseteq rows[e] /\ (e \notin dead => rows'[e] = rows[e])
  BY <1>1, <1>2 DEF DropEpoch, TypeOK
<1>4. TypeOK' /\ LiveCoversPending'
  BY <1>1, <1>3 DEF DropEpoch, StoreInv, TypeOK, LiveCoversPending, index, epochs
<1>5. PendingStored'
  <2>1. LiveEpochs \subseteq Epochs /\ Pending' = Pending /\ LiveEpochs' = LiveEpochs
    BY <1>1 DEF TypeOK, LiveEpochs, Pending, index, epochs
  <2> QED
    BY <1>1, <1>3, <2>1 DEF PendingStored, ReclaimSafe, index, epochs
<1>6. ReclaimSafe'
  BY <1>1 DEF DropEpoch, ReclaimSafe, LiveEpochs, epochs
<1>7. View' = View
  BY <1>1 DEF View, Pending, index
<1> QED
  BY <1>1, <1>3, <1>4, <1>5, <1>6, <1>7 DEF DropEpoch, StoreInv

(* The shortened list still names every epoch that holds a pending intent. *)
LEMMA WriteListInv ==
  ASSUME StoreInv, WriteList
  PROVE  StoreInv'
<1>1. /\ up /\ pc = "list" /\ TypeOK /\ dead = {}
      /\ UNCHANGED <<rows, dwm, up, index, epochs, dead, owed, gone, puts, crashes>>
      /\ elist' = LiveEpochs /\ pc' = "idle" /\ opening' = FALSE
  BY DEF WriteList, StoreInv, LiveEpochs
<1>2. TypeOK' /\ elist' # {}
  BY <1>1 DEF TypeOK, LiveEpochs, index, epochs
<1>3. LiveCoversPending' /\ PendingStored' /\ ReclaimSafe' /\ View' = View
  BY <1>1 DEF StoreInv, LiveCoversPending, PendingStored, ReclaimSafe, LiveEpochs, View,
              Pending, index, epochs
<1> QED
  BY <1>1, <1>2, <1>3 DEF StoreInv

-----------------------------------------------------------------------------
(* Crash and reopen. *)

(* What a reopen would find is everything the store answers for, and beyond    *)
(* that only intents that were retired.                                        *)
LEMMA RebuiltCovers ==
  ASSUME StoreInv
  PROVE  View \subseteq Rebuilt /\ Rebuilt \subseteq View \cup gone
<1>1. CASE ~up
  BY <1>1 DEF View
<1>2. CASE up
  <2>1. PendingStored /\ ReclaimSafe /\ TypeOK /\ View = Pending
    BY <1>2 DEF StoreInv, View
  <2>2. Pending \subseteq Rebuilt
    BY <2>1 DEF PendingStored, ReclaimSafe, Rebuilt, KeptIn
  <2>3. Rebuilt \subseteq View \cup gone
    BY <2>1 DEF StoreInv, TypeOK, Rebuilt, KeptIn
  <2> QED
    BY <2>1, <2>2, <2>3
<1> QED
  BY <1>1, <1>2

(* Losing the memory keeps the invariant: the durable state alone carries it. *)
LEMMA MemoryLostInv ==
  ASSUME StoreInv, MemoryLost, crashes' \in Nat
  PROVE  StoreInv' /\ View' = Rebuilt
<1>1. TypeOK'
  <2>1. 0 \in Epochs /\ 0 \in Nat
    BY LimitsAssumption DEF Epochs
  <2>2. mirror' \in [Seqs -> Epochs \cup {None}] /\ byIdem' \in [Keys -> Seqs \cup {None}]
        /\ live' \in [Epochs -> Nat]
    BY <2>1 DEF MemoryLost
  <2> QED
    BY <2>1, <2>2 DEF StoreInv, MemoryLost, TypeOK, durable
<1>2. Rebuilt' = Rebuilt /\ View' = Rebuilt'
  BY DEF MemoryLost, Rebuilt, KeptIn, durable, View
<1>3. View \subseteq Rebuilt /\ gone' = gone /\ owed' = owed /\ rows' = rows /\ elist' = elist
  BY RebuiltCovers DEF MemoryLost, durable
<1>4. ~up' /\ pc' = "idle" /\ dead' = {}
  BY DEF MemoryLost
<1> QED
  BY <1>1, <1>2, <1>3, <1>4 DEF StoreInv, LiveCoversPending

(* A reopen keeps it: every kept row is indexed in a listed epoch, and its     *)
(* counter is the number of rows kept there.                                   *)
LEMMA ReopenInv ==
  ASSUME StoreInv, Reopen
  PROVE  StoreInv' /\ View' = View
<1> DEFINE top == MaxOf(elist)
           HolderOf(s) == MaxOf({e \in elist : s \in KeptIn(e)})
           Of(x) == {s \in Rebuilt : IdemKey[s] = x}
           Last(x) == LET e == MaxOf({f \in elist : KeptIn(f) \cap Of(x) # {}})
                      IN MaxOf(KeptIn(e) \cap Of(x))
           l == [e \in Epochs |-> IF e \in elist THEN Cardinality(KeptIn(e)) ELSE 0]
           low == elist \ {top}
<1>1. /\ ~up /\ up'
      /\ mirror' = [s \in Seqs |-> IF s \in Rebuilt THEN HolderOf(s) ELSE None]
      /\ byIdem' = [x \in Keys |-> IF Of(x) # {} THEN Last(x) ELSE None]
      /\ activeNo' = top /\ activeInserts' = Cardinality(rows[top]) /\ wm' = dwm
      /\ sealed' = low \ Dead(low, l) /\ dead' = Dead(low, l) /\ live' = l
      /\ pc' = IF Dead(low, l) = {} THEN "idle" ELSE "drop"
      /\ opening' = (dead' # {})
      /\ UNCHANGED <<durable, owed, gone, puts, crashes>>
  BY DEF Reopen, BeginGc
<1>2. TypeOK /\ elist # {} /\ elist \in SUBSET Epochs
  BY DEF StoreInv, TypeOK
<1>3. top \in elist /\ \A e \in elist : e <= top
  BY <1>2, EpochSets
<1>4. \A e \in elist : KeptIn(e) \in SUBSET Seqs
  BY <1>2 DEF KeptIn, TypeOK
<1>5. Rebuilt \in SUBSET Seqs
  BY <1>4 DEF Rebuilt
<1>6. \A s \in Rebuilt : HolderOf(s) \in elist /\ s \in KeptIn(HolderOf(s))
  <2> TAKE s \in Rebuilt
  <2> DEFINE H == {e \in elist : s \in KeptIn(e)}
  <2>1. H \in SUBSET Epochs /\ H # {}
    BY <1>2 DEF Rebuilt
  <2>2. MaxOf(H) \in H
    BY <2>1, EpochSets
  <2> QED
    BY <2>2
<1>7. \A x \in Keys : Of(x) # {} => Last(x) \in Seqs
  <2> TAKE x \in Keys
  <2> HAVE Of(x) # {}
  <2> DEFINE F == {f \in elist : KeptIn(f) \cap Of(x) # {}}
  <2>1. F \in SUBSET Epochs
    BY <1>2
  <2>2. F # {}
    BY DEF Rebuilt
  <2>3. MaxOf(F) \in F
    BY <2>1, <2>2, EpochSets
  <2> DEFINE K == KeptIn(MaxOf(F)) \cap Of(x)
  <2>4. K \in SUBSET Seqs /\ K # {}
    BY <1>4, <2>3
  <2>5. MaxOf(K) \in K
    BY <2>4, SeqSets
  <2> QED
    BY <2>4, <2>5
<1> HIDE DEF HolderOf, Of, Last
<1>8. /\ mirror' \in [Seqs -> Epochs \cup {None}]
      /\ byIdem' \in [Keys -> Seqs \cup {None}]
  BY <1>1, <1>2, <1>6, <1>7
<1>9. l \in [Epochs -> Nat] /\ \A e \in elist : l[e] = Cardinality(KeptIn(e))
  BY <1>2, <1>4, SeqSets
<1>10. Cardinality(rows[top]) \in Nat
  BY <1>2, <1>3, SeqSets DEF TypeOK
<1> HIDE DEF top, l, low
<1>11. dead' \subseteq elist /\ low \subseteq elist /\ sealed' \subseteq elist
  BY <1>1, <1>3 DEF Dead, low
<1>12. TypeOK'
  BY <1>1, <1>2, <1>3, <1>8, <1>9, <1>10, <1>11 DEF TypeOK, durable
<1>13. Pending' = Rebuilt
  BY <1>1, <1>2, <1>5, <1>6 DEF Pending, None, Epochs
<1>14. LiveCoversPending'
  <2> SUFFICES ASSUME NEW e \in Epochs
               PROVE  l[e] >= Cardinality({s \in Seqs : mirror'[s] = e})
    BY <1>1 DEF LiveCoversPending
  <2> DEFINE at == {s \in Seqs : mirror'[s] = e}
  <2>1. \A s \in at : s \in Rebuilt /\ HolderOf(s) = e
    BY <1>1 DEF Epochs, None
  <2>2. CASE e \in elist
    <3>1. at \in SUBSET KeptIn(e)
      BY <1>6, <2>1
    <3>2. KeptIn(e) \in SUBSET Seqs /\ IsFiniteSet(KeptIn(e))
      BY <1>4, <2>2, SeqSets
    <3>3. Cardinality(at) <= Cardinality(KeptIn(e)) /\ Cardinality(at) \in Nat
          /\ Cardinality(KeptIn(e)) \in Nat
      BY <3>1, <3>2, FS_Subset, SeqSets
    <3> HIDE DEF at
    <3>4. l[e] >= Cardinality(at)
      BY <1>9, <2>2, <3>3
    <3> QED
      BY <3>4 DEF at
  <2>3. CASE e \notin elist
    <3>1. at = {}
      BY <1>6, <2>1, <2>3
    <3>2. Cardinality(at) = 0 /\ l[e] \in Nat
      BY <1>9, <3>1, FS_EmptySet
    <3> QED
      BY <3>2
  <2> QED
    BY <2>2, <2>3
<1>15. PendingStored'
  <2> SUFFICES ASSUME NEW s \in Rebuilt
               PROVE  s \in rows[HolderOf(s)] /\ HolderOf(s) \in LiveEpochs' /\ s >= dwm
    BY <1>1, <1>5, <1>13 DEF PendingStored, durable
  <2> DEFINE e == HolderOf(s)
  <2>1. e \in elist /\ s \in KeptIn(e)
    BY <1>6
  <2>2. l[e] # 0
    <3>1. IsFiniteSet(KeptIn(e))
      BY <1>4, <2>1, SeqSets
    <3>2. Cardinality(KeptIn(e)) # 0
      BY <2>1, <3>1, FS_EmptySet
    <3> QED
      BY <1>9, <2>1, <3>2
  <2>3. e \in LiveEpochs'
    BY <1>1, <2>1, <2>2 DEF LiveEpochs, low, Dead
  <2> QED
    BY <2>1, <2>3 DEF KeptIn
<1>16. ReclaimSafe'
  <2>1. LiveEpochs' \subseteq elist' /\ dead' \cap LiveEpochs' = {} /\ wm' = dwm'
    BY <1>1, <1>3, <1>11 DEF LiveEpochs, Dead, low, durable
  <2>2. \A e \in sealed' : e \in elist /\ e # top
    BY <1>1 DEF low
  <2>3. \A e \in sealed' : e < activeNo'
    <3>1. \A e \in elist : e \in Int
      BY <1>2 DEF Epochs
    <3>2. \A e \in sealed' : e \in Int /\ top \in Int /\ e <= top /\ e # top
      BY <1>3, <2>2, <3>1
    <3> QED
      BY <1>1, <3>2
  <2> QED
    BY <2>1, <2>3 DEF ReclaimSafe
<1>17. View' = View
  BY <1>1, <1>13 DEF View
<1> QED
  BY <1>1, <1>2, <1>12, <1>14, <1>15, <1>16, <1>17 DEF StoreInv, durable

-----------------------------------------------------------------------------
(* The theorems. *)

(* The new store is empty and satisfies the invariant. *)
LEMMA InitInv == Init => StoreInv
<1> SUFFICES ASSUME Init PROVE StoreInv
  OBVIOUS
<1>1. 0 \in Epochs /\ 0 \in Nat
  BY LimitsAssumption DEF Epochs
<1>2. TypeOK
  BY <1>1 DEF Init, TypeOK
<1>3. Pending = {}
  BY DEF Init, Pending
<1>4. LiveCoversPending
  <2>1. \A e \in Epochs : {s \in Seqs : mirror[s] = e} = {}
    BY DEF Init, Epochs, None
  <2> QED
    BY <2>1, FS_EmptySet DEF Init, LiveCoversPending
<1>5. PendingStored /\ ReclaimSafe
  BY <1>3 DEF Init, PendingStored, ReclaimSafe, LiveEpochs
<1> QED
  BY <1>2, <1>4, <1>5 DEF Init, StoreInv

(* Every step keeps it, one case per operation. *)
LEMMA NextInv == StoreInv /\ [Next]_vars => StoreInv'
<1> SUFFICES ASSUME StoreInv, [Next]_vars PROVE StoreInv'
  OBVIOUS
<1>1. CASE \E g \in Groups : Commit(g)
  BY <1>1, CommitInv
<1>2. CASE \E S \in SUBSET Seqs : Retire(S) \/ RetireFails(S)
  BY <1>2, RetireInv, RetireFailsInv
<1>3. CASE RotateEpoch
  BY <1>3, RotateInv
<1>4. CASE RotateFails \/ GcFails
  BY <1>4, FailsInv
<1>5. CASE DropEpoch
  BY <1>5, DropInv
<1>6. CASE WriteList
  BY <1>6, WriteListInv
<1>7. CASE Crash \/ OpenFails
  <2>1. MemoryLost /\ crashes' \in Nat
    BY <1>7 DEF Crash, OpenFails, StoreInv, TypeOK
  <2> QED
    BY <2>1, MemoryLostInv
<1>8. CASE Reopen
  BY <1>8, ReopenInv
<1>9. CASE UNCHANGED vars
  BY <1>9 DEF vars, durable, index, epochs, StoreInv, TypeOK, LiveCoversPending,
              PendingStored, ReclaimSafe, LiveEpochs, View, Pending, Rebuilt, KeptIn
<1> QED
  BY <1>1, <1>2, <1>3, <1>4, <1>5, <1>6, <1>7, <1>8, <1>9 DEF Next

(* The inductive invariant holds in every reachable state: in particular an    *)
(* intent recorded and not retired since is in the store, or found by the      *)
(* next reopen, whatever crashed or failed in between.                         *)
THEOREM StoreInvariant == Spec => []StoreInv
<1> QED
  BY InitInv, NextInv, PTL DEF Spec

(* Type correctness of the store, memory and disk. *)
THEOREM StoreTypeCorrect == Spec => []TypeOK
<1>1. StoreInv => TypeOK
  BY DEF StoreInv
<1> QED
  BY <1>1, StoreInvariant, PTL

(* The counter of gc_epochs_locked never falls below the pending intents of    *)
(* its epoch, so dropping an epoch whose counter is zero drops none of them.   *)
THEOREM ReclamationIsSafe == Spec => []LiveCoversPending
<1>1. StoreInv => LiveCoversPending
  BY DEF StoreInv
<1> QED
  BY <1>1, StoreInvariant, PTL

(* Each step of the store is a step of PendingStore, or leaves its view alone. *)
LEMMA StepRefines ==
  StoreInv /\ StoreInv' /\ [Next]_vars => [Abstract!Next]_<<View, owed, gone>>
<1> SUFFICES ASSUME StoreInv, StoreInv', Next
             PROVE  Abstract!Next \/ UNCHANGED <<View, owed, gone>>
  BY DEF vars, durable, index, epochs, View, Pending, Rebuilt, KeptIn
<1>1. CASE \E g \in Groups : Commit(g)
  <2>1. PICK g \in Groups : Commit(g)
    BY <1>1
  <2>2. /\ up /\ up' /\ NewOf(g) \in SUBSET Seqs /\ \A s \in NewOf(g) : mirror[s] = None
        /\ owed' = owed \cup NewOf(g) /\ gone' = gone
        /\ mirror' = [s \in Seqs |-> IF s \in NewOf(g) THEN activeNo ELSE mirror[s]]
    BY <2>1, GroupWrites DEF Commit, NewOf, RecsOf
  <2>3. activeNo # None
    BY DEF StoreInv, TypeOK, Epochs, None
  <2>4. View' = View \cup NewOf(g) /\ NewOf(g) \in SUBSET (Seqs \ View)
    BY <2>2, <2>3 DEF View, Pending
  <2> QED
    BY <2>2, <2>4 DEF Abstract!Next, Abstract!Record
<1>2. CASE \E S \in SUBSET Seqs : Retire(S) \/ RetireFails(S)
  <2>1. PICK S \in SUBSET Seqs : Retire(S) \/ RetireFails(S)
    BY <1>2
  <2>2. /\ up /\ up' /\ S \in SUBSET Pending /\ Unindexed(S)
        /\ owed' = owed \ S /\ gone' = gone \cup S
    BY <2>1 DEF Retire, RetireFails
  <2>3. Pending' = Pending \ S
    BY <2>2, UnindexedShrinks DEF StoreInv
  <2> QED
    BY <2>2, <2>3 DEF View, Abstract!Next, Abstract!Remove
<1>3. CASE Crash \/ OpenFails
  <2>1. MemoryLost /\ crashes' \in Nat /\ owed' = owed /\ gone' = gone
    BY <1>3 DEF Crash, OpenFails, MemoryLost, StoreInv, TypeOK
  <2>2. View' = Rebuilt
    BY <2>1, MemoryLostInv
  <2>3. View' = View \cup (Rebuilt \ View) /\ Rebuilt \ View \in SUBSET gone
    BY <2>2, RebuiltCovers
  <2> QED
    BY <2>1, <2>3 DEF Abstract!Next, Abstract!Restart
<1>4. CASE Reopen
  BY <1>4, ReopenInv DEF Reopen
<1>5. CASE RotateEpoch \/ RotateFails \/ DropEpoch \/ WriteList \/ GcFails
  <2>1. up /\ up' /\ mirror' = mirror /\ owed' = owed /\ gone' = gone
    BY <1>5 DEF RotateEpoch, RotateFails, DropEpoch, WriteList, GcFails, index
  <2> QED
    BY <2>1 DEF View, Pending
<1> QED
  BY <1>1, <1>2, <1>3, <1>4, <1>5 DEF Next

(* The durable intent store implements the set of pending sequences that       *)
(* LeaderSink relies on: puts extend it, retirements shrink it, and a crash    *)
(* or a failed open takes nothing away and brings back retired intents only.   *)
THEOREM StoreRefinesPendingStore == Spec => ImplementsPendingStore
<1>1. Init => Abstract!Init
  BY DEF Init, Abstract!Init, View, Pending
<1> QED
  BY <1>1, StoreInvariant, StepRefines, PTL DEF Spec, ImplementsPendingStore, Abstract!Spec
=============================================================================
