--------------------------- MODULE ChunkStoreProofs ---------------------------
(* Machine-checked proofs about ChunkStore, for any number of callers, chunks *)
(* and fragments, any device and any sizes, both modes of durability, any     *)
(* failures and any crashes: references and holds protect a chunk; the free   *)
(* list agrees with the bitmap; every allocated block has one owner; chunks   *)
(* read back their own bytes; with inline sync an idle chunk is on the disk.  *)
EXTENDS ChunkStore, FiniteSetTheorems, WellFoundedInduction, TLAPS

-----------------------------------------------------------------------------
(* Counting callers. *)

(* Sets of threads are finite, and their sizes move by one. *)
LEMMA Counts ==
  /\ \A S \in SUBSET Threads : IsFiniteSet(S) /\ Cardinality(S) \in Nat
  /\ \A S, T \in SUBSET Threads : S \subseteq T => Cardinality(S) <= Cardinality(T)
  /\ \A S \in SUBSET Threads, t \in Threads :
       t \notin S => Cardinality(S \cup {t}) = Cardinality(S) + 1
  /\ \A S \in SUBSET Threads, t \in Threads :
       t \in S => Cardinality(S \ {t}) = Cardinality(S) - 1
  /\ Cardinality({}) = 0
<1>1. \A S \in SUBSET Threads : IsFiniteSet(S) /\ Cardinality(S) \in Nat
  BY ChunkStoreAssumption, FS_Subset, FS_CardinalityType
<1>2. \A S, T \in SUBSET Threads : S \subseteq T => Cardinality(S) <= Cardinality(T)
  BY <1>1, FS_Subset
<1>3. \A S \in SUBSET Threads, t \in Threads :
        t \notin S => Cardinality(S \cup {t}) = Cardinality(S) + 1
  BY <1>1, FS_AddElement
<1>4. \A S \in SUBSET Threads, t \in Threads :
        t \in S => Cardinality(S \ {t}) = Cardinality(S) - 1
  BY <1>1, FS_RemoveElement
<1>5. Cardinality({}) = 0
  BY FS_EmptySet
<1> QED
  BY <1>1, <1>2, <1>3, <1>4, <1>5

(* The sets of gaining calls, now and after a step. *)
LEMMA GainersAre ==
  ASSUME NEW c
  PROVE  /\ Gainers(c) \in SUBSET Threads /\ Gainers(c)' \in SUBSET Threads
         /\ \A v : /\ GainersUpTo(c, v) \in SUBSET Threads /\ GainersUpTo(c, v)' \in SUBSET Threads
                   /\ GainersUpTo(c, v) \subseteq Gainers(c) /\ GainersUpTo(c, v)' \subseteq Gainers(c)'
BY DEF Gainers, GainersUpTo

Kept(c) == Tidy(c) /\ (stale \/ Covered(c))

\* A step leaves every call on chunk c but that of thread t alone.
Others(t, c) ==
  \A u \in Threads \ {t} : /\ Touches(u, c)' <=> Touches(u, c)
                           /\ Touches(u, c) => op'[u] = op[u]

(* What Others says of the gaining calls. *)
LEMMA OthersGain ==
  ASSUME NEW t \in Threads, NEW c, Others(t, c)
  PROVE  /\ \A u \in Threads \ {t} : u \in Gainers(c)' <=> u \in Gainers(c)
         /\ \A v : \A u \in Threads \ {t} : u \in GainersUpTo(c, v)' <=> u \in GainersUpTo(c, v)
         /\ \A u \in Threads \ {t} : /\ Putting(u, c)' <=> Putting(u, c)
                                     /\ Putting(u, c) => op'[u] = op[u]
         /\ \A u \in Threads \ {t} : (op[u].pc = "sync" /\ op[u].key = c)'
                                       <=> (op[u].pc = "sync" /\ op[u].key = c)
<1>1. \A u \in Threads \ {t} : u \in Gainers(c)' <=> u \in Gainers(c)
  BY DEF Others, Gainers
<1>2. \A v : \A u \in Threads \ {t} : u \in GainersUpTo(c, v)' <=> u \in GainersUpTo(c, v)
  <2>1. \A u \in Threads \ {t} : u \in Gainers(c) => op'[u] = op[u]
    BY DEF Others, Gainers
  <2> QED
    BY <1>1, <2>1 DEF GainersUpTo
<1>3. \A u \in Threads \ {t} : /\ Putting(u, c)' <=> Putting(u, c)
                               /\ Putting(u, c) => op'[u] = op[u]
  BY DEF Others, Putting, Touches
<1>4. \A u \in Threads \ {t} : (op[u].pc = "sync" /\ op[u].key = c)'
                                 <=> (op[u].pc = "sync" /\ op[u].key = c)
  BY DEF Others, Touches
<1> QED
  BY <1>1, <1>2, <1>3, <1>4
(* The numbers of one chunk. *)
LEMMA NumbersAre ==
  ASSUME ShapeOK, NEW c \in Chunks
  PROVE  /\ Present(c) => IsRecord(index[c]) /\ index[c].rc \in Nat /\ index[c].ver \in Nat
         /\ c \in DOMAIN rows => IsRecord(rows[c]) /\ rows[c].rc \in Nat /\ rows[c].ver \in Nat
         /\ \A t \in Threads : Putting(t, c) =>
              /\ IsRecord(op[t].rec) /\ op[t].rec.rc \in Nat /\ op[t].rec.ver \in Nat
              /\ op[t].gain \in {0, 1}
         /\ refs[c] \in Nat
<1>1. Present(c) => IsRecord(index[c])
  BY DEF ShapeOK, TableOK, Present
<1>2. c \in DOMAIN rows => IsRecord(rows[c])
  BY DEF ShapeOK, TableOK
<1>3. \A t \in Threads : Putting(t, c) => IsRecord(op[t].rec) /\ op[t].gain \in {0, 1}
  BY DEF ShapeOK, CallOK, Putting
<1>4. refs[c] \in Nat
  BY DEF ShapeOK
<1> QED
  BY <1>1, <1>2, <1>3, <1>4 DEF IsRecord

-----------------------------------------------------------------------------
(* What each kind of step does to one chunk. *)

(* A step that is not about the chunk. *)
LEMMA ElsewhereKeeps ==
  ASSUME ShapeOK, NEW c \in Chunks, Kept(c), stale => stale',
         Present(c)' <=> Present(c), Present(c) => index'[c] = index[c],
         c \in DOMAIN rows' <=> c \in DOMAIN rows, c \in DOMAIN rows => rows'[c] = rows[c],
         \A u \in Threads : /\ Touches(u, c)' <=> Touches(u, c)
                            /\ Touches(u, c) => op'[u] = op[u],
         refs'[c] = refs[c] \/ stale, c \in held' <=> c \in held,
         c \in excl'.keys <=> c \in excl.keys
  PROVE  Kept(c)'
<1>1. Gainers(c)' = Gainers(c)
  BY DEF Gainers
<1>2. \A v : GainersUpTo(c, v)' = GainersUpTo(c, v)
  <2>1. \A u \in Threads : u \in Gainers(c) => op'[u] = op[u]
    BY DEF Gainers
  <2>2. Gainers(c) \subseteq Threads
    BY DEF Gainers
  <2> QED
    BY <1>1, <2>1, <2>2 DEF GainersUpTo
<1>3. \A u \in Threads : /\ Putting(u, c)' <=> Putting(u, c)
                         /\ Putting(u, c) => op'[u] = op[u]
  BY DEF Putting, Touches
<1>4. \A u \in Threads : (op[u].pc = "sync" /\ op[u].key = c)'
                          <=> (op[u].pc = "sync" /\ op[u].key = c)
  BY DEF Touches
<1>5. Tidy(c)'
  <2>1. \A u \in Threads : Touches(u, c)' => Present(c)'
    BY DEF Kept, Tidy
  <2>2. \A u \in Threads : Putting(u, c)' => Older(op[u].rec, c)'
    <3>1. \A u \in Threads : Putting(u, c) => Present(c) /\ Older(op[u].rec, c)
      BY DEF Kept, Tidy, Putting, Touches
    <3> QED
      BY <1>3, <3>1 DEF Older
  <2>3. c \in DOMAIN rows' => c \in excl'.keys \/ (Present(c)' /\ Older(rows[c], c)')
    BY DEF Kept, Tidy, Older
  <2>4. c \in excl'.keys => ~Present(c)'
    BY DEF Kept, Tidy
  <2> QED
    BY <2>1, <2>2, <2>3, <2>4 DEF Tidy
<1>6. Covered(c) /\ ~stale => Covered(c)'
  BY <1>1, <1>2, <1>3, <1>4 DEF Kept, Covered, Backs, Tidy
<1> QED
  BY <1>5, <1>6 DEF Kept

(* A known chunk gets a reference, to be owned when the call returns. *)
LEMMA BumpKeeps ==
  ASSUME ShapeOK, NEW c \in Chunks, Kept(c), NEW t \in Threads, Others(t, c), ~Touches(t, c),
         Present(c), Present(c)', index'[c] = Counted(c, 1),
         Touches(t, c)', Putting(t, c)', op'[t].rec = index'[c], op'[t].gain = 1, op'[t].pc = "put",
         rows' = rows, refs' = refs, held' = held, excl' = excl, stale' = stale
  PROVE  Kept(c)'
<1>0. /\ IsRecord(index[c]) /\ index[c].rc \in Nat /\ index[c].ver \in Nat /\ refs[c] \in Nat
      /\ \A u \in Threads : Putting(u, c) => op[u].rec.rc \in Nat /\ op[u].rec.ver \in Nat
      /\ c \in DOMAIN rows => rows[c].rc \in Nat /\ rows[c].ver \in Nat
  BY NumbersAre
<1>1. PICK r : r = index'[c]
  OBVIOUS
<1>2. r.rc = index[c].rc + 1 /\ r.ver = index[c].ver + 1 /\ r.hold = index[c].hold
  BY <1>0, <1>1 DEF Counted, IsRecord
<1>3. /\ \A u \in Threads \ {t} : u \in Gainers(c)' <=> u \in Gainers(c)
      /\ \A v : \A u \in Threads \ {t} : u \in GainersUpTo(c, v)' <=> u \in GainersUpTo(c, v)
      /\ \A u \in Threads \ {t} : /\ Putting(u, c)' <=> Putting(u, c)
                                  /\ Putting(u, c) => op'[u] = op[u]
      /\ \A u \in Threads \ {t} : (op[u].pc = "sync" /\ op[u].key = c)'
                                    <=> (op[u].pc = "sync" /\ op[u].key = c)
  BY OthersGain
<1>4. t \notin Gainers(c) /\ t \in Gainers(c)' /\ ~Putting(t, c)
      /\ \A v : t \notin GainersUpTo(c, v)
  BY DEF Gainers, GainersUpTo, Putting, Touches
<1>5. Gainers(c)' = Gainers(c) \cup {t}
  BY <1>3, <1>4, GainersAre
<1>6. \A v \in Nat : v <= index[c].ver => GainersUpTo(c, v)' = GainersUpTo(c, v)
  <2>1. \A v \in Nat : v <= index[c].ver => t \notin GainersUpTo(c, v)'
    BY <1>0, <1>1, <1>2 DEF GainersUpTo
  <2>2. ASSUME NEW v \in Nat, v <= index[c].ver PROVE GainersUpTo(c, v)' = GainersUpTo(c, v)
    <3>1. t \notin GainersUpTo(c, v)' /\ t \notin GainersUpTo(c, v)
      BY <1>4, <2>1, <2>2
    <3>2. GainersUpTo(c, v) \subseteq Threads /\ GainersUpTo(c, v)' \subseteq Threads
      BY GainersAre
    <3>3. \A u \in Threads \ {t} : u \in GainersUpTo(c, v)' <=> u \in GainersUpTo(c, v)
      BY <1>3
    <3> QED
      BY <3>1, <3>2, <3>3
  <2> QED
    BY <2>2
<1>7. Tidy(c) /\ \A u \in Threads : Putting(u, c) => op[u].rec.ver <= index[c].ver
  BY DEF Kept, Tidy, Older
<1>8. c \in DOMAIN rows => rows[c].ver <= index[c].ver
  BY <1>7 DEF Tidy, Older
<1>9. Tidy(c)'
  <2>1. \A u \in Threads : Putting(u, c)' => Older(op[u].rec, c)'
    BY <1>0, <1>1, <1>2, <1>3, <1>7 DEF Older
  <2>2. c \in DOMAIN rows => Older(rows[c], c)'
    BY <1>0, <1>1, <1>2, <1>8 DEF Older
  <2>3. c \notin excl.keys
    BY <1>7 DEF Tidy
  <2> QED
    BY <2>1, <2>2, <2>3 DEF Tidy
<1>10. ASSUME Covered(c) PROVE Covered(c)'
  <2>1. index[c].rc >= refs[c] + Cardinality(Gainers(c))
    BY <1>10 DEF Covered
  <2>2. Cardinality(Gainers(c)') = Cardinality(Gainers(c)) + 1 /\ Cardinality(Gainers(c)) \in Nat
    BY <1>4, <1>5, Counts, GainersAre
  <2>3. r.rc >= refs[c] + Cardinality(Gainers(c)')
    BY <1>0, <1>2, <2>1, <2>2
  <2>4. /\ Cardinality(GainersUpTo(c, r.ver)') <= Cardinality(Gainers(c)')
        /\ Cardinality(GainersUpTo(c, r.ver)') \in Nat
    BY Counts, GainersAre
  <2>5. Backs(r, c)'
    BY <1>0, <1>2, <2>2, <2>3, <2>4 DEF Backs
  <2>7. \A u \in Threads : Putting(u, c)' /\ (c \in DOMAIN rows => rows[c].ver <= op'[u].rec.ver)
          => Backs(op[u].rec, c)'
    <3>1. SUFFICES ASSUME NEW u \in Threads, Putting(u, c)',
                          c \in DOMAIN rows => rows[c].ver <= op'[u].rec.ver
                   PROVE  Backs(op[u].rec, c)'
      OBVIOUS
    <3>2. CASE u = t
      BY <1>1, <2>5, <3>2 DEF Backs
    <3>3. CASE u # t
      <4>1. Putting(u, c) /\ op'[u] = op[u]
        BY <1>3, <3>1, <3>3
      <4>2. Backs(op[u].rec, c)
        BY <1>10, <3>1, <4>1 DEF Covered
      <4>3. PICK v : v = op[u].rec.ver
        OBVIOUS
      <4>4. GainersUpTo(c, v)' = GainersUpTo(c, v)
        BY <1>0, <1>6, <1>7, <4>1, <4>3
      <4> QED
        BY <4>1, <4>2, <4>3, <4>4 DEF Backs
    <3> QED
      BY <3>2, <3>3
  <2>8. c \in DOMAIN rows => Backs(rows[c], c)'
    BY <1>0, <1>6, <1>8, <1>10 DEF Covered, Backs
  <2>9. c \in held => index[c].hold /\ \A u \in Threads : Putting(u, c)' => op'[u].rec.hold
    BY <1>1, <1>2, <1>3, <1>10 DEF Covered
  <2>10. c \notin DOMAIN rows => \A u \in Threads : ~(op[u].pc = "sync" /\ op[u].key = c)'
    BY <1>3, <1>10 DEF Covered
  <2> QED
    BY <1>1, <1>2, <1>10, <2>3, <2>7, <2>8, <2>9, <2>10 DEF Covered
<1> QED
  BY <1>9, <1>10 DEF Kept
(* A reference is given up: the record that says so is written later. *)
LEMMA DropKeeps ==
  ASSUME ShapeOK, NEW c \in Chunks, Kept(c), NEW t \in Threads, Others(t, c), ~Touches(t, c),
         Present(c), Present(c)', index'[c] = Counted(c, -1), index[c].rc > 0,
         refs[c] > 0, refs'[c] = refs[c] - 1,
         Touches(t, c)', Putting(t, c)', op'[t].rec = index'[c], op'[t].gain = 0, op'[t].pc = "put",
         rows' = rows, held' = held, excl' = excl, stale' = stale
  PROVE  Kept(c)'
<1>0. /\ IsRecord(index[c]) /\ index[c].rc \in Nat /\ index[c].ver \in Nat /\ refs[c] \in Nat
      /\ \A u \in Threads : Putting(u, c) => op[u].rec.rc \in Nat /\ op[u].rec.ver \in Nat
      /\ c \in DOMAIN rows => rows[c].rc \in Nat /\ rows[c].ver \in Nat
  BY NumbersAre
<1>1. PICK r : r = index'[c]
  OBVIOUS
<1>2. r.rc = index[c].rc - 1 /\ r.ver = index[c].ver + 1 /\ r.hold = index[c].hold
  BY <1>0, <1>1 DEF Counted, IsRecord
<1>3. /\ \A u \in Threads \ {t} : u \in Gainers(c)' <=> u \in Gainers(c)
      /\ \A v : \A u \in Threads \ {t} : u \in GainersUpTo(c, v)' <=> u \in GainersUpTo(c, v)
      /\ \A u \in Threads \ {t} : /\ Putting(u, c)' <=> Putting(u, c)
                                  /\ Putting(u, c) => op'[u] = op[u]
      /\ \A u \in Threads \ {t} : (op[u].pc = "sync" /\ op[u].key = c)'
                                    <=> (op[u].pc = "sync" /\ op[u].key = c)
  BY OthersGain
<1>4. /\ t \notin Gainers(c) /\ t \notin Gainers(c)' /\ ~Putting(t, c)
      /\ \A v : t \notin GainersUpTo(c, v) /\ t \notin GainersUpTo(c, v)'
  BY DEF Gainers, GainersUpTo, Putting, Touches
<1>5. Gainers(c)' = Gainers(c)
  BY <1>3, <1>4, GainersAre
<1>6. ASSUME NEW v PROVE GainersUpTo(c, v)' = GainersUpTo(c, v)
  <2>1. GainersUpTo(c, v) \subseteq Threads /\ GainersUpTo(c, v)' \subseteq Threads
    BY GainersAre
  <2>2. \A u \in Threads \ {t} : u \in GainersUpTo(c, v)' <=> u \in GainersUpTo(c, v)
    BY <1>3
  <2> QED
    BY <1>4, <2>1, <2>2
<1>7. Tidy(c) /\ \A u \in Threads : Putting(u, c) => op[u].rec.ver <= index[c].ver
  BY DEF Kept, Tidy, Older
<1>8. c \in DOMAIN rows => rows[c].ver <= index[c].ver
  BY <1>7 DEF Tidy, Older
<1>9. Tidy(c)'
  <2>1. \A u \in Threads : Putting(u, c)' => Older(op[u].rec, c)'
    BY <1>0, <1>1, <1>2, <1>3, <1>7 DEF Older
  <2>2. c \in DOMAIN rows => Older(rows[c], c)'
    BY <1>0, <1>1, <1>2, <1>8 DEF Older
  <2>3. c \notin excl.keys
    BY <1>7 DEF Tidy
  <2> QED
    BY <2>1, <2>2, <2>3 DEF Tidy
<1>10. ASSUME Covered(c) PROVE Covered(c)'
  <2>1. index[c].rc >= refs[c] + Cardinality(Gainers(c))
    BY <1>10 DEF Covered
  <2>2. \A v : /\ Cardinality(GainersUpTo(c, v)) <= Cardinality(Gainers(c))
              /\ Cardinality(GainersUpTo(c, v)) \in Nat /\ Cardinality(Gainers(c)) \in Nat
    BY Counts, GainersAre
  <2>3. r.rc >= refs'[c] + Cardinality(Gainers(c)')
    BY <1>0, <1>2, <1>5, <2>1, <2>2
  <2>4. PICK n : n = Cardinality(GainersUpTo(c, r.ver)) /\ n \in Nat /\ n <= Cardinality(Gainers(c))
    BY <2>2
  <2>5. r.rc >= refs'[c] + Cardinality(GainersUpTo(c, r.ver)')
    BY <1>0, <1>2, <1>6, <2>1, <2>2, <2>4
  <2>6. ASSUME NEW s, s.rc \in Nat, Backs(s, c) PROVE s.rc >= refs'[c] + Cardinality(GainersUpTo(c, s.ver)')
    <3>1. s.rc >= refs[c] + Cardinality(GainersUpTo(c, s.ver))
      BY <2>6 DEF Backs
    <3>2. PICK m \in Nat : m = Cardinality(GainersUpTo(c, s.ver))
      BY <2>2
    <3>3. m = Cardinality(GainersUpTo(c, s.ver)')
      BY <1>6, <3>2
    <3> QED
      BY <1>0, <2>6, <3>1, <3>2, <3>3
  <2>7. \A u \in Threads : Putting(u, c)' /\ (c \in DOMAIN rows => rows[c].ver <= op'[u].rec.ver)
          => Backs(op[u].rec, c)'
    <3>1. SUFFICES ASSUME NEW u \in Threads, Putting(u, c)',
                          c \in DOMAIN rows => rows[c].ver <= op'[u].rec.ver
                   PROVE  Backs(op[u].rec, c)'
      OBVIOUS
    <3>2. CASE u = t
      BY <1>1, <2>5, <3>2 DEF Backs
    <3>3. CASE u # t
      <4>1. Putting(u, c) /\ op'[u] = op[u]
        BY <1>3, <3>1, <3>3
      <4>2. PICK s : s = op[u].rec
        OBVIOUS
      <4>3. Backs(s, c) /\ s.rc \in Nat
        BY <1>0, <1>10, <3>1, <4>1, <4>2 DEF Covered
      <4>4. s.rc >= refs'[c] + Cardinality(GainersUpTo(c, s.ver)')
        BY <2>6, <4>3
      <4> QED
        BY <4>1, <4>2, <4>4 DEF Backs
    <3> QED
      BY <3>2, <3>3
  <2>8. c \in DOMAIN rows => Backs(rows[c], c)'
    <3>1. SUFFICES ASSUME c \in DOMAIN rows PROVE Backs(rows[c], c)'
      OBVIOUS
    <3>2. PICK s : s = rows[c]
      OBVIOUS
    <3>3. Backs(s, c) /\ s.rc \in Nat
      BY <1>0, <1>10, <3>1, <3>2 DEF Covered
    <3>4. s.rc >= refs'[c] + Cardinality(GainersUpTo(c, s.ver)')
      BY <2>6, <3>3
    <3> QED
      BY <3>2, <3>4 DEF Backs
  <2>9. c \in held => index[c].hold /\ \A u \in Threads : Putting(u, c)' => op'[u].rec.hold
    BY <1>1, <1>2, <1>3, <1>10 DEF Covered
  <2>10. c \notin DOMAIN rows => \A u \in Threads : ~(op[u].pc = "sync" /\ op[u].key = c)'
    BY <1>3, <1>10 DEF Covered
  <2>11. refs'[c] > 0 => c \in DOMAIN rows
    BY <1>0, <1>10 DEF Covered
  <2> QED
    BY <1>1, <1>2, <1>10, <2>3, <2>7, <2>8, <2>9, <2>10, <2>11 DEF Covered
<1> QED
  BY <1>9, <1>10 DEF Kept
(* An unknown chunk enters the index with the reference of its writer. *)
LEMMA NewKeeps ==
  ASSUME ShapeOK, NEW c \in Chunks, Kept(c), NEW t \in Threads, Others(t, c), excl.keys = {},
         ~Present(c), Present(c)', NEW e, index'[c] = Fresh(e, 0), Touches(t, c)',
         \/ op'[t].pc = "reread"
         \/ op'[t].pc = "put" /\ op'[t].rec = index'[c] /\ op'[t].gain = 1,
         rows' = rows, refs' = refs, held' = held, excl' = excl, stale' = stale
  PROVE  Kept(c)'
<1>0. refs[c] \in Nat
  BY NumbersAre
<1>1. c \notin DOMAIN rows /\ \A u \in Threads : ~Touches(u, c)
  BY DEF Kept, Tidy
<1>2. \A u \in Threads \ {t} : ~Touches(u, c)' /\ ~Putting(u, c)'
  BY <1>1 DEF Others, Touches, Putting
<1>3. PICK r : r = index'[c]
  OBVIOUS
<1>4. r.rc = 1 /\ r.ver = 0
  BY <1>3 DEF Fresh
<1>5. Gainers(c)' = {t}
  <2>1. t \in Gainers(c)'
    BY DEF Gainers
  <2>2. \A u \in Threads \ {t} : u \notin Gainers(c)'
    BY <1>2 DEF Gainers
  <2> QED
    BY <2>1, <2>2, GainersAre
<1>6. Cardinality(Gainers(c)') = 1
  <2>1. Cardinality({} \cup {t}) = Cardinality({}) + 1 /\ Cardinality({}) = 0
    BY Counts
  <2>2. {} \cup {t} = {t}
    OBVIOUS
  <2> QED
    BY <1>5, <2>1, <2>2
<1>7. Cardinality(GainersUpTo(c, r.ver)') <= 1 /\ Cardinality(GainersUpTo(c, r.ver)') \in Nat
  BY <1>6, Counts, GainersAre
<1>8. Tidy(c)'
  <2>1. ASSUME NEW u \in Threads, Putting(u, c)' PROVE Older(op[u].rec, c)'
    <3>1. u = t
      BY <1>2, <2>1
    <3>2. op'[u].rec = index'[c]
      BY <2>1, <3>1 DEF Putting
    <3> QED
      BY <1>3, <1>4, <3>2 DEF Older
  <2> QED
    BY <1>1, <2>1 DEF Tidy
<1>9. ASSUME Covered(c) PROVE Covered(c)'
  <2>1. refs[c] = 0 /\ c \notin held
    BY <1>0, <1>9 DEF Covered
  <2>2. r.rc >= refs[c] + Cardinality(Gainers(c)') /\ r.rc >= refs[c] + Cardinality(GainersUpTo(c, r.ver)')
    BY <1>4, <1>6, <1>7, <2>1
  <2>3. \A u \in Threads : Putting(u, c)' => Backs(op[u].rec, c)'
    BY <1>2, <1>3, <2>2 DEF Backs, Putting
  <2>4. \A u \in Threads : ~(op[u].pc = "sync" /\ op[u].key = c)'
    BY <1>2 DEF Touches
  <2> QED
    BY <1>1, <1>3, <2>1, <2>2, <2>3, <2>4 DEF Covered
<1> QED
  BY <1>8, <1>9 DEF Kept

(* A registered chunk is read again: its record is the newest. *)
LEMMA RereadKeeps ==
  ASSUME ShapeOK, NEW c \in Chunks, Kept(c), NEW t \in Threads, Others(t, c), Touches(t, c),
         op[t].pc = "reread", Touches(t, c)', op'[t].pc = "put", op'[t].rec = index[c], op'[t].gain = 1,
         UNCHANGED <<index, rows, refs, held, excl, stale>>
  PROVE  Kept(c)'
<1>1. Present(c) /\ Tidy(c)
  BY DEF Kept, Tidy
<1>2. /\ index[c].rc \in Nat /\ index[c].ver \in Nat /\ refs[c] \in Nat
      /\ \A u \in Threads : Putting(u, c) => op[u].rec.rc \in Nat /\ op[u].rec.ver \in Nat
      /\ c \in DOMAIN rows => rows[c].rc \in Nat /\ rows[c].ver \in Nat
  BY <1>1, NumbersAre
<1>3. /\ \A u \in Threads \ {t} : u \in Gainers(c)' <=> u \in Gainers(c)
      /\ \A v : \A u \in Threads \ {t} : u \in GainersUpTo(c, v)' <=> u \in GainersUpTo(c, v)
      /\ \A u \in Threads \ {t} : /\ Putting(u, c)' <=> Putting(u, c)
                                  /\ Putting(u, c) => op'[u] = op[u]
      /\ \A u \in Threads \ {t} : (op[u].pc = "sync" /\ op[u].key = c)'
                                    <=> (op[u].pc = "sync" /\ op[u].key = c)
  BY OthersGain
<1>4. t \in Gainers(c) /\ t \in Gainers(c)' /\ ~Putting(t, c)
  BY DEF Gainers, Putting
<1>5. Gainers(c)' = Gainers(c)
  <2>1. Gainers(c) \subseteq Threads /\ Gainers(c)' \subseteq Threads
    BY GainersAre
  <2>2. \A u \in Threads \ {t} : u \in Gainers(c)' <=> u \in Gainers(c)
    BY <1>3
  <2> QED
    BY <1>4, <2>1, <2>2
<1>6. ASSUME NEW v \in Nat, v < index[c].ver PROVE GainersUpTo(c, v)' = GainersUpTo(c, v)
  <2>1. t \notin GainersUpTo(c, v)
    BY DEF GainersUpTo
  <2>2. t \notin GainersUpTo(c, v)'
    BY <1>2, <1>6 DEF GainersUpTo
  <2>3. GainersUpTo(c, v) \subseteq Threads /\ GainersUpTo(c, v)' \subseteq Threads
    BY GainersAre
  <2>4. \A u \in Threads \ {t} : u \in GainersUpTo(c, v)' <=> u \in GainersUpTo(c, v)
    BY <1>3
  <2> QED
    BY <2>1, <2>2, <2>3, <2>4
<1>7. Tidy(c)'
  <2>1. ASSUME NEW u \in Threads, Putting(u, c)' PROVE Older(op[u].rec, c)'
    <3>1. CASE u = t
      BY <1>2, <3>1 DEF Older
    <3>2. CASE u # t
      <4>1. Putting(u, c) /\ op'[u] = op[u]
        BY <1>3, <2>1, <3>2
      <4>2. Older(op[u].rec, c)
        BY <1>1, <4>1 DEF Tidy
      <4> QED
        BY <4>1, <4>2 DEF Older
    <3> QED
      BY <3>1, <3>2
  <2> QED
    BY <1>1, <2>1 DEF Tidy, Older, Present
<1>8. ASSUME Covered(c), NEW s, s.rc \in Nat, s.ver \in Nat, Older(s, c), Backs(s, c) \/ s = index[c]
      PROVE  s.rc >= refs[c] + Cardinality(GainersUpTo(c, s.ver)')
  <2>1. CASE s.ver = index[c].ver
    <3>1. s = index[c]
      BY <1>8, <2>1 DEF Older
    <3>2. s.rc >= refs[c] + Cardinality(Gainers(c)')
      BY <1>1, <1>5, <1>8, <3>1 DEF Covered
    <3>3. PICK m, n : /\ m = Cardinality(GainersUpTo(c, s.ver)') /\ n = Cardinality(Gainers(c)')
                      /\ m \in Nat /\ n \in Nat /\ m <= n
      BY Counts, GainersAre
    <3> QED
      BY <1>2, <1>8, <3>2, <3>3
  <2>2. CASE s.ver # index[c].ver
    <3>1. GainersUpTo(c, s.ver)' = GainersUpTo(c, s.ver)
      BY <1>2, <1>6, <1>8, <2>2 DEF Older
    <3> QED
      BY <1>8, <2>2, <3>1 DEF Backs
  <2> QED
    BY <2>1, <2>2
<1>9. ASSUME Covered(c) PROVE Covered(c)'
  <2>1. \A u \in Threads : Putting(u, c)' /\ (c \in DOMAIN rows => rows[c].ver <= op'[u].rec.ver)
          => Backs(op[u].rec, c)'
    <3>1. SUFFICES ASSUME NEW u \in Threads, Putting(u, c)',
                          c \in DOMAIN rows => rows[c].ver <= op'[u].rec.ver
                   PROVE  Backs(op[u].rec, c)'
      OBVIOUS
    <3>2. PICK s : s = op'[u].rec
      OBVIOUS
    <3>3. s.rc \in Nat /\ s.ver \in Nat /\ Older(s, c) /\ (Backs(s, c) \/ s = index[c])
      <4>1. CASE u = t
        BY <1>2, <3>2, <4>1 DEF Older
      <4>2. CASE u # t
        <5>1. Putting(u, c) /\ s = op[u].rec
          BY <1>3, <3>1, <3>2, <4>2
        <5> QED
          BY <1>1, <1>2, <1>9, <3>1, <3>2, <5>1 DEF Covered, Tidy
      <4> QED
        BY <4>1, <4>2
    <3>4. s.rc >= refs[c] + Cardinality(GainersUpTo(c, s.ver)')
      BY <1>8, <1>9, <3>3
    <3> QED
      BY <3>2, <3>4 DEF Backs
  <2>2. c \in DOMAIN rows => Backs(rows[c], c)'
    <3>1. SUFFICES ASSUME c \in DOMAIN rows PROVE Backs(rows[c], c)'
      OBVIOUS
    <3>2. PICK s : s = rows[c]
      OBVIOUS
    <3>3. Backs(s, c) /\ s.rc \in Nat /\ s.ver \in Nat /\ Older(s, c)
      BY <1>1, <1>2, <1>9, <3>1, <3>2 DEF Covered, Tidy
    <3>4. s.rc >= refs[c] + Cardinality(GainersUpTo(c, s.ver)')
      BY <1>8, <1>9, <3>3
    <3> QED
      BY <3>2, <3>4 DEF Backs
  <2>3. \A u \in Threads : (op[u].pc = "sync" /\ op[u].key = c)' => (op[u].pc = "sync" /\ op[u].key = c)
    BY <1>3
  <2>4. c \in held => \A u \in Threads : Putting(u, c)' => op'[u].rec.hold
    BY <1>3, <1>9 DEF Covered
  <2>5. Present(c)' /\ index'[c].rc >= refs'[c] + Cardinality(Gainers(c)')
    BY <1>1, <1>5, <1>9 DEF Covered, Present
  <2> QED
    BY <1>1, <1>9, <2>1, <2>2, <2>3, <2>4, <2>5 DEF Covered
<1> QED
  BY <1>7, <1>9 DEF Kept

(* A call ends: with a reference if its record was written and synced, with    *)
(* none if the metadata store refused the record.                             *)
LEMMA LeaveKeeps ==
  ASSUME ShapeOK, NEW c \in Chunks, Kept(c), NEW t \in Threads, Others(t, c), Touches(t, c),
         ~Touches(t, c)', refs'[c] = refs[c] \/ (op[t].pc = "sync" /\ op[t].gain = 1 /\ refs'[c] = refs[c] + 1),
         UNCHANGED <<index, rows, held, excl, stale>>
  PROVE  Kept(c)'
<1>1. Present(c) /\ Tidy(c)
  BY DEF Kept, Tidy
<1>2. /\ index[c].rc \in Nat /\ index[c].ver \in Nat /\ refs[c] \in Nat
      /\ \A u \in Threads : Putting(u, c) => op[u].rec.rc \in Nat /\ op[u].rec.ver \in Nat
      /\ c \in DOMAIN rows => rows[c].rc \in Nat /\ rows[c].ver \in Nat
  BY <1>1, NumbersAre
<1>3. /\ \A u \in Threads \ {t} : u \in Gainers(c)' <=> u \in Gainers(c)
      /\ \A v : \A u \in Threads \ {t} : u \in GainersUpTo(c, v)' <=> u \in GainersUpTo(c, v)
      /\ \A u \in Threads \ {t} : /\ Putting(u, c)' <=> Putting(u, c)
                                  /\ Putting(u, c) => op'[u] = op[u]
      /\ \A u \in Threads \ {t} : (op[u].pc = "sync" /\ op[u].key = c)'
                                    <=> (op[u].pc = "sync" /\ op[u].key = c)
  BY OthersGain
<1>4. /\ t \notin Gainers(c)' /\ ~Putting(t, c)' /\ ~(op[t].pc = "sync" /\ op[t].key = c)'
      /\ \A v : t \notin GainersUpTo(c, v)'
  BY DEF Gainers, GainersUpTo, Putting, Touches
<1>5. ASSUME NEW S \in SUBSET Threads, NEW T \in SUBSET Threads, t \notin T,
             \A u \in Threads \ {t} : u \in T <=> u \in S,
             op[t].pc = "sync" /\ op[t].gain = 1 => t \in S
      PROVE  refs'[c] + Cardinality(T) <= refs[c] + Cardinality(S)
  <2>1. T = S \ {t} /\ T \subseteq S
    BY <1>5
  <2>2. /\ Cardinality(T) \in Nat /\ Cardinality(S) \in Nat /\ Cardinality(T) <= Cardinality(S)
        /\ t \in S => Cardinality(T) = Cardinality(S) - 1
    BY <2>1, Counts
  <2> QED
    BY <1>2, <1>5, <2>2
<1>6. refs'[c] + Cardinality(Gainers(c)') <= refs[c] + Cardinality(Gainers(c))
  <2>1. op[t].pc = "sync" /\ op[t].gain = 1 => t \in Gainers(c)
    BY DEF Gainers
  <2> QED
    BY <1>3, <1>4, <1>5, <2>1, GainersAre
<1>7. ASSUME NEW v PROVE refs'[c] + Cardinality(GainersUpTo(c, v)') <= refs[c] + Cardinality(GainersUpTo(c, v))
  <2>1. op[t].pc = "sync" /\ op[t].gain = 1 => t \in GainersUpTo(c, v)
    BY DEF Gainers, GainersUpTo
  <2>2. GainersUpTo(c, v) \in SUBSET Threads /\ GainersUpTo(c, v)' \in SUBSET Threads
    BY GainersAre
  <2>3. \A u \in Threads \ {t} : u \in GainersUpTo(c, v)' <=> u \in GainersUpTo(c, v)
    BY <1>3
  <2> QED
    BY <1>4, <1>5, <2>1, <2>2, <2>3
<1>8. ASSUME NEW s, s.rc \in Nat, Backs(s, c)
      PROVE  s.rc >= refs'[c] + Cardinality(GainersUpTo(c, s.ver)')
  <2>1. PICK m, n : /\ m = Cardinality(GainersUpTo(c, s.ver)) /\ n = Cardinality(GainersUpTo(c, s.ver)')
                    /\ m \in Nat /\ n \in Nat
    BY Counts, GainersAre
  <2>2. refs'[c] + n <= refs[c] + m /\ s.rc >= refs[c] + m
    BY <1>7, <1>8, <2>1 DEF Backs
  <2>3. refs'[c] \in Nat
    BY <1>2
  <2> QED
    BY <1>2, <1>8, <2>1, <2>2, <2>3
<1>9. Tidy(c)'
  <2>1. \A u \in Threads : Touches(u, c)' => Touches(u, c)
    BY DEF Others
  <2>2. \A u \in Threads : Putting(u, c)' => Putting(u, c) /\ op'[u] = op[u]
    BY <1>3, <1>4
  <2> QED
    BY <1>1, <2>1, <2>2 DEF Tidy, Older, Present
<1>10. ASSUME Covered(c) PROVE Covered(c)'
  <2>1. \A u \in Threads : Putting(u, c)' /\ (c \in DOMAIN rows => rows[c].ver <= op'[u].rec.ver)
          => Backs(op[u].rec, c)'
    <3>1. SUFFICES ASSUME NEW u \in Threads, Putting(u, c)',
                          c \in DOMAIN rows => rows[c].ver <= op'[u].rec.ver
                   PROVE  Backs(op[u].rec, c)'
      OBVIOUS
    <3>2. Putting(u, c) /\ op'[u] = op[u]
      BY <1>3, <1>4, <3>1
    <3>3. PICK s : s = op[u].rec
      OBVIOUS
    <3>4. s.rc >= refs'[c] + Cardinality(GainersUpTo(c, s.ver)')
      BY <1>2, <1>8, <1>10, <3>1, <3>2, <3>3 DEF Covered
    <3> QED
      BY <3>2, <3>3, <3>4 DEF Backs
  <2>2. c \in DOMAIN rows => Backs(rows[c], c)'
    <3>1. SUFFICES ASSUME c \in DOMAIN rows PROVE Backs(rows[c], c)'
      OBVIOUS
    <3>2. PICK s : s = rows[c]
      OBVIOUS
    <3>3. s.rc >= refs'[c] + Cardinality(GainersUpTo(c, s.ver)')
      BY <1>2, <1>8, <1>10, <3>1, <3>2 DEF Covered
    <3> QED
      BY <3>2, <3>3 DEF Backs
  <2>3. \A u \in Threads : (op[u].pc = "sync" /\ op[u].key = c)' => (op[u].pc = "sync" /\ op[u].key = c)
    BY <1>3, <1>4
  <2>4. c \in held => \A u \in Threads : Putting(u, c)' => op'[u].rec.hold
    BY <1>3, <1>4, <1>10 DEF Covered
  <2>5. Present(c)' /\ index'[c].rc >= refs'[c] + Cardinality(Gainers(c)')
    <3>1. PICK m, n : m = Cardinality(Gainers(c)) /\ n = Cardinality(Gainers(c)') /\ m \in Nat /\ n \in Nat
      BY Counts, GainersAre
    <3>2. index[c].rc >= refs[c] + m /\ refs'[c] + n <= refs[c] + m
      BY <1>1, <1>6, <1>10, <3>1 DEF Covered
    <3>3. refs'[c] \in Nat
      BY <1>2
    <3>4. index[c].rc >= refs'[c] + n
      BY <1>2, <3>1, <3>2, <3>3
    <3> QED
      BY <1>1, <3>1, <3>4 DEF Present
  <2>6. c \in DOMAIN rows \/ (refs'[c] = refs[c] /\ ~(refs[c] > 0))
    <3>1. op[t].pc = "sync" => op[t].key = c
      BY DEF Touches
    <3> QED
      BY <1>10, <3>1 DEF Covered
  <2> QED
    BY <1>1, <1>10, <2>1, <2>2, <2>3, <2>4, <2>5, <2>6 DEF Covered
<1> QED
  BY <1>9, <1>10 DEF Kept
(* The record of a call is written.  Unless it replaced a newer one, it backs  *)
(* what callers own, and every record that may still replace it does too.     *)
LEMMA PutKeeps ==
  ASSUME ShapeOK, NEW c \in Chunks, Kept(c), NEW t \in Threads, Others(t, c), Putting(t, c),
         c \in DOMAIN rows', rows'[c] = op[t].rec,
         stale' <=> stale \/ (c \in DOMAIN rows /\ rows[c].ver > op[t].rec.ver),
         \/ /\ Touches(t, c)' /\ op'[t].pc = "sync" /\ op[t].gain = 1 /\ refs'[c] = refs[c]
         \/ ~Touches(t, c)' /\ refs'[c] = refs[c] + op[t].gain,
         UNCHANGED <<index, held, excl>>
  PROVE  Kept(c)'
<1>1. Present(c) /\ Tidy(c) /\ Touches(t, c)
  BY DEF Kept, Tidy, Putting, Touches
<1>2. /\ index[c].rc \in Nat /\ index[c].ver \in Nat /\ refs[c] \in Nat /\ op[t].gain \in {0, 1}
      /\ \A u \in Threads : Putting(u, c) => op[u].rec.rc \in Nat /\ op[u].rec.ver \in Nat
      /\ c \in DOMAIN rows => rows[c].rc \in Nat /\ rows[c].ver \in Nat
  BY <1>1, NumbersAre
<1>3. /\ \A u \in Threads \ {t} : u \in Gainers(c)' <=> u \in Gainers(c)
      /\ \A v : \A u \in Threads \ {t} : u \in GainersUpTo(c, v)' <=> u \in GainersUpTo(c, v)
      /\ \A u \in Threads \ {t} : /\ Putting(u, c)' <=> Putting(u, c)
                                  /\ Putting(u, c) => op'[u] = op[u]
      /\ \A u \in Threads \ {t} : (op[u].pc = "sync" /\ op[u].key = c)'
                                    <=> (op[u].pc = "sync" /\ op[u].key = c)
  BY OthersGain
<1>4. PICK r : r = op[t].rec
  OBVIOUS
<1>5. r.rc \in Nat /\ r.ver \in Nat /\ refs'[c] \in Nat
  BY <1>2, <1>4
<1>6. ~Putting(t, c)'
  BY DEF Putting, Touches
<1>7. ASSUME NEW S \in SUBSET Threads, NEW T \in SUBSET Threads,
             \A u \in Threads \ {t} : u \in T <=> u \in S,
             op[t].gain = 1 => t \in S, t \in T => Touches(t, c)'
      PROVE  refs'[c] + Cardinality(T) <= refs[c] + Cardinality(S)
  <2>1. /\ Cardinality(T) \in Nat /\ Cardinality(S) \in Nat
        /\ T \subseteq S => Cardinality(T) <= Cardinality(S)
        /\ t \in S => Cardinality(S \ {t}) = Cardinality(S) - 1
    BY Counts
  <2>2. CASE Touches(t, c)'
    <3>1. T \subseteq S /\ refs'[c] = refs[c]
      BY <1>7, <2>2
    <3> QED
      BY <1>2, <2>1, <3>1
  <2>3. CASE ~Touches(t, c)'
    <3>1. T = S \ {t} /\ T \subseteq S /\ refs'[c] = refs[c] + op[t].gain
      BY <1>7, <2>3
    <3> QED
      BY <1>2, <1>7, <2>1, <3>1
  <2> QED
    BY <2>2, <2>3
<1>8. refs'[c] + Cardinality(Gainers(c)') <= refs[c] + Cardinality(Gainers(c))
  <2>1. (op[t].gain = 1 => t \in Gainers(c)) /\ (t \in Gainers(c)' => Touches(t, c)')
    BY <1>1 DEF Gainers
  <2>2. Gainers(c) \in SUBSET Threads /\ Gainers(c)' \in SUBSET Threads
    BY GainersAre
  <2>3. \A u \in Threads \ {t} : u \in Gainers(c)' <=> u \in Gainers(c)
    BY <1>3
  <2> QED
    BY <1>7, <2>1, <2>2, <2>3
<1>9. ASSUME NEW v \in Nat, r.ver <= v
      PROVE  refs'[c] + Cardinality(GainersUpTo(c, v)') <= refs[c] + Cardinality(GainersUpTo(c, v))
  <2>1. op[t].gain = 1 => t \in GainersUpTo(c, v)
    BY <1>1, <1>4, <1>9 DEF Gainers, GainersUpTo, Putting
  <2>2. t \in GainersUpTo(c, v)' => Touches(t, c)'
    BY DEF Gainers, GainersUpTo
  <2>3. GainersUpTo(c, v) \in SUBSET Threads /\ GainersUpTo(c, v)' \in SUBSET Threads
    BY GainersAre
  <2>4. \A u \in Threads \ {t} : u \in GainersUpTo(c, v)' <=> u \in GainersUpTo(c, v)
    BY <1>3
  <2> QED
    BY <1>7, <2>1, <2>2, <2>3, <2>4
<1>10. ASSUME NEW s, s.rc \in Nat, s.ver \in Nat, r.ver <= s.ver, Backs(s, c)
       PROVE  s.rc >= refs'[c] + Cardinality(GainersUpTo(c, s.ver)')
  <2>1. PICK m, n : /\ m = Cardinality(GainersUpTo(c, s.ver)) /\ n = Cardinality(GainersUpTo(c, s.ver)')
                    /\ m \in Nat /\ n \in Nat
    BY Counts, GainersAre
  <2>2. refs'[c] + n <= refs[c] + m /\ s.rc >= refs[c] + m
    BY <1>9, <1>10, <2>1 DEF Backs
  <2> QED
    BY <1>2, <1>5, <1>10, <2>1, <2>2
<1>11. Tidy(c)'
  <2>1. \A u \in Threads : Touches(u, c)' => Present(c)'
    BY <1>1 DEF Present
  <2>2. ASSUME NEW u \in Threads, Putting(u, c)' PROVE Older(op[u].rec, c)'
    <3>1. Putting(u, c) /\ op'[u] = op[u]
      BY <1>3, <1>6, <2>2
    <3>2. Older(op[u].rec, c)
      BY <1>1, <3>1 DEF Tidy
    <3> QED
      BY <3>1, <3>2 DEF Older
  <2>3. Present(c)' /\ Older(rows[c], c)'
    <3>1. Older(r, c)
      BY <1>1, <1>4 DEF Tidy
    <3> QED
      BY <1>1, <1>4, <3>1 DEF Older, Present
  <2>4. c \notin excl.keys
    BY <1>1 DEF Tidy
  <2> QED
    BY <2>1, <2>2, <2>3, <2>4 DEF Tidy
<1>12. ASSUME Covered(c), ~stale' PROVE Covered(c)'
  <2>0. c \in DOMAIN rows => rows[c].ver <= r.ver
    BY <1>2, <1>4, <1>5, <1>12
  <2>1. \A u \in Threads : Putting(u, c)' /\ rows'[c].ver <= op'[u].rec.ver => Backs(op[u].rec, c)'
    <3>1. SUFFICES ASSUME NEW u \in Threads, Putting(u, c)', rows'[c].ver <= op'[u].rec.ver
                   PROVE  Backs(op[u].rec, c)'
      OBVIOUS
    <3>2. Putting(u, c) /\ op'[u] = op[u]
      BY <1>3, <1>6, <3>1
    <3>3. PICK s : s = op[u].rec
      OBVIOUS
    <3>4. s.rc \in Nat /\ s.ver \in Nat /\ r.ver <= s.ver
      BY <1>2, <1>4, <3>1, <3>2, <3>3
    <3>5. c \in DOMAIN rows => rows[c].ver <= s.ver
      BY <1>2, <1>5, <2>0, <3>4
    <3>6. Backs(s, c)
      BY <1>12, <3>2, <3>3, <3>5 DEF Covered
    <3>7. s.rc >= refs'[c] + Cardinality(GainersUpTo(c, s.ver)')
      BY <1>10, <3>4, <3>6
    <3> QED
      BY <3>2, <3>3, <3>7 DEF Backs
  <2>2. Backs(rows[c], c)'
    <3>1. Backs(r, c)
      BY <1>4, <1>12, <2>0 DEF Covered
    <3>2. r.rc >= refs'[c] + Cardinality(GainersUpTo(c, r.ver)')
      BY <1>5, <1>10, <3>1
    <3> QED
      BY <1>4, <3>2 DEF Backs
  <2>3. c \in held => /\ index[c].hold /\ r.hold
                      /\ \A u \in Threads : Putting(u, c)' => op'[u].rec.hold
    BY <1>3, <1>4, <1>6, <1>12 DEF Covered
  <2>4. Present(c)' /\ index'[c].rc >= refs'[c] + Cardinality(Gainers(c)')
    <3>1. PICK m, n : m = Cardinality(Gainers(c)) /\ n = Cardinality(Gainers(c)') /\ m \in Nat /\ n \in Nat
      BY Counts, GainersAre
    <3>2. index[c].rc >= refs[c] + m /\ refs'[c] + n <= refs[c] + m
      BY <1>1, <1>8, <1>12, <3>1 DEF Covered
    <3>3. index[c].rc >= refs'[c] + n
      BY <1>2, <1>5, <3>1, <3>2
    <3> QED
      BY <1>1, <3>1, <3>3 DEF Present
  <2> QED
    BY <1>4, <2>1, <2>2, <2>3, <2>4 DEF Covered
<1> QED
  BY <1>11, <1>12 DEF Kept

-----------------------------------------------------------------------------
(* Steps without calls in progress. *)

(* Nobody is inside a call. *)
LEMMA QuietAfter ==
  ASSUME \A u \in Threads : op'[u] = Idle, NEW c
  PROVE  /\ \A u \in Threads : ~Touches(u, c)' /\ ~Putting(u, c)' /\ ~(op[u].pc = "sync" /\ op[u].key = c)'
         /\ Cardinality(Gainers(c)') = 0 /\ \A v : Cardinality(GainersUpTo(c, v)') = 0
<1>1. \A u \in Threads : op'[u].pc = "idle"
  BY DEF Idle
<1>2. \A u \in Threads : ~Touches(u, c)' /\ ~Putting(u, c)' /\ ~(op[u].pc = "sync" /\ op[u].key = c)'
  BY <1>1 DEF Touches, Putting
<1>3. Gainers(c)' = {} /\ \A v : GainersUpTo(c, v)' = {}
  BY <1>2 DEF Gainers, GainersUpTo
<1> QED
  BY <1>2, <1>3, Counts

(* After a step that leaves nobody inside a call, only the index and the row   *)
(* speak for a chunk.                                                         *)
LEMMA QuietKeeps ==
  ASSUME NEW c, \A u \in Threads : op'[u] = Idle, refs'[c] \in Nat,
         c \in excl'.keys => ~Present(c)',
         c \in DOMAIN rows' => c \in excl'.keys \/ (Present(c)' /\ Older(rows[c], c)'),
         \/ stale'
         \/ /\ Present(c)' => index'[c].rc >= refs'[c]
            /\ c \in DOMAIN rows' => rows'[c].rc >= refs'[c]
            /\ refs'[c] > 0 => Present(c)' /\ c \in DOMAIN rows'
            /\ c \in held' => Present(c)' /\ index'[c].hold /\ c \in DOMAIN rows' /\ rows'[c].hold
  PROVE  Kept(c)'
<1>1. /\ \A u \in Threads : ~Touches(u, c)' /\ ~Putting(u, c)' /\ ~(op[u].pc = "sync" /\ op[u].key = c)'
      /\ Cardinality(Gainers(c)') = 0 /\ \A v : Cardinality(GainersUpTo(c, v)') = 0
  BY QuietAfter
<1>2. Tidy(c)'
  BY <1>1 DEF Tidy
<1>3. stale' \/ Covered(c)'
  <2>1. c \in DOMAIN rows' /\ rows'[c].rc >= refs'[c] => Backs(rows[c], c)'
    <3>1. PICK s : s = rows'[c]
      OBVIOUS
    <3>2. Cardinality(GainersUpTo(c, s.ver)') = 0
      BY <1>1
    <3> QED
      BY <3>1, <3>2 DEF Backs
  <2>2. Present(c)' /\ index'[c].rc >= refs'[c] => index'[c].rc >= refs'[c] + Cardinality(Gainers(c)')
    BY <1>1
  <2> QED
    BY <1>1, <2>1, <2>2 DEF Covered
<1> QED
  BY <1>2, <1>3 DEF Kept
-----------------------------------------------------------------------------
(* Tables and calls. *)

SameAt(f, g, k) == (k \in DOMAIN g <=> k \in DOMAIN f) /\ (k \in DOMAIN f => g[k] = f[k])

(* An entry added or replaced. *)
LEMMA BindIs ==
  ASSUME NEW f, NEW k, NEW v
  PROVE  /\ k \in DOMAIN Bind(f, k, v) /\ Bind(f, k, v)[k] = v
         /\ \A j : j # k => SameAt(f, Bind(f, k, v), j)
         /\ TableOK(f) /\ k \in Keys /\ IsRecord(v) => TableOK(Bind(f, k, v))
<1>1. PICK g : g = Bind(f, k, v)
  OBVIOUS
<1>2. DOMAIN g = DOMAIN f \cup {k} /\ g[k] = v /\ \A j \in DOMAIN f : j # k => g[j] = f[j]
  BY <1>1 DEF Bind
<1>3. TableOK(f) /\ k \in Keys /\ IsRecord(v) => TableOK(g)
  BY <1>2 DEF TableOK
<1>4. \A j : j # k => SameAt(f, g, j)
  BY <1>2 DEF SameAt
<1> QED
  BY <1>1, <1>2, <1>3, <1>4

(* An entry changed. *)
LEMMA SetIs ==
  ASSUME NEW f, NEW k \in DOMAIN f, NEW v, NEW g, g = [f EXCEPT ![k] = v]
  PROVE  /\ k \in DOMAIN g /\ g[k] = v
         /\ \A j : j # k => SameAt(f, g, j)
         /\ TableOK(f) /\ IsRecord(v) => TableOK(g)
<1>1. DOMAIN g = DOMAIN f /\ g[k] = v /\ \A j \in DOMAIN f : j # k => g[j] = f[j]
  OBVIOUS
<1>2. TableOK(f) /\ IsRecord(v) => TableOK(g)
  BY <1>1 DEF TableOK
<1>3. \A j : j # k => SameAt(f, g, j)
  BY <1>1 DEF SameAt
<1> QED
  BY <1>1, <1>2, <1>3

(* A counted record is a record. *)
LEMMA CountedIs ==
  ASSUME ShapeOK, NEW c, Present(c), NEW n \in {1, -1}, index[c].rc + n >= 0
  PROVE  IsRecord(Counted(c, n))
<1>1. IsRecord(index[c])
  BY DEF ShapeOK, TableOK, Present
<1>2. PICK r : r = index[c]
  OBVIOUS
<1>3. r = [rc |-> r.rc, hold |-> r.hold, ext |-> r.ext, ver |-> r.ver] /\ r.rc \in Nat /\ r.ver \in Nat
  BY <1>1, <1>2 DEF IsRecord
<1>4. Counted(c, n) = [rc |-> r.rc + n, hold |-> r.hold, ext |-> r.ext, ver |-> r.ver + 1]
  <2>1. PICK a, h, e, v : a = r.rc /\ h = r.hold /\ e = r.ext /\ v = r.ver
    OBVIOUS
  <2>2. r = [rc |-> a, hold |-> h, ext |-> e, ver |-> v]
    BY <1>3, <2>1
  <2>3. DOMAIN r = {"rc", "hold", "ext", "ver"}
    BY <2>2
  <2>4. PICK s : s = Counted(c, n)
    OBVIOUS
  <2>5. s = [x \in DOMAIN r |-> IF x = "ver" THEN r.ver + 1 ELSE IF x = "rc" THEN r.rc + n ELSE r[x]]
    BY <1>2, <2>3, <2>4 DEF Counted
  <2>6. /\ DOMAIN s = {"rc", "hold", "ext", "ver"}
        /\ s.rc = a + n /\ s.hold = h /\ s.ext = e /\ s.ver = v + 1
    BY <2>1, <2>3, <2>5
  <2>7. s = [x \in {"rc", "hold", "ext", "ver"} |-> s[x]]
    BY <2>3, <2>5
  <2>8. s = [rc |-> a + n, hold |-> h, ext |-> e, ver |-> v + 1]
    BY <2>6, <2>7
  <2> QED
    BY <2>1, <2>4, <2>8
<1>5. r.rc + n \in Nat /\ r.ver + 1 \in Nat
  BY <1>2, <1>3
<1> QED
  BY <1>4, <1>5 DEF IsRecord

(* A reference counted in the index. *)
LEMMA CountIn ==
  ASSUME ShapeOK, NEW c, Present(c), NEW n \in {1, -1}, index[c].rc + n >= 0,
         index' = [index EXCEPT ![c] = Counted(c, n)]
  PROVE  /\ c \in DOMAIN index' /\ index'[c] = Counted(c, n) /\ IsRecord(index'[c])
         /\ \A j : j # c => SameAt(index, index', j)
         /\ TableOK(index')
<1>1. PICK v : v = Counted(c, n)
  OBVIOUS
<1>2. IsRecord(v)
  BY <1>1, CountedIs
<1>3. PICK f, g : f = index /\ g = index'
  OBVIOUS
<1>4. TableOK(f) /\ c \in DOMAIN f
  BY <1>3 DEF ShapeOK, Present
<1>5. g = [f EXCEPT ![c] = v]
  BY <1>1, <1>3
<1>6. /\ c \in DOMAIN g /\ g[c] = v
      /\ \A j : j # c => SameAt(f, g, j)
      /\ TableOK(f) /\ IsRecord(v) => TableOK(g)
  BY <1>4, <1>5, SetIs
<1> QED
  BY <1>1, <1>2, <1>3, <1>4, <1>6

(* The call of one thread moves on. *)
LEMMA OneCall ==
  ASSUME ShapeOK, NEW t \in Threads, NEW o, Step(t, o)
  PROVE  op'[t] = o /\ DOMAIN op' = Threads /\ \A u \in Threads \ {t} : op'[u] = op[u]
BY DEF ShapeOK, Step

(* A thread inside a call shares the read side: no exclusive call runs. *)
LEMMA InsideIsShared ==
  ASSUME ShapeOK, NEW t \in Threads, op[t].pc # "idle"
  PROVE  excl = Free /\ excl.keys = {}
BY DEF ShapeOK, Idle, Free

(* The shape after a step of one thread. *)
LEMMA ShapeStep ==
  ASSUME ShapeOK, NEW t \in Threads, NEW o, Step(t, o), CallOK(o), excl = Free, excl' = excl,
         TableOK(index'), TableOK(rows'), TableOK(prows'),
         refs' \in [Chunks -> Nat], held' = held
  PROVE  ShapeOK'
<1>1. op'[t] = o /\ DOMAIN op' = Threads /\ \A u \in Threads \ {t} : op'[u] = op[u]
  BY OneCall
<1>2. \A u \in Threads : CallOK(op'[u])
  BY <1>1 DEF ShapeOK
<1> QED
  BY <1>1, <1>2 DEF ShapeOK

(* A chunk that the step of thread t is not about. *)
LEMMA OtherChunk ==
  ASSUME ShapeOK, NEW k \in Chunks, Kept(k), NEW t \in Threads, NEW o, Step(t, o),
         ~Touches(t, k), o.pc \in {"reread", "put", "sync"} => o.key # k,
         SameAt(index, index', k), SameAt(rows, rows', k),
         refs'[k] = refs[k] \/ stale, held' = held, excl' = excl, stale => stale'
  PROVE  Kept(k)'
<1>1. op'[t] = o /\ \A u \in Threads \ {t} : op'[u] = op[u]
  BY OneCall
<1>2. \A u \in Threads : /\ Touches(u, k)' <=> Touches(u, k)
                         /\ Touches(u, k) => op'[u] = op[u]
  BY <1>1 DEF Touches
<1>3. (Present(k)' <=> Present(k)) /\ (Present(k) => index'[k] = index[k])
  BY DEF SameAt, Present
<1> QED
  BY <1>2, <1>3, ElsewhereKeeps DEF SameAt

(* What a step of thread t leaves alone. *)
LEMMA OthersAre ==
  ASSUME ShapeOK, NEW t \in Threads, NEW o, Step(t, o), NEW c
  PROVE  Others(t, c)
BY OneCall DEF Others, Touches
(* The invariant, chunk by chunk. *)
LEMMA ProtectIs == ProtectInv <=> ShapeOK /\ \A c \in Chunks : Kept(c)
BY DEF ProtectInv, Kept

(* A chunk and a fragment have different keys. *)
LEMMA KeysAre == /\ Chunks \subseteq Keys /\ Fragments \subseteq Keys
                 /\ \A k \in Keys : k \in Chunks \/ k \in Fragments
                 /\ \A c \in Chunks, f \in Fragments : c # f
BY ChunkStoreAssumption DEF Keys

-----------------------------------------------------------------------------
(* The calls. *)

(* Bump. *)
LEMMA BumpStep ==
  ASSUME ProtectInv, NEW t \in Threads, NEW c \in Chunks, Bump(t, c)
  PROVE  ProtectInv'
<1> DEFINE o == [pc |-> "put", key |-> c, rec |-> index'[c], gain |-> 1, sync |-> FALSE]
<1>1. ShapeOK /\ \A k \in Chunks : Kept(k)
  BY ProtectIs
<1>2. /\ Step(t, o) /\ index' = [index EXCEPT ![c] = Counted(c, 1)] /\ Present(c) /\ op[t] = Idle /\ excl = Free
      /\ UNCHANGED <<rows, prows, excl, refs, held, stale>>
  BY DEF Bump, Begin
<1>3. index[c].rc \in Nat
  BY <1>1, <1>2, NumbersAre
<1>4. index[c].rc + 1 >= 0
  BY <1>3
<1>5. /\ c \in DOMAIN index' /\ index'[c] = Counted(c, 1) /\ \A j : j # c => SameAt(index, index', j)
      /\ TableOK(index') /\ IsRecord(index'[c])
  BY <1>1, <1>2, <1>4, CountIn
<1>6. CallOK(o)
  BY <1>5, KeysAre DEF CallOK
<1>7. ShapeOK'
  BY <1>1, <1>2, <1>5, <1>6, ShapeStep DEF ShapeOK
<1>8. op'[t] = o /\ \A k : Others(t, k) /\ ~Touches(t, k)
  BY <1>1, <1>2, OneCall, OthersAre DEF Touches, Idle
<1>9. Kept(c)'
  <2>1. /\ Touches(t, c)' /\ Putting(t, c)' /\ op'[t].rec = index'[c] /\ op'[t].gain = 1 /\ op'[t].pc = "put"
        /\ Present(c)'
    BY <1>5, <1>8 DEF Touches, Putting, Present
  <2> QED
    BY <1>1, <1>2, <1>5, <1>8, <2>1, BumpKeeps
<1>10. ASSUME NEW k \in Chunks, k # c PROVE Kept(k)'
  <2>1. SameAt(index, index', k) /\ SameAt(rows, rows', k) /\ o.key # k
    BY <1>2, <1>5, <1>10 DEF SameAt
  <2> QED
    BY <1>1, <1>2, <1>8, <2>1, OtherChunk
<1> QED
  BY <1>7, <1>9, <1>10 DEF ProtectInv, Kept

(* Register. *)
LEMMA RegisterStep ==
  ASSUME ProtectInv, NEW t \in Threads, NEW c \in Chunks, Register(t, c)
  PROVE  ProtectInv'
<1> DEFINE o == [pc |-> "reread", key |-> c]
<1>1. ShapeOK /\ \A k \in Chunks : Kept(k)
  BY ProtectIs
<1>2. /\ Step(t, o) /\ index' = Bind(index, c, Fresh({}, 0)) /\ ~Present(c) /\ op[t] = Idle /\ excl = Free
      /\ UNCHANGED <<rows, prows, excl, refs, held, stale>>
  BY DEF Register, Begin
<1>3. IsRecord(Fresh({}, 0))
  BY DEF Fresh, IsRecord
<1>4. /\ c \in DOMAIN index' /\ index'[c] = Fresh({}, 0) /\ \A j : j # c => SameAt(index, index', j)
      /\ TableOK(index')
  BY <1>1, <1>2, <1>3, BindIs, KeysAre DEF ShapeOK
<1>5. CallOK(o)
  BY DEF CallOK
<1>6. ShapeOK'
  BY <1>1, <1>2, <1>4, <1>5, ShapeStep DEF ShapeOK
<1>7. op'[t] = o /\ \A k : Others(t, k) /\ ~Touches(t, k)
  BY <1>1, <1>2, OneCall, OthersAre DEF Touches, Idle
<1>8. Kept(c)'
  <2>1. Touches(t, c)' /\ op'[t].pc = "reread" /\ Present(c)' /\ excl.keys = {}
    BY <1>2, <1>4, <1>7 DEF Touches, Present, Free
  <2> QED
    BY <1>1, <1>2, <1>4, <1>7, <2>1, NewKeeps
<1>9. ASSUME NEW k \in Chunks, k # c PROVE Kept(k)'
  <2>1. SameAt(index, index', k) /\ SameAt(rows, rows', k) /\ o.key # k
    BY <1>2, <1>4, <1>9 DEF SameAt
  <2> QED
    BY <1>1, <1>2, <1>7, <2>1, OtherChunk
<1> QED
  BY <1>6, <1>8, <1>9 DEF ProtectInv, Kept

(* Reread. *)
LEMMA RereadStep ==
  ASSUME ProtectInv, NEW t \in Threads, Reread(t)
  PROVE  ProtectInv'
<1>1. ShapeOK /\ \A k \in Chunks : Kept(k)
  BY ProtectIs
<1>2. PICK c : c = op[t].key
  OBVIOUS
<1> DEFINE o == [pc |-> "put", key |-> c, rec |-> index[c], gain |-> 1, sync |-> FALSE]
<1>3. op[t].pc = "reread" /\ Step(t, o) /\ UNCHANGED <<index, rows, prows, excl, refs, held, stale>>
  BY <1>2 DEF Reread
<1>4. c \in Chunks
  BY <1>1, <1>2, <1>3 DEF ShapeOK, CallOK
<1>5. Touches(t, c) /\ Present(c)
  BY <1>1, <1>2, <1>3, <1>4 DEF Touches, Kept, Tidy
<1>6. IsRecord(index[c]) /\ excl = Free
  BY <1>1, <1>3, <1>4, <1>5, NumbersAre, InsideIsShared
<1>7. CallOK(o)
  BY <1>4, <1>6, KeysAre DEF CallOK
<1>8. ShapeOK'
  BY <1>1, <1>3, <1>6, <1>7, ShapeStep DEF ShapeOK
<1>9. op'[t] = o /\ \A k : Others(t, k)
  BY <1>1, <1>3, OneCall, OthersAre
<1>10. Kept(c)'
  <2>1. Touches(t, c)' /\ op'[t].pc = "put" /\ op'[t].rec = index[c] /\ op'[t].gain = 1
    BY <1>9 DEF Touches
  <2> QED
    BY <1>1, <1>3, <1>4, <1>5, <1>9, <2>1, RereadKeeps
<1>11. ASSUME NEW k \in Chunks, k # c PROVE Kept(k)'
  <2>1. SameAt(index, index', k) /\ SameAt(rows, rows', k) /\ o.key # k /\ ~Touches(t, k)
    BY <1>2, <1>3, <1>11 DEF SameAt, Touches
  <2> QED
    BY <1>1, <1>3, <2>1, OtherChunk
<1> QED
  BY <1>8, <1>10, <1>11 DEF ProtectInv, Kept

(* Decrement; at zero only the caller's reference goes, which never happens    *)
(* while the records are in order.                                            *)
LEMMA DecrementStep ==
  ASSUME ProtectInv, NEW t \in Threads, NEW c \in Chunks, Decrement(t, c)
  PROVE  ProtectInv'
<1>1. ShapeOK /\ \A k \in Chunks : Kept(k)
  BY ProtectIs
<1>2. /\ Present(c) /\ op[t] = Idle /\ excl = Free /\ refs[c] > 0 /\ refs' = [refs EXCEPT ![c] = @ - 1]
      /\ UNCHANGED <<rows, prows, excl, held, stale>>
  BY DEF Decrement, Begin
<1>3. index[c].rc \in Nat /\ refs[c] \in Nat
  BY <1>1, <1>2, NumbersAre
<1>4. /\ refs' \in [Chunks -> Nat] /\ refs'[c] = refs[c] - 1
      /\ \A k \in Chunks : k # c => refs'[k] = refs[k]
  BY <1>1, <1>2, <1>3 DEF ShapeOK
<1>5. CASE index[c].rc = 0
  <2>1. UNCHANGED <<index, op>>
    BY <1>5 DEF Decrement
  <2>2. ShapeOK'
    BY <1>1, <1>2, <1>4, <2>1 DEF ShapeOK
  <2>3. stale
    <3>1. SUFFICES ASSUME Covered(c) PROVE FALSE
      BY <1>1 DEF Kept
    <3>2. index[c].rc >= refs[c] + Cardinality(Gainers(c)) /\ Cardinality(Gainers(c)) \in Nat
      BY <1>2, <3>1, Counts, GainersAre DEF Covered
    <3> QED
      BY <1>2, <1>3, <1>5, <3>2
  <2>4. ASSUME NEW k \in Chunks PROVE Kept(k)'
    <3>1. \A u \in Threads : /\ Touches(u, k)' <=> Touches(u, k)
                             /\ Touches(u, k) => op'[u] = op[u]
      BY <2>1 DEF Touches
    <3>2. (Present(k)' <=> Present(k)) /\ (Present(k) => index'[k] = index[k])
      BY <2>1 DEF Present
    <3> QED
      BY <1>1, <1>2, <2>3, <3>1, <3>2, ElsewhereKeeps
  <2> QED
    BY <2>2, <2>4 DEF ProtectInv, Kept
<1>6. CASE index[c].rc # 0
  <2> DEFINE o == [pc |-> "put", key |-> c, rec |-> index'[c], gain |-> 0, sync |-> FALSE]
  <2>1. Step(t, o) /\ index' = [index EXCEPT ![c] = Counted(c, -1)]
    BY <1>6 DEF Decrement
  <2>2. index[c].rc + (-1) >= 0
    BY <1>3, <1>6
  <2>3. /\ c \in DOMAIN index' /\ index'[c] = Counted(c, -1) /\ \A j : j # c => SameAt(index, index', j)
        /\ TableOK(index') /\ IsRecord(index'[c])
    BY <1>1, <1>2, <2>1, <2>2, CountIn
  <2>4. CallOK(o)
    BY <2>3, KeysAre DEF CallOK
  <2>5. ShapeOK'
    BY <1>1, <1>2, <1>4, <2>1, <2>3, <2>4, ShapeStep DEF ShapeOK
  <2>6. op'[t] = o /\ \A k : Others(t, k) /\ ~Touches(t, k)
    BY <1>1, <1>2, <2>1, OneCall, OthersAre DEF Touches, Idle
  <2>7. Kept(c)'
    <3>1. /\ Touches(t, c)' /\ Putting(t, c)' /\ op'[t].rec = index'[c] /\ op'[t].gain = 0 /\ op'[t].pc = "put"
          /\ Present(c)' /\ index[c].rc > 0
      BY <1>3, <1>6, <2>3, <2>6 DEF Touches, Putting, Present
    <3> QED
      BY <1>1, <1>2, <1>4, <2>3, <2>6, <3>1, DropKeeps
  <2>8. ASSUME NEW k \in Chunks, k # c PROVE Kept(k)'
    <3>1. SameAt(index, index', k) /\ SameAt(rows, rows', k) /\ o.key # k /\ refs'[k] = refs[k]
      BY <1>2, <1>4, <2>3, <2>8 DEF SameAt
    <3> QED
      BY <1>1, <1>2, <2>1, <2>6, <3>1, OtherChunk
  <2> QED
    BY <2>5, <2>7, <2>8 DEF ProtectInv, Kept
<1> QED
  BY <1>5, <1>6

(* A step of a thread that is not between a change of a chunk and its answer. *)
LEMMA PlainStep ==
  ASSUME ProtectInv, NEW t \in Threads, NEW o, Step(t, o), CallOK(o), excl = Free, excl' = excl,
         op[t].pc \in {"reread", "put", "sync"} => op[t].key \notin Chunks,
         o.pc \in {"reread", "put", "sync"} => o.key \notin Chunks,
         TableOK(index'), TableOK(rows'), TableOK(prows'),
         \A k \in Chunks : SameAt(index, index', k) /\ SameAt(rows, rows', k),
         refs' = refs, held' = held, stale => stale'
  PROVE  ProtectInv'
<1>1. ShapeOK /\ \A k \in Chunks : Kept(k)
  BY ProtectIs
<1>2. refs' \in [Chunks -> Nat]
  BY <1>1 DEF ShapeOK
<1>3. ShapeOK'
  BY <1>1, <1>2, ShapeStep
<1>4. ASSUME NEW k \in Chunks PROVE Kept(k)'
  <2>1. ~Touches(t, k) /\ (o.pc \in {"reread", "put", "sync"} => o.key # k)
    BY <1>4 DEF Touches
  <2>2. refs'[k] = refs[k]
    OBVIOUS
  <2> QED
    BY <1>1, <2>1, <2>2, OtherChunk
<1> QED
  BY <1>3, <1>4 DEF ProtectInv, Kept

(* Tables that a step leaves alone. *)
LEMMA SameTables ==
  ASSUME ShapeOK
  PROVE  /\ index' = index => TableOK(index') /\ \A k : SameAt(index, index', k)
         /\ rows' = rows => TableOK(rows') /\ \A k : SameAt(rows, rows', k)
         /\ prows' = prows => TableOK(prows')
BY DEF ShapeOK, SameAt

(* StartWrite. *)
LEMMA StartWriteStep ==
  ASSUME ProtectInv, NEW t \in Threads, NEW k \in Keys, StartWrite(t, k)
  PROVE  ProtectInv'
<1>1. PICK o : o = [pc |-> "alloc", key |-> k, ext |-> {}, todo |-> Size[k]]
  OBVIOUS
<1>2. /\ Step(t, o) /\ op[t] = Idle /\ excl = Free
      /\ UNCHANGED <<index, rows, prows, excl, refs, held, stale>>
  BY <1>1 DEF StartWrite, Begin
<1>3. CallOK(o) /\ o.pc = "alloc" /\ op[t].pc = "idle"
  BY <1>1, <1>2 DEF CallOK, Idle
<1>4. ShapeOK
  BY DEF ProtectInv
<1> QED
  BY <1>2, <1>3, <1>4, SameTables, PlainStep

(* WriteExtent. *)
LEMMA WriteExtentStep ==
  ASSUME ProtectInv, NEW t \in Threads, WriteExtent(t)
  PROVE  ProtectInv'
<1>1. PICK r : r = alloc(dev, NextTake(op[t]))
  OBVIOUS
<1>2. PICK e, n : e = r.extent /\ n = r.extent.length
  OBVIOUS
<1>3. PICK o : o = [op[t] EXCEPT !.ext = @ \cup {e}, !.todo = @ - n]
  OBVIOUS
<1>4. /\ Step(t, o) /\ op[t].pc = "alloc"
      /\ UNCHANGED <<index, rows, prows, excl, refs, held, stale>>
  BY <1>1, <1>2, <1>3 DEF WriteExtent
<1>5. ShapeOK
  BY DEF ProtectInv
<1>6. excl = Free
  BY <1>4, <1>5, InsideIsShared
<1>7. CallOK(o) /\ o.pc = "alloc"
  <2>1. PICK q : q = op[t]
    OBVIOUS
  <2>2. q = [pc |-> "alloc", key |-> q.key, ext |-> q.ext, todo |-> q.todo] /\ q.key \in Keys
    BY <1>4, <1>5, <2>1 DEF ShapeOK, CallOK
  <2>3. PICK a, b, d : a = q.key /\ b = q.ext /\ d = q.todo
    OBVIOUS
  <2>4. q = [pc |-> "alloc", key |-> a, ext |-> b, todo |-> d] /\ a \in Keys
    BY <2>2, <2>3
  <2>5. DOMAIN q = {"pc", "key", "ext", "todo"}
    BY <2>4
  <2>6. o = [x \in DOMAIN q |-> IF x = "todo" THEN d - n ELSE IF x = "ext" THEN b \cup {e} ELSE q[x]]
    BY <1>3, <2>1, <2>3, <2>5
  <2>7. /\ DOMAIN o = {"pc", "key", "ext", "todo"}
        /\ o.pc = "alloc" /\ o.key = a /\ o.ext = b \cup {e} /\ o.todo = d - n
    BY <2>4, <2>5, <2>6
  <2>8. o = [x \in {"pc", "key", "ext", "todo"} |-> o[x]]
    BY <2>5, <2>6
  <2>9. o = [pc |-> "alloc", key |-> a, ext |-> b \cup {e}, todo |-> d - n]
    BY <2>7, <2>8
  <2> QED
    BY <2>4, <2>9 DEF CallOK
<1> QED
  BY <1>4, <1>5, <1>6, <1>7, SameTables, PlainStep

(* A call that gives up, or goes on giving up. *)
LEMMA UndoIs ==
  ASSUME NEW t \in Threads, NEW E, Undo(t, E)
  PROVE  \E o : Step(t, o) /\ CallOK(o) /\ o.pc \in {"idle", "undo"}
<1>1. PICK o : o = IF E = {} THEN Idle ELSE [pc |-> "undo", key |-> op[t].key, ext |-> E]
  OBVIOUS
<1>2. Step(t, o)
  BY <1>1 DEF Undo
<1>3. o = Idle \/ o.pc = "undo"
  BY <1>1
<1>4. CallOK(o) /\ o.pc \in {"idle", "undo"}
  BY <1>3 DEF CallOK, Idle
<1> QED
  BY <1>2, <1>4

(* WriteRefused, WriteFails and FreeExtent: the call has no effect on the index. *)
LEMMA WriteEndsStep ==
  ASSUME ProtectInv, NEW t \in Threads, WriteRefused(t) \/ WriteFails(t) \/ FreeExtent(t)
  PROVE  ProtectInv'
<1>1. /\ Step(t, Idle) \/ (\E E : Undo(t, E))
      /\ op[t].pc \in {"alloc", "undo"}
      /\ UNCHANGED <<index, rows, prows, excl, refs, held, stale>>
  BY DEF WriteRefused, WriteFails, FreeExtent
<1>2. ShapeOK
  BY DEF ProtectInv
<1>3. excl = Free
  BY <1>1, <1>2, InsideIsShared
<1>4. CallOK(Idle) /\ Idle.pc = "idle"
  BY DEF CallOK, Idle
<1>5. PICK o : Step(t, o) /\ CallOK(o) /\ o.pc \in {"idle", "undo"}
  BY <1>1, <1>4, UndoIs
<1> QED
  BY <1>1, <1>2, <1>3, <1>5, SameTables, PlainStep

(* The call of a fragment, before and after its old extent is free. *)
LEMMA SwappedIs ==
  ASSUME NEW k \in Fragments, NEW r, IsRecord(r), NEW old
  PROVE  /\ CallOK(Swapped(k, r, old)) /\ Swapped(k, r, old).key = k
         /\ Swapped(k, r, old).pc \in {"swap", "put"} /\ Swapped(k, r, old).rec = r
<1>1. PICK o : o = Swapped(k, r, old)
  OBVIOUS
<1>2. CASE old = {}
  <2>1. o = [pc |-> "put", key |-> k, rec |-> r, gain |-> 0, sync |-> FALSE]
    BY <1>1, <1>2 DEF Swapped
  <2> QED BY <1>1, <2>1, KeysAre DEF CallOK
<1>3. CASE old # {}
  <2>1. o = [pc |-> "swap", key |-> k, rec |-> r, old |-> old]
    BY <1>1, <1>3 DEF Swapped
  <2> QED BY <1>1, <2>1, KeysAre DEF CallOK
<1> QED BY <1>2, <1>3

(* SwapFragment. *)
LEMMA SwapFragmentStep ==
  ASSUME ProtectInv, NEW t \in Threads, SwapFragment(t)
  PROVE  ProtectInv'
<1>1. PICK k : k = op[t].key
  OBVIOUS
<1>2. PICK v : v = IF Present(k) THEN index[k].ver + 1 ELSE 0
  OBVIOUS
<1>3. PICK r : r = Fresh(op[t].ext, v)
  OBVIOUS
<1>4. PICK g : g = index'
  OBVIOUS
<1>5. PICK o : o = Swapped(k, g[k], IF Present(k) THEN index[k].ext ELSE {})
  OBVIOUS
<1>6. /\ Step(t, o) /\ op[t].pc = "alloc" /\ k \in Fragments /\ g = Bind(index, k, r)
      /\ UNCHANGED <<rows, prows, excl, refs, held, stale>>
  BY <1>1, <1>2, <1>3, <1>4, <1>5 DEF SwapFragment
<1>7. ShapeOK
  BY DEF ProtectInv
<1>8. excl = Free
  BY <1>6, <1>7, InsideIsShared
<1>9. IsRecord(r)
  <2>1. v \in Nat
    BY <1>2, <1>7 DEF ShapeOK, TableOK, Present, IsRecord
  <2> QED
    BY <1>3, <2>1 DEF Fresh, IsRecord
<1>10. TableOK(index) /\ k \in Keys
  BY <1>6, <1>7, KeysAre DEF ShapeOK
<1>11. TableOK(g) /\ g[k] = r /\ \A j : j # k => SameAt(index, g, j)
  BY <1>6, <1>9, <1>10, BindIs
<1>12. CallOK(o) /\ o.key \notin Chunks
  BY <1>5, <1>6, <1>9, <1>11, SwappedIs, KeysAre
<1>13. TableOK(index') /\ \A c \in Chunks : SameAt(index, index', c)
  BY <1>4, <1>6, <1>11, KeysAre
<1> QED
  BY <1>6, <1>7, <1>8, <1>12, <1>13, SameTables, PlainStep

(* FreeOld. *)
LEMMA FreeOldStep ==
  ASSUME ProtectInv, NEW t \in Threads, FreeOld(t)
  PROVE  ProtectInv'
<1>1. PICK k, r : k = op[t].key /\ r = op[t].rec
  OBVIOUS
<1>2. PICK o, E : /\ o = Swapped(k, r, E) /\ Step(t, o) /\ op[t].pc = "swap"
                  /\ UNCHANGED <<index, rows, prows, excl, refs, held, stale>>
  BY <1>1 DEF FreeOld
<1>3. /\ Step(t, o) /\ op[t].pc = "swap"
      /\ UNCHANGED <<index, rows, prows, excl, refs, held, stale>>
  BY <1>2
<1>4. ShapeOK
  BY DEF ProtectInv
<1>5. excl = Free
  BY <1>3, <1>4, InsideIsShared
<1>6. k \in Fragments /\ IsRecord(r)
  BY <1>1, <1>3, <1>4 DEF ShapeOK, CallOK
<1>7. CallOK(o) /\ o.key \notin Chunks
  BY <1>2, <1>6, SwappedIs, KeysAre
<1> QED
  BY <1>3, <1>4, <1>5, <1>7, SameTables, PlainStep

(* Recheck: another writer may have won. *)
LEMMA RecheckStep ==
  ASSUME ProtectInv, NEW t \in Threads, Recheck(t), syncPerWrite \in BOOLEAN
  PROVE  ProtectInv'
<1>1. PICK c, e : c = op[t].key /\ e = op[t].ext
  OBVIOUS
<1>2. PICK s \in BOOLEAN : s = (syncPerWrite /\ ~Present(c))
  <2>1. (syncPerWrite /\ ~Present(c)) \in BOOLEAN
    OBVIOUS
  <2> QED
    BY <2>1, Zenon
<1>3. PICK g : g = index'
  OBVIOUS
<1>4. PICK o : o = [pc |-> "put", key |-> c, rec |-> g[c], gain |-> 1, sync |-> s]
  OBVIOUS
<1>5. /\ Step(t, o) /\ op[t].pc = "alloc" /\ c \in Chunks
      /\ UNCHANGED <<rows, prows, excl, refs, held, stale>>
  BY <1>1, <1>2, <1>3, <1>4 DEF Recheck
<1>6. ShapeOK /\ \A k \in Chunks : Kept(k)
  BY ProtectIs
<1>7. excl = Free /\ excl.keys = {}
  BY <1>5, <1>6, InsideIsShared
<1>8. /\ c \in DOMAIN index' /\ IsRecord(index'[c]) /\ TableOK(index')
      /\ \A j : j # c => SameAt(index, index', j)
      /\ IF Present(c) THEN index'[c] = Counted(c, 1) ELSE index'[c] = Fresh(e, 0)
  <2>1. CASE Present(c)
    <3>1. index' = [index EXCEPT ![c] = Counted(c, 1)]
      BY <1>1, <2>1 DEF Recheck
    <3>2. index[c].rc + 1 >= 0
      <4>1. index[c].rc \in Nat
        BY <1>5, <1>6, <2>1, NumbersAre
      <4> QED
        BY <4>1
    <3> QED
      BY <1>6, <2>1, <3>1, <3>2, CountIn
  <2>2. CASE ~Present(c)
    <3>1. PICK r : r = Fresh(e, 0)
      OBVIOUS
    <3>2. g = Bind(index, c, r)
      BY <1>1, <1>3, <2>2, <3>1 DEF Recheck
    <3>3. IsRecord(r)
      BY <3>1 DEF Fresh, IsRecord
    <3>4. TableOK(index) /\ c \in Keys
      BY <1>5, <1>6, KeysAre DEF ShapeOK
    <3>5. c \in DOMAIN g /\ TableOK(g) /\ g[c] = r /\ \A j : j # c => SameAt(index, g, j)
      BY <3>2, <3>3, <3>4, BindIs
    <3> QED
      BY <1>3, <2>2, <3>1, <3>3, <3>5
  <2> QED
    BY <2>1, <2>2
<1>9. CallOK(o)
  BY <1>2, <1>3, <1>4, <1>5, <1>8, KeysAre DEF CallOK
<1>10. ShapeOK'
  <2>1. refs' \in [Chunks -> Nat]
    BY <1>5, <1>6 DEF ShapeOK
  <2> QED
    BY <1>5, <1>6, <1>7, <1>8, <1>9, <2>1, ShapeStep, SameTables
<1>11. op'[t] = o /\ \A k : Others(t, k) /\ ~Touches(t, k)
  BY <1>5, <1>6, OneCall, OthersAre DEF Touches
<1>12. Kept(c)'
  <2>1. /\ Touches(t, c)' /\ Putting(t, c)' /\ op'[t].rec = index'[c] /\ op'[t].gain = 1 /\ op'[t].pc = "put"
        /\ Present(c)'
    BY <1>3, <1>4, <1>8, <1>11 DEF Touches, Putting, Present
  <2>2. CASE Present(c)
    BY <1>5, <1>6, <1>8, <1>11, <2>1, <2>2, BumpKeeps
  <2>3. CASE ~Present(c)
    BY <1>5, <1>6, <1>7, <1>8, <1>11, <2>1, <2>3, NewKeeps
  <2> QED
    BY <2>2, <2>3
<1>13. ASSUME NEW k \in Chunks, k # c PROVE Kept(k)'
  <2>1. SameAt(index, index', k) /\ SameAt(rows, rows', k) /\ o.key # k
    BY <1>4, <1>5, <1>8, <1>13 DEF SameAt
  <2> QED
    BY <1>5, <1>6, <1>11, <2>1, OtherChunk
<1> QED
  BY <1>10, <1>12, <1>13 DEF ProtectInv, Kept

(* PutFails: the caller gets an error and no reference. *)
LEMMA PutFailsStep ==
  ASSUME ProtectInv, NEW t \in Threads, PutFails(t)
  PROVE  ProtectInv'
<1>1. /\ Step(t, Idle) /\ op[t].pc = "put"
      /\ UNCHANGED <<index, rows, prows, excl, refs, held, stale>>
  BY DEF PutFails
<1>2. ShapeOK /\ \A k \in Chunks : Kept(k)
  BY ProtectIs
<1>3. excl = Free
  BY <1>1, <1>2, InsideIsShared
<1>4. CallOK(Idle) /\ Idle.pc = "idle"
  BY DEF CallOK, Idle
<1>5. ShapeOK'
  <2>1. refs' \in [Chunks -> Nat]
    BY <1>1, <1>2 DEF ShapeOK
  <2> QED
    BY <1>1, <1>2, <1>3, <1>4, <2>1, ShapeStep, SameTables
<1>6. op'[t] = Idle /\ \A k : Others(t, k) /\ ~Touches(t, k)'
  BY <1>1, <1>2, <1>4, OneCall, OthersAre DEF Touches
<1>7. ASSUME NEW k \in Chunks PROVE Kept(k)'
  <2>1. CASE Touches(t, k)
    <3>1. refs'[k] = refs[k]
      BY <1>1
    <3> QED
      BY <1>1, <1>2, <1>6, <2>1, <3>1, LeaveKeeps
  <2>2. CASE ~Touches(t, k)
    <3>1. refs'[k] = refs[k] /\ SameAt(index, index', k) /\ SameAt(rows, rows', k)
      BY <1>1 DEF SameAt
    <3> QED
      BY <1>1, <1>2, <1>4, <2>2, <3>1, OtherChunk
  <2> QED
    BY <2>1, <2>2
<1> QED
  BY <1>5, <1>7 DEF ProtectInv, Kept

(* SyncWrite: the writer owns its reference. *)
LEMMA SyncWriteStep ==
  ASSUME ProtectInv, NEW t \in Threads, SyncWrite(t)
  PROVE  ProtectInv'
<1>1. PICK c : c = op[t].key
  OBVIOUS
<1>2. ShapeOK /\ \A k \in Chunks : Kept(k)
  BY ProtectIs
<1>3. /\ Step(t, Idle) /\ op[t].pc = "sync" /\ c \in Chunks /\ op[t].gain = 1
      /\ refs' = [refs EXCEPT ![c] = @ + 1]
      /\ UNCHANGED <<index, rows, prows, excl, held, stale>>
  BY <1>1, <1>2 DEF SyncWrite, Return, ShapeOK, CallOK
<1>4. excl = Free
  BY <1>2, <1>3, InsideIsShared
<1>5. CallOK(Idle) /\ Idle.pc = "idle"
  BY DEF CallOK, Idle
<1>6. refs' \in [Chunks -> Nat] /\ refs'[c] = refs[c] + 1 /\ \A k \in Chunks : k # c => refs'[k] = refs[k]
  BY <1>2, <1>3 DEF ShapeOK
<1>7. ShapeOK'
  BY <1>2, <1>3, <1>4, <1>5, <1>6, ShapeStep, SameTables
<1>8. op'[t] = Idle /\ \A k : Others(t, k) /\ ~Touches(t, k)'
  BY <1>2, <1>3, <1>5, OneCall, OthersAre DEF Touches
<1>9. Kept(c)'
  <2>1. Touches(t, c)
    BY <1>1, <1>3 DEF Touches
  <2> QED
    BY <1>2, <1>3, <1>6, <1>8, <2>1, LeaveKeeps
<1>10. ASSUME NEW k \in Chunks, k # c PROVE Kept(k)'
  <2>1. refs'[k] = refs[k] /\ SameAt(index, index', k) /\ SameAt(rows, rows', k) /\ ~Touches(t, k)
    BY <1>1, <1>3, <1>6, <1>10 DEF SameAt, Touches
  <2> QED
    BY <1>2, <1>3, <1>5, <2>1, OtherChunk
<1> QED
  BY <1>7, <1>9, <1>10 DEF ProtectInv, Kept

(* PutRecord: the call's record reaches the metadata store. *)
LEMMA PutRecordStep ==
  ASSUME ProtectInv, NEW t \in Threads, PutRecord(t)
  PROVE  ProtectInv'
<1>1. PICK c, r, n : c = op[t].key /\ r = op[t].rec /\ n = op[t].gain
  OBVIOUS
<1>2. ShapeOK /\ \A k \in Chunks : Kept(k)
  BY ProtectIs
<1>3. /\ op[t].pc = "put" /\ c \in Keys /\ IsRecord(r) /\ n \in {0, 1} /\ op[t].sync \in BOOLEAN
      /\ c \in Fragments => n = 0
      /\ op[t].sync => n = 1
  BY <1>1, <1>2 DEF PutRecord, ShapeOK, CallOK
<1>4. PICK g : g = Bind(rows, c, r)
  OBVIOUS
<1>5. c \in DOMAIN g /\ TableOK(g) /\ g[c] = r /\ \A j : j # c => SameAt(rows, g, j)
  <2>1. TableOK(rows)
    BY <1>2 DEF ShapeOK
  <2> QED
    BY <1>3, <1>4, <2>1, BindIs
<1>6. rows' = g /\ TableOK(rows') /\ TableOK(prows')
  BY <1>1, <1>2, <1>4, <1>5 DEF PutRecord, Store, ShapeOK
<1>7. (stale' <=> stale \/ (c \in DOMAIN rows /\ rows[c].ver > r.ver)) /\ UNCHANGED <<index, excl, held>>
  BY <1>1 DEF PutRecord
<1>8. PICK o : /\ Step(t, o)
               /\ IF op[t].sync THEN o = [pc |-> "sync", key |-> c, gain |-> n] /\ refs' = refs
                  ELSE o = Idle /\ refs' = IF n = 0 THEN refs ELSE [refs EXCEPT ![c] = @ + 1]
  BY <1>1 DEF PutRecord, Return
<1>9. excl = Free
  BY <1>2, <1>3, InsideIsShared
<1>10. n # 0 => c \in Chunks
  BY <1>3, KeysAre
<1>11. CallOK(o) /\ o.pc \in {"sync", "idle"} /\ (o.pc = "sync" => o.key = c)
  BY <1>3, <1>8, <1>10 DEF CallOK, Idle
<1>12. /\ refs' \in [Chunks -> Nat]
       /\ \A k \in Chunks : k # c => refs'[k] = refs[k]
       /\ c \in Chunks => refs'[c] = IF op[t].sync THEN refs[c] ELSE refs[c] + n
  <2>1. refs \in [Chunks -> Nat]
    BY <1>2 DEF ShapeOK
  <2>2. refs' = refs \/ (n = 1 /\ ~op[t].sync /\ refs' = [refs EXCEPT ![c] = @ + 1])
    BY <1>3, <1>8
  <2>3. CASE refs' = refs
    <3>1. op[t].sync \/ n = 0 \/ refs = [refs EXCEPT ![c] = @ + 1]
      BY <1>8, <2>3
    <3>2. c \in Chunks /\ refs = [refs EXCEPT ![c] = @ + 1] => FALSE
      BY <2>1
    <3> QED
      BY <2>1, <2>3, <3>1, <3>2
  <2>4. CASE n = 1 /\ ~op[t].sync /\ refs' = [refs EXCEPT ![c] = @ + 1]
    BY <1>10, <2>1, <2>4
  <2> QED
    BY <2>2, <2>3, <2>4
<1>13. ShapeOK'
  BY <1>2, <1>6, <1>7, <1>8, <1>9, <1>11, <1>12, ShapeStep, SameTables
<1>14. op'[t] = o /\ \A k : Others(t, k)
  BY <1>2, <1>8, OneCall, OthersAre
<1>15. ASSUME c \in Chunks PROVE Kept(c)'
  <2>1. Putting(t, c) /\ Kept(c)
    BY <1>1, <1>2, <1>3, <1>15 DEF Putting
  <2>2. c \in DOMAIN rows' /\ rows'[c] = op[t].rec
    BY <1>1, <1>5, <1>6
  <2>3. stale' <=> stale \/ (c \in DOMAIN rows /\ rows[c].ver > op[t].rec.ver)
    BY <1>1, <1>7
  <2>4. \/ Touches(t, c)' /\ op'[t].pc = "sync" /\ op[t].gain = 1 /\ refs'[c] = refs[c]
        \/ ~Touches(t, c)' /\ refs'[c] = refs[c] + op[t].gain
    <3>1. CASE op[t].sync
      BY <1>1, <1>3, <1>8, <1>12, <1>14, <1>15, <3>1 DEF Touches
    <3>2. CASE ~op[t].sync
      <4>1. o = Idle /\ ~Touches(t, c)'
        BY <1>8, <1>14, <3>2 DEF Touches, Idle
      <4> QED
        BY <1>1, <1>12, <1>15, <3>2, <4>1
    <3> QED
      BY <3>1, <3>2
  <2> QED
    BY <1>2, <1>7, <1>14, <1>15, <2>1, <2>2, <2>3, <2>4, PutKeeps
<1>16. ASSUME NEW k \in Chunks, k # c PROVE Kept(k)'
  <2>1. refs'[k] = refs[k] /\ SameAt(index, index', k) /\ SameAt(rows, rows', k) /\ ~Touches(t, k)
    BY <1>1, <1>5, <1>6, <1>7, <1>12, <1>16 DEF SameAt, Touches
  <2>2. (o.pc \in {"reread", "put", "sync"} => o.key # k) /\ (stale => stale')
    BY <1>7, <1>11, <1>16
  <2> QED
    BY <1>2, <1>7, <1>8, <1>16, <2>1, <2>2, OtherChunk
<1> QED
  BY <1>13, <1>15, <1>16 DEF ProtectInv, Kept

-----------------------------------------------------------------------------
(* Steps of the background and of the write side of the bridge. *)

(* A step that neither moves a call nor changes what a chunk's index entry,    *)
(* row and references say.                                                    *)
LEMMA BackgroundKeeps ==
  ASSUME ProtectInv, UNCHANGED <<op, refs, stale>>, NEW k \in Chunks, k \in held' <=> k \in held,
         SameAt(index, index', k), SameAt(rows, rows', k), k \in excl'.keys <=> k \in excl.keys
  PROVE  Kept(k)'
<1>1. ShapeOK /\ Kept(k)
  BY ProtectIs
<1>2. \A u \in Threads : /\ Touches(u, k)' <=> Touches(u, k)
                         /\ Touches(u, k) => op'[u] = op[u]
  BY DEF Touches
<1>3. (Present(k)' <=> Present(k)) /\ (Present(k) => index'[k] = index[k])
  BY DEF SameAt, Present
<1> QED
  BY <1>1, <1>2, <1>3, ElsewhereKeeps DEF SameAt

(* FlushTask, PersistRows, GcSync and FreeDiscarded. *)
LEMMA FlushStep ==
  ASSUME ProtectInv, FlushTask \/ PersistRows \/ GcSync \/ FreeDiscarded
  PROVE  ProtectInv'
<1>1. ShapeOK
  BY DEF ProtectInv
<1>2. /\ UNCHANGED <<index, rows, op, refs, held, stale>>
      /\ prows' = prows \/ prows' = rows
      /\ \/ excl' = excl \/ (excl' = Free /\ excl.keys = {})
         \/ \E e \in excl.ext : excl' = [excl EXCEPT !.ext = @ \ {e}]
  BY DEF FlushTask, PersistRows, GcSync, FreeDiscarded
<1>3. ExclOK(excl') /\ excl'.keys = excl.keys /\ (excl' # Free => excl # Free)
  <2>1. PICK p, K, E : excl = [pc |-> p, keys |-> K, ext |-> E]
    BY <1>1 DEF ShapeOK, ExclOK
  <2>2. CASE excl' = excl \/ (excl' = Free /\ excl.keys = {})
    BY <1>1, <2>2 DEF ShapeOK, ExclOK, Free
  <2>3. CASE \E e \in excl.ext : excl' = [excl EXCEPT !.ext = @ \ {e}]
    <3>1. PICK F : excl' = [pc |-> p, keys |-> K, ext |-> F]
      BY <2>1, <2>3
    <3>2. excl.pc = p /\ excl.keys = K /\ excl.ext # {} /\ excl'.pc = p /\ excl'.keys = K /\ excl'.ext = F
      BY <2>1, <2>3, <3>1
    <3>3. excl # Free
      BY <3>2 DEF Free
    <3> QED BY <1>1, <3>1, <3>2, <3>3 DEF ShapeOK, ExclOK
  <2> QED BY <1>2, <2>2, <2>3
<1>4. ShapeOK'
  <2>1. TableOK(prows')
    BY <1>1, <1>2 DEF ShapeOK
  <2> QED
    BY <1>1, <1>2, <1>3, <2>1 DEF ShapeOK
<1>5. ASSUME NEW k \in Chunks PROVE Kept(k)'
  <2>1. SameAt(index, index', k) /\ SameAt(rows, rows', k)
    BY <1>1, <1>2, SameTables
  <2> QED
    BY <1>2, <1>3, <2>1, BackgroundKeeps
<1> QED
  BY <1>4, <1>5 DEF ProtectInv, Kept

(* What the invariant says of the index and the row of one chunk. *)
LEMMA OneChunk ==
  ASSUME ProtectInv, NEW c \in Chunks
  PROVE  /\ c \in DOMAIN rows => c \in excl.keys \/ (Present(c) /\ Older(rows[c], c))
         /\ c \in excl.keys => ~Present(c)
         /\ refs[c] \in Nat
         /\ \/ stale
            \/ /\ Present(c) => index[c].rc >= refs[c]
               /\ c \in DOMAIN rows => rows[c].rc >= refs[c]
               /\ refs[c] > 0 => Present(c) /\ c \in DOMAIN rows
               /\ c \in held => Present(c) /\ index[c].hold /\ c \in DOMAIN rows /\ rows[c].hold
<1>1. ShapeOK /\ Kept(c)
  BY ProtectIs
<1>2. /\ Present(c) => index[c].rc \in Nat
      /\ c \in DOMAIN rows => rows[c].rc \in Nat
      /\ refs[c] \in Nat
  BY <1>1, NumbersAre
<1>3. Tidy(c) /\ (stale \/ Covered(c))
  BY <1>1 DEF Kept
<1>4. ASSUME Covered(c)
      PROVE  /\ Present(c) => index[c].rc >= refs[c]
             /\ c \in DOMAIN rows => rows[c].rc >= refs[c]
  <2>1. PICK m, n : /\ m = Cardinality(Gainers(c)) /\ n = Cardinality(GainersUpTo(c, rows[c].ver))
                    /\ m \in Nat /\ n \in Nat
    BY Counts, GainersAre
  <2>2. /\ Present(c) => index[c].rc >= refs[c] + m
        /\ c \in DOMAIN rows => rows[c].rc >= refs[c] + n
    BY <1>4, <2>1 DEF Covered, Backs
  <2> QED
    BY <1>2, <2>1, <2>2
<1>5. ASSUME Covered(c)
      PROVE  /\ refs[c] > 0 => Present(c) /\ c \in DOMAIN rows
             /\ c \in held => Present(c) /\ index[c].hold /\ c \in DOMAIN rows /\ rows[c].hold
  BY <1>5 DEF Covered
<1>6. /\ c \in DOMAIN rows => c \in excl.keys \/ (Present(c) /\ Older(rows[c], c))
      /\ c \in excl.keys => ~Present(c)
  BY <1>3 DEF Tidy
<1> QED
  BY <1>2, <1>3, <1>4, <1>5, <1>6

(* Gc: what it takes from the index has no owner and no hold. *)
LEMMA GcStep ==
  ASSUME ProtectInv, Gc
  PROVE  ProtectInv'
<1>1. ShapeOK
  BY DEF ProtectInv
<1>2. PICK G : G = Garbage
  OBVIOUS
<1>3. PICK g : g = [k \in DOMAIN index \ G |-> index[k]]
  OBVIOUS
<1>4. /\ excl = Free /\ \A u \in Threads : op[u] = Idle
      /\ index' = g /\ UNCHANGED <<rows, prows, op, refs, held, stale>>
  BY <1>2, <1>3 DEF Gc, Exclusive, Discard
<1>a. PICK E : excl' = [pc |-> "gc", keys |-> G, ext |-> E]
  BY <1>2 DEF Gc, Discard
<1>5. /\ DOMAIN g = DOMAIN index \ G /\ \A k \in DOMAIN g : g[k] = index[k]
      /\ TableOK(g)
  <2>1. DOMAIN g = DOMAIN index \ G /\ \A k \in DOMAIN g : g[k] = index[k]
    BY <1>3
  <2> QED
    BY <1>1, <2>1 DEF ShapeOK, TableOK
<1>6. G \subseteq Chunks /\ G \subseteq Keys /\ \A c \in G : Present(c) /\ index[c].rc = 0 /\ ~index[c].hold
  BY <1>2, KeysAre DEF Garbage
<1>7. ShapeOK'
  <2>1. ExclOK(excl')
    BY <1>a, <1>6 DEF ExclOK
  <2> QED
    BY <1>1, <1>4, <1>5, <2>1 DEF ShapeOK
<1>8. ASSUME NEW k \in Chunks, k \notin G PROVE Kept(k)'
  <2>1. SameAt(index, index', k) /\ SameAt(rows, rows', k)
    BY <1>4, <1>5, <1>8 DEF SameAt
  <2>2. k \in excl'.keys <=> k \in excl.keys
    BY <1>4, <1>a, <1>8 DEF Free
  <2> QED
    BY <1>4, <2>1, <2>2, BackgroundKeeps
<1>9. ASSUME NEW c \in G PROVE Kept(c)'
  <2>1. ~Present(c)' /\ c \in excl'.keys /\ \A u \in Threads : op'[u] = Idle
    BY <1>4, <1>a, <1>5, <1>9 DEF Present
  <2>2. refs[c] \in Nat /\ (stale \/ (0 >= refs[c] /\ c \notin held))
    BY <1>6, <1>9, OneChunk
  <2>3. stale \/ (refs[c] = 0 /\ c \notin held /\ (c \in DOMAIN rows => rows[c].rc >= 0))
    <3>1. c \in DOMAIN rows => rows[c].rc \in Nat
      BY <1>1, <1>6, <1>9, NumbersAre
    <3> QED
      BY <2>2, <3>1
  <2>4. /\ refs'[c] \in Nat /\ (c \in DOMAIN rows' <=> c \in DOMAIN rows)
        /\ \/ stale'
           \/ refs'[c] = 0 /\ c \notin held' /\ (c \in DOMAIN rows' => rows'[c].rc >= refs'[c])
    BY <1>4, <2>2, <2>3
  <2>5. ~(0 > 0)
    OBVIOUS
  <2> QED
    BY <2>1, <2>4, <2>5, QuietKeeps
<1>10. \A k \in Chunks : Kept(k)'
  BY <1>8, <1>9
<1> QED
  BY <1>7, <1>10 DEF ProtectInv, Kept

(* DeleteFragment. *)
LEMMA DeleteFragmentStep ==
  ASSUME ProtectInv, NEW f \in Fragments, DeleteFragment(f)
  PROVE  ProtectInv'
<1>1. ShapeOK
  BY DEF ProtectInv
<1>2. PICK g : g = [k \in DOMAIN index \ {f} |-> index[k]]
  OBVIOUS
<1>3. /\ excl = Free /\ \A u \in Threads : op[u] = Idle
      /\ index' = g /\ UNCHANGED <<rows, prows, op, refs, held, stale>>
  BY <1>2 DEF DeleteFragment, Exclusive, Discard
<1>a. PICK E : excl' = [pc |-> "delete", keys |-> {f}, ext |-> E]
  BY DEF DeleteFragment, Discard
<1>4. DOMAIN g = DOMAIN index \ {f} /\ \A k \in DOMAIN g : g[k] = index[k]
  BY <1>2
<1>5. TableOK(g)
  BY <1>1, <1>4 DEF ShapeOK, TableOK
<1>6. ShapeOK'
  <2>1. ExclOK(excl')
    BY <1>a, KeysAre DEF ExclOK
  <2> QED
    BY <1>1, <1>3, <1>5, <2>1 DEF ShapeOK
<1>7. ASSUME NEW k \in Chunks PROVE Kept(k)'
  <2>1. SameAt(index, index', k) /\ SameAt(rows, rows', k)
    BY <1>3, <1>4, <1>7, KeysAre DEF SameAt
  <2>2. k \in excl'.keys <=> k \in excl.keys
    BY <1>3, <1>a, <1>7, KeysAre DEF Free
  <2> QED
    BY <1>3, <2>1, <2>2, BackgroundKeeps
<1> QED
  BY <1>6, <1>7 DEF ProtectInv, Kept

(* RemoveRow. *)
LEMMA RemoveRowStep ==
  ASSUME ProtectInv, NEW k \in Keys, RemoveRow(k)
  PROVE  ProtectInv'
<1>1. ShapeOK
  BY DEF ProtectInv
<1>2. PICK g : g = Without(rows, k)
  OBVIOUS
<1>3. /\ k \in excl.keys /\ rows' = g /\ (prows' = g \/ prows' = prows)
      /\ excl' = IF excl.pc = "delete" THEN Free ELSE [excl EXCEPT !.keys = @ \ {k}]
      /\ UNCHANGED <<index, op, refs, held, stale>>
  BY <1>2 DEF RemoveRow, Store
<1>4. DOMAIN g = DOMAIN rows \ {k} /\ \A j \in DOMAIN g : g[j] = rows[j]
  BY <1>2 DEF Without
<1>5. TableOK(g)
  BY <1>1, <1>4 DEF ShapeOK, TableOK
<1>6. \A u \in Threads : op[u] = Idle
  <2>1. excl # Free
    BY <1>3 DEF Free
  <2> QED
    BY <1>1, <2>1 DEF ShapeOK
<1>7. PICK p, K, E : /\ p = excl.pc /\ K = excl.keys /\ excl = [pc |-> p, keys |-> K, ext |-> E]
                     /\ p \in {"free", "gc", "delete"} /\ K \subseteq Keys
                     /\ p = "free" => K = {}
                     /\ p = "delete" => K \subseteq Fragments
  BY <1>1 DEF ShapeOK, ExclOK, Free
<1>8. /\ p = "delete" => excl' = Free
      /\ p # "delete" => excl' = [pc |-> p, keys |-> K \ {k}, ext |-> E]
  BY <1>3, <1>7
<1>9. ShapeOK'
  <2>1. ExclOK(excl')
    BY <1>3, <1>7, <1>8 DEF Free, ExclOK
  <2> QED
    BY <1>1, <1>3, <1>5, <1>6, <2>1 DEF ShapeOK
<1>10. ASSUME NEW j \in Chunks, j # k PROVE Kept(j)'
  <2>1. SameAt(index, index', j) /\ SameAt(rows, rows', j)
    BY <1>3, <1>4, <1>10 DEF SameAt
  <2>2. j \in excl'.keys <=> j \in excl.keys
    BY <1>7, <1>8, <1>10, KeysAre DEF Free
  <2> QED
    BY <1>3, <2>1, <2>2, BackgroundKeeps
<1>11. ASSUME k \in Chunks PROVE Kept(k)'
  <2>1. /\ ~Present(k) /\ refs[k] \in Nat
        /\ stale \/ (~(refs[k] > 0) /\ k \notin held)
    BY <1>3, <1>11, OneChunk
  <2>2. ~Present(k)' /\ k \notin DOMAIN rows'
    BY <1>3, <1>4, <2>1 DEF Present
  <2>3. refs'[k] \in Nat /\ (stale' \/ (~(refs'[k] > 0) /\ k \notin held'))
    BY <1>3, <2>1
  <2>4. \A u \in Threads : op'[u] = Idle
    BY <1>3, <1>6
  <2> QED
    BY <2>2, <2>3, <2>4, QuietKeeps
<1>12. \A j \in Chunks : Kept(j)'
  BY <1>10, <1>11
<1> QED
  BY <1>9, <1>12 DEF ProtectInv, Kept

(* SetHold. *)
LEMMA SetHoldStep ==
  ASSUME ProtectInv, NEW c \in Chunks, NEW on \in BOOLEAN, SetHold(c, on)
  PROVE  ProtectInv'
<1>1. ShapeOK
  BY DEF ProtectInv
<1>2. PICK r : r = [index[c] EXCEPT !.hold = on, !.ver = @ + 1]
  OBVIOUS
<1>3. PICK f, g, h : f = index /\ g = index' /\ h = rows'
  OBVIOUS
<1>4. /\ excl = Free /\ (\A u \in Threads : op[u] = Idle) /\ Present(c)
      /\ g = [f EXCEPT ![c] = r] /\ h = Bind(rows, c, g[c]) /\ (prows' = h \/ prows' = prows)
      /\ held' = IF on THEN held \cup {c} ELSE held \ {c}
      /\ UNCHANGED <<op, excl, refs, stale>>
  BY <1>2, <1>3 DEF SetHold, Exclusive, Store
<1>5. /\ IsRecord(r) /\ r.rc = index[c].rc /\ (r.hold <=> on)
  <2>1. PICK q : q = index[c]
    OBVIOUS
  <2>2. IsRecord(q)
    BY <1>1, <1>4, <2>1 DEF ShapeOK, TableOK, Present
  <2>3. PICK a, b, e, v : a = q.rc /\ b = q.hold /\ e = q.ext /\ v = q.ver
    OBVIOUS
  <2>4. q = [rc |-> a, hold |-> b, ext |-> e, ver |-> v] /\ a \in Nat /\ v \in Nat
    BY <2>2, <2>3 DEF IsRecord
  <2>5. DOMAIN q = {"rc", "hold", "ext", "ver"}
    BY <2>4
  <2>6. r = [x \in DOMAIN q |-> IF x = "ver" THEN v + 1 ELSE IF x = "hold" THEN on ELSE q[x]]
    BY <1>2, <2>1, <2>3, <2>5
  <2>7. /\ DOMAIN r = {"rc", "hold", "ext", "ver"}
        /\ r.rc = a /\ r.hold = on /\ r.ext = e /\ r.ver = v + 1
    BY <2>4, <2>5, <2>6
  <2>8. r = [x \in {"rc", "hold", "ext", "ver"} |-> r[x]]
    BY <2>5, <2>6
  <2>9. PICK w : w = v + 1 /\ w \in Nat
    BY <2>4
  <2>10. r = [rc |-> a, hold |-> on, ext |-> e, ver |-> w]
    BY <2>7, <2>8, <2>9
  <2> QED
    BY <2>1, <2>3, <2>4, <2>7, <2>9, <2>10 DEF IsRecord
<1>6. TableOK(f) /\ c \in DOMAIN f /\ TableOK(rows) /\ c \in Keys
  BY <1>1, <1>3, <1>4, KeysAre DEF ShapeOK, Present
<1>7. c \in DOMAIN g /\ g[c] = r /\ TableOK(g) /\ \A j : j # c => SameAt(f, g, j)
  BY <1>4, <1>5, <1>6, SetIs
<1>8. c \in DOMAIN h /\ h[c] = r /\ TableOK(h) /\ \A j : j # c => SameAt(rows, h, j)
  BY <1>4, <1>5, <1>6, <1>7, BindIs
<1>9. ShapeOK'
  <2>1. held' \subseteq Chunks
    BY <1>1, <1>4 DEF ShapeOK
  <2>2. TableOK(index') /\ TableOK(rows') /\ TableOK(prows')
    BY <1>1, <1>3, <1>4, <1>7, <1>8 DEF ShapeOK
  <2> QED
    BY <1>1, <1>4, <2>1, <2>2 DEF ShapeOK
<1>10. ASSUME NEW k \in Chunks, k # c PROVE Kept(k)'
  <2>1. SameAt(index, index', k) /\ SameAt(rows, rows', k) /\ (k \in held' <=> k \in held)
    BY <1>3, <1>4, <1>7, <1>8, <1>10
  <2>2. k \in excl'.keys <=> k \in excl.keys
    BY <1>4
  <2> QED
    BY <1>4, <2>1, <2>2, BackgroundKeeps
<1>11. Kept(c)'
  <2>1. /\ \A u \in Threads : op'[u] = Idle
        /\ c \notin excl'.keys /\ Present(c)' /\ c \in DOMAIN rows'
        /\ index'[c] = r /\ rows'[c] = r
    BY <1>3, <1>4, <1>7, <1>8 DEF Free, Present
  <2>2. Older(rows[c], c)'
    BY <1>5, <2>1 DEF Older, IsRecord
  <2>3. refs[c] \in Nat /\ (stale \/ r.rc >= refs[c])
    BY <1>4, <1>5, OneChunk
  <2>4. c \in held' => r.hold
    BY <1>4, <1>5
  <2>5. refs'[c] \in Nat /\ (stale' \/ (index'[c].rc >= refs'[c] /\ rows'[c].rc >= refs'[c]))
    BY <1>4, <2>1, <2>3
  <2>6. c \in held' => index'[c].hold /\ rows'[c].hold
    BY <2>1, <2>4
  <2> QED
    BY <2>1, <2>2, <2>5, <2>6, QuietKeeps
<1>12. \A k \in Chunks : Kept(k)'
  BY <1>10, <1>11
<1> QED
  BY <1>9, <1>12 DEF ProtectInv, Kept

(* Crash: the records on disk are the records, or the loss is known. *)
LEMMA CrashStep ==
  ASSUME ProtectInv, Crash
  PROVE  ProtectInv'
<1>1. ShapeOK
  BY DEF ProtectInv
<1>2. /\ index' = prows /\ rows' = prows /\ excl' = Free /\ op' = [t \in Threads |-> Idle]
      /\ (stale' <=> stale \/ prows # rows)
      /\ UNCHANGED <<prows, refs, held>>
  BY DEF Crash
<1>3. /\ DOMAIN op' = Threads /\ \A u \in Threads : op'[u] = Idle
      /\ excl'.keys = {}
  BY <1>2 DEF Free
<1>4. ShapeOK'
  <2>1. CallOK(Idle)
    BY DEF CallOK, Idle
  <2>2. \A u \in Threads : CallOK(op'[u])
    BY <1>3, <2>1
  <2>3. ExclOK(excl')
    BY <1>2 DEF Free, ExclOK
  <2>4. TableOK(index') /\ TableOK(rows') /\ TableOK(prows')
    BY <1>1, <1>2 DEF ShapeOK
  <2> QED
    BY <1>1, <1>2, <1>3, <2>2, <2>3, <2>4 DEF ShapeOK
<1>5. ASSUME NEW c \in Chunks PROVE Kept(c)'
  <2>1. c \in DOMAIN rows' => Present(c)' /\ Older(rows[c], c)'
    <3>1. c \in DOMAIN prows => prows[c].ver \in Nat
      BY <1>1 DEF ShapeOK, TableOK, IsRecord
    <3> QED
      BY <1>2, <3>1 DEF Present, Older
  <2>2. refs[c] \in Nat
    BY OneChunk
  <2>3. ~stale' => /\ c \in DOMAIN prows => prows[c].rc >= refs[c]
                   /\ refs[c] > 0 => c \in DOMAIN prows
                   /\ c \in held => c \in DOMAIN prows /\ prows[c].hold
    BY <1>2, OneChunk
  <2>4. \/ stale'
        \/ /\ Present(c)' => index'[c].rc >= refs'[c]
           /\ c \in DOMAIN rows' => rows'[c].rc >= refs'[c]
           /\ refs'[c] > 0 => Present(c)' /\ c \in DOMAIN rows'
           /\ c \in held' => Present(c)' /\ index'[c].hold /\ c \in DOMAIN rows' /\ rows'[c].hold
    BY <1>2, <2>3 DEF Present
  <2> QED
    BY <1>2, <1>3, <2>1, <2>2, <2>4, QuietKeeps
<1> QED
  BY <1>4, <1>5 DEF ProtectInv, Kept

(* The first state. *)
LEMMA InitProtects == Init => ProtectInv
<1> SUFFICES ASSUME Init PROVE ProtectInv
  OBVIOUS
<1>1. /\ index = <<>> /\ rows = <<>> /\ prows = <<>> /\ op = [t \in Threads |-> Idle]
      /\ excl = Free /\ refs = [c \in Chunks |-> 0] /\ held = {}
  BY DEF Init
<1>2. DOMAIN index = {} /\ DOMAIN rows = {} /\ DOMAIN prows = {}
  BY <1>1
<1>3. /\ DOMAIN op = Threads /\ \A u \in Threads : op[u] = Idle /\ op[u].pc = "idle" /\ CallOK(op[u])
  BY <1>1 DEF Idle, CallOK
<1>4. ShapeOK
  <2>1. TableOK(index) /\ TableOK(rows) /\ TableOK(prows)
    BY <1>2 DEF TableOK
  <2>2. refs \in [Chunks -> Nat] /\ held \subseteq Chunks
    BY <1>1
  <2>3. ExclOK(excl)
    BY <1>1 DEF Free, ExclOK
  <2> QED
    BY <1>1, <1>3, <2>1, <2>2, <2>3 DEF ShapeOK
<1>5. ASSUME NEW c \in Chunks PROVE Tidy(c) /\ Covered(c)
  <2>1. /\ ~Present(c) /\ c \notin DOMAIN rows /\ c \notin held /\ c \notin excl.keys
        /\ ~(refs[c] > 0)
    BY <1>1, <1>2 DEF Present, Free
  <2>2. \A u \in Threads : ~Touches(u, c) /\ ~Putting(u, c) /\ ~(op[u].pc = "sync" /\ op[u].key = c)
    BY <1>3 DEF Touches, Putting
  <2> QED
    BY <2>1, <2>2 DEF Tidy, Covered
<1> QED
  BY <1>4, <1>5 DEF ProtectInv

(* A step of a call. *)
LEMMA ThreadKeeps ==
  ASSUME ProtectInv, syncPerWrite \in BOOLEAN, NEW t \in Threads, ThreadStep(t)
  PROVE  ProtectInv'
<1>1. CASE \E c \in Chunks : Bump(t, c) \/ Register(t, c) \/ Decrement(t, c)
  BY <1>1, BumpStep, RegisterStep, DecrementStep
<1>2. CASE Reread(t) \/ \E k \in Keys : StartWrite(t, k)
  BY <1>2, RereadStep, StartWriteStep
<1>3. CASE WriteExtent(t) \/ WriteRefused(t) \/ WriteFails(t) \/ FreeExtent(t)
  BY <1>3, WriteExtentStep, WriteEndsStep
<1>4. CASE Recheck(t) \/ SwapFragment(t) \/ FreeOld(t)
  BY <1>4, RecheckStep, SwapFragmentStep, FreeOldStep
<1>5. CASE PutRecord(t) \/ PutFails(t) \/ SyncWrite(t)
  BY <1>5, PutRecordStep, PutFailsStep, SyncWriteStep
<1> QED
  BY <1>1, <1>2, <1>3, <1>4, <1>5 DEF ThreadStep

(* Every step keeps the invariant, in either mode of durability. *)
LEMMA NextProtects ==
  ASSUME ProtectInv, syncPerWrite \in BOOLEAN, [Next]_vars
  PROVE  ProtectInv' /\ syncPerWrite' \in BOOLEAN
<1>1. syncPerWrite' \in BOOLEAN
  BY DEF Next, vars
<1>2. CASE \E t \in Threads : ThreadStep(t)
  BY <1>1, <1>2, ThreadKeeps
<1>3. CASE FlushTask \/ PersistRows \/ GcSync \/ FreeDiscarded
  BY <1>1, <1>3, FlushStep
<1>4. CASE Gc \/ Crash
  BY <1>1, <1>4, GcStep, CrashStep
<1>5. CASE \E f \in Fragments : DeleteFragment(f)
  BY <1>1, <1>5, DeleteFragmentStep
<1>6. CASE \E k \in Keys : RemoveRow(k)
  BY <1>1, <1>6, RemoveRowStep
<1>7. CASE \E c \in Chunks, on \in BOOLEAN : SetHold(c, on)
  BY <1>1, <1>7, SetHoldStep
<1>8. CASE UNCHANGED vars
  <2>1. UNCHANGED <<index, rows, prows, op, excl, refs, held, stale>>
    BY <1>8 DEF vars
  <2>2. ShapeOK'
    BY <2>1 DEF ProtectInv, ShapeOK
  <2>3. ASSUME NEW k \in Chunks PROVE Kept(k)'
    <3>1. SameAt(index, index', k) /\ SameAt(rows, rows', k)
      BY <2>1 DEF SameAt
    <3> QED
      BY <2>1, <3>1, BackgroundKeeps
  <2> QED
    BY <1>1, <2>2, <2>3 DEF ProtectInv, Kept
<1> QED
  BY <1>1, <1>2, <1>3, <1>4, <1>5, <1>6, <1>7, <1>8 DEF Next

-----------------------------------------------------------------------------
(* The index, the stored row and every record on its way that was not overtaken *)
(* carry the references and the hold that callers of one chunk were told of.    *)
THEOREM ProtectInvariant == Spec => []ProtectInv
<1>1. Init => ProtectInv /\ syncPerWrite \in BOOLEAN
  <2>1. Init => syncPerWrite \in BOOLEAN
    BY ChunkStoreAssumption DEF Init
  <2> QED
    BY <2>1, InitProtects
<1>2. (ProtectInv /\ syncPerWrite \in BOOLEAN) /\ [Next]_vars
        => (ProtectInv /\ syncPerWrite \in BOOLEAN)'
  BY NextProtects
<1> QED
  BY <1>1, <1>2, PTL DEF Spec

(* A chunk that a caller references or holds stays in the index with at least    *)
(* that many references and its hold, whatever concurrent writers, deleters, GC, *)
(* metadata errors and crashes do, unless a record overtook a newer one.         *)
THEOREM ReferencesProtect == Spec => []Protected
<1>1. ProtectInv => Protected
  <2> SUFFICES ASSUME ProtectInv, ~stale, NEW c \in Chunks
               PROVE  /\ refs[c] > 0 => Present(c) /\ index[c].rc >= refs[c]
                      /\ c \in held => Present(c) /\ index[c].hold
    BY DEF Protected
  <2> QED
    BY OneChunk
<1> QED
  BY <1>1, ProtectInvariant, PTL
-----------------------------------------------------------------------------
(* The allocator: the free list against the bitmap. *)

(* A set of numbers has a least element. *)
LEMMA LeastOf ==
  ASSUME NEW T, T \subseteq Nat, T # {}
  PROVE  \E m \in T : \A n \in T : m <= n
<1>1. PICK m \in T : \A n \in T : ~(<<n, m>> \in OpToRel(<, Nat))
  BY WFMin, NatLessThanWellFounded
<1>2. \A n \in T : n \in Nat /\ m \in Nat /\ ~(n < m)
  BY <1>1, Zenon DEF OpToRel
<1> QED
  BY <1>2

(* A bounded set of numbers has a greatest element, which Max finds. *)
LEMMA MaxIs ==
  ASSUME NEW S, S \subseteq Nat, S # {}, NEW b \in Nat, \A n \in S : n <= b
  PROVE  Max(S) \in S /\ \A n \in S : n <= Max(S)
<1> DEFINE T == {m \in Nat : b - m \in S /\ m <= b}
<1>1. PICK s \in S : TRUE
  OBVIOUS
<1>2. s \in Nat /\ b - s \in Nat /\ b - (b - s) = s /\ b - s <= b
  BY <1>1
<1>3. b - s \in T
  BY <1>2
<1>4. T \subseteq Nat /\ T # {}
  BY <1>3
<1>5. PICK m \in T : \A n \in T : m <= n
  BY <1>4, LeastOf
<1>6. \A n \in S : b - n \in T /\ n \in Nat
  BY SMT
<1>7. b - m \in S /\ \A n \in S : b - m >= n
  BY <1>5, <1>6
<1> QED
  BY <1>7 DEF Max

(* Constants of the device. *)
LEMMA DeviceIs ==
  /\ Total \in Nat /\ Total > 0 /\ MaxExtent \in Nat /\ 1 <= MaxExtent /\ MaxExtent <= Total
  /\ \A b : b \in Blocks <=> b \in Nat /\ b < Total
  /\ \A e : e \in Extents <=> /\ e = [offset |-> e.offset, length |-> e.length]
                              /\ e.offset \in Nat /\ e.length \in Nat /\ 1 <= e.length
                              /\ e.length <= MaxExtent /\ e.offset + e.length <= Total
<1>1. /\ Total \in Nat /\ Total > 0 /\ MaxExtent \in Nat /\ 1 <= MaxExtent /\ MaxExtent <= Total
  BY AllocatorAssumption
<1>2. \A b : b \in Blocks <=> b \in Nat /\ b < Total
  BY <1>1 DEF Blocks
<1>3. ASSUME NEW e PROVE e \in Extents <=> /\ e = [offset |-> e.offset, length |-> e.length]
                              /\ e.offset \in Nat /\ e.length \in Nat /\ 1 <= e.length
                              /\ e.length <= MaxExtent /\ e.offset + e.length <= Total
  BY <1>1, <1>2 DEF Extents
<1> QED
  BY <1>1, <1>2, <1>3

(* The blocks of an extent. *)
LEMMA SpanIs ==
  ASSUME NEW e \in Extents
  PROVE  /\ \A b : b \in Span(e) <=> b \in Nat /\ e.offset <= b /\ b < e.offset + e.length
         /\ Span(e) \subseteq Blocks /\ e.offset \in Span(e)
<1>1. e.offset \in Nat /\ e.length \in Nat /\ 1 <= e.length /\ e.offset + e.length <= Total
  BY DeviceIs
<1>2. \A b : b \in Span(e) <=> b \in Nat /\ e.offset <= b /\ b < e.offset + e.length
  BY <1>1 DEF Span
<1> QED
  BY <1>1, <1>2, DeviceIs

\* Starts of the runs of clear bits; what the free list says of each run.
Starts(bits) == {b \in Blocks \ bits : b = 0 \/ b - 1 \in bits}
RunIs(bits, s, n) ==
  /\ n \in Nat /\ 1 <= n /\ s + n <= Total
  /\ \A b \in Nat : s <= b /\ b < s + n => b \notin bits
  /\ s + n = Total \/ s + n \in bits
Exact(bits, f) == DOMAIN f = Starts(bits) /\ \A s \in DOMAIN f : RunIs(bits, s, f[s])

\* A free list whose runs lie on the device.
ListOK(f) ==
  /\ f = [s \in DOMAIN f |-> f[s]] /\ DOMAIN f \subseteq Blocks
  /\ \A s \in DOMAIN f : f[s] \in 1 .. Total /\ s + f[s] <= Total

(* rebuild_free_list finds the run at each start. *)
LEMMA RunLengthIs ==
  ASSUME NEW bits, bits \subseteq Blocks, NEW s \in Starts(bits)
  PROVE  RunIs(bits, s, RunLength(bits, s))
<1>1. s \in Nat /\ s < Total /\ s \notin bits /\ Total \in Nat
  BY DeviceIs DEF Starts
<1> DEFINE N == {n \in 1 .. (Total - s) : (s .. (s + n - 1)) \cap bits = {}}
<1>2. \A n : n \in N <=> /\ n \in Nat /\ 1 <= n /\ s + n <= Total
                         /\ \A b \in Nat : s <= b /\ b < s + n => b \notin bits
  <2>1. \A n : n \in 1 .. (Total - s) <=> n \in Nat /\ 1 <= n /\ s + n <= Total
    BY <1>1
  <2>2. \A n \in Nat : (s .. (s + n - 1)) \cap bits = {} <=> \A b \in Nat : s <= b /\ b < s + n => b \notin bits
    <3> SUFFICES ASSUME NEW n \in Nat
                 PROVE  (s .. (s + n - 1)) \cap bits = {} <=> \A b \in Nat : s <= b /\ b < s + n => b \notin bits
      OBVIOUS
    <3>1. \A b : b \in s .. (s + n - 1) <=> b \in Nat /\ s <= b /\ b < s + n
      BY <1>1
    <3> QED BY <3>1
  <2> QED BY <2>1, <2>2
<1>3. 1 \in N
  BY <1>1, <1>2
<1>4. N \subseteq Nat /\ \A n \in N : n <= Total
  BY <1>1, <1>2
<1> HIDE DEF N
<1>5. PICK m : m = Max(N)
  OBVIOUS
<1>6. m \in N /\ \A n \in N : n <= m
  BY <1>1, <1>3, <1>4, <1>5, MaxIs
<1>7. s + m = Total \/ s + m \in bits
  <2> SUFFICES ASSUME s + m # Total, s + m \notin bits PROVE FALSE
    OBVIOUS
  <2>1. m \in Nat /\ m + 1 \in Nat /\ 1 <= m + 1 /\ s + (m + 1) <= Total
    BY <1>1, <1>2, <1>6
  <2>2. \A b \in Nat : s <= b /\ b < s + (m + 1) => b \notin bits
    BY <1>1, <1>2, <1>6, <2>1
  <2>3. m + 1 \in N
    BY <1>2, <2>1, <2>2
  <2> QED BY <1>6, <2>1, <2>3
<1>8. RunLength(bits, s) = m
  BY <1>5 DEF RunLength, N
<1> QED
  BY <1>2, <1>6, <1>7, <1>8 DEF RunIs

(* There is one run at each start. *)
LEMMA RunUnique ==
  ASSUME NEW bits, NEW s \in Nat, NEW m, NEW n, RunIs(bits, s, m), RunIs(bits, s, n)
  PROVE  m = n
<1>1. m \in Nat /\ n \in Nat /\ Total \in Nat
  BY DeviceIs DEF RunIs
<1>2. ~(m < n) /\ ~(n < m)
  BY <1>1 DEF RunIs
<1> QED BY <1>1, <1>2

(* The free list is exact if and only if it is the one a reopen would rebuild. *)
LEMMA ExactIs ==
  ASSUME NEW bits, bits \subseteq Blocks, NEW f, f = [s \in DOMAIN f |-> f[s]]
  PROVE  f = rebuild_free_list(bits) <=> Exact(bits, f)
<1>1. PICK g : g = rebuild_free_list(bits)
  OBVIOUS
<1>2. g = [s \in Starts(bits) |-> RunLength(bits, s)]
  BY <1>1 DEF rebuild_free_list, Starts
<1>3. \A s \in Starts(bits) : RunIs(bits, s, g[s]) /\ s \in Nat
  BY <1>2, RunLengthIs, DeviceIs DEF Starts
<1>4. ASSUME Exact(bits, f) PROVE f = g
  <2>1. DOMAIN f = Starts(bits) /\ \A s \in Starts(bits) : f[s] = g[s]
    BY <1>3, <1>4, RunUnique DEF Exact
  <2> QED BY <1>2, <2>1
<1>5. Exact(bits, g)
  BY <1>2, <1>3 DEF Exact
<1> QED
  BY <1>1, <1>4, <1>5

(* What from_bitmap builds. *)
LEMMA FromBitmapIs ==
  ASSUME NEW bits, bits \subseteq Blocks
  PROVE  /\ from_bitmap(bits) = [bitmap |-> bits, free_list |-> rebuild_free_list(bits)]
         /\ from_bitmap(bits).bitmap = bits /\ from_bitmap(bits).free_list = rebuild_free_list(bits)
         /\ ListOK(rebuild_free_list(bits)) /\ Exact(bits, rebuild_free_list(bits))
<1>1. PICK g : g = rebuild_free_list(bits)
  OBVIOUS
<1>2. g = [s \in Starts(bits) |-> RunLength(bits, s)]
  BY <1>1 DEF rebuild_free_list, Starts
<1>3. g = [s \in DOMAIN g |-> g[s]] /\ DOMAIN g = Starts(bits)
  BY <1>2
<1>4. Exact(bits, g)
  BY <1>1, <1>3, ExactIs
<1>5. ListOK(g)
  BY <1>3, <1>4, DeviceIs DEF Exact, RunIs, ListOK, Starts
<1> QED
  BY <1>1, <1>4, <1>5 DEF from_bitmap

(* BestFit finds a run that fits. *)
LEMMA BestFitIs ==
  ASSUME NEW a, NEW n, ListOK(a.free_list), Fits(a, n) # {}
  PROVE  /\ n \in Nat /\ 1 <= n /\ n <= MaxExtent
         /\ BestFit(a, n) \in DOMAIN a.free_list /\ a.free_list[BestFit(a, n)] >= n
<1>1. PICK f : f = a.free_list
  OBVIOUS
<1>2. n \in Nat /\ 1 <= n /\ n <= MaxExtent
  BY DeviceIs DEF Fits
<1>3. PICK F : F = Fits(a, n)
  OBVIOUS
<1>4. F \subseteq DOMAIN f /\ (\A o \in F : f[o] >= n) /\ F # {}
  BY <1>1, <1>3 DEF Fits
<1>5. \A o \in F : o \in Nat /\ f[o] \in Nat
  BY <1>1, <1>4, DeviceIs DEF ListOK
<1> DEFINE L == {f[o] : o \in F}
<1>6. PICK m \in L : \A k \in L : m <= k
  <2>1. L \subseteq Nat /\ L # {}
    BY <1>4, <1>5
  <2> QED BY <2>1, LeastOf
<1> DEFINE G == {o \in F : f[o] = m}
<1>7. PICK q \in G : \A o \in G : q <= o
  <2>1. G \subseteq Nat /\ G # {}
    BY <1>5, <1>6
  <2> QED BY <2>1, LeastOf
<1>8. q \in F /\ \A p \in F : f[q] < f[p] \/ (f[q] = f[p] /\ q <= p)
  <2> SUFFICES ASSUME NEW p \in F PROVE f[q] < f[p] \/ (f[q] = f[p] /\ q <= p)
    BY <1>7
  <2>1. f[q] = m /\ m <= f[p] /\ f[p] \in Nat /\ m \in Nat
    BY <1>5, <1>6, <1>7
  <2>2. f[p] = m => q <= p
    BY <1>7
  <2> QED BY <2>1, <2>2
<1>9. BestFit(a, n) \in F
  BY <1>1, <1>3, <1>8 DEF BestFit
<1> QED
  BY <1>1, <1>2, <1>4, <1>9

(* Two runs do not touch. *)
LEMMA RunsApart ==
  ASSUME NEW bits, bits \subseteq Blocks, NEW f, Exact(bits, f),
         NEW s \in DOMAIN f, NEW p \in DOMAIN f, s < p
  PROVE  s + f[s] < p
<1>1. s \in Nat /\ p \in Nat /\ f[s] \in Nat /\ p - 1 \in bits /\ p \notin bits /\ p < Total /\ Total \in Nat
  BY DeviceIs DEF Exact, RunIs, Starts
<1>2. \A b \in Nat : s <= b /\ b < s + f[s] => b \notin bits
  BY DEF Exact, RunIs
<1>3. ~(p - 1 < s + f[s])
  BY <1>1, <1>2
<1>4. s + f[s] # p
  BY <1>1 DEF Exact, RunIs
<1> QED BY <1>1, <1>3, <1>4

(* The clear bits just below an allocated block are a run. *)
LEMMA RunBefore ==
  ASSUME NEW bits, bits \subseteq Blocks, NEW f, Exact(bits, f),
         NEW o \in bits, o # 0, o - 1 \notin bits
  PROVE  \E p \in DOMAIN f : p < o /\ p + f[p] = o
<1>1. o \in Nat /\ o < Total /\ Total \in Nat /\ o - 1 \in Nat
  BY DeviceIs
<1> DEFINE T == {s \in Nat : s < o /\ \A b \in Nat : s <= b /\ b < o => b \notin bits}
<1>2. o - 1 \in T
  BY <1>1
<1>3. PICK p \in T : \A s \in T : p <= s
  <2>1. T \subseteq Nat /\ T # {}
    BY <1>2
  <2> QED BY <2>1, LeastOf
<1>4. p \in Nat /\ p < o /\ p \in Blocks /\ p \notin bits
  BY <1>1, <1>3, DeviceIs
<1>5. p = 0 \/ p - 1 \in bits
  <2> SUFFICES ASSUME p # 0, p - 1 \notin bits PROVE FALSE
    OBVIOUS
  <2>1. p - 1 \in Nat /\ p - 1 < o
    BY <1>1, <1>4
  <2>2. \A b \in Nat : p - 1 <= b /\ b < o => b \notin bits
    BY <1>3, <1>4
  <2>3. p - 1 \in T
    BY <2>1, <2>2
  <2> QED BY <1>3, <1>4, <2>3
<1>6. p \in DOMAIN f
  BY <1>4, <1>5 DEF Exact, Starts
<1>7. RunIs(bits, p, f[p])
  BY <1>6 DEF Exact
<1>8. f[p] \in Nat /\ ~(p + f[p] < o) /\ ~(o < p + f[p])
  BY <1>1, <1>3, <1>4, <1>7 DEF RunIs
<1> QED BY <1>1, <1>4, <1>6, <1>8

(* Changes of a free list. *)
LEMMA ListBind ==
  ASSUME NEW f, ListOK(f), NEW o \in Nat, NEW n \in Nat, 1 <= n, o + n <= Total
  PROVE  /\ ListOK(Bind(f, o, n)) /\ DOMAIN Bind(f, o, n) = DOMAIN f \cup {o} /\ Bind(f, o, n)[o] = n
         /\ \A s \in DOMAIN f : s # o => Bind(f, o, n)[s] = f[s]
<1>1. PICK g : g = Bind(f, o, n)
  OBVIOUS
<1>2. g = [p \in DOMAIN f \cup {o} |-> IF p = o THEN n ELSE f[p]]
  BY <1>1 DEF Bind
<1>3. /\ g = [p \in DOMAIN g |-> g[p]] /\ DOMAIN g = DOMAIN f \cup {o} /\ g[o] = n
      /\ \A s \in DOMAIN f : s # o => g[s] = f[s]
  BY <1>2
<1>4. ListOK(g)
  BY <1>3, DeviceIs DEF ListOK
<1> QED BY <1>1, <1>3, <1>4

(* Removing an entry of a free list. *)
LEMMA ListWithout ==
  ASSUME NEW f, ListOK(f), NEW o
  PROVE  /\ ListOK(Without(f, o)) /\ DOMAIN Without(f, o) = DOMAIN f \ {o}
         /\ \A s \in DOMAIN f \ {o} : Without(f, o)[s] = f[s]
<1>1. PICK g : g = Without(f, o)
  OBVIOUS
<1>2. g = [p \in DOMAIN f \ {o} |-> f[p]]
  BY <1>1 DEF Without
<1>3. g = [p \in DOMAIN g |-> g[p]] /\ DOMAIN g = DOMAIN f \ {o} /\ \A s \in DOMAIN f \ {o} : g[s] = f[s]
  BY <1>2
<1>4. ListOK(g)
  BY <1>3 DEF ListOK
<1> QED BY <1>1, <1>3, <1>4

(* The merge of a run with the next one. *)
LEMMA CoalesceNextIs ==
  ASSUME NEW f, ListOK(f), NEW o \in DOMAIN f
  PROVE  LET g == coalesce_next(f, o)
             x == o + f[o] IN
         /\ ListOK(g)
         /\ x \in DOMAIN f => /\ x # o /\ DOMAIN g = DOMAIN f \ {x} /\ g[o] = f[o] + f[x]
                              /\ \A s \in DOMAIN f : s # o /\ s # x => g[s] = f[s]
         /\ x \notin DOMAIN f => g = f
<1>1. PICK g, x : g = coalesce_next(f, o) /\ x = o + f[o]
  OBVIOUS
<1>2. o \in Nat /\ f[o] \in Nat /\ 1 <= f[o] /\ x # o
  BY <1>1, DeviceIs DEF ListOK
<1>3. CASE x \notin DOMAIN f
  <2>1. g = f
    BY <1>1, <1>3 DEF coalesce_next
  <2> QED BY <1>1, <1>3, <2>1
<1>4. CASE x \in DOMAIN f
  <2>1. PICK w, n : w = Without(f, x) /\ n = f[o] + f[x]
    OBVIOUS
  <2>2. g = Bind(w, o, n)
    BY <1>1, <1>4, <2>1 DEF coalesce_next
  <2>3. ListOK(w) /\ DOMAIN w = DOMAIN f \ {x} /\ \A s \in DOMAIN f \ {x} : w[s] = f[s]
    BY <2>1, ListWithout
  <2>4. n \in Nat /\ 1 <= n /\ o + n <= Total
    BY <1>1, <1>2, <1>4, <2>1, DeviceIs DEF ListOK
  <2>5. /\ ListOK(g) /\ DOMAIN g = DOMAIN w \cup {o} /\ g[o] = n
        /\ \A s \in DOMAIN w : s # o => g[s] = w[s]
    <3>1. /\ ListOK(Bind(w, o, n)) /\ DOMAIN Bind(w, o, n) = DOMAIN w \cup {o} /\ Bind(w, o, n)[o] = n
          /\ \A s \in DOMAIN w : s # o => Bind(w, o, n)[s] = w[s]
      BY <1>2, <2>3, <2>4, ListBind
    <3> QED BY <2>2, <3>1
  <2> QED BY <1>1, <1>2, <1>4, <2>1, <2>3, <2>5
<1> QED BY <1>3, <1>4

(* alloc: the extent it hands out, and what is left. *)
LEMMA AllocIs ==
  ASSUME NEW a, NEW n, ListOK(a.free_list), a.bitmap \subseteq Blocks, Fits(a, n) # {}
  PROVE  LET r == alloc(a, n) IN
         /\ r.extent \in Extents /\ r.extent.length = n
         /\ r.after = [bitmap |-> r.after.bitmap, free_list |-> r.after.free_list]
         /\ r.after.bitmap = a.bitmap \cup Span(r.extent) /\ r.after.bitmap \subseteq Blocks
         /\ ListOK(r.after.free_list)
         /\ Exact(a.bitmap, a.free_list) =>
              Exact(r.after.bitmap, r.after.free_list) /\ Span(r.extent) \cap a.bitmap = {}
<1>1. PICK f, bits, o, r : f = a.free_list /\ bits = a.bitmap /\ o = BestFit(a, n) /\ r = alloc(a, n)
  OBVIOUS
<1>2. /\ n \in Nat /\ 1 <= n /\ n <= MaxExtent /\ o \in DOMAIN f /\ f[o] >= n
      /\ ListOK(f) /\ bits \subseteq Blocks
  BY <1>1, BestFitIs
<1>3. o \in Nat /\ f[o] \in Nat /\ o + f[o] <= Total /\ Total \in Nat
  BY <1>2, DeviceIs DEF ListOK
<1>4. PICK rest, g : /\ rest = Without(f, o)
                     /\ g = IF f[o] > n THEN Bind(rest, o + n, f[o] - n) ELSE rest
  OBVIOUS
<1>5. r = [extent |-> [offset |-> o, length |-> n],
           after  |-> [bitmap |-> bits \cup (o .. (o + n - 1)), free_list |-> g]]
  BY <1>1, <1>4 DEF alloc
<1>6. PICK e : e = [offset |-> o, length |-> n]
  OBVIOUS
<1>7. e \in Extents /\ e.offset = o /\ e.length = n /\ Span(e) = o .. (o + n - 1)
  BY <1>2, <1>3, <1>6, DeviceIs DEF Span
<1>8. \A b : b \in Span(e) <=> b \in Nat /\ o <= b /\ b < o + n
  BY <1>7, SpanIs
<1>9. ListOK(rest) /\ DOMAIN rest = DOMAIN f \ {o} /\ \A s \in DOMAIN f \ {o} : rest[s] = f[s]
  BY <1>2, <1>4, ListWithout
<1>10. /\ ListOK(g)
       /\ f[o] = n => g = rest
       /\ f[o] # n => /\ DOMAIN g = DOMAIN rest \cup {o + n} /\ g[o + n] = f[o] - n
                      /\ \A s \in DOMAIN rest : s # o + n => g[s] = rest[s]
  <2>1. CASE f[o] > n
    <3>1. o + n \in Nat /\ f[o] - n \in Nat /\ 1 <= f[o] - n /\ (o + n) + (f[o] - n) <= Total
      BY <1>2, <1>3, <2>1
    <3>2. PICK p, m : p = o + n /\ m = f[o] - n
      OBVIOUS
    <3>3. /\ ListOK(Bind(rest, p, m)) /\ DOMAIN Bind(rest, p, m) = DOMAIN rest \cup {p} /\ Bind(rest, p, m)[p] = m
          /\ \A s \in DOMAIN rest : s # p => Bind(rest, p, m)[s] = rest[s]
      <4>1. p \in Nat /\ m \in Nat /\ 1 <= m /\ p + m <= Total
        BY <3>1, <3>2
      <4> QED BY <1>9, <4>1, ListBind
    <3>4. g = Bind(rest, p, m)
      BY <1>4, <2>1, <3>2
    <3> QED BY <1>2, <1>3, <2>1, <3>2, <3>3, <3>4
  <2>2. CASE f[o] = n
    <3>1. ~(f[o] > n)
      BY <1>2, <2>2
    <3>2. g = rest
      BY <1>4, <3>1
    <3> QED BY <1>9, <2>2, <3>2
  <2> QED BY <1>2, <1>3, <2>1, <2>2
<1>11. PICK new : new = bits \cup Span(e)
  OBVIOUS
<1>12. ASSUME Exact(bits, f) PROVE Exact(new, g) /\ Span(e) \cap bits = {}
  <2>1. RunIs(bits, o, f[o])
    BY <1>2, <1>12 DEF Exact
  <2>2. \A b \in Span(e) : b \notin bits
    BY <1>2, <1>3, <1>8, <2>1 DEF RunIs
  <2>3. \A b : b \in new <=> b \in bits \/ (b \in Nat /\ o <= b /\ b < o + n)
    BY <1>8, <1>11
  <2>4. o \in Starts(bits) /\ (o = 0 \/ o - 1 \in bits)
    BY <1>2, <1>12 DEF Exact, Starts
  <2>5. \A b \in Blocks : b \in Starts(new) <=> (b \in Starts(bits) /\ b # o) \/ (b = o + n /\ f[o] # n)
    <3> SUFFICES ASSUME NEW b \in Blocks
                 PROVE  b \in Starts(new) <=> (b \in Starts(bits) /\ b # o) \/ (b = o + n /\ f[o] # n)
      OBVIOUS
    <3>1. b \in Nat /\ b < Total
      BY DeviceIs
    <3>2. CASE b = o + n
      <4>1. b \notin new <=> f[o] # n
        BY <1>2, <1>3, <2>1, <2>3, <3>1, <3>2 DEF RunIs
      <4>2. b - 1 \in new
        BY <1>2, <1>3, <2>3, <3>2
      <4>3. ASSUME b \in Starts(bits), b # o PROVE FALSE
        <5>1. b \in DOMAIN f /\ o < b
          BY <1>2, <1>3, <1>12, <3>2, <4>3 DEF Exact
        <5>2. o + f[o] < b
          BY <1>2, <1>12, <5>1, RunsApart
        <5> QED BY <1>2, <1>3, <3>2, <5>2
      <4> QED BY <1>2, <1>3, <3>2, <4>1, <4>2, <4>3 DEF Starts
    <3>3. CASE b # o + n
      <4>1. b \notin new => (b - 1 \in new <=> b - 1 \in bits)
        BY <1>2, <1>3, <2>3, <3>1, <3>3
      <4>2. b \notin new <=> b \notin bits /\ ~(o <= b /\ b < o + n)
        BY <2>3, <3>1
      <4>3. b \in Starts(bits) /\ b # o => ~(o <= b /\ b < o + n)
        <5> SUFFICES ASSUME b \in Starts(bits), b # o, o <= b, b < o + n PROVE FALSE
          OBVIOUS
        <5>1. b \in DOMAIN f /\ o < b
          BY <1>3, <1>12, <3>1 DEF Exact
        <5>2. o + f[o] < b
          BY <1>2, <1>12, <5>1, RunsApart
        <5> QED BY <1>2, <1>3, <3>1, <5>2
      <4> QED BY <1>2, <1>3, <3>1, <3>3, <4>1, <4>2, <4>3 DEF Starts
    <3> QED BY <3>2, <3>3
  <2>6. DOMAIN g = Starts(new)
    <3>1. Starts(new) \subseteq Blocks /\ Starts(bits) \subseteq Blocks /\ DOMAIN f = Starts(bits)
      BY <1>12 DEF Exact, Starts
    <3>2. f[o] # n => o + n \in Blocks
      BY <1>2, <1>3, DeviceIs
    <3>3. \A b : b \in DOMAIN g <=> (b \in Starts(bits) /\ b # o) \/ (b = o + n /\ f[o] # n)
      BY <1>9, <1>10, <3>1
    <3> QED BY <2>5, <3>1, <3>2, <3>3
  <2>7. ASSUME NEW s \in DOMAIN g PROVE RunIs(new, s, g[s])
    <3>1. CASE s = o + n /\ f[o] # n
      <4>1. g[s] = f[o] - n
        BY <1>10, <3>1
      <4>2. s + g[s] = o + f[o] /\ g[s] \in Nat /\ 1 <= g[s]
        BY <1>2, <1>3, <3>1, <4>1
      <4>3. \A b \in Nat : s <= b /\ b < s + g[s] => b \notin new
        BY <1>2, <1>3, <2>1, <2>3, <3>1, <4>2 DEF RunIs
      <4> QED BY <1>3, <2>1, <2>3, <4>2, <4>3 DEF RunIs
    <3>2. CASE ~(s = o + n /\ f[o] # n)
      <4>1. s \in DOMAIN f /\ s # o
        BY <1>9, <1>10, <3>2
      <4>2. s \in Nat /\ RunIs(bits, s, f[s])
        BY <1>12, <4>1, DeviceIs DEF Exact, Starts
      <4>3. s # o + n
        <5> SUFFICES ASSUME s = o + n PROVE FALSE
          OBVIOUS
        <5>1. o < s
          BY <1>2, <1>3
        <5>2. o + f[o] < s
          BY <1>2, <1>12, <4>1, <5>1, RunsApart
        <5> QED BY <1>2, <1>3, <5>2
      <4>4. g[s] = f[s]
        BY <1>9, <1>10, <4>1, <4>3
      <4>5. s + f[s] < o \/ o + f[o] < s
        BY <1>2, <1>3, <1>12, <4>1, <4>2, RunsApart
      <4>6. \A b \in Nat : s <= b /\ b < s + f[s] => b \notin new
        BY <1>2, <1>3, <2>3, <4>2, <4>5 DEF RunIs
      <4> QED BY <2>3, <4>2, <4>4, <4>6 DEF RunIs
    <3> QED BY <3>1, <3>2
  <2> QED BY <2>2, <2>6, <2>7 DEF Exact
<1>13. /\ r.extent = e /\ r.after.bitmap = new /\ r.after.free_list = g
       /\ r.after = [bitmap |-> r.after.bitmap, free_list |-> r.after.free_list]
  BY <1>5, <1>6, <1>7, <1>11
<1>14. new \subseteq Blocks
  BY <1>2, <1>7, <1>11, SpanIs
<1> QED
  BY <1>1, <1>7, <1>10, <1>11, <1>12, <1>13, <1>14

\* List g is f with the run from o to x merged in; it is now part of a run at q.
Merged(f, o, x, g) ==
  \E q \in Nat :
    /\ \/ q = o /\ (\A p \in DOMAIN f : p < o /\ p + f[p] = o => \E m \in DOMAIN f : p < m /\ m < o)
       \/ q \in DOMAIN f /\ q < o /\ q + f[q] = o
    /\ DOMAIN g = (DOMAIN f \ {x}) \cup {q}
    /\ g[q] = (x - q) + (IF x \in DOMAIN f THEN f[x] ELSE 0)
    /\ \A s \in DOMAIN f : s # q /\ s # x => g[s] = f[s]

(* coalesce after a run of n blocks at o came back. *)
LEMMA CoalesceIs ==
  ASSUME NEW f, ListOK(f), NEW o \in Nat, NEW n \in Nat, 1 <= n, o + n <= Total
  PROVE  LET g == coalesce(Bind(f, o, n), o)
             x == o + n IN
         /\ ListOK(g)
         /\ o \notin DOMAIN f => Merged(f, o, x, g)
<1>1. PICK h, g, x : h = Bind(f, o, n) /\ g = coalesce(h, o) /\ x = o + n
  OBVIOUS
<1>2. /\ ListOK(h) /\ DOMAIN h = DOMAIN f \cup {o} /\ h[o] = n
      /\ \A s \in DOMAIN f : s # o => h[s] = f[s]
  <2>1. /\ ListOK(Bind(f, o, n)) /\ DOMAIN Bind(f, o, n) = DOMAIN f \cup {o} /\ Bind(f, o, n)[o] = n
        /\ \A s \in DOMAIN f : s # o => Bind(f, o, n)[s] = f[s]
    BY ListBind
  <2> QED BY <1>1, <2>1
<1>3. PICK B, q : B = {p \in DOMAIN h : p < o} /\ q = Max(B)
  OBVIOUS
<1>4. B \subseteq Nat /\ (\A p \in B : p <= o) /\ \A p : p \in B <=> p \in DOMAIN f /\ p < o
  BY <1>2, <1>3, DeviceIs DEF ListOK
<1>5. B # {} => q \in B /\ \A p \in B : p <= q
  BY <1>3, <1>4, MaxIs
<1>6. x \in Nat /\ x # o /\ (x \in DOMAIN h <=> x \in DOMAIN f)
  BY <1>1, <1>2
<1>7. \A s \in DOMAIN f : s \in Nat /\ f[s] \in Nat /\ 1 <= f[s] /\ s + f[s] <= Total
  BY DeviceIs DEF ListOK
<1>8. CASE B # {} /\ q + h[q] = o
  <2>1. q \in DOMAIN f /\ q \in Nat /\ q < o /\ q # o /\ h[q] = f[q] /\ q + f[q] = o
    <3>1. q \in B
      BY <1>5, <1>8
    <3>2. q \in DOMAIN f /\ q \in Nat /\ q < o
      BY <1>4, <3>1
    <3>3. q # o
      BY <3>2
    <3>4. h[q] = f[q]
      BY <1>2, <3>2, <3>3
    <3> QED BY <1>8, <3>2, <3>3, <3>4
  <2>2. PICK w, k, m : w = Without(h, o) /\ m = h[q] + h[o] /\ k = Bind(w, q, m)
    OBVIOUS
  <2>3. g = coalesce_next(k, q)
    BY <1>1, <1>3, <1>8, <2>2 DEF coalesce
  <2>4. ListOK(w) /\ DOMAIN w = DOMAIN h \ {o} /\ \A s \in DOMAIN h \ {o} : w[s] = h[s]
    BY <1>2, <2>2, ListWithout
  <2>5. m \in Nat /\ 1 <= m /\ q + m = x /\ q + m <= Total
    BY <1>1, <1>2, <1>7, <2>1, <2>2
  <2>6. /\ ListOK(k) /\ DOMAIN k = DOMAIN w \cup {q} /\ k[q] = m
        /\ \A s \in DOMAIN w : s # q => k[s] = w[s]
    <3>1. /\ ListOK(Bind(w, q, m)) /\ DOMAIN Bind(w, q, m) = DOMAIN w \cup {q} /\ Bind(w, q, m)[q] = m
          /\ \A s \in DOMAIN w : s # q => Bind(w, q, m)[s] = w[s]
      <4>1. q \in Nat /\ m \in Nat /\ 1 <= m /\ q + m <= Total /\ ListOK(w)
        BY <2>1, <2>4, <2>5
      <4> QED BY <4>1, ListBind
    <3> QED BY <2>2, <3>1
  <2>7. PICK y : y = q + k[q]
    OBVIOUS
  <2>8. y = x
    BY <2>5, <2>6, <2>7
  <2>9. /\ ListOK(g)
        /\ x \in DOMAIN k => /\ x # q /\ DOMAIN g = DOMAIN k \ {x} /\ g[q] = k[q] + k[x]
                             /\ \A s \in DOMAIN k : s # q /\ s # x => g[s] = k[s]
        /\ x \notin DOMAIN k => g = k
    BY <2>3, <2>6, <2>7, <2>8, CoalesceNextIs, SMTT(30)
  <2>10. ASSUME o \notin DOMAIN f
         PROVE  /\ DOMAIN g = (DOMAIN f \ {x}) \cup {q}
                /\ g[q] = (x - q) + (IF x \in DOMAIN f THEN f[x] ELSE 0)
                /\ \A s \in DOMAIN f : s # q /\ s # x => g[s] = f[s]
    <3>1. DOMAIN k = DOMAIN f /\ m = x - q /\ m + 0 = m
      BY <1>2, <1>6, <2>1, <2>4, <2>5, <2>6, <2>10
    <3>2. \A s \in DOMAIN f : s # q => k[s] = f[s]
      BY <1>2, <2>4, <2>6, <2>10
    <3>3. CASE x \in DOMAIN f
      BY <2>1, <2>6, <2>9, <3>1, <3>2, <3>3
    <3>4. CASE x \notin DOMAIN f
      BY <2>1, <2>6, <2>9, <3>1, <3>2, <3>4
    <3> QED BY <3>3, <3>4
  <2>11. o \notin DOMAIN f => Merged(f, o, x, g)
    BY <2>1, <2>10 DEF Merged
  <2> QED BY <1>1, <2>9, <2>11
<1>9. CASE ~(B # {} /\ q + h[q] = o)
  <2>1. g = coalesce_next(h, o)
    BY <1>1, <1>3, <1>9 DEF coalesce
  <2>2. PICK y : y = o + h[o]
    OBVIOUS
  <2>3. y = x
    BY <1>1, <1>2, <2>2
  <2>4. /\ ListOK(g)
        /\ x \in DOMAIN h => /\ x # o /\ DOMAIN g = DOMAIN h \ {x} /\ g[o] = h[o] + h[x]
                             /\ \A s \in DOMAIN h : s # o /\ s # x => g[s] = h[s]
        /\ x \notin DOMAIN h => g = h
    BY <1>2, <2>1, <2>2, <2>3, CoalesceNextIs
  <2>5. ASSUME o \notin DOMAIN f
        PROVE  /\ DOMAIN g = (DOMAIN f \ {x}) \cup {o}
               /\ g[o] = (x - o) + (IF x \in DOMAIN f THEN f[x] ELSE 0)
               /\ \A s \in DOMAIN f : s # o /\ s # x => g[s] = f[s]
    <3>1. x - o = n /\ n + 0 = n
      BY <1>1
    <3>2. CASE x \in DOMAIN f
      BY <1>2, <1>6, <2>4, <2>5, <3>1, <3>2
    <3>3. CASE x \notin DOMAIN f
      BY <1>2, <1>6, <2>4, <2>5, <3>1, <3>3
    <3> QED BY <3>2, <3>3
  <2>6. ASSUME NEW p \in DOMAIN f, p < o, p + f[p] = o PROVE \E m \in DOMAIN f : p < m /\ m < o
    <3>1. p \in B /\ q \in B /\ p <= q
      BY <1>4, <1>5, <2>6
    <3>2. q # p
      BY <1>2, <1>9, <2>6, <3>1
    <3> QED BY <1>4, <1>7, <3>1, <3>2
  <2>7. o \notin DOMAIN f => Merged(f, o, x, g)
    BY <2>5, <2>6 DEF Merged
  <2> QED BY <1>1, <2>4, <2>7
<1> QED BY <1>8, <1>9

(* free: the bits are clear, and the list is exact again if they were set. *)
LEMMA FreeIs ==
  ASSUME NEW a, NEW e \in Extents, ListOK(a.free_list), a.bitmap \subseteq Blocks
  PROVE  LET r == free(a, e) IN
         /\ r = [bitmap |-> r.bitmap, free_list |-> r.free_list]
         /\ r.bitmap = a.bitmap \ Span(e) /\ ListOK(r.free_list)
         /\ Exact(a.bitmap, a.free_list) /\ Span(e) \subseteq a.bitmap => Exact(r.bitmap, r.free_list)
<1>1. PICK f, bits, o, n, x, new, g :
        /\ f = a.free_list /\ bits = a.bitmap /\ o = e.offset /\ n = e.length /\ x = o + n
        /\ new = bits \ Span(e) /\ g = coalesce(Bind(f, o, n), o)
  OBVIOUS
<1>2. free(a, e) = [bitmap |-> new, free_list |-> g]
  BY <1>1 DEF free
<1>3. /\ o \in Nat /\ n \in Nat /\ 1 <= n /\ o + n <= Total /\ x \in Nat /\ Total \in Nat
      /\ ListOK(f) /\ bits \subseteq Blocks
  BY <1>1, DeviceIs
<1>4. ListOK(g) /\ (o \notin DOMAIN f => Merged(f, o, x, g))
  <2>1. LET h == coalesce(Bind(f, o, n), o) IN ListOK(h) /\ (o \notin DOMAIN f => Merged(f, o, o + n, h))
    BY <1>3, CoalesceIs
  <2> QED BY <1>1, <2>1
<1>5. ASSUME Exact(bits, f), Span(e) \subseteq bits PROVE Exact(new, g)
  <2>1. \A b : b \in Span(e) <=> b \in Nat /\ o <= b /\ b < x
    BY <1>1, SpanIs
  <2>2. /\ \A b : b \in new <=> b \in bits /\ ~(b \in Nat /\ o <= b /\ b < x)
        /\ \A b \in Nat : o <= b /\ b < x => b \in bits
    BY <1>1, <1>5, <2>1
  <2>3. o \in bits /\ o \notin DOMAIN f /\ x - 1 \in bits /\ \A b \in bits : b \in Nat
    BY <1>1, <1>3, <1>5, <2>2, DeviceIs DEF Exact, Starts
  <2>4. PICK q \in Nat :
           /\ \/ q = o /\ (\A p \in DOMAIN f : p < o /\ p + f[p] = o => \E m \in DOMAIN f : p < m /\ m < o)
              \/ q \in DOMAIN f /\ q < o /\ q + f[q] = o
           /\ DOMAIN g = (DOMAIN f \ {x}) \cup {q}
           /\ g[q] = (x - q) + (IF x \in DOMAIN f THEN f[x] ELSE 0)
           /\ \A s \in DOMAIN f : s # q /\ s # x => g[s] = f[s]
    BY <1>4, <2>3 DEF Merged
  <2>5. \A s \in DOMAIN f : s \in Nat /\ s < Total /\ f[s] \in Nat /\ 1 <= f[s] /\ RunIs(bits, s, f[s]) /\ s \notin bits
    BY <1>3, <1>5, DeviceIs DEF Exact, ListOK, Starts
  <2>6. \/ q = o /\ (o = 0 \/ o - 1 \in bits)
        \/ q \in DOMAIN f /\ q < o /\ q + f[q] = o /\ o # 0 /\ o - 1 \notin bits
    <3>1. CASE q = o /\ (\A p \in DOMAIN f : p < o /\ p + f[p] = o => \E m \in DOMAIN f : p < m /\ m < o)
      <4> SUFFICES ASSUME o # 0, o - 1 \notin bits PROVE FALSE
        BY <3>1
      <4>1. PICK p \in DOMAIN f : p < o /\ p + f[p] = o
        <5>1. bits \subseteq Blocks /\ Exact(bits, f) /\ o \in bits /\ o # 0 /\ o - 1 \notin bits
          BY <1>3, <1>5, <2>3
        <5> QED BY <5>1, RunBefore
      <4>2. PICK m \in DOMAIN f : p < m /\ m < o
        BY <3>1, <4>1
      <4>3. p + f[p] < m
        BY <1>3, <1>5, <4>1, <4>2, RunsApart
      <4> QED BY <1>3, <2>5, <4>1, <4>2, <4>3
    <3>2. CASE q \in DOMAIN f /\ q < o /\ q + f[q] = o
      <4>1. f[q] \in Nat /\ 1 <= f[q] /\ RunIs(bits, q, f[q])
        BY <2>5, <3>2
      <4>2. o # 0 /\ o - 1 \in Nat /\ q <= o - 1 /\ o - 1 < q + f[q]
        BY <1>3, <3>2, <4>1
      <4> QED BY <3>2, <4>1, <4>2 DEF RunIs
    <3> QED BY <2>4, <3>1, <3>2
  <2>7. ASSUME NEW b \in Blocks PROVE b \in Starts(new) <=> (b \in Starts(bits) /\ b # x) \/ b = q
    <3>1. b \in Nat /\ b < Total
      BY DeviceIs
    <3>2. CASE b < o \/ x < b
      <4>1. b \in new <=> b \in bits
        BY <1>1, <1>3, <2>2, <3>1, <3>2
      <4>2. b # 0 => (b - 1 \in new <=> b - 1 \in bits)
        BY <1>1, <1>3, <2>2, <3>1, <3>2
      <4>3. b # x /\ (b = q => b \in Starts(bits))
        BY <1>1, <1>3, <1>5, <2>6, <3>1, <3>2 DEF Exact
      <4> QED BY <4>1, <4>2, <4>3 DEF Starts
    <3>3. CASE b = o
      <4>1. b \notin new /\ b # x /\ b \notin Starts(bits)
        BY <1>1, <1>3, <2>2, <2>3, <3>1, <3>3 DEF Starts
      <4>2. b # 0 => (b - 1 \in new <=> b - 1 \in bits)
        BY <1>1, <1>3, <2>2, <3>1, <3>3
      <4>3. b = q <=> (o = 0 \/ o - 1 \in bits)
        BY <1>3, <2>6, <3>3
      <4> QED BY <3>3, <4>1, <4>2, <4>3 DEF Starts
    <3>4. CASE o < b /\ b <= x
      <4>1. b # 0 /\ b - 1 \notin new /\ b # q
        BY <1>1, <1>3, <2>2, <2>6, <3>1, <3>4
      <4>2. b # x => b \in bits
        BY <1>1, <1>3, <2>2, <3>1, <3>4
      <4> QED BY <4>1, <4>2 DEF Starts
    <3> QED BY <1>3, <3>1, <3>2, <3>3, <3>4
  <2>8. DOMAIN g = Starts(new)
    <3>1. Starts(new) \subseteq Blocks /\ Starts(bits) \subseteq Blocks /\ DOMAIN f = Starts(bits)
      BY <1>5 DEF Exact, Starts
    <3>2. q \in Blocks
      BY <1>3, <2>4, <2>6, DeviceIs
    <3> QED BY <2>4, <2>7, <3>1, <3>2
  <2>9. ASSUME NEW s \in DOMAIN g PROVE RunIs(new, s, g[s])
    <3>1. CASE s = q
      <4>1. \A b \in Nat : q <= b /\ b < x => b \notin new
        BY <1>3, <2>2, <2>5, <2>6 DEF RunIs
      <4>2. CASE x \in DOMAIN f
        <5>1. g[s] = (x - q) + f[x] /\ f[x] \in Nat /\ 1 <= f[x] /\ RunIs(bits, x, f[x])
          BY <2>4, <2>5, <3>1, <4>2
        <5>2. s + g[s] = x + f[x] /\ g[s] \in Nat /\ 1 <= g[s]
          <6>1. q <= o /\ o < x
            BY <1>1, <1>3, <2>6
          <6> QED BY <1>3, <2>4, <3>1, <5>1, <6>1
        <5>3. \A b \in Nat : s <= b /\ b < s + g[s] => b \notin new
          BY <1>1, <1>3, <2>2, <3>1, <4>1, <5>1, <5>2 DEF RunIs
        <5> QED BY <1>1, <1>3, <2>2, <5>1, <5>2, <5>3 DEF RunIs
      <4>3. CASE x \notin DOMAIN f
        <5>1. g[s] = x - q /\ s + g[s] = x /\ g[s] \in Nat /\ 1 <= g[s]
          BY <1>1, <1>3, <2>4, <2>6, <3>1, <4>3
        <5>2. x = Total \/ x \in bits
          BY <1>1, <1>3, <1>5, <2>3, <4>3, DeviceIs DEF Exact, Starts
        <5> QED BY <1>1, <1>3, <2>2, <3>1, <4>1, <5>1, <5>2 DEF RunIs
      <4> QED BY <4>2, <4>3
    <3>2. CASE s # q
      <4>1. s \in DOMAIN f /\ s # x /\ g[s] = f[s]
        BY <2>4, <3>2
      <4>2. s \in Nat /\ f[s] \in Nat /\ 1 <= f[s] /\ RunIs(bits, s, f[s]) /\ s \notin bits
        BY <2>5, <4>1
      <4>3. s < o \/ x < s
        BY <1>1, <1>3, <2>2, <4>1, <4>2
      <4>4. s < o => s + f[s] < o
        <5> SUFFICES ASSUME s < o, ~(s + f[s] < o) PROVE FALSE
          BY <1>3, <4>2
        <5>1. s + f[s] = o
          BY <1>3, <2>3, <4>2 DEF RunIs
        <5>2. CASE q = o /\ (o = 0 \/ o - 1 \in bits)
          BY <1>3, <4>2, <5>1, <5>2 DEF RunIs
        <5>3. CASE q \in DOMAIN f /\ q < o /\ q + f[q] = o
          <6>1. s < q => s + f[s] < q
            BY <1>3, <1>5, <4>1, <5>3, RunsApart
          <6>2. q < s => q + f[q] < s
            BY <1>3, <1>5, <4>1, <5>3, RunsApart
          <6> QED BY <1>3, <3>2, <4>2, <5>1, <5>3, <6>1, <6>2
        <5> QED BY <2>6, <5>2, <5>3
      <4> QED BY <1>1, <1>3, <2>2, <4>1, <4>2, <4>3, <4>4 DEF RunIs
    <3> QED BY <3>1, <3>2
  <2> QED BY <2>8, <2>9 DEF Exact
<1> QED
  BY <1>1, <1>2, <1>4, <1>5

-----------------------------------------------------------------------------
(* Types of the tables, the calls and the device. *)

\* A device whose free list lies on it.
DevOK(d) == /\ d = [bitmap |-> d.bitmap, free_list |-> d.free_list]
            /\ d.bitmap \subseteq Blocks /\ ListOK(d.free_list)

Types ==
  /\ IsTable(index) /\ IsTable(rows) /\ IsTable(prows) /\ DevOK(dev)
  /\ dbits \subseteq Blocks /\ data \in [Blocks -> Keys \cup {Nil}] /\ leaked \subseteq Blocks
  /\ excl.ext \subseteq Extents /\ (excl.keys = {} => excl.ext = {})
  /\ \A t \in Threads : CallType(op[t])

(* Together with the shape of the calls they are the type invariant. *)
LEMMA TypesAre == ShapeOK /\ Types => TypeOK /\ CallsOK
<1> SUFFICES ASSUME ShapeOK, Types PROVE TypeOK /\ CallsOK
  OBVIOUS
<1>1. /\ dev.bitmap \subseteq Blocks
      /\ DOMAIN dev.free_list \subseteq Blocks
      /\ \A s \in DOMAIN dev.free_list : dev.free_list[s] \in 1 .. Total
      /\ DeviceOK(dev)
  BY DEF Types, DevOK, DeviceOK, ListOK
<1>2. refs \in [Chunks -> Nat] /\ held \subseteq Chunks /\ excl.keys \subseteq Keys
  BY DEF ShapeOK, ExclOK
<1> QED
  BY <1>1, <1>2 DEF Types, TypeOK, CallsOK

(* Removing entries keeps a table a table. *)
LEMMA TableLess ==
  ASSUME NEW f, IsTable(f), NEW D
  PROVE  IsTable([k \in DOMAIN f \ D |-> f[k]])
BY DEF IsTable

(* ... and so does removing one. *)
LEMMA TableWithout ==
  ASSUME NEW f, IsTable(f), NEW k
  PROVE  IsTable(Without(f, k))
BY DEF IsTable, Without

(* Changes of a record; none moves a chunk. *)
LEMMA RecordIs ==
  ASSUME NEW r
  PROVE  r \in Records <=> /\ r = [rc |-> r.rc, hold |-> r.hold, ext |-> r.ext, ver |-> r.ver]
                           /\ r.rc \in Nat /\ r.hold \in BOOLEAN /\ r.ext \subseteq Extents /\ r.ver \in Nat
BY DEF Records

(* The record of a new chunk or fragment. *)
LEMMA FreshIs ==
  ASSUME NEW E, E \subseteq Extents, NEW v \in Nat
  PROVE  Fresh(E, v) \in Records /\ Fresh(E, v).ext = E /\ Fresh(E, v).rc = 1
BY DEF Fresh, Records

(* A record that is counted keeps its extents. *)
LEMMA CountedIn ==
  ASSUME NEW c, index[c] \in Records, NEW d \in {1, -1}, index[c].rc + d >= 0
  PROVE  Counted(c, d) \in Records /\ Counted(c, d).ext = index[c].ext
<1>1. PICK r : r = index[c]
  OBVIOUS
<1>2. /\ r = [rc |-> r.rc, hold |-> r.hold, ext |-> r.ext, ver |-> r.ver]
      /\ r.rc \in Nat /\ r.hold \in BOOLEAN /\ r.ext \subseteq Extents /\ r.ver \in Nat
  BY <1>1, RecordIs
<1>3. Counted(c, d) = [rc |-> r.rc + d, hold |-> r.hold, ext |-> r.ext, ver |-> r.ver + 1]
  <2>1. Counted(c, d) = [r EXCEPT !.rc = @ + d, !.ver = @ + 1]
    BY <1>1 DEF Counted
  <2> QED BY <1>2, <2>1
<1>4. r.rc + d \in Nat /\ r.ver + 1 \in Nat
  BY <1>1, <1>2
<1> QED
  BY <1>1, <1>2, <1>3, <1>4 DEF Records

(* The extents of each kind of call. *)
LEMMA ExtOfIs ==
  ASSUME NEW o
  PROVE  /\ o.pc \in {"alloc", "undo"} => ExtOf(o) = o.ext
         /\ o.pc = "swap" => ExtOf(o) = o.old
         /\ o.pc \notin {"alloc", "undo", "swap"} => ExtOf(o) = {}
         /\ ExtOf(Idle) = {}
BY DEF ExtOf, Idle

(* A call with a record to write owns no extent. *)
LEMMA PutIs ==
  ASSUME NEW k, NEW r \in Records, NEW g, NEW s
  PROVE  LET o == [pc |-> "put", key |-> k, rec |-> r, gain |-> g, sync |-> s] IN
         CallType(o) /\ ExtOf(o) = {} /\ o.pc = "put" /\ o.rec = r /\ o.key = k
<1>1. PICK o : o = [pc |-> "put", key |-> k, rec |-> r, gain |-> g, sync |-> s]
  OBVIOUS
<1>2. o.pc = "put" /\ o.rec = r /\ o.key = k
  BY <1>1
<1>3. ExtOf(o) = {}
  BY <1>2, ExtOfIs
<1> QED BY <1>1, <1>2, <1>3 DEF CallType

(* A thread in no call has no extent. *)
LEMMA IdleIs == CallType(Idle) /\ ExtOf(Idle) = {} /\ Idle.pc = "idle"
BY ExtOfIs DEF CallType, Idle

(* What Undo and Swapped leave in the hands of the call. *)
LEMMA UndoType ==
  ASSUME NEW k, NEW E, E \subseteq Extents
  PROVE  LET o == IF E = {} THEN Idle ELSE [pc |-> "undo", key |-> k, ext |-> E] IN
         CallType(o) /\ ExtOf(o) = E /\ o.pc \in {"idle", "undo"}
<1>1. CASE E = {}
  BY <1>1, IdleIs
<1>2. CASE E # {}
  <2>1. PICK o : o = [pc |-> "undo", key |-> k, ext |-> E]
    OBVIOUS
  <2>2. o.pc = "undo" /\ o.ext = E
    BY <2>1
  <2>3. ExtOf(o) = E
    BY <2>2, ExtOfIs
  <2>4. CallType(o) /\ ExtOf(o) = E /\ o.pc \in {"idle", "undo"}
    BY <2>2, <2>3 DEF CallType
  <2> QED BY <1>2, <2>1, <2>4
<1> QED BY <1>1, <1>2

(* The same for Swapped. *)
LEMMA SwappedType ==
  ASSUME NEW k, NEW r \in Records, NEW E, E \subseteq Extents
  PROVE  /\ CallType(Swapped(k, r, E)) /\ ExtOf(Swapped(k, r, E)) = E
         /\ Swapped(k, r, E).pc \in {"swap", "put"} /\ Swapped(k, r, E).rec = r
<1>1. CASE E = {}
  <2>1. PICK o : o = [pc |-> "put", key |-> k, rec |-> r, gain |-> 0, sync |-> FALSE]
    OBVIOUS
  <2>2. CallType(o) /\ ExtOf(o) = {} /\ o.pc = "put" /\ o.rec = r
    BY <2>1, PutIs
  <2>3. Swapped(k, r, E) = o
    BY <1>1, <2>1 DEF Swapped
  <2> QED BY <1>1, <2>2, <2>3
<1>2. CASE E # {}
  <2>1. PICK o : o = [pc |-> "swap", key |-> k, rec |-> r, old |-> E]
    OBVIOUS
  <2>2. o.pc = "swap" /\ o.old = E /\ o.rec = r
    BY <2>1
  <2>3. ExtOf(o) = E
    BY <2>2, ExtOfIs
  <2>4. CallType(o)
    BY <2>2, <2>3 DEF CallType
  <2>5. Swapped(k, r, E) = o
    BY <1>2, <2>1 DEF Swapped
  <2> QED BY <2>2, <2>3, <2>4, <2>5
<1> QED BY <1>1, <1>2

-----------------------------------------------------------------------------
(* Who owns the blocks. *)

(* Blocks of a set of extents. *)
LEMMA SpansIs ==
  ASSUME NEW E
  PROVE  /\ \A b : b \in Spans(E) <=> \E e \in E : b \in Span(e)
         /\ Spans({}) = {} /\ \A e : Spans(E \cup {e}) = Spans(E) \cup Span(e)
         /\ E \subseteq Extents => Spans(E) \subseteq Blocks
         /\ Apart(E) => \A e \in E : /\ Spans(E \ {e}) = Spans(E) \ Span(e)
                                     /\ Span(e) \subseteq Spans(E) /\ Apart(E \ {e})
<1>1. \A F : \A b : b \in Spans(F) <=> \E e \in F : b \in Span(e)
  BY DEF Spans
<1>2. Spans({}) = {}
  BY <1>1
<1>3. ASSUME NEW e PROVE Spans(E \cup {e}) = Spans(E) \cup Span(e)
  BY <1>1
<1>4. ASSUME E \subseteq Extents PROVE Spans(E) \subseteq Blocks
  <2>1. \A e \in E : Span(e) \subseteq Blocks
    BY <1>4, SpanIs
  <2> QED BY <1>1, <2>1
<1>5. ASSUME Apart(E), NEW e \in E
      PROVE  Spans(E \ {e}) = Spans(E) \ Span(e) /\ Span(e) \subseteq Spans(E) /\ Apart(E \ {e})
  <2>1. \A f \in E : f # e => Span(e) \cap Span(f) = {}
    BY <1>5 DEF Apart
  <2>2. \A b : b \in Spans(E \ {e}) <=> b \in Spans(E) \ Span(e)
    BY <1>1, <2>1
  <2>3. Span(e) \subseteq Spans(E)
    BY <1>1
  <2> QED BY <1>5, <2>2, <2>3 DEF Apart
<1> QED BY <1>1, <1>2, <1>3, <1>4, <1>5

\* The blocks of records K, of calls C, of the exclusive call X and of the known
\* leak L are the allocated blocks B, each of them once.
Part(K, C, X, L, B) ==
  /\ \A b : b \in B <=> (\E k \in Keys : b \in K[k]) \/ (\E t \in Threads : b \in C[t]) \/ b \in X \/ b \in L
  /\ \A k, l \in Keys : \A b : b \in K[k] /\ b \in K[l] => k = l
  /\ \A t, u \in Threads : \A b : b \in C[t] /\ b \in C[u] => t = u
  /\ \A k \in Keys, t \in Threads : \A b : ~(b \in K[k] /\ b \in C[t])
  /\ \A k \in Keys : \A b \in K[k] : b \notin X /\ b \notin L
  /\ \A t \in Threads : \A b \in C[t] : b \notin X /\ b \notin L
  /\ \A b \in X : b \notin L

\* C is D but for what thread t has.
But(D, C, t, S) == D[t] = S /\ \A u \in Threads : u # t => D[u] = C[u]

(* A call takes free blocks. *)
LEMMA PartTake ==
  ASSUME NEW K, NEW C, NEW X, NEW L, NEW B, Part(K, C, X, L, B), NEW t \in Threads,
         NEW S, S \cap B = {}, NEW D, But(D, C, t, C[t] \cup S)
  PROVE  Part(K, D, X, L, B \cup S)
<1>1. \A u \in Threads : \A b : b \in D[u] <=> b \in C[u] \/ (u = t /\ b \in S)
  BY DEF But
<1>2. \A b \in S : b \notin B
  OBVIOUS
<1>3. \A b \in S : (\A k \in Keys : b \notin K[k]) /\ (\A u \in Threads : b \notin C[u]) /\ b \notin X /\ b \notin L
  BY <1>2 DEF Part
<1> HIDE DEF But
<1>4. \A b : b \in B \cup S <=> (\E k \in Keys : b \in K[k]) \/ (\E u \in Threads : b \in D[u]) \/ b \in X \/ b \in L
  BY <1>1 DEF Part
<1>5. \A v, u \in Threads : \A b : b \in D[v] /\ b \in D[u] => v = u
  BY <1>1, <1>3 DEF Part
<1>6. \A k \in Keys, u \in Threads : \A b : ~(b \in K[k] /\ b \in D[u])
  BY <1>1, <1>3 DEF Part
<1>7. \A u \in Threads : \A b \in D[u] : b \notin X /\ b \notin L
  BY <1>1, <1>3 DEF Part
<1> QED
  BY <1>4, <1>5, <1>6, <1>7 DEF Part

(* Free blocks are lost. *)
LEMMA PartLose ==
  ASSUME NEW K, NEW C, NEW X, NEW L, NEW B, Part(K, C, X, L, B), NEW S, S \cap B = {}
  PROVE  Part(K, C, X, L \cup S, B \cup S)
<1>1. \A b \in S : b \notin B
  OBVIOUS
<1>2. \A b \in S : (\A k \in Keys : b \notin K[k]) /\ (\A u \in Threads : b \notin C[u]) /\ b \notin X /\ b \notin L
  BY <1>1 DEF Part
<1> QED
  BY <1>2 DEF Part

(* A call gives blocks back to the device. *)
LEMMA PartGive ==
  ASSUME NEW K, NEW C, NEW X, NEW L, NEW B, Part(K, C, X, L, B), NEW t \in Threads,
         NEW S, S \subseteq C[t], NEW D, But(D, C, t, C[t] \ S)
  PROVE  Part(K, D, X, L, B \ S) /\ S \subseteq B
<1>1. \A u \in Threads : \A b : b \in D[u] <=> b \in C[u] /\ ~(u = t /\ b \in S)
  BY DEF But
<1>2. \A b \in S : /\ b \in B /\ (\A k \in Keys : b \notin K[k]) /\ (\A u \in Threads : b \in C[u] => u = t)
                   /\ b \notin X /\ b \notin L
  BY DEF Part
<1>3. \A b : b \in B \ S <=> (\E k \in Keys : b \in K[k]) \/ (\E u \in Threads : b \in D[u]) \/ b \in X \/ b \in L
  BY <1>1, <1>2 DEF Part
<1>4. \A k \in Keys, u \in Threads : \A b : ~(b \in K[k] /\ b \in D[u])
  BY <1>1 DEF Part
<1>5. \A v, u \in Threads : \A b : b \in D[v] /\ b \in D[u] => v = u
  BY <1>1 DEF Part
<1>6. \A u \in Threads : \A b \in D[u] : b \notin X /\ b \notin L
  BY <1>1 DEF Part
<1> QED
  BY <1>2, <1>3, <1>4, <1>5, <1>6 DEF Part

(* The exclusive call gives blocks back. *)
LEMMA PartGiveX ==
  ASSUME NEW K, NEW C, NEW X, NEW L, NEW B, Part(K, C, X, L, B), NEW S, S \subseteq X
  PROVE  Part(K, C, X \ S, L, B \ S) /\ S \subseteq B
<1>1. \A b \in S : b \in B /\ (\A k \in Keys : b \notin K[k]) /\ (\A u \in Threads : b \notin C[u]) /\ b \notin L
  BY DEF Part
<1>2. \A b : b \in B \ S <=> (\E k \in Keys : b \in K[k]) \/ (\E u \in Threads : b \in C[u]) \/ b \in X \ S \/ b \in L
  BY <1>1 DEF Part
<1> QED
  BY <1>1, <1>2 DEF Part

(* What a call has is left behind. *)
LEMMA PartLeave ==
  ASSUME NEW K, NEW C, NEW X, NEW L, NEW B, Part(K, C, X, L, B), NEW t \in Threads,
         NEW D, But(D, C, t, {})
  PROVE  Part(K, D, X, L \cup C[t], B)
<1>1. \A u \in Threads : \A b : b \in D[u] <=> b \in C[u] /\ u # t
  BY DEF But
<1>2. \A b : b \in B <=> (\E k \in Keys : b \in K[k]) \/ (\E u \in Threads : b \in D[u]) \/ b \in X \/ b \in L \cup C[t]
  BY <1>1 DEF Part
<1>3. \A v, u \in Threads : \A b : b \in D[v] /\ b \in D[u] => v = u
  BY <1>1 DEF Part
<1>4. \A k \in Keys, u \in Threads : \A b : ~(b \in K[k] /\ b \in D[u])
  BY <1>1 DEF Part
<1>5. \A k \in Keys : \A b \in K[k] : b \notin X /\ b \notin L \cup C[t]
  BY DEF Part
<1>6. \A u \in Threads : \A b \in D[u] : b \notin X /\ b \notin L \cup C[t]
  BY <1>1 DEF Part
<1>7. \A b \in X : b \notin L \cup C[t]
  BY DEF Part
<1> QED
  BY <1>2, <1>3, <1>4, <1>5, <1>6, <1>7 DEF Part

(* A record and a call exchange what they have. *)
LEMMA PartSwap ==
  ASSUME NEW K, NEW C, NEW X, NEW L, NEW B, Part(K, C, X, L, B), NEW t \in Threads, NEW k \in Keys,
         NEW D, But(D, C, t, K[k]), NEW M, M[k] = C[t], \A l \in Keys : l # k => M[l] = K[l]
  PROVE  Part(M, D, X, L, B)
<1>1. \A u \in Threads : \A b : b \in D[u] <=> IF u = t THEN b \in K[k] ELSE b \in C[u]
  BY DEF But
<1>2. \A l \in Keys : \A b : b \in M[l] <=> IF l = k THEN b \in C[t] ELSE b \in K[l]
  OBVIOUS
<1>3. \A b : b \in B <=> (\E l \in Keys : b \in M[l]) \/ (\E u \in Threads : b \in D[u]) \/ b \in X \/ b \in L
  <2>1. \A b : (\E l \in Keys : b \in K[l]) => (\E l \in Keys : b \in M[l]) \/ (\E u \in Threads : b \in D[u])
    BY <1>1, <1>2
  <2>2. \A b : (\E u \in Threads : b \in C[u]) => (\E l \in Keys : b \in M[l]) \/ (\E u \in Threads : b \in D[u])
    BY <1>1, <1>2
  <2>3. \A b : (\E l \in Keys : b \in M[l]) => (\E l \in Keys : b \in K[l]) \/ (\E u \in Threads : b \in C[u])
    BY <1>1, <1>2
  <2>4. \A b : (\E u \in Threads : b \in D[u]) => (\E l \in Keys : b \in K[l]) \/ (\E u \in Threads : b \in C[u])
    BY <1>1, <1>2
  <2> QED BY <2>1, <2>2, <2>3, <2>4 DEF Part
<1>4. \A m, l \in Keys : \A b : b \in M[m] /\ b \in M[l] => m = l
  BY <1>2 DEF Part
<1>5. \A v, u \in Threads : \A b : b \in D[v] /\ b \in D[u] => v = u
  BY <1>1 DEF Part
<1>6. \A l \in Keys, u \in Threads : \A b : ~(b \in M[l] /\ b \in D[u])
  BY <1>1, <1>2 DEF Part
<1>7. \A l \in Keys : \A b \in M[l] : b \notin X /\ b \notin L
  BY <1>2 DEF Part
<1>8. \A u \in Threads : \A b \in D[u] : b \notin X /\ b \notin L
  BY <1>1 DEF Part
<1>9. \A b \in X : b \notin L
  BY DEF Part
<1> QED
  BY <1>3, <1>4, <1>5, <1>6, <1>7, <1>8, <1>9 DEF Part

(* The exclusive call takes over what the records of G have. *)
LEMMA PartDiscard ==
  ASSUME NEW K, NEW C, NEW X, NEW L, NEW B, Part(K, C, X, L, B), X = {}, NEW G, G \subseteq Keys,
         NEW M, \A l \in Keys : M[l] = IF l \in G THEN {} ELSE K[l],
         NEW Y, \A b : b \in Y <=> \E k \in G : b \in K[k]
  PROVE  Part(M, C, Y, L, B)
<1>1. \A l \in Keys : \A b : b \in M[l] <=> b \in K[l] /\ l \notin G
  OBVIOUS
<1>2. \A b : (\E l \in Keys : b \in K[l]) <=> (\E l \in Keys : b \in M[l]) \/ b \in Y
  BY <1>1
<1>3. \A b : b \in B <=> (\E l \in Keys : b \in M[l]) \/ (\E u \in Threads : b \in C[u]) \/ b \in Y \/ b \in L
  BY <1>2 DEF Part
<1>4. \A m, l \in Keys : \A b : b \in M[m] /\ b \in M[l] => m = l
  BY <1>1 DEF Part
<1>5. \A l \in Keys, u \in Threads : \A b : ~(b \in M[l] /\ b \in C[u])
  BY <1>1 DEF Part
<1>6. \A l \in Keys : \A b \in M[l] : b \notin Y /\ b \notin L
  BY <1>1 DEF Part
<1>7. \A u \in Threads : \A b \in C[u] : b \notin Y /\ b \notin L
  BY DEF Part
<1>8. \A b \in Y : b \notin L
  BY DEF Part
<1> QED
  BY <1>3, <1>4, <1>5, <1>6, <1>7, <1>8 DEF Part

-----------------------------------------------------------------------------
(* The device and its owners, as one invariant of the values. *)

Owners(i) == [k \in Keys |-> IF k \in DOMAIN i THEN Spans(i[k].ext) ELSE {}]
Calls(o) == [t \in Threads |-> Spans(ExtOf(o[t]))]
TableApart(f) == \A k \in DOMAIN f : Apart(f[k].ext)
CallApart(o) == Apart(ExtOf(o)) /\ (o.pc \in {"swap", "put"} => Apart(o.rec.ext))
BytesOf(K, d) == \A k \in Keys : \A b \in K[k] : d[b] = k
Writing(o, d) == o.pc = "alloc" => \A b \in Spans(o.ext) : d[b] = o.key

Good ==
  /\ Exact(dev.bitmap, dev.free_list)
  /\ Part(Owners(index), Calls(op), Spans(excl.ext), leaked, dev.bitmap)
  /\ TableApart(index) /\ TableApart(rows) /\ TableApart(prows)
  /\ (\A t \in Threads : CallApart(op[t])) /\ Apart(excl.ext)
  /\ BytesOf(Owners(index), data) /\ \A t \in Threads : Writing(op[t], data)

(* It says what the invariants of the module say. *)
LEMMA GoodIs ==
  ASSUME Types, ShapeOK, Good
  PROVE  FreeListExact /\ SpaceAccounted /\ OneOwner /\ AllApart /\ BytesOK
<1>1. DOMAIN index \subseteq Keys /\ DevOK(dev)
  BY DEF Types, IsTable
<1>2. FreeListExact
  <2>1. PICK bits, f : bits = dev.bitmap /\ f = dev.free_list
    OBVIOUS
  <2>2. bits \subseteq Blocks /\ f = [s \in DOMAIN f |-> f[s]] /\ Exact(bits, f)
    BY <1>1, <2>1 DEF DevOK, ListOK, Good
  <2>3. f = rebuild_free_list(bits)
    BY <2>2, ExactIs
  <2> QED BY <2>1, <2>3 DEF FreeListExact
<1>3. PICK K, C, X, L, B : K = Owners(index) /\ C = Calls(op) /\ X = Spans(excl.ext) /\ L = leaked /\ B = dev.bitmap
  OBVIOUS
<1>4. Part(K, C, X, L, B)
  BY <1>3 DEF Good
<1>5. (\A k \in Keys : KeyBlocks(k) = K[k]) /\ (\A t \in Threads : CallBlocks(t) = C[t])
  BY <1>3 DEF KeyBlocks, CallBlocks, Present, Owners, Calls, CallExt
<1>6. SpaceAccounted
  <2>1. \A b : b \in RowBlocks(index) <=> \E k \in Keys : b \in K[k]
    BY <1>1, <1>3 DEF RowBlocks, Owners
  <2>2. \A b : b \in InFlight <=> b \in X \/ \E t \in Threads : b \in C[t]
    BY <1>3 DEF InFlight, Calls, CallExt
  <2>3. \A b : b \in B <=> b \in RowBlocks(index) \cup InFlight \cup leaked
    BY <1>3, <1>4, <2>1, <2>2 DEF Part
  <2> QED BY <1>3, <2>3 DEF SpaceAccounted
<1>7. OneOwner
  <2>1. \A k, l \in Keys : k # l => K[k] \cap K[l] = {}
    BY <1>4 DEF Part
  <2>2. \A t, u \in Threads : t # u => C[t] \cap C[u] = {}
    BY <1>4 DEF Part
  <2>3. \A k \in Keys, t \in Threads : K[k] \cap C[t] = {}
    BY <1>4 DEF Part
  <2>4. \A k \in Keys : K[k] \cap (L \cup X) = {}
    BY <1>4 DEF Part
  <2>5. \A t \in Threads : C[t] \cap (L \cup X) = {}
    BY <1>4 DEF Part
  <2>6. L \cap X = {}
    BY <1>4 DEF Part
  <2> QED BY <1>3, <1>5, <2>1, <2>2, <2>3, <2>4, <2>5, <2>6 DEF OneOwner
<1>8. AllApart
  BY DEF Good, AllApart, TableApart, CallApart, CallExt
<1>9. BytesOK
  <2>1. \A k \in DOMAIN index : \A b \in KeyBlocks(k) : data[b] = k
    BY <1>1, <1>3, <1>5 DEF Good, BytesOf
  <2>2. \A t \in Threads : op[t].pc = "alloc" => CallBlocks(t) = Spans(op[t].ext)
    BY ExtOfIs DEF CallBlocks, CallExt
  <2> QED BY <2>1, <2>2 DEF BytesOK, Good, Writing
<1> QED
  BY <1>2, <1>6, <1>7, <1>8, <1>9

\* Table g is f with entry k set to r.
Bound(f, g, k, r) == DOMAIN g = DOMAIN f \cup {k} /\ g[k] = r /\ \A l \in DOMAIN f : l # k => g[l] = f[l]

(* Both ways in which an entry is set. *)
LEMMA BoundBy ==
  ASSUME NEW f, NEW k, NEW r
  PROVE  /\ Bound(f, Bind(f, k, r), k, r)
         /\ k \in DOMAIN f => Bound(f, [f EXCEPT ![k] = r], k, r)
BY DEF Bound, Bind

(* Types and blocks of such a table. *)
LEMMA BoundIs ==
  ASSUME NEW f, NEW g, NEW k \in Keys, NEW r, Bound(f, g, k, r)
  PROVE  /\ IsTable(f) /\ r \in Records => IsTable(g)
         /\ TableApart(f) /\ Apart(r.ext) => TableApart(g)
         /\ Owners(g)[k] = Spans(r.ext) /\ \A l \in Keys : l # k => Owners(g)[l] = Owners(f)[l]
<1>1. IsTable(f) /\ r \in Records => IsTable(g)
  BY DEF IsTable, Bound
<1>2. TableApart(f) /\ Apart(r.ext) => TableApart(g)
  BY DEF TableApart, Bound
<1>3. Owners(g)[k] = Spans(r.ext)
  BY DEF Bound, Owners
<1>4. \A l \in Keys : l # k => Owners(g)[l] = Owners(f)[l]
  BY DEF Bound, Owners
<1> QED BY <1>1, <1>2, <1>3, <1>4

(* A record that keeps its extents keeps its blocks. *)
LEMMA SameBlocks ==
  ASSUME NEW f, NEW g, NEW k \in Keys, NEW r, Bound(f, g, k, r),
         (k \in DOMAIN f /\ r.ext = f[k].ext) \/ (k \notin DOMAIN f /\ r.ext = {})
  PROVE  Owners(g) = Owners(f)
<1>0. Owners(g)[k] = Spans(r.ext)
  BY DEF Bound, Owners
<1>1. \A l \in Keys : l # k => Owners(g)[l] = Owners(f)[l]
  BY DEF Bound, Owners
<1>2. Owners(f)[k] = Spans(r.ext)
  BY SpansIs DEF Owners
<1>3. \A l \in Keys : Owners(g)[l] = Owners(f)[l]
  BY <1>0, <1>1, <1>2
<1> QED BY <1>3 DEF Owners

(* Nothing moves. *)
LEMMA PartSame ==
  ASSUME NEW K, NEW C, NEW X, NEW L, NEW B, Part(K, C, X, L, B), NEW t \in Threads, NEW D, But(D, C, t, C[t])
  PROVE  Part(K, D, X, L, B)
<1>1. \A u \in Threads : D[u] = C[u]
  BY DEF But
<1> QED BY <1>1 DEF Part

(* A step of a call keeps the types. *)
LEMMA CallMoves ==
  ASSUME ShapeOK, Types, NEW t \in Threads, NEW o, Step(t, o), CallType(o), excl' = excl,
         IsTable(index'), IsTable(rows'), IsTable(prows'), DevOK(dev'), dbits' \subseteq Blocks,
         data' \in [Blocks -> Keys \cup {Nil}], leaked' \subseteq Blocks
  PROVE  Types'
<1>1. \A u \in Threads : CallType(op'[u])
  BY OneCall DEF Types
<1> QED BY <1>1 DEF Types

(* ... and one that leaves the device alone. *)
LEMMA CallMovesQuietly ==
  ASSUME ShapeOK, Types, NEW t \in Threads, NEW o, Step(t, o), CallType(o),
         IsTable(index'), IsTable(rows'), IsTable(prows'), dbits' \subseteq Blocks,
         UNCHANGED <<excl, dev, data, leaked>>
  PROVE  Types'
<1>1. DevOK(dev') /\ data' \in [Blocks -> Keys \cup {Nil}] /\ leaked' \subseteq Blocks
  BY DEF Types
<1> QED BY <1>1, CallMoves

(* A step of a call keeps the device and its owners. *)
LEMMA CallKeeps ==
  ASSUME ShapeOK, Good, NEW t \in Threads, NEW o, Step(t, o), CallApart(o), excl' = excl,
         TableApart(index'), TableApart(rows'), TableApart(prows'),
         Exact(dev'.bitmap, dev'.free_list), BytesOf(Owners(index'), data'),
         Writing(o, data'), \A u \in Threads \ {t} : Writing(op[u], data'),
         \A D : But(D, Calls(op), t, Spans(ExtOf(o))) =>
                  Part(Owners(index'), D, Spans(excl.ext), leaked', dev'.bitmap)
  PROVE  Good'
<1>1. op'[t] = o /\ \A u \in Threads \ {t} : op'[u] = op[u]
  BY OneCall
<1>2. But(Calls(op'), Calls(op), t, Spans(ExtOf(o)))
  BY <1>1 DEF But, Calls
<1>3. Part(Owners(index'), Calls(op'), Spans(excl'.ext), leaked', dev'.bitmap)
  BY <1>2
<1>4. (\A u \in Threads : CallApart(op'[u])) /\ (\A u \in Threads : Writing(op'[u], data'))
  BY <1>1 DEF Good
<1> QED BY <1>3, <1>4 DEF Good

(* A step of a call that moves no extent. *)
LEMMA CallKeepsQuietly ==
  ASSUME ShapeOK, Good, NEW t \in Threads, NEW o, Step(t, o), CallApart(o), Writing(o, data),
         ExtOf(o) = ExtOf(op[t]), TableApart(index'), TableApart(rows'), TableApart(prows'),
         Owners(index') = Owners(index), UNCHANGED <<excl, dev, data, leaked>>
  PROVE  Good'
<1>1. Calls(op)[t] = Spans(ExtOf(o))
  BY DEF Calls
<1>2. Part(Owners(index), Calls(op), Spans(excl.ext), leaked, dev.bitmap)
  BY DEF Good
<1>3. \A D : But(D, Calls(op), t, Spans(ExtOf(o))) =>
               Part(Owners(index'), D, Spans(excl.ext), leaked', dev'.bitmap)
  <2> SUFFICES ASSUME NEW D, But(D, Calls(op), t, Calls(op)[t])
               PROVE  Part(Owners(index), D, Spans(excl.ext), leaked, dev.bitmap)
    BY <1>1
  <2> QED BY <1>2, PartSame
<1>4. Exact(dev'.bitmap, dev'.free_list) /\ BytesOf(Owners(index'), data') /\ Writing(o, data')
      /\ \A u \in Threads \ {t} : Writing(op[u], data')
  BY DEF Good
<1> QED BY <1>3, <1>4, CallKeeps

-----------------------------------------------------------------------------
(* The calls, once more, for types and for the device. *)

(* The new record of a counted chunk. *)
LEMMA CountedEntry ==
  ASSUME Types, NEW c \in Chunks, Present(c), NEW d \in {1, -1}, index[c].rc + d >= 0,
         index' = [index EXCEPT ![c] = Counted(c, d)]
  PROVE  /\ IsTable(index') /\ index'[c] \in Records /\ index'[c].ext = index[c].ext
         /\ Owners(index') = Owners(index)
         /\ TableApart(index) => TableApart(index') /\ Apart(index'[c].ext)
<1>1. PICK r, f, g : r = Counted(c, d) /\ f = index /\ g = index'
  OBVIOUS
<1>2. c \in Keys /\ c \in DOMAIN f /\ IsTable(f) /\ f[c] \in Records
  BY <1>1, KeysAre DEF Types, Present, IsTable
<1>3. r \in Records /\ r.ext = f[c].ext
  BY <1>1, <1>2, CountedIn
<1>4. Bound(f, g, c, r)
  BY <1>1, <1>2, BoundBy
<1>5. IsTable(g) /\ g[c] = r
  BY <1>2, <1>3, <1>4, BoundIs DEF Bound
<1>6. Owners(g) = Owners(f)
  BY <1>2, <1>3, <1>4, SameBlocks
<1>7. TableApart(f) => Apart(r.ext)
  BY <1>2, <1>3 DEF TableApart
<1>8. TableApart(f) => TableApart(g)
  BY <1>2, <1>4, <1>7, BoundIs
<1> QED BY <1>1, <1>3, <1>5, <1>6, <1>7, <1>8

(* A chunk is counted, its record is to be written. *)
LEMMA CountMoves ==
  ASSUME Types, ShapeOK, NEW t \in Threads, NEW c \in Chunks, Present(c), NEW d \in {1, -1},
         index[c].rc + d >= 0, index' = [index EXCEPT ![c] = Counted(c, d)],
         NEW g, NEW s, Step(t, [pc |-> "put", key |-> c, rec |-> index'[c], gain |-> g, sync |-> s]),
         ExtOf(op[t]) = {}, UNCHANGED <<rows, prows, dev, data, dbits, excl, leaked>>
  PROVE  Types' /\ (Good => Good')
<1>1. /\ IsTable(index') /\ index'[c] \in Records /\ index'[c].ext = index[c].ext
      /\ Owners(index') = Owners(index)
      /\ TableApart(index) => TableApart(index') /\ Apart(index'[c].ext)
  BY CountedEntry
<1>2. PICK r : r = index'[c]
  OBVIOUS
<1>3. PICK o : o = [pc |-> "put", key |-> c, rec |-> r, gain |-> g, sync |-> s]
  OBVIOUS
<1>4. CallType(o) /\ ExtOf(o) = {} /\ o.pc = "put" /\ o.rec = r
  BY <1>1, <1>2, <1>3, PutIs
<1>5. Step(t, o)
  BY <1>2, <1>3
<1>6. IsTable(rows') /\ IsTable(prows') /\ dbits' \subseteq Blocks
  BY DEF Types
<1>7. Types'
  BY <1>1, <1>4, <1>5, <1>6, CallMovesQuietly
<1>8. ASSUME Good PROVE Good'
  <2>1. TableApart(index') /\ TableApart(rows') /\ TableApart(prows') /\ Apart(r.ext)
    BY <1>1, <1>2, <1>8 DEF Good
  <2>2. CallApart(o) /\ Writing(o, data)
    BY <1>4, <2>1 DEF CallApart, Writing, Apart
  <2> QED BY <1>1, <1>4, <1>5, <1>8, <2>1, <2>2, CallKeepsQuietly
<1> QED BY <1>7, <1>8

(* Bump and Decrement. *)
LEMMA CountedMoves ==
  ASSUME Types, ShapeOK, NEW t \in Threads, NEW c \in Chunks, Bump(t, c) \/ Decrement(t, c)
  PROVE  Types' /\ (Good => Good')
<1>1. ExtOf(op[t]) = {} /\ Present(c)
  BY IdleIs DEF Bump, Decrement, Begin
<1>2. index[c].rc \in Nat
  BY <1>1 DEF Types, IsTable, Records, Present
<1>3. CASE Bump(t, c)
  <2>1. /\ index' = [index EXCEPT ![c] = Counted(c, 1)]
        /\ Step(t, [pc |-> "put", key |-> c, rec |-> index'[c], gain |-> 1, sync |-> FALSE])
        /\ UNCHANGED <<rows, prows, dev, data, dbits, excl, leaked>>
    BY <1>3 DEF Bump, media
  <2>2. index[c].rc + 1 >= 0
    BY <1>2
  <2> QED BY <1>1, <2>1, <2>2, CountMoves
<1>4. CASE Decrement(t, c) /\ index[c].rc # 0
  <2>1. /\ index' = [index EXCEPT ![c] = Counted(c, -1)]
        /\ Step(t, [pc |-> "put", key |-> c, rec |-> index'[c], gain |-> 0, sync |-> FALSE])
        /\ UNCHANGED <<rows, prows, dev, data, dbits, excl, leaked>>
    BY <1>4 DEF Decrement, media
  <2>2. index[c].rc + (-1) >= 0
    BY <1>2, <1>4
  <2> QED BY <1>1, <2>1, <2>2, CountMoves
<1>5. CASE Decrement(t, c) /\ index[c].rc = 0
  <2>1. UNCHANGED <<index, op, rows, prows, dev, data, dbits, excl, leaked>>
    BY <1>5 DEF Decrement, media
  <2> QED BY <2>1 DEF Types, Good
<1> QED BY <1>3, <1>4, <1>5

(* Register. *)
LEMMA RegisterMoves ==
  ASSUME Types, ShapeOK, NEW t \in Threads, NEW c \in Chunks, Register(t, c)
  PROVE  Types' /\ (Good => Good')
<1>1. PICK r, o, f, g : r = Fresh({}, 0) /\ o = [pc |-> "reread", key |-> c] /\ f = index /\ g = index'
  OBVIOUS
<1>2. /\ op[t] = Idle /\ c \notin DOMAIN f /\ g = Bind(f, c, r) /\ Step(t, o)
      /\ UNCHANGED <<rows, prows, dev, data, dbits, excl, leaked>>
  BY <1>1 DEF Register, Begin, Present, media
<1>3. r \in Records /\ r.ext = {} /\ c \in Keys /\ IsTable(f)
  BY <1>1, FreshIs, KeysAre DEF Types
<1>4. Bound(f, g, c, r)
  BY <1>2, BoundBy
<1>5. o.pc = "reread" /\ ExtOf(o) = {} /\ ExtOf(op[t]) = {}
  BY <1>1, <1>2, ExtOfIs, IdleIs
<1>6. CallType(o)
  BY <1>5 DEF CallType
<1>7. IsTable(g) /\ Owners(g) = Owners(f) /\ (TableApart(f) => TableApart(g))
  <2>1. Apart(r.ext)
    BY <1>3 DEF Apart
  <2> QED BY <1>2, <1>3, <1>4, <2>1, BoundIs, SameBlocks
<1>8. IsTable(rows') /\ IsTable(prows') /\ dbits' \subseteq Blocks /\ IsTable(index')
  BY <1>1, <1>2, <1>7 DEF Types
<1>9. Types'
  BY <1>2, <1>6, <1>8, CallMovesQuietly
<1>10. ASSUME Good PROVE Good'
  <2>1. CallApart(o) /\ Writing(o, data)
    BY <1>5 DEF CallApart, Writing, Apart
  <2>2. TableApart(index') /\ TableApart(rows') /\ TableApart(prows') /\ Owners(index') = Owners(index)
    BY <1>1, <1>2, <1>7, <1>10 DEF Good
  <2> QED BY <1>2, <1>5, <1>10, <2>1, <2>2, CallKeepsQuietly
<1> QED BY <1>9, <1>10

(* A call that changes neither the index nor what it owns. *)
LEMMA PlainMoves ==
  ASSUME Types, ShapeOK, NEW t \in Threads, NEW o, Step(t, o), CallType(o),
         ExtOf(o) = ExtOf(op[t]),
         o.pc = "put" => op[t].pc = "reread" /\ o.rec = index[op[t].key] /\ Present(op[t].key),
         o.pc # "swap", o.pc = "alloc" => o.ext = {},
         IsTable(rows'), IsTable(prows'), Good => TableApart(rows') /\ TableApart(prows'),
         dbits' \subseteq Blocks, UNCHANGED <<index, dev, data, excl, leaked>>
  PROVE  Types' /\ (Good => Good')
<1>1. Types'
  <2>1. IsTable(index')
    BY DEF Types
  <2> QED BY <2>1, CallMovesQuietly
<1>2. ASSUME Good PROVE Good'
  <2>1. CallApart(o)
    <3>1. Apart(ExtOf(o))
      BY <1>2 DEF Good, CallApart
    <3>2. o.pc = "put" => Apart(o.rec.ext)
      BY <1>2 DEF Good, TableApart, Present
    <3> QED BY <3>1, <3>2 DEF CallApart
  <2>2. Writing(o, data)
    BY SpansIs DEF Writing
  <2>3. TableApart(index') /\ Owners(index') = Owners(index)
    BY <1>2 DEF Good
  <2> QED BY <1>2, <2>1, <2>2, <2>3, CallKeepsQuietly
<1> QED BY <1>1, <1>2

(* Reread, StartWrite, WriteRefused. *)
LEMMA BeginMoves ==
  ASSUME Types, ProtectInv, NEW t \in Threads,
         Reread(t) \/ (\E k \in Keys : StartWrite(t, k)) \/ WriteRefused(t)
  PROVE  Types' /\ (Good => Good')
<1>1. ShapeOK /\ UNCHANGED <<index, rows, prows, dev, data, dbits, excl, leaked>>
  BY DEF ProtectInv, Reread, StartWrite, WriteRefused, media
<1>2. IsTable(rows') /\ IsTable(prows') /\ (Good => TableApart(rows') /\ TableApart(prows')) /\ dbits' \subseteq Blocks
  BY <1>1 DEF Types, Good
<1>3. CASE Reread(t)
  <2>1. PICK k : k = op[t].key
    OBVIOUS
  <2>2. op[t].pc = "reread" /\ k \in Chunks
    BY <1>1, <1>3, <2>1 DEF Reread, ShapeOK, CallOK
  <2>3. Present(k)
    BY <2>1, <2>2 DEF ProtectInv, Tidy, Touches
  <2>4. PICK r : r = index[k]
    OBVIOUS
  <2>5. r \in Records
    BY <2>3, <2>4 DEF Types, IsTable, Present
  <2>6. PICK o : o = [pc |-> "put", key |-> k, rec |-> r, gain |-> 1, sync |-> FALSE]
    OBVIOUS
  <2>7. CallType(o) /\ ExtOf(o) = {} /\ o.pc = "put" /\ o.rec = r
    BY <2>5, <2>6, PutIs
  <2>8. Step(t, o) /\ ExtOf(op[t]) = {}
    BY <1>3, <2>1, <2>2, <2>4, <2>6, ExtOfIs DEF Reread
  <2> QED BY <1>1, <1>2, <2>1, <2>2, <2>3, <2>4, <2>7, <2>8, PlainMoves
<1>4. CASE \E k \in Keys : StartWrite(t, k)
  <2>1. PICK k \in Keys : StartWrite(t, k)
    BY <1>4
  <2>2. PICK o : o = [pc |-> "alloc", key |-> k, ext |-> {}, todo |-> Size[k]]
    OBVIOUS
  <2>3. Step(t, o) /\ op[t] = Idle /\ ExtOf(op[t]) = {}
    BY <2>1, <2>2, IdleIs DEF StartWrite, Begin
  <2>4. o.pc = "alloc" /\ o.ext = {} /\ o.todo = Size[k] /\ o.key = k /\ Size[k] \in Nat
    BY <2>2, ChunkStoreAssumption
  <2>5. ExtOf(o) = {}
    BY <2>4, ExtOfIs
  <2>6. CallType(o)
    BY <2>4, <2>5 DEF CallType
  <2> QED BY <1>1, <1>2, <2>3, <2>4, <2>5, <2>6, PlainMoves
<1>5. CASE WriteRefused(t)
  <2>1. PICK E, k : E = op[t].ext /\ k = op[t].key
    OBVIOUS
  <2>2. op[t].pc = "alloc" /\ ExtOf(op[t]) = E /\ E \subseteq Extents
    BY <1>5, <2>1, ExtOfIs DEF WriteRefused, Types, CallType
  <2>3. PICK o : o = IF E = {} THEN Idle ELSE [pc |-> "undo", key |-> k, ext |-> E]
    OBVIOUS
  <2>4. CallType(o) /\ ExtOf(o) = E /\ o.pc \in {"idle", "undo"}
    BY <2>2, <2>3, UndoType
  <2>5. Step(t, o)
    BY <1>5, <2>1, <2>3 DEF WriteRefused, Undo
  <2> QED BY <1>1, <1>2, <2>2, <2>4, <2>5, PlainMoves
<1> QED BY <1>3, <1>4, <1>5

(* PutRecord, PutFails, SyncWrite. *)
LEMMA PutMoves ==
  ASSUME Types, ShapeOK, NEW t \in Threads, PutRecord(t) \/ PutFails(t) \/ SyncWrite(t)
  PROVE  Types' /\ (Good => Good')
<1>1. /\ op[t].pc \in {"put", "sync"} /\ UNCHANGED <<index, dev, data, excl, leaked>>
      /\ dbits' = dbits \/ dbits' = dev.bitmap
  BY DEF PutRecord, PutFails, SyncWrite, media
<1>2. ExtOf(op[t]) = {} /\ dbits' \subseteq Blocks
  BY <1>1, ExtOfIs DEF Types, DevOK
<1>3. /\ IsTable(rows') /\ IsTable(prows')
      /\ Good => TableApart(rows') /\ TableApart(prows')
  <2>1. CASE PutRecord(t)
    <3>1. PICK k, r : k = op[t].key /\ r = op[t].rec
      OBVIOUS
    <3>2. op[t].pc = "put" /\ k \in Keys /\ r \in Records /\ (Good => Apart(r.ext))
      BY <2>1, <3>1 DEF PutRecord, ShapeOK, CallOK, Types, CallType, Good, CallApart
    <3>3. PICK f : f = Bind(rows, k, r)
      OBVIOUS
    <3>4. rows' = f /\ (prows' = f \/ prows' = prows)
      BY <2>1, <3>1, <3>3 DEF PutRecord, Store
    <3>5. Bound(rows, f, k, r)
      BY <3>3, BoundBy
    <3>6. IsTable(f) /\ (Good => TableApart(f))
      <4>1. IsTable(rows) /\ (Good => TableApart(rows))
        BY DEF Types, Good
      <4>2. /\ IsTable(rows) /\ r \in Records => IsTable(f)
            /\ TableApart(rows) /\ Apart(r.ext) => TableApart(f)
        BY <3>2, <3>5, BoundIs
      <4> QED BY <3>2, <4>1, <4>2
    <3> QED BY <3>4, <3>6 DEF Types, Good
  <2>2. CASE PutFails(t) \/ SyncWrite(t)
    <3>1. UNCHANGED <<rows, prows>>
      BY <2>2 DEF PutFails, SyncWrite
    <3> QED BY <3>1 DEF Types, Good
  <2> QED BY <2>1, <2>2
<1>4. PICK o : Step(t, o) /\ CallType(o) /\ ExtOf(o) = {} /\ o.pc \in {"idle", "sync"}
  <2>1. CASE Step(t, Idle)
    BY <2>1, IdleIs
  <2>2. CASE PutRecord(t) /\ op[t].sync
    <3>1. PICK o : o = [pc |-> "sync", key |-> op[t].key, gain |-> op[t].gain]
      OBVIOUS
    <3>2. Step(t, o) /\ o.pc = "sync"
      BY <2>2, <3>1 DEF PutRecord
    <3>3. ExtOf(o) = {}
      BY <3>2, ExtOfIs
    <3>4. CallType(o)
      BY <3>2, <3>3 DEF CallType
    <3> QED BY <3>2, <3>3, <3>4
  <2>3. Step(t, Idle) \/ (PutRecord(t) /\ op[t].sync)
    BY DEF PutRecord, PutFails, SyncWrite, Return
  <2> QED BY <2>1, <2>2, <2>3
<1> QED BY <1>1, <1>2, <1>3, <1>4, PlainMoves

(* What the device hands to a call. *)
LEMMA Allocated ==
  ASSUME Types, NEW n, Fits(dev, n) # {}
  PROVE  LET r == alloc(dev, n) IN
         /\ r.extent \in Extents /\ r.extent.length = n /\ DevOK(r.after)
         /\ r.after.bitmap = dev.bitmap \cup Span(r.extent)
         /\ Good => Exact(r.after.bitmap, r.after.free_list) /\ Span(r.extent) \cap dev.bitmap = {}
<1>1. ListOK(dev.free_list) /\ dev.bitmap \subseteq Blocks
  BY DEF Types, DevOK
<1>2. PICK r : r = alloc(dev, n)
  OBVIOUS
<1>3. /\ r.extent \in Extents /\ r.extent.length = n
      /\ r.after = [bitmap |-> r.after.bitmap, free_list |-> r.after.free_list]
      /\ r.after.bitmap = dev.bitmap \cup Span(r.extent) /\ r.after.bitmap \subseteq Blocks
      /\ ListOK(r.after.free_list)
      /\ Exact(dev.bitmap, dev.free_list) =>
           Exact(r.after.bitmap, r.after.free_list) /\ Span(r.extent) \cap dev.bitmap = {}
  BY <1>1, <1>2, AllocIs
<1>4. DevOK(r.after)
  BY <1>3 DEF DevOK
<1>5. Good => Exact(dev.bitmap, dev.free_list)
  BY DEF Good
<1> QED BY <1>2, <1>3, <1>4, <1>5

(* What every owner has is allocated. *)
LEMMA OwnedIs ==
  ASSUME Good
  PROVE  /\ \A k \in Keys : Owners(index)[k] \subseteq dev.bitmap
         /\ \A t \in Threads : Calls(op)[t] \subseteq dev.bitmap /\ Spans(ExtOf(op[t])) = Calls(op)[t]
<1>1. PICK K, C, X, L, B : K = Owners(index) /\ C = Calls(op) /\ X = Spans(excl.ext) /\ L = leaked /\ B = dev.bitmap
  OBVIOUS
<1>2. Part(K, C, X, L, B)
  BY <1>1 DEF Good
<1>3. (\A k \in Keys : K[k] \subseteq B) /\ (\A t \in Threads : C[t] \subseteq B)
  BY <1>2 DEF Part
<1>4. \A t \in Threads : Spans(ExtOf(op[t])) = Calls(op)[t]
  BY DEF Calls
<1> QED BY <1>1, <1>3, <1>4

(* One more extent, of blocks that nobody had. *)
LEMMA ApartMore ==
  ASSUME NEW E, Apart(E), NEW e, NEW B, Spans(E) \subseteq B, Span(e) \cap B = {}
  PROVE  Apart(E \cup {e})
<1>1. \A f \in E : Span(f) \subseteq B
  BY SpansIs
<1> QED BY <1>1 DEF Apart

(* The next extent of a payload. *)
LEMMA NextTakeIs ==
  ASSUME Types, NEW t \in Threads, op[t].pc = "alloc", op[t].todo > 0
  PROVE  LET n == NextTake(op[t]) IN
         /\ op[t].todo \in Nat /\ n \in Nat /\ op[t].todo - n \in Nat
         /\ op[t].key \in Fragments => op[t].todo - n = 0 /\ op[t].ext = {}
<1>1. /\ op[t].todo \in Nat /\ MaxExtent \in Nat
      /\ op[t].key \in Fragments => /\ op[t].todo = Size[op[t].key] /\ op[t].ext = {}
                                    /\ op[t].todo <= MaxExtent
  BY ChunkStoreAssumption, DeviceIs DEF Types, CallType
<1>2. CASE op[t].todo < MaxExtent
  BY <1>1, <1>2 DEF NextTake
<1>3. CASE ~(op[t].todo < MaxExtent)
  BY <1>1, <1>3 DEF NextTake
<1> QED BY <1>2, <1>3

(* WriteExtent. *)
LEMMA WriteExtentMoves ==
  ASSUME Types, ShapeOK, NEW t \in Threads, WriteExtent(t)
  PROVE  Types' /\ (Good => Good')
<1>1. PICK n, k, E, m : n = NextTake(op[t]) /\ k = op[t].key /\ E = op[t].ext /\ m = op[t].todo
  OBVIOUS
<1>2. PICK r : r = alloc(dev, n)
  OBVIOUS
<1>3. PICK e : e = r.extent
  OBVIOUS
<1>4. /\ op[t].pc = "alloc" /\ op[t].todo > 0 /\ Fits(dev, n) # {}
      /\ dev' = r.after
      /\ data' = [b \in Blocks |-> IF b \in Span(e) THEN k ELSE data[b]]
      /\ Step(t, [op[t] EXCEPT !.ext = @ \cup {e}, !.todo = @ - e.length])
      /\ UNCHANGED <<index, rows, prows, dbits, excl, leaked>>
  BY <1>1, <1>2, <1>3 DEF WriteExtent
<1>5. /\ e \in Extents /\ e.length = n /\ DevOK(dev') /\ dev'.bitmap = dev.bitmap \cup Span(e)
      /\ Good => Exact(dev'.bitmap, dev'.free_list) /\ Span(e) \cap dev.bitmap = {}
  BY <1>2, <1>3, <1>4, Allocated
<1>6. op[t] = [pc |-> "alloc", key |-> k, ext |-> E, todo |-> m] /\ k \in Keys
  BY <1>1, <1>4 DEF ShapeOK, CallOK
<1>7. m \in Nat /\ m - n \in Nat /\ (k \in Fragments => m - n = 0)
  BY <1>1, <1>4, NextTakeIs
<1>8. ExtOf(op[t]) = E /\ E \subseteq Extents
  BY <1>1, <1>4, ExtOfIs DEF Types, CallType
<1>9. PICK o : o = [op[t] EXCEPT !.ext = @ \cup {e}, !.todo = @ - e.length]
  OBVIOUS
<1>10. Step(t, o)
  BY <1>4, <1>9
<1>11. o.pc = "alloc" /\ o.key = k /\ o.ext = E \cup {e} /\ o.todo = m - n /\ ExtOf(o) = E \cup {e}
  <2>1. PICK p : p = op[t]
    OBVIOUS
  <2>2. p = [pc |-> "alloc", key |-> k, ext |-> E, todo |-> m] /\ e.length = n
    BY <1>5, <1>6, <2>1
  <2>3. DOMAIN p = {"pc", "key", "ext", "todo"} /\ p.pc = "alloc" /\ p.key = k /\ p.ext = E /\ p.todo = m
    BY <2>2
  <2>4. o = [x \in DOMAIN p |-> IF x = "todo" THEN m - n ELSE IF x = "ext" THEN E \cup {e} ELSE p[x]]
    BY <1>9, <2>1, <2>2, <2>3
  <2>5. o.pc = "alloc" /\ o.key = k /\ o.ext = E \cup {e} /\ o.todo = m - n
    BY <2>3, <2>4
  <2> QED BY <2>5, ExtOfIs
<1>12. CallType(o)
  BY <1>5, <1>7, <1>8, <1>11 DEF CallType
<1>13. Types'
  <2>1. data' \in [Blocks -> Keys \cup {Nil}]
    BY <1>4, <1>6 DEF Types
  <2>2. IsTable(index') /\ IsTable(rows') /\ IsTable(prows') /\ dbits' \subseteq Blocks /\ leaked' \subseteq Blocks
        /\ excl' = excl
    BY <1>4 DEF Types
  <2> QED BY <1>5, <1>10, <1>12, <2>1, <2>2, CallMoves
<1>14. ASSUME Good PROVE Good'
  <2>1. /\ Exact(dev'.bitmap, dev'.free_list) /\ Span(e) \cap dev.bitmap = {} /\ dev.bitmap \subseteq Blocks
        /\ Span(e) \subseteq Blocks
    BY <1>5, <1>14, SpanIs DEF Types, DevOK
  <2>2. \A b \in dev.bitmap : data'[b] = data[b]
    BY <1>4, <2>1
  <2>3. \A b \in Span(e) : data'[b] = k
    BY <1>4, <2>1
  <2>4. /\ \A l \in Keys : Owners(index)[l] \subseteq dev.bitmap
        /\ \A u \in Threads : Calls(op)[u] \subseteq dev.bitmap /\ Spans(ExtOf(op[u])) = Calls(op)[u]
    BY <1>14, OwnedIs
  <2>5. Spans(E) = Calls(op)[t] /\ Spans(E \cup {e}) = Spans(E) \cup Span(e) /\ Spans(E) \subseteq dev.bitmap
    BY <1>8, <2>4, SpansIs
  <2>6. CallApart(o)
    <3>1. Apart(E)
      BY <1>8, <1>14 DEF Good, CallApart
    <3>2. Apart(E \cup {e})
      BY <2>1, <2>5, <3>1, ApartMore
    <3> QED BY <1>11, <3>2 DEF CallApart
  <2>7. BytesOf(Owners(index'), data')
    <3>1. \A l \in Keys : \A b \in Owners(index)[l] : data[b] = l
      BY <1>14 DEF Good, BytesOf
    <3> QED BY <1>4, <2>2, <2>4, <3>1 DEF BytesOf
  <2>8. Writing(o, data')
    <3>1. \A b \in Spans(E) : data[b] = k
      BY <1>1, <1>4, <1>14 DEF Good, Writing
    <3> QED BY <1>11, <2>2, <2>3, <2>5, <3>1 DEF Writing
  <2>9. ASSUME NEW u \in Threads PROVE Writing(op[u], data')
    <3> SUFFICES ASSUME op[u].pc = "alloc", NEW b \in Spans(op[u].ext) PROVE data'[b] = op[u].key
      BY DEF Writing
    <3>1. data[b] = op[u].key
      BY <1>14 DEF Good, Writing
    <3>2. ExtOf(op[u]) = op[u].ext
      BY ExtOfIs
    <3>3. b \in dev.bitmap
      BY <2>4, <3>2
    <3> QED BY <2>2, <3>1, <3>3
  <2>10. ASSUME NEW D, But(D, Calls(op), t, Spans(ExtOf(o)))
         PROVE  Part(Owners(index'), D, Spans(excl.ext), leaked', dev'.bitmap)
    <3>1. But(D, Calls(op), t, Calls(op)[t] \cup Span(e))
      BY <1>11, <2>5, <2>10
    <3>2. Part(Owners(index), Calls(op), Spans(excl.ext), leaked, dev.bitmap)
      BY <1>14 DEF Good
    <3>3. Part(Owners(index), D, Spans(excl.ext), leaked, dev.bitmap \cup Span(e))
      BY <2>1, <3>1, <3>2, PartTake
    <3> QED BY <1>4, <1>5, <3>3
  <2>11. TableApart(index') /\ TableApart(rows') /\ TableApart(prows') /\ excl' = excl
    BY <1>4, <1>14 DEF Good
  <2> QED BY <1>10, <1>14, <2>1, <2>6, <2>7, <2>8, <2>9, <2>10, <2>11, CallKeeps
<1> QED BY <1>13, <1>14

(* A call that leaves the records and their bytes alone: device and leak change. *)
LEMMA SpaceMoves ==
  ASSUME Types, ShapeOK, NEW t \in Threads, NEW o, Step(t, o), CallType(o), o.pc # "alloc",
         DevOK(dev'), leaked' \subseteq Blocks, UNCHANGED <<index, rows, prows, dbits, data, excl>>,
         Good => /\ Exact(dev'.bitmap, dev'.free_list) /\ CallApart(o)
                 /\ \A D : But(D, Calls(op), t, Spans(ExtOf(o))) =>
                             Part(Owners(index), D, Spans(excl.ext), leaked', dev'.bitmap)
  PROVE  Types' /\ (Good => Good')
<1>1. Types'
  <2>1. IsTable(index') /\ IsTable(rows') /\ IsTable(prows') /\ dbits' \subseteq Blocks
        /\ data' \in [Blocks -> Keys \cup {Nil}]
    BY DEF Types
  <2> QED BY <2>1, CallMoves
<1>2. ASSUME Good PROVE Good'
  <2>1. /\ TableApart(index') /\ TableApart(rows') /\ TableApart(prows') /\ BytesOf(Owners(index'), data')
        /\ \A u \in Threads \ {t} : Writing(op[u], data')
    BY <1>2 DEF Good
  <2>2. Writing(o, data')
    BY DEF Writing
  <2>3. \A D : But(D, Calls(op), t, Spans(ExtOf(o))) =>
                 Part(Owners(index'), D, Spans(excl.ext), leaked', dev'.bitmap)
    BY <1>2
  <2> QED BY <1>2, <2>1, <2>2, <2>3, CallKeeps
<1> QED BY <1>1, <1>2

(* WriteFails. *)
LEMMA WriteFailsMoves ==
  ASSUME Types, ShapeOK, NEW t \in Threads, WriteFails(t)
  PROVE  Types' /\ (Good => Good')
<1>1. PICK n, k, E : n = NextTake(op[t]) /\ k = op[t].key /\ E = op[t].ext
  OBVIOUS
<1>2. PICK r : r = alloc(dev, n)
  OBVIOUS
<1>3. PICK e : e = r.extent
  OBVIOUS
<1>4. /\ op[t].pc = "alloc" /\ op[t].todo > 0 /\ Fits(dev, n) # {} /\ dev' = r.after
      /\ IF k \in Chunks THEN Undo(t, E \cup {e}) /\ leaked' = leaked
                         ELSE Step(t, Idle) /\ leaked' = leaked \cup Span(e)
      /\ UNCHANGED <<index, rows, prows, dbits, data, excl>>
  BY <1>1, <1>2, <1>3 DEF WriteFails
<1>5. /\ e \in Extents /\ DevOK(dev') /\ dev'.bitmap = dev.bitmap \cup Span(e) /\ Span(e) \subseteq Blocks
      /\ Good => Exact(dev'.bitmap, dev'.free_list) /\ Span(e) \cap dev.bitmap = {}
  BY <1>2, <1>3, <1>4, Allocated, SpanIs
<1>6. ExtOf(op[t]) = E /\ E \subseteq Extents /\ leaked \subseteq Blocks /\ k \in Keys
  BY <1>1, <1>4, ExtOfIs DEF Types, CallType, ShapeOK, CallOK
<1>7. CASE k \in Chunks
  <2>1. PICK F : F = E \cup {e}
    OBVIOUS
  <2>2. PICK o : o = IF F = {} THEN Idle ELSE [pc |-> "undo", key |-> k, ext |-> F]
    OBVIOUS
  <2>3. F \subseteq Extents
    BY <1>5, <1>6, <2>1
  <2>4. CallType(o) /\ ExtOf(o) = F /\ o.pc \in {"idle", "undo"}
    BY <2>2, <2>3, UndoType
  <2>5. Step(t, o) /\ leaked' = leaked
    BY <1>1, <1>4, <1>7, <2>1, <2>2 DEF Undo
  <2>6. ASSUME Good
        PROVE  /\ CallApart(o)
               /\ \A D : But(D, Calls(op), t, Spans(ExtOf(o))) =>
                           Part(Owners(index), D, Spans(excl.ext), leaked', dev'.bitmap)
    <3>1. Spans(E) = Calls(op)[t] /\ Spans(E \cup {e}) = Spans(E) \cup Span(e) /\ Spans(E) \subseteq dev.bitmap
      BY <1>6, <2>6, OwnedIs, SpansIs
    <3>2. Apart(E)
      BY <1>6, <2>6 DEF Good, CallApart
    <3>3. Apart(F)
      BY <1>5, <2>1, <2>6, <3>1, <3>2, ApartMore
    <3>4. ASSUME NEW D, But(D, Calls(op), t, Spans(ExtOf(o)))
          PROVE  Part(Owners(index), D, Spans(excl.ext), leaked', dev'.bitmap)
      <4>1. But(D, Calls(op), t, Calls(op)[t] \cup Span(e))
        BY <2>1, <2>4, <3>1, <3>4
      <4>2. Part(Owners(index), Calls(op), Spans(excl.ext), leaked, dev.bitmap)
        BY <2>6 DEF Good
      <4>3. Part(Owners(index), D, Spans(excl.ext), leaked, dev.bitmap \cup Span(e))
        BY <1>5, <2>6, <4>1, <4>2, PartTake
      <4> QED BY <1>5, <2>5, <4>3
    <3> QED BY <2>4, <3>3, <3>4 DEF CallApart
  <2> QED BY <1>4, <1>5, <1>6, <2>4, <2>5, <2>6, SpaceMoves
<1>8. CASE k \notin Chunks
  <2>1. Step(t, Idle) /\ leaked' = leaked \cup Span(e) /\ k \in Fragments
    BY <1>4, <1>6, <1>8, KeysAre
  <2>2. E = {}
    BY <1>1, <1>4, <2>1, NextTakeIs
  <2>3. CallType(Idle) /\ ExtOf(Idle) = {} /\ Idle.pc # "alloc"
    BY IdleIs
  <2>4. ASSUME Good
        PROVE  /\ CallApart(Idle)
               /\ \A D : But(D, Calls(op), t, Spans(ExtOf(Idle))) =>
                           Part(Owners(index), D, Spans(excl.ext), leaked', dev'.bitmap)
    <3>1. Calls(op)[t] = Spans(ExtOf(Idle))
      BY <1>6, <2>2, <2>3 DEF Calls
    <3>2. CallApart(Idle)
      BY IdleIs DEF CallApart, Apart
    <3>3. ASSUME NEW D, But(D, Calls(op), t, Calls(op)[t])
          PROVE  Part(Owners(index), D, Spans(excl.ext), leaked', dev'.bitmap)
      <4>1. Part(Owners(index), Calls(op), Spans(excl.ext), leaked, dev.bitmap)
        BY <2>4 DEF Good
      <4>2. Part(Owners(index), D, Spans(excl.ext), leaked, dev.bitmap)
        BY <3>3, <4>1, PartSame
      <4>3. Part(Owners(index), D, Spans(excl.ext), leaked \cup Span(e), dev.bitmap \cup Span(e))
        BY <1>5, <2>4, <4>2, PartLose
      <4> QED BY <1>5, <2>1, <4>3
    <3> QED BY <3>1, <3>2, <3>3
  <2> QED BY <1>4, <1>5, <1>6, <2>1, <2>3, <2>4, SpaceMoves
<1> QED BY <1>7, <1>8

(* A call frees one of its extents. *)
LEMMA FreeMoves ==
  ASSUME Types, ShapeOK, NEW t \in Threads, NEW e \in ExtOf(op[t]), dev' = free(dev, e),
         NEW o, Step(t, o), CallType(o), o.pc # "alloc", ExtOf(o) = ExtOf(op[t]) \ {e},
         Good => (o.pc \in {"swap", "put"} => Apart(o.rec.ext)),
         UNCHANGED <<index, rows, prows, dbits, data, excl, leaked>>
  PROVE  Types' /\ (Good => Good')
<1>1. PICK E : E = ExtOf(op[t])
  OBVIOUS
<1>2. e \in E /\ E \subseteq Extents /\ e \in Extents /\ ListOK(dev.free_list) /\ dev.bitmap \subseteq Blocks
      /\ leaked' \subseteq Blocks
  BY <1>1 DEF Types, CallType, DevOK
<1>3. PICK d : d = free(dev, e)
  OBVIOUS
<1>4. /\ d = [bitmap |-> d.bitmap, free_list |-> d.free_list]
      /\ d.bitmap = dev.bitmap \ Span(e) /\ ListOK(d.free_list)
      /\ Exact(dev.bitmap, dev.free_list) /\ Span(e) \subseteq dev.bitmap => Exact(d.bitmap, d.free_list)
  BY <1>2, <1>3, FreeIs
<1>5. DevOK(d) /\ dev' = d
  BY <1>2, <1>3, <1>4 DEF DevOK
<1>6. ASSUME Good
      PROVE  /\ Exact(dev'.bitmap, dev'.free_list) /\ CallApart(o)
             /\ \A D : But(D, Calls(op), t, Spans(ExtOf(o))) =>
                         Part(Owners(index), D, Spans(excl.ext), leaked', dev'.bitmap)
  <2>1. Apart(E) /\ Exact(dev.bitmap, dev.free_list)
    BY <1>1, <1>6 DEF Good, CallApart
  <2>2. Spans(E \ {e}) = Spans(E) \ Span(e) /\ Span(e) \subseteq Spans(E) /\ Apart(E \ {e})
    BY <1>2, <2>1, SpansIs
  <2>3. Spans(E) = Calls(op)[t] /\ Spans(E) \subseteq dev.bitmap
    BY <1>1, <1>6, OwnedIs
  <2>4. Exact(d.bitmap, d.free_list)
    BY <1>4, <2>1, <2>2, <2>3
  <2>5. CallApart(o)
    BY <1>1, <1>6, <2>2 DEF CallApart
  <2>6. ASSUME NEW D, But(D, Calls(op), t, Spans(ExtOf(o)))
        PROVE  Part(Owners(index), D, Spans(excl.ext), leaked', dev'.bitmap)
    <3>1. But(D, Calls(op), t, Calls(op)[t] \ Span(e)) /\ Span(e) \subseteq Calls(op)[t]
      BY <1>1, <2>2, <2>3, <2>6
    <3>2. Part(Owners(index), Calls(op), Spans(excl.ext), leaked, dev.bitmap)
      BY <1>6 DEF Good
    <3>3. Part(Owners(index), D, Spans(excl.ext), leaked, dev.bitmap \ Span(e))
      BY <3>1, <3>2, PartGive
    <3> QED BY <1>4, <1>5, <3>3
  <2> QED BY <1>5, <2>4, <2>5, <2>6
<1> QED BY <1>2, <1>5, <1>6, SpaceMoves

(* FreeExtent. *)
LEMMA FreeExtentMoves ==
  ASSUME Types, ShapeOK, NEW t \in Threads, FreeExtent(t)
  PROVE  Types' /\ (Good => Good')
<1>1. PICK e \in op[t].ext : dev' = free(dev, e) /\ Undo(t, op[t].ext \ {e})
  BY DEF FreeExtent
<1>2. op[t].pc = "undo" /\ UNCHANGED <<index, rows, prows, dbits, data, excl, leaked>>
  BY DEF FreeExtent
<1>3. ExtOf(op[t]) = op[t].ext /\ op[t].ext \subseteq Extents
  BY <1>2, ExtOfIs DEF Types, CallType
<1>4. PICK E, k : E = op[t].ext \ {e} /\ k = op[t].key
  OBVIOUS
<1>5. PICK o : o = IF E = {} THEN Idle ELSE [pc |-> "undo", key |-> k, ext |-> E]
  OBVIOUS
<1>6. Step(t, o) /\ E \subseteq Extents
  BY <1>1, <1>3, <1>4, <1>5 DEF Undo
<1>7. CallType(o) /\ ExtOf(o) = E /\ o.pc \in {"idle", "undo"}
  BY <1>5, <1>6, UndoType
<1> QED BY <1>1, <1>2, <1>3, <1>4, <1>6, <1>7, FreeMoves

(* FreeOld. *)
LEMMA FreeOldMoves ==
  ASSUME Types, ShapeOK, NEW t \in Threads, FreeOld(t)
  PROVE  Types' /\ (Good => Good')
<1>1. PICK k, r : k = op[t].key /\ r = op[t].rec
  OBVIOUS
<1>2. PICK e \in op[t].old : dev' = free(dev, e) /\ Step(t, Swapped(k, r, op[t].old \ {e}))
  BY <1>1 DEF FreeOld
<1>3. op[t].pc = "swap" /\ UNCHANGED <<index, rows, prows, dbits, data, excl, leaked>>
  BY DEF FreeOld
<1>4. ExtOf(op[t]) = op[t].old /\ op[t].old \subseteq Extents /\ r \in Records
  BY <1>1, <1>3, ExtOfIs DEF Types, CallType
<1>5. PICK E : E = op[t].old \ {e}
  OBVIOUS
<1>6. PICK o : o = Swapped(k, r, E)
  OBVIOUS
<1>7. Step(t, o) /\ E \subseteq Extents
  BY <1>2, <1>4, <1>5, <1>6
<1>8. CallType(o) /\ ExtOf(o) = E /\ o.pc \in {"swap", "put"} /\ o.rec = r
  BY <1>4, <1>6, <1>7, SwappedType
<1>9. Good => Apart(r.ext)
  BY <1>1, <1>3 DEF Good, CallApart
<1> QED BY <1>2, <1>3, <1>4, <1>5, <1>7, <1>8, <1>9, FreeMoves

(* The extents of a call become those of a record, which leaves its old ones *)
(* to the call.                                                              *)
LEMMA HandOver ==
  ASSUME Types, ShapeOK, NEW t \in Threads, op[t].pc = "alloc", op[t].key \in Keys,
         NEW r \in Records, r.ext = op[t].ext, Bound(index, index', op[t].key, r),
         NEW o, Step(t, o), CallType(o), o.pc \in {"swap", "put"}, o.rec = r,
         ExtOf(o) = IF Present(op[t].key) THEN index[op[t].key].ext ELSE {},
         UNCHANGED <<rows, prows, dev, data, dbits, excl, leaked>>
  PROVE  Types' /\ (Good => Good')
<1>1. PICK k, E, f, g : k = op[t].key /\ E = op[t].ext /\ f = index /\ g = index'
  OBVIOUS
<1>2. k \in Keys /\ r.ext = E /\ Bound(f, g, k, r) /\ IsTable(f) /\ ExtOf(op[t]) = E
  BY <1>1, ExtOfIs DEF Types
<1>3. /\ IsTable(g) /\ (TableApart(f) /\ Apart(r.ext) => TableApart(g))
      /\ Owners(g)[k] = Spans(E) /\ \A l \in Keys : l # k => Owners(g)[l] = Owners(f)[l]
  BY <1>2, BoundIs
<1>4. Types'
  <2>1. IsTable(index') /\ IsTable(rows') /\ IsTable(prows') /\ dbits' \subseteq Blocks
    BY <1>1, <1>3 DEF Types
  <2> QED BY <2>1, CallMovesQuietly
<1>5. ASSUME Good PROVE Good'
  <2>1. Apart(E) /\ TableApart(f) /\ TableApart(rows') /\ TableApart(prows')
    BY <1>1, <1>2, <1>5 DEF Good, CallApart
  <2>2. TableApart(index')
    BY <1>1, <1>2, <1>3, <2>1
  <2>3. Apart(ExtOf(o))
    <3>1. CASE Present(k)
      BY <1>1, <2>1, <3>1 DEF TableApart, Present
    <3>2. CASE ~Present(k)
      BY <1>1, <3>2 DEF Apart
    <3> QED BY <3>1, <3>2
  <2>4. CallApart(o)
    BY <1>2, <2>1, <2>3 DEF CallApart
  <2>5. Spans(ExtOf(o)) = Owners(f)[k]
    <3>1. CASE Present(k)
      BY <1>1, <1>2, <3>1 DEF Owners, Present
    <3>2. CASE ~Present(k)
      <4>1. ExtOf(o) = {}
        BY <1>1, <3>2
      <4> QED BY <1>1, <1>2, <3>2, <4>1, SpansIs DEF Owners, Present
    <3> QED BY <3>1, <3>2
  <2>6. Spans(E) = Calls(op)[t]
    BY <1>2 DEF Calls
  <2>7. ASSUME NEW D, But(D, Calls(op), t, Spans(ExtOf(o)))
        PROVE  Part(Owners(index'), D, Spans(excl.ext), leaked', dev'.bitmap)
    <3>1. Part(Owners(f), Calls(op), Spans(excl.ext), leaked, dev.bitmap)
      BY <1>1, <1>5 DEF Good
    <3>2. But(D, Calls(op), t, Owners(f)[k])
      BY <2>5, <2>7
    <3>3. Part(Owners(g), D, Spans(excl.ext), leaked, dev.bitmap)
      BY <1>2, <1>3, <2>6, <3>1, <3>2, PartSwap
    <3> QED BY <1>1, <3>3
  <2>8. BytesOf(Owners(index'), data')
    <3>1. \A b \in Spans(E) : data[b] = k
      BY <1>1, <1>5 DEF Good, Writing
    <3>2. \A l \in Keys : \A b \in Owners(f)[l] : data[b] = l
      BY <1>1, <1>5 DEF Good, BytesOf
    <3> QED BY <1>1, <1>3, <3>1, <3>2 DEF BytesOf
  <2>9. Writing(o, data') /\ \A u \in Threads \ {t} : Writing(op[u], data')
    BY <1>5 DEF Good, Writing
  <2>10. Exact(dev'.bitmap, dev'.free_list)
    BY <1>5 DEF Good
  <2> QED BY <1>5, <2>1, <2>2, <2>4, <2>7, <2>8, <2>9, <2>10, CallKeeps
<1> QED BY <1>4, <1>5

(* SwapFragment. *)
LEMMA SwapFragmentMoves ==
  ASSUME Types, ShapeOK, NEW t \in Threads, SwapFragment(t)
  PROVE  Types' /\ (Good => Good')
<1>1. PICK k, E : k = op[t].key /\ E = op[t].ext
  OBVIOUS
<1>2. PICK v : v = IF Present(k) THEN index[k].ver + 1 ELSE 0
  OBVIOUS
<1>3. PICK r : r = Fresh(E, v)
  OBVIOUS
<1>4. PICK g : g = index'
  OBVIOUS
<1>5. PICK old : old = IF Present(k) THEN index[k].ext ELSE {}
  OBVIOUS
<1>6. PICK o : o = Swapped(k, g[k], old)
  OBVIOUS
<1>7. /\ Step(t, o) /\ op[t].pc = "alloc" /\ k \in Fragments /\ g = Bind(index, k, r)
      /\ UNCHANGED <<rows, prows, dev, data, dbits, excl, leaked>>
  BY <1>1, <1>2, <1>3, <1>4, <1>5, <1>6 DEF SwapFragment, media
<1>8. E \subseteq Extents /\ k \in Keys
  BY <1>1, <1>7, ExtOfIs, KeysAre DEF Types, CallType
<1>9. v \in Nat /\ old \subseteq Extents
  <2>1. Present(k) => index[k] \in Records
    BY DEF Types, IsTable, Present
  <2>2. Present(k) => index[k].ver \in Nat /\ index[k].ext \subseteq Extents
    BY <2>1, RecordIs
  <2> QED BY <1>2, <1>5, <2>2
<1>10. r \in Records /\ r.ext = E
  BY <1>3, <1>8, <1>9, FreshIs
<1>11. Bound(index, g, k, r)
  BY <1>7, BoundBy
<1>12. g[k] = r
  BY <1>11 DEF Bound
<1>13. CallType(o) /\ ExtOf(o) = old /\ o.pc \in {"swap", "put"} /\ o.rec = r
  BY <1>6, <1>9, <1>10, <1>12, SwappedType
<1> QED BY <1>1, <1>4, <1>5, <1>7, <1>8, <1>10, <1>11, <1>13, HandOver

(* Recheck. *)
LEMMA RecheckMoves ==
  ASSUME Types, ShapeOK, NEW t \in Threads, Recheck(t)
  PROVE  Types' /\ (Good => Good')
<1>1. PICK c, E : c = op[t].key /\ E = op[t].ext
  OBVIOUS
<1>2. PICK s : s = (syncPerWrite /\ ~Present(c))
  OBVIOUS
<1>3. PICK g : g = index'
  OBVIOUS
<1>4. PICK o : o = [pc |-> "put", key |-> c, rec |-> g[c], gain |-> 1, sync |-> s]
  OBVIOUS
<1>5. /\ Step(t, o) /\ op[t].pc = "alloc" /\ c \in Chunks
      /\ UNCHANGED <<rows, prows, dev, data, dbits, excl>>
  BY <1>1, <1>2, <1>3, <1>4 DEF Recheck, media
<1>6. E \subseteq Extents /\ c \in Keys /\ ExtOf(op[t]) = E
  BY <1>1, <1>5, ExtOfIs, KeysAre DEF Types, CallType
<1>7. CASE Present(c)
  <2>1. index' = [index EXCEPT ![c] = Counted(c, 1)] /\ leaked' = leaked \cup Spans(E)
    BY <1>1, <1>7 DEF Recheck
  <2>2. index[c].rc \in Nat
    BY <1>7 DEF Types, IsTable, Records, Present
  <2>3. index[c].rc + 1 >= 0
    BY <2>2
  <2>4. /\ IsTable(index') /\ index'[c] \in Records
        /\ Owners(index') = Owners(index)
        /\ TableApart(index) => TableApart(index') /\ Apart(index'[c].ext)
    BY <1>5, <1>7, <2>1, <2>3, CountedEntry
  <2>5. PICK r : r = g[c]
    OBVIOUS
  <2>6. r \in Records /\ (TableApart(index) => Apart(r.ext))
    BY <1>3, <2>4, <2>5
  <2>7. CallType(o) /\ ExtOf(o) = {} /\ o.pc = "put" /\ o.rec = r
    BY <1>4, <2>5, <2>6, PutIs
  <2>8. Types'
    <3>1. /\ IsTable(rows') /\ IsTable(prows') /\ dbits' \subseteq Blocks /\ DevOK(dev') /\ excl' = excl
          /\ data' \in [Blocks -> Keys \cup {Nil}] /\ leaked' \subseteq Blocks
      BY <1>5, <1>6, <2>1, SpansIs DEF Types
    <3> QED BY <1>5, <2>4, <2>7, <3>1, CallMoves
  <2>9. ASSUME Good PROVE Good'
    <3>1. TableApart(index') /\ TableApart(rows') /\ TableApart(prows') /\ Apart(r.ext)
      BY <1>5, <2>4, <2>6, <2>9 DEF Good
    <3>2. CallApart(o) /\ Writing(o, data')
      BY <2>7, <3>1 DEF CallApart, Writing, Apart
    <3>3. /\ Exact(dev'.bitmap, dev'.free_list) /\ BytesOf(Owners(index'), data')
          /\ \A u \in Threads \ {t} : Writing(op[u], data')
      BY <1>5, <2>4, <2>9 DEF Good
    <3>4. ASSUME NEW D, But(D, Calls(op), t, Spans(ExtOf(o)))
          PROVE  Part(Owners(index'), D, Spans(excl.ext), leaked', dev'.bitmap)
      <4>1. But(D, Calls(op), t, {}) /\ Spans(E) = Calls(op)[t]
        <5>1. Spans(ExtOf(o)) = {}
          BY <2>7, SpansIs
        <5>2. But(D, Calls(op), t, {})
          BY <3>4, <5>1
        <5>3. Spans(E) = Calls(op)[t]
          BY <1>6 DEF Calls
        <5> QED BY <5>2, <5>3
      <4>2. Part(Owners(index), Calls(op), Spans(excl.ext), leaked, dev.bitmap)
        BY <2>9 DEF Good
      <4>3. Part(Owners(index), D, Spans(excl.ext), leaked \cup Calls(op)[t], dev.bitmap)
        BY <4>1, <4>2, PartLeave
      <4> QED BY <1>5, <2>1, <2>4, <4>1, <4>3
    <3> QED BY <1>5, <2>9, <3>1, <3>2, <3>3, <3>4, CallKeeps
  <2> QED BY <2>8, <2>9
<1>8. CASE ~Present(c)
  <2>1. PICK r : r = Fresh(E, 0)
    OBVIOUS
  <2>2. g = Bind(index, c, r) /\ leaked' = leaked
    BY <1>1, <1>3, <1>8, <2>1 DEF Recheck
  <2>3. r \in Records /\ r.ext = E
    BY <1>6, <2>1, FreshIs
  <2>4. Bound(index, g, c, r)
    BY <2>2, BoundBy
  <2>5. g[c] = r
    BY <2>4 DEF Bound
  <2>6. CallType(o) /\ ExtOf(o) = {} /\ o.pc = "put" /\ o.rec = r
    BY <1>4, <2>3, <2>5, PutIs
  <2> QED BY <1>1, <1>3, <1>5, <1>6, <1>8, <2>2, <2>3, <2>4, <2>6, HandOver
<1> QED BY <1>7, <1>8

-----------------------------------------------------------------------------
(* The calls that exclude the others, and the background tasks. *)

(* Steps that move no block. *)
LEMMA StillMoves ==
  ASSUME Types, UNCHANGED <<op, dev, data, leaked>>, dbits' \subseteq Blocks,
         IsTable(index'), IsTable(rows'), IsTable(prows'),
         excl'.ext = excl.ext, excl'.keys = {} => excl'.ext = {},
         Good => /\ TableApart(index') /\ TableApart(rows') /\ TableApart(prows')
                 /\ Owners(index') = Owners(index)
  PROVE  Types' /\ (Good => Good')
<1>1. Types'
  BY DEF Types
<1> QED BY <1>1 DEF Good

(* FlushTask, PersistRows, GcSync. *)
LEMMA FlushMoves ==
  ASSUME Types, FlushTask \/ PersistRows \/ GcSync
  PROVE  Types' /\ (Good => Good')
<1>1. /\ UNCHANGED <<index, rows, op, dev, data, leaked>> /\ prows' \in {prows, rows}
      /\ dbits' \in {dbits, dev.bitmap}
  BY DEF FlushTask, PersistRows, GcSync, media
<1>2. excl'.ext = excl.ext /\ (excl'.keys = {} => excl'.ext = {})
  BY DEF FlushTask, PersistRows, GcSync, Free, Types
<1>3. dbits' \subseteq Blocks /\ IsTable(index') /\ IsTable(rows') /\ IsTable(prows')
  BY <1>1 DEF Types, DevOK
<1>4. Good => /\ TableApart(index') /\ TableApart(rows') /\ TableApart(prows')
              /\ Owners(index') = Owners(index)
  BY <1>1 DEF Good
<1> QED BY <1>1, <1>2, <1>3, <1>4, StillMoves

(* RemoveRow. *)
LEMMA RemoveRowMoves ==
  ASSUME Types, ShapeOK, NEW k \in Keys, RemoveRow(k)
  PROVE  Types' /\ (Good => Good')
<1>1. PICK f : f = Without(rows, k)
  OBVIOUS
<1>2. /\ UNCHANGED <<index, op, dev, data, leaked, dbits>> /\ rows' = f /\ prows' \in {prows, f}
      /\ excl.ext = {}
  BY <1>1 DEF RemoveRow, Store, media
<1>3. excl'.ext = {}
  <2>1. PICK x : x = excl
    OBVIOUS
  <2>2. x = [pc |-> x.pc, keys |-> x.keys, ext |-> x.ext] /\ x.ext = {}
    BY <1>2, <2>1 DEF ShapeOK, ExclOK
  <2>3. excl' = Free \/ excl' = [x EXCEPT !.keys = @ \ {k}]
    BY <2>1 DEF RemoveRow
  <2>4. [x EXCEPT !.keys = @ \ {k}].ext = {} /\ Free.ext = {}
    BY <2>2 DEF Free
  <2> QED BY <2>3, <2>4
<1>4. IsTable(f) /\ (TableApart(rows) => TableApart(f))
  <2>1. IsTable(f)
    BY <1>1, TableWithout DEF Types
  <2> QED BY <1>1, <2>1 DEF TableApart, Without
<1>5. dbits' \subseteq Blocks /\ IsTable(index') /\ IsTable(rows') /\ IsTable(prows')
  BY <1>2, <1>4 DEF Types
<1>6. Good => /\ TableApart(index') /\ TableApart(rows') /\ TableApart(prows')
              /\ Owners(index') = Owners(index)
  BY <1>2, <1>4 DEF Good
<1> QED BY <1>2, <1>3, <1>5, <1>6, StillMoves

(* SetHold. *)
LEMMA SetHoldMoves ==
  ASSUME Types, NEW c \in Chunks, NEW on \in BOOLEAN, SetHold(c, on)
  PROVE  Types' /\ (Good => Good')
<1>1. PICK q : q = index[c]
  OBVIOUS
<1>2. PICK r : r = [q EXCEPT !.hold = on, !.ver = @ + 1]
  OBVIOUS
<1>3. PICK g : g = [index EXCEPT ![c] = r]
  OBVIOUS
<1>4. /\ c \in DOMAIN index /\ index' = g /\ UNCHANGED <<op, dev, data, leaked, dbits, excl>>
      /\ rows' = Bind(rows, c, g[c]) /\ prows' \in {prows, rows'} /\ c \in Keys
  BY <1>1, <1>2, <1>3, KeysAre DEF SetHold, Present, Store, media
<1>5. q \in Records
  BY <1>1, <1>4 DEF Types, IsTable
<1>6. r \in Records /\ r.ext = q.ext
  <2>1. /\ q = [rc |-> q.rc, hold |-> q.hold, ext |-> q.ext, ver |-> q.ver]
        /\ q.rc \in Nat /\ q.hold \in BOOLEAN /\ q.ext \subseteq Extents /\ q.ver \in Nat
    BY <1>5, RecordIs
  <2>2. r = [rc |-> q.rc, hold |-> on, ext |-> q.ext, ver |-> q.ver + 1]
    BY <1>2, <2>1
  <2> QED BY <2>1, <2>2 DEF Records
<1>7. Bound(index, g, c, r) /\ g[c] = r
  BY <1>3, <1>4, BoundBy DEF Bound
<1>8. PICK f : f = Bind(rows, c, r)
  OBVIOUS
<1>9. rows' = f /\ Bound(rows, f, c, r)
  BY <1>4, <1>7, <1>8, BoundBy
<1>10. IsTable(g) /\ Owners(g) = Owners(index)
  <2>1. IsTable(index)
    BY DEF Types
  <2> QED BY <1>1, <1>4, <1>6, <1>7, <2>1, BoundIs, SameBlocks
<1>11. IsTable(f)
  <2>1. IsTable(rows)
    BY DEF Types
  <2> QED BY <1>4, <1>6, <1>9, <2>1, BoundIs
<1>12. Good => TableApart(g) /\ TableApart(f)
  <2>1. Good => TableApart(index) /\ TableApart(rows) /\ Apart(r.ext)
    BY <1>1, <1>4, <1>6 DEF Good, TableApart
  <2> QED BY <1>4, <1>7, <1>9, <2>1, BoundIs
<1>13. dbits' \subseteq Blocks /\ IsTable(index') /\ IsTable(rows') /\ IsTable(prows')
       /\ (excl'.keys = {} => excl'.ext = {}) /\ excl'.ext = excl.ext
  BY <1>4, <1>9, <1>10, <1>11 DEF Types
<1>14. Good => /\ TableApart(index') /\ TableApart(rows') /\ TableApart(prows')
               /\ Owners(index') = Owners(index)
  BY <1>4, <1>9, <1>10, <1>12 DEF Good
<1> QED BY <1>4, <1>13, <1>14, StillMoves

(* Records leave the index with their extents. *)
LEMMA DiscardMoves ==
  ASSUME Types, ShapeOK, excl = Free, NEW pc, NEW G, G # {}, G \subseteq DOMAIN index, Discard(pc, G),
         UNCHANGED <<rows, prows, dev, data, dbits, op, leaked>>
  PROVE  Types' /\ (Good => Good')
<1>1. PICK f, g, Y : f = index /\ g = index' /\ Y = UNION {f[k].ext : k \in G}
  OBVIOUS
<1>2. g = [k \in DOMAIN f \ G |-> f[k]] /\ excl' = [pc |-> pc, keys |-> G, ext |-> Y]
  BY <1>1 DEF Discard
<1>3. excl'.keys = G /\ excl'.ext = Y
  BY <1>2
<1>4. IsTable(f) /\ G \subseteq DOMAIN f /\ G \subseteq Keys /\ IsTable(g)
  <2>1. IsTable(f)
    BY <1>1 DEF Types
  <2> QED BY <1>1, <1>2, <2>1, TableLess DEF IsTable
<1>5. Y \subseteq Extents
  <2>1. \A k \in G : f[k].ext \subseteq Extents
    BY <1>4, RecordIs DEF IsTable
  <2> QED BY <1>1, <2>1
<1>6. Types'
  BY <1>1, <1>3, <1>4, <1>5 DEF Types
<1>7. ASSUME Good PROVE Good'
  <2>1. Part(Owners(f), Calls(op), Spans(excl.ext), leaked, dev.bitmap) /\ Spans(excl.ext) = {}
    BY <1>1, <1>7, SpansIs DEF Good, Free
  <2>2. \A k \in Keys : Owners(g)[k] = IF k \in G THEN {} ELSE Owners(f)[k]
    BY <1>2, <1>4 DEF Owners
  <2>3. \A b : b \in Spans(Y) <=> \E k \in G : b \in Owners(f)[k]
    <3>1. \A b : b \in Spans(Y) <=> \E e \in Y : b \in Span(e)
      BY SpansIs
    <3>2. \A e : e \in Y <=> \E k \in G : e \in f[k].ext
      BY <1>1
    <3>3. \A k \in G : \A b : b \in Owners(f)[k] <=> \E e \in f[k].ext : b \in Span(e)
      BY <1>4, SpansIs DEF Owners
    <3> QED BY <3>1, <3>2, <3>3
  <2>4. Part(Owners(g), Calls(op), Spans(Y), leaked, dev.bitmap)
    BY <1>4, <2>1, <2>2, <2>3, PartDiscard
  <2>5. Apart(Y)
    <3> SUFFICES ASSUME NEW d \in Y, NEW e \in Y, d # e, NEW b \in Span(d), b \in Span(e) PROVE FALSE
      BY DEF Apart
    <3>1. PICK k \in G : d \in f[k].ext
      BY <1>1
    <3>2. PICK l \in G : e \in f[l].ext
      BY <1>1
    <3>3. Owners(f)[k] = Spans(f[k].ext) /\ Owners(f)[l] = Spans(f[l].ext) /\ k \in Keys /\ l \in Keys
      BY <1>4 DEF Owners
    <3>4. b \in Owners(f)[k] /\ b \in Owners(f)[l]
      BY <3>1, <3>2, <3>3, SpansIs
    <3>5. k = l
      BY <2>1, <3>3, <3>4 DEF Part
    <3>6. Apart(f[k].ext)
      BY <1>1, <1>4, <1>7 DEF Good, TableApart
    <3> QED BY <3>1, <3>2, <3>5, <3>6 DEF Apart
  <2>6. TableApart(g)
    BY <1>1, <1>2, <1>7 DEF Good, TableApart
  <2>7. BytesOf(Owners(g), data)
    BY <1>1, <1>7, <2>2 DEF Good, BytesOf
  <2> QED BY <1>1, <1>3, <1>7, <2>4, <2>5, <2>6, <2>7 DEF Good
<1> QED BY <1>6, <1>7

(* Gc and DeleteFragment. *)
LEMMA GcMoves ==
  ASSUME Types, ShapeOK, Gc \/ \E k \in Fragments : DeleteFragment(k)
  PROVE  Types' /\ (Good => Good')
<1>1. CASE Gc
  <2>1. /\ excl = Free /\ Garbage # {} /\ Discard("gc", Garbage)
        /\ UNCHANGED <<rows, prows, dev, data, dbits, op, leaked>>
    BY <1>1 DEF Gc, Exclusive, media
  <2>2. Garbage \subseteq DOMAIN index
    BY DEF Garbage, Present
  <2> QED BY <2>1, <2>2, DiscardMoves
<1>2. CASE \E k \in Fragments : DeleteFragment(k)
  <2>1. PICK k \in Fragments : DeleteFragment(k)
    BY <1>2
  <2>2. /\ excl = Free /\ {k} # {} /\ {k} \subseteq DOMAIN index /\ Discard("delete", {k})
        /\ UNCHANGED <<rows, prows, dev, data, dbits, op, leaked>>
    BY <2>1 DEF DeleteFragment, Exclusive, Present, media
  <2> QED BY <2>2, DiscardMoves
<1> QED BY <1>1, <1>2

(* FreeDiscarded. *)
LEMMA FreeDiscardedMoves ==
  ASSUME Types, ShapeOK, FreeDiscarded
  PROVE  Types' /\ (Good => Good')
<1>1. PICK E : E = excl.ext
  OBVIOUS
<1>2. PICK e \in E : dev' = free(dev, e) /\ excl' = [excl EXCEPT !.ext = @ \ {e}]
  BY <1>1 DEF FreeDiscarded
<1>3. UNCHANGED <<index, rows, prows, dbits, data, op, leaked>>
  BY DEF FreeDiscarded
<1>4. excl'.ext = E \ {e} /\ excl'.keys = excl.keys
  <2>1. PICK x : x = excl
    OBVIOUS
  <2>2. x = [pc |-> x.pc, keys |-> x.keys, ext |-> x.ext] /\ x.ext = E
    BY <1>1, <2>1 DEF ShapeOK, ExclOK
  <2>3. excl' = [x EXCEPT !.ext = @ \ {e}]
    BY <1>2, <2>1
  <2> QED BY <2>1, <2>2, <2>3
<1>5. /\ E \subseteq Extents /\ e \in Extents /\ ListOK(dev.free_list) /\ dev.bitmap \subseteq Blocks
      /\ excl.keys # {}
  BY <1>1 DEF Types, DevOK
<1>6. PICK d : d = free(dev, e)
  OBVIOUS
<1>7. /\ d = [bitmap |-> d.bitmap, free_list |-> d.free_list]
      /\ d.bitmap = dev.bitmap \ Span(e) /\ ListOK(d.free_list)
      /\ Exact(dev.bitmap, dev.free_list) /\ Span(e) \subseteq dev.bitmap => Exact(d.bitmap, d.free_list)
  BY <1>5, <1>6, FreeIs
<1>8. DevOK(d) /\ dev' = d
  BY <1>2, <1>5, <1>6, <1>7 DEF DevOK
<1>9. Types'
  BY <1>3, <1>4, <1>5, <1>8 DEF Types
<1>10. ASSUME Good PROVE Good'
  <2>1. Apart(E) /\ Exact(dev.bitmap, dev.free_list)
    BY <1>1, <1>10 DEF Good
  <2>2. Spans(E \ {e}) = Spans(E) \ Span(e) /\ Span(e) \subseteq Spans(E) /\ Apart(E \ {e})
    BY <2>1, SpansIs
  <2>3. Part(Owners(index), Calls(op), Spans(E), leaked, dev.bitmap)
    BY <1>1, <1>10 DEF Good
  <2>4. Part(Owners(index), Calls(op), Spans(E) \ Span(e), leaked, dev.bitmap \ Span(e)) /\ Span(e) \subseteq dev.bitmap
    <3>1. PICK K, C, X, L, B, S : /\ K = Owners(index) /\ C = Calls(op) /\ X = Spans(E) /\ L = leaked
                                  /\ B = dev.bitmap /\ S = Span(e)
      OBVIOUS
    <3>2. Part(K, C, X, L, B) /\ S \subseteq X
      BY <2>2, <2>3, <3>1
    <3>3. Part(K, C, X \ S, L, B \ S) /\ S \subseteq B
      BY <3>2, PartGiveX
    <3> QED BY <3>1, <3>3
  <2>5. Exact(d.bitmap, d.free_list)
    BY <1>7, <2>1, <2>4
  <2> QED BY <1>3, <1>4, <1>7, <1>8, <1>10, <2>2, <2>4, <2>5 DEF Good
<1> QED BY <1>9, <1>10

(* A table that agrees with the device, and nothing else. *)
LEMMA Reopened ==
  ASSUME NEW r, IsTable(r), TableApart(r), NEW bits, bits \subseteq Blocks, Consistent(r, bits),
         NEW o, \A t \in Threads : o[t] = Idle
  PROVE  /\ Part(Owners(r), Calls(o), {}, bits \ RowBlocks(r), bits)
         /\ BytesOf(Owners(r), data) /\ \A t \in Threads : CallApart(o[t]) /\ Writing(o[t], data)
<1>1. PICK K, C, R : K = Owners(r) /\ C = Calls(o) /\ R = RowBlocks(r)
  OBVIOUS
<1>2. \A t \in Threads : C[t] = {}
  BY <1>1, IdleIs, SpansIs DEF Calls
<1>3. \A k \in Keys : \A b : b \in K[k] <=> k \in DOMAIN r /\ b \in Spans(r[k].ext)
  BY <1>1 DEF Owners
<1>4. \A b : b \in R <=> \E k \in Keys : b \in K[k]
  BY <1>1, <1>3 DEF RowBlocks, IsTable
<1>5. R \subseteq bits /\ \A k \in Keys : \A b \in K[k] : data[b] = k
  BY <1>1, <1>3 DEF Consistent
<1>6. Part(K, C, {}, bits \ R, bits)
  <2>1. \A b : b \in bits <=> (\E k \in Keys : b \in K[k]) \/ (\E t \in Threads : b \in C[t]) \/ b \in {} \/ b \in bits \ R
    BY <1>2, <1>4, <1>5
  <2>2. \A k, l \in Keys : \A b : b \in K[k] /\ b \in K[l] => k = l
    BY <1>5
  <2>3. \A k \in Keys : \A b \in K[k] : b \notin {} /\ b \notin bits \ R
    BY <1>4
  <2> QED BY <1>2, <2>1, <2>2, <2>3 DEF Part
<1>7. \A t \in Threads : CallApart(o[t]) /\ Writing(o[t], data)
  BY IdleIs DEF CallApart, Writing, Apart
<1> QED BY <1>1, <1>5, <1>6, <1>7 DEF BytesOf

(* Crash. *)
LEMMA CrashMoves ==
  ASSUME Types, Crash
  PROVE  Types' /\ (Good /\ ~torn' => Good')
<1>1. PICK r, bits : r = prows /\ bits = dbits
  OBVIOUS
<1>2. /\ index' = r /\ rows' = r /\ prows' = r /\ dev' = from_bitmap(bits) /\ excl' = Free
      /\ leaked' = bits \ RowBlocks(r) /\ (~torn' => Consistent(r, bits)) /\ dbits' = bits /\ data' = data
      /\ op' = [t \in Threads |-> Idle]
  BY <1>1 DEF Crash
<1>3. IsTable(r) /\ bits \subseteq Blocks
  BY <1>1 DEF Types
<1>4. PICK f : f = rebuild_free_list(bits)
  OBVIOUS
<1>5. dev' = [bitmap |-> bits, free_list |-> f] /\ ListOK(f) /\ Exact(bits, f)
  BY <1>2, <1>3, <1>4, FromBitmapIs
<1>6. dev'.bitmap = bits /\ dev'.free_list = f /\ DevOK(dev')
  BY <1>3, <1>5 DEF DevOK
<1>7. excl'.ext = {} /\ \A t \in Threads : op'[t] = Idle
  BY <1>2 DEF Free
<1>8. Types'
  <2>1. \A t \in Threads : CallType(op'[t])
    BY <1>7, IdleIs
  <2>2. data' \in [Blocks -> Keys \cup {Nil}] /\ leaked' \subseteq Blocks
    BY <1>2, <1>3 DEF Types
  <2> QED BY <1>2, <1>3, <1>6, <1>7, <2>1, <2>2 DEF Types
<1>9. ASSUME Good, ~torn' PROVE Good'
  <2>1. TableApart(r) /\ Consistent(r, bits)
    BY <1>1, <1>2, <1>9 DEF Good
  <2>2. PICK o : o = op'
    OBVIOUS
  <2>3. /\ Part(Owners(r), Calls(o), {}, bits \ RowBlocks(r), bits)
        /\ BytesOf(Owners(r), data) /\ \A t \in Threads : CallApart(o[t]) /\ Writing(o[t], data)
    BY <1>3, <1>7, <2>1, <2>2, Reopened
  <2>4. Spans(excl'.ext) = {} /\ Apart(excl'.ext)
    BY <1>7, SpansIs DEF Apart
  <2> QED BY <1>2, <1>5, <1>6, <2>1, <2>2, <2>3, <2>4 DEF Good
<1> QED BY <1>8, <1>9

(* Init. *)
LEMMA InitGood == Init => Types /\ Good
<1> SUFFICES ASSUME Init PROVE Types /\ Good
  OBVIOUS
<1>1. PICK r : r = index
  OBVIOUS
<1>2. r = <<>> /\ rows = r /\ prows = r /\ dev = from_bitmap({}) /\ dbits = {} /\ leaked = {}
      /\ data = [b \in Blocks |-> Nil] /\ op = [t \in Threads |-> Idle] /\ excl = Free
  BY <1>1 DEF Init
<1>3. IsTable(r) /\ TableApart(r) /\ RowBlocks(r) = {} /\ Consistent(r, {})
  <2>1. DOMAIN r = {}
    BY <1>2
  <2> QED BY <2>1 DEF IsTable, TableApart, RowBlocks, Consistent
<1>4. PICK f : f = rebuild_free_list({})
  OBVIOUS
<1>5. dev = [bitmap |-> {}, free_list |-> f] /\ ListOK(f) /\ Exact({}, f)
  BY <1>2, <1>4, FromBitmapIs
<1>6. dev.bitmap = {} /\ dev.free_list = f /\ DevOK(dev)
  BY <1>5 DEF DevOK
<1>7. excl.ext = {} /\ \A t \in Threads : op[t] = Idle
  BY <1>2 DEF Free
<1>8. Types
  <2>1. \A t \in Threads : CallType(op[t])
    BY <1>7, IdleIs
  <2>2. data \in [Blocks -> Keys \cup {Nil}]
    BY <1>2
  <2> QED BY <1>1, <1>2, <1>3, <1>6, <1>7, <2>1, <2>2 DEF Types
<1>9. Good
  <2>1. /\ Part(Owners(r), Calls(op), {}, {} \ RowBlocks(r), {})
        /\ BytesOf(Owners(r), data) /\ \A t \in Threads : CallApart(op[t]) /\ Writing(op[t], data)
    BY <1>3, <1>7, Reopened
  <2>2. Spans(excl.ext) = {} /\ Apart(excl.ext) /\ {} \ RowBlocks(r) = leaked
    BY <1>2, <1>3, <1>7, SpansIs DEF Apart
  <2> QED BY <1>1, <1>2, <1>3, <1>5, <1>6, <2>1, <2>2 DEF Good
<1> QED BY <1>8, <1>9

(* A disagreement, once noticed, is remembered. *)
LEMMA Latched ==
  ASSUME [Next]_vars
  PROVE  (torn => torn') /\ (stale => stale')
<1>1. CASE \E t \in Threads : ThreadStep(t)
  <2>1. PICK t \in Threads : ThreadStep(t)
    BY <1>1
  <2>2. CASE PutRecord(t)
    BY <2>2, Zenon DEF PutRecord
  <2>3. CASE \E c \in Chunks : Bump(t, c) \/ Register(t, c) \/ Decrement(t, c)
    <3>1. torn' = torn /\ stale' = stale
      BY <2>3 DEF Bump, Register, Decrement
    <3> QED BY <3>1
  <2>4. CASE Reread(t) \/ (\E k \in Keys : StartWrite(t, k)) \/ WriteRefused(t)
    <3>1. torn' = torn /\ stale' = stale
      BY <2>4 DEF Reread, StartWrite, WriteRefused
    <3> QED BY <3>1
  <2>5. CASE WriteExtent(t) \/ WriteFails(t) \/ FreeExtent(t)
    <3>1. torn' = torn /\ stale' = stale
      BY <2>5 DEF WriteExtent, WriteFails, FreeExtent
    <3> QED BY <3>1
  <2>6. CASE Recheck(t) \/ SwapFragment(t) \/ FreeOld(t)
    <3>1. torn' = torn /\ stale' = stale
      BY <2>6 DEF Recheck, SwapFragment, FreeOld
    <3> QED BY <3>1
  <2>7. CASE PutFails(t) \/ SyncWrite(t)
    <3>1. torn' = torn /\ stale' = stale
      BY <2>7 DEF PutFails, SyncWrite
    <3> QED BY <3>1
  <2> QED BY <2>1, <2>2, <2>3, <2>4, <2>5, <2>6, <2>7 DEF ThreadStep
<1>2. CASE FlushTask \/ PersistRows \/ GcSync \/ FreeDiscarded
  <2>1. torn' = torn /\ stale' = stale
    BY <1>2 DEF FlushTask, PersistRows, GcSync, FreeDiscarded
  <2> QED BY <2>1
<1>3. CASE Gc \/ (\E k \in Fragments : DeleteFragment(k)) \/ (\E k \in Keys : RemoveRow(k))
  <2>1. torn' = torn /\ stale' = stale
    BY <1>3 DEF Gc, DeleteFragment, RemoveRow
  <2> QED BY <2>1
<1>4. CASE \E c \in Chunks, on \in BOOLEAN : SetHold(c, on)
  <2>1. torn' = torn /\ stale' = stale
    BY <1>4 DEF SetHold
  <2> QED BY <2>1
<1>5. CASE Crash
  BY <1>5 DEF Crash
<1>6. CASE UNCHANGED vars
  <2>1. torn' = torn /\ stale' = stale
    BY <1>6 DEF vars
  <2> QED BY <2>1
<1> QED BY <1>1, <1>2, <1>3, <1>4, <1>5, <1>6 DEF Next

(* Every step keeps types, and the device unless records and device disagree. *)
LEMMA NextMoves ==
  ASSUME Types, ProtectInv, torn \/ stale \/ Good, [Next]_vars
  PROVE  Types' /\ (torn' \/ stale' \/ Good')
<1>1. ShapeOK
  BY DEF ProtectInv
<1>2. (torn => torn') /\ (stale => stale')
  BY Latched
<1>3. Types' /\ (Good /\ ~torn' => Good')
  <2>1. CASE \E t \in Threads : ThreadStep(t)
    <3>1. PICK t \in Threads : ThreadStep(t)
      BY <2>1
    <3>2. CASE \E c \in Chunks : Bump(t, c) \/ Register(t, c) \/ Decrement(t, c)
      BY <1>1, <3>2, CountedMoves, RegisterMoves
    <3>3. CASE Reread(t) \/ (\E k \in Keys : StartWrite(t, k)) \/ WriteRefused(t)
      BY <3>3, BeginMoves
    <3>4. CASE WriteExtent(t) \/ WriteFails(t) \/ FreeExtent(t)
      BY <1>1, <3>4, WriteExtentMoves, WriteFailsMoves, FreeExtentMoves
    <3>5. CASE Recheck(t) \/ SwapFragment(t) \/ FreeOld(t)
      BY <1>1, <3>5, RecheckMoves, SwapFragmentMoves, FreeOldMoves
    <3>6. CASE PutRecord(t) \/ PutFails(t) \/ SyncWrite(t)
      BY <1>1, <3>6, PutMoves
    <3> QED BY <3>1, <3>2, <3>3, <3>4, <3>5, <3>6 DEF ThreadStep
  <2>2. CASE FlushTask \/ PersistRows \/ GcSync \/ FreeDiscarded
    BY <1>1, <2>2, FlushMoves, FreeDiscardedMoves
  <2>3. CASE Gc \/ \E k \in Fragments : DeleteFragment(k)
    BY <1>1, <2>3, GcMoves
  <2>4. CASE \E k \in Keys : RemoveRow(k)
    BY <1>1, <2>4, RemoveRowMoves
  <2>5. CASE \E c \in Chunks, on \in BOOLEAN : SetHold(c, on)
    BY <2>5, SetHoldMoves
  <2>6. CASE Crash
    BY <2>6, CrashMoves
  <2>7. CASE UNCHANGED vars
    BY <2>7 DEF vars, Types, Good
  <2> QED BY <2>1, <2>2, <2>3, <2>4, <2>5, <2>6, <2>7 DEF Next
<1> QED BY <1>2, <1>3

-----------------------------------------------------------------------------
(* What is on the disk, with inline sync and no failure. *)

(* A step that is not about the chunk. *)
LEMMA DurableElsewhere ==
  ASSUME NEW c, Durable(c), index'[c] = index[c], SameAt(rows, rows', c),
         \A u \in Threads : Touches(u, c) => op'[u] = op[u],
         Spans(index[c].ext) \subseteq dbits => Spans(index[c].ext) \subseteq dbits'
  PROVE  Durable(c)'
<1>1. (c \in DOMAIN rows /\ rows[c] = index[c]) => (c \in DOMAIN rows' /\ rows'[c] = index'[c])
  BY DEF SameAt
<1>2. \A u \in Threads : (Pending(u, c) => Pending(u, c)') /\ (Creating(u, c) => Creating(u, c)')
  BY DEF Pending, Creating, Touches
<1> QED BY <1>1, <1>2 DEF Durable

(* A call has a record like the indexed one to write. *)
LEMMA DurablePending ==
  ASSUME NEW c, NEW t \in Threads, Pending(t, c)',
         \/ Spans(index'[c].ext) \subseteq dbits'
         \/ Creating(t, c)'
         \/ \E u \in Threads : Creating(u, c) /\ op'[u] = op[u]
  PROVE  Durable(c)'
<1>1. \A u \in Threads : Creating(u, c) /\ op'[u] = op[u] => Creating(u, c)'
  BY DEF Creating, Touches
<1> QED BY <1>1 DEF Durable

(* The chunk is counted. *)
LEMMA DurableCounted ==
  ASSUME ShapeOK, NEW c, Durable(c), NEW t \in Threads, ~Touches(t, c), NEW o, Step(t, o),
         o.pc = "put", o.key = c, o.rec = index'[c], index'[c].ext = index[c].ext, dbits' = dbits
  PROVE  Durable(c)'
<1>1. op'[t] = o /\ \A u \in Threads \ {t} : op'[u] = op[u]
  BY OneCall
<1>2. Pending(t, c)'
  BY <1>1 DEF Pending, Touches
<1>3. \A u \in Threads : Creating(u, c) => op'[u] = op[u]
  BY <1>1 DEF Creating
<1> QED BY <1>2, <1>3, DurablePending DEF Durable

(* A step of a call on other chunks, or before it touches the index. *)
LEMMA DurableOther ==
  ASSUME ShapeOK, NEW c, Durable(c), NEW t \in Threads, ~Touches(t, c), NEW o, Step(t, o),
         index'[c] = index[c], SameAt(rows, rows', c),
         Spans(index[c].ext) \subseteq dbits => Spans(index[c].ext) \subseteq dbits'
  PROVE  Durable(c)'
<1>1. \A u \in Threads : Touches(u, c) => op'[u] = op[u]
  BY OneCall
<1> QED BY <1>1, DurableElsewhere

(* The blocks of an indexed chunk are allocated. *)
LEMMA IndexedAllocated ==
  ASSUME Types, Good, NEW c \in DOMAIN index
  PROVE  Spans(index[c].ext) \subseteq dev.bitmap
<1>1. c \in Keys
  BY DEF Types, IsTable
<1>2. Owners(index)[c] = Spans(index[c].ext)
  BY <1>1 DEF Owners
<1> QED BY <1>1, <1>2, OwnedIs

\* What the steps start from.
OnDisk == Types /\ ProtectInv /\ Good /\ \A c \in DOMAIN index \cap Chunks : Durable(c)

(* Calls that count a chunk. *)
LEMMA CountDurable ==
  ASSUME OnDisk, NEW t \in Threads, NEW k \in Chunks, NEW c \in DOMAIN index' \cap Chunks,
         Bump(t, k) \/ Decrement(t, k)
  PROVE  Durable(c)'
<1>1. ShapeOK /\ op[t] = Idle /\ Present(k) /\ ~Touches(t, c) /\ UNCHANGED <<rows, dbits>> /\ Types
  BY DEF OnDisk, ProtectInv, Bump, Decrement, Begin, Touches, Idle
<1>2. index[k].rc \in Nat
  BY <1>1 DEF Types, IsTable, Records, Present
<1>3. CASE \E d \in {1, -1} : /\ index[k].rc + d >= 0 /\ index' = [index EXCEPT ![k] = Counted(k, d)]
                              /\ \E g : Step(t, [pc |-> "put", key |-> k, rec |-> index'[k], gain |-> g, sync |-> FALSE])
  <2>1. PICK d \in {1, -1} : /\ index[k].rc + d >= 0 /\ index' = [index EXCEPT ![k] = Counted(k, d)]
                             /\ \E g : Step(t, [pc |-> "put", key |-> k, rec |-> index'[k], gain |-> g, sync |-> FALSE])
    BY <1>3
  <2>2. PICK g : Step(t, [pc |-> "put", key |-> k, rec |-> index'[k], gain |-> g, sync |-> FALSE])
    BY <2>1
  <2>3. index'[k].ext = index[k].ext
    BY <1>1, <2>1, CountedEntry
  <2>4. PICK o : o = [pc |-> "put", key |-> k, rec |-> index'[k], gain |-> g, sync |-> FALSE]
    OBVIOUS
  <2>5. Step(t, o) /\ o.pc = "put" /\ o.key = k /\ o.rec = index'[k]
    BY <2>2, <2>4
  <2>6. DOMAIN index' = DOMAIN index /\ (c # k => index'[c] = index[c])
    BY <2>1
  <2>7. Durable(c)
    BY <2>6 DEF OnDisk
  <2>8. CASE c = k
    BY <1>1, <2>3, <2>5, <2>7, <2>8, DurableCounted
  <2>9. CASE c # k
    <3>1. SameAt(rows, rows', c)
      BY <1>1 DEF SameAt
    <3> QED BY <1>1, <2>5, <2>6, <2>7, <2>9, <3>1, DurableOther
  <2> QED BY <2>8, <2>9
<1>4. CASE UNCHANGED <<index, op>>
  <2>1. SameAt(rows, rows', c) /\ Durable(c)
    BY <1>1, <1>4 DEF SameAt, OnDisk
  <2> QED BY <1>1, <1>4, <2>1, DurableElsewhere
<1>5. CASE Bump(t, k)
  <2>1. /\ index[k].rc + 1 >= 0 /\ index' = [index EXCEPT ![k] = Counted(k, 1)]
        /\ Step(t, [pc |-> "put", key |-> k, rec |-> index'[k], gain |-> 1, sync |-> FALSE])
    BY <1>2, <1>5 DEF Bump
  <2> QED BY <1>3, <2>1
<1>6. CASE Decrement(t, k) /\ index[k].rc # 0
  <2>1. index[k].rc + (-1) >= 0
    BY <1>2, <1>6
  <2>2. /\ index' = [index EXCEPT ![k] = Counted(k, -1)]
        /\ Step(t, [pc |-> "put", key |-> k, rec |-> index'[k], gain |-> 0, sync |-> FALSE])
    BY <1>6 DEF Decrement
  <2> QED BY <1>3, <2>1, <2>2
<1>7. CASE Decrement(t, k) /\ index[k].rc = 0
  BY <1>4, <1>7 DEF Decrement
<1> QED BY <1>5, <1>6, <1>7

(* Register. *)
LEMMA RegisterDurable ==
  ASSUME OnDisk, NEW t \in Threads, NEW k \in Chunks, NEW c \in DOMAIN index' \cap Chunks, Register(t, k)
  PROVE  Durable(c)'
<1>1. PICK r, o : r = Fresh({}, 0) /\ o = [pc |-> "reread", key |-> k]
  OBVIOUS
<1>2. /\ ShapeOK /\ op[t] = Idle /\ ~Touches(t, c) /\ UNCHANGED <<rows, dbits>>
      /\ index' = Bind(index, k, r) /\ Step(t, o)
  BY <1>1 DEF OnDisk, ProtectInv, Register, Begin, Touches, Idle
<1>3. Bound(index, index', k, r) /\ r.ext = {} /\ o.pc = "reread" /\ o.key = k
  BY <1>1, <1>2, BoundBy, FreshIs
<1>4. op'[t] = o
  BY <1>2, OneCall
<1>5. CASE c = k
  <2>1. Pending(t, c)'
    BY <1>3, <1>4, <1>5 DEF Pending, Touches
  <2>2. Spans(index'[c].ext) = {}
    BY <1>3, <1>5, SpansIs DEF Bound
  <2> QED BY <2>1, <2>2, DurablePending
<1>6. CASE c # k
  <2>1. c \in DOMAIN index /\ index'[c] = index[c] /\ SameAt(rows, rows', c)
    BY <1>2, <1>3, <1>6 DEF Bound, SameAt
  <2>2. Durable(c)
    BY <2>1 DEF OnDisk
  <2> QED BY <1>2, <2>1, <2>2, DurableOther
<1> QED BY <1>5, <1>6

(* Reread. *)
LEMMA RereadDurable ==
  ASSUME OnDisk, NEW t \in Threads, NEW c \in DOMAIN index' \cap Chunks, Reread(t)
  PROVE  Durable(c)'
<1>1. PICK k, o : k = op[t].key /\ o = [pc |-> "put", key |-> k, rec |-> index[k], gain |-> 1, sync |-> FALSE]
  OBVIOUS
<1>2. ShapeOK /\ op[t].pc = "reread" /\ Step(t, o) /\ UNCHANGED <<index, rows, dbits>>
  BY <1>1 DEF OnDisk, ProtectInv, Reread
<1>3. op'[t] = o /\ \A u \in Threads \ {t} : op'[u] = op[u]
  BY <1>2, OneCall
<1>4. Durable(c) /\ SameAt(rows, rows', c)
  BY <1>2 DEF OnDisk, SameAt
<1>5. CASE c = k
  <2>1. Pending(t, c)'
    BY <1>1, <1>2, <1>3, <1>5 DEF Pending, Touches
  <2>2. \A u \in Threads : Creating(u, c) => op'[u] = op[u]
    BY <1>2, <1>3 DEF Creating
  <2> QED BY <1>2, <1>4, <2>1, <2>2, DurablePending DEF Durable
<1>6. CASE c # k
  <2>1. ~Touches(t, c)
    BY <1>1, <1>6 DEF Touches
  <2> QED BY <1>2, <1>4, <2>1, DurableOther
<1> QED BY <1>5, <1>6

(* Recheck: the creator of a chunk will sync. *)
LEMMA RecheckDurable ==
  ASSUME OnDisk, syncPerWrite, NEW t \in Threads, NEW c \in DOMAIN index' \cap Chunks, Recheck(t)
  PROVE  Durable(c)'
<1>1. PICK k, E : k = op[t].key /\ E = op[t].ext
  OBVIOUS
<1>2. PICK s : s = (syncPerWrite /\ ~Present(k))
  OBVIOUS
<1>3. PICK g : g = index'
  OBVIOUS
<1>4. PICK o : o = [pc |-> "put", key |-> k, rec |-> g[k], gain |-> 1, sync |-> s]
  OBVIOUS
<1>5. ShapeOK /\ Step(t, o) /\ op[t].pc = "alloc" /\ k \in Chunks /\ UNCHANGED <<rows, dbits>> /\ Types
  BY <1>1, <1>2, <1>3, <1>4 DEF Recheck, OnDisk, ProtectInv
<1>6. o.pc = "put" /\ o.key = k /\ o.rec = index'[k] /\ o.sync = s /\ ~Touches(t, c)
  BY <1>3, <1>4, <1>5 DEF Touches
<1>7. CASE Present(k)
  <2>1. index' = [index EXCEPT ![k] = Counted(k, 1)]
    BY <1>1, <1>7 DEF Recheck
  <2>2. index[k].rc \in Nat
    BY <1>5, <1>7 DEF Types, IsTable, Records, Present
  <2>3. index[k].rc + 1 >= 0
    BY <2>2
  <2>4. index'[k].ext = index[k].ext
    BY <1>5, <1>7, <2>1, <2>3, CountedEntry
  <2>5. DOMAIN index' = DOMAIN index /\ (c # k => index'[c] = index[c])
    BY <2>1
  <2>6. Durable(c)
    BY <2>5 DEF OnDisk
  <2>7. CASE c = k
    BY <1>5, <1>6, <2>4, <2>6, <2>7, DurableCounted
  <2>8. CASE c # k
    <3>1. SameAt(rows, rows', c)
      BY <1>5 DEF SameAt
    <3> QED BY <1>5, <1>6, <2>5, <2>6, <2>8, <3>1, DurableOther
  <2> QED BY <2>7, <2>8
<1>8. CASE ~Present(k)
  <2>1. PICK r : r = Fresh(E, 0)
    OBVIOUS
  <2>2. index' = Bind(index, k, r)
    BY <1>1, <1>8, <2>1 DEF Recheck
  <2>3. Bound(index, index', k, r)
    BY <2>2, BoundBy
  <2>4. CASE c = k
    <3>1. op'[t] = o
      BY <1>5, OneCall
    <3>2. s = TRUE
      BY <1>2, <1>8
    <3>3. Pending(t, c)' /\ Creating(t, c)'
      BY <1>6, <2>4, <3>1, <3>2 DEF Pending, Creating, Touches
    <3> QED BY <3>3, DurablePending
  <2>5. CASE c # k
    <3>1. c \in DOMAIN index /\ index'[c] = index[c] /\ SameAt(rows, rows', c)
      BY <1>5, <2>3, <2>5 DEF Bound, SameAt
    <3>2. Durable(c)
      BY <3>1 DEF OnDisk
    <3> QED BY <1>5, <1>6, <3>1, <3>2, DurableOther
  <2> QED BY <2>4, <2>5
<1> QED BY <1>7, <1>8

(* Calls on their way to the index, and those of fragments. *)
LEMMA PlainDurable ==
  ASSUME OnDisk, NEW t \in Threads, NEW c \in DOMAIN index' \cap Chunks,
         \/ \E k \in Keys : StartWrite(t, k)
         \/ WriteExtent(t) \/ WriteRefused(t) \/ FreeExtent(t) \/ SwapFragment(t) \/ FreeOld(t)
  PROVE  Durable(c)'
<1>1. /\ ShapeOK /\ op[t].pc \in {"idle", "alloc", "undo", "swap"} /\ UNCHANGED <<rows, dbits>>
      /\ \E o : Step(t, o)
  <2>1. op[t].pc \in {"idle", "alloc", "undo", "swap"} /\ UNCHANGED <<rows, dbits>>
    <3>1. CASE \E k \in Keys : StartWrite(t, k)
      BY <3>1 DEF StartWrite, Begin, Idle
    <3>2. CASE WriteExtent(t) \/ WriteRefused(t) \/ FreeExtent(t)
      BY <3>2 DEF WriteExtent, WriteRefused, FreeExtent
    <3>3. CASE SwapFragment(t) \/ FreeOld(t)
      BY <3>3 DEF SwapFragment, FreeOld
    <3> QED BY <3>1, <3>2, <3>3
  <2>2. \E o : Step(t, o)
    BY DEF StartWrite, WriteExtent, WriteRefused, FreeExtent, SwapFragment, FreeOld, Undo
  <2> QED BY <2>1, <2>2 DEF OnDisk, ProtectInv
<1>2. ~Touches(t, c) /\ SameAt(rows, rows', c)
  BY <1>1 DEF Touches, SameAt
<1>3. c \in DOMAIN index /\ index'[c] = index[c]
  <2>1. CASE SwapFragment(t)
    <3>1. PICK k, r : k \in Fragments /\ index' = Bind(index, k, r)
      BY <2>1 DEF SwapFragment
    <3>2. Bound(index, index', k, r) /\ c # k
      BY <3>1, BoundBy, KeysAre
    <3> QED BY <3>2 DEF Bound
  <2>2. CASE ~SwapFragment(t)
    <3>1. UNCHANGED index
      BY <2>2 DEF StartWrite, WriteExtent, WriteRefused, FreeExtent, FreeOld
    <3> QED BY <3>1
  <2> QED BY <2>1, <2>2
<1>4. Durable(c)
  BY <1>3 DEF OnDisk
<1> QED BY <1>1, <1>2, <1>3, <1>4, DurableOther

(* PutRecord: a record that is overtaken says so. *)
LEMMA PutDurable ==
  ASSUME OnDisk, NEW t \in Threads, NEW c \in DOMAIN index' \cap Chunks, PutRecord(t), ~stale'
  PROVE  Durable(c)'
<1>1. PICK k, r : k = op[t].key /\ r = op[t].rec
  OBVIOUS
<1>2. /\ ShapeOK /\ op[t].pc = "put" /\ rows' = Bind(rows, k, r) /\ UNCHANGED <<index, dbits>>
      /\ ~(k \in DOMAIN rows /\ rows[k].ver > r.ver)
  <2>1. ShapeOK /\ op[t].pc = "put" /\ rows' = Bind(rows, k, r) /\ UNCHANGED <<index, dbits>>
    BY <1>1 DEF OnDisk, ProtectInv, PutRecord, Store
  <2>2. stale' = (stale \/ (k \in DOMAIN rows /\ rows[k].ver > r.ver))
    BY <1>1 DEF PutRecord
  <2> QED BY <2>1, <2>2
<1>3. Bound(rows, rows', k, r)
  BY <1>2, BoundBy
<1>4. Durable(c) /\ c \in DOMAIN index
  BY <1>2 DEF OnDisk
<1>5. PICK o : Step(t, o) /\ (op[t].sync => o.pc = "sync" /\ o.key = k)
  <2>1. CASE op[t].sync
    BY <1>1, <2>1 DEF PutRecord
  <2>2. CASE ~op[t].sync
    BY <2>2 DEF PutRecord, Return
  <2> QED BY <2>1, <2>2
<1>6. op'[t] = o /\ \A u \in Threads \ {t} : op'[u] = op[u]
  BY <1>2, <1>5, OneCall
<1>7. CASE c # k
  <2>1. ~Touches(t, c) /\ SameAt(rows, rows', c)
    BY <1>1, <1>3, <1>7 DEF Touches, Bound, SameAt
  <2> QED BY <1>2, <1>4, <1>5, <2>1, DurableOther
<1>8. CASE c = k
  <2>1. Putting(t, c) /\ c \in Chunks
    BY <1>1, <1>2, <1>8 DEF Putting
  <2>2. Older(r, c) /\ (c \in DOMAIN rows => rows[c].ver \in Nat) /\ r.ver \in Nat /\ index[c].ver \in Nat
    <3>1. Older(r, c)
      BY <1>1, <2>1 DEF OnDisk, ProtectInv, Tidy
    <3> QED BY <1>1, <1>2, <1>4, <2>1, <3>1, NumbersAre DEF Present
  <2>3. (c \in DOMAIN rows' /\ rows'[c] = index'[c]) \/ \E u \in Threads : Pending(u, c)'
    <3>1. CASE r = index[c]
      BY <1>2, <1>3, <1>8, <3>1 DEF Bound
    <3>2. CASE r # index[c]
      <4>1. r.ver < index[c].ver
        BY <2>2, <3>2 DEF Older
      <4>2. ~(c \in DOMAIN rows /\ rows[c] = index[c])
        BY <1>2, <1>8, <2>2, <4>1
      <4>3. PICK u \in Threads : Pending(u, c)
        BY <1>4, <4>2 DEF Durable
      <4>4. u # t
        BY <1>1, <1>2, <3>2, <4>3 DEF Pending
      <4>5. Pending(u, c)'
        BY <1>2, <1>6, <4>3, <4>4 DEF Pending, Touches
      <4> QED BY <4>5
    <3> QED BY <3>1, <3>2
  <2>4. Spans(index'[c].ext) \subseteq dbits' \/ \E u \in Threads : Creating(u, c)'
    <3>1. ASSUME NEW u \in Threads, Creating(u, c) PROVE Creating(u, c)'
      <4>1. CASE u = t
        <5>1. op[t].sync
          BY <1>2, <3>1, <4>1 DEF Creating
        <5>2. o.pc = "sync" /\ o.key = c
          BY <1>5, <1>8, <5>1
        <5> QED BY <1>6, <4>1, <5>2 DEF Creating, Touches
      <4>2. CASE u # t
        BY <1>6, <3>1, <4>2 DEF Creating, Touches
      <4> QED BY <4>1, <4>2
    <3> QED BY <1>2, <1>4, <3>1 DEF Durable
  <2> QED BY <2>3, <2>4 DEF Durable
<1> QED BY <1>7, <1>8

(* SyncWrite: the bits of every indexed chunk reach the disk. *)
LEMMA SyncDurable ==
  ASSUME OnDisk, NEW t \in Threads, NEW c \in DOMAIN index' \cap Chunks, SyncWrite(t)
  PROVE  Durable(c)'
<1>1. ShapeOK /\ op[t].pc = "sync" /\ Step(t, Idle) /\ dbits' = dev.bitmap /\ UNCHANGED <<index, rows>>
      /\ Types /\ Good
  BY DEF OnDisk, ProtectInv, SyncWrite, Return
<1>2. Durable(c) /\ c \in DOMAIN index
  BY <1>1 DEF OnDisk
<1>3. Spans(index'[c].ext) \subseteq dbits'
  BY <1>1, <1>2, IndexedAllocated
<1>4. op'[t] = Idle /\ \A u \in Threads \ {t} : op'[u] = op[u]
  BY <1>1, OneCall
<1>5. \A u \in Threads : Pending(u, c) => Pending(u, c)'
  BY <1>1, <1>4 DEF Pending, Touches
<1> QED BY <1>1, <1>2, <1>3, <1>5 DEF Durable

(* Tasks and exclusive calls. *)
LEMMA ExclDurable ==
  ASSUME OnDisk, NEW c \in DOMAIN index' \cap Chunks,
         \/ PersistRows \/ Gc \/ FreeDiscarded \/ GcSync
         \/ \E k \in Fragments : DeleteFragment(k)
         \/ \E k \in Keys : RemoveRow(k)
  PROVE  Durable(c)'
<1>1. op' = op /\ dbits' \in {dbits, dev.bitmap} /\ Types /\ Good /\ ShapeOK
  <2>1. op' = op /\ dbits' \in {dbits, dev.bitmap}
    <3>1. CASE PersistRows \/ FreeDiscarded \/ GcSync
      BY <3>1 DEF PersistRows, FreeDiscarded, GcSync
    <3>2. CASE Gc \/ \E k \in Fragments : DeleteFragment(k)
      BY <3>2 DEF Gc, DeleteFragment
    <3>3. CASE \E k \in Keys : RemoveRow(k)
      BY <3>3 DEF RemoveRow
    <3> QED BY <3>1, <3>2, <3>3
  <2> QED BY <2>1 DEF OnDisk, ProtectInv
<1>2. c \in DOMAIN index /\ index'[c] = index[c]
  <2>1. CASE Gc \/ \E k \in Fragments : DeleteFragment(k)
    <3>1. PICK G : index' = [k \in DOMAIN index \ G |-> index[k]]
      BY <2>1 DEF Gc, DeleteFragment, Discard
    <3> QED BY <3>1
  <2>2. CASE PersistRows \/ FreeDiscarded \/ GcSync \/ \E k \in Keys : RemoveRow(k)
    <3>1. index' = index
      BY <2>2 DEF PersistRows, FreeDiscarded, GcSync, RemoveRow
    <3> QED BY <3>1
  <2> QED BY <2>1, <2>2
<1>3. Durable(c)
  BY <1>2 DEF OnDisk
<1>4. SameAt(rows, rows', c)
  <2>1. CASE \E k \in Keys : RemoveRow(k)
    <3>1. PICK k \in Keys : RemoveRow(k)
      BY <2>1
    <3>2. k \in excl.keys /\ rows' = Without(rows, k)
      BY <3>1 DEF RemoveRow, Store
    <3>3. c # k
      BY <1>2, <3>2 DEF OnDisk, ProtectInv, Tidy, Present
    <3> QED BY <3>2, <3>3 DEF SameAt, Without
  <2>2. CASE ~\E k \in Keys : RemoveRow(k)
    <3>1. rows' = rows
      BY <2>2 DEF PersistRows, FreeDiscarded, GcSync, Gc, DeleteFragment
    <3> QED BY <3>1 DEF SameAt
  <2> QED BY <2>1, <2>2
<1>5. Spans(index[c].ext) \subseteq dev.bitmap
  BY <1>1, <1>2, IndexedAllocated
<1> QED BY <1>1, <1>2, <1>3, <1>4, <1>5, DurableElsewhere

(* SetHold writes its record at once. *)
LEMMA HoldDurable ==
  ASSUME OnDisk, NEW k \in Chunks, NEW on \in BOOLEAN, SetHold(k, on), NEW c \in DOMAIN index' \cap Chunks
  PROVE  Durable(c)'
<1>1. PICK q : q = index[k]
  OBVIOUS
<1>2. PICK r : r = [q EXCEPT !.hold = on, !.ver = @ + 1]
  OBVIOUS
<1>3. /\ k \in DOMAIN index /\ index' = [index EXCEPT ![k] = r] /\ rows' = Bind(rows, k, index'[k])
      /\ UNCHANGED <<op, dbits>>
  BY <1>1, <1>2 DEF SetHold, Present, Store
<1>4. DOMAIN index' = DOMAIN index /\ index'[k] = r /\ (c # k => index'[c] = index[c])
  BY <1>3
<1>5. Bound(rows, rows', k, r)
  BY <1>3, <1>4, BoundBy
<1>6. Durable(c)
  BY <1>4 DEF OnDisk
<1>7. CASE c # k
  <2>1. SameAt(rows, rows', c)
    BY <1>5, <1>7 DEF SameAt, Bound
  <2> QED BY <1>3, <1>4, <1>6, <1>7, <2>1, DurableElsewhere
<1>8. CASE c = k
  <2>1. r.ext = q.ext
    <3>1. q \in Records
      BY <1>1, <1>3 DEF OnDisk, Types, IsTable
    <3>2. q = [rc |-> q.rc, hold |-> q.hold, ext |-> q.ext, ver |-> q.ver]
      BY <3>1, RecordIs
    <3> QED BY <1>2, <3>2
  <2>2. c \in DOMAIN rows' /\ rows'[c] = index'[c]
    BY <1>4, <1>5, <1>8 DEF Bound
  <2>3. Spans(index'[c].ext) = Spans(index[c].ext)
    BY <1>1, <1>4, <1>8, <2>1
  <2>4. \A u \in Threads : Creating(u, c) => Creating(u, c)'
    BY <1>3 DEF Creating, Touches
  <2> QED BY <1>3, <1>6, <2>2, <2>3, <2>4 DEF Durable
<1> QED BY <1>7, <1>8

(* A crash after which records and device agree. *)
LEMMA CrashDurable ==
  ASSUME Crash, ~torn', NEW c \in DOMAIN index'
  PROVE  Durable(c)'
<1>1. index' = prows /\ rows' = prows /\ dbits' = dbits /\ Consistent(prows, dbits)
  BY DEF Crash
<1>2. Spans(prows[c].ext) \subseteq dbits
  <2>1. \A b \in Spans(prows[c].ext) : b \in RowBlocks(prows)
    BY <1>1 DEF RowBlocks
  <2> QED BY <1>1, <2>1 DEF Consistent
<1> QED BY <1>1, <1>2 DEF Durable

(* With inline sync the metadata store holds nothing back. *)
LEMMA RowsSame ==
  ASSUME syncPerWrite, prows = rows, [Next]_vars
  PROVE  prows' = rows'
<1>1. CASE \E t \in Threads : ThreadStep(t)
  <2>1. PICK t \in Threads : ThreadStep(t)
    BY <1>1
  <2>2. CASE PutRecord(t)
    BY <2>2 DEF PutRecord, Store
  <2>3. CASE \E c \in Chunks : Bump(t, c) \/ Register(t, c) \/ Decrement(t, c)
    BY <2>3 DEF Bump, Register, Decrement
  <2>4. CASE Reread(t) \/ (\E k \in Keys : StartWrite(t, k)) \/ WriteRefused(t)
    BY <2>4 DEF Reread, StartWrite, WriteRefused
  <2>5. CASE WriteExtent(t) \/ WriteFails(t) \/ FreeExtent(t)
    BY <2>5 DEF WriteExtent, WriteFails, FreeExtent
  <2>6. CASE Recheck(t) \/ SwapFragment(t) \/ FreeOld(t)
    BY <2>6 DEF Recheck, SwapFragment, FreeOld
  <2>7. CASE PutFails(t) \/ SyncWrite(t)
    BY <2>7 DEF PutFails, SyncWrite
  <2> QED BY <2>1, <2>2, <2>3, <2>4, <2>5, <2>6, <2>7 DEF ThreadStep
<1>2. CASE FlushTask \/ PersistRows \/ GcSync \/ FreeDiscarded
  BY <1>2 DEF FlushTask, PersistRows, GcSync, FreeDiscarded
<1>3. CASE Gc \/ \E k \in Fragments : DeleteFragment(k)
  BY <1>3 DEF Gc, DeleteFragment
<1>4. CASE \E k \in Keys : RemoveRow(k)
  BY <1>4 DEF RemoveRow, Store
<1>5. CASE \E c \in Chunks, on \in BOOLEAN : SetHold(c, on)
  BY <1>5 DEF SetHold, Store
<1>6. CASE Crash
  BY <1>6 DEF Crash
<1>7. CASE UNCHANGED vars
  BY <1>7 DEF vars
<1> QED BY <1>1, <1>2, <1>3, <1>4, <1>5, <1>6, <1>7 DEF Next

(* Failures are counted by the two actions that fail, and by no other. *)
LEMMA Failures ==
  ASSUME fails \in Nat, [Next]_vars
  PROVE  \/ fails' = fails /\ ~\E t \in Threads : WriteFails(t) \/ PutFails(t)
         \/ fails' = fails + 1
<1>1. CASE \E t \in Threads : WriteFails(t) \/ PutFails(t)
  BY <1>1 DEF WriteFails, PutFails, Fail
<1>2. CASE ~\E t \in Threads : WriteFails(t) \/ PutFails(t)
  <2>1. CASE \E t \in Threads : ThreadStep(t)
    <3>1. PICK t \in Threads : ThreadStep(t)
      BY <2>1
    <3>2. CASE \E c \in Chunks : Bump(t, c) \/ Register(t, c) \/ Decrement(t, c)
      BY <1>2, <3>2 DEF Bump, Register, Decrement, counters
    <3>3. CASE Reread(t) \/ (\E k \in Keys : StartWrite(t, k)) \/ WriteRefused(t)
      BY <1>2, <3>3 DEF Reread, StartWrite, WriteRefused, counters
    <3>4. CASE WriteExtent(t) \/ FreeExtent(t)
      BY <1>2, <3>4 DEF WriteExtent, FreeExtent, counters
    <3>5. CASE Recheck(t) \/ SwapFragment(t) \/ FreeOld(t)
      BY <1>2, <3>5 DEF Recheck, SwapFragment, FreeOld, counters
    <3>6. CASE PutRecord(t) \/ SyncWrite(t)
      BY <1>2, <3>6 DEF PutRecord, SyncWrite, counters
    <3> QED BY <1>2, <3>1, <3>2, <3>3, <3>4, <3>5, <3>6 DEF ThreadStep
  <2>2. CASE FlushTask \/ PersistRows \/ GcSync \/ FreeDiscarded
    BY <1>2, <2>2 DEF FlushTask, PersistRows, GcSync, FreeDiscarded, counters
  <2>3. CASE Gc \/ (\E k \in Fragments : DeleteFragment(k)) \/ (\E k \in Keys : RemoveRow(k))
    BY <1>2, <2>3 DEF Gc, DeleteFragment, RemoveRow, counters
  <2>4. CASE \E c \in Chunks, on \in BOOLEAN : SetHold(c, on)
    BY <1>2, <2>4 DEF SetHold, counters
  <2>5. CASE Crash
    BY <1>2, <2>5 DEF Crash
  <2>6. CASE UNCHANGED vars
    BY <1>2, <2>6 DEF vars
  <2> QED BY <2>1, <2>2, <2>3, <2>4, <2>5, <2>6 DEF Next
<1> QED BY <1>1, <1>2

(* Every step that fails nothing leaves each indexed chunk durable or about to be. *)
LEMMA StepDurable ==
  ASSUME OnDisk, syncPerWrite, [Next]_vars, ~torn', ~stale',
         ~\E t \in Threads : WriteFails(t) \/ PutFails(t), NEW c \in DOMAIN index' \cap Chunks
  PROVE  Durable(c)'
<1>1. CASE \E t \in Threads : ThreadStep(t)
  <2>1. PICK t \in Threads : ThreadStep(t)
    BY <1>1
  <2>2. CASE \E k \in Chunks : Bump(t, k) \/ Register(t, k) \/ Decrement(t, k)
    BY <2>2, CountDurable, RegisterDurable
  <2>3. CASE Reread(t) \/ Recheck(t)
    BY <2>3, RereadDurable, RecheckDurable
  <2>4. CASE \/ \E k \in Keys : StartWrite(t, k)
             \/ WriteExtent(t) \/ WriteRefused(t) \/ FreeExtent(t) \/ SwapFragment(t) \/ FreeOld(t)
    BY <2>4, PlainDurable
  <2>5. CASE PutRecord(t) \/ SyncWrite(t)
    BY <2>5, PutDurable, SyncDurable
  <2> QED BY <2>1, <2>2, <2>3, <2>4, <2>5 DEF ThreadStep
<1>2. CASE FlushTask
  BY <1>2 DEF FlushTask
<1>3. CASE \/ PersistRows \/ Gc \/ FreeDiscarded \/ GcSync
           \/ \E k \in Fragments : DeleteFragment(k)
           \/ \E k \in Keys : RemoveRow(k)
  BY <1>3, ExclDurable
<1>4. CASE \E k \in Chunks, on \in BOOLEAN : SetHold(k, on)
  BY <1>4, HoldDurable
<1>5. CASE Crash
  BY <1>5, CrashDurable
<1>6. CASE UNCHANGED vars
  <2>1. UNCHANGED <<index, rows, dbits, op>> /\ Durable(c)
    BY <1>6 DEF vars, OnDisk
  <2> QED BY <2>1 DEF Durable, Pending, Creating, Touches
<1> QED BY <1>1, <1>2, <1>3, <1>4, <1>5, <1>6 DEF Next

(* Every step keeps what the disk knows, or will know, of each chunk. *)
LEMMA NextDurable ==
  ASSUME Types, ProtectInv, torn \/ stale \/ Good, DurableInv, fails \in Nat, [Next]_vars
  PROVE  DurableInv' /\ fails' \in Nat
<1>1. /\ \/ fails' = fails /\ ~\E t \in Threads : WriteFails(t) \/ PutFails(t)
         \/ fails' = fails + 1
      /\ fails' \in Nat
  BY Failures
<1>2. (torn => torn') /\ (stale => stale')
  BY Latched
<1>3. syncPerWrite' = syncPerWrite
  BY DEF Next, vars
<1>4. SUFFICES ASSUME syncPerWrite
               PROVE  /\ prows' = rows'
                      /\ ~torn' /\ ~stale' /\ fails' = 0 =>
                           \A c \in DOMAIN index' \cap Chunks : Durable(c)'
  <2>1. CASE syncPerWrite
    BY <1>1, <1>4, <2>1 DEF DurableInv
  <2>2. CASE ~syncPerWrite
    BY <1>1, <1>3, <2>2 DEF DurableInv
  <2> QED BY <2>1, <2>2
<1>5. prows' = rows'
  BY <1>4, RowsSame DEF DurableInv
<1>6. ASSUME ~torn', ~stale', fails' = 0, NEW c \in DOMAIN index' \cap Chunks PROVE Durable(c)'
  <2>1. fails = 0 /\ ~torn /\ ~stale /\ ~\E t \in Threads : WriteFails(t) \/ PutFails(t)
    BY <1>1, <1>2, <1>6
  <2>2. OnDisk
    BY <1>4, <2>1 DEF OnDisk, DurableInv
  <2> QED BY <1>4, <1>6, <2>1, <2>2, StepDurable
<1> QED BY <1>5, <1>6

-----------------------------------------------------------------------------
(* What the properties of the device and of the disk rest on. *)
StoreInv ==
  /\ ProtectInv /\ syncPerWrite \in BOOLEAN /\ Types /\ fails \in Nat
  /\ torn \/ stale \/ Good
  /\ DurableInv

(* ... and that it contains the whole invariant the runs check. *)
LEMMA StoreInvIs == StoreInv => ChunkInv
<1> SUFFICES ASSUME StoreInv PROVE ChunkInv
  OBVIOUS
<1>1. ShapeOK /\ Types
  BY DEF StoreInv, ProtectInv
<1>2. TypeOK /\ CallsOK
  BY <1>1, TypesAre
<1>3. DeviceInv
  <2>1. CASE Good
    BY <1>1, <2>1, GoodIs DEF DeviceInv
  <2>2. CASE torn \/ stale
    BY <2>2 DEF DeviceInv
  <2> QED BY <2>1, <2>2 DEF StoreInv
<1> QED BY <1>2, <1>3 DEF StoreInv, ChunkInv

(* The whole invariant of the chunk store: index, rows, calls in progress,      *)
(* allocation bitmap, free list and disk agree after every step of every caller, *)
(* of GC and of the flush task, after every failure and after every crash.       *)
THEOREM ChunkInvariant == Spec => []ChunkInv
<1>1. Init => StoreInv
  <2> SUFFICES ASSUME Init PROVE StoreInv
    OBVIOUS
  <2>1. ProtectInv /\ Types /\ Good
    BY InitProtects, InitGood
  <2>2. syncPerWrite \in BOOLEAN /\ fails \in Nat
    BY ChunkStoreAssumption DEF Init
  <2>3. DurableInv
    BY DEF Init, DurableInv
  <2> QED BY <2>1, <2>2, <2>3 DEF StoreInv
<1>2. StoreInv /\ [Next]_vars => StoreInv'
  <2> SUFFICES ASSUME StoreInv, [Next]_vars PROVE StoreInv'
    OBVIOUS
  <2>1. ProtectInv' /\ syncPerWrite' \in BOOLEAN
    BY NextProtects DEF StoreInv
  <2>2. Types' /\ (torn' \/ stale' \/ Good')
    BY NextMoves DEF StoreInv
  <2>3. DurableInv' /\ fails' \in Nat
    BY NextDurable DEF StoreInv
  <2> QED BY <2>1, <2>2, <2>3 DEF StoreInv
<1> QED BY <1>1, <1>2, StoreInvIs, PTL DEF Spec

(* Types: index, rows, bitmap, free list and calls keep their shape. *)
THEOREM TypeCorrect == Spec => []TypeOK
<1>1. ChunkInv => TypeOK
  BY DEF ChunkInv
<1> QED BY <1>1, ChunkInvariant, PTL

(* Every indexed chunk or fragment reads back its own bytes from allocated      *)
(* blocks (read_chunk, read_fragment), unless a reopen met records that the     *)
(* device contradicts or a record overtook a newer one.                         *)
THEOREM ReadsOwnBytes == Spec => []ReadBack
<1>1. ChunkInv => ReadBack
  <2> SUFFICES ASSUME ChunkInv, ~torn, ~stale PROVE Consistent(index, dev.bitmap)
    BY DEF ReadBack
  <2>1. SpaceAccounted /\ BytesOK
    BY DEF ChunkInv, DeviceInv
  <2>2. RowBlocks(index) \subseteq dev.bitmap
    BY <2>1 DEF SpaceAccounted
  <2>3. \A k \in DOMAIN index : \A b \in Spans(index[k].ext) : data[b] = k
    BY <2>1 DEF BytesOK, KeyBlocks, Present
  <2> QED BY <2>2, <2>3 DEF Consistent
<1> QED BY <1>1, ChunkInvariant, PTL

(* With inline sync, a chunk that no call is working on is on the disk as it is *)
(* in memory: its record and the bits of its blocks (write_chunk, sync).        *)
THEOREM IdleChunkIsDurable == Spec => []QuiescentDurable
<1>1. ChunkInv => QuiescentDurable
  <2> SUFFICES ASSUME ChunkInv, syncPerWrite, ~torn, ~stale, fails = 0,
                      NEW c \in DOMAIN index \cap Chunks,
                      \A t \in Threads : op[t] = Idle \/ op[t].key # c
               PROVE  /\ c \in DOMAIN prows /\ prows[c] = index[c]
                      /\ Spans(index[c].ext) \subseteq dbits
    BY DEF QuiescentDurable
  <2>1. Durable(c) /\ prows = rows
    BY DEF ChunkInv, DurableInv
  <2>2. \A t \in Threads : ~Touches(t, c)
    BY DEF Touches, Idle
  <2> QED BY <2>1, <2>2 DEF Durable, Pending, Creating
<1> QED BY <1>1, ChunkInvariant, PTL

(* The device loses no space silently: an allocated block belongs to a record,  *)
(* to a call in progress or to a known leak (alloc, free, open).                *)
THEOREM SpaceIsAccounted == Spec => []SpaceAccounted
<1>1. ChunkInv => SpaceAccounted
  BY DEF ChunkInv, DeviceInv, SpaceAccounted
<1> QED BY <1>1, ChunkInvariant, PTL

(* The free list stays what rebuild_free_list computes from the bitmap: best-fit *)
(* allocation, splitting, freeing and coalescing on both sides agree with it.    *)
THEOREM FreeListIsExact == Spec => []FreeListExact
<1>1. ChunkInv => FreeListExact
  BY DEF ChunkInv, DeviceInv, FreeListExact
<1> QED BY <1>1, ChunkInvariant, PTL
=============================================================================
