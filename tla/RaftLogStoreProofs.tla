------------------------- MODULE RaftLogStoreProofs -------------------------
(* Machine-checked proofs about RaftLogStore, for any set of flushers, any    *)
(* pool size, cache size, byte budget and bounds, with group commit, without   *)
(* it, or both allowed.                                                       *)
EXTENDS RaftLogStore, FiniteSetTheorems, SequenceTheorems, WellFoundedInduction, TLAPS

-----------------------------------------------------------------------------
(* Least and greatest indexes. *)

(* Min of a nonempty set of naturals is its least element. *)
LEMMA MinIs ==
  ASSUME NEW S \in SUBSET Nat, S # {}
  PROVE  Min(S) \in S /\ \A y \in S : Min(S) <= y
<1>1. PICK x \in S : \A y \in S : ~(<<y, x>> \in OpToRel(<, Nat))
  BY WFMin, NatLessThanWellFounded
<1>2. \A y \in S : y \in Nat /\ ~(y < x)
  BY <1>1, Zenon DEF OpToRel
<1>3. x \in Nat /\ \A y \in S : x <= y
  BY <1>2
<1> QED
  BY <1>3 DEF Min

(* Max of a nonempty bounded one is its greatest: the distance to the bound    *)
(* is least there.                                                            *)
LEMMA MaxIs ==
  ASSUME NEW S \in SUBSET Nat, S # {}, NEW b \in Nat, \A y \in S : y <= b
  PROVE  Max(S) \in S /\ \A y \in S : y <= Max(S)
<1> DEFINE D == {d \in Nat : b - d \in S}
<1>1. \A y \in S : b - y \in D
  BY SMT
<1>2. D \in SUBSET Nat /\ D # {}
  BY <1>1
<1>3. Min(D) \in D /\ \A d \in D : Min(D) <= d
  BY <1>2, MinIs
<1> DEFINE x == b - Min(D)
<1>4. x \in S /\ \A y \in S : y <= x
  BY <1>1, <1>3
<1>5. \A y \in S : y \in Nat /\ x >= y
  BY <1>4
<1> HIDE DEF x
<1> QED
  BY <1>4, <1>5 DEF Max

(* Of two numbers. *)
LEMMA OfTwo ==
  ASSUME NEW a \in Nat, NEW b \in Nat
  PROVE  /\ Max({a, b}) = IF a >= b THEN a ELSE b
         /\ Min({a, b}) = IF a <= b THEN a ELSE b
BY DEF Max, Min

(* A log is a function on indexes, with a term for each. *)
LEMMA EntriesAre ==
  ASSUME NEW f \in Entries
  PROVE  /\ DOMAIN f \in SUBSET (1 .. MaxIndex) /\ f \in [DOMAIN f -> Entry]
         /\ \A D \in SUBSET DOMAIN f : Restrict(f, D) \in Entries
BY DEF Entries, Restrict

(* The empty log. *)
LEMMA NoneIs == None \in Entries /\ DOMAIN None = {}
<1>1. None \in [{} -> Entry] /\ DOMAIN None = {}
  BY DEF None
<1> QED
  BY <1>1 DEF Entries

(* The last index of an image is that of an entry, or last_purged. *)
LEMMA LastIndexIs ==
  ASSUME NEW img \in Image
  PROVE  /\ LastIndex(img) \in 0 .. MaxIndex
         /\ LastIndex(img) \in Indexes(img) \/ LastIndex(img) = img.purged
         /\ LastIndex(img) >= img.purged
         /\ \A i \in Indexes(img) : i <= LastIndex(img)
<1> DEFINE S == Indexes(img) \cup {img.purged}
<1>1. MaxIndex \in Nat /\ img.purged \in 0 .. MaxIndex /\ img.log \in Entries
  BY RaftLogAssumption DEF Image
<1>2. S \in SUBSET (0 .. MaxIndex) /\ S # {}
  BY <1>1, EntriesAre DEF Indexes
<1>3. S \in SUBSET Nat /\ \A y \in S : y <= MaxIndex
  BY <1>1, <1>2
<1>4. Max(S) \in S /\ \A y \in S : y <= Max(S)
  BY <1>1, <1>2, <1>3, MaxIs
<1> QED
  BY <1>2, <1>3, <1>4 DEF LastIndex

(* The first and the last index of a log that is not empty. *)
LEMMA EndsAre ==
  ASSUME NEW D \in SUBSET (1 .. MaxIndex), D # {}
  PROVE  /\ Min(D) \in D /\ Max(D) \in D
         /\ \A i \in D : Min(D) <= i /\ i <= Max(D)
<1>1. D \in SUBSET Nat /\ MaxIndex \in Nat /\ \A y \in D : y <= MaxIndex
  BY RaftLogAssumption
<1> QED
  BY <1>1, MinIs, MaxIs

-----------------------------------------------------------------------------
(* The operators the actions are built from. *)

(* Over puts entries over entries. *)
LEMMA OverIs ==
  ASSUME NEW f \in Entries, NEW g \in Entries
  PROVE  /\ Over(f, g) \in Entries
         /\ DOMAIN Over(f, g) = DOMAIN f \cup DOMAIN g
         /\ \A i \in DOMAIN f : Over(f, g)[i] = f[i]
         /\ \A i \in DOMAIN g \ DOMAIN f : Over(f, g)[i] = g[i]
<1> DEFINE D == DOMAIN f \cup DOMAIN g
<1>1. /\ f \in [DOMAIN f -> Entry] /\ DOMAIN f \in SUBSET (1 .. MaxIndex)
      /\ g \in [DOMAIN g -> Entry] /\ DOMAIN g \in SUBSET (1 .. MaxIndex)
  BY EntriesAre
<1>2. Over(f, g) \in [D -> Entry] /\ D \in SUBSET (1 .. MaxIndex)
  BY <1>1 DEF Over
<1>3. Over(f, g) \in Entries
  BY <1>2 DEF Entries
<1> QED
  BY <1>3 DEF Over

(* The cache after puts holds entries of the old cache and new ones, and no    *)
(* more than its capacity.                                                    *)
LEMMA PutIs ==
  ASSUME NEW new \in Entries, cache \in Entries, NEW c2 \in Put(new)
  PROVE  /\ c2 \in Entries /\ Cardinality(DOMAIN c2) <= CacheCap
         /\ \A i \in DOMAIN c2 : \/ i \in DOMAIN new /\ c2[i] = new[i]
                                 \/ i \in DOMAIN cache /\ c2[i] = cache[i]
<1> DEFINE all == Over(new, cache)
<1>1. PICK D \in SUBSET DOMAIN all :
        /\ c2 = Restrict(all, D)
        /\ Cardinality(D) = Min({CacheCap, Cardinality(DOMAIN all)})
  BY DEF Put
<1>2. /\ all \in Entries /\ DOMAIN all = DOMAIN new \cup DOMAIN cache
      /\ DOMAIN all \in SUBSET (1 .. MaxIndex)
      /\ \A i \in DOMAIN new : all[i] = new[i]
      /\ \A i \in DOMAIN cache \ DOMAIN new : all[i] = cache[i]
  BY OverIs, EntriesAre
<1>3. IsFiniteSet(1 .. MaxIndex) /\ CacheCap \in Nat
  BY RaftLogAssumption, FS_Interval
<1>4. Cardinality(DOMAIN all) \in Nat
  BY <1>2, <1>3, FS_Subset, FS_CardinalityType
<1>5. \A n \in Nat : Min({CacheCap, n}) <= CacheCap
  BY <1>3, OfTwo, SMTT(30)
<1>6. c2 \in Entries /\ DOMAIN c2 = D /\ \A i \in D : c2[i] = all[i]
  BY <1>1, <1>2, EntriesAre DEF Restrict
<1>7. \A i \in DOMAIN all : \/ i \in DOMAIN new /\ all[i] = new[i]
                            \/ i \in DOMAIN cache /\ all[i] = cache[i]
  BY <1>2
<1>8. Cardinality(DOMAIN c2) <= CacheCap
  BY <1>1, <1>4, <1>5, <1>6
<1> HIDE DEF all
<1> QED
  BY <1>6, <1>7, <1>8

(* What a commit does to the journal: the image is its last one, and no other  *)
(* is new.  Without group commit it is the only one.                          *)
LEMMA CommitIs ==
  ASSUME journal \in Seq(Image), journal # <<>>, coalesced \in BOOLEAN,
         NEW img \in Image, Commit(img)
  PROVE  /\ journal' \in Seq(Image) /\ journal' # <<>> /\ DB' = img
         /\ \A k \in DOMAIN journal' :
              journal'[k] = img \/ \E j \in DOMAIN journal : journal'[k] = journal[j]
         /\ coalesced => DOMAIN journal \subseteq DOMAIN journal'
         /\ ~coalesced => Len(journal') = 1
<1>1. CASE coalesced
  BY <1>1 DEF Commit, DB
<1>2. CASE ~coalesced
  BY <1>2 DEF Commit, DB
<1> QED
  BY <1>1, <1>2

(* The last image. *)
LEMMA LastImage ==
  ASSUME journal \in Seq(Image), journal # <<>>
  PROVE  Len(journal) \in DOMAIN journal /\ DB = journal[Len(journal)] /\ DB \in Image
BY DEF DB

-----------------------------------------------------------------------------
(* What every committed batch keeps. *)

(* An image stays good while more is committed and purged. *)
LEMMA ImageMonotone ==
  ASSUME NEW img \in Image, NEW c \in Nat, NEW g \in Nat, ImageOK(img, c, g),
         NEW c2 \in Nat, NEW g2 \in Nat, c <= c2, g <= g2
  PROVE  ImageOK(img, c2, g2)
<1>1. img.committed \in Nat /\ img.purged \in Nat /\ Indexes(img) \in SUBSET Nat
  BY RaftLogAssumption, EntriesAre DEF Image, Indexes
<1> QED
  BY <1>1 DEF ImageOK, Indexes

(* A log that follows on what was purged, or on what a purge was called for,  *)
(* makes a good image.                                                        *)
LEMMA GoodImage ==
  ASSUME NEW img \in Image, NEW p \in Nat, FollowsOn(img, p), p >= img.purged,
         NEW c \in Nat, NEW g \in Nat, p = img.purged \/ p <= g,
         \A i \in Indexes(img) : img.log[i] <= img.vote,
         img.committed <= c,
         \/ img.committed <= g \/ img.committed <= img.purged
         \/ \E i \in Indexes(img) : img.committed <= i
  PROVE  ImageOK(img, c, g)
<1>1. img.purged \in Nat /\ Indexes(img) \in SUBSET Nat
  BY RaftLogAssumption, EntriesAre DEF Image, Indexes
<1>2. \A i, j \in Indexes(img) : i .. j \subseteq Indexes(img)
  BY <1>1 DEF FollowsOn
<1>3. \A i \in Indexes(img) : \A j \in img.purged + 1 .. i : j \in Indexes(img) \/ j <= g
  BY <1>1 DEF FollowsOn
<1>4. \A i \in Indexes(img) : i > img.purged
  BY <1>1 DEF FollowsOn
<1> QED
  BY <1>2, <1>3, <1>4 DEF ImageOK

(* A batch leaves good images if its own is good. *)
LEMMA CommitKeepsImages ==
  ASSUME LogInv, NEW img \in Image, Commit(img), ImageOK(img, commit, gone'),
         commit' = commit, gone' \in Nat, gone <= gone'
  PROVE  ImagesOK'
<1>1. \A k \in DOMAIN journal : journal[k] \in Image /\ ImageOK(journal[k], commit, gone)
  BY DEF LogInv, TypeOK, ImagesOK
<1>2. commit \in Nat /\ commit <= commit /\ gone \in Nat
  BY RaftLogAssumption DEF LogInv, TypeOK, CoreOK
<1>3. \A j \in Image : ImageOK(j, commit, gone) => ImageOK(j, commit, gone')
  BY <1>2, ImageMonotone
<1>4. \A k \in DOMAIN journal' :
        journal'[k] = img \/ \E j \in DOMAIN journal : journal'[k] = journal[j]
  BY CommitIs DEF LogInv, TypeOK
<1> QED
  BY <1>1, <1>3, <1>4 DEF ImagesOK

(* What is reported as flushed stays in all images if the batch keeps it. *)
LEMMA CommitKeepsFlushed ==
  ASSUME LogInv, NEW img \in Image, Commit(img),
         \A i \in DOMAIN flushed' : /\ i \in DOMAIN flushed /\ flushed'[i] = flushed[i]
                                    /\ i \in Indexes(DB) /\ DB.log[i] = flushed[i]
                                       => i \in Indexes(img) /\ img.log[i] = flushed[i]
  PROVE  FlushedSurvives'
<1>1. /\ \A k \in DOMAIN journal' :
           journal'[k] = img \/ \E j \in DOMAIN journal : journal'[k] = journal[j]
  BY CommitIs DEF LogInv, TypeOK
<1>2. \A i \in DOMAIN flushed : /\ i \in Indexes(DB) /\ DB.log[i] = flushed[i]
                                /\ \A j \in DOMAIN journal :
                                     i \in Indexes(journal[j]) /\ journal[j].log[i] = flushed[i]
  BY LastImage DEF LogInv, TypeOK, FlushedSurvives
<1> QED
  BY <1>1, <1>2 DEF FlushedSurvives, Indexes

(* A batch of the core, which then does not wait, keeps the pool. *)
LEMMA CommitKeepsPool ==
  ASSUME LogInv, NEW img \in Image, Commit(img), core.pc # "barrier", core'.pc # "barrier",
         UNCHANGED <<coalescer, coalesced, caller>>
  PROVE  PoolOK' /\ NoWaiterForgotten'
<1>1. /\ coalesced => DOMAIN journal \subseteq DOMAIN journal'
      /\ ~coalesced => Len(journal') = 1
  BY CommitIs DEF LogInv, TypeOK
<1>2. \A d \in drains : "core" \notin d.for
  BY DEF LogInv, PoolOK
<1>3. PoolOK'
  BY <1>1, <1>2 DEF LogInv, PoolOK, coalescer
<1>4. NoWaiterForgotten'
  BY DEF LogInv, NoWaiterForgotten, coalescer
<1> QED
  BY <1>3, <1>4

(* A batch keeps what the readers asked for if it touches neither the          *)
(* committed entries that are not applied nor those being replicated.          *)
LEMMA CommitKeepsReaders ==
  ASSUME LogInv, NEW img \in Image, DB' = img, UNCHANGED <<reader, raft>>,
         \A i \in Indexes(DB) : i > applied /\ i <= commit
                                  => i \in Indexes(img) /\ img.log[i] = DB.log[i],
         \/ reader["repl"].pc = "idle"
         \/ \A i \in Indexes(DB) : i >= reader["repl"].lo
                                     => i \in Indexes(img) /\ img.log[i] = DB.log[i]
  PROVE  ReadersOK'
<1> DEFINE A == reader["apply"]
           R == reader["repl"]
<1>1. /\ reader' = reader /\ applied' = applied /\ commit' = commit /\ leader' = leader
      /\ applied \in Nat /\ commit \in Nat
      /\ A.lo \in Nat /\ A.hi \in Nat /\ R.lo \in Nat
  BY RaftLogAssumption DEF LogInv, CoreOK, ReadersOK, raft
<1>2. ReadersOK
  BY DEF LogInv
<1>3. A.pc # "idle" => \A i \in A.lo .. A.hi : /\ i \in Indexes(DB) /\ i > applied /\ i <= commit
                                                /\ i \in Indexes(img) /\ img.log[i] = DB.log[i]
  <2>1. A.pc # "idle" => \A i \in A.lo .. A.hi : i \in Indexes(DB) /\ i > applied /\ i <= commit
    BY <1>1, <1>2 DEF ReadersOK
  <2> QED
    BY <2>1
<1>4. R.pc # "idle" => \A i \in Indexes(DB) : i >= R.lo
                         => i \in Indexes(img) /\ img.log[i] = DB.log[i]
  OBVIOUS
<1>5. /\ A.pc # "idle" => A.lo .. A.hi \subseteq Indexes(img)
      /\ A.pc \in {"fill", "done"} => \A i \in A.lo .. A.hi : i \in Indexes(img) /\ A.got[i] = img.log[i]
  BY <1>2, <1>3 DEF ReadersOK, Matches
<1>6. /\ R.pc # "idle" => R.lo \in Indexes(img)
      /\ R.pc = "done" => \A i \in DOMAIN R.got : i \in Indexes(img) /\ R.got[i] = img.log[i]
  BY <1>1, <1>2, <1>4 DEF ReadersOK, Matches
<1> QED
  BY <1>1, <1>2, <1>5, <1>6 DEF ReadersOK, Matches

-----------------------------------------------------------------------------
(* append *)

(* The entries of a payload follow the log. *)
LEMMA AppendBatchKeeps ==
  ASSUME LogInv, NEW n \in 1 .. 2, NEW t \in 1 .. MaxTerm, AppendBatch(n, t)
  PROVE  LogInv'
<1>1. PICK from : from = LastIndex(DB) + 1
  OBVIOUS
<1>2. PICK new : new = [i \in from .. from + n - 1 |-> t]
  OBVIOUS
<1>3. PICK img : img = [DB EXCEPT !.log = Over(new, @)]
  OBVIOUS
<1>4. /\ core.pc = "idle" /\ from + n - 1 <= MaxIndex /\ t <= DB.vote
      /\ Commit(img) /\ core' = [pc |-> "cache", arg |-> new]
      /\ UNCHANGED <<coalescer, coalesced, poisoned, cache, caller, reader, raft,
                     flushed, gone, crashes>>
  BY <1>1, <1>2, <1>3 DEF AppendBatch, Free
<1>5. /\ DB \in Image /\ DB.log \in Entries /\ DB.vote \in Nat /\ DB.purged \in Nat
      /\ DB.committed \in Nat /\ MaxIndex \in Nat /\ ImageOK(DB, commit, gone)
      /\ FollowsOn(DB, DB.purged) /\ Indexes(DB) \in SUBSET (1 .. MaxIndex)
      /\ commit \in Nat /\ gone \in Nat /\ gone <= gone /\ applied \in Nat
      /\ DB.purged <= applied
  BY <1>4, LastImage, EntriesAre, RaftLogAssumption
  DEF LogInv, TypeOK, ImagesOK, CoreOK, Running, Image, Indexes
<1>6. /\ from \in 1 .. MaxIndex + 1 /\ from > DB.purged
      /\ \A i \in Indexes(DB) : i < from
      /\ from - 1 \in Indexes(DB) \/ from - 1 = DB.purged
  BY <1>1, <1>5, LastIndexIs
<1>7. new \in Entries /\ DOMAIN new = from .. from + n - 1
  <2>1. from .. from + n - 1 \in SUBSET (1 .. MaxIndex)
    BY <1>4, <1>5, <1>6
  <2>2. new \in [from .. from + n - 1 -> Entry]
    BY <1>2 DEF Entry
  <2> QED
    BY <2>1, <2>2 DEF Entries
<1>8. /\ img \in Image /\ img.log = Over(new, DB.log)
      /\ img.vote = DB.vote /\ img.purged = DB.purged /\ img.committed = DB.committed
  BY <1>3, <1>5, <1>7, OverIs DEF Image
<1>9. /\ Indexes(img) = Indexes(DB) \cup (from .. from + n - 1)
      /\ \A i \in from .. from + n - 1 : img.log[i] = t /\ new[i] = t
      /\ \A i \in Indexes(DB) : img.log[i] = DB.log[i]
  <2>1. \A i \in Indexes(DB) : i \in DOMAIN DB.log \ DOMAIN new
    BY <1>5, <1>6, <1>7 DEF Indexes
  <2>2. \A i \in from .. from + n - 1 : new[i] = t
    BY <1>2
  <2> DEFINE f == DB.log
  <2>3. f \in Entries
    BY <1>5
  <2> HIDE DEF f
  <2>4. /\ DOMAIN Over(new, f) = DOMAIN new \cup DOMAIN f
        /\ \A i \in DOMAIN new : Over(new, f)[i] = new[i]
        /\ \A i \in DOMAIN f \ DOMAIN new : Over(new, f)[i] = f[i]
    BY <1>7, <2>3, OverIs
  <2>5. /\ DOMAIN img.log = DOMAIN new \cup DOMAIN DB.log
        /\ \A i \in DOMAIN new : img.log[i] = new[i]
        /\ \A i \in DOMAIN DB.log \ DOMAIN new : img.log[i] = DB.log[i]
    BY <1>8, <2>4 DEF f
  <2> QED
    BY <1>7, <2>1, <2>2, <2>5 DEF Indexes
<1>10. FollowsOn(img, img.purged)
  BY <1>5, <1>6, <1>8, <1>9 DEF FollowsOn
<1>11. ImageOK(img, commit, gone)
  <2>1. /\ \A i \in Indexes(img) : img.log[i] <= img.vote
        /\ img.committed <= commit
        /\ \/ img.committed <= gone \/ img.committed <= img.purged
           \/ \E i \in Indexes(img) : img.committed <= i
    BY <1>4, <1>5, <1>8, <1>9 DEF ImageOK
  <2> QED
    BY <1>5, <1>8, <1>10, <2>1, GoodImage
<1>12. /\ journal' \in Seq(Image) /\ journal' # <<>> /\ DB' = img
       /\ coalesced => DOMAIN journal \subseteq DOMAIN journal'
  BY <1>4, <1>8, CommitIs DEF LogInv, TypeOK
<1>13. /\ core'.pc = "cache" /\ core'.arg = new /\ coalesced' = coalesced
       /\ cache' = cache /\ reader' = reader /\ commit' = commit /\ applied' = applied
       /\ leader' = leader /\ flushed' = flushed /\ gone' = gone
  BY <1>4 DEF raft
<1>14. TypeOK'
  BY <1>4, <1>12, <1>13 DEF LogInv, TypeOK, PoolOK, coalescer
<1>15. FlushedSurvives'
  BY <1>4, <1>8, <1>9, <1>13, CommitKeepsFlushed
<1>16. ImagesOK'
  BY <1>4, <1>5, <1>8, <1>11, <1>13, CommitKeepsImages
<1>17. CoreOK'
  BY <1>5, <1>7, <1>8, <1>9, <1>10, <1>12, <1>13
  DEF LogInv, CoreOK, Matches, Running, Indexes
<1>18. CacheOK'
  BY <1>4, <1>9, <1>12, <1>13 DEF LogInv, CacheOK, Matches
<1>19. ReadersOK'
  BY <1>4, <1>8, <1>9, <1>12, CommitKeepsReaders
<1>20. PoolOK' /\ NoWaiterForgotten'
  BY <1>4, <1>8, <1>13, CommitKeepsPool
<1> QED
  BY <1>14, <1>15, <1>16, <1>17, <1>18, <1>19, <1>20 DEF LogInv

-----------------------------------------------------------------------------
(* The coalescer. *)

(* The types of the pool. *)
PoolTypes ==
  /\ waiters \subseteq Others \cup {"core"} /\ timers \in Nat /\ drain_scheduled \in BOOLEAN
  /\ \A d \in drains : d.covers \in DOMAIN journal /\ d.for # {}

(* What flush adds: a caller that was nowhere is in the pool or in a sync.     *)
LEMMA JoinKeeps ==
  ASSUME LogInv, coalesced, NEW c \in Others \cup {"core"}, Join(c, Len(journal)),
         UNCHANGED <<journal, coalesced>>,
         \/ c = "core" /\ core.pc # "barrier" /\ core'.pc = "barrier" /\ caller' = caller
         \/ /\ c \in Others /\ core' = core
            /\ caller' = [caller EXCEPT ![c] = "waiting"]
  PROVE  PoolOK' /\ NoWaiterForgotten' /\ PoolTypes'
<1>1. PoolOK /\ NoWaiterForgotten /\ PoolTypes /\ "core" \notin Others
  BY RaftLogAssumption DEF LogInv, TypeOK, PoolTypes
<1>2. Len(journal) \in DOMAIN journal
  BY LastImage DEF LogInv, TypeOK
<1>3. c = "core" => "core" \notin waiters /\ \A d \in drains : "core" \notin d.for
  BY <1>1 DEF PoolOK
<1>4. caller' \in [Others -> {"new", "waiting", "done"}]
  BY <1>1 DEF PoolOK
<1>5. \A o \in Others \cup {"core"} :
        (IF o = "core" THEN core'.pc = "barrier" ELSE caller'[o] = "waiting")
        => \/ o = c
           \/ o \in waiters /\ drain_scheduled /\ timers > 0
           \/ \E d \in drains : o \in d.for
  BY <1>1 DEF NoWaiterForgotten, PoolOK
<1> DEFINE pool == waiters \cup {c}
<1>6. CASE /\ waiters' = {} /\ drain_scheduled' = FALSE /\ timers' = timers
           /\ drains' = drains \cup {[for |-> pool, covers |-> Len(journal)]}
  <2> DEFINE new == [for |-> pool, covers |-> Len(journal)]
  <2>1. new \in [for : SUBSET (Others \cup {"core"}), covers : DOMAIN journal] /\ new.for # {}
    BY <1>1, <1>2 DEF PoolTypes
  <2>2. "core" \in new.for =>
          /\ core'.pc = "barrier" /\ \A d \in drains : "core" \notin d.for
    BY <1>1, <1>3 DEF PoolOK
  <2>3. waiters \subseteq new.for /\ c \in new.for /\ new.covers = Len(journal)
    OBVIOUS
  <2>4. drains' = drains \cup {new}
    BY <1>6
  <2> HIDE DEF new
  <2>5. PoolTypes'
    BY <1>1, <1>6, <2>1, <2>4 DEF PoolTypes
  <2>6. \A d \in drains' : "core" \in d.for =>
          /\ core'.pc = "barrier" /\ "core" \notin waiters' /\ d.covers = Len(journal')
          /\ \A o \in drains' : "core" \in o.for => o = d
    BY <1>1, <1>6, <2>2, <2>3, <2>4 DEF PoolOK
  <2>7. PoolOK'
    BY <1>1, <1>4, <1>6, <2>1, <2>4, <2>6 DEF PoolOK
  <2>8. NoWaiterForgotten'
    BY <1>1, <1>5, <2>3, <2>4 DEF NoWaiterForgotten
  <2> QED
    BY <2>5, <2>7, <2>8
<1>7. CASE /\ waiters' = pool /\ drain_scheduled' = TRUE /\ drains' = drains
           /\ timers' = IF drain_scheduled THEN timers ELSE timers + 1
  <2>1. timers' \in Nat /\ timers' > 0
    BY <1>1, <1>7 DEF PoolOK, PoolTypes
  <2>2. PoolTypes'
    BY <1>1, <1>7, <2>1 DEF PoolTypes
  <2>3. PoolOK'
    BY <1>1, <1>3, <1>4, <1>7, <2>1 DEF PoolOK
  <2>4. NoWaiterForgotten'
    BY <1>1, <1>5, <1>7, <2>1 DEF NoWaiterForgotten
  <2> QED
    BY <2>2, <2>3, <2>4
<1> QED
  BY <1>6, <1>7 DEF Join, StartDrain

(* append, second part: the cache takes entries of the log, and the core waits *)
(* or, without group commit, reports the only image as flushed.               *)
LEMMA CacheAndBarrierKeeps ==
  ASSUME LogInv, CacheAndBarrier
  PROVE  LogInv'
<1>1. /\ core.pc = "cache" /\ core.arg \in Entries /\ cache \in Entries
      /\ \A i \in DOMAIN core.arg : Matches(core.arg, i)
      /\ cache' \in Put(core.arg)
      /\ UNCHANGED <<coalesced, journal, poisoned, caller, reader, raft, gone, crashes>>
  BY DEF CacheAndBarrier, LogInv, CoreOK, TypeOK
<1>2. /\ cache' \in Entries /\ Cardinality(DOMAIN cache') <= CacheCap
      /\ \A i \in DOMAIN cache' : \/ i \in DOMAIN core.arg /\ cache'[i] = core.arg[i]
                                  \/ i \in DOMAIN cache /\ cache'[i] = cache[i]
  BY <1>1, PutIs
<1>3. CacheOK'
  BY <1>1, <1>2 DEF LogInv, CacheOK, Matches, DB
<1>4. ImagesOK' /\ ReadersOK'
  BY <1>1 DEF LogInv, ImagesOK, ReadersOK, Matches, DB, raft
<1>5. core'.pc \in {"idle", "barrier"} => CoreOK'
  BY <1>1 DEF LogInv, CoreOK, Running, FollowsOn, Matches, DB, raft
<1>6. CASE coalesced /\ Join("core", Len(journal)) /\ core' = [pc |-> "barrier", arg |-> 0]
           /\ UNCHANGED flushed
  <2>1. PoolOK' /\ NoWaiterForgotten' /\ PoolTypes'
    BY <1>1, <1>6, JoinKeeps
  <2>2. TypeOK' /\ FlushedSurvives'
    BY <1>1, <1>2, <1>6, <2>1 DEF LogInv, TypeOK, PoolTypes, FlushedSurvives
  <2> QED
    BY <1>3, <1>4, <1>5, <1>6, <2>1, <2>2 DEF LogInv
<1>7. CASE ~coalesced /\ core' = Idle /\ flushed' = DB.log /\ UNCHANGED coalescer
  <2>1. Len(journal) = 1 /\ DB \in Image /\ DB.log \in Entries
    BY <1>7, LastImage DEF LogInv, PoolOK, TypeOK, Image
  <2>2. FlushedSurvives'
    BY <1>1, <1>7, <2>1 DEF LogInv, TypeOK, FlushedSurvives, DB, Indexes
  <2>3. PoolOK' /\ NoWaiterForgotten'
    BY <1>1, <1>7 DEF LogInv, PoolOK, NoWaiterForgotten, coalescer, Idle
  <2>4. TypeOK'
    BY <1>1, <1>2, <1>7, <2>1 DEF LogInv, TypeOK, coalescer
  <2> QED
    BY <1>3, <1>4, <1>5, <1>7, <2>2, <2>3, <2>4 DEF LogInv, Idle
<1> QED
  BY <1>6, <1>7 DEF CacheAndBarrier

(* Another caller of the coalescer. *)
LEMMA OtherFlushKeeps ==
  ASSUME LogInv, NEW c \in Others, OtherFlush(c)
  PROVE  LogInv'
<1>1. PoolOK' /\ NoWaiterForgotten' /\ PoolTypes'
  BY JoinKeeps DEF OtherFlush
<1>2. TypeOK' /\ FlushedSurvives'
  BY <1>1 DEF OtherFlush, LogInv, TypeOK, PoolTypes, FlushedSurvives
<1>3. ImagesOK' /\ CoreOK' /\ CacheOK' /\ ReadersOK'
  BY DEF OtherFlush, LogInv, ImagesOK, CoreOK, CacheOK, ReadersOK, Running, FollowsOn,
         Matches, DB, raft
<1> QED
  BY <1>1, <1>2, <1>3 DEF LogInv

LEMMA OtherDroppedKeeps ==
  ASSUME LogInv, NEW c \in Others, OtherDropped(c)
  PROVE  LogInv'
<1>1. PoolOK' /\ NoWaiterForgotten'
  BY DEF OtherDropped, LogInv, PoolOK, NoWaiterForgotten, coalescer
<1>2. TypeOK' /\ FlushedSurvives'
  BY DEF OtherDropped, LogInv, TypeOK, FlushedSurvives, coalescer
<1>3. ImagesOK' /\ CoreOK' /\ CacheOK' /\ ReadersOK'
  BY DEF OtherDropped, LogInv, ImagesOK, CoreOK, CacheOK, ReadersOK, Running, FollowsOn,
         Matches, DB, raft
<1> QED
  BY <1>1, <1>2, <1>3 DEF LogInv

(* A timer moves the pool into a sync that covers all commits so far. *)
LEMMA TimerKeeps ==
  ASSUME LogInv, Timer
  PROVE  LogInv'
<1>1. /\ timers > 0 /\ timers' = timers - 1 /\ drain_scheduled' = FALSE /\ waiters' = {}
      /\ drains' = IF waiters = {} THEN drains
                   ELSE drains \cup {[for |-> waiters, covers |-> Len(journal)]}
      /\ UNCHANGED <<coalesced, journal, poisoned, cache, core, caller, reader, raft,
                     flushed, gone, crashes>>
  BY DEF Timer, TimerDrain, StartDrain
<1>2. PoolOK /\ NoWaiterForgotten /\ PoolTypes
  BY DEF LogInv, TypeOK, PoolTypes
<1>3. PoolOK' /\ NoWaiterForgotten' /\ PoolTypes'
  <2>9. timers' \in Nat /\ drain_scheduled' \in BOOLEAN
    <3>1. drain_scheduled' \in BOOLEAN
      BY <1>1
    <3>2. timers \in Nat /\ timers > 0 /\ timers' = timers - 1
      BY <1>1, <1>2 DEF PoolTypes
    <3>3. timers' \in Nat
      BY <3>2
    <3> QED
      BY <3>1, <3>3
  <2>1. CASE waiters = {}
    <3>1. PoolTypes'
      BY <1>1, <1>2, <2>9, <2>1 DEF PoolTypes
    <3>2. PoolOK'
      BY <1>1, <1>2, <2>1 DEF PoolOK
    <3>3. NoWaiterForgotten'
      BY <1>1, <1>2, <2>1 DEF NoWaiterForgotten
    <3> QED
      BY <3>1, <3>2, <3>3
  <2>2. CASE waiters # {}
    <3> DEFINE new == [for |-> waiters, covers |-> Len(journal)]
    <3>1. Len(journal) \in DOMAIN journal
      BY LastImage DEF LogInv, TypeOK
    <3>2. new \in [for : SUBSET (Others \cup {"core"}), covers : DOMAIN journal]
          /\ new.for = waiters /\ new.covers = Len(journal)
      BY <1>2, <3>1 DEF PoolTypes
    <3>3. drains' = drains \cup {new}
      BY <1>1, <2>2
    <3> HIDE DEF new
    <3>4. PoolTypes'
      BY <1>1, <1>2, <2>9, <2>2, <3>1, <3>2, <3>3 DEF PoolTypes
    <3>5. \A d \in drains' : "core" \in d.for =>
            /\ core'.pc = "barrier" /\ "core" \notin waiters' /\ d.covers = Len(journal')
            /\ \A o \in drains' : "core" \in o.for => o = d
      BY <1>1, <1>2, <3>2, <3>3 DEF PoolOK
    <3>6. PoolOK'
      BY <1>1, <1>2, <2>2, <3>2, <3>3, <3>5 DEF PoolOK
    <3>7. NoWaiterForgotten'
      BY <1>1, <1>2, <3>2, <3>3 DEF NoWaiterForgotten
    <3> QED
      BY <3>4, <3>6, <3>7
  <2> QED
    BY <2>1, <2>2
<1>4. TypeOK' /\ FlushedSurvives'
  BY <1>1, <1>3 DEF LogInv, TypeOK, PoolTypes, FlushedSurvives
<1>5. ImagesOK' /\ CoreOK' /\ CacheOK' /\ ReadersOK'
  BY <1>1 DEF LogInv, ImagesOK, CoreOK, CacheOK, ReadersOK, Running, FollowsOn,
              Matches, DB, raft
<1> QED
  BY <1>3, <1>4, <1>5 DEF LogInv

(* What a sync makes durable is no longer at risk; the newest image stays. *)
LEMMA SyncedJournal ==
  ASSUME journal \in Seq(Image), NEW m \in DOMAIN journal,
         journal' = SubSeq(journal, m, Len(journal))
  PROVE  /\ journal' \in Seq(Image) /\ journal' # <<>> /\ DB' = DB
         /\ Len(journal') = (Len(journal) + 1) - m
         /\ \A k \in DOMAIN journal' : \E j \in DOMAIN journal : journal'[k] = journal[j]
<1>1. m \in 1 .. Len(journal) /\ Len(journal) \in Nat
  OBVIOUS
<1>2. /\ journal' \in Seq(Image) /\ Len(journal') = (Len(journal) + 1) - m
      /\ \A k \in 1 .. Len(journal') : journal'[k] = journal[(m + k) - 1]
  BY <1>1
<1>3. PICK n \in Nat : n = Len(journal)
  BY <1>1
<1>4. PICK n2 : n2 = Len(journal')
  OBVIOUS
<1>5. /\ n2 \in Nat /\ n2 > 0 /\ n2 \in 1 .. n2 /\ (m + n2) - 1 = n
      /\ \A k \in 1 .. n2 : (m + k) - 1 \in 1 .. n
  BY <1>1, <1>2, <1>3, <1>4
<1>6. DB' = DB
  BY <1>2, <1>3, <1>4, <1>5 DEF DB
<1>7. DOMAIN journal' = 1 .. n2 /\ DOMAIN journal = 1 .. n
  BY <1>2, <1>3, <1>4
<1>8. \A k \in DOMAIN journal' : \E j \in DOMAIN journal : journal'[k] = journal[j]
  BY <1>2, <1>4, <1>5, <1>7
<1>9. journal' # <<>>
  <2>1. Len(<<>>) = 0 /\ n2 # 0
    BY <1>5
  <2> QED
    BY <1>4, <2>1
<1> QED
  BY <1>2, <1>6, <1>8, <1>9

(* A drain ends: nobody who waited in it waits any more, and those of the      *)
(* other drains still do.                                                     *)
LEMMA DrainEnds ==
  ASSUME LogInv, NEW d \in drains, Answer(d),
         core'.pc = "barrier" => core.pc = "barrier" /\ "core" \notin d.for,
         \A o \in drains \ {d} : \E o2 \in drains' : o2.for = o.for,
         UNCHANGED <<waiters, drain_scheduled, timers>>
  PROVE  /\ NoWaiterForgotten'
         /\ caller' \in [Others -> {"new", "waiting", "done"}]
<1>1. PoolOK /\ NoWaiterForgotten
  BY DEF LogInv
<1>2. /\ caller' \in [Others -> {"new", "waiting", "done"}]
      /\ \A c \in Others : caller'[c] = "waiting" => caller[c] = "waiting" /\ c \notin d.for
  BY <1>1 DEF Answer, PoolOK
<1> QED
  BY <1>1, <1>2 DEF NoWaiterForgotten

(* A sync succeeds. *)
LEMMA PersistedKeeps ==
  ASSUME LogInv, NEW d \in drains, Persisted(d)
  PROVE  LogInv'
<1> DEFINE rebased(o) == [o EXCEPT !.covers = Max({1, (o.covers + 1) - d.covers})]
<1>1. /\ journal' = SubSeq(journal, d.covers, Len(journal))
      /\ drains' = {rebased(o) : o \in drains \ {d}}
      /\ Answer(d)
      /\ core' = IF "core" \in d.for THEN Idle ELSE core
      /\ flushed' = IF "core" \in d.for THEN DB.log ELSE flushed
      /\ UNCHANGED <<waiters, drain_scheduled, timers, coalesced, poisoned, cache,
                     reader, raft, gone, crashes>>
  BY DEF Persisted
<1>2. PoolOK /\ PoolTypes /\ journal \in Seq(Image) /\ d.covers \in DOMAIN journal
  BY DEF LogInv, TypeOK, PoolTypes
<1>3. /\ journal' \in Seq(Image) /\ journal' # <<>> /\ DB' = DB
      /\ Len(journal') = (Len(journal) + 1) - d.covers
      /\ \A k \in DOMAIN journal' : \E j \in DOMAIN journal : journal'[k] = journal[j]
  BY <1>1, <1>2, SyncedJournal
<1>4. \A o \in drains \ {d} :
        /\ rebased(o) \in [for : SUBSET (Others \cup {"core"}), covers : DOMAIN journal']
        /\ rebased(o).for = o.for
        /\ o.covers = Len(journal) => rebased(o).covers = Len(journal')
  <2> TAKE o \in drains \ {d}
  <2>1. o \in [for : SUBSET (Others \cup {"core"}), covers : DOMAIN journal]
    BY <1>2 DEF PoolOK
  <2>2. /\ o.covers \in 1 .. Len(journal) /\ d.covers \in 1 .. Len(journal)
        /\ Len(journal) \in Nat
    BY <1>2, <2>1
  <2>3. PICK m : m = Max({1, (o.covers + 1) - d.covers})
    OBVIOUS
  <2>4. m = IF 1 >= (o.covers + 1) - d.covers THEN 1 ELSE (o.covers + 1) - d.covers
    BY <2>2, <2>3 DEF Max
  <2>5. m \in 1 .. Len(journal') /\ (o.covers = Len(journal) => m = Len(journal'))
    BY <1>3, <2>2, <2>4
  <2> QED
    BY <1>3, <2>1, <2>3, <2>5
<1> HIDE DEF rebased
<1>5. ~("core" \in d.for) => core' = core
  BY <1>1
<1>6. "core" \in d.for => /\ core'.pc = "idle" /\ d.covers = Len(journal) /\ core.pc = "barrier"
                          /\ "core" \notin waiters
                          /\ \A o \in drains \ {d} : "core" \notin o.for
  BY <1>1, <1>2 DEF PoolOK, Idle
<1>7. PoolOK' /\ NoWaiterForgotten' /\ PoolTypes'
  <2>1. \A o \in drains \ {d} : rebased(o) \in drains' /\ rebased(o).for = o.for
    BY <1>1, <1>4
  <2>2. core'.pc = "barrier" => core.pc = "barrier" /\ "core" \notin d.for
    BY <1>5, <1>6
  <2>3. NoWaiterForgotten' /\ caller' \in [Others -> {"new", "waiting", "done"}]
    BY <1>1, <2>1, <2>2, DrainEnds
  <2>4. \A p \in drains' : \E o \in drains \ {d} :
          /\ p = rebased(o) /\ p.for = o.for
          /\ p \in [for : SUBSET (Others \cup {"core"}), covers : DOMAIN journal']
          /\ o.covers = Len(journal) => p.covers = Len(journal')
    BY <1>1, <1>4
  <2>5. PoolTypes'
    BY <1>1, <1>2, <2>4 DEF PoolTypes
  <2>6. \A p \in drains' : "core" \in p.for =>
          /\ core'.pc = "barrier" /\ "core" \notin waiters' /\ p.covers = Len(journal')
          /\ \A q \in drains' : "core" \in q.for => q = p
    <3> TAKE p \in drains'
    <3> HAVE "core" \in p.for
    <3>1. PICK o \in drains \ {d} :
            p = rebased(o) /\ "core" \in o.for /\ (o.covers = Len(journal) => p.covers = Len(journal'))
      BY <2>4
    <3>2. /\ core.pc = "barrier" /\ "core" \notin waiters /\ o.covers = Len(journal)
          /\ \A q \in drains : "core" \in q.for => q = o
      BY <1>2, <3>1 DEF PoolOK
    <3>3. "core" \notin d.for
      BY <3>1, <3>2
    <3>4. \A q \in drains' : "core" \in q.for => q = p
      BY <2>4, <3>1, <3>2
    <3> QED
      BY <1>1, <1>5, <3>1, <3>2, <3>3, <3>4
  <2>7. coalesced
    BY <1>2 DEF PoolOK
  <2>8. PoolOK'
    BY <1>1, <1>2, <1>5, <1>6, <2>3, <2>4, <2>6, <2>7 DEF PoolOK
  <2> QED
    BY <2>3, <2>5, <2>8
<1>8. FlushedSurvives' /\ flushed' \in Entries
  <2>1. CASE "core" \in d.for
    <3>1. DB \in Image /\ DB.log \in Entries
      BY LastImage DEF LogInv, TypeOK, Image
    <3>2. Len(journal) \in Nat /\ Len(journal') = (Len(journal) + 1) - Len(journal)
      BY <1>2, <1>3, <1>6, <2>1
    <3>3. Len(journal') = 1
      BY <3>2
    <3>4. DOMAIN journal' = 1 .. 1
      <4>1. DOMAIN journal' = 1 .. Len(journal')
        BY <1>3, LenProperties
      <4> QED
        BY <3>3, <4>1
    <3>5. journal'[1] = DB
      <4>1. DB' = journal'[Len(journal')]
        BY DEF DB
      <4> QED
        BY <1>3, <3>3, <4>1
    <3>6. \A k \in DOMAIN journal' : journal'[k] = DB
      BY <3>4, <3>5
    <3> QED
      BY <1>1, <2>1, <3>1, <3>6 DEF FlushedSurvives, Indexes
  <2>2. CASE "core" \notin d.for
    <3>1. flushed' = flushed
      BY <1>1, <2>2
    <3>2. flushed \in Entries /\ FlushedSurvives
      BY DEF LogInv, TypeOK
    <3>3. FlushedSurvives'
      BY <1>3, <3>1, <3>2 DEF FlushedSurvives, Indexes
    <3> QED
      BY <3>1, <3>2, <3>3
  <2> QED
    BY <2>1, <2>2
<1>9. TypeOK'
  BY <1>1, <1>3, <1>7, <1>8 DEF LogInv, TypeOK, PoolTypes
<1>10. ImagesOK'
  BY <1>1, <1>3 DEF LogInv, ImagesOK, raft
<1>11. CoreOK'
  <2>1. CASE "core" \in d.for
    BY <1>1, <1>3, <1>6, <2>1 DEF LogInv, CoreOK, Running, FollowsOn, raft, Idle
  <2>2. CASE "core" \notin d.for
    BY <1>1, <1>3, <1>5, <2>2 DEF LogInv, CoreOK, Running, FollowsOn, Matches, raft
  <2> QED
    BY <2>1, <2>2
<1>12. CacheOK'
  <2>1. CASE "core" \in d.for
    BY <1>1, <1>3, <1>6, <2>1 DEF LogInv, CacheOK, Matches, raft
  <2>2. CASE "core" \notin d.for
    BY <1>1, <1>3, <1>5, <2>2 DEF LogInv, CacheOK, Matches, raft
  <2> QED
    BY <2>1, <2>2
<1>13. ReadersOK'
  BY <1>1, <1>3 DEF LogInv, ReadersOK, Matches, raft
<1> QED
  BY <1>7, <1>8, <1>9, <1>10, <1>11, <1>12, <1>13 DEF LogInv

(* A sync fails: the core stops, and its entries were never reported. *)
LEMMA PersistFailsKeeps ==
  ASSUME LogInv, NEW d \in drains, PersistFails(d)
  PROVE  LogInv'
<1>1. /\ poisoned' = TRUE /\ drains' = drains \ {d} /\ Answer(d)
      /\ core' = IF "core" \in d.for THEN [pc |-> "dead", arg |-> 0] ELSE core
      /\ UNCHANGED <<waiters, drain_scheduled, timers, coalesced, journal, cache,
                     reader, raft, flushed, gone, crashes>>
  BY DEF PersistFails
<1>2. PoolOK /\ PoolTypes
  BY DEF LogInv, TypeOK, PoolTypes
<1>3. "core" \notin d.for => core' = core
  BY <1>1
<1>4. "core" \in d.for => /\ core'.pc = "dead" /\ core.pc = "barrier" /\ "core" \notin waiters
                          /\ \A o \in drains \ {d} : "core" \notin o.for
  BY <1>1, <1>2 DEF PoolOK
<1>5. PoolOK' /\ NoWaiterForgotten'
  <2>1. core'.pc = "barrier" => core.pc = "barrier" /\ "core" \notin d.for
    BY <1>3, <1>4
  <2>2. \A o \in drains \ {d} : \E o2 \in drains' : o2.for = o.for
    BY <1>1
  <2>3. NoWaiterForgotten' /\ caller' \in [Others -> {"new", "waiting", "done"}]
    BY <1>1, <2>1, <2>2, DrainEnds
  <2>4. PoolOK'
    BY <1>1, <1>2, <1>3, <1>4, <2>3 DEF PoolOK
  <2> QED
    BY <2>3, <2>4
<1>6. TypeOK' /\ FlushedSurvives'
  BY <1>1 DEF LogInv, TypeOK, FlushedSurvives
<1>7. ImagesOK' /\ ReadersOK'
  BY <1>1 DEF LogInv, ImagesOK, ReadersOK, Matches, DB, raft
<1>8. CoreOK' /\ CacheOK'
  <2>1. CASE "core" \in d.for
    BY <1>1, <1>4, <2>1 DEF LogInv, CoreOK, CacheOK, Running, FollowsOn, Matches, DB, raft
  <2>2. CASE "core" \notin d.for
    BY <1>1, <1>3, <2>2 DEF LogInv, CoreOK, CacheOK, Running, FollowsOn, Matches, DB, raft
  <2> QED
    BY <2>1, <2>2
<1> QED
  BY <1>5, <1>6, <1>7, <1>8 DEF LogInv

-----------------------------------------------------------------------------
(* Truncation, purge and the hard state. *)

(* What an invariant says of the newest image while the core is running. *)
LEMMA Newest ==
  ASSUME LogInv
  PROVE  /\ DB \in Image /\ DB.log \in Entries /\ DB.vote \in Nat /\ DB.purged \in Nat
         /\ DB.committed \in Nat /\ MaxIndex \in Nat /\ ImageOK(DB, commit, gone)
         /\ Indexes(DB) \in SUBSET (1 .. MaxIndex) /\ Indexes(DB) \in SUBSET Nat
         /\ commit \in Nat /\ gone \in Nat /\ gone <= gone /\ applied \in Nat
         /\ DB.purged \in 0 .. MaxIndex /\ DB.vote \in 0 .. MaxTerm
         /\ coalesced \in BOOLEAN /\ journal \in Seq(Image) /\ journal # <<>>
<1>1. /\ DB \in Image /\ ImageOK(DB, commit, gone) /\ MaxIndex \in Nat /\ MaxTerm \in Nat
      /\ commit \in 0 .. MaxIndex /\ gone \in 0 .. MaxIndex /\ applied \in 0 .. MaxIndex
      /\ coalesced \in BOOLEAN /\ journal \in Seq(Image) /\ journal # <<>>
  BY LastImage, RaftLogAssumption DEF LogInv, TypeOK, ImagesOK, CoreOK
<1>2. /\ DB.log \in Entries /\ DB.vote \in 0 .. MaxTerm /\ DB.purged \in 0 .. MaxIndex
      /\ DB.committed \in 0 .. MaxIndex
  BY <1>1 DEF Image
<1>3. Indexes(DB) \in SUBSET (1 .. MaxIndex)
  BY <1>2, EntriesAre DEF Indexes
<1> QED
  BY <1>1, <1>2, <1>3

(* A restricted log in an image. *)
LEMMA RestrictedImage ==
  ASSUME NEW img \in Image, NEW D \in SUBSET Indexes(img),
         NEW img2, img2 = [img EXCEPT !.log = Restrict(@, D)]
  PROVE  /\ img2 \in Image /\ Indexes(img2) = D /\ \A i \in D : img2.log[i] = img.log[i]
         /\ img2.vote = img.vote /\ img2.purged = img.purged /\ img2.committed = img.committed
<1>1. img.log \in Entries
  BY DEF Image
<1>2. Restrict(img.log, D) \in Entries /\ DOMAIN Restrict(img.log, D) = D
      /\ \A i \in D : Restrict(img.log, D)[i] = img.log[i]
  BY <1>1, EntriesAre DEF Indexes, Restrict
<1> QED
  BY <1>2 DEF Image, Indexes

(* Truncating a suffix keeps what is committed, and a follower replicates      *)
(* nothing.                                                                   *)
LEMMA TruncateAfterKeeps ==
  ASSUME LogInv, NEW i \in 0 .. MaxIndex, TruncateAfter(i)
  PROVE  LogInv'
<1>1. PICK D : D = {j \in Indexes(DB) : j <= i}
  OBVIOUS
<1>2. PICK img : img = [DB EXCEPT !.log = Restrict(@, D)]
  OBVIOUS
<1>3. PICK F : F = {j \in DOMAIN flushed : j <= i}
  OBVIOUS
<1>4. /\ core.pc = "idle" /\ ~leader /\ i >= Max({commit, DB.purged}) /\ i < LastIndex(DB)
      /\ Commit(img) /\ flushed' = Restrict(flushed, F)
      /\ core' = [pc |-> "clear", arg |-> 0]
      /\ UNCHANGED <<coalescer, coalesced, poisoned, cache, caller, reader, raft,
                     gone, crashes>>
  BY <1>1, <1>2, <1>3 DEF TruncateAfter, Free, Indexes
<1>5. i \in Nat /\ i >= commit /\ i >= DB.purged
  BY <1>4, Newest, OfTwo
<1>6. FollowsOn(DB, DB.purged) /\ DB.purged <= applied /\ ReadersOK
  BY <1>4 DEF LogInv, CoreOK, Running
<1>7. D \in SUBSET Indexes(DB) /\ DB \in Image
  BY <1>1, Newest
<1>8. /\ img \in Image /\ Indexes(img) = D /\ \A j \in D : img.log[j] = DB.log[j]
      /\ img.vote = DB.vote /\ img.purged = DB.purged /\ img.committed = DB.committed
  BY <1>2, <1>7, RestrictedImage, ZenonT(30)
<1>9. i = DB.purged \/ i \in D
  <2>1. LastIndex(DB) \in Indexes(DB) /\ LastIndex(DB) \in Nat
    BY <1>4, <1>5, <1>7, LastIndexIs, Newest
  <2>2. DB.purged \in Nat /\ (i # DB.purged => i \in DB.purged + 1 .. LastIndex(DB))
    BY <1>4, <1>5, <2>1, Newest
  <2> QED
    BY <1>1, <1>5, <1>6, <2>1, <2>2 DEF FollowsOn
<1>10. FollowsOn(img, img.purged)
  BY <1>1, <1>5, <1>6, <1>8, Newest DEF FollowsOn
<1>11. ImageOK(img, commit, gone)
  <2>1. \A j \in Indexes(img) : img.log[j] <= img.vote
    BY <1>7, <1>8, Newest DEF ImageOK
  <2>2. img.committed <= commit
    BY <1>8, Newest DEF ImageOK
  <2>3. img.committed <= i
    BY <1>5, <1>8, <2>2, Newest
  <2>4. img.committed <= img.purged \/ \E j \in Indexes(img) : img.committed <= j
    BY <1>8, <1>9, <2>3
  <2>5. img.purged \in Nat /\ img.purged >= img.purged
    BY <1>8, Newest
  <2> QED
    BY <1>8, <1>10, <2>1, <2>2, <2>4, <2>5, GoodImage, Newest
<1>12. /\ journal' \in Seq(Image) /\ journal' # <<>> /\ DB' = img
       /\ coalesced => DOMAIN journal \subseteq DOMAIN journal'
  BY <1>4, <1>8, CommitIs, Newest
<1>13. /\ core'.pc = "clear" /\ core'.arg = 0 /\ coalesced' = coalesced
       /\ cache' = cache /\ reader' = reader /\ commit' = commit /\ applied' = applied
       /\ leader' = leader /\ gone' = gone
  BY <1>4 DEF raft
<1>14. /\ flushed' \in Entries /\ DOMAIN flushed' = F
       /\ \A j \in DOMAIN flushed' : j \in DOMAIN flushed /\ flushed'[j] = flushed[j] /\ j <= i
  BY <1>3, <1>4, EntriesAre DEF LogInv, TypeOK, Restrict
<1>15. TypeOK'
  BY <1>4, <1>12, <1>13, <1>14 DEF LogInv, TypeOK, PoolOK, coalescer
<1>16. FlushedSurvives'
  BY <1>1, <1>4, <1>8, <1>14, CommitKeepsFlushed
<1>17. ImagesOK'
  BY <1>4, <1>8, <1>11, <1>13, CommitKeepsImages, Newest
<1>18. CoreOK'
  BY <1>4, <1>6, <1>8, <1>10, <1>12, <1>13 DEF LogInv, CoreOK, Running
<1>19. CacheOK'
  <2>1. \A j \in DOMAIN cache : Matches(cache, j) /\ j \in Nat
    BY <1>4, Newest DEF LogInv, CacheOK, Matches
  <2>2. \A j \in DOMAIN cache : (j \in D /\ cache[j] = img.log[j]) \/ j > commit
    BY <1>1, <1>5, <1>8, <2>1, Newest DEF Matches
  <2> QED
    BY <1>8, <1>12, <1>13, <2>2 DEF CacheOK, Matches
<1>20. ReadersOK'
  <2>1. reader["repl"].pc = "idle"
    BY <1>4, <1>6 DEF ReadersOK
  <2>2. \A j \in Indexes(DB) : j <= commit => j \in D
    BY <1>1, <1>5, Newest
  <2> QED
    BY <1>4, <1>8, <1>12, <2>1, <2>2, CommitKeepsReaders
<1>21. PoolOK' /\ NoWaiterForgotten'
  BY <1>4, <1>8, <1>13, CommitKeepsPool
<1> QED
  BY <1>15, <1>16, <1>17, <1>18, <1>19, <1>20, <1>21 DEF LogInv

LEMMA ClearCacheKeeps ==
  ASSUME LogInv, ClearCache
  PROVE  LogInv'
<1>1. /\ core.pc = "clear" /\ cache' = None /\ core'.pc = "idle"
      /\ UNCHANGED <<coalescer, coalesced, journal, poisoned, caller, reader, raft,
                     flushed, gone, crashes>>
  BY DEF ClearCache, Idle
<1>2. Cardinality(DOMAIN None) = 0 /\ CacheCap \in Nat
  BY NoneIs, FS_EmptySet, RaftLogAssumption
<1>3. TypeOK' /\ FlushedSurvives'
  BY <1>1, <1>2, NoneIs DEF LogInv, TypeOK, FlushedSurvives, coalescer
<1>4. ImagesOK' /\ CoreOK' /\ CacheOK' /\ ReadersOK'
  BY <1>1, NoneIs DEF LogInv, ImagesOK, CoreOK, CacheOK, ReadersOK, Running, FollowsOn,
                      Matches, DB, raft
<1>5. PoolOK' /\ NoWaiterForgotten'
  BY <1>1 DEF LogInv, PoolOK, NoWaiterForgotten, coalescer
<1> QED
  BY <1>3, <1>4, <1>5 DEF LogInv

(* Purging a prefix takes only what is applied and not being replicated. *)
LEMMA TruncateBeforeKeeps ==
  ASSUME LogInv, NEW i \in 0 .. MaxIndex, TruncateBefore(i)
  PROVE  LogInv'
<1>1. PICK D : D = {j \in Indexes(DB) : j > i}
  OBVIOUS
<1>2. PICK cut : cut = [DB EXCEPT !.log = Restrict(@, D)]
  OBVIOUS
<1>3. PICK F : F = {j \in DOMAIN flushed : j > i}
  OBVIOUS
<1>4. /\ core = [pc |-> "install", arg |-> i] \/ (core.pc = "idle" /\ i <= applied /\ i > DB.purged)
      /\ reader["repl"].pc = "idle" \/ reader["repl"].lo > i
      /\ IF \E j \in Indexes(DB) : j <= i THEN Commit(cut) ELSE UNCHANGED journal
      /\ flushed' = Restrict(flushed, F)
      /\ gone' = Max({gone, i})
      /\ core' = [pc |-> "meta", arg |-> i]
      /\ UNCHANGED <<coalescer, coalesced, poisoned, cache, caller, reader, raft, crashes>>
  BY <1>1, <1>2, <1>3 DEF TruncateBefore, Free, Indexes
<1>5. /\ i \in Nat /\ i <= applied /\ i > DB.purged /\ core.pc \in {"idle", "install"}
      /\ FollowsOn(DB, DB.purged) /\ ReadersOK
  <2>1. CASE core = [pc |-> "install", arg |-> i]
    BY <2>1, Newest DEF LogInv, CoreOK, Running
  <2>2. CASE core.pc = "idle" /\ i <= applied /\ i > DB.purged
    BY <2>2 DEF LogInv, CoreOK, Running
  <2> QED
    BY <1>4, <2>1, <2>2
<1>6. gone' \in 0 .. MaxIndex /\ gone' \in Nat /\ gone <= gone' /\ i <= gone'
  BY <1>4, <1>5, Newest, OfTwo DEF LogInv, TypeOK
<1>7. D \in SUBSET Indexes(DB) /\ DB \in Image
  BY <1>1, Newest
<1>8. PICK img : img = IF \E j \in Indexes(DB) : j <= i THEN cut ELSE DB
  OBVIOUS
<1>9. /\ img \in Image /\ Indexes(img) = D /\ \A j \in D : img.log[j] = DB.log[j]
      /\ img.vote = DB.vote /\ img.purged = DB.purged /\ img.committed = DB.committed
  <2>1. CASE \E j \in Indexes(DB) : j <= i
    <3>1. img = [DB EXCEPT !.log = Restrict(@, D)]
      BY <1>2, <1>8, <2>1
    <3> QED
      BY <1>7, <3>1, RestrictedImage, ZenonT(30)
  <2>2. CASE ~ \E j \in Indexes(DB) : j <= i
    BY <1>1, <1>5, <1>7, <1>8, <2>2, Newest
  <2> QED
    BY <2>1, <2>2
<1>10. FollowsOn(img, i)
  BY <1>1, <1>5, <1>9, Newest DEF FollowsOn
<1>11. ImageOK(img, commit, gone')
  <2>1. \A j \in Indexes(img) : img.log[j] <= img.vote
    BY <1>7, <1>9, Newest DEF ImageOK
  <2>2. img.committed <= commit
    BY <1>9, Newest DEF ImageOK
  <2>3. \/ img.committed <= gone' \/ img.committed <= img.purged
        \/ \E j \in Indexes(img) : img.committed <= j
    <3>1. \/ DB.committed <= gone \/ DB.committed <= DB.purged
          \/ \E j \in Indexes(DB) : DB.committed <= j
      BY Newest DEF ImageOK
    <3>2. ASSUME NEW j \in Indexes(DB), DB.committed <= j PROVE j \in D \/ DB.committed <= gone'
      BY <1>1, <1>5, <1>6, <3>2, Newest
    <3> QED
      BY <1>6, <1>9, <3>1, <3>2, Newest
  <2>4. i >= img.purged
    BY <1>5, <1>9, Newest
  <2> QED
    BY <1>5, <1>6, <1>9, <1>10, <2>1, <2>2, <2>3, <2>4, GoodImage, Newest
<1>12. /\ core'.pc = "meta" /\ core'.arg = i /\ coalesced' = coalesced
       /\ cache' = cache /\ reader' = reader /\ commit' = commit /\ applied' = applied
       /\ leader' = leader
  BY <1>4 DEF raft
<1>13. /\ flushed' \in Entries /\ DOMAIN flushed' = F
       /\ \A j \in DOMAIN flushed' : j \in DOMAIN flushed /\ flushed'[j] = flushed[j] /\ j > i
  BY <1>3, <1>4, EntriesAre DEF LogInv, TypeOK, Restrict
<1>14. /\ journal' \in Seq(Image) /\ journal' # <<>> /\ DB' = img
       /\ coalesced => DOMAIN journal \subseteq DOMAIN journal'
       /\ FlushedSurvives' /\ ImagesOK' /\ PoolOK' /\ NoWaiterForgotten'
  <2>1. CASE \E j \in Indexes(DB) : j <= i
    <3>1. Commit(img)
      BY <1>4, <1>8, <2>1
    <3>2. /\ journal' \in Seq(Image) /\ journal' # <<>> /\ DB' = img
          /\ coalesced => DOMAIN journal \subseteq DOMAIN journal'
      BY <1>9, <3>1, CommitIs, Newest
    <3>3. FlushedSurvives'
      BY <1>1, <1>9, <1>13, <3>1, CommitKeepsFlushed
    <3>4. ImagesOK'
      BY <1>6, <1>9, <1>11, <1>12, <3>1, CommitKeepsImages
    <3>5. PoolOK' /\ NoWaiterForgotten'
      BY <1>4, <1>5, <1>9, <1>12, <3>1, CommitKeepsPool
    <3> QED
      BY <3>2, <3>3, <3>4, <3>5
  <2>2. CASE ~ \E j \in Indexes(DB) : j <= i
    <3>1. journal' = journal /\ img = DB
      BY <1>4, <1>8, <2>2
    <3>2. DB' = DB
      BY <3>1 DEF DB
    <3>3. FlushedSurvives'
      BY <1>13, <3>1 DEF LogInv, FlushedSurvives
    <3>4. ImagesOK'
      <4>1. \A k \in DOMAIN journal : journal[k] \in Image /\ ImageOK(journal[k], commit, gone)
        BY DEF LogInv, TypeOK, ImagesOK
      <4>2. commit <= commit
        BY Newest
      <4>3. \A j \in Image : ImageOK(j, commit, gone) => ImageOK(j, commit, gone')
        BY <1>6, <4>2, ImageMonotone, Newest
      <4> QED
        BY <1>12, <3>1, <4>1, <4>3 DEF ImagesOK
    <3>5. PoolOK' /\ NoWaiterForgotten'
      BY <1>4, <1>5, <1>12, <3>1 DEF LogInv, PoolOK, NoWaiterForgotten, coalescer
    <3> QED
      BY <3>1, <3>2, <3>3, <3>4, <3>5, Newest
  <2> QED
    BY <2>1, <2>2
<1>15. TypeOK'
  BY <1>4, <1>6, <1>12, <1>13, <1>14 DEF LogInv, TypeOK, PoolOK, coalescer
<1>16. CoreOK'
  BY <1>5, <1>6, <1>9, <1>10, <1>12, <1>14, Newest DEF LogInv, CoreOK, Running
<1>17. CacheOK'
  <2>1. \A j \in DOMAIN cache : Matches(cache, j) /\ j \in Nat
    BY <1>5, Newest DEF LogInv, CacheOK, Matches
  <2>2. \A j \in DOMAIN cache : (j \in D /\ cache[j] = img.log[j]) \/ j <= i
    BY <1>1, <1>5, <1>9, <2>1 DEF Matches
  <2> QED
    BY <1>9, <1>12, <1>14, <2>2 DEF CacheOK, Matches
<1>18. ReadersOK'
  <2>1. \A j \in Indexes(DB) : j > applied => j \in D
    BY <1>1, <1>5, Newest
  <2>2. \/ reader["repl"].pc = "idle"
        \/ \A j \in Indexes(DB) : j >= reader["repl"].lo => j \in D
    <3>1. reader["repl"].lo \in Nat
      BY <1>5, Newest DEF ReadersOK
    <3> QED
      BY <1>1, <1>4, <1>5, <3>1, Newest
  <2> QED
    BY <1>4, <1>9, <1>14, <2>1, <2>2, CommitKeepsReaders
<1> QED
  BY <1>14, <1>15, <1>16, <1>17, <1>18 DEF LogInv

(* Recording what was purged closes the gap a purge opened. *)
LEMMA SetLastPurgedKeeps ==
  ASSUME LogInv, SetLastPurged
  PROVE  LogInv'
<1>1. PICK a : a = core.arg
  OBVIOUS
<1>2. PICK img : img = [DB EXCEPT !["purged"] = a]
  OBVIOUS
<1>3. PICK D : D = {j \in DOMAIN cache : j > a}
  OBVIOUS
<1>4. /\ core.pc = "meta" /\ Commit(img) /\ cache' = Restrict(cache, D) /\ core'.pc = "idle"
      /\ UNCHANGED <<coalescer, coalesced, poisoned, caller, reader, raft, flushed,
                     gone, crashes>>
  BY <1>1, <1>2, <1>3 DEF SetLastPurged, SetMeta, Idle
<1>5. /\ a \in 0 .. MaxIndex /\ a \in Nat /\ a <= applied /\ a <= gone /\ DB.purged < a
      /\ FollowsOn(DB, a)
  BY <1>1, <1>4, Newest DEF LogInv, CoreOK
<1>6. /\ img \in Image /\ img.log = DB.log /\ Indexes(img) = Indexes(DB) /\ img.vote = DB.vote
      /\ img.purged = a /\ img.committed = DB.committed
  BY <1>2, <1>5, Newest DEF Image, Indexes
<1>7. FollowsOn(img, img.purged)
  BY <1>5, <1>6 DEF FollowsOn
<1>8. ImageOK(img, commit, gone)
  <2>1. \A j \in Indexes(img) : img.log[j] <= img.vote
    BY <1>6, Newest DEF ImageOK
  <2>2. /\ img.committed <= commit
        /\ \/ img.committed <= gone \/ img.committed <= img.purged
           \/ \E j \in Indexes(img) : img.committed <= j
    BY <1>5, <1>6, Newest DEF ImageOK
  <2> QED
    BY <1>5, <1>6, <1>7, <2>1, <2>2, GoodImage, Newest, SMTT(30)
<1>9. /\ journal' \in Seq(Image) /\ journal' # <<>> /\ DB' = img
      /\ coalesced => DOMAIN journal \subseteq DOMAIN journal'
  BY <1>4, <1>6, CommitIs, Newest
<1>10. /\ reader' = reader /\ commit' = commit /\ applied' = applied /\ coalesced' = coalesced
       /\ leader' = leader /\ flushed' = flushed /\ gone' = gone
  BY <1>4 DEF raft
<1>11. /\ cache' \in Entries /\ DOMAIN cache' = D /\ Cardinality(D) <= CacheCap
       /\ \A j \in D : j \in DOMAIN cache /\ j > a /\ cache'[j] = cache[j]
  <2>1. /\ cache \in Entries /\ Cardinality(DOMAIN cache) <= CacheCap /\ CacheCap \in Nat
        /\ DOMAIN cache \in SUBSET (1 .. MaxIndex)
    BY EntriesAre, RaftLogAssumption DEF LogInv, TypeOK
  <2>2. IsFiniteSet(DOMAIN cache)
    <3>1. IsFiniteSet(1 .. MaxIndex)
      BY RaftLogAssumption, FS_Interval
    <3> QED
      BY <2>1, <3>1, FS_Subset
  <2>3. D \in SUBSET DOMAIN cache
    BY <1>3
  <2>4. Cardinality(D) <= Cardinality(DOMAIN cache)
    BY <2>2, <2>3, FS_Subset
  <2>5. Cardinality(D) \in Nat /\ Cardinality(DOMAIN cache) \in Nat
    BY <2>2, <2>3, FS_Subset, FS_CardinalityType
  <2> QED
    BY <1>3, <1>4, <2>1, <2>3, <2>4, <2>5, EntriesAre DEF Restrict
<1>12. TypeOK'
  BY <1>4, <1>9, <1>10, <1>11 DEF LogInv, TypeOK, PoolOK, coalescer
<1>13. FlushedSurvives'
  BY <1>4, <1>6, <1>10, CommitKeepsFlushed
<1>14. ImagesOK'
  BY <1>4, <1>6, <1>8, <1>10, CommitKeepsImages, Newest
<1>15. CoreOK'
  BY <1>4, <1>5, <1>6, <1>7, <1>9, <1>10 DEF LogInv, CoreOK, Running
<1>16. CacheOK'
  <2>1. \A j \in D : Matches(cache, j)
    <3>1. \A j \in D : j \in DOMAIN cache /\ ~(j <= a)
      <4>1. \A j \in DOMAIN cache : j \in Nat
        BY EntriesAre DEF LogInv, TypeOK
      <4> QED
        BY <1>5, <1>11, <4>1
    <3> QED
      BY <1>1, <1>4, <3>1 DEF LogInv, CacheOK
  <2> QED
    BY <1>6, <1>9, <1>11, <2>1 DEF CacheOK, Matches
<1>17. ReadersOK'
  BY <1>4, <1>6, <1>9, CommitKeepsReaders
<1>18. PoolOK' /\ NoWaiterForgotten'
  BY <1>4, <1>6, CommitKeepsPool
<1> QED
  BY <1>12, <1>13, <1>14, <1>15, <1>16, <1>17, <1>18 DEF LogInv

(* A newer vote. *)
LEMMA SaveVoteKeeps ==
  ASSUME LogInv, NEW t \in 1 .. MaxTerm, SaveVote(t)
  PROVE  LogInv'
<1>1. PICK img : img = [DB EXCEPT !["vote"] = t]
  OBVIOUS
<1>2. /\ core.pc = "idle" /\ t > DB.vote /\ Commit(img) /\ leader' = FALSE
      /\ reader' = [reader EXCEPT !["repl"] = NoRead]
      /\ UNCHANGED <<coalescer, coalesced, poisoned, cache, core, caller, commit,
                     applied, flushed, gone, crashes>>
  BY <1>1 DEF SaveVote, SetMeta, Free
<1>3. /\ img \in Image /\ img.log = DB.log /\ Indexes(img) = Indexes(DB) /\ img.vote = t
      /\ img.purged = DB.purged /\ img.committed = DB.committed
  <2>1. t \in 0 .. MaxTerm /\ DB \in Image
    BY Newest
  <2> QED
    BY <1>1, <2>1 DEF Image, Indexes
<1>4. ImageOK(img, commit, gone)
  <2>1. \A j \in Indexes(DB) : DB.log[j] \in Nat
    BY Newest, EntriesAre DEF Indexes, Entry
  <2> QED
    BY <1>2, <1>3, <2>1, Newest DEF ImageOK
<1>5. /\ journal' \in Seq(Image) /\ journal' # <<>> /\ DB' = img
      /\ coalesced => DOMAIN journal \subseteq DOMAIN journal'
  BY <1>2, <1>3, CommitIs, Newest
<1>6. TypeOK'
  BY <1>2, <1>5 DEF LogInv, TypeOK, PoolOK, coalescer
<1>7. FlushedSurvives'
  BY <1>2, <1>3, CommitKeepsFlushed
<1>8. ImagesOK'
  BY <1>2, <1>3, <1>4, CommitKeepsImages, Newest
<1>9. CoreOK'
  BY <1>2, <1>3, <1>5 DEF LogInv, CoreOK, Running, FollowsOn
<1>10. CacheOK'
  BY <1>2, <1>3, <1>5 DEF LogInv, CacheOK, Matches
<1>11. ReadersOK'
  <2>1. NoRead \in [pc : {"idle", "disk", "fill", "done"}, lo : 0 .. MaxIndex,
                    hi : 0 .. MaxIndex, got : Entries]
    BY NoneIs, Newest DEF NoRead
  <2>2. /\ ReadersOK /\ reader'["apply"] = reader["apply"] /\ reader'["repl"] = NoRead
        /\ reader' \in [{"apply", "repl"} -> [pc : {"idle", "disk", "fill", "done"},
                          lo : 0 .. MaxIndex, hi : 0 .. MaxIndex, got : Entries]]
    BY <1>2, <2>1 DEF LogInv, ReadersOK
  <2>3. NoRead.pc = "idle"
    BY DEF NoRead
  <2> QED
    BY <1>2, <1>3, <1>5, <2>2, <2>3 DEF ReadersOK, Matches
<1>12. PoolOK' /\ NoWaiterForgotten'
  BY <1>2, <1>3, CommitKeepsPool
<1> QED
  BY <1>6, <1>7, <1>8, <1>9, <1>10, <1>11, <1>12 DEF LogInv

(* The committed index that is saved is that of an entry. *)
LEMMA SaveCommittedKeeps ==
  ASSUME LogInv, SaveCommitted
  PROVE  LogInv'
<1>1. PICK v : v = Min({commit, LastIndex(DB)})
  OBVIOUS
<1>2. PICK img : img = [DB EXCEPT !["committed"] = v]
  OBVIOUS
<1>3. /\ core.pc = "idle" /\ Commit(img)
      /\ UNCHANGED <<coalescer, coalesced, poisoned, cache, core, caller, reader,
                     raft, flushed, gone, crashes>>
  BY <1>1, <1>2 DEF SaveCommitted, SetMeta, Free
<1>4. v \in 0 .. MaxIndex /\ v <= commit /\ v <= LastIndex(DB) /\ LastIndex(DB) \in Nat
  <2>1. LastIndex(DB) \in 0 .. MaxIndex /\ LastIndex(DB) \in Nat /\ commit \in 0 .. MaxIndex
    BY LastIndexIs, Newest DEF LogInv, CoreOK
  <2>2. PICK l \in Nat : l = LastIndex(DB)
    BY <2>1
  <2>3. v = IF commit <= l THEN commit ELSE l
    BY <1>1, <2>2, OfTwo, Newest
  <2> QED
    BY <2>1, <2>2, <2>3
<1>5. /\ img \in Image /\ img.log = DB.log /\ Indexes(img) = Indexes(DB) /\ img.vote = DB.vote
      /\ img.purged = DB.purged /\ img.committed = v
  BY <1>2, <1>4, Newest DEF Image, Indexes
<1>6. ImageOK(img, commit, gone)
  <2>1. v <= DB.purged \/ \E i \in Indexes(DB) : v <= i
    BY <1>4, LastIndexIs, Newest
  <2> QED
    BY <1>4, <1>5, <2>1, Newest DEF ImageOK
<1>7. /\ journal' \in Seq(Image) /\ journal' # <<>> /\ DB' = img
      /\ coalesced => DOMAIN journal \subseteq DOMAIN journal'
  BY <1>3, <1>5, CommitIs, Newest
<1>8. TypeOK'
  BY <1>3, <1>7 DEF LogInv, TypeOK, PoolOK, coalescer
<1>9. FlushedSurvives'
  BY <1>3, <1>5, CommitKeepsFlushed
<1>10. ImagesOK'
  BY <1>3, <1>5, <1>6, CommitKeepsImages, Newest DEF raft
<1>11. CoreOK' /\ CacheOK'
  BY <1>3, <1>5, <1>7 DEF LogInv, CoreOK, CacheOK, Running, FollowsOn, Matches, raft
<1>12. ReadersOK'
  BY <1>3, <1>5, <1>7, CommitKeepsReaders
<1>13. PoolOK' /\ NoWaiterForgotten'
  BY <1>3, <1>5, CommitKeepsPool
<1> QED
  BY <1>8, <1>9, <1>10, <1>11, <1>12, <1>13 DEF LogInv

(* A failed batch stops the core where it is. *)
LEMMA BatchFailsKeeps ==
  ASSUME LogInv, BatchFails
  PROVE  LogInv'
<1>1. /\ core.pc \in {"idle", "install", "meta"} /\ core'.pc = "dead"
      /\ UNCHANGED <<coalescer, coalesced, journal, poisoned, cache, caller, reader,
                     raft, flushed, gone, crashes>>
  BY DEF BatchFails
<1>2. TypeOK' /\ FlushedSurvives' /\ ImagesOK' /\ ReadersOK'
  BY <1>1 DEF LogInv, TypeOK, FlushedSurvives, ImagesOK, ReadersOK, Matches, DB, raft, coalescer
<1>3. CoreOK'
  BY <1>1 DEF LogInv, CoreOK, Running, raft
<1>4. CacheOK'
  <2>1. \A i \in DOMAIN cache : i \in Nat
    BY EntriesAre DEF LogInv, TypeOK
  <2>2. core.pc = "meta" => core.arg \in Nat /\ core.arg <= gone /\ gone \in Nat
    BY Newest DEF LogInv, CoreOK
  <2>3. \A i \in DOMAIN cache : Matches(cache, i) \/ i <= gone
    BY <1>1, <2>1, <2>2 DEF LogInv, CacheOK
  <2> QED
    BY <1>1, <2>3 DEF CacheOK, Matches, DB
<1>5. PoolOK' /\ NoWaiterForgotten'
  BY <1>1 DEF LogInv, PoolOK, NoWaiterForgotten, coalescer
<1> QED
  BY <1>2, <1>3, <1>4, <1>5 DEF LogInv

-----------------------------------------------------------------------------
(* The readers. *)

ReaderTypes == [{"apply", "repl"} -> [pc : {"idle", "disk", "fill", "done"},
                  lo : 0 .. MaxIndex, hi : 0 .. MaxIndex, got : Entries]]

(* A step that only moves readers on. *)
LEMMA ReadersOnly ==
  ASSUME LogInv, ReadersOK',
         UNCHANGED <<coalescer, coalesced, journal, poisoned, cache, core, caller, raft,
                     flushed, gone, crashes>>
  PROVE  LogInv'
<1>1. TypeOK' /\ FlushedSurvives' /\ ImagesOK'
  BY DEF LogInv, TypeOK, FlushedSurvives, ImagesOK, coalescer, raft
<1>2. CoreOK' /\ CacheOK'
  BY DEF LogInv, CoreOK, CacheOK, Running, FollowsOn, Matches, DB, raft
<1>3. PoolOK' /\ NoWaiterForgotten'
  BY DEF LogInv, PoolOK, NoWaiterForgotten, coalescer
<1> QED
  BY <1>1, <1>2, <1>3 DEF LogInv

(* The state machine asks for committed entries that it has not applied: they *)
(* are all in the log, and what the cache holds of them is the log's.          *)
LEMMA ApplyReadKeeps ==
  ASSUME LogInv, NEW hi \in 1 .. MaxIndex, ApplyRead(hi)
  PROVE  LogInv'
<1>1. PICK lo : lo = applied + 1
  OBVIOUS
<1>2. PICK hit \in BOOLEAN : hit = ((hi + 1) - lo <= CacheCap /\ lo .. hi \subseteq DOMAIN cache)
  OBVIOUS
<1>3. PICK got : got = IF hit THEN Restrict(cache, lo .. hi) ELSE None
  OBVIOUS
<1>4. PICK rec : rec = [pc |-> IF hit THEN "done" ELSE "disk", lo |-> lo, hi |-> hi, got |-> got]
  OBVIOUS
<1>5. /\ Running /\ reader["apply"].pc = "idle" /\ hi >= lo
      /\ hi <= Min({commit, LastIndex(DB)})
      /\ reader' = [reader EXCEPT !["apply"] = rec]
      /\ UNCHANGED <<coalescer, coalesced, journal, poisoned, cache, core, caller,
                     raft, flushed, gone, crashes>>
  BY <1>1, <1>2, <1>3, <1>4 DEF ApplyRead, Reading
<1>6. /\ lo \in 1 .. MaxIndex /\ hi \in Nat /\ lo \in Nat /\ hi <= commit /\ hi <= LastIndex(DB)
      /\ LastIndex(DB) \in Nat
  <2>1. LastIndex(DB) \in Nat
    BY LastIndexIs, Newest
  <2>2. PICK l \in Nat : l = LastIndex(DB)
    BY <2>1
  <2>3. Min({commit, l}) = IF commit <= l THEN commit ELSE l
    BY OfTwo, Newest
  <2>4. hi <= IF commit <= l THEN commit ELSE l
    BY <1>5, <2>2, <2>3
  <2> QED
    BY <1>1, <1>5, <2>1, <2>2, <2>4, Newest
<1>7. \E p \in Nat : p <= applied /\ FollowsOn(DB, p) /\ DB.purged <= p
  <2>1. CASE core.pc = "meta"
    BY <2>1, Newest DEF LogInv, CoreOK
  <2>2. CASE core.pc # "meta"
    BY <1>5, <2>2, Newest DEF LogInv, CoreOK
  <2> QED
    BY <2>1, <2>2
<1>8. lo .. hi \subseteq Indexes(DB)
  <2>1. PICK p \in Nat : p <= applied /\ FollowsOn(DB, p) /\ DB.purged <= p
    BY <1>7
  <2>2. LastIndex(DB) \in Indexes(DB)
    BY <1>1, <1>5, <1>6, <2>1, LastIndexIs, Newest
  <2>3. p + 1 .. LastIndex(DB) \subseteq Indexes(DB)
    BY <2>1, <2>2 DEF FollowsOn
  <2> QED
    BY <1>1, <1>6, <2>1, <2>3, Newest
<1>9. hit => /\ got \in Entries /\ DOMAIN got = lo .. hi
             /\ \A i \in lo .. hi : Matches(got, i)
  <2> HAVE hit
  <2>1. lo .. hi \subseteq DOMAIN cache /\ got = Restrict(cache, lo .. hi) /\ cache \in Entries
    BY <1>2, <1>3 DEF LogInv, TypeOK
  <2>2. got \in Entries /\ DOMAIN got = lo .. hi /\ \A i \in lo .. hi : got[i] = cache[i]
    BY <2>1, EntriesAre DEF Restrict
  <2>3. \A i \in lo .. hi : Matches(cache, i)
    <3>1. \A i \in lo .. hi : i \in DOMAIN cache /\ i \in Nat /\ i > applied /\ ~(i > commit)
      BY <1>1, <1>6, <2>1, Newest
    <3>2. core.pc = "meta" => core.arg \in Nat /\ core.arg <= applied
      BY Newest DEF LogInv, CoreOK
    <3>3. core.pc = "meta" => \A i \in lo .. hi : ~(i <= core.arg)
      BY <3>1, <3>2, Newest
    <3> QED
      BY <1>5, <3>1, <3>3 DEF LogInv, CacheOK, Running
  <2> QED
    BY <2>2, <2>3 DEF Matches
<1>10. ~hit => got = None /\ got \in Entries
  BY <1>3, NoneIs
<1>11. /\ reader' \in ReaderTypes /\ reader'["apply"] = rec /\ reader'["repl"] = reader["repl"]
       /\ rec.pc = (IF hit THEN "done" ELSE "disk") /\ rec.lo = lo /\ rec.hi = hi /\ rec.got = got
  <2>1. /\ rec \in [pc : {"idle", "disk", "fill", "done"}, lo : 0 .. MaxIndex,
                    hi : 0 .. MaxIndex, got : Entries]
        /\ rec.pc = (IF hit THEN "done" ELSE "disk") /\ rec.lo = lo /\ rec.hi = hi /\ rec.got = got
    BY <1>4, <1>6, <1>9, <1>10
  <2>2. reader \in ReaderTypes
    BY DEF LogInv, ReadersOK, ReaderTypes
  <2> QED
    BY <1>5, <2>1, <2>2 DEF ReaderTypes
<1>12. ReadersOK'
  BY <1>1, <1>5, <1>6, <1>8, <1>9, <1>10, <1>11 DEF LogInv, ReadersOK, Matches, DB, raft, ReaderTypes
<1> QED
  BY <1>5, <1>12, ReadersOnly

(* The scan of the database returns all that was asked for. *)
LEMMA ApplyScanKeeps ==
  ASSUME LogInv, ApplyScan
  PROVE  LogInv'
<1>1. PICK r : r = reader["apply"]
  OBVIOUS
<1>2. PICK got : got = Restrict(DB.log, Indexes(DB) \cap (r.lo .. r.hi))
  OBVIOUS
<1>3. PICK rec : rec = [pc |-> "fill", lo |-> r.lo, hi |-> r.hi, got |-> got]
  OBVIOUS
<1>4. /\ r.pc = "disk" /\ reader' = [reader EXCEPT !["apply"] = rec]
      /\ UNCHANGED <<coalescer, coalesced, journal, poisoned, cache, core, caller,
                     raft, flushed, gone, crashes>>
  BY <1>1, <1>2, <1>3 DEF ApplyScan, Reading
<1>5. /\ r.lo = applied + 1 /\ r.lo <= r.hi /\ r.hi <= commit /\ r.lo .. r.hi \subseteq Indexes(DB)
      /\ r.lo \in 0 .. MaxIndex /\ r.hi \in 0 .. MaxIndex /\ reader \in ReaderTypes
  BY <1>1, <1>4 DEF LogInv, ReadersOK, ReaderTypes
<1>6. got \in Entries /\ DOMAIN got = r.lo .. r.hi /\ \A i \in r.lo .. r.hi : Matches(got, i)
  <2>1. Indexes(DB) \cap (r.lo .. r.hi) = r.lo .. r.hi
    BY <1>5
  <2> QED
    BY <1>2, <1>5, <2>1, EntriesAre, Newest DEF Restrict, Matches, Indexes
<1>7. /\ reader' \in ReaderTypes /\ reader'["apply"] = rec /\ reader'["repl"] = reader["repl"]
      /\ rec.pc = "fill" /\ rec.lo = r.lo /\ rec.hi = r.hi /\ rec.got = got
  <2>1. /\ rec \in [pc : {"idle", "disk", "fill", "done"}, lo : 0 .. MaxIndex,
                    hi : 0 .. MaxIndex, got : Entries]
        /\ rec.pc = "fill" /\ rec.lo = r.lo /\ rec.hi = r.hi /\ rec.got = got
    BY <1>3, <1>5, <1>6
  <2> QED
    BY <1>4, <1>5, <2>1 DEF ReaderTypes
<1>8. ReadersOK'
  BY <1>4, <1>5, <1>6, <1>7 DEF LogInv, ReadersOK, Matches, DB, raft, ReaderTypes
<1> QED
  BY <1>4, <1>8, ReadersOnly

(* What was read is still the log's when it is put into the cache. *)
LEMMA ApplyFillKeeps ==
  ASSUME LogInv, ApplyFill
  PROVE  LogInv'
<1>1. PICK r : r = reader["apply"]
  OBVIOUS
<1>2. /\ r.pc = "fill" /\ cache' \in Put(r.got)
      /\ reader' = [reader EXCEPT !["apply"].pc = "done"]
      /\ UNCHANGED <<coalescer, coalesced, journal, poisoned, core, caller, raft,
                     flushed, gone, crashes>>
  BY <1>1 DEF ApplyFill
<1>3. /\ reader \in ReaderTypes /\ r.got \in Entries /\ cache \in Entries
      /\ DOMAIN r.got = r.lo .. r.hi /\ \A i \in r.lo .. r.hi : Matches(r.got, i)
  BY <1>1, <1>2 DEF LogInv, ReadersOK, ReaderTypes, TypeOK
<1>4. /\ cache' \in Entries /\ Cardinality(DOMAIN cache') <= CacheCap
      /\ \A i \in DOMAIN cache' : \/ i \in DOMAIN r.got /\ cache'[i] = r.got[i]
                                  \/ i \in DOMAIN cache /\ cache'[i] = cache[i]
  BY <1>2, <1>3, PutIs
<1>5. TypeOK' /\ FlushedSurvives' /\ ImagesOK'
  BY <1>2, <1>4 DEF LogInv, TypeOK, FlushedSurvives, ImagesOK, coalescer, raft
<1>6. CoreOK'
  BY <1>2 DEF LogInv, CoreOK, Running, FollowsOn, Matches, DB, raft
<1>7. CacheOK'
  BY <1>2, <1>3, <1>4 DEF LogInv, CacheOK, Matches, DB, raft
<1>8. /\ reader' \in ReaderTypes /\ reader'["repl"] = reader["repl"]
      /\ reader'["apply"].pc = "done" /\ reader'["apply"].lo = r.lo
      /\ reader'["apply"].hi = r.hi /\ reader'["apply"].got = r.got
  BY <1>1, <1>2, <1>3 DEF ReaderTypes
<1>9. ReadersOK'
  BY <1>1, <1>2, <1>3, <1>8 DEF LogInv, ReadersOK, Matches, DB, raft, ReaderTypes
<1>10. PoolOK' /\ NoWaiterForgotten'
  BY <1>2 DEF LogInv, PoolOK, NoWaiterForgotten, coalescer
<1> QED
  BY <1>5, <1>6, <1>7, <1>9, <1>10 DEF LogInv

(* A reader that is done. *)
LEMMA NoReadIs ==
  /\ NoRead.pc = "idle"
  /\ NoRead \in [pc : {"idle", "disk", "fill", "done"}, lo : 0 .. MaxIndex,
                 hi : 0 .. MaxIndex, got : Entries]
BY NoneIs, RaftLogAssumption DEF NoRead

LEMMA AppliedKeeps ==
  ASSUME LogInv, Applied
  PROVE  LogInv'
<1>1. PICK r : r = reader["apply"]
  OBVIOUS
<1>2. /\ r.pc = "done" /\ applied' = r.hi
      /\ reader' = [reader EXCEPT !["apply"] = NoRead]
      /\ UNCHANGED <<coalescer, coalesced, journal, poisoned, cache, core, caller,
                     leader, commit, flushed, gone, crashes>>
  BY <1>1 DEF Applied
<1>3. /\ reader \in ReaderTypes /\ r.hi \in 0 .. MaxIndex /\ r.lo = applied + 1 /\ r.lo <= r.hi
  BY <1>1, <1>2 DEF LogInv, ReadersOK, ReaderTypes
<1>4. applied' \in 0 .. MaxIndex /\ applied' > applied
  BY <1>2, <1>3, Newest
<1>5. TypeOK' /\ FlushedSurvives' /\ ImagesOK' /\ CacheOK'
  BY <1>2 DEF LogInv, TypeOK, FlushedSurvives, ImagesOK, CacheOK, Matches, DB, coalescer
<1>6. DB' = DB /\ core' = core
  BY <1>2 DEF DB
<1>7. CoreOK'
  <2>1. \A a \in 0 .. applied : a \in 0 .. applied'
    BY <1>4, Newest
  <2>2. DB.purged <= applied => DB.purged <= applied'
    BY <1>4, Newest
  <2> QED
    BY <1>2, <1>4, <1>6, <2>1, <2>2 DEF LogInv, CoreOK, Running, FollowsOn, Matches
<1>8. /\ reader' \in ReaderTypes /\ reader'["repl"] = reader["repl"] /\ reader'["apply"] = NoRead
  BY <1>2, <1>3, NoReadIs DEF ReaderTypes
<1>9. ReadersOK'
  BY <1>2, <1>6, <1>8, NoReadIs DEF LogInv, ReadersOK, Matches, ReaderTypes
<1>10. PoolOK' /\ NoWaiterForgotten'
  BY <1>2 DEF LogInv, PoolOK, NoWaiterForgotten, coalescer
<1> QED
  BY <1>5, <1>7, <1>9, <1>10 DEF LogInv

(* The byte budget takes a prefix of what is there, and its first entry. *)
LEMMA AffordableIs ==
  ASSUME NEW f \in Entries, NEW lo \in Nat, NEW hi \in Nat, lo <= hi,
         \A i \in DOMAIN f : i >= lo => lo .. i \subseteq DOMAIN f
  PROVE  LET g == Affordable(f, lo, hi) IN
         /\ g \in Entries /\ DOMAIN g \subseteq DOMAIN f
         /\ \A i \in DOMAIN g : g[i] = f[i] /\ i >= lo /\ lo .. i \subseteq DOMAIN g
         /\ lo \in DOMAIN f => lo \in DOMAIN g
<1> DEFINE D == DOMAIN f \cap (lo .. hi)
           S == {i \in D : \/ i = Min(D)
                           \/ \A k \in D : k <= i => BytesUpTo(f, D, k) <= Budget}
           g == Affordable(f, lo, hi)
<1>1. g = Restrict(f, S)
  BY DEF Affordable
<1>2. D \in SUBSET DOMAIN f /\ S \in SUBSET D /\ S \in SUBSET DOMAIN f
  OBVIOUS
<1>3. g \in Entries /\ DOMAIN g = S /\ \A i \in S : g[i] = f[i]
  BY <1>1, <1>2, EntriesAre DEF Restrict
<1>4. D \in SUBSET Nat /\ \A i \in D : i >= lo /\ i <= hi
  BY EntriesAre
<1>5. \A i \in D : \A j \in lo .. i : j \in D /\ j <= i
  BY <1>4
<1>6. D # {} => lo \in D /\ Min(D) = lo
  <2> HAVE D # {}
  <2>1. Min(D) \in D /\ \A y \in D : Min(D) <= y
    BY <1>4, MinIs
  <2>2. lo \in D
    BY <1>4, <1>5
  <2> QED
    BY <1>4, <2>1, <2>2
<1>7. \A i \in S : lo .. i \subseteq S
  <2> SUFFICES ASSUME NEW i \in S, NEW j \in lo .. i PROVE j \in S
    OBVIOUS
  <2>1. i \in D /\ j \in D /\ j <= i /\ i \in Nat /\ j \in Nat
    BY <1>2, <1>4, <1>5
  <2>2. CASE i = Min(D)
    BY <1>6, <2>1, <2>2
  <2>3. CASE \A k \in D : k <= i => BytesUpTo(f, D, k) <= Budget
    <3>1. \A k \in D : k <= j => k <= i
      BY <1>4, <2>1
    <3> QED
      BY <2>1, <2>3, <3>1
  <2> QED
    BY <2>2, <2>3
<1>8. lo \in DOMAIN f => lo \in S
  <2> HAVE lo \in DOMAIN f
  <2>1. lo \in D
    OBVIOUS
  <2> QED
    BY <1>6, <2>1
<1> HIDE DEF S, D, g
<1>9. /\ g \in Entries /\ DOMAIN g \subseteq DOMAIN f
      /\ \A i \in DOMAIN g : g[i] = f[i] /\ i >= lo /\ lo .. i \subseteq DOMAIN g
      /\ lo \in DOMAIN f => lo \in DOMAIN g
  BY <1>2, <1>3, <1>4, <1>7, <1>8
<1> QED
  BY <1>9 DEF g

(* The cached prefix a replication stream gets is the log's: nothing below the *)
(* entry it asks for is being purged, and a leader truncates nothing.          *)
LEMMA ReplicationReadKeeps ==
  ASSUME LogInv, NEW lo \in 1 .. MaxIndex, ReplicationRead(lo)
  PROVE  LogInv'
<1>1. PICK hi : hi = LastIndex(DB)
  OBVIOUS
<1>2. PICK hit : hit = Cached(lo, hi)
  OBVIOUS
<1>3. PICK rec : rec = [pc |-> IF DOMAIN hit = {} THEN "disk" ELSE "done",
                        lo |-> lo, hi |-> hi, got |-> hit]
  OBVIOUS
<1>4. /\ Running /\ leader /\ lo \in Indexes(DB)
      /\ reader' = [reader EXCEPT !["repl"] = rec]
      /\ UNCHANGED <<coalescer, coalesced, journal, poisoned, cache, core, caller,
                     raft, flushed, gone, crashes>>
  BY <1>1, <1>2, <1>3 DEF ReplicationRead, Reading
<1>5. hi \in 0 .. MaxIndex /\ hi \in Nat /\ lo \in Nat /\ lo <= hi
  BY <1>1, <1>4, LastIndexIs, Newest
<1>6. PICK P : P = {i \in lo .. hi : lo .. i \subseteq DOMAIN cache}
  OBVIOUS
<1>7. PICK f : f = Restrict(cache, P)
  OBVIOUS
<1>8. cache \in Entries /\ P \in SUBSET DOMAIN cache
  <2>1. \A i \in lo .. hi : i \in lo .. i
    BY <1>5
  <2> QED
    BY <1>6, <2>1 DEF LogInv, TypeOK
<1>9. f \in Entries /\ DOMAIN f = P /\ \A i \in P : f[i] = cache[i]
  BY <1>7, <1>8, EntriesAre DEF Restrict
<1>10. \A i \in DOMAIN f : i >= lo => lo .. i \subseteq DOMAIN f
  <2> SUFFICES ASSUME NEW i \in P, NEW j \in lo .. i PROVE j \in P
    BY <1>9
  <2>1. j \in lo .. hi /\ lo .. j \subseteq lo .. i
    BY <1>5, <1>6
  <2> QED
    BY <1>6, <2>1
<1>11. /\ hit \in Entries /\ DOMAIN hit \subseteq P
       /\ \A i \in DOMAIN hit : hit[i] = cache[i] /\ i >= lo /\ lo .. i \subseteq DOMAIN hit
  <2>1. hit = Affordable(f, lo, hi)
    BY <1>2, <1>6, <1>7 DEF Cached
  <2> QED
    BY <1>5, <1>9, <1>10, <2>1, AffordableIs
<1>12. \A i \in DOMAIN hit : Matches(hit, i)
  <2>1. core.pc = "meta" => core.arg \in Nat /\ lo > core.arg
    BY <1>4, Newest DEF LogInv, CoreOK, FollowsOn
  <2>2. core.pc # "clear" /\ core.pc # "dead"
    BY <1>4 DEF LogInv, CoreOK, Running
  <2>3. \A i \in DOMAIN hit : i \in DOMAIN cache /\ i \in Nat /\ i >= lo
    BY <1>8, <1>11, EntriesAre
  <2>4. core.pc = "meta" => \A i \in DOMAIN hit : ~(i <= core.arg)
    BY <1>5, <2>1, <2>3
  <2>5. \A i \in DOMAIN hit : Matches(cache, i)
    BY <2>2, <2>3, <2>4 DEF LogInv, CacheOK
  <2> QED
    BY <1>11, <2>5 DEF Matches
<1>13. DOMAIN hit # {} => lo \in DOMAIN hit
  <2> HAVE DOMAIN hit # {}
  <2>1. PICK i \in DOMAIN hit : i >= lo /\ lo .. i \subseteq DOMAIN hit /\ i \in 1 .. MaxIndex
    BY <1>11, EntriesAre
  <2>2. lo \in lo .. i
    BY <1>5, <2>1
  <2> QED
    BY <2>1, <2>2
<1>14. /\ reader' \in ReaderTypes /\ reader'["repl"] = rec /\ reader'["apply"] = reader["apply"]
       /\ rec.pc = (IF DOMAIN hit = {} THEN "disk" ELSE "done")
       /\ rec.lo = lo /\ rec.hi = hi /\ rec.got = hit
  <2>1. /\ rec \in [pc : {"idle", "disk", "fill", "done"}, lo : 0 .. MaxIndex,
                    hi : 0 .. MaxIndex, got : Entries]
        /\ rec.pc = (IF DOMAIN hit = {} THEN "disk" ELSE "done")
        /\ rec.lo = lo /\ rec.hi = hi /\ rec.got = hit
    BY <1>3, <1>5, <1>11
  <2>2. reader \in ReaderTypes
    BY DEF LogInv, ReadersOK, ReaderTypes
  <2> QED
    BY <1>4, <2>1, <2>2 DEF ReaderTypes
<1>15. ReadersOK'
  BY <1>4, <1>5, <1>11, <1>12, <1>13, <1>14 DEF LogInv, ReadersOK, Matches, DB, raft, ReaderTypes
<1> QED
  BY <1>4, <1>15, ReadersOnly

LEMMA ReplicationScanKeeps ==
  ASSUME LogInv, ReplicationScan
  PROVE  LogInv'
<1>1. PICK r : r = reader["repl"]
  OBVIOUS
<1>2. PICK got : got = Affordable(DB.log, r.lo, r.hi)
  OBVIOUS
<1>3. PICK rec : rec = [pc |-> "done", lo |-> r.lo, hi |-> r.hi, got |-> got]
  OBVIOUS
<1>4. /\ r.pc = "disk" /\ reader' = [reader EXCEPT !["repl"] = rec]
      /\ UNCHANGED <<coalescer, coalesced, journal, poisoned, cache, core, caller,
                     raft, flushed, gone, crashes>>
  BY <1>1, <1>2, <1>3 DEF ReplicationScan, Reading
<1>5. /\ leader /\ r.lo \in Indexes(DB) /\ r.lo <= r.hi /\ reader \in ReaderTypes
      /\ r.lo \in 0 .. MaxIndex /\ r.hi \in 0 .. MaxIndex /\ r.lo \in Nat /\ r.hi \in Nat
  BY <1>1, <1>4, Newest DEF LogInv, ReadersOK, ReaderTypes
<1>6. PICK f \in Entries : f = DB.log
  BY Newest
<1>7. \A i \in DOMAIN f : i >= r.lo => r.lo .. i \subseteq DOMAIN f
  BY <1>5, <1>6, Newest DEF ImageOK, Indexes
<1>8. /\ got \in Entries /\ DOMAIN got \subseteq DOMAIN f /\ r.lo \in DOMAIN got
      /\ \A i \in DOMAIN got : got[i] = f[i] /\ i >= r.lo /\ r.lo .. i \subseteq DOMAIN got
  <2>1. got = Affordable(f, r.lo, r.hi) /\ r.lo \in DOMAIN f
    BY <1>2, <1>5, <1>6 DEF Indexes
  <2> QED
    BY <1>5, <1>7, <2>1, AffordableIs
<1>9. \A i \in DOMAIN got : Matches(got, i)
  BY <1>6, <1>8 DEF Matches, Indexes
<1>10. /\ reader' \in ReaderTypes /\ reader'["repl"] = rec /\ reader'["apply"] = reader["apply"]
       /\ rec.pc = "done" /\ rec.lo = r.lo /\ rec.hi = r.hi /\ rec.got = got
  <2>1. /\ rec \in [pc : {"idle", "disk", "fill", "done"}, lo : 0 .. MaxIndex,
                    hi : 0 .. MaxIndex, got : Entries]
        /\ rec.pc = "done" /\ rec.lo = r.lo /\ rec.hi = r.hi /\ rec.got = got
    BY <1>3, <1>5, <1>8
  <2> QED
    BY <1>4, <1>5, <2>1 DEF ReaderTypes
<1>11. ReadersOK'
  BY <1>4, <1>5, <1>8, <1>9, <1>10 DEF LogInv, ReadersOK, Matches, DB, raft, ReaderTypes
<1> QED
  BY <1>4, <1>11, ReadersOnly

LEMMA ReplicatedKeeps ==
  ASSUME LogInv, Replicated
  PROVE  LogInv'
<1>1. /\ reader' = [reader EXCEPT !["repl"] = NoRead]
      /\ UNCHANGED <<coalescer, coalesced, journal, poisoned, cache, core, caller,
                     raft, flushed, gone, crashes>>
  BY DEF Replicated
<1>2. /\ reader' \in ReaderTypes /\ reader'["apply"] = reader["apply"] /\ reader'["repl"] = NoRead
  BY <1>1, NoReadIs DEF LogInv, ReadersOK, ReaderTypes
<1>3. ReadersOK'
  BY <1>1, <1>2, NoReadIs DEF LogInv, ReadersOK, Matches, DB, raft, ReaderTypes
<1> QED
  BY <1>1, <1>3, ReadersOnly

-----------------------------------------------------------------------------
(* openraft around the store, and crashes. *)

LEMMA ElectedKeeps ==
  ASSUME LogInv, Elected
  PROVE  LogInv'
<1>1. /\ core.pc = "idle" /\ leader' = TRUE
      /\ UNCHANGED <<coalescer, coalesced, journal, poisoned, cache, core, caller,
                     reader, commit, applied, flushed, gone, crashes>>
  BY DEF Elected, Free
<1>2. TypeOK' /\ FlushedSurvives' /\ ImagesOK' /\ CacheOK'
  BY <1>1 DEF LogInv, TypeOK, FlushedSurvives, ImagesOK, CacheOK, Matches, DB, coalescer
<1>3. CoreOK'
  BY <1>1 DEF LogInv, CoreOK, Running, FollowsOn, DB
<1>4. ReadersOK'
  BY <1>1 DEF LogInv, ReadersOK, Matches, DB
<1>5. PoolOK' /\ NoWaiterForgotten'
  BY <1>1 DEF LogInv, PoolOK, NoWaiterForgotten, coalescer
<1> QED
  BY <1>2, <1>3, <1>4, <1>5 DEF LogInv

LEMMA CommittedKeeps ==
  ASSUME LogInv, NEW i \in 1 .. MaxIndex, Committed(i)
  PROVE  LogInv'
<1>1. /\ core.pc = "idle" /\ i > commit /\ commit' = i
      /\ UNCHANGED <<coalescer, coalesced, journal, poisoned, cache, core, caller,
                     reader, leader, applied, flushed, gone, crashes>>
  BY DEF Committed, Free
<1>2. commit' \in Nat /\ commit <= commit' /\ commit' \in 0 .. MaxIndex
  BY <1>1, Newest
<1>3. ImagesOK'
  <2>1. \A k \in DOMAIN journal : journal[k] \in Image /\ ImageOK(journal[k], commit, gone)
    BY DEF LogInv, TypeOK, ImagesOK
  <2>2. \A j \in Image : ImageOK(j, commit, gone) => ImageOK(j, commit', gone)
    BY <1>2, ImageMonotone, Newest
  <2> QED
    BY <1>1, <2>1, <2>2 DEF ImagesOK
<1>4. TypeOK' /\ FlushedSurvives' /\ CacheOK'
  BY <1>1 DEF LogInv, TypeOK, FlushedSurvives, CacheOK, Matches, DB, coalescer
<1>5. CoreOK'
  BY <1>1, <1>2 DEF LogInv, CoreOK, Running, FollowsOn, DB
<1>6. ReadersOK'
  <2>1. reader["apply"].hi \in Nat
    BY Newest DEF LogInv, ReadersOK
  <2>2. reader["apply"].hi <= commit => reader["apply"].hi <= commit'
    BY <1>2, <2>1, Newest
  <2> QED
    BY <1>1, <2>2 DEF LogInv, ReadersOK, Matches, DB
<1>7. PoolOK' /\ NoWaiterForgotten'
  BY <1>1 DEF LogInv, PoolOK, NoWaiterForgotten, coalescer
<1> QED
  BY <1>3, <1>4, <1>5, <1>6, <1>7 DEF LogInv

LEMMA InstallSnapshotKeeps ==
  ASSUME LogInv, NEW i \in 1 .. MaxIndex, InstallSnapshot(i)
  PROVE  LogInv'
<1>1. /\ core.pc = "idle" /\ ~leader /\ i > LastIndex(DB) /\ reader["apply"].pc = "idle"
      /\ applied' = i /\ commit' = Max({commit, i})
      /\ core' = [pc |-> "install", arg |-> i]
      /\ UNCHANGED <<coalescer, coalesced, journal, poisoned, cache, caller, reader,
                     leader, flushed, gone, crashes>>
  BY DEF InstallSnapshot, Free
<1>2. commit' \in Nat /\ commit <= commit' /\ commit' \in 0 .. MaxIndex /\ i \in Nat
  BY <1>1, OfTwo, Newest DEF LogInv, CoreOK
<1>3. ImagesOK'
  <2>1. \A k \in DOMAIN journal : journal[k] \in Image /\ ImageOK(journal[k], commit, gone)
    BY DEF LogInv, TypeOK, ImagesOK
  <2>2. \A j \in Image : ImageOK(j, commit, gone) => ImageOK(j, commit', gone)
    BY <1>2, ImageMonotone, Newest
  <2> QED
    BY <1>1, <2>1, <2>2 DEF ImagesOK
<1>4. TypeOK' /\ FlushedSurvives' /\ CacheOK'
  BY <1>1 DEF LogInv, TypeOK, FlushedSurvives, CacheOK, Matches, DB, coalescer
<1>5. /\ DB' = DB /\ DB.purged < i /\ DB.purged <= i /\ i \in 0 .. i
      /\ \A j \in Indexes(DB) : j < i
  <2>1. DB' = DB
    BY <1>1 DEF DB
  <2> QED
    BY <1>1, <1>2, <2>1, LastIndexIs, Newest
<1>6. CoreOK'
  BY <1>1, <1>2, <1>5 DEF LogInv, CoreOK, Running, FollowsOn
<1>7. ReadersOK'
  <2>1. reader["repl"].pc = "idle"
    BY <1>1 DEF LogInv, ReadersOK
  <2> QED
    BY <1>1, <2>1 DEF LogInv, ReadersOK
<1>8. PoolOK' /\ NoWaiterForgotten'
  BY <1>1 DEF LogInv, PoolOK, NoWaiterForgotten, coalescer
<1> QED
  BY <1>3, <1>4, <1>6, <1>7, <1>8 DEF LogInv

(* A restart finds one of the images, without anyone waiting for it. *)
LEMMA CrashKeeps ==
  ASSUME LogInv, NEW k \in DOMAIN journal, Crash(k)
  PROVE  LogInv'
<1>1. PICK img : img = journal[k]
  OBVIOUS
<1>2. /\ journal' = <<img>> /\ cache' = None /\ leader' = FALSE /\ poisoned' = FALSE
      /\ core' = [pc |-> IF Hole(img) THEN "hole" ELSE "idle", arg |-> 0]
      /\ waiters' = {} /\ drain_scheduled' = FALSE /\ timers' = 0 /\ drains' = {}
      /\ caller' = [c \in Others |-> IF caller[c] = "new" THEN "new" ELSE "done"]
      /\ reader' = [k2 \in {"apply", "repl"} |-> NoRead]
      /\ applied' = img.purged /\ flushed' = img.log
      /\ coalesced' = coalesced /\ commit' = commit /\ gone' = gone
  BY <1>1 DEF Crash, ResetCoalescer
<1>3. /\ img \in Image /\ ImageOK(img, commit, gone) /\ img.log \in Entries
      /\ img.purged \in 0 .. MaxIndex /\ Indexes(img) \in SUBSET (1 .. MaxIndex)
  <2>1. img \in Image /\ ImageOK(img, commit, gone)
    BY <1>1 DEF LogInv, TypeOK, ImagesOK
  <2> QED
    BY <2>1, EntriesAre DEF Image, Indexes
<1>4. /\ journal' \in Seq(Image) /\ journal' # <<>> /\ Len(journal') = 1 /\ DB' = img
      /\ \A j \in DOMAIN journal' : journal'[j] = img
  BY <1>2, <1>3 DEF DB
<1>5. TypeOK'
  <2>1. Cardinality(DOMAIN None) = 0 /\ CacheCap \in Nat
    BY NoneIs, FS_EmptySet, RaftLogAssumption
  <2>2. drain_scheduled' \in BOOLEAN /\ poisoned' \in BOOLEAN
    BY <1>2
  <2>3. timers' \in Nat /\ cache' \in Entries /\ Cardinality(DOMAIN cache') <= CacheCap
    BY <1>2, <2>1, NoneIs
  <2> QED
    BY <1>2, <1>3, <1>4, <2>2, <2>3 DEF LogInv, TypeOK
<1>6. FlushedSurvives'
  BY <1>2, <1>4 DEF FlushedSurvives, Indexes
<1>7. ImagesOK'
  BY <1>2, <1>3, <1>4 DEF ImagesOK
<1>8. ~Hole(img) => FollowsOn(img, img.purged)
  <2> HAVE ~Hole(img)
  <2>1. CASE Indexes(img) = {}
    BY <2>1 DEF FollowsOn
  <2>2. CASE Indexes(img) # {}
    <3>1. Min(Indexes(img)) = img.purged + 1
      BY <2>2 DEF Hole
    <3>2. img.purged + 1 \in Indexes(img) /\ \A i \in Indexes(img) : img.purged + 1 <= i
      BY <1>3, <2>2, <3>1, EndsAre
    <3> QED
      BY <1>3, <3>2 DEF FollowsOn, ImageOK
  <2> QED
    BY <2>1, <2>2
<1>9. CoreOK'
  <2>1. img.purged <= img.purged
    BY <1>3
  <2>2. core'.pc = "hole" \/ (core'.pc = "idle" /\ ~Hole(img))
    BY <1>2
  <2>3. leader' \in BOOLEAN
    BY <1>2
  <2> QED
    BY <1>2, <1>3, <1>4, <1>8, <2>1, <2>2, <2>3 DEF LogInv, CoreOK, Running
<1>10. CacheOK'
  BY <1>2, NoneIs DEF CacheOK
<1>11. ReadersOK'
  <2>1. /\ reader' \in ReaderTypes /\ reader'["apply"] = NoRead /\ reader'["repl"] = NoRead
    BY <1>2, NoReadIs DEF ReaderTypes
  <2> QED
    BY <2>1, NoReadIs DEF ReadersOK, ReaderTypes
<1>12. PoolOK'
  <2>1. caller' \in [Others -> {"new", "waiting", "done"}] /\ \A c \in Others : caller'[c] # "waiting"
    BY <1>2
  <2>2. core'.pc # "barrier" /\ ~drain_scheduled'
    BY <1>2
  <2> QED
    BY <1>2, <1>4, <2>1, <2>2 DEF PoolOK
<1>13. NoWaiterForgotten'
  BY <1>2 DEF NoWaiterForgotten
<1> QED
  BY <1>5, <1>6, <1>7, <1>9, <1>10, <1>11, <1>12, <1>13 DEF LogInv

(* An empty store. *)
LEMMA InitEstablishes == Init => LogInv
<1> SUFFICES ASSUME Init PROVE LogInv
  OBVIOUS
<1>1. PICK img : img = [log |-> None, vote |-> 0, committed |-> 0, purged |-> 0]
  OBVIOUS
<1>2. /\ journal = <<img>> /\ cache = None /\ leader = FALSE /\ poisoned = FALSE /\ core.pc = "idle"
      /\ waiters = {} /\ drain_scheduled = FALSE /\ timers = 0 /\ drains = {}
      /\ caller = [c \in Others |-> "new"]
      /\ reader = [k2 \in {"apply", "repl"} |-> NoRead]
      /\ applied = 0 /\ commit = 0 /\ gone = 0 /\ flushed = None /\ coalesced \in BOOLEAN
  BY <1>1, RaftLogAssumption DEF Init, InitCoalescer, Idle
<1>3. /\ img \in Image /\ Indexes(img) = {} /\ img.purged = 0 /\ img.committed = 0
      /\ 0 \in 0 .. MaxIndex
  BY <1>1, NoneIs, RaftLogAssumption DEF Image, Indexes
<1>4. /\ journal \in Seq(Image) /\ journal # <<>> /\ Len(journal) = 1 /\ DB = img
      /\ \A j \in DOMAIN journal : journal[j] = img
  BY <1>2, <1>3 DEF DB
<1>5. TypeOK
  <2>1. Cardinality(DOMAIN None) = 0 /\ CacheCap \in Nat
    BY NoneIs, FS_EmptySet, RaftLogAssumption
  <2>2. drain_scheduled \in BOOLEAN /\ poisoned \in BOOLEAN
    BY <1>2
  <2>3. timers \in Nat /\ cache \in Entries /\ Cardinality(DOMAIN cache) <= CacheCap
    BY <1>2, <2>1, NoneIs
  <2> QED
    BY <1>2, <1>3, <1>4, <2>2, <2>3, NoneIs DEF TypeOK
<1>6. FlushedSurvives
  BY <1>2, NoneIs DEF FlushedSurvives
<1>7. ImagesOK
  BY <1>2, <1>3, <1>4 DEF ImagesOK, ImageOK
<1>8. CoreOK
  <2>1. leader \in BOOLEAN
    BY <1>2
  <2> QED
    BY <1>2, <1>3, <1>4, <2>1 DEF CoreOK, Running, FollowsOn
<1>9. CacheOK
  BY <1>2, NoneIs DEF CacheOK
<1>10. ReadersOK
  <2>1. /\ reader \in ReaderTypes /\ reader["apply"] = NoRead /\ reader["repl"] = NoRead
    BY <1>2, NoReadIs DEF ReaderTypes
  <2> QED
    BY <2>1, NoReadIs DEF ReadersOK, ReaderTypes
<1>11. PoolOK /\ NoWaiterForgotten
  <2>1. caller \in [Others -> {"new", "waiting", "done"}] /\ \A c \in Others : caller[c] # "waiting"
    BY <1>2
  <2>2. core.pc # "barrier" /\ ~drain_scheduled
    BY <1>2
  <2> QED
    BY <1>2, <1>4, <2>1, <2>2 DEF PoolOK, NoWaiterForgotten
<1> QED
  BY <1>5, <1>6, <1>7, <1>8, <1>9, <1>10, <1>11 DEF LogInv

(* Steps that change nothing. *)
LEMMA StutterKeeps ==
  ASSUME LogInv, UNCHANGED vars
  PROVE  LogInv'
<1>1. TypeOK' /\ FlushedSurvives' /\ ImagesOK' /\ CacheOK'
  BY DEF LogInv, TypeOK, FlushedSurvives, ImagesOK, CacheOK, Matches, DB, coalescer, raft, vars
<1>2. CoreOK' /\ ReadersOK'
  BY DEF LogInv, CoreOK, ReadersOK, Running, FollowsOn, Matches, DB, raft, vars
<1>3. PoolOK' /\ NoWaiterForgotten'
  BY DEF LogInv, PoolOK, NoWaiterForgotten, coalescer, vars
<1> QED
  BY <1>1, <1>2, <1>3 DEF LogInv

-----------------------------------------------------------------------------
(* The images, the storage call in progress, the cache, the readers and the    *)
(* pool of the coalescer agree after every step of FjallRaftLogStore and       *)
(* FsyncCoalescer, whatever crashes, fails or is read meanwhile.               *)
THEOREM LogInvariant == Spec => []LogInv
<1>1. Init => LogInv
  BY InitEstablishes
<1>2. LogInv /\ [Next]_vars => LogInv'
  <2> SUFFICES ASSUME LogInv, [Next]_vars PROVE LogInv'
    OBVIOUS
  <2>1. ASSUME NEW n \in 1 .. 2, NEW t \in 1 .. MaxTerm, AppendBatch(n, t) PROVE LogInv'
    BY <2>1, AppendBatchKeeps
  <2>2. CASE CacheAndBarrier
    BY <2>2, CacheAndBarrierKeeps
  <2>3. ASSUME NEW i \in 0 .. MaxIndex, TruncateAfter(i) \/ TruncateBefore(i) PROVE LogInv'
    BY <2>3, TruncateAfterKeeps, TruncateBeforeKeeps
  <2>4. CASE ClearCache \/ SetLastPurged \/ SaveCommitted \/ BatchFails \/ Timer
    BY <2>4, ClearCacheKeeps, SetLastPurgedKeeps, SaveCommittedKeeps, BatchFailsKeeps, TimerKeeps
  <2>5. ASSUME NEW t \in 1 .. MaxTerm, SaveVote(t) PROVE LogInv'
    BY <2>5, SaveVoteKeeps
  <2>6. ASSUME NEW c \in Others, OtherFlush(c) \/ OtherDropped(c) PROVE LogInv'
    BY <2>6, OtherFlushKeeps, OtherDroppedKeeps
  <2>7. ASSUME NEW d \in drains, Persisted(d) \/ PersistFails(d) PROVE LogInv'
    BY <2>7, PersistedKeeps, PersistFailsKeeps
  <2>8. ASSUME NEW hi \in 1 .. MaxIndex, ApplyRead(hi) \/ ReplicationRead(hi) PROVE LogInv'
    BY <2>8, ApplyReadKeeps, ReplicationReadKeeps
  <2>9. CASE ApplyScan \/ ApplyFill \/ Applied \/ ReplicationScan \/ Replicated \/ Elected
    BY <2>9, ApplyScanKeeps, ApplyFillKeeps, AppliedKeeps, ReplicationScanKeeps,
       ReplicatedKeeps, ElectedKeeps
  <2>10. ASSUME NEW i \in 1 .. MaxIndex, Committed(i) \/ InstallSnapshot(i) PROVE LogInv'
    BY <2>10, CommittedKeeps, InstallSnapshotKeeps
  <2>11. ASSUME NEW k \in DOMAIN journal, Crash(k) PROVE LogInv'
    BY <2>11, CrashKeeps
  <2>12. CASE UNCHANGED vars
    BY <2>12, StutterKeeps
  <2> QED
    BY <2>1, <2>2, <2>3, <2>4, <2>5, <2>6, <2>7, <2>8, <2>9, <2>10, <2>11, <2>12 DEF Next
<1> QED
  BY <1>1, <1>2, PTL DEF Spec

(* The types of the store, the cache and the coalescer. *)
THEOREM LogTypeCorrect == Spec => []TypeOK
BY LogInvariant, PTL DEF LogInv

(* No entry whose append called back is lost to a crash or a power failure,    *)
(* with group commit or without it, unless it was truncated or purged.         *)
THEOREM NothingFlushedIsLost == Spec => []FlushedSurvives
BY LogInvariant, PTL DEF LogInv

(* Nobody who called flush is left in a pool that no timer and no sync will    *)
(* drain.                                                                     *)
THEOREM NoFlushForgotten == Spec => []NoWaiterForgotten
BY LogInvariant, PTL DEF LogInv

(* What every image says about its hard state and its indexes. *)
LEMMA ImagesImply ==
  ASSUME LogInv
  PROVE  HardStateCoversLog /\ OnlyPurgedMissing
<1>1. \A k \in DOMAIN journal : journal[k] \in Image /\ ImageOK(journal[k], commit, gone)
  BY DEF LogInv, TypeOK, ImagesOK
<1>2. ASSUME NEW img \in Image, ImageOK(img, commit, gone)
      PROVE  /\ \A i \in Indexes(img) : img.log[i] <= img.vote
             /\ img.committed <= Max({LastIndex(img), gone})
             /\ Indexes(img) # {} =>
                  /\ Indexes(img) = Min(Indexes(img)) .. Max(Indexes(img))
                  /\ Min(Indexes(img)) > img.purged
                  /\ Min(Indexes(img)) - 1 <= Max({img.purged, gone})
  <2>1. /\ img.purged \in Nat /\ img.committed \in Nat /\ gone \in Nat
        /\ Indexes(img) \in SUBSET (1 .. MaxIndex)
    BY Newest, EntriesAre DEF Image, Indexes
  <2>2. img.committed <= Max({LastIndex(img), gone})
    <3>1. PICK l \in Nat : /\ l = LastIndex(img) /\ l >= img.purged
                           /\ \A i \in Indexes(img) : i <= l
      BY LastIndexIs
    <3>2. Max({l, gone}) = IF l >= gone THEN l ELSE gone
      BY <2>1, OfTwo
    <3>3. img.committed <= l \/ img.committed <= gone
      BY <1>2, <2>1, <3>1 DEF ImageOK
    <3>4. img.committed <= IF l >= gone THEN l ELSE gone
      BY <2>1, <3>1, <3>3
    <3> QED
      BY <3>1, <3>2, <3>4
  <2>3. ASSUME Indexes(img) # {}
        PROVE  /\ Indexes(img) = Min(Indexes(img)) .. Max(Indexes(img))
               /\ Min(Indexes(img)) > img.purged
               /\ Min(Indexes(img)) - 1 <= Max({img.purged, gone})
    <3>1. PICK a \in Indexes(img), b \in Indexes(img) :
            /\ a = Min(Indexes(img)) /\ b = Max(Indexes(img))
            /\ \A i \in Indexes(img) : a <= i /\ i <= b
      BY <2>1, <2>3, EndsAre
    <3>2. a .. b \subseteq Indexes(img) /\ a > img.purged
      BY <1>2, <3>1 DEF ImageOK
    <3>3. Indexes(img) = a .. b
      <4>1. \A i \in Indexes(img) : i \in Int /\ a \in Int /\ b \in Int /\ a <= i /\ i <= b
        BY <2>1, <3>1
      <4>2. Indexes(img) \subseteq a .. b
        BY <4>1
      <4> QED
        BY <3>2, <4>2
    <3>4. a \in Nat /\ (a - 1 = img.purged \/ a - 1 <= gone)
      <4>1. a \in Nat
        BY <2>1
      <4>2. a - 1 = img.purged \/ a - 1 \in img.purged + 1 .. a
        BY <2>1, <3>2, <4>1
      <4>3. a - 1 \notin Indexes(img)
        BY <3>3, <4>1
      <4> QED
        BY <1>2, <4>1, <4>2, <4>3 DEF ImageOK
    <3>5. Max({img.purged, gone}) = IF img.purged >= gone THEN img.purged ELSE gone
      BY <2>1, OfTwo
    <3>6. a - 1 <= IF img.purged >= gone THEN img.purged ELSE gone
      BY <2>1, <3>4
    <3> QED
      BY <3>1, <3>2, <3>3, <3>5, <3>6
  <2> QED
    BY <1>2, <2>2, <2>3 DEF ImageOK
<1>3. HardStateCoversLog
  BY <1>1, <1>2 DEF HardStateCoversLog
<1>4. OnlyPurgedMissing
  BY <1>1, <1>2 DEF OnlyPurgedMissing
<1> QED
  BY <1>3, <1>4

(* The vote and the committed index a restart reads are never behind the log   *)
(* it reads, although only append waits for a sync.                           *)
THEOREM HardStateIsNeverBehind == Spec => []HardStateCoversLog
<1>1. LogInv => HardStateCoversLog
  BY ImagesImply
<1> QED
  BY <1>1, LogInvariant, PTL

(* A crash between the two batches of a purge leaves a gap only where entries  *)
(* were to be purged.                                                         *)
THEOREM GapsArePurges == Spec => []OnlyPurgedMissing
<1>1. LogInv => OnlyPurgedMissing
  BY ImagesImply
<1> QED
  BY <1>1, LogInvariant, PTL

(* The cache never answers with an entry the log does not have. *)
THEOREM CacheAgrees == Spec => []CacheIsLog
<1>1. LogInv => CacheIsLog
  <2> SUFFICES ASSUME LogInv, core.pc # "clear", NEW i \in DOMAIN cache, i > gone
               PROVE  Matches(cache, i)
    BY DEF CacheIsLog, Matches
  <2>1. i \in Nat /\ gone \in Nat
    BY Newest, EntriesAre DEF LogInv, TypeOK
  <2>2. core.pc = "meta" => core.arg \in Nat /\ core.arg <= gone
    BY Newest DEF LogInv, CoreOK
  <2> QED
    BY <2>1, <2>2 DEF LogInv, CacheOK
<1> QED
  BY <1>1, LogInvariant, PTL

(* Readers get the log from the index they asked for, without a gap, although  *)
(* they take no lock against truncation, purge, cache and eviction.            *)
THEOREM ReadersGetTheLog == Spec => []ReadsAreLog
<1>1. LogInv => ReadsAreLog
  <2> SUFFICES ASSUME LogInv PROVE ReadsAreLog
    OBVIOUS
  <2>1. ReadersOK
    BY DEF LogInv
  <2>2. ASSUME NEW r, r = reader["apply"], r.pc = "done"
        PROVE  /\ DOMAIN r.got # {} /\ DOMAIN r.got = r.lo .. Max(DOMAIN r.got)
               /\ Max(DOMAIN r.got) = r.hi
               /\ \A i \in DOMAIN r.got : i \in Indexes(DB) /\ r.got[i] = DB.log[i]
    <3>1. /\ r.lo \in 0 .. MaxIndex /\ r.hi \in 0 .. MaxIndex /\ r.got \in Entries /\ r.lo <= r.hi
          /\ DOMAIN r.got = r.lo .. r.hi /\ \A i \in r.lo .. r.hi : Matches(r.got, i)
      BY <2>1, <2>2 DEF ReadersOK
    <3>2. r.hi \in DOMAIN r.got /\ \A i \in DOMAIN r.got : i <= r.hi
      BY <3>1
    <3>3. Max(DOMAIN r.got) \in DOMAIN r.got /\ \A i \in DOMAIN r.got : i <= Max(DOMAIN r.got)
      BY <3>1, <3>2, EntriesAre, EndsAre
    <3>4. Max(DOMAIN r.got) = r.hi
      <4>1. DOMAIN r.got \in SUBSET Nat
        BY <3>1
      <4> QED
        BY <3>2, <3>3, <4>1
    <3> QED
      BY <3>1, <3>2, <3>4 DEF Matches
  <2>3. ASSUME NEW r, r = reader["repl"], r.pc = "done"
        PROVE  /\ DOMAIN r.got # {} /\ DOMAIN r.got = r.lo .. Max(DOMAIN r.got)
               /\ \A i \in DOMAIN r.got : i \in Indexes(DB) /\ r.got[i] = DB.log[i]
    <3>1. /\ r.lo \in DOMAIN r.got /\ r.got \in Entries
          /\ \A i \in DOMAIN r.got : Matches(r.got, i) /\ i >= r.lo /\ r.lo .. i \subseteq DOMAIN r.got
      BY <2>1, <2>3 DEF ReadersOK
    <3>2. PICK m \in DOMAIN r.got : m = Max(DOMAIN r.got) /\ \A i \in DOMAIN r.got : i <= m
      BY <3>1, EntriesAre, EndsAre
    <3>3. DOMAIN r.got \in SUBSET Nat
      BY <3>1, EntriesAre
    <3>4. DOMAIN r.got = r.lo .. m
      <4>1. \A i \in DOMAIN r.got : i \in Int /\ r.lo \in Int /\ m \in Int /\ r.lo <= i /\ i <= m
        BY <3>1, <3>2, <3>3
      <4>2. DOMAIN r.got \subseteq r.lo .. m
        BY <4>1
      <4> QED
        BY <3>1, <3>2, <4>2
    <3> QED
      BY <3>1, <3>2, <3>4 DEF Matches
  <2> QED
    BY <2>2, <2>3 DEF ReadsAreLog
<1> QED
  BY <1>1, LogInvariant, PTL
=============================================================================
