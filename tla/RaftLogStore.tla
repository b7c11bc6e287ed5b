---------------------------- MODULE RaftLogStore ----------------------------
(***************************************************************************)
(* The durable Raft log of one shard on one node (kiseki-raft,              *)
(* fjall_raft_log_store.rs, fjall_log_store.rs): log, vote, committed and   *)
(* last_purged in one fjall database, a cache of decoded entries, and an    *)
(* optional group commit (FsyncCoalescer).  With group commit every batch   *)
(* is only buffered, and append alone waits for a sync.                     *)
(*                                                                         *)
(* The database is the sequence of images a power failure may leave: the    *)
(* last synced one, then one per batch committed since (a batch is atomic   *)
(* and the journal is written in order).  The Raft core calls one storage   *)
(* operation at a time, as openraft does; two readers of its own, the       *)
(* state machine worker and the replication stream, run beside it.          *)
(***************************************************************************)
EXTENDS FsyncCoalescer, Sequences, FiniteSetsExt, Functions

CONSTANTS Others,      \* callers of the coalescer besides the Raft core
          Modes,       \* group commit on (TRUE) or off, chosen when the store opens
          CacheCap,    \* DEFAULT_ENTRY_CACHE_CAP
          Budget,      \* replication_byte_budget
          MaxIndex,    \* bound: log indexes
          MaxTerm,     \* bound: terms
          MaxCrashes   \* bound: crashes

ASSUME RaftLogAssumption ==
  /\ Modes \subseteq BOOLEAN /\ "core" \notin Others
  /\ CacheCap \in Nat \ {0} /\ Budget \in Nat
  /\ MaxIndex \in Nat /\ MaxTerm \in Nat /\ MaxCrashes \in Nat

VARIABLES coalesced, \* has_fsync_coalescer
          journal,   \* images of the database, the synced one first
          poisoned,  \* a sync failed: fjall refuses from then on
          cache,     \* entry_cache: index -> entry
          core,      \* the storage call in progress and its argument
          caller,    \* the other users of the coalescer
          reader,    \* the reads in progress
          leader,    \* is this node the leader of its term?
          commit, applied, \* what openraft knows to be committed and applied
          flushed,   \* history: the entries reported as flushed and still wanted
          gone,      \* history: the highest index purge was called for
          crashes

raft == <<leader, commit, applied>>
vars == <<coalescer, coalesced, journal, poisoned, cache, core, caller, reader,
          raft, flushed, gone, crashes>>

None == <<>>
Idle == [pc |-> "idle", arg |-> 0]
NoRead == [pc |-> "idle", lo |-> 0, hi |-> 0, got |-> None]
Free == core.pc = "idle"
Running == core.pc \notin {"dead", "hole"}

DB == journal[Len(journal)]
Indexes(img) == DOMAIN img.log

\* get_log_state: the last entry, or what was purged last.
LastIndex(img) == Max(Indexes(img) \cup {img.purged})

\* commit_batch ... commit: buffered with group commit, synced without.
Commit(img) ==
  journal' = IF coalesced THEN Append(journal, img) ELSE <<img>>

\* set_meta: a batch like any other, and no barrier after it.
SetMeta(key, value) == Commit([DB EXCEPT ![key] = value])

\* f with the entries of new put over it.
Over(new, f) == [i \in DOMAIN new \cup DOMAIN f |->
                   IF i \in DOMAIN new THEN new[i] ELSE f[i]]

Mut_Put(new) == {Over(new, cache)}

\* The LRU after puts: at most CacheCap entries, the last ones put among
\* them.  Which older ones are evicted is left open.
Put(new) ==
  LET all  == Over(new, cache)
      last == {i \in DOMAIN new : Cardinality({j \in DOMAIN new : j > i}) < CacheCap}
  IN
  {Restrict(all, D) : D \in {D \in SUBSET DOMAIN all :
     /\ last \subseteq D
     /\ Cardinality(D) = Min({CacheCap, Cardinality(DOMAIN all)})}}

-----------------------------------------------------------------------------
(* The calls of the Raft core. *)

Mut_AppendBatch(n, t) ==
  LET from == LastIndex(DB) + 1
      new  == [i \in from .. from + n - 1 |-> t]
  IN
  /\ Free /\ from + n - 1 <= MaxIndex
  /\ t <= DB.vote /\ (leader => t = DB.vote)
  /\ \A i \in Indexes(DB) : DB.log[i] <= t
  /\ journal' = [k \in DOMAIN journal |-> [journal[k] EXCEPT !.log = Over(new, @)]]
  /\ core' = [pc |-> "cache", arg |-> new]
  /\ UNCHANGED <<coalescer, coalesced, poisoned, cache, caller, reader, raft,
                 flushed, gone, crashes>>

\* append, first part: one batch with all the entries of the payload.
AppendBatch(n, t) ==
  LET from == LastIndex(DB) + 1
      new  == [i \in from .. from + n - 1 |-> t]
  IN
  /\ Free /\ from + n - 1 <= MaxIndex
  /\ t <= DB.vote /\ (leader => t = DB.vote)
  /\ \A i \in Indexes(DB) : DB.log[i] <= t
  /\ Commit([DB EXCEPT !.log = Over(new, @)])
  /\ core' = [pc |-> "cache", arg |-> new]
  /\ UNCHANGED <<coalescer, coalesced, poisoned, cache, caller, reader, raft,
                 flushed, gone, crashes>>

Mut_CacheAndBarrier ==
  /\ core.pc = "cache"
  /\ cache' \in Put(core.arg)
  /\ core' = Idle
  /\ flushed' = DB.log
  /\ UNCHANGED <<coalescer, coalesced, journal, poisoned, caller, reader, raft,
                 gone, crashes>>

\* append, second part: fill the cache, then fsync_barrier.  Without group
\* commit the batch is already synced and the callback fires at once.
CacheAndBarrier ==
  /\ core.pc = "cache"
  /\ cache' \in Put(core.arg)
  /\ \/ /\ coalesced
        /\ Join("core", Len(journal))
        /\ core' = [pc |-> "barrier", arg |-> 0]
        /\ UNCHANGED flushed
     \/ /\ ~coalesced
        /\ core' = Idle
        /\ flushed' = DB.log
        /\ UNCHANGED coalescer
  /\ UNCHANGED <<coalesced, journal, poisoned, caller, reader, raft, gone, crashes>>

\* truncate_after, first part: a follower drops a conflicting suffix.
TruncateAfter(i) ==
  /\ Free /\ ~leader /\ i >= Max({commit, DB.purged}) /\ i < LastIndex(DB)
  /\ DB.log[i + 1] < DB.vote
  /\ Commit([DB EXCEPT !.log = Restrict(@, {j \in DOMAIN @ : j <= i})])
  /\ flushed' = Restrict(flushed, {j \in DOMAIN flushed : j <= i})
  /\ core' = [pc |-> "clear", arg |-> 0]
  /\ UNCHANGED <<coalescer, coalesced, poisoned, cache, caller, reader, raft,
                 gone, crashes>>

Mut_ClearCache ==
  /\ core.pc = "clear"
  /\ core' = Idle
  /\ UNCHANGED <<coalescer, coalesced, journal, poisoned, cache, caller, reader,
                 raft, flushed, gone, crashes>>

\* truncate_after, second part.
ClearCache ==
  /\ core.pc = "clear"
  /\ cache' = None
  /\ core' = Idle
  /\ UNCHANGED <<coalescer, coalesced, journal, poisoned, caller, reader, raft,
                 flushed, gone, crashes>>

Mut_TruncateBefore(i) ==
  /\ \/ core = [pc |-> "install", arg |-> i]
     \/ Free /\ i <= applied /\ i > DB.purged
  /\ reader["repl"].pc = "idle" \/ reader["repl"].lo > i
  /\ IF \E j \in Indexes(DB) : j < i
     THEN Commit([DB EXCEPT !.log = Restrict(@, {j \in DOMAIN @ : j >= i})])
     ELSE UNCHANGED journal
  /\ flushed' = Restrict(flushed, {j \in DOMAIN flushed : j > i})
  /\ gone' = Max({gone, i})
  /\ core' = [pc |-> "meta", arg |-> i]
  /\ UNCHANGED <<coalescer, coalesced, poisoned, cache, caller, reader, raft,
                 crashes>>

\* purge, first part: remove the entries up to i in a batch of their own.
\* openraft purges what a snapshot covers and no replication stream reads.
TruncateBefore(i) ==
  /\ \/ core = [pc |-> "install", arg |-> i]
     \/ Free /\ i <= applied /\ i > DB.purged
  /\ reader["repl"].pc = "idle" \/ reader["repl"].lo > i
  /\ IF \E j \in Indexes(DB) : j <= i
     THEN Commit([DB EXCEPT !.log = Restrict(@, {j \in DOMAIN @ : j > i})])
     ELSE UNCHANGED journal
  /\ flushed' = Restrict(flushed, {j \in DOMAIN flushed : j > i})
  /\ gone' = Max({gone, i})
  /\ core' = [pc |-> "meta", arg |-> i]
  /\ UNCHANGED <<coalescer, coalesced, poisoned, cache, caller, reader, raft,
                 crashes>>

\* purge, second part: last_purged in a second batch, then the cache.
SetLastPurged ==
  /\ core.pc = "meta"
  /\ SetMeta("purged", core.arg)
  /\ cache' = Restrict(cache, {j \in DOMAIN cache : j > core.arg})
  /\ core' = Idle
  /\ UNCHANGED <<coalescer, coalesced, poisoned, caller, reader, raft, flushed,
                 gone, crashes>>

\* save_vote: a newer term; whoever led the older one stops replicating.
SaveVote(t) ==
  /\ Free /\ t > DB.vote
  /\ SetMeta("vote", t)
  /\ leader' = FALSE
  /\ reader' = [reader EXCEPT !["repl"] = NoRead]
  /\ UNCHANGED <<coalescer, coalesced, poisoned, cache, core, caller, commit,
                 applied, flushed, gone, crashes>>

\* save_committed
SaveCommitted ==
  LET c == Min({commit, LastIndex(DB)}) IN
  /\ Free /\ c > DB.committed
  /\ SetMeta("committed", c)
  /\ UNCHANGED <<coalescer, coalesced, poisoned, cache, core, caller, reader,
                 raft, flushed, gone, crashes>>

\* A batch that fails: the call returns the error, which stops the core.
BatchFails ==
  /\ core.pc \in {"idle", "install", "meta"}
  /\ core' = [pc |-> "dead", arg |-> 0]
  /\ UNCHANGED <<coalescer, coalesced, journal, poisoned, cache, caller, reader,
                 raft, flushed, gone, crashes>>

-----------------------------------------------------------------------------
(* The coalescer at work. *)

OtherFlush(c) ==
  /\ coalesced /\ caller[c] = "new"
  /\ Join(c, Len(journal))
  /\ caller' = [caller EXCEPT ![c] = "waiting"]
  /\ UNCHANGED <<coalesced, journal, poisoned, cache, core, reader, raft, flushed,
                 gone, crashes>>

\* The future of a caller is dropped: its slot stays and nobody listens.
OtherDropped(c) ==
  /\ caller[c] = "waiting"
  /\ caller' = [caller EXCEPT ![c] = "done"]
  /\ UNCHANGED <<coalescer, coalesced, journal, poisoned, cache, core, reader,
                 raft, flushed, gone, crashes>>

Timer ==
  /\ TimerDrain(Len(journal))
  /\ UNCHANGED <<coalesced, journal, poisoned, cache, core, caller, reader, raft,
                 flushed, gone, crashes>>

\* Every waiter of the pool gets the one result.
Answer(d) == caller' = [c \in Others |-> IF c \in d.for THEN "done" ELSE caller[c]]

\* do_persist_and_notify, the sync succeeds: what it covers is durable, the
\* pool is answered, and the core reports its entries as flushed.
Persisted(d) ==
  /\ ~poisoned
  /\ journal' = SubSeq(journal, d.covers, Len(journal))
  /\ drains' = {[o EXCEPT !.covers = Max({1, (o.covers + 1) - d.covers})] :
                  o \in drains \ {d}}
  /\ Answer(d)
  /\ core' = IF "core" \in d.for THEN Idle ELSE core
  /\ flushed' = IF "core" \in d.for THEN DB.log ELSE flushed
  /\ UNCHANGED <<waiters, drain_scheduled, timers, coalesced, poisoned, cache,
                 reader, raft, gone, crashes>>

\* The sync fails: append returns the error before its callback.
PersistFails(d) ==
  /\ poisoned' = TRUE
  /\ drains' = drains \ {d}
  /\ Answer(d)
  /\ core' = IF "core" \in d.for THEN [pc |-> "dead", arg |-> 0] ELSE core
  /\ UNCHANGED <<waiters, drain_scheduled, timers, coalesced, journal, cache,
                 reader, raft, flushed, gone, crashes>>

-----------------------------------------------------------------------------
(* The readers. *)

Reading(k, pc, lo, hi, got) ==
  reader' = [reader EXCEPT ![k] = [pc |-> pc, lo |-> lo, hi |-> hi, got |-> got]]

\* try_get_log_entries for the state machine: all from the cache, or none.
ApplyRead(hi) ==
  LET lo  == applied + 1
      hit == (hi + 1) - lo <= CacheCap /\ lo .. hi \subseteq DOMAIN cache
  IN
  /\ Running /\ reader["apply"].pc = "idle" /\ hi >= lo
  /\ hi <= Min({commit, LastIndex(DB)})
  /\ Reading("apply", IF hit THEN "done" ELSE "disk", lo, hi,
             IF hit THEN Restrict(cache, lo .. hi) ELSE None)
  /\ UNCHANGED <<coalescer, coalesced, journal, poisoned, cache, core, caller,
                 raft, flushed, gone, crashes>>

\* The range scan of the database, without a lock against the core.
ApplyScan ==
  LET r == reader["apply"] IN
  /\ r.pc = "disk"
  /\ Reading("apply", "fill", r.lo, r.hi, Restrict(DB.log, Indexes(DB) \cap (r.lo .. r.hi)))
  /\ UNCHANGED <<coalescer, coalesced, journal, poisoned, cache, core, caller,
                 raft, flushed, gone, crashes>>

\* What was read goes into the cache, whatever the core did meanwhile.
ApplyFill ==
  /\ reader["apply"].pc = "fill"
  /\ cache' \in Put(reader["apply"].got)
  /\ reader' = [reader EXCEPT !["apply"].pc = "done"]
  /\ UNCHANGED <<coalescer, coalesced, journal, poisoned, core, caller, raft,
                 flushed, gone, crashes>>

\* The state machine has applied the entries.
Applied ==
  /\ reader["apply"].pc = "done"
  /\ applied' = reader["apply"].hi
  /\ reader' = [reader EXCEPT !["apply"] = NoRead]
  /\ UNCHANGED <<coalescer, coalesced, journal, poisoned, cache, core, caller,
                 leader, commit, flushed, gone, crashes>>

\* The serialized size of an entry: those of a later term are larger here.
Size(entry) == entry

\* The bytes of the entries of D up to index i.
BytesUpTo(f, D, i) ==
  FoldSet(LAMBDA j, s : s + Size(f[j]), 0, {j \in D : j <= i})

\* range_budgeted: the entries in order while the byte budget lasts; the first
\* one is taken whatever its size.
Affordable(f, lo, hi) ==
  LET D == DOMAIN f \cap (lo .. hi) IN
  Restrict(f, {i \in D :
    \/ i = Min(D)
    \/ \A k \in D : k <= i => BytesUpTo(f, D, k) <= Budget})

Mut_Cached(lo, hi) == Affordable(cache, lo, hi)

\* The walk through the cache also ends at the first index that is not there.
Cached(lo, hi) ==
  Affordable(Restrict(cache, {i \in lo .. hi : lo .. i \subseteq DOMAIN cache}), lo, hi)

\* limited_get_log_entries for the replication stream: the cached prefix ...
ReplicationRead(lo) ==
  LET hi == LastIndex(DB)  hit == Cached(lo, hi) IN
  /\ Running /\ leader /\ reader["repl"].pc = "idle" /\ lo \in Indexes(DB)
  /\ Reading("repl", IF DOMAIN hit = {} THEN "disk" ELSE "done", lo, hi, hit)
  /\ UNCHANGED <<coalescer, coalesced, journal, poisoned, cache, core, caller,
                 raft, flushed, gone, crashes>>

\* ... or, when the first one is not cached, the database; the cache is left.
ReplicationScan ==
  LET r == reader["repl"] IN
  /\ r.pc = "disk"
  /\ Reading("repl", "done", r.lo, r.hi, Affordable(DB.log, r.lo, r.hi))
  /\ UNCHANGED <<coalescer, coalesced, journal, poisoned, cache, core, caller,
                 raft, flushed, gone, crashes>>

Replicated ==
  /\ reader["repl"].pc = "done"
  /\ reader' = [reader EXCEPT !["repl"] = NoRead]
  /\ UNCHANGED <<coalescer, coalesced, journal, poisoned, cache, core, caller,
                 raft, flushed, gone, crashes>>

-----------------------------------------------------------------------------
(* openraft around the store. *)

Elected ==
  /\ Free /\ ~leader /\ DB.vote > 0
  /\ \A i \in Indexes(DB) : DB.log[i] < DB.vote
  /\ leader' = TRUE
  /\ UNCHANGED <<coalescer, coalesced, journal, poisoned, cache, core, caller,
                 reader, commit, applied, flushed, gone, crashes>>

Committed(i) ==
  /\ Free /\ i > commit /\ i <= LastIndex(DB)
  /\ commit' = i
  /\ UNCHANGED <<coalescer, coalesced, journal, poisoned, cache, core, caller,
                 reader, leader, applied, flushed, gone, crashes>>

\* A follower that lags installs a snapshot beyond its log, then purges.
InstallSnapshot(i) ==
  /\ Free /\ ~leader /\ DB.vote > 0 /\ i > LastIndex(DB) /\ i <= MaxIndex
  /\ reader["apply"].pc = "idle"
  /\ applied' = i /\ commit' = Max({commit, i})
  /\ core' = [pc |-> "install", arg |-> i]
  /\ UNCHANGED <<coalescer, coalesced, journal, poisoned, cache, caller, reader,
                 leader, flushed, gone, crashes>>

\* Is there a gap between last_purged and the first entry?
Hole(img) == Indexes(img) # {} /\ Min(Indexes(img)) # img.purged + 1

\* A crash of the process keeps the newest image, a power failure any from
\* the synced one on; fjall's recovery leaves what it found durable.  What
\* openraft does with a log that has a hole at its start is not followed.
Crash(k) ==
  LET img == journal[k] IN
  /\ crashes < MaxCrashes
  /\ crashes' = crashes + 1
  /\ journal' = <<img>>
  /\ poisoned' = FALSE /\ cache' = None /\ leader' = FALSE
  /\ core' = [pc |-> IF Hole(img) THEN "hole" ELSE "idle", arg |-> 0]
  /\ ResetCoalescer
  /\ caller' = [c \in Others |-> IF caller[c] = "new" THEN "new" ELSE "done"]
  /\ reader' = [k2 \in {"apply", "repl"} |-> NoRead]
  /\ applied' = img.purged
  /\ flushed' = img.log
  /\ UNCHANGED <<coalesced, commit, gone>>

-----------------------------------------------------------------------------
Init ==
  /\ InitCoalescer
  /\ coalesced \in Modes
  /\ journal = <<[log |-> None, vote |-> 0, committed |-> 0, purged |-> 0]>>
  /\ poisoned = FALSE /\ cache = None /\ core = Idle
  /\ caller = [c \in Others |-> "new"]
  /\ reader = [k \in {"apply", "repl"} |-> NoRead]
  /\ leader = FALSE /\ commit = 0 /\ applied = 0
  /\ flushed = None /\ gone = 0 /\ crashes = 0

Next ==
  \/ \E n \in 1 .. 2, t \in 1 .. MaxTerm : AppendBatch(n, t)
  \/ CacheAndBarrier
  \/ \E i \in 0 .. MaxIndex : TruncateAfter(i) \/ TruncateBefore(i)
  \/ ClearCache \/ SetLastPurged
  \/ \E t \in 1 .. MaxTerm : SaveVote(t)
  \/ SaveCommitted \/ BatchFails
  \/ \E c \in Others : OtherFlush(c) \/ OtherDropped(c)
  \/ Timer
  \/ \E d \in drains : Persisted(d) \/ PersistFails(d)
  \/ \E hi \in 1 .. MaxIndex : ApplyRead(hi)
  \/ ApplyScan \/ ApplyFill \/ Applied
  \/ \E lo \in 1 .. MaxIndex : ReplicationRead(lo)
  \/ ReplicationScan \/ Replicated
  \/ Elected
  \/ \E i \in 1 .. MaxIndex : Committed(i) \/ InstallSnapshot(i)
  \/ \E k \in DOMAIN journal : Crash(k)

Spec == Init /\ [][Next]_vars

-----------------------------------------------------------------------------
Entry == 1 .. MaxTerm
Entries == UNION {[D -> Entry] : D \in SUBSET (1 .. MaxIndex)}
Image == [log : Entries, vote : 0 .. MaxTerm, committed : 0 .. MaxIndex,
          purged : 0 .. MaxIndex]

(* Types of the store, the cache and the coalescer (FjallLogStore,           *)
(* FjallRaftLogStore, FsyncCoalescer State).                                 *)
TypeOK ==
  /\ journal \in Seq(Image) /\ journal # <<>>
  /\ cache \in Entries /\ Cardinality(DOMAIN cache) <= CacheCap
  /\ waiters \subseteq Others \cup {"core"} /\ timers \in Nat
  /\ drain_scheduled \in BOOLEAN /\ coalesced \in BOOLEAN /\ poisoned \in BOOLEAN
  /\ \A d \in drains : d.covers \in DOMAIN journal /\ d.for # {}
  /\ flushed \in Entries /\ gone \in 0 .. MaxIndex

(* append, "the callback fires when entries are durable": every entry        *)
(* reported as flushed, and neither truncated nor purged since, is in every  *)
(* image a power failure may leave, with or without group commit.            *)
FlushedSurvives ==
  \A k \in DOMAIN journal : \A i \in DOMAIN flushed :
    i \in Indexes(journal[k]) /\ journal[k].log[i] = flushed[i]

(* The hard state is never behind the log: in every image a power failure    *)
(* may leave, no entry is of a later term than the vote and the committed    *)
(* index read at the next start is not beyond the log and what was purged    *)
(* (set_meta and append share one journal).                                  *)
HardStateCoversLog ==
  \A k \in DOMAIN journal :
    /\ \A i \in Indexes(journal[k]) : journal[k].log[i] <= journal[k].vote
    /\ journal[k].committed <= Max({LastIndex(journal[k]), gone})

(* purge in two batches, with a crash between them: a log has no inner gap,  *)
(* nothing at or below last_purged, and above it only entries that a purge   *)
(* was called for are missing.                                               *)
OnlyPurgedMissing ==
  \A k \in DOMAIN journal :
    LET img == journal[k]  D == Indexes(img) IN
    D # {} =>
      /\ D = Min(D) .. Max(D)
      /\ Min(D) > img.purged
      /\ Min(D) - 1 <= Max({img.purged, gone})

(* The entry cache (#199) against a fill that was read before a truncate, a  *)
(* purge or an append: outside truncate_after itself a cached entry that was *)
(* not purged is the entry of the database.                                  *)
CacheIsLog ==
  core.pc # "clear" =>
    \A i \in DOMAIN cache :
      i > gone => i \in Indexes(DB) /\ cache[i] = DB.log[i]

(* What a reader is given (try_get_log_entries, limited_get_log_entries) is  *)
(* the log from the index it asked for, without a gap and never empty,       *)
(* whichever of the entries were cached, evicted or purged meanwhile; the    *)
(* state machine gets all it asked for.                                      *)
ReadsAreLog ==
  \A k \in {"apply", "repl"} :
    LET r == reader[k] IN
    r.pc = "done" =>
      /\ DOMAIN r.got # {}
      /\ DOMAIN r.got = r.lo .. Max(DOMAIN r.got)
      /\ k = "apply" => Max(DOMAIN r.got) = r.hi
      /\ \A i \in DOMAIN r.got : i \in Indexes(DB) /\ r.got[i] = DB.log[i]

(* flush, "if a fsync is already in flight or scheduled, they join the same   *)
(* waiter pool": whoever waits is in the pool while a timer that will drain   *)
(* it is pending, or in a sync in progress, in whatever order full pools and  *)
(* late timers of earlier pools drained it.                                   *)
NoWaiterForgotten ==
  LET waiting == {c \in Others : caller[c] = "waiting"}
                   \cup (IF core.pc = "barrier" THEN {"core"} ELSE {})
  IN
  \A c \in waiting :
    \/ c \in waiters /\ drain_scheduled /\ timers > 0
    \/ \E d \in drains : c \in d.for

-----------------------------------------------------------------------------
(* What makes these inductive. *)

Matches(f, i) == i \in Indexes(DB) /\ f[i] = DB.log[i]

\* The log of img goes without a gap from index p + 1 on.
FollowsOn(img, p) == \A i \in Indexes(img) : i > p /\ p + 1 .. i \subseteq Indexes(img)

\* An image a power failure may leave, when c is committed and a purge was
\* called for g.
ImageOK(img, c, g) ==
  LET D == Indexes(img) IN
  /\ \A i \in D : img.log[i] <= img.vote /\ i > img.purged
  /\ \A i, j \in D : i .. j \subseteq D
  /\ \A i \in D : \A j \in img.purged + 1 .. i : j \in D \/ j <= g
  /\ img.committed <= c
  /\ \/ img.committed <= g \/ img.committed <= img.purged
     \/ \E i \in D : img.committed <= i

ImagesOK == \A k \in DOMAIN journal : ImageOK(journal[k], commit, gone)

\* The storage call in progress and the image it left behind so far.
CoreOK ==
  /\ core.pc \in {"idle", "cache", "barrier", "clear", "install", "meta", "dead", "hole"}
  /\ commit \in 0 .. MaxIndex /\ applied \in 0 .. MaxIndex /\ leader \in BOOLEAN
  /\ Running => DB.purged <= applied
  /\ Running /\ core.pc # "meta" => FollowsOn(DB, DB.purged)
  /\ core.pc = "cache" => core.arg \in Entries /\ \A i \in DOMAIN core.arg : Matches(core.arg, i)
  /\ core.pc = "install" => /\ core.arg \in 0 .. applied /\ DB.purged < core.arg
                            /\ \A i \in Indexes(DB) : i < core.arg
  /\ core.pc = "meta" => /\ core.arg \in 0 .. applied /\ core.arg <= gone
                         /\ DB.purged < core.arg /\ FollowsOn(DB, core.arg)
  /\ core.pc = "clear" => ~leader

\* A cached entry is the one of the log unless the call in progress is about
\* to drop it, or died before it did.
CacheOK ==
  \A i \in DOMAIN cache :
    \/ Matches(cache, i)
    \/ core.pc = "meta" /\ i <= core.arg
    \/ core.pc = "clear" /\ i > commit
    \/ core.pc = "dead" /\ i <= gone

\* What a reader asked for stays in the log until it is done.
ReadersOK ==
  /\ reader \in [{"apply", "repl"} -> [pc : {"idle", "disk", "fill", "done"},
                   lo : 0 .. MaxIndex, hi : 0 .. MaxIndex, got : Entries]]
  /\ LET r == reader["apply"] IN
     /\ r.pc # "idle" => /\ r.lo = applied + 1 /\ r.lo <= r.hi /\ r.hi <= commit
                         /\ r.lo .. r.hi \subseteq Indexes(DB)
     /\ r.pc \in {"fill", "done"} => /\ DOMAIN r.got = r.lo .. r.hi
                                     /\ \A i \in r.lo .. r.hi : Matches(r.got, i)
  /\ LET r == reader["repl"] IN
     /\ r.pc # "idle" => leader /\ r.lo \in Indexes(DB) /\ r.lo <= r.hi
     /\ r.pc \in {"disk", "done", "idle"}
     /\ r.pc = "done" => /\ r.lo \in DOMAIN r.got
                         /\ \A i \in DOMAIN r.got : /\ Matches(r.got, i) /\ i >= r.lo
                                                    /\ r.lo .. i \subseteq DOMAIN r.got

\* The core waits in one place only, and a sync that answers it covers all
\* that was committed; without group commit nobody waits.
PoolOK ==
  /\ caller \in [Others -> {"new", "waiting", "done"}]
  /\ drains \subseteq [for : SUBSET (Others \cup {"core"}), covers : DOMAIN journal]
  /\ ~coalesced => Len(journal) = 1 /\ waiters = {} /\ drains = {} /\ core.pc # "barrier"
  /\ "core" \in waiters => core.pc = "barrier"
  /\ \A d \in drains : "core" \in d.for =>
       /\ core.pc = "barrier" /\ "core" \notin waiters /\ d.covers = Len(journal)
       /\ \A o \in drains : "core" \in o.for => o = d
  /\ waiters # {} => drain_scheduled
  /\ drain_scheduled => timers > 0

(* What every step of the log store keeps: the images, the storage call in   *)
(* progress, the cache, the readers and the pool of the coalescer agree.     *)
LogInv ==
  /\ TypeOK /\ FlushedSurvives /\ ImagesOK /\ CoreOK /\ CacheOK /\ ReadersOK
  /\ PoolOK /\ NoWaiterForgotten
=============================================================================
