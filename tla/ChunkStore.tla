----------------------------- MODULE ChunkStore -----------------------------
(***************************************************************************)
(* The chunk store of one node (kiseki-chunk, persistent_store.rs behind    *)
(* SyncBridge of async_ops.rs) on its data device (kiseki-block, file.rs).  *)
(*                                                                         *)
(* Three things that reach the disk separately describe a chunk: its bytes, *)
(* the allocation bitmap, which only a device sync writes, and its record   *)
(* in the metadata store.  Calls of the data path share the read side of    *)
(* the bridge's lock and interleave; the index mutex is not held over       *)
(* device I/O nor over the write of the record.  GC, retention holds and    *)
(* fragment deletion take the write side.                                   *)
(***************************************************************************)
EXTENDS BlockAllocator

CONSTANTS Threads,     \* concurrent callers
          Chunks,      \* whole-envelope chunks
          Fragments,   \* (chunk, fragment index) pairs
          Size,        \* payload of each chunk and fragment, in blocks
          Modes,       \* values of sync_per_write (FALSE: group commit)
          MaxOps, MaxFails, MaxCrashes

Keys == Chunks \cup Fragments
Nil  == "none"

ASSUME ChunkStoreAssumption ==
  /\ IsFiniteSet(Threads) /\ Chunks \cap Fragments = {}
  /\ Size \in [Keys -> Nat] /\ Modes \subseteq BOOLEAN
  /\ \A f \in Fragments : Size[f] \in 1..MaxExtent
  /\ MaxOps \in Nat /\ MaxFails \in Nat /\ MaxCrashes \in Nat

VARIABLES syncPerWrite,  \* sync_per_write, set once before the first call
          index,   \* chunks and fragments: the in-memory maps
          rows,    \* what the metadata store answers
          prows,   \* ... and what of it survives a failure of the process
          dev,     \* the allocator
          dbits,   \* the bitmap as last synced
          data,    \* whose bytes are in each block
          op,      \* the call each thread is in
          excl,    \* the call that holds the write side of the bridge
          refs,    \* references the callers hold on each chunk
          held,    \* chunks under a retention hold, as the callers know it
          leaked,  \* blocks nobody will free
          torn,    \* a reopen met records that the device contradicts
          stale,   \* an older record replaced a newer one, or one was lost
          ops, fails, crashes

vars == <<syncPerWrite, index, rows, prows, dev, dbits, data, op, excl, refs, held, leaked,
          torn, stale, ops, fails, crashes>>

media == <<dev, data>>
counters == <<fails, crashes>>

Idle == [pc |-> "idle"]
Free == [pc |-> "free", keys |-> {}, ext |-> {}]
Present(k) == k \in DOMAIN index

Begin(t) == /\ op[t] = Idle /\ excl = Free
            /\ ops < MaxOps /\ ops' = ops + 1

Step(t, r) == op' = [op EXCEPT ![t] = r]
Fail == fails < MaxFails /\ fails' = fails + 1

\* The record of a new chunk or fragment (the version is a history field).
Fresh(ext, ver) == [rc |-> 1, hold |-> FALSE, ext |-> ext, ver |-> ver]

\* A record with one reference more or less, to be written by its caller.
Counted(k, d) == [index[k] EXCEPT !.rc = @ + d, !.ver = @ + 1]

-----------------------------------------------------------------------------
\* write_chunk, try_increment_if_exists and increment_refcount on a known
\* chunk: bump under the mutex, write the record after it.  rc grows without
\* bound here; the overflow error of u64 is out of reach.
Bump(t, c) ==
  /\ Begin(t) /\ Present(c)
  /\ index' = [index EXCEPT ![c] = Counted(c, 1)]
  /\ Step(t, [pc |-> "put", key |-> c, rec |-> index'[c], gain |-> 1, sync |-> FALSE])
  /\ UNCHANGED <<rows, prows, media, dbits, excl, refs, held, leaked, torn, stale, counters>>

\* register_ec_chunk of an unknown chunk: a record without extents.
Register(t, c) ==
  /\ Begin(t) /\ ~Present(c)
  /\ index' = Bind(index, c, Fresh({}, 0))
  /\ Step(t, [pc |-> "reread", key |-> c])
  /\ UNCHANGED <<rows, prows, media, dbits, excl, refs, held, leaked, torn, stale, counters>>

\* ... which is read again, perhaps bumped by then, to be written.
Reread(t) ==
  /\ op[t].pc = "reread"
  /\ Step(t, [pc |-> "put", key |-> op[t].key, rec |-> index[op[t].key], gain |-> 1, sync |-> FALSE])
  /\ UNCHANGED <<index, rows, prows, media, dbits, excl, refs, held, leaked, torn, stale,
                 ops, counters>>

Mut_Decrement(t, c) ==
  /\ Begin(t) /\ Present(c) /\ refs[c] > 0
  /\ refs' = [refs EXCEPT ![c] = @ - 1]
  /\ index' = [index EXCEPT ![c] = Counted(c, -1)]
  /\ Step(t, [pc |-> "put", key |-> c, rec |-> index'[c], gain |-> 0, sync |-> FALSE])
  /\ UNCHANGED <<rows, prows, media, dbits, excl, held, leaked, torn, stale, counters>>

\* decrement_refcount by a caller that holds a reference.  At zero the call is
\* refused (RefcountUnderflow), which gives the reference up all the same.
Decrement(t, c) ==
  /\ Begin(t) /\ Present(c) /\ refs[c] > 0
  /\ refs' = [refs EXCEPT ![c] = @ - 1]
  /\ IF index[c].rc = 0 THEN UNCHANGED <<index, op>>
     ELSE /\ index' = [index EXCEPT ![c] = Counted(c, -1)]
          /\ Step(t, [pc |-> "put", key |-> c, rec |-> index'[c], gain |-> 0, sync |-> FALSE])
  /\ UNCHANGED <<rows, prows, media, dbits, excl, held, leaked, torn, stale, counters>>

\* write_chunk of an unknown chunk, or write_fragment: no lock is held while
\* the payload is written.
StartWrite(t, k) ==
  /\ Begin(t) /\ (k \in Chunks => ~Present(k))
  /\ Step(t, [pc |-> "alloc", key |-> k, ext |-> {}, todo |-> Size[k]])
  /\ UNCHANGED <<index, rows, prows, media, dbits, excl, refs, held, leaked, torn, stale, counters>>

\* Blocks of the next extent of a payload.
NextTake(o) == IF o.todo < MaxExtent THEN o.todo ELSE MaxExtent

\* alloc_and_write_chunked, one extent: allocate it and write its bytes.
WriteExtent(t) ==
  /\ op[t].pc = "alloc" /\ op[t].todo > 0
  /\ Fits(dev, NextTake(op[t])) # {}
  /\ LET r == alloc(dev, NextTake(op[t])) IN
       /\ dev' = r.after
       /\ data' = [b \in Blocks |-> IF b \in Span(r.extent) THEN op[t].key ELSE data[b]]
       /\ Step(t, [op[t] EXCEPT !.ext = @ \cup {r.extent}, !.todo = @ - r.extent.length])
  /\ UNCHANGED <<index, rows, prows, dbits, excl, refs, held, leaked, torn, stale, ops, counters>>

\* A call that gives up, with extents of its own to free first.
Undo(t, E) == Step(t, IF E = {} THEN Idle ELSE [pc |-> "undo", key |-> op[t].key, ext |-> E])

Mut_WriteRefused(t) ==
  /\ op[t].pc = "alloc" /\ op[t].todo > 0
  /\ Fits(dev, NextTake(op[t])) = {}
  /\ Step(t, Idle)
  /\ UNCHANGED <<index, rows, prows, media, dbits, excl, refs, held, leaked, torn, stale,
                 ops, counters>>

\* The device is full: what this call allocated is to be freed again.
WriteRefused(t) ==
  /\ op[t].pc = "alloc" /\ op[t].todo > 0
  /\ Fits(dev, NextTake(op[t])) = {}
  /\ Undo(t, op[t].ext)
  /\ UNCHANGED <<index, rows, prows, media, dbits, excl, refs, held, leaked, torn, stale,
                 ops, counters>>

\* The device reports an error for the bytes: a chunk is to free its extents, a
\* fragment leaves the one it just allocated behind.
WriteFails(t) ==
  /\ op[t].pc = "alloc" /\ op[t].todo > 0 /\ Fail
  /\ Fits(dev, NextTake(op[t])) # {}
  /\ LET r == alloc(dev, NextTake(op[t])) IN
       /\ dev' = r.after
       /\ IF op[t].key \in Chunks
          THEN Undo(t, op[t].ext \cup {r.extent}) /\ leaked' = leaked
          ELSE Step(t, Idle) /\ leaked' = leaked \cup Span(r.extent)
  /\ UNCHANGED <<index, rows, prows, dbits, data, excl, refs, held, torn, stale, ops, crashes>>

\* device.free of one of them: the allocator's mutex is taken for each.
FreeExtent(t) ==
  /\ op[t].pc = "undo"
  /\ \E e \in op[t].ext : dev' = free(dev, e) /\ Undo(t, op[t].ext \ {e})
  /\ UNCHANGED <<index, rows, prows, dbits, data, excl, refs, held, leaked, torn, stale,
                 ops, counters>>

-----------------------------------------------------------------------------
\* Mutant: the loser of the race frees the extents of the winner.
Mut_Recheck(t) ==
  /\ op[t].pc = "alloc" /\ op[t].todo = 0 /\ op[t].key \in Chunks
  /\ LET c == op[t].key IN
       IF Present(c)
       THEN /\ index' = [index EXCEPT ![c] = Counted(c, 1)]
            /\ leaked' = leaked \cup Spans(op[t].ext) /\ Undo(t, index[c].ext)
       ELSE /\ index' = Bind(index, c, Fresh(op[t].ext, 0)) /\ leaked' = leaked
            /\ Step(t, [pc |-> "put", key |-> c, rec |-> index'[c], gain |-> 1,
                        sync |-> syncPerWrite])
  /\ UNCHANGED <<rows, prows, media, dbits, excl, refs, held, torn, stale, ops, counters>>

\* write_chunk takes the mutex again.  Another writer may have won: its record
\* is bumped and this call's extents are left to a scrub.
Recheck(t) ==
  /\ op[t].pc = "alloc" /\ op[t].todo = 0 /\ op[t].key \in Chunks
  /\ LET c == op[t].key IN
       /\ IF Present(c)
          THEN index' = [index EXCEPT ![c] = Counted(c, 1)] /\ leaked' = leaked \cup Spans(op[t].ext)
          ELSE index' = Bind(index, c, Fresh(op[t].ext, 0)) /\ leaked' = leaked
       /\ Step(t, [pc |-> "put", key |-> c, rec |-> index'[c], gain |-> 1,
                   sync |-> syncPerWrite /\ ~Present(c)])
  /\ UNCHANGED <<rows, prows, media, dbits, excl, refs, held, torn, stale, ops, counters>>

\* The record of a fragment is written once its old extent is free.
Swapped(k, rec, old) ==
  IF old = {} THEN [pc |-> "put", key |-> k, rec |-> rec, gain |-> 0, sync |-> FALSE]
              ELSE [pc |-> "swap", key |-> k, rec |-> rec, old |-> old]

\* write_fragment_tier: the new extent replaces the old one in the map; the
\* old one is freed after the mutex, before the record is written.
SwapFragment(t) ==
  /\ op[t].pc = "alloc" /\ op[t].todo = 0 /\ op[t].key \in Fragments
  /\ LET k == op[t].key IN
       /\ index' = Bind(index, k, Fresh(op[t].ext, IF Present(k) THEN index[k].ver + 1 ELSE 0))
       /\ Step(t, Swapped(k, index'[k], IF Present(k) THEN index[k].ext ELSE {}))
  /\ UNCHANGED <<rows, prows, media, dbits, excl, refs, held, leaked, torn, stale, ops, counters>>

FreeOld(t) ==
  /\ op[t].pc = "swap"
  /\ \E e \in op[t].old :
       dev' = free(dev, e) /\ Step(t, Swapped(op[t].key, op[t].rec, op[t].old \ {e}))
  /\ UNCHANGED <<index, rows, prows, dbits, data, excl, refs, held, leaked, torn, stale,
                 ops, counters>>

-----------------------------------------------------------------------------
\* The caller of an operation that succeeded owns its reference.
Return(t, k, gain) ==
  /\ refs' = IF gain = 0 THEN refs ELSE [refs EXCEPT ![k] = @ + 1]
  /\ Step(t, Idle)

Store(r) == /\ rows' = r
            /\ prows' = IF syncPerWrite THEN r ELSE prows

\* meta.put_chunk / put_fragment, with no lock that orders two of them.
PutRecord(t) ==
  /\ op[t].pc = "put"
  /\ LET k == op[t].key IN
       /\ Store(Bind(rows, k, op[t].rec))
       /\ stale' = (stale \/ (k \in DOMAIN rows /\ rows[k].ver > op[t].rec.ver))
       /\ IF op[t].sync
          THEN Step(t, [pc |-> "sync", key |-> k, gain |-> op[t].gain]) /\ UNCHANGED refs
          ELSE Return(t, k, op[t].gain)
  /\ UNCHANGED <<index, media, dbits, excl, held, leaked, torn, ops, counters>>

\* The metadata store refuses: the memory has moved on, the caller sees an error.
PutFails(t) ==
  /\ op[t].pc = "put" /\ Fail
  /\ Step(t, Idle)
  /\ UNCHANGED <<index, rows, prows, media, dbits, excl, refs, held, leaked, torn, stale,
                 ops, crashes>>

Mut_SyncWrite(t) ==
  /\ op[t].pc = "sync"
  /\ Return(t, op[t].key, op[t].gain)
  /\ UNCHANGED <<index, rows, prows, media, dbits, excl, held, leaked, torn, stale, ops, counters>>

\* device.sync at the end of a write that created a chunk.
SyncWrite(t) ==
  /\ op[t].pc = "sync"
  /\ dbits' = dev.bitmap
  /\ Return(t, op[t].key, op[t].gain)
  /\ UNCHANGED <<index, rows, prows, media, excl, held, leaked, torn, stale, ops, counters>>

\* The flush task of the runtime syncs the device without the bridge's lock.
FlushTask ==
  /\ ~syncPerWrite /\ dbits # dev.bitmap
  /\ dbits' = dev.bitmap
  /\ UNCHANGED <<index, rows, prows, media, op, excl, refs, held, leaked, torn, stale,
                 ops, counters>>

\* Buffered records reach the disk when the metadata store writes its journal.
PersistRows ==
  /\ prows # rows
  /\ prows' = rows
  /\ UNCHANGED <<index, rows, media, dbits, op, excl, refs, held, leaked, torn, stale,
                 ops, counters>>

-----------------------------------------------------------------------------
\* Calls under the write side of the bridge: no thread is inside a call.
Exclusive == /\ excl = Free /\ \A t \in Threads : op[t] = Idle
             /\ ops < MaxOps /\ ops' = ops + 1

Garbage == {c \in Chunks : Present(c) /\ index[c].rc = 0 /\ ~index[c].hold}

\* The entries K leave the map; their extents are to be freed, then their rows
\* removed.  gc frees first, under the index mutex: no caller sees the order.
Discard(pc, K) ==
  /\ index' = [k \in DOMAIN index \ K |-> index[k]]
  /\ excl' = [pc |-> pc, keys |-> K, ext |-> UNION {index[k].ext : k \in K}]

\* Mutant: a retention hold does not keep a chunk.
Mut_Gc ==
  /\ Exclusive
  /\ LET garbage == {c \in Chunks : Present(c) /\ index[c].rc = 0} IN
       garbage # {} /\ Discard("gc", garbage)
  /\ UNCHANGED <<rows, prows, media, dbits, op, refs, held, leaked, torn, stale, counters>>

\* gc: free the extents and drop the entries, then remove the records, then
\* sync the device.
Gc ==
  /\ Exclusive /\ Garbage # {} /\ Discard("gc", Garbage)
  /\ UNCHANGED <<rows, prows, media, dbits, op, refs, held, leaked, torn, stale, counters>>

\* delete_fragment: the same without the sync.
DeleteFragment(k) ==
  /\ Exclusive /\ Present(k) /\ Discard("delete", {k})
  /\ UNCHANGED <<rows, prows, media, dbits, op, refs, held, leaked, torn, stale, counters>>

FreeDiscarded ==
  /\ \E e \in excl.ext : dev' = free(dev, e) /\ excl' = [excl EXCEPT !.ext = @ \ {e}]
  /\ UNCHANGED <<index, rows, prows, dbits, data, op, refs, held, leaked, torn, stale,
                 ops, counters>>

RemoveRow(k) ==
  /\ k \in excl.keys /\ excl.ext = {}
  /\ Store(Without(rows, k))
  /\ excl' = IF excl.pc = "delete" THEN Free ELSE [excl EXCEPT !.keys = @ \ {k}]
  /\ UNCHANGED <<index, media, dbits, op, refs, held, leaked, torn, stale, ops, counters>>

GcSync ==
  /\ excl.pc = "gc" /\ excl.keys = {}
  /\ dbits' = dev.bitmap
  /\ excl' = Free
  /\ UNCHANGED <<index, rows, prows, media, op, refs, held, leaked, torn, stale, ops, counters>>

\* set_retention_hold and release_retention_hold.
SetHold(c, on) ==
  /\ Exclusive /\ Present(c)
  /\ index' = [index EXCEPT ![c] = [index[c] EXCEPT !.hold = on, !.ver = @ + 1]]
  /\ Store(Bind(rows, c, index'[c]))
  /\ held' = IF on THEN held \cup {c} ELSE held \ {c}
  /\ UNCHANGED <<media, dbits, op, excl, refs, leaked, torn, stale, counters>>

-----------------------------------------------------------------------------
RowBlocks(r) == UNION {Spans(r[k].ext) : k \in DOMAIN r}

\* The records of a table describe allocated blocks, their own bytes, and no
\* block twice.
Consistent(r, bits) ==
  /\ RowBlocks(r) \subseteq bits
  /\ \A k \in DOMAIN r : \A b \in Spans(r[k].ext) : data[b] = k

\* The process fails.  FileBackedDevice::open takes the primary bitmap and
\* rebuilds the free list; PersistentChunkStore::open fills the maps from the
\* metadata store.  Neither looks at the other.
Crash ==
  /\ crashes < MaxCrashes /\ crashes' = crashes + 1
  /\ index' = prows /\ rows' = prows
  /\ dev' = from_bitmap(dbits)
  /\ op' = [t \in Threads |-> Idle] /\ excl' = Free
  /\ torn' = (torn \/ ~Consistent(prows, dbits))
  /\ stale' = (stale \/ prows # rows)
  /\ leaked' = dbits \ RowBlocks(prows)
  /\ UNCHANGED <<prows, dbits, data, refs, held, ops, fails>>

Init ==
  /\ syncPerWrite \in Modes
  /\ index = <<>> /\ rows = <<>> /\ prows = <<>>
  /\ dev = from_bitmap({}) /\ dbits = {}
  /\ data = [b \in Blocks |-> Nil]
  /\ op = [t \in Threads |-> Idle] /\ excl = Free
  /\ refs = [c \in Chunks |-> 0] /\ held = {}
  /\ leaked = {} /\ torn = FALSE /\ stale = FALSE
  /\ ops = 0 /\ fails = 0 /\ crashes = 0

ThreadStep(t) ==
  \/ \E c \in Chunks : Bump(t, c) \/ Register(t, c) \/ Decrement(t, c)
  \/ Reread(t)
  \/ \E k \in Keys : StartWrite(t, k)
  \/ WriteExtent(t) \/ WriteRefused(t) \/ WriteFails(t) \/ FreeExtent(t)
  \/ Recheck(t) \/ SwapFragment(t) \/ FreeOld(t)
  \/ PutRecord(t) \/ PutFails(t) \/ SyncWrite(t)

Next ==
  /\ \/ \E t \in Threads : ThreadStep(t)
     \/ FlushTask \/ PersistRows
     \/ Gc \/ FreeDiscarded \/ GcSync
     \/ \E f \in Fragments : DeleteFragment(f)
     \/ \E k \in Keys : RemoveRow(k)
     \/ \E c \in Chunks, on \in BOOLEAN : SetHold(c, on)
     \/ Crash
  /\ UNCHANGED syncPerWrite

Spec == Init /\ [][Next]_vars

-----------------------------------------------------------------------------
Records == [rc : Nat, hold : BOOLEAN, ext : SUBSET Extents, ver : Nat]
IsTable(f) == DOMAIN f \subseteq Keys /\ \A k \in DOMAIN f : f[k] \in Records

\* Types: the index, the records and the allocator keep their shape, and the
\* callers' references never go below zero.
TypeOK ==
  /\ IsTable(index) /\ IsTable(rows) /\ IsTable(prows)
  /\ dev.bitmap \subseteq Blocks /\ dbits \subseteq Blocks
  /\ DOMAIN dev.free_list \subseteq Blocks
  /\ \A s \in DOMAIN dev.free_list : dev.free_list[s] \in 1..Total
  /\ data \in [Blocks -> Keys \cup {Nil}]
  /\ refs \in [Chunks -> Nat] /\ held \subseteq Chunks /\ leaked \subseteq Blocks
  /\ excl.keys \subseteq Keys

\* A chunk on which a caller holds a reference, or has placed a hold, is in
\* the index with at least that many references, whatever writers, deleters,
\* GC and crashes do; unless a record overtook a newer one of its chunk.
Protected ==
  stale \/ \A c \in Chunks :
             /\ refs[c] > 0 => Present(c) /\ index[c].rc >= refs[c]
             /\ c \in held => Present(c) /\ index[c].hold

\* Every indexed chunk or fragment reads back its own bytes, from blocks that
\* are allocated and that no other record uses (read_chunk, read_fragment),
\* once the process has started from records that the device agrees with.
ReadBack == torn \/ stale \/ Consistent(index, dev.bitmap)

\* With inline sync, a chunk that no call is working on is on the disk as it
\* is in memory: its record, the bits of its blocks and its bytes.
QuiescentDurable ==
  syncPerWrite /\ ~torn /\ ~stale /\ fails = 0 =>
    \A c \in DOMAIN index \cap Chunks :
      (\A t \in Threads : op[t] = Idle \/ op[t].key # c) =>
        /\ c \in DOMAIN prows /\ prows[c] = index[c]
        /\ Spans(index[c].ext) \subseteq dbits

\* The extents that a call has allocated, or is freeing.
ExtOf(o) == CASE o.pc \in {"alloc", "undo"} -> o.ext
              [] o.pc = "swap" -> o.old
              [] OTHER -> {}
CallExt(t) == ExtOf(op[t])
InFlight == Spans(excl.ext) \cup UNION {Spans(CallExt(t)) : t \in Threads}

\* The device loses no space silently: an allocated block belongs to a record,
\* to a call in progress, or to a known leak (a lost dedup race, a fragment
\* whose write failed, a call cut short by a crash).
SpaceAccounted ==
  torn \/ stale \/ dev.bitmap = RowBlocks(index) \cup InFlight \cup leaked

\* The free list stays what rebuild_free_list would compute from the bitmap:
\* frees are coalesced on both sides and no block is freed twice.
FreeListExact ==
  torn \/ stale \/ dev.free_list = rebuild_free_list(dev.bitmap)

-----------------------------------------------------------------------------
(* What makes Protected inductive. *)

IsRecord(r) == /\ r = [rc |-> r.rc, hold |-> r.hold, ext |-> r.ext, ver |-> r.ver]
               /\ r.rc \in Nat /\ r.ver \in Nat
TableOK(f) == DOMAIN f \subseteq Keys /\ \A k \in DOMAIN f : IsRecord(f[k])

\* A call between its change of the index and its answer.
Touches(t, c) == op[t].pc \in {"reread", "put", "sync"} /\ op[t].key = c
Putting(t, c) == op[t].pc = "put" /\ op[t].key = c

\* Calls that will give their caller a reference when they return, and those
\* of them whose reference a record of version v counts.
Gainers(c) == {t \in Threads : Touches(t, c) /\ (op[t].pc = "put" => op[t].gain = 1)}
GainersUpTo(c, v) ==
  {t \in Gainers(c) : op[t].pc = "sync" \/ (op[t].pc = "put" /\ op[t].rec.ver <= v)}

\* Record r has a reference for every owner and for every call it counts.
Backs(r, c) == r.rc >= refs[c] + Cardinality(GainersUpTo(c, r.ver))
Older(r, c) == r.ver <= index[c].ver /\ (r.ver = index[c].ver => r = index[c])

CallOK(o) ==
  /\ o.pc \in {"idle", "reread", "alloc", "undo", "swap", "put", "sync"}
  /\ o.pc = "idle" => o = Idle
  /\ o.pc = "alloc" => /\ o = [pc |-> "alloc", key |-> o.key, ext |-> o.ext, todo |-> o.todo]
                       /\ o.key \in Keys
  /\ o.pc = "swap" => o.key \in Fragments /\ IsRecord(o.rec)
  /\ o.pc = "put" => /\ o.key \in Keys /\ IsRecord(o.rec) /\ o.gain \in {0, 1} /\ o.sync \in BOOLEAN
                     /\ o.key \in Fragments => o.gain = 0
                     /\ o.sync => o.gain = 1
  /\ o.pc = "sync" => o.key \in Chunks /\ o.gain = 1
  /\ o.pc = "reread" => o.key \in Chunks

ExclOK(x) ==
  /\ x = [pc |-> x.pc, keys |-> x.keys, ext |-> x.ext]
  /\ x.pc \in {"free", "gc", "delete"} /\ x.keys \subseteq Keys
  /\ x.pc = "free" => x = Free
  /\ x.pc = "delete" => x.keys \subseteq Fragments

\* The shape of the state, without the allocator.
ShapeOK ==
  /\ TableOK(index) /\ TableOK(rows) /\ TableOK(prows)
  /\ DOMAIN op = Threads /\ \A t \in Threads : CallOK(op[t])
  /\ ExclOK(excl)
  /\ excl # Free => \A t \in Threads : op[t] = Idle
  /\ refs \in [Chunks -> Nat] /\ held \subseteq Chunks

\* Calls in progress work on indexed chunks, and no record is newer than the
\* indexed one; only rows an exclusive call is removing have no entry.
Tidy(c) ==
  /\ \A t \in Threads : Touches(t, c) => Present(c)
  /\ \A t \in Threads : Putting(t, c) => Older(op[t].rec, c)
  /\ c \in DOMAIN rows => c \in excl.keys \/ (Present(c) /\ Older(rows[c], c))
  /\ c \in excl.keys => ~Present(c)

\* The index, the row, and every record on its way that no newer one has
\* overtaken have the references and the hold that callers were told of.
Covered(c) ==
  /\ Present(c) => index[c].rc >= refs[c] + Cardinality(Gainers(c))
  /\ \A t \in Threads : Putting(t, c) /\ (c \in DOMAIN rows => rows[c].ver <= op[t].rec.ver) =>
       Backs(op[t].rec, c)
  /\ c \in DOMAIN rows => Backs(rows[c], c)
  /\ c \notin DOMAIN rows => \A t \in Threads : ~(op[t].pc = "sync" /\ op[t].key = c)
  /\ refs[c] > 0 => Present(c) /\ c \in DOMAIN rows
  /\ c \in held => /\ Present(c) /\ index[c].hold /\ c \in DOMAIN rows /\ rows[c].hold
                   /\ \A t \in Threads : Putting(t, c) => op[t].rec.hold

(* What every call, GC, failure and crash keeps, in whatever order the records  *)
(* of concurrent calls are written (write_chunk, increment_refcount,           *)
(* decrement_refcount, set_retention_hold, gc, open).                          *)
ProtectInv ==
  /\ ShapeOK
  /\ \A c \in Chunks : Tidy(c) /\ (stale \/ Covered(c))

-----------------------------------------------------------------------------
(* What makes the properties of the device and of the disk inductive. *)

\* Types of a call and of the allocator; a fragment is written as one extent.
CallType(o) ==
  /\ ExtOf(o) \subseteq Extents
  /\ o.pc \in {"swap", "put"} => o.rec \in Records
  /\ o.pc = "alloc" => /\ o.todo \in Nat
                       /\ o.key \in Fragments /\ o.todo > 0 => o.todo = Size[o.key] /\ o.ext = {}
DeviceOK(d) ==
  /\ d = [bitmap |-> d.bitmap, free_list |-> d.free_list]
  /\ d.free_list = [s \in DOMAIN d.free_list |-> d.free_list[s]]
  /\ \A s \in DOMAIN d.free_list : s + d.free_list[s] <= Total

\* An exclusive call removes rows only when it has freed its extents.
CallsOK ==
  /\ \A t \in Threads : CallType(op[t])
  /\ DeviceOK(dev)
  /\ excl.ext \subseteq Extents /\ (excl.keys = {} => excl.ext = {})

KeyBlocks(k) == IF Present(k) THEN Spans(index[k].ext) ELSE {}
CallBlocks(t) == Spans(CallExt(t))

\* No block belongs to two records, to two calls or to a record and a call.
OneOwner ==
  /\ \A k, l \in Keys : k # l => KeyBlocks(k) \cap KeyBlocks(l) = {}
  /\ \A t, u \in Threads : t # u => CallBlocks(t) \cap CallBlocks(u) = {}
  /\ \A k \in Keys, t \in Threads : KeyBlocks(k) \cap CallBlocks(t) = {}
  /\ \A k \in Keys : KeyBlocks(k) \cap (leaked \cup Spans(excl.ext)) = {}
  /\ \A t \in Threads : CallBlocks(t) \cap (leaked \cup Spans(excl.ext)) = {}
  /\ leaked \cap Spans(excl.ext) = {}

\* The extents of a set are apart, so that freeing one leaves the others.
Apart(E) == \A e, f \in E : e # f => Span(e) \cap Span(f) = {}
AllApart ==
  /\ \A r \in {index, rows, prows} : \A k \in DOMAIN r : Apart(r[k].ext)
  /\ \A t \in Threads : Apart(CallExt(t)) /\ (op[t].pc \in {"swap", "put"} => Apart(op[t].rec.ext))
  /\ Apart(excl.ext)

\* Bytes are written where, and only where, their owner has allocated.
BytesOK ==
  /\ \A k \in DOMAIN index : \A b \in KeyBlocks(k) : data[b] = k
  /\ \A t \in Threads : op[t].pc = "alloc" => \A b \in CallBlocks(t) : data[b] = op[t].key

DeviceInv == torn \/ stale \/ (FreeListExact /\ SpaceAccounted /\ OneOwner /\ AllApart /\ BytesOK)

\* With inline sync and no failure, what the disk does not yet know of a chunk
\* is on its way: a record like the indexed one, or the sync of its creator.
Pending(t, c) == Touches(t, c) /\ op[t].pc # "sync" /\ (op[t].pc = "put" => op[t].rec = index[c])
Creating(t, c) == Touches(t, c) /\ op[t].pc # "reread" /\ (op[t].pc = "put" => op[t].sync)
Durable(c) ==
  /\ (c \in DOMAIN rows /\ rows[c] = index[c]) \/ \E t \in Threads : Pending(t, c)
  /\ Spans(index[c].ext) \subseteq dbits \/ \E t \in Threads : Creating(t, c)
DurableInv ==
  syncPerWrite =>
    /\ prows = rows
    /\ ~torn /\ ~stale /\ fails = 0 => \A c \in DOMAIN index \cap Chunks : Durable(c)

(* The whole of it: records, calls, bitmap, free list and disk agree after     *)
(* every step of every caller, of GC and of the flush task, and after a crash. *)
ChunkInv == TypeOK /\ CallsOK /\ ProtectInv /\ DeviceInv /\ DurableInv
=============================================================================
