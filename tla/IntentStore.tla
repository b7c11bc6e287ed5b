----------------------------- MODULE IntentStore -----------------------------
(***************************************************************************)
(* The durable intent store of one shard on one node (kiseki-log,          *)
(* intent.rs, FjallIntentStore): the store that LeaderSink abstracts to a   *)
(* set of pending sequences.                                               *)
(*                                                                         *)
(* Rows are never deleted one by one.  They are written into the active     *)
(* epoch keyspace; retiring an intent only moves a watermark below which a  *)
(* reopen ignores rows; a sealed epoch is dropped as a whole once its live  *)
(* counter is zero.  A memory mirror serves every read and is rebuilt from  *)
(* the rows by a reopen.                                                    *)
(*                                                                         *)
(* The mutex `mutations' is held from a commit to the end of its trailing   *)
(* rotation or reclamation: `pc' is where the holder is.  A process crash   *)
(* may fall between any two durable writes.  fjall is external: a batch is  *)
(* atomic, and one that fails writes nothing.  Sequence keys are ordered    *)
(* like the naturals; the watermark "max key plus one byte" is max + 1.     *)
(***************************************************************************)
EXTENDS Integers, Sequences, FiniteSets

CONSTANTS Seqs,       \* perspective sequences
          Keys,       \* idempotency keys
          NoKey,      \* an intent without a key
          IdemKey,    \* key of each sequence
          Rotate,     \* rotate_threshold
          GroupCap,   \* records one commit may carry
          Failures,   \* whether fjall calls may fail
          MaxEpoch,   \* bound on epochs
          MaxPuts,    \* bound on committed groups
          MaxCrashes  \* bound on crashes

ASSUME SeqsAssumption   == IsFiniteSet(Seqs) /\ Seqs \subseteq Nat \ {0}
ASSUME KeyAssumption    == NoKey \notin Keys /\ IdemKey \in [Seqs -> Keys \cup {NoKey}]
ASSUME LimitsAssumption == /\ Rotate \in Nat \ {0} /\ GroupCap \in Nat \ {0}
                           /\ Failures \in BOOLEAN /\ MaxEpoch \in Nat
                           /\ MaxPuts \in Nat /\ MaxCrashes \in Nat

Epochs == 0..MaxEpoch
None   == -1

VARIABLES
  \* --- durable -------------------------------------------------------------
  rows,     \* epoch -> the sequences its keyspace holds
  elist,    \* the epoch list of the meta keyspace
  dwm,      \* the incorporated watermark of the meta keyspace, 0 = unset
  \* --- memory (EpochSet, PendingIndex) ------------------------------------
  up,       \* whether the store is open, or opening
  opening,  \* whether open_with_rotate still has to reclaim
  mirror,   \* by_seq: sequence -> the epoch it lives in, or None
  byIdem,   \* by_idem: key -> sequence, or None
  activeNo, activeInserts, sealed, live, wm,
  pc,       \* "idle", "rotate", "drop", "list"
  dead,     \* epochs the running reclamation still has to delete
  \* --- history ---------------------------------------------------------------
  owed,     \* sequences recorded and not retired since
  gone,     \* sequences retired at least once
  puts, crashes

durable == <<rows, elist, dwm>>
index   == <<mirror, byIdem>>
epochs  == <<activeNo, activeInserts, sealed, live, wm>>
vars    == <<durable, up, opening, index, epochs, pc, dead, owed, gone, puts, crashes>>

MaxOf(S) == CHOOSE x \in S : \A y \in S : y <= x
MinOf(S) == CHOOSE x \in S : \A y \in S : x <= y

Pending == {s \in Seqs : mirror[s] # None}

-----------------------------------------------------------------------------
(* commit_groups_locked: one group g of records, in submission order.       *)

\* Record k is written: its sequence is not in the committed mirror, and its
\* key is neither pending nor claimed by an earlier record of the group.
Recorded(g, k) ==
  /\ mirror[g[k]] = None
  /\ \/ IdemKey[g[k]] = NoKey
     \/ /\ byIdem[IdemKey[g[k]]] = None
        /\ \A j \in 1..(k - 1) : mirror[g[j]] = None => IdemKey[g[j]] # IdemKey[g[k]]

\* The durable watermark a batch carries: lowered when a record is below it.
Mut_LoweredWm(new) == wm
LoweredWm(new) == IF wm # 0 /\ MinOf(new) < wm THEN MinOf(new) ELSE wm

Commit(g) ==
  /\ up /\ pc = "idle" /\ puts < MaxPuts
  /\ LET recs == {k \in DOMAIN g : Recorded(g, k)}
         new  == {g[k] : k \in recs}
         n    == Cardinality(recs)
     IN /\ new # {}
        /\ rows'   = [rows EXCEPT ![activeNo] = @ \cup new]
        /\ dwm'    = IF LoweredWm(new) # wm THEN LoweredWm(new) ELSE dwm
        /\ wm'     = LoweredWm(new)
        /\ mirror' = [s \in Seqs |-> IF s \in new THEN activeNo ELSE mirror[s]]
        /\ byIdem' = [x \in Keys |-> IF \E s \in new : IdemKey[s] = x
                                     THEN CHOOSE s \in new : IdemKey[s] = x
                                     ELSE byIdem[x]]
        /\ live'   = [live EXCEPT ![activeNo] = @ + n]
        /\ activeInserts' = activeInserts + n
        /\ owed' = owed \cup new
  /\ pc'   = IF activeInserts' >= Rotate THEN "rotate" ELSE "idle"
  /\ puts' = puts + 1
  /\ UNCHANGED <<elist, up, opening, activeNo, sealed, dead, gone, crashes>>

Mut_RotateEpoch ==
  /\ up /\ pc = "rotate" /\ activeNo < MaxEpoch
  /\ elist' = sealed \cup {activeNo, activeNo + activeInserts}
  /\ sealed' = sealed \cup {activeNo}
  /\ activeNo' = activeNo + activeInserts /\ activeInserts' = 0
  /\ pc' = "idle"
  /\ UNCHANGED <<rows, dwm, up, opening, index, live, wm, dead, owed, gone, puts, crashes>>

\* maybe_rotate_epoch: the new list is durable before the swap.
RotateEpoch ==
  /\ up /\ pc = "rotate" /\ activeNo < MaxEpoch
  /\ elist' = sealed \cup {activeNo, activeNo + 1}
  /\ sealed' = sealed \cup {activeNo}
  /\ activeNo' = activeNo + 1 /\ activeInserts' = 0
  /\ pc' = "idle"
  /\ UNCHANGED <<rows, dwm, up, opening, index, live, wm, dead, owed, gone, puts, crashes>>

\* A failed rotation does not fail the acknowledgement; the next commit retries.
RotateFails ==
  /\ up /\ pc = "rotate" /\ (Failures \/ activeNo = MaxEpoch)
  /\ pc' = "idle"
  /\ UNCHANGED <<durable, up, opening, index, epochs, dead, owed, gone, puts, crashes>>

-----------------------------------------------------------------------------
(* retire_locked, behind prune, remove_seq and remove_seqs.                 *)

\* Keys whose pointer is released: the mirror still maps them to a retired one.
Released(S) == {x \in Keys : byIdem[x] \in S}

\* Everything below the lowest survivor is incorporated; with no survivor,
\* everything up to the highest retired sequence.  Never lowered here.
RetiredWm(S) ==
  LET left == Pending \ S
      w    == IF left = {} THEN MaxOf(S) + 1 ELSE MinOf(left)
  IN IF wm # 0 /\ wm >= w THEN wm ELSE w

Mut_RemovedIn(S, e) == Cardinality(S)
RemovedIn(S, e) == Cardinality({s \in S : mirror[s] = e})

Dead(s, l) == {e \in s : l[e] = 0}

\* gc_epochs_locked, its memory half: dead epochs leave the sealed set.
BeginGc(s, l) ==
  /\ sealed' = s \ Dead(s, l)
  /\ dead'   = Dead(s, l)
  /\ live'   = l
  /\ pc'     = IF Dead(s, l) = {} THEN "idle" ELSE "drop"

Unindexed(S) ==
  /\ mirror' = [s \in Seqs |-> IF s \in S THEN None ELSE mirror[s]]
  /\ byIdem' = [x \in Keys |-> IF x \in Released(S) THEN None ELSE byIdem[x]]

Retire(S) ==
  /\ up /\ pc = "idle" /\ S # {} /\ S \subseteq Pending
  /\ Unindexed(S)
  /\ wm'  = RetiredWm(S)
  /\ dwm' = RetiredWm(S)
  /\ BeginGc(sealed, [e \in Epochs |->
       IF live[e] >= RemovedIn(S, e) THEN live[e] - RemovedIn(S, e) ELSE 0])
  /\ owed' = owed \ S /\ gone' = gone \cup S
  /\ UNCHANGED <<rows, elist, up, opening, activeNo, activeInserts, puts, crashes>>

\* The mirror is changed before a commit that may fail: nothing else is.
RetireFails(S) ==
  /\ Failures /\ up /\ pc = "idle" /\ S # {} /\ S \subseteq Pending
  /\ Unindexed(S)
  /\ owed' = owed \ S /\ gone' = gone \cup S
  /\ UNCHANGED <<durable, up, opening, epochs, pc, dead, puts, crashes>>

\* gc_epochs_locked, its durable half: delete each keyspace, then the list.
DropEpoch ==
  /\ up /\ pc = "drop"
  /\ rows' = [rows EXCEPT ![MinOf(dead)] = {}]
  /\ dead' = dead \ {MinOf(dead)}
  /\ pc'   = IF dead' = {} THEN "list" ELSE "drop"
  /\ UNCHANGED <<elist, dwm, up, opening, index, epochs, owed, gone, puts, crashes>>

WriteList ==
  /\ up /\ pc = "list"
  /\ elist' = sealed \cup {activeNo}
  /\ pc' = "idle" /\ opening' = FALSE
  /\ UNCHANGED <<rows, dwm, up, index, epochs, dead, owed, gone, puts, crashes>>

\* An error leaves keyspaces that the next list no longer names.
GcFails ==
  /\ Failures /\ up /\ ~opening /\ pc \in {"drop", "list"}
  /\ pc' = "idle" /\ dead' = {}
  /\ UNCHANGED <<durable, up, opening, index, epochs, owed, gone, puts, crashes>>

-----------------------------------------------------------------------------
MemoryLost ==
  /\ up' = FALSE /\ opening' = FALSE
  /\ mirror' = [s \in Seqs |-> None] /\ byIdem' = [x \in Keys |-> None]
  /\ activeNo' = 0 /\ activeInserts' = 0 /\ sealed' = {} /\ wm' = 0
  /\ live' = [e \in Epochs |-> 0]
  /\ pc' = "idle" /\ dead' = {}
  /\ UNCHANGED <<durable, owed, gone, puts>>

Crash ==
  /\ up /\ crashes < MaxCrashes
  /\ crashes' = crashes + 1
  /\ MemoryLost

\* Reclamation fails during the open: the open fails.
OpenFails ==
  /\ Failures /\ opening
  /\ MemoryLost /\ UNCHANGED crashes

\* What a reopen keeps: the rows of listed epochs not below the watermark.
KeptIn(e) == {s \in rows[e] : s >= dwm}
Rebuilt   == UNION {KeptIn(e) : e \in elist}

\* open_with_rotate: epochs in list order, rows in key order, the last one
\* with a given key wins; then reclamation.
Reopen ==
  /\ ~up /\ up' = TRUE
  /\ LET HolderOf(s) == MaxOf({e \in elist : s \in KeptIn(e)})
         Of(x) == {s \in Rebuilt : IdemKey[s] = x}
         Last(x) == LET e == MaxOf({f \in elist : KeptIn(f) \cap Of(x) # {}})
                    IN MaxOf(KeptIn(e) \cap Of(x))
     IN /\ mirror' = [s \in Seqs |-> IF s \in Rebuilt THEN HolderOf(s) ELSE None]
        /\ byIdem' = [x \in Keys |-> IF Of(x) # {} THEN Last(x) ELSE None]
  /\ activeNo' = MaxOf(elist)
  /\ activeInserts' = Cardinality(rows[MaxOf(elist)])
  /\ wm' = dwm
  /\ BeginGc(elist \ {MaxOf(elist)},
             [e \in Epochs |-> IF e \in elist THEN Cardinality(KeptIn(e)) ELSE 0])
  /\ opening' = (dead' # {})
  /\ UNCHANGED <<durable, owed, gone, puts, crashes>>

-----------------------------------------------------------------------------
Init ==
  /\ rows = [e \in Epochs |-> {}] /\ elist = {0} /\ dwm = 0
  /\ up = TRUE /\ opening = FALSE /\ mirror = [s \in Seqs |-> None] /\ byIdem = [x \in Keys |-> None]
  /\ activeNo = 0 /\ activeInserts = 0 /\ sealed = {} /\ wm = 0
  /\ live = [e \in Epochs |-> 0]
  /\ pc = "idle" /\ dead = {} /\ owed = {} /\ gone = {} /\ puts = 0 /\ crashes = 0

Groups == UNION {[1..k -> Seqs] : k \in 1..GroupCap}

Next == \/ \E g \in Groups : Commit(g)
        \/ \E S \in SUBSET Seqs : Retire(S) \/ RetireFails(S)
        \/ RotateEpoch \/ RotateFails
        \/ DropEpoch \/ WriteList \/ GcFails
        \/ Crash \/ Reopen \/ OpenFails

Spec == Init /\ [][Next]_vars

-----------------------------------------------------------------------------
(* Type invariant. *)
TypeOK ==
  /\ rows \in [Epochs -> SUBSET Seqs] /\ elist \subseteq Epochs /\ dwm \in Nat
  /\ up \in BOOLEAN /\ opening \in BOOLEAN /\ mirror \in [Seqs -> Epochs \cup {None}]
  /\ byIdem \in [Keys -> Seqs \cup {None}]
  /\ activeNo \in Epochs /\ activeInserts \in Nat /\ sealed \subseteq Epochs
  /\ live \in [Epochs -> Nat] /\ wm \in Nat
  /\ pc \in {"idle", "rotate", "drop", "list"} /\ dead \subseteq Epochs
  /\ owed \subseteq Seqs /\ gone \subseteq Seqs /\ puts \in Nat /\ crashes \in Nat

(* The live counter of an epoch never falls below the pending intents it      *)
(* holds, so whole-epoch reclamation never drops one (gc_epochs_locked).      *)
LiveCoversPending ==
  up => \A e \in Epochs : live[e] >= Cardinality({s \in Seqs : mirror[s] = e})

(* What makes the refinement inductive.  Where the store is open: every        *)
(* pending intent has its row in a listed epoch that no reclamation will        *)
(* delete, at or above the watermark, which is the durable one; epochs being    *)
(* deleted are neither sealed nor active; the active epoch is the youngest.     *)
LiveEpochs == sealed \cup {activeNo}

PendingStored == \A s \in Pending : s \in rows[mirror[s]] /\ mirror[s] \in LiveEpochs /\ s >= wm

ReclaimSafe == /\ LiveEpochs \subseteq elist /\ dead \cap LiveEpochs = {} /\ wm = dwm
               /\ \A e \in sealed : e < activeNo

\* The intents the store answers for: while it is down, what a reopen finds.
View == IF up THEN Pending ELSE Rebuilt

(* Open or down, across every crash, failed rotation, failed reclamation and    *)
(* reopen: an intent that was recorded and not retired since is in the store,   *)
(* and a row that is not pending is one that was retired (commit_groups_locked, *)
(* retire_locked, gc_epochs_locked, open_with_rotate).                          *)
StoreInv ==
  /\ TypeOK /\ LiveCoversPending /\ elist # {} /\ (pc = "drop" <=> dead # {})
  /\ up => PendingStored /\ ReclaimSafe
  /\ owed \subseteq View
  /\ \A e \in Epochs : rows[e] \subseteq View \cup gone

(* The store implements PendingStore, the view LeaderSink has of it: whatever  *)
(* order sequences arrive and retire in, and wherever a crash or an error      *)
(* falls between commit, rotation, watermark, keyspace deletion and list, no   *)
(* recorded and unretired intent is lost ("acked-write loss", adversary        *)
(* finding 1), and a reopen brings back retired intents only.  While down the  *)
(* pending set is what a reopen would rebuild.                                 *)
Abstract == INSTANCE PendingStore WITH pend <- View, owed <- owed, gone <- gone

ImplementsPendingStore == Abstract!Spec
=============================================================================
