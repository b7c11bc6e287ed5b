--------------------------- MODULE FsyncCoalescer ---------------------------
(***************************************************************************)
(* The group-commit coordinator of a Raft log database (kiseki-raft,        *)
(* fsync_coalescer.rs): callers of flush() join a pool, and one physical    *)
(* sync answers the whole pool, when a window timer fires or when the pool  *)
(* is full.  RaftLogStore says what a sync makes durable.                   *)
(***************************************************************************)
EXTENDS Naturals, FiniteSets

CONSTANT MaxBatch   \* max_batch

ASSUME MaxBatchAssumption == MaxBatch \in Nat \ {0}

VARIABLES waiters,         \* State.waiters: the callers in the pool
          drain_scheduled, \* State.drain_scheduled
          timers,          \* window timers not fired yet
          drains           \* syncs in progress: who waits, how many commits are covered

coalescer == <<waiters, drain_scheduled, timers, drains>>

InitCoalescer ==
  /\ waiters = {} /\ drain_scheduled = FALSE /\ timers = 0 /\ drains = {}

\* What a restarted process begins with.
ResetCoalescer ==
  /\ waiters' = {} /\ drain_scheduled' = FALSE /\ timers' = 0 /\ drains' = {}

\* do_persist_and_notify begins: its sync covers the commits made so far.
StartDrain(pool, commits) == drains \cup {[for |-> pool, covers |-> commits]}

\* flush: join the pool; a full pool is drained by the caller, and the first
\* of a pool starts the timer.  A timer whose pool was drained still fires.
Join(c, commits) ==
  LET pool == waiters \cup {c} IN
  \/ /\ Cardinality(pool) >= MaxBatch
     /\ waiters' = {}
     /\ drain_scheduled' = FALSE
     /\ drains' = StartDrain(pool, commits)
     /\ UNCHANGED timers
  \/ /\ Cardinality(pool) < MaxBatch
     /\ waiters' = pool
     /\ drain_scheduled' = TRUE
     /\ timers' = IF drain_scheduled THEN timers ELSE timers + 1
     /\ UNCHANGED drains

Mut_TimerDrain(commits) ==
  /\ timers > 0
  /\ timers' = timers - 1
  /\ waiters' = {}
  /\ drains' = IF waiters = {} THEN drains ELSE StartDrain(waiters, commits)
  /\ UNCHANGED drain_scheduled

\* timer_drain: take whoever is in the pool; nothing to do if it was drained.
TimerDrain(commits) ==
  /\ timers > 0
  /\ timers' = timers - 1
  /\ drain_scheduled' = FALSE
  /\ waiters' = {}
  /\ drains' = IF waiters = {} THEN drains ELSE StartDrain(waiters, commits)
=============================================================================
