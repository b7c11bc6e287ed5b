------------------------- MODULE IntentFanCoalescer -------------------------
(***************************************************************************)
(* The per-shard intent fan coalescer (kiseki-log,                          *)
(* intent_fan_coalescer.rs).  There is no background task: the first        *)
(* submitter becomes the flusher, waits for the batch timer or for a        *)
(* "cap reached" signal, takes everything queued and flushes it; the others *)
(* wait for the answer on their own channel.  What one flush does with the  *)
(* cluster is LeaderSink; here it succeeds or fails as a whole.             *)
(*                                                                         *)
(* A submitter is a future of its caller, and the caller may drop it at     *)
(* any await (the gateway joins it with the chunk fan by try_join!).        *)
(***************************************************************************)
EXTENDS Naturals, FiniteSets

CONSTANTS Tasks,       \* submitters, one submission each
          CapMax,      \* cap_max
          MaxCancels   \* bound on dropped submitters

ASSUME CoalescerAssumption ==
  IsFiniteSet(Tasks) /\ CapMax \in Nat \ {0} /\ MaxCancels \in Nat

VARIABLES task,           \* state of each submitter
          queue,          \* State.pending
          flusherRunning, \* State.flusher_running
          permit,         \* the permit stored in cap_reached
          batch,          \* batch taken by each flusher
          cancels

vars == <<task, queue, flusherRunning, permit, batch, cancels>>

\* "notify": queued, about to signal the cap; "waiting": awaits its answer;
\* "timer": the flusher in its select!; "flushing": the flusher in flush_batch.
Unanswered == {"notify", "waiting", "timer", "flushing"}
Answers    == {"ok", "refused", "unavailable"}

-----------------------------------------------------------------------------
\* submit: push and choose the role under one lock; the cap signal comes after.
Submit(t) ==
  /\ task[t] = "new"
  /\ queue' = queue \cup {t}
  /\ flusherRunning' = TRUE
  /\ task' = [task EXCEPT ![t] =
       IF ~flusherRunning THEN "timer"
       ELSE IF Cardinality(queue') >= CapMax THEN "notify" ELSE "waiting"]
  /\ UNCHANGED <<permit, batch, cancels>>

Mut_NotifyCap(t) ==
  /\ task[t] = "notify"
  /\ permit' = TRUE
  /\ task' = [task EXCEPT ![t] = "notified"]
  /\ UNCHANGED <<queue, flusherRunning, batch, cancels>>

\* notify_one wakes the flusher, or leaves a permit for the next one.
NotifyCap(t) ==
  /\ task[t] = "notify"
  /\ permit' = TRUE
  /\ task' = [task EXCEPT ![t] = "waiting"]
  /\ UNCHANGED <<queue, flusherRunning, batch, cancels>>

Mut_Take(t) ==
  /\ task[t] = "timer"
  /\ batch' = [batch EXCEPT ![t] = {t}]
  /\ queue' = {}
  /\ flusherRunning' = FALSE
  /\ permit' \in {permit, FALSE}
  /\ task' = [task EXCEPT ![t] = "flushing"]
  /\ UNCHANGED cancels

MutB_Take(t) ==
  /\ task[t] = "timer"
  /\ \E S \in SUBSET queue :
       /\ Cardinality(S) <= CapMax /\ t \in S
       /\ Cardinality(S) = CapMax \/ S = queue
       /\ batch' = [batch EXCEPT ![t] = S]
       /\ queue' = queue \ S
  /\ flusherRunning' = FALSE
  /\ permit' \in {permit, FALSE}
  /\ task' = [task EXCEPT ![t] = "flushing"]
  /\ UNCHANGED cancels

MutC_Take(t) ==
  /\ task[t] = "timer" /\ permit
  /\ batch' = [batch EXCEPT ![t] = queue]
  /\ queue' = {}
  /\ flusherRunning' = FALSE
  /\ permit' = FALSE
  /\ task' = [task EXCEPT ![t] = "flushing"]
  /\ UNCHANGED cancels

\* run_flush_cycle: the deadline passed (a permit stays) or the cap signal
\* arrived (it is consumed); everything queued is taken and the slot re-armed.
Take(t) ==
  /\ task[t] = "timer"
  /\ batch' = [batch EXCEPT ![t] = queue]
  /\ queue' = {}
  /\ flusherRunning' = FALSE
  /\ permit' \in {permit, FALSE}
  /\ task' = [task EXCEPT ![t] = "flushing"]
  /\ UNCHANGED cancels

\* Answer the members of a batch that still listen.
AnswerBatch(t, a) ==
  /\ task' = [u \in Tasks |-> IF u \in batch[t] /\ task[u] \in Unanswered
                              THEN a ELSE task[u]]
  /\ batch' = [batch EXCEPT ![t] = {}]

\* flush_batch: one outcome for the whole batch (unavailable: the local put
\* or the encoding failed; refused: quorum shortfall).
Flush(t, a) ==
  /\ task[t] = "flushing" /\ a \in Answers
  /\ AnswerBatch(t, a)
  /\ UNCHANGED <<queue, flusherRunning, permit, cancels>>

\* The caller drops the future of a submitter.  Its queued request stays.
CancelWaiting(t) ==
  /\ task[t] \in {"notify", "waiting"}
  /\ cancels < MaxCancels /\ cancels' = cancels + 1
  /\ task' = [task EXCEPT ![t] = "cancelled"]
  /\ UNCHANGED <<queue, flusherRunning, permit, batch>>

\* ... of a flusher in its select!: the flag is not reset, the queue stays.
CancelTimer(t) ==
  /\ task[t] = "timer"
  /\ cancels < MaxCancels /\ cancels' = cancels + 1
  /\ task' = [task EXCEPT ![t] = "cancelled"]
  /\ UNCHANGED <<queue, flusherRunning, permit, batch>>

\* ... of a flusher in flush_batch: the answer channels of its batch drop.
CancelFlush(t) ==
  /\ task[t] = "flushing"
  /\ cancels < MaxCancels /\ cancels' = cancels + 1
  /\ batch' = [batch EXCEPT ![t] = {}]
  /\ task' = [u \in Tasks |-> IF u = t THEN "cancelled"
                              ELSE IF u \in batch[t] /\ task[u] \in Unanswered
                                   THEN "unavailable" ELSE task[u]]
  /\ UNCHANGED <<queue, flusherRunning, permit>>

-----------------------------------------------------------------------------
Init ==
  /\ task = [t \in Tasks |-> "new"] /\ queue = {} /\ flusherRunning = FALSE
  /\ permit = FALSE /\ batch = [t \in Tasks |-> {}] /\ cancels = 0

Next == \E t \in Tasks :
          \/ Submit(t) \/ NotifyCap(t) \/ Take(t)
          \/ \E a \in Answers : Flush(t, a)
          \/ CancelWaiting(t) \/ CancelTimer(t) \/ CancelFlush(t)

\* The runtime polls every future: timers fire, flushes have finite timeouts.
Fairness == \A t \in Tasks : /\ WF_vars(NotifyCap(t)) /\ WF_vars(Take(t))
                             /\ WF_vars(\E a \in Answers : Flush(t, a))

Spec == Init /\ [][Next]_vars /\ Fairness

-----------------------------------------------------------------------------
(* Type invariant. *)
TypeOK ==
  /\ task \in [Tasks -> {"new", "cancelled"} \cup Unanswered \cup Answers]
  /\ queue \subseteq Tasks /\ flusherRunning \in BOOLEAN /\ permit \in BOOLEAN
  /\ batch \in [Tasks -> SUBSET Tasks] /\ cancels \in Nat

(* The hand-over between two flushers: a submitter that waits for an answer   *)
(* is in the queue or in exactly one batch that a live flusher still holds,   *)
(* whoever else was cancelled (submit, run_flush_cycle, flush_batch).         *)
NobodyForgotten ==
  \A t \in Tasks : task[t] \in Unanswered =>
    \/ t \in queue
    \/ \E f \in Tasks : /\ task[f] = "flushing" /\ t \in batch[f]
                        /\ \A g \in Tasks : t \in batch[g] => g = f

(* The role flag: a non-empty queue always has its flag set, and no two       *)
(* flushers wait on the same timer window (submit decides under the lock).    *)
OneTimer ==
  /\ queue # {} => flusherRunning
  /\ \A t, u \in Tasks : task[t] = "timer" /\ task[u] = "timer" => t = u

(* The strengthening that makes both inductive: a request is in one place at a  *)
(* time, the queue or one batch; a flusher waits with its own request queued    *)
(* and flushes with its own request in its batch, and only a flusher has one.   *)
OnePlace ==
  /\ \A t \in Tasks : batch[t] \cap queue = {}
  /\ \A t, u \in Tasks : batch[t] \cap batch[u] # {} => t = u

RolesHold ==
  \A t \in Tasks :
    /\ task[t] = "timer" => flusherRunning /\ t \in queue
    /\ task[t] = "flushing" => t \in batch[t]
    /\ task[t] = "new" => t \notin queue /\ \A f \in Tasks : t \notin batch[f]
    /\ batch[t] # {} => task[t] = "flushing"

CoalescerInv == TypeOK /\ OneTimer /\ OnePlace /\ RolesHold /\ NobodyForgotten

(* A queue whose flag is set while nobody waits on its timer: only the drop   *)
(* of a flusher in its select! leads here (run_flush_cycle).                  *)
Orphaned == flusherRunning /\ \A t \in Tasks : task[t] # "timer"

(* Whichever of the timer and the cap signal wins, a stale permit included,   *)
(* and whoever is dropped while waiting or flushing, a submission is answered *)
(* or its caller has gone away, unless the queue was orphaned (submit,        *)
(* run_flush_cycle, flush_batch).                                             *)
AnsweredUnlessOrphaned ==
  \A t \in Tasks : task[t] \in Unanswered ~>
                     (task[t] \in Answers \cup {"cancelled"} \/ Orphaned)
=============================================================================
