----------------------- MODULE IntentFanCoalescerProofs -----------------------
(* Machine-checked proofs about IntentFanCoalescer, for every number of         *)
(* submitters, every cap and any number of dropped futures.                     *)
EXTENDS IntentFanCoalescer, FiniteSetTheorems, TLAPS

-----------------------------------------------------------------------------
(* Types. *)

(* Every step keeps the types. *)
LEMMA CoalescerType ==
  ASSUME TypeOK, [Next]_vars
  PROVE  TypeOK'
<1>1. ASSUME NEW t \in Tasks, Submit(t) PROVE TypeOK'
  BY <1>1 DEF Submit, TypeOK, Unanswered
<1>2. ASSUME NEW t \in Tasks, NotifyCap(t) PROVE TypeOK'
  BY <1>2 DEF NotifyCap, TypeOK, Unanswered
<1>3. ASSUME NEW t \in Tasks, Take(t) PROVE TypeOK'
  BY <1>3 DEF Take, TypeOK, Unanswered
<1>4. ASSUME NEW t \in Tasks, NEW a \in Answers, Flush(t, a) PROVE TypeOK'
  BY <1>4 DEF Flush, AnswerBatch, TypeOK
<1>5. ASSUME NEW t \in Tasks, CancelWaiting(t) \/ CancelTimer(t) PROVE TypeOK'
  BY <1>5 DEF CancelWaiting, CancelTimer, TypeOK
<1>6. ASSUME NEW t \in Tasks, CancelFlush(t) PROVE TypeOK'
  BY <1>6 DEF CancelFlush, TypeOK, Answers
<1>7. CASE UNCHANGED vars
  BY <1>7 DEF vars, TypeOK
<1> QED
  BY <1>1, <1>2, <1>3, <1>4, <1>5, <1>6, <1>7 DEF Next

-----------------------------------------------------------------------------
(* One step per operation. *)

(* A submission joins the queue; it becomes the flusher only of an empty one. *)
LEMMA SubmitInv ==
  ASSUME CoalescerInv, NEW t \in Tasks, Submit(t), TypeOK'
  PROVE  CoalescerInv'
<1>0. TypeOK /\ OneTimer /\ OnePlace /\ RolesHold /\ NobodyForgotten
  BY DEF CoalescerInv
<1>1. /\ task[t] = "new" /\ queue' = queue \cup {t} /\ flusherRunning' = TRUE /\ batch' = batch
      /\ task'[t] \in {"timer", "notify", "waiting"} /\ (task'[t] = "timer" => ~flusherRunning)
      /\ \A u \in Tasks \ {t} : task'[u] = task[u]
  BY <1>0 DEF Submit, TypeOK
<1>2. OneTimer'
  BY <1>0, <1>1 DEF OneTimer, RolesHold
<1>3. OnePlace'
  BY <1>0, <1>1 DEF OnePlace, RolesHold
<1>4. RolesHold'
  BY <1>0, <1>1 DEF RolesHold
<1>5. NobodyForgotten'
  <2> SUFFICES ASSUME NEW u \in Tasks, task'[u] \in Unanswered, u \notin queue'
               PROVE  \E f \in Tasks : /\ task'[f] = "flushing" /\ u \in batch'[f]
                                       /\ \A g \in Tasks : u \in batch'[g] => g = f
    BY DEF NobodyForgotten
  <2>1. u # t /\ task[u] \in Unanswered /\ u \notin queue
    BY <1>1
  <2>2. PICK f \in Tasks : /\ task[f] = "flushing" /\ u \in batch[f]
                           /\ \A g \in Tasks : u \in batch[g] => g = f
    BY <1>0, <2>1 DEF NobodyForgotten
  <2>3. f # t
    BY <1>1, <2>2
  <2> QED
    BY <1>1, <2>2, <2>3
<1> QED
  BY <1>2, <1>3, <1>4, <1>5 DEF CoalescerInv

(* A cap signal, and the drop of a submitter that waits or holds the timer,    *)
(* move no request.                                                            *)
LEMMA LeaveQueuedInv ==
  ASSUME CoalescerInv, NEW t \in Tasks, TypeOK',
         NotifyCap(t) \/ CancelWaiting(t) \/ CancelTimer(t)
  PROVE  CoalescerInv'
<1>0. TypeOK /\ OneTimer /\ OnePlace /\ RolesHold /\ NobodyForgotten
  BY DEF CoalescerInv
<1>1. /\ task[t] \in {"notify", "waiting", "timer"} /\ task'[t] \in {"waiting", "cancelled"}
      /\ (task'[t] = "waiting" => task[t] = "notify")
      /\ UNCHANGED <<queue, flusherRunning, batch>>
      /\ \A u \in Tasks \ {t} : task'[u] = task[u]
  BY <1>0 DEF NotifyCap, CancelWaiting, CancelTimer, TypeOK
<1>2. OneTimer' /\ OnePlace' /\ RolesHold'
  BY <1>0, <1>1 DEF OneTimer, OnePlace, RolesHold
<1>3. NobodyForgotten'
  <2> SUFFICES ASSUME NEW u \in Tasks, task'[u] \in Unanswered, u \notin queue'
               PROVE  \E f \in Tasks : /\ task'[f] = "flushing" /\ u \in batch'[f]
                                       /\ \A g \in Tasks : u \in batch'[g] => g = f
    BY DEF NobodyForgotten
  <2>1. task[u] \in Unanswered /\ u \notin queue
    BY <1>1 DEF Unanswered
  <2>2. PICK f \in Tasks : /\ task[f] = "flushing" /\ u \in batch[f]
                           /\ \A g \in Tasks : u \in batch[g] => g = f
    BY <1>0, <2>1 DEF NobodyForgotten
  <2>3. f # t
    BY <1>1, <2>2
  <2> QED
    BY <1>1, <2>2, <2>3
<1> QED
  BY <1>2, <1>3 DEF CoalescerInv

(* A flusher takes the whole queue, its own request included. *)
LEMMA TakeInv ==
  ASSUME CoalescerInv, NEW t \in Tasks, Take(t), TypeOK'
  PROVE  CoalescerInv'
<1>0. TypeOK /\ OneTimer /\ OnePlace /\ RolesHold /\ NobodyForgotten
  BY DEF CoalescerInv
<1>1. /\ task[t] = "timer" /\ task'[t] = "flushing" /\ queue' = {} /\ flusherRunning' = FALSE
      /\ batch'[t] = queue /\ t \in queue /\ batch[t] = {}
      /\ \A u \in Tasks \ {t} : task'[u] = task[u] /\ batch'[u] = batch[u] /\ task[u] # "timer"
  BY <1>0 DEF Take, TypeOK, OneTimer, RolesHold
<1>2. OneTimer'
  BY <1>1 DEF OneTimer
<1>3. OnePlace'
  BY <1>0, <1>1 DEF OnePlace
<1>4. RolesHold'
  BY <1>0, <1>1 DEF RolesHold
<1>5. NobodyForgotten'
  <2> SUFFICES ASSUME NEW u \in Tasks, task'[u] \in Unanswered
               PROVE  \E f \in Tasks : /\ task'[f] = "flushing" /\ u \in batch'[f]
                                       /\ \A g \in Tasks : u \in batch'[g] => g = f
    BY DEF NobodyForgotten
  <2>1. task[u] \in Unanswered
    BY <1>1 DEF Unanswered
  <2>2. CASE u \in queue
    <3>1. \A g \in Tasks \ {t} : u \notin batch'[g]
      BY <1>0, <1>1, <2>2 DEF OnePlace
    <3> QED
      BY <1>1, <2>2, <3>1
  <2>3. CASE u \notin queue
    <3>1. PICK f \in Tasks : /\ task[f] = "flushing" /\ u \in batch[f]
                             /\ \A g \in Tasks : u \in batch[g] => g = f
      BY <1>0, <2>1, <2>3 DEF NobodyForgotten
    <3>2. f # t
      BY <1>1, <3>1
    <3> QED
      BY <1>1, <2>3, <3>1, <3>2
  <2> QED
    BY <2>2, <2>3
<1> QED
  BY <1>2, <1>3, <1>4, <1>5 DEF CoalescerInv

(* The end of a flush, by its answers or by the drop of the flusher, settles   *)
(* its batch and touches no other request.                                     *)
LEMMA EndBatchInv ==
  ASSUME CoalescerInv, NEW t \in Tasks, TypeOK',
         CancelFlush(t) \/ \E a \in Answers : Flush(t, a)
  PROVE  CoalescerInv'
<1>0. TypeOK /\ OneTimer /\ OnePlace /\ RolesHold /\ NobodyForgotten
  BY DEF CoalescerInv
<1>1. /\ task[t] = "flushing" /\ t \in batch[t] /\ batch'[t] = {}
      /\ UNCHANGED <<queue, flusherRunning>>
      /\ \A u \in Tasks \ {t} : batch'[u] = batch[u]
      /\ \A u \in batch[t] : u \in Tasks
  BY <1>0 DEF CancelFlush, Flush, AnswerBatch, TypeOK, RolesHold
<1>2. \A u \in Tasks : u \notin batch[t] => task'[u] = task[u]
  BY <1>0, <1>1 DEF CancelFlush, Flush, AnswerBatch, TypeOK
<1>3. \A u \in batch[t] : task'[u] \notin Unanswered /\ (task'[u] = "new" => task[u] = "new")
  BY <1>0, <1>1 DEF CancelFlush, Flush, AnswerBatch, TypeOK, Unanswered, Answers
<1>4. \A u \in Tasks : task[u] = "timer" \/ (task[u] = "flushing" /\ u # t) => u \notin batch[t]
  BY <1>0, <1>1 DEF RolesHold, OnePlace
<1>5. OneTimer'
  BY <1>0, <1>1, <1>2, <1>3 DEF OneTimer, Unanswered
<1>6. OnePlace'
  BY <1>0, <1>1 DEF OnePlace
<1>7. RolesHold'
  <2> SUFFICES ASSUME NEW u \in Tasks
               PROVE  /\ task'[u] = "timer" => flusherRunning /\ u \in queue
                      /\ task'[u] = "flushing" => u \in batch'[u]
                      /\ task'[u] = "new" => u \notin queue /\ \A f \in Tasks : u \notin batch'[f]
                      /\ batch'[u] # {} => task'[u] = "flushing"
    BY <1>1 DEF RolesHold
  <2>1. CASE u \in batch[t]
    <3>1. u = t \/ task[u] # "flushing"
      BY <1>4, <2>1
    <3> QED
      BY <1>0, <1>1, <1>3, <2>1, <3>1 DEF RolesHold, Unanswered
  <2>2. CASE u \notin batch[t]
    <3>1. u # t /\ task'[u] = task[u]
      BY <1>1, <1>2, <2>2
    <3> QED
      BY <1>0, <1>1, <3>1 DEF RolesHold
  <2> QED
    BY <2>1, <2>2
<1>8. NobodyForgotten'
  <2> SUFFICES ASSUME NEW u \in Tasks, task'[u] \in Unanswered, u \notin queue
               PROVE  \E f \in Tasks : /\ task'[f] = "flushing" /\ u \in batch'[f]
                                       /\ \A g \in Tasks : u \in batch'[g] => g = f
    BY <1>1 DEF NobodyForgotten
  <2>1. u \notin batch[t] /\ task[u] \in Unanswered
    BY <1>2, <1>3
  <2>2. PICK f \in Tasks : /\ task[f] = "flushing" /\ u \in batch[f]
                           /\ \A g \in Tasks : u \in batch[g] => g = f
    BY <1>0, <2>1 DEF NobodyForgotten
  <2>3. f # t /\ task'[f] = "flushing"
    BY <1>2, <1>4, <2>1, <2>2
  <2> QED
    BY <1>1, <2>2, <2>3
<1> QED
  BY <1>5, <1>6, <1>7, <1>8 DEF CoalescerInv

-----------------------------------------------------------------------------
(* The inductive invariant: every request is in one place and every role is    *)
(* held by the task that the flag, the queue and the batches say.              *)
THEOREM CoalescerInvariant == Spec => []CoalescerInv
<1>1. Init => CoalescerInv
  <2> SUFFICES ASSUME Init PROVE CoalescerInv
    OBVIOUS
  <2>1. TypeOK
    BY DEF Init, TypeOK
  <2>2. OneTimer /\ OnePlace
    BY DEF Init, OneTimer, OnePlace
  <2>3. RolesHold /\ NobodyForgotten
    BY DEF Init, RolesHold, NobodyForgotten, Unanswered
  <2> QED
    BY <2>1, <2>2, <2>3 DEF CoalescerInv
<1>2. CoalescerInv /\ [Next]_vars => CoalescerInv'
  <2> SUFFICES ASSUME CoalescerInv, [Next]_vars PROVE CoalescerInv'
    OBVIOUS
  <2>1. TypeOK'
    BY CoalescerType DEF CoalescerInv
  <2>2. CASE UNCHANGED vars
    BY <2>2 DEF vars, CoalescerInv, TypeOK, OneTimer, OnePlace, RolesHold, NobodyForgotten
  <2> QED
    BY <2>1, <2>2, SubmitInv, LeaveQueuedInv, TakeInv, EndBatchInv DEF Next
<1> QED
  BY <1>1, <1>2, PTL DEF Spec

(* A submitter that waits for its answer is queued or in exactly one batch      *)
(* that a live flusher holds, whichever futures were dropped.                   *)
THEOREM NobodyIsForgotten == Spec => []NobodyForgotten
<1>1. CoalescerInv => NobodyForgotten
  BY DEF CoalescerInv
<1> QED
  BY <1>1, CoalescerInvariant, PTL

(* The role flag: a non-empty queue has it set, and two flushers never share    *)
(* a timer window.                                                              *)
THEOREM OneFlusher == Spec => []OneTimer
<1>1. CoalescerInv => OneTimer
  BY DEF CoalescerInv
<1> QED
  BY <1>1, CoalescerInvariant, PTL

(* Type correctness of the coalescer. *)
THEOREM CoalescerTypeCorrect == Spec => []TypeOK
<1>1. CoalescerInv => TypeOK
  BY DEF CoalescerInv
<1> QED
  BY <1>1, CoalescerInvariant, PTL
=============================================================================
