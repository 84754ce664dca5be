----------------------- MODULE SupervisorStepProofs -----------------------
(***************************************************************************)
(* What a step of the supervisor may do to a durable wait, to the state of *)
(* the task and to the lease of a task on offer, for every number of       *)
(* workers, controllers and items.  Each part has an effect lemma, with    *)
(* one case per action, from which the theorems follow.                    *)
(***************************************************************************)
EXTENDS ExecutionSupervisorProofs

----------------------------------------------------------------------------
(* Waits for a human *)

\* A step leaves the item the task waits for and the claims alone, clears the item of
\* a task that ends, replaces it by another, or claims it.
WaitEffect ==
  \/ task'.inbox = task.inbox /\ task'.claims = task.claims
  \/ /\ task'.inbox = NoItem /\ task'.claims = task.claims
     /\ task.inbox = NoItem \/ task'.state \in TERMINAL_STATES
  \/ task'.inbox \in InboxItems /\ task'.claims = task.claims
  \/ /\ task.inbox \in InboxItems
     /\ task'.inbox = NoItem /\ task'.claims = task.claims \cup {task.inbox}

LEMMA EndedWait ==
  ASSUME task \in TaskRecord, NEW target \in TERMINAL_STATES, NEW r, task' = Ended(task, target, r)
  PROVE  WaitEffect
  BY DEF Ended, TaskRecord, WaitEffect

LEMMA EndTaskWait ==
  ASSUME task \in TaskRecord, NEW target \in TERMINAL_STATES, EndTask(target)
  PROVE  WaitEffect
<1>1. PICK r : task' = Ended(task, target, r)
  BY DEF EndTask
<1>2. QED
  BY <1>1, EndedWait

\* A task that waits for an item is not requeued by a transition.
LEMMA RequeuedWait ==
  ASSUME task \in TaskRecord, MayMove("queued"), task' = Requeued(task)
  PROVE  WaitEffect
<1>1. task.inbox = NoItem
  BY DEF MayMove, HumanGated
<1>2. QED
  BY <1>1 DEF Requeued, TaskRecord, WaitEffect

LEMMA WaitStep ==
  ASSUME TypeOK, Next
  PROVE  WaitEffect
<1>1. task \in TaskRecord
  BY DEF TypeOK
<1>2. ASSUME NEW w \in Workers, Work(w)
      PROVE  WaitEffect
  <2>1. CASE Acquire(w) \/ Start(w) \/ ResumeRunning(w) \/ MarkIrreversible(w)
    BY <1>1, <2>1 DEF Acquire, Start, ResumeRunning, MarkIrreversible, TaskRecord, WaitEffect
  <2>2. CASE AcquireOverdue(w)
    BY <1>1, <2>2, EndTaskWait DEF AcquireOverdue, TERMINAL_STATES
  <2>3. CASE Release(w)
    BY <1>1, <2>3, RequeuedWait DEF Release, WaitEffect
  <2>4. CASE ReleaseCheck(w) \/ CheckpointRequest(w) \/ SubmitPublish(w)
    BY <2>4 DEF ReleaseCheck, CheckpointRequest, SubmitPublish, WaitEffect
  <2>5. CASE CheckpointBegin(w) \/ CheckpointPersist(w) \/ SuspendForBatch(w)
    BY <1>1, <2>5 DEF CheckpointBegin, CheckpointPersist, SuspendForBatch, TaskRecord, WaitEffect
  <2>6. CASE SubmitEscrow(w)
    BY <1>1, <2>6 DEF SubmitEscrow, TaskRecord, WaitEffect
  <2>7. QED
    BY <1>2, <2>1, <2>2, <2>3, <2>4, <2>5, <2>6 DEF Work
<1>3. ASSUME NEW p \in Procs, Verify(p)
      PROVE  WaitEffect
  <2>1. CASE VerifyApply(p)
    BY <1>1, <2>1 DEF VerifyApply, Reported, TaskRecord, WaitEffect
  <2>2. CASE VerifyRead(p) \/ VerifyRaises(p) \/ \E v \in {"passed", "failed"} : VerifySave(p, v)
    BY <2>2 DEF VerifyRead, VerifyRaises, VerifySave, WaitEffect
  <2>3. QED
    BY <1>3, <2>1, <2>2 DEF Verify
<1>4. ASSUME NEW c \in Controllers, Steer(c)
      PROVE  WaitEffect
  <2>1. CASE Queue(c) \/ Requeue(c)
    BY <1>1, <2>1, RequeuedWait DEF Queue, Requeue, WaitEffect
  <2>2. CASE ReopenCompleted(c) \/ FinalizeOverrun(c) \/ CancelRequest(c) \/ Pause(c)
    BY <1>1, <2>2 DEF ReopenCompleted, FinalizeOverrun, CancelRequest, Pause, TaskRecord, WaitEffect
  <2>3. CASE CancelFinish(c)
    BY <1>1, <2>3, EndedWait DEF CancelFinish, TERMINAL_STATES, WaitEffect
  <2>4. CASE RetrySchedule(c)
    BY <1>1, <2>4 DEF RetrySchedule, Rescheduled, TaskRecord, WaitEffect
  <2>5. CASE \E target \in {"failed", "budget_exhausted"} : Fail(c, target)
    BY <1>1, <2>5, EndTaskWait DEF Fail, TERMINAL_STATES
  <2>6. ASSUME NEW item \in InboxItems, SuspendForHumanInput(c, item)
        PROVE  WaitEffect
    BY <1>1, <2>6 DEF SuspendForHumanInput, TaskRecord, WaitEffect
  <2>7. ASSUME NEW item \in InboxItems, ResumeFromHumanInput(c, item)
        PROVE  WaitEffect
    BY <1>1, <2>7 DEF ResumeFromHumanInput, Requeued, TaskRecord, WaitEffect
  <2>8. CASE SuspendForConnector(c) \/ ResumeFromConnector(c) \/ ResumeFromBatch(c)
    BY <1>1, <2>8 DEF SuspendForConnector, ResumeFromConnector, ResumeFromBatch,
       TaskRecord, WaitEffect
  <2>9. CASE \/ Reverify(c) \/ AcceptOverrun(c) \/ CancelRead(c)
             \/ RetryDecide(c) \/ ReleaseRetry(c) \/ PauseRead(c)
    BY <2>9 DEF Reverify, AcceptOverrun, CancelRead, RetryDecide, ReleaseRetry, PauseRead, WaitEffect
  <2>10. QED
    BY <1>4, <2>1, <2>2, <2>3, <2>4, <2>5, <2>6, <2>7, <2>8, <2>9 DEF Steer
<1>5. CASE Faults
  <2>1. CASE Tick \/ DeadlinePasses \/ \E w \in Workers : Heartbeat(w)
    BY <1>1, <2>1 DEF Tick, DeadlinePasses, Heartbeat, TaskRecord, WaitEffect
  <2>2. CASE \/ \E p \in Procs : Crash(p)
             \/ \E w \in Workers : CrashInSubmit(w) \/ CrashInPersist(w)
             \/ \E c \in Controllers, target \in {"failed", "budget_exhausted"} : CrashInEnd(c, target)
    BY <2>2 DEF Crash, CrashInSubmit, CrashInPersist, CrashInEnd, WaitEffect
  <2>3. QED
    BY <1>5, <2>1, <2>2 DEF Faults
<1>6. QED
  BY <1>2, <1>3, <1>4, <1>5 DEF Next

\* What a task that waits for a person is queued by.
Waited == task.state = "waiting" /\ task.wait = "human" /\ task.inbox # NoItem
Answered == Waited /\ task'.state = "queued" => task.inbox \in task'.claims \ task.claims

LEMMA AnswerStep ==
  ASSUME TypeOK, RetriesReturn, Next
  PROVE  Answered
<1>1. task \in TaskRecord
  BY DEF TypeOK
<1>2. ASSUME NEW target \in TERMINAL_STATES, NEW r, task' = Ended(task, target, r)
      PROVE  Answered
  BY <1>1, <1>2 DEF Ended, TaskRecord, TERMINAL_STATES, Answered
<1>3. ASSUME MayMove("queued") PROVE Answered
  BY <1>3 DEF MayMove, HumanGated, Answered, Waited
<1>4. CASE task' = task
  BY <1>4 DEF Answered, Waited
<1>5. ASSUME NEW w \in Workers, Work(w)
      PROVE  Answered
  <2>1. CASE Acquire(w) \/ Start(w) \/ ResumeRunning(w) \/ MarkIrreversible(w)
    BY <1>1, <2>1 DEF Acquire, Start, ResumeRunning, MarkIrreversible, TaskRecord, Answered, Waited
  <2>2. CASE AcquireOverdue(w)
    BY <1>2, <2>2 DEF AcquireOverdue, EndTask, TERMINAL_STATES
  <2>3. CASE Release(w)
    BY <1>3, <1>4, <2>3 DEF Release
  <2>4. CASE ReleaseCheck(w) \/ CheckpointRequest(w) \/ SubmitPublish(w)
    BY <1>4, <2>4 DEF ReleaseCheck, CheckpointRequest, SubmitPublish
  <2>5. CASE CheckpointBegin(w) \/ CheckpointPersist(w) \/ SuspendForBatch(w)
    BY <1>1, <2>5 DEF CheckpointBegin, CheckpointPersist, SuspendForBatch, TaskRecord,
       Answered, Waited
  <2>6. CASE SubmitEscrow(w)
    BY <1>1, <2>6 DEF SubmitEscrow, MaySubmit, TaskRecord, Answered, Waited
  <2>7. QED
    BY <1>5, <2>1, <2>2, <2>3, <2>4, <2>5, <2>6 DEF Work
<1>6. ASSUME NEW p \in Procs, Verify(p)
      PROVE  Answered
  <2>1. CASE VerifyApply(p)
    BY <1>1, <2>1 DEF VerifyApply, Reported, TaskRecord, Answered, Waited
  <2>2. CASE VerifyRead(p) \/ VerifyRaises(p) \/ \E v \in {"passed", "failed"} : VerifySave(p, v)
    BY <1>4, <2>2 DEF VerifyRead, VerifyRaises, VerifySave
  <2>3. QED
    BY <1>6, <2>1, <2>2 DEF Verify
<1>7. ASSUME NEW c \in Controllers, Steer(c)
      PROVE  Answered
  <2>1. CASE Queue(c) \/ Requeue(c)
    BY <1>3, <1>4, <2>1 DEF Queue, Requeue
  <2>2. CASE ReopenCompleted(c) \/ FinalizeOverrun(c) \/ CancelRequest(c) \/ Pause(c)
    BY <1>1, <2>2 DEF ReopenCompleted, FinalizeOverrun, CancelRequest, Pause, TaskRecord,
       Answered, Waited
  <2>3. CASE CancelFinish(c)
    BY <1>2, <1>4, <2>3 DEF CancelFinish, TERMINAL_STATES
  <2>4. CASE RetrySchedule(c)
    <3>1. seen[c].state \in {"retry_scheduled", "replanning"}
      BY <2>4 DEF RetrySchedule, At, RetriesReturn, Procs
    <3>2. QED
      BY <1>1, <2>4, <3>1 DEF RetrySchedule, Rescheduled, TaskRecord, Answered, Waited
  <2>5. CASE \E target \in {"failed", "budget_exhausted"} : Fail(c, target)
    BY <1>2, <2>5 DEF Fail, EndTask, TERMINAL_STATES
  <2>6. ASSUME NEW item \in InboxItems, SuspendForHumanInput(c, item)
        PROVE  Answered
    BY <1>1, <2>6 DEF SuspendForHumanInput, TaskRecord, Answered
  <2>7. ASSUME NEW item \in InboxItems, ResumeFromHumanInput(c, item)
        PROVE  Answered
    BY <1>1, <2>7 DEF ResumeFromHumanInput, Requeued, TaskRecord, Answered
  <2>8. CASE SuspendForConnector(c) \/ ResumeFromConnector(c) \/ ResumeFromBatch(c)
    BY <1>1, <2>8 DEF SuspendForConnector, ResumeFromConnector, ResumeFromBatch,
       TaskRecord, Answered, Waited
  <2>9. CASE \/ Reverify(c) \/ AcceptOverrun(c) \/ CancelRead(c)
             \/ RetryDecide(c) \/ ReleaseRetry(c) \/ PauseRead(c)
    BY <1>4, <2>9 DEF Reverify, AcceptOverrun, CancelRead, RetryDecide, ReleaseRetry, PauseRead
  <2>10. QED
    BY <1>7, <2>1, <2>2, <2>3, <2>4, <2>5, <2>6, <2>7, <2>8, <2>9 DEF Steer
<1>8. CASE Faults
  <2>1. CASE Tick \/ DeadlinePasses \/ \E w \in Workers : Heartbeat(w)
    BY <1>1, <2>1 DEF Tick, DeadlinePasses, Heartbeat, TaskRecord, Answered, Waited
  <2>2. CASE \/ \E p \in Procs : Crash(p)
             \/ \E w \in Workers : CrashInSubmit(w) \/ CrashInPersist(w)
             \/ \E c \in Controllers, target \in {"failed", "budget_exhausted"} : CrashInEnd(c, target)
    BY <1>4, <2>2 DEF Crash, CrashInSubmit, CrashInPersist, CrashInEnd
  <2>3. QED
    BY <1>8, <2>1, <2>2 DEF Faults
<1>9. QED
  BY <1>5, <1>6, <1>7, <1>8 DEF Next

\* However often and however late an answer is delivered, by whichever controllers: it
\* brings the task that waits for it back once, and nothing else does.
THEOREM AnsweredOnce == Spec => AnswersResumeOnce
<1>1. TypeOK /\ RetriesReturn /\ [Next]_vars =>
        [/\ task.state = "waiting" /\ task.wait = "human" /\ task.inbox # NoItem
         /\ task'.state = "queued"
         => task.inbox \in task'.claims \ task.claims]_vars
  BY AnswerStep DEF Answered, Waited
<1>2. ClaimInv => RetriesReturn
  BY DEF ClaimInv
<1>3. QED
  BY <1>1, <1>2, TypeCorrect, ClaimInvariant, PTL DEF Spec, AnswersResumeOnce

\* No transition, retry, cancellation or other wait drops a question a human was asked.
THEOREM QuestionsAreKept == Spec => WaitsAreNotLost
<1>1. TypeOK /\ [Next]_vars =>
        [task.inbox # NoItem /\ task'.inbox = NoItem =>
           task.inbox \in task'.claims \/ task'.state \in TERMINAL_STATES]_vars
  BY WaitStep, ItemAssumption DEF WaitEffect
<1>2. QED
  BY <1>1, TypeCorrect, PTL DEF Spec, WaitsAreNotLost
----------------------------------------------------------------------------
(* Moves *)

\* The step leaves the state alone or makes a move of the table.
TableMove == task'.state # task.state => task'.state \in TRANSITIONS[task.state]

\* What transition lets through is in the table, and so is what validate_transition
\* accepts from a state that is not terminal.
LEMMA ValidIsInTable ==
  ASSUME NEW source, NEW target, ValidTransition(source, target),
         source \notin TERMINAL_STATES, source # target
  PROVE  target \in TRANSITIONS[source]
  BY DEF ValidTransition

LEMMA MovesInTable ==
  ASSUME NEW target, MayMove(target), task'.state = target
  PROVE  TableMove
  BY DEF MayMove, ValidTransition, TableMove

LEMMA EndTaskMoves ==
  ASSUME task \in TaskRecord, NEW target, EndTask(target)
  PROVE  TableMove
<1>1. PICK r : task' = Ended(task, target, r)
  BY DEF EndTask
<1>2. task'.state = target
  BY <1>1 DEF Ended, TaskRecord
<1>3. QED
  BY <1>2, MovesInTable DEF EndTask

LEMMA RequeuedMoves ==
  ASSUME task \in TaskRecord, MayMove("queued"), task' = Requeued(task)
  PROVE  TableMove
<1>1. task'.state = "queued"
  BY DEF Requeued, TaskRecord
<1>2. QED
  BY <1>1, MovesInTable

\* The moves that handlers make by assigning the state themselves.
LEMMA AssignedMoves ==
  /\ \A s \in {"queued", "created"} : "leased" \in TRANSITIONS[s]
  /\ \A s \in {"leased", "waiting"} : "running" \in TRANSITIONS[s]
  /\ \A s \in Suspendable \ {"waiting"} : "waiting" \in TRANSITIONS[s]
  /\ "queued" \in TRANSITIONS["waiting"]
  /\ "completed" \in TRANSITIONS["completed_pending_verification"]
  /\ "completed" \in TRANSITIONS["pending_budget_decision"]
  /\ "completed_pending_verification" \in TRANSITIONS["completed"]
  /\ "cancelled" \in TRANSITIONS["cancelling"]
  BY DEF TRANSITIONS, Suspendable

LEMMA MoveStep ==
  ASSUME TypeOK, CheckpointsReturn, RetriesReturn, Next
  PROVE  TableMove
<1>1. task \in TaskRecord
  BY DEF TypeOK
<1>2. ASSUME NEW w \in Workers, Work(w)
      PROVE  TableMove
  <2>1. CASE Acquire(w) \/ ResumeRunning(w)
    BY <1>1, <2>1, AssignedMoves DEF Acquire, ResumeRunning, TaskRecord, TableMove
  <2>2. CASE AcquireOverdue(w)
    BY <1>1, <2>2, EndTaskMoves DEF AcquireOverdue
  <2>3. CASE Start(w)
    BY <1>1, <2>3, ValidIsInTable DEF Start, TaskRecord, TableMove, ValidTransition, TERMINAL_STATES
  <2>4. CASE Release(w)
    BY <1>1, <2>4, RequeuedMoves DEF Release, TableMove
  <2>5. CASE ReleaseCheck(w) \/ CheckpointRequest(w) \/ SubmitPublish(w)
    BY <2>5 DEF ReleaseCheck, CheckpointRequest, SubmitPublish, TableMove
  <2>6. CASE CheckpointBegin(w)
    BY <1>1, <2>6, ValidIsInTable DEF CheckpointBegin, TaskRecord, TableMove
  <2>7. CASE CheckpointPersist(w)
    BY <1>1, <2>7, ValidIsInTable DEF CheckpointPersist, TaskRecord, TableMove, TERMINAL_STATES
  <2>8. CASE SubmitEscrow(w)
    BY <1>1, <2>8, ValidIsInTable DEF SubmitEscrow, MaySubmit, TaskRecord, TableMove, TERMINAL_STATES
  <2>9. CASE MarkIrreversible(w) \/ SuspendForBatch(w)
    <3>1. CASE MarkIrreversible(w)
      BY <1>1, <3>1 DEF MarkIrreversible, TaskRecord, TableMove
    <3>2. CASE SuspendForBatch(w)
      <4>1. task.state \in Suspendable \ {"waiting"} /\ task'.state = "waiting"
        BY <1>1, <3>2 DEF SuspendForBatch, TaskRecord, Suspendable
      <4>2. QED
        BY <4>1, AssignedMoves DEF TableMove
    <3>3. QED
      BY <2>9, <3>1, <3>2
  <2>10. QED
    BY <1>2, <2>1, <2>2, <2>3, <2>4, <2>5, <2>6, <2>7, <2>8, <2>9 DEF Work
<1>3. ASSUME NEW p \in Procs, Verify(p)
      PROVE  TableMove
  <2>1. CASE VerifyApply(p)
    BY <1>1, <2>1, AssignedMoves DEF VerifyApply, Reported, TaskRecord, TableMove
  <2>2. CASE VerifyRead(p) \/ VerifyRaises(p) \/ \E v \in {"passed", "failed"} : VerifySave(p, v)
    BY <2>2 DEF VerifyRead, VerifyRaises, VerifySave, TableMove
  <2>3. QED
    BY <1>3, <2>1, <2>2 DEF Verify
<1>4. ASSUME NEW c \in Controllers, Steer(c)
      PROVE  TableMove
  <2>1. CASE Queue(c) \/ Requeue(c)
    BY <1>1, <2>1, RequeuedMoves DEF Queue, Requeue, TableMove
  <2>2. CASE ReopenCompleted(c) \/ FinalizeOverrun(c)
    BY <1>1, <2>2, AssignedMoves DEF ReopenCompleted, FinalizeOverrun, TaskRecord, TableMove
  <2>3. CASE CancelRequest(c) \/ Pause(c)
    BY <1>1, <2>3, MovesInTable DEF CancelRequest, Pause, TaskRecord, TableMove
  <2>4. CASE CancelFinish(c)
    BY <1>1, <2>4, AssignedMoves DEF CancelFinish, Ended, TaskRecord, TableMove
  <2>5. CASE RetrySchedule(c)
    <3>1. seen[c].state \in {"retry_scheduled", "replanning"}
      BY <2>5 DEF RetrySchedule, At, RetriesReturn, Procs
    <3>2. CASE task' = Rescheduled(task, seen[c].state) /\ ValidTransition(task.state, seen[c].state)
      BY <1>1, <3>1, <3>2 DEF Rescheduled, TaskRecord, TableMove, ValidTransition, TERMINAL_STATES
    <3>3. QED
      BY <2>5, <3>2 DEF RetrySchedule, TableMove
  <2>6. CASE \E target \in {"failed", "budget_exhausted"} : Fail(c, target)
    BY <1>1, <2>6, EndTaskMoves DEF Fail
  <2>7. ASSUME NEW item \in InboxItems,
               SuspendForHumanInput(c, item) \/ ResumeFromHumanInput(c, item)
        PROVE  TableMove
    <3>1. \/ task.state \in Suspendable /\ task'.state = "waiting"
          \/ task.state = "waiting" /\ task'.state = "queued"
      BY <1>1, <2>7 DEF SuspendForHumanInput, ResumeFromHumanInput, Requeued, TaskRecord
    <3>2. QED
      BY <3>1, AssignedMoves DEF TableMove
  <2>8. CASE SuspendForConnector(c) \/ ResumeFromConnector(c) \/ ResumeFromBatch(c)
    <3>1. \/ task.state \in Suspendable /\ task'.state = "waiting"
          \/ task.state = "waiting" /\ task'.state = "queued"
      BY <1>1, <2>8 DEF SuspendForConnector, ResumeFromConnector, ResumeFromBatch, TaskRecord
    <3>2. QED
      BY <3>1, AssignedMoves DEF TableMove
  <2>9. CASE \/ Reverify(c) \/ AcceptOverrun(c) \/ CancelRead(c)
             \/ RetryDecide(c) \/ ReleaseRetry(c) \/ PauseRead(c)
    BY <2>9 DEF Reverify, AcceptOverrun, CancelRead, RetryDecide, ReleaseRetry, PauseRead, TableMove
  <2>10. QED
    BY <1>4, <2>1, <2>2, <2>3, <2>4, <2>5, <2>6, <2>7, <2>8, <2>9 DEF Steer
<1>5. CASE Faults
  <2>1. CASE Tick \/ DeadlinePasses \/ \E w \in Workers : Heartbeat(w)
    BY <1>1, <2>1 DEF Tick, DeadlinePasses, Heartbeat, TaskRecord, TableMove
  <2>2. CASE \/ \E p \in Procs : Crash(p)
             \/ \E w \in Workers : CrashInSubmit(w) \/ CrashInPersist(w)
             \/ \E c \in Controllers, target \in {"failed", "budget_exhausted"} : CrashInEnd(c, target)
    BY <2>2 DEF Crash, CrashInSubmit, CrashInPersist, CrashInEnd, TableMove
  <2>3. QED
    BY <1>5, <2>1, <2>2 DEF Faults
<1>6. QED
  BY <1>2, <1>3, <1>4, <1>5 DEF Next

\* Every change of state is in the table of state_machine.py, although a good part of
\* the handlers assign the state without asking it.
THEOREM MovesFollowTable == Spec => EveryMoveInTable
<1>1. ClaimInv /\ [Next]_vars => [TableMove]_vars
  BY MoveStep DEF ClaimInv, LedgerInv, TypeInv
<1>2. [TableMove]_vars => [task'.state # task.state => task'.state \in TRANSITIONS[task.state]]_vars
  BY DEF TableMove
<1>3. QED
  BY <1>1, <1>2, ClaimInvariant, PTL DEF Spec, EveryMoveInTable

----------------------------------------------------------------------------
(* The lease of a task on offer *)

Offered == {"created", "queued", "retry_scheduled", "replanning"}

\* A step that offers the task, or leaves it on offer, leaves no live lease on it; only
\* a batch wait ends by handing on a lease.
LeaseEffect ==
  /\ task.wait # "batch" => task'.wait # "batch"
  /\ task.wait # "batch" /\ task'.state \in Offered =>
       \/ task'.lease <= 0
       \/ task.state \in Offered /\ (task'.lease = task.lease \/ task'.lease = task.lease - 1)

LEMMA EndTaskLease ==
  ASSUME task \in TaskRecord, NEW target \in TERMINAL_STATES, EndTask(target)
  PROVE  LeaseEffect
<1>1. PICK r : task' = Ended(task, target, r)
  BY DEF EndTask
<1>2. QED
  BY <1>1 DEF Ended, TaskRecord, Offered, TERMINAL_STATES, LeaseEffect

LEMMA RequeuedLease ==
  ASSUME task \in TaskRecord, task' = Requeued(task)
  PROVE  LeaseEffect
  BY DEF Requeued, TaskRecord, NoLease, LeaseEffect

LEMMA LeaseStep ==
  ASSUME TypeOK, CheckpointsTarget, "batch" \notin Suspensions, Next
  PROVE  LeaseEffect
<1>1. task \in TaskRecord /\ LeaseTicks \in Nat
  BY BoundAssumption DEF TypeOK
<1>2. ASSUME NEW w \in Workers, Work(w)
      PROVE  LeaseEffect
  <2>1. CASE Acquire(w) \/ Start(w) \/ ResumeRunning(w) \/ MarkIrreversible(w)
    BY <1>1, <2>1 DEF Acquire, Start, ResumeRunning, MarkIrreversible, TaskRecord, Offered, LeaseEffect
  <2>2. CASE AcquireOverdue(w)
    BY <1>1, <2>2, EndTaskLease DEF AcquireOverdue, TERMINAL_STATES
  <2>3. CASE Release(w)
    BY <1>1, <2>3, RequeuedLease DEF Release, LeaseEffect
  <2>4. CASE ReleaseCheck(w) \/ CheckpointRequest(w) \/ SubmitPublish(w) \/ SuspendForBatch(w)
    BY <2>4 DEF ReleaseCheck, CheckpointRequest, SubmitPublish, SuspendForBatch, LeaseEffect
  <2>5. CASE CheckpointBegin(w)
    BY <1>1, <2>5 DEF CheckpointBegin, TaskRecord, Offered, LeaseEffect
  <2>6. CASE CheckpointPersist(w)
    <3>1. seen[w].state \in CheckpointStates
      BY <2>6 DEF CheckpointPersist, At, CheckpointsTarget, Procs
    <3>2. QED
      BY <1>1, <2>6, <3>1 DEF CheckpointPersist, CheckpointStates, TaskRecord, Offered, LeaseEffect
  <2>7. CASE SubmitEscrow(w)
    BY <1>1, <2>7 DEF SubmitEscrow, MaySubmit, TaskRecord, Offered, LeaseEffect
  <2>8. QED
    BY <1>2, <2>1, <2>2, <2>3, <2>4, <2>5, <2>6, <2>7 DEF Work
<1>3. ASSUME NEW p \in Procs, Verify(p)
      PROVE  LeaseEffect
  <2>1. CASE VerifyApply(p)
    BY <1>1, <2>1 DEF VerifyApply, Reported, TaskRecord, Offered, LeaseEffect
  <2>2. CASE VerifyRead(p) \/ VerifyRaises(p) \/ \E v \in {"passed", "failed"} : VerifySave(p, v)
    BY <2>2 DEF VerifyRead, VerifyRaises, VerifySave, LeaseEffect
  <2>3. QED
    BY <1>3, <2>1, <2>2 DEF Verify
<1>4. ASSUME NEW c \in Controllers, Steer(c)
      PROVE  LeaseEffect
  <2>1. CASE Queue(c) \/ Requeue(c)
    BY <1>1, <2>1, RequeuedLease DEF Queue, Requeue, LeaseEffect
  <2>2. CASE ReopenCompleted(c) \/ FinalizeOverrun(c) \/ CancelRequest(c)
    BY <1>1, <2>2 DEF ReopenCompleted, FinalizeOverrun, CancelRequest, TaskRecord, Offered, LeaseEffect
  <2>3. CASE Pause(c)
    BY <1>1, <2>3 DEF Pause, TaskRecord, Offered, LeaseEffect
  <2>4. CASE CancelFinish(c)
    BY <1>1, <2>4 DEF CancelFinish, Ended, TaskRecord, Offered, LeaseEffect
  <2>5. CASE RetrySchedule(c)
    <3>1. task' = task \/ (task'.lease = NoLease /\ task'.wait = task.wait)
      BY <1>1, <2>5 DEF RetrySchedule, Rescheduled, TaskRecord
    <3>2. QED
      BY <3>1 DEF NoLease, LeaseEffect
  <2>6. CASE \E target \in {"failed", "budget_exhausted"} : Fail(c, target)
    BY <1>1, <2>6, EndTaskLease DEF Fail, TERMINAL_STATES
  <2>7. ASSUME NEW item \in InboxItems,
               SuspendForHumanInput(c, item) \/ ResumeFromHumanInput(c, item)
        PROVE  LeaseEffect
    <3>1. task'.lease = NoLease /\ task'.wait \in {"human", "none"}
      BY <1>1, <2>7 DEF SuspendForHumanInput, ResumeFromHumanInput, Requeued, TaskRecord
    <3>2. QED
      BY <3>1 DEF NoLease, LeaseEffect
  <2>8. CASE SuspendForConnector(c) \/ ResumeFromConnector(c) \/ ResumeFromBatch(c)
    <3>1. \/ task'.lease = NoLease /\ task'.wait \in {"connector", "none"}
          \/ task.wait = "batch"
      BY <1>1, <2>8 DEF SuspendForConnector, ResumeFromConnector, ResumeFromBatch, TaskRecord
    <3>2. QED
      BY <3>1 DEF NoLease, LeaseEffect
  <2>9. CASE \/ Reverify(c) \/ AcceptOverrun(c) \/ CancelRead(c)
             \/ RetryDecide(c) \/ ReleaseRetry(c) \/ PauseRead(c)
    BY <2>9 DEF Reverify, AcceptOverrun, CancelRead, RetryDecide, ReleaseRetry, PauseRead, LeaseEffect
  <2>10. QED
    BY <1>4, <2>1, <2>2, <2>3, <2>4, <2>5, <2>6, <2>7, <2>8, <2>9 DEF Steer
<1>5. CASE Faults
  <2>1. CASE Tick
    <3>1. /\ task.lease \in {NoLease} \cup 0..LeaseTicks
          /\ task.lease > 0 /\ task'.lease = task.lease - 1
          /\ task'.state = task.state /\ task'.wait = task.wait
      BY <1>1, <2>1 DEF Tick, TaskRecord
    <3>2. QED
      BY <3>1 DEF LeaseEffect
  <2>2. CASE DeadlinePasses \/ \E w \in Workers : Heartbeat(w)
    BY <1>1, <2>2 DEF DeadlinePasses, Heartbeat, TaskRecord, Offered, LeaseEffect
  <2>3. CASE \/ \E p \in Procs : Crash(p)
             \/ \E w \in Workers : CrashInSubmit(w) \/ CrashInPersist(w)
             \/ \E c \in Controllers, target \in {"failed", "budget_exhausted"} : CrashInEnd(c, target)
    BY <2>3 DEF Crash, CrashInSubmit, CrashInPersist, CrashInEnd, LeaseEffect
  <2>4. QED
    BY <1>5, <2>1, <2>2, <2>3 DEF Faults
<1>6. QED
  BY <1>2, <1>3, <1>4, <1>5 DEF Next

\* Where no batch is waited for, a task on offer carries no lease that would hold the
\* next worker off.
THEOREM OfferedTasksStayFree ==
  ASSUME "batch" \notin Suspensions
  PROVE  Spec => []OfferedTasksAreFree
<1> DEFINE Inv == task.wait # "batch" /\ OfferedTasksAreFree
<1>1. Init => Inv
  BY DEF Init, NoLease, OfferedTasksAreFree
<1>2. ClaimInv /\ Inv /\ [Next]_vars => Inv'
  <2>1. SUFFICES ASSUME ClaimInv, Inv, [Next]_vars PROVE Inv'
    OBVIOUS
  <2>2. CASE Next
    <3>1. LeaseEffect
      BY <2>1, <2>2, LeaseStep DEF ClaimInv, LedgerInv, TypeInv, CheckpointsReturn, CheckpointsTarget
    <3>2. task.lease \in Int
      BY <2>1, BoundAssumption DEF ClaimInv, LedgerInv, TypeInv, TypeOK, TaskRecord, NoLease
    <3>3. QED
      BY <2>1, <3>1, <3>2 DEF LeaseEffect, OfferedTasksAreFree, Offered
  <2>3. CASE UNCHANGED vars
    BY <2>1, <2>3 DEF vars, OfferedTasksAreFree
  <2>4. QED
    BY <2>1, <2>2, <2>3
<1>3. QED
  BY <1>1, <1>2, ClaimInvariant, PTL DEF Spec
=============================================================================
