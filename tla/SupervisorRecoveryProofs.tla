---------------------- MODULE SupervisorRecoveryProofs ----------------------
(***************************************************************************)
(* What still holds when recover, the read repair and                      *)
(* record_terminal_result write beside the workers and controllers, for    *)
(* every number of them: the supervisor with its recovery implements       *)
(* AttemptLedger, and what AttemptLedger promises (one bearer, records in  *)
(* order, no record restamped) holds of it by that refinement.             *)
(*                                                                         *)
(* A step of ExecutionSupervisor is known by its effects (HeldEffect,      *)
(* FilesEffect, CheckpointsEffect, ControlEffect, WaitEffect, LeaseEffect);*)
(* here come two more (LiveEffect, OutcomeEffect), and the effects of a    *)
(* recovery step.                                                          *)
(***************************************************************************)
EXTENDS SupervisorRecovery, SupervisorStepProofs

----------------------------------------------------------------------------
(* What a step does to the life of the lease *)

\* A step grants a new attempt where no lease is live, or leaves the attempt alone and
\* revives its lease only for a worker that bears it.
Grants ==
  /\ ~Live /\ Live'
  /\ task'.gen = task.gen + 1
  /\ \E w \in Workers : held' = [held EXCEPT ![w] = task.gen + 1]
  /\ UNCHANGED <<results, checkpoints>>

Carries ==
  /\ task'.gen = task.gen
  /\ Live' => Live \/ (Bearers # {} /\ held' = held)

LiveEffect == Grants \/ Carries

\* The lease is kept, loses a tick or is cleared, and the deadline stays or passes.
LEMMA LeaseWanes ==
  ASSUME task \in TaskRecord, task'.gen = task.gen,
         task'.lease \in {task.lease, NoLease, task.lease - 1},
         task'.overdue = task.overdue \/ task'.overdue = TRUE \/ task'.lease = NoLease
  PROVE  LiveEffect
<1>1. task.lease \in Int /\ (task'.lease > 0 => task.lease > 0)
  BY BoundAssumption DEF TaskRecord, NoLease
<1>2. Live' => Live
  BY <1>1 DEF Live, NoLease
<1>3. QED
  BY <1>2 DEF LiveEffect, Carries

LEMMA EndTaskLive ==
  ASSUME task \in TaskRecord, NEW target, EndTask(target)
  PROVE  LiveEffect
<1>1. PICK r : task' = Ended(task, target, r)
  BY DEF EndTask
<1>2. task'.gen = task.gen /\ task'.lease = NoLease
  BY <1>1 DEF Ended, TaskRecord
<1>3. QED
  BY <1>2, LeaseWanes

LEMMA RequeuedLive ==
  ASSUME task \in TaskRecord, task' = Requeued(task)
  PROVE  LiveEffect
<1>1. task'.gen = task.gen /\ task'.lease = NoLease
  BY DEF Requeued, TaskRecord
<1>2. QED
  BY <1>1, LeaseWanes

LEMMA LiveStep ==
  ASSUME TypeOK, Next
  PROVE  LiveEffect
<1>1. task \in TaskRecord /\ LeaseTicks \in Nat \ {0}
  BY BoundAssumption DEF TypeOK
<1>2. task' = task => LiveEffect
  BY <1>1, LeaseWanes
<1>3. ASSUME NEW w \in Workers, Work(w)
      PROVE  LiveEffect
  <2>1. CASE Acquire(w)
    <3>1. /\ task'.gen = task.gen + 1 /\ task'.lease = LeaseTicks /\ task'.overdue = task.overdue
          /\ held' = [held EXCEPT ![w] = task.gen + 1]
          /\ ~task.overdue /\ task.lease <= 0 /\ UNCHANGED <<results, checkpoints>>
      BY <1>1, <2>1 DEF Acquire, TaskRecord
    <3>2. task.lease \in Int
      BY <1>1 DEF TaskRecord, NoLease
    <3>3. ~Live /\ Live'
      BY <1>1, <3>1, <3>2 DEF Live
    <3>4. QED
      BY <3>1, <3>3 DEF LiveEffect, Grants
  <2>2. CASE AcquireOverdue(w)
    BY <1>1, <2>2, EndTaskLive DEF AcquireOverdue
  <2>3. CASE Start(w) \/ MarkIrreversible(w) \/ CheckpointBegin(w) \/ CheckpointPersist(w)
    BY <1>1, <2>3, LeaseWanes
       DEF Start, MarkIrreversible, CheckpointBegin, CheckpointPersist, TaskRecord
  <2>4. CASE Release(w)
    BY <1>2, <1>1, <2>4, RequeuedLive DEF Release
  <2>5. CASE ReleaseCheck(w) \/ CheckpointRequest(w) \/ SubmitPublish(w)
    BY <1>2, <2>5 DEF ReleaseCheck, CheckpointRequest, SubmitPublish
  <2>6. CASE ResumeRunning(w)
    <3>1. w \in Bearers /\ held' = held /\ task'.gen = task.gen
      BY <1>1, <2>6 DEF ResumeRunning, Bearers, TaskRecord
    <3>2. QED
      BY <3>1 DEF LiveEffect, Carries
  <2>7. CASE SubmitEscrow(w) \/ SuspendForBatch(w)
    BY <1>1, <2>7, LeaseWanes DEF SubmitEscrow, SuspendForBatch, TaskRecord
  <2>8. QED
    BY <1>3, <2>1, <2>2, <2>3, <2>4, <2>5, <2>6, <2>7 DEF Work
<1>4. ASSUME NEW p \in Procs, Verify(p)
      PROVE  LiveEffect
  <2>1. CASE VerifyApply(p)
    BY <1>1, <2>1, LeaseWanes DEF VerifyApply, Reported, TaskRecord
  <2>2. CASE VerifyRead(p) \/ VerifyRaises(p) \/ \E v \in {"passed", "failed"} : VerifySave(p, v)
    BY <1>2, <2>2 DEF VerifyRead, VerifyRaises, VerifySave
  <2>3. QED
    BY <1>4, <2>1, <2>2 DEF Verify
<1>5. ASSUME NEW c \in Controllers, Steer(c)
      PROVE  LiveEffect
  <2>1. CASE Queue(c) \/ Requeue(c)
    BY <1>1, <1>2, <2>1, RequeuedLive DEF Queue, Requeue
  <2>2. CASE ReopenCompleted(c) \/ FinalizeOverrun(c) \/ CancelRequest(c) \/ Pause(c)
    BY <1>1, <2>2, LeaseWanes DEF ReopenCompleted, FinalizeOverrun, CancelRequest, Pause, TaskRecord
  <2>3. CASE CancelFinish(c)
    BY <1>1, <2>3, LeaseWanes DEF CancelFinish, Ended, TaskRecord
  <2>4. CASE RetrySchedule(c)
    BY <1>1, <2>4, LeaseWanes DEF RetrySchedule, Rescheduled, TaskRecord
  <2>5. CASE \E target \in {"failed", "budget_exhausted"} : Fail(c, target)
    BY <1>1, <2>5, EndTaskLive DEF Fail
  <2>6. ASSUME NEW item \in InboxItems,
               SuspendForHumanInput(c, item) \/ ResumeFromHumanInput(c, item)
        PROVE  LiveEffect
    BY <1>1, <2>6, LeaseWanes DEF SuspendForHumanInput, ResumeFromHumanInput, Requeued, TaskRecord
  <2>7. CASE SuspendForConnector(c) \/ ResumeFromConnector(c) \/ ResumeFromBatch(c)
    BY <1>1, <2>7, LeaseWanes DEF SuspendForConnector, ResumeFromConnector, ResumeFromBatch, TaskRecord
  <2>8. CASE \/ Reverify(c) \/ AcceptOverrun(c) \/ CancelRead(c)
             \/ RetryDecide(c) \/ ReleaseRetry(c) \/ PauseRead(c)
    BY <1>2, <2>8 DEF Reverify, AcceptOverrun, CancelRead, RetryDecide, ReleaseRetry, PauseRead
  <2>9. QED
    BY <1>5, <2>1, <2>2, <2>3, <2>4, <2>5, <2>6, <2>7, <2>8 DEF Steer
<1>6. CASE Faults
  <2>1. CASE Tick \/ DeadlinePasses
    BY <1>1, <2>1, LeaseWanes DEF Tick, DeadlinePasses, TaskRecord
  <2>2. ASSUME NEW w \in Workers, Heartbeat(w)
        PROVE  LiveEffect
    <3>1. w \in Bearers /\ held' = held /\ task'.gen = task.gen
      BY <1>1, <2>2 DEF Heartbeat, HoldsLease, Bearers, TaskRecord
    <3>2. QED
      BY <3>1 DEF LiveEffect, Carries
  <2>3. CASE \/ \E p \in Procs : Crash(p)
             \/ \E w \in Workers : CrashInSubmit(w) \/ CrashInPersist(w)
             \/ \E c \in Controllers, target \in {"failed", "budget_exhausted"} : CrashInEnd(c, target)
    BY <1>2, <2>3 DEF Crash, CrashInSubmit, CrashInPersist, CrashInEnd
  <2>4. QED
    BY <1>6, <2>1, <2>2, <2>3 DEF Faults
<1>7. QED
  BY <1>3, <1>4, <1>5, <1>6 DEF Next

----------------------------------------------------------------------------
(* What a step does to the result a task names *)

\* A step takes the task to a state that stands for an outcome when it names one, when
\* it was in such a state already, or when a checkpoint comes back to one; a task that
\* names a result goes on naming one.
OutcomeEffect ==
  /\ task.result # 0 => task'.result # 0
  /\ task'.state \in NamedStates =>
       \/ task'.result # 0
       \/ task.state \in NamedStates
       \/ \E w \in Workers : pc[w] = "ckPersist" /\ task'.state = seen[w].state

\* The task keeps its result and does not enter a state that stands for an outcome.
LEMMA NothingNamed ==
  ASSUME task'.result = task.result, task'.state = task.state \/ task'.state \notin NamedStates
  PROVE  OutcomeEffect
  BY DEF OutcomeEffect

LEMMA SomethingNamed ==
  ASSUME task'.result # 0
  PROVE  OutcomeEffect
  BY DEF OutcomeEffect

LEMMA EndTaskNames ==
  ASSUME TypeOK, NEW target, EndTask(target)
  PROVE  /\ task'.result # 0
         /\ \E r \in Nat : task' = Ended(task, target, r)
<1>1. /\ task \in TaskRecord /\ results \in Seq(EscrowResult) /\ index \in 0..Len(results)
      /\ task.result \in Nat /\ Len(results) + 1 \in Nat
  BY DEF TypeOK, TaskRecord
<1>2. LinkedEscrow \subseteq Nat \ {0}
  BY <1>1, EscrowIsResults
<1>3. \E r \in Nat \ {0} : task' = Ended(task, target, r)
  BY <1>1, <1>2 DEF EndTask
<1>4. \A r : task' = Ended(task, target, r) => task'.result = r
  BY <1>1 DEF Ended, TaskRecord
<1>5. QED
  BY <1>3, <1>4

LEMMA OutcomeStep ==
  ASSUME TypeOK, RetriesReturn, Next
  PROVE  OutcomeEffect
<1>1. task \in TaskRecord /\ results \in Seq(EscrowResult) /\ Len(results) + 1 # 0
  BY DEF TypeOK
<1>2. task' = task => OutcomeEffect
  BY NothingNamed
<1>3. ASSUME NEW w \in Workers, Work(w)
      PROVE  OutcomeEffect
  <2>1. CASE \/ Acquire(w) \/ Start(w) \/ ResumeRunning(w) \/ MarkIrreversible(w)
             \/ CheckpointBegin(w) \/ SuspendForBatch(w)
    BY <1>1, <2>1, NothingNamed DEF Acquire, Start, ResumeRunning, MarkIrreversible,
       CheckpointBegin, SuspendForBatch, TaskRecord, NamedStates
  <2>2. CASE AcquireOverdue(w)
    BY <2>2, EndTaskNames, SomethingNamed DEF AcquireOverdue
  <2>3. CASE Release(w)
    BY <1>1, <1>2, <2>3, NothingNamed DEF Release, Requeued, TaskRecord, NamedStates
  <2>4. CASE ReleaseCheck(w) \/ CheckpointRequest(w) \/ SubmitPublish(w)
    BY <1>2, <2>4 DEF ReleaseCheck, CheckpointRequest, SubmitPublish
  <2>5. CASE CheckpointPersist(w)
    <3>1. task' = task \/ (task'.result = task.result /\ task'.state = seen[w].state)
      BY <1>1, <2>5 DEF CheckpointPersist, TaskRecord
    <3>2. QED
      BY <1>2, <2>5, <3>1 DEF CheckpointPersist, At, OutcomeEffect
  <2>6. CASE SubmitEscrow(w)
    <3>1. task'.result = Len(results) + 1
      BY <1>1, <2>6 DEF SubmitEscrow, TaskRecord
    <3>2. QED
      BY <1>1, <3>1, SomethingNamed
  <2>7. QED
    BY <1>3, <2>1, <2>2, <2>3, <2>4, <2>5, <2>6 DEF Work
<1>4. ASSUME NEW p \in Procs, Verify(p)
      PROVE  OutcomeEffect
  <2>1. CASE VerifyApply(p)
    <3>1. task'.result = task.result /\ (task'.state = task.state \/ task.state \in NamedStates)
      BY <1>1, <2>1 DEF VerifyApply, Reported, TaskRecord, NamedStates
    <3>2. QED
      BY <3>1 DEF OutcomeEffect
  <2>2. CASE VerifyRead(p) \/ VerifyRaises(p) \/ \E v \in {"passed", "failed"} : VerifySave(p, v)
    BY <1>2, <2>2 DEF VerifyRead, VerifyRaises, VerifySave
  <2>3. QED
    BY <1>4, <2>1, <2>2 DEF Verify
<1>5. ASSUME NEW c \in Controllers, Steer(c)
      PROVE  OutcomeEffect
  <2>1. CASE Queue(c) \/ Requeue(c)
    BY <1>1, <1>2, <2>1, NothingNamed DEF Queue, Requeue, Requeued, TaskRecord, NamedStates
  <2>2. CASE ReopenCompleted(c) \/ FinalizeOverrun(c)
    <3>1. task'.result = task.result /\ (task' = task \/ task.state \in NamedStates)
      BY <1>1, <2>2 DEF ReopenCompleted, FinalizeOverrun, TaskRecord, NamedStates
    <3>2. QED
      BY <3>1 DEF OutcomeEffect
  <2>3. CASE CancelRequest(c) \/ Pause(c)
    BY <1>1, <2>3, NothingNamed DEF CancelRequest, Pause, TaskRecord, NamedStates
  <2>4. CASE CancelFinish(c)
    <3>1. task' = task \/ task'.result = Len(results) + 1 \/ (task.result # 0 /\ task'.result = task.result)
      BY <1>1, <2>4 DEF CancelFinish, Ended, TaskRecord
    <3>2. QED
      BY <1>1, <1>2, <3>1, SomethingNamed
  <2>5. CASE RetrySchedule(c)
    <3>1. seen[c].state \in {"retry_scheduled", "replanning"}
      BY <2>5 DEF RetrySchedule, At, RetriesReturn, Procs
    <3>2. QED
      BY <1>1, <2>5, <3>1, NothingNamed DEF RetrySchedule, Rescheduled, TaskRecord, NamedStates
  <2>6. CASE \E target \in {"failed", "budget_exhausted"} : Fail(c, target)
    BY <2>6, EndTaskNames, SomethingNamed DEF Fail
  <2>7. ASSUME NEW item \in InboxItems,
               SuspendForHumanInput(c, item) \/ ResumeFromHumanInput(c, item)
        PROVE  OutcomeEffect
    <3>1. CASE SuspendForHumanInput(c, item)
      BY <1>1, <3>1, NothingNamed DEF SuspendForHumanInput, TaskRecord, NamedStates
    <3>2. CASE ResumeFromHumanInput(c, item)
      <4>1. PICK late \in {FALSE, task.overdue} :
              task' = [Requeued(task) EXCEPT !.claims = @ \cup {item}, !.overdue = late]
        BY <3>2 DEF ResumeFromHumanInput
      <4>2. task'.result = task.result /\ task'.state = "queued"
        BY <1>1, <4>1 DEF Requeued, TaskRecord
      <4>3. QED
        BY <4>2, NothingNamed DEF NamedStates
    <3>3. QED
      BY <2>7, <3>1, <3>2
  <2>8. CASE SuspendForConnector(c) \/ ResumeFromConnector(c) \/ ResumeFromBatch(c)
    BY <1>1, <2>8, NothingNamed
       DEF SuspendForConnector, ResumeFromConnector, ResumeFromBatch, TaskRecord, NamedStates
  <2>9. CASE \/ Reverify(c) \/ AcceptOverrun(c) \/ CancelRead(c)
             \/ RetryDecide(c) \/ ReleaseRetry(c) \/ PauseRead(c)
    BY <1>2, <2>9 DEF Reverify, AcceptOverrun, CancelRead, RetryDecide, ReleaseRetry, PauseRead
  <2>10. QED
    BY <1>5, <2>1, <2>2, <2>3, <2>4, <2>5, <2>6, <2>7, <2>8, <2>9 DEF Steer
<1>6. CASE Faults
  <2>1. CASE Tick \/ DeadlinePasses \/ \E w \in Workers : Heartbeat(w)
    BY <1>1, <2>1, NothingNamed DEF Tick, DeadlinePasses, Heartbeat, TaskRecord
  <2>2. CASE \/ \E p \in Procs : Crash(p)
             \/ \E w \in Workers : CrashInSubmit(w) \/ CrashInPersist(w)
             \/ \E c \in Controllers, target \in {"failed", "budget_exhausted"} : CrashInEnd(c, target)
    BY <1>2, <2>2 DEF Crash, CrashInSubmit, CrashInPersist, CrashInEnd
  <2>3. QED
    BY <1>6, <2>1, <2>2 DEF Faults
<1>7. QED
  BY <1>3, <1>4, <1>5, <1>6 DEF Next

----------------------------------------------------------------------------
(* What a recovery step does to the task *)

\* The steps SupervisorRecovery adds.
RecoveryStep ==
  \/ \E c \in Controllers : Recover(c) \/ ResolveRead(c) \/ ResolveReview(c) \/ Lookup(c)
  \/ \E w \in Workers : Record(w)

\* What a process remembers on its way: the result it is about to link, repair or save
\* again was created, a record it saves again has the attempt the file has, and what a
\* failing task is taken to is a failure.
Recalls(label, mem, log) ==
  /\ label \in RecordLabels \cup {"repair", "relinkResult"} => mem.result \in DOMAIN log
  /\ label \in RecordLabels =>
       /\ mem.rec.gen = log[mem.result].gen
       /\ mem.then \in RecordLabels \cup {"idle"}
  /\ label = "failLost" => mem.state \in {"failed", "budget_exhausted"}

RecoveryMemory == \A p \in Procs : Recalls(pc[p], seen[p], results)

\* A recovery step grants nothing and revives nothing; it may clear the lease and the
\* wait, put the task up for review, and name a result.
RecoveryEffect ==
  /\ task' \in TaskRecord
  /\ task'.gen = task.gen /\ task'.overdue = task.overdue /\ task'.claims = task.claims
  /\ task'.lease \in {task.lease, NoLease}
  /\ task'.wait \in {task.wait, "none", "review"}
  /\ task'.state \in Offered => task'.lease = NoLease \/ task'.state = task.state
  /\ task.result # 0 => task'.result # 0
  /\ task'.state \in NamedStates => task'.result # 0 \/ task.state \in NamedStates

LEMMA EndTaskRecovers ==
  ASSUME TypeOK, NEW target \in TERMINAL_STATES, EndTask(target)
  PROVE  RecoveryEffect
<1>1. task \in TaskRecord
  BY DEF TypeOK
<1>2. task'.result # 0
  BY EndTaskNames
<1>3. PICK r \in Nat : task' = Ended(task, target, r)
  BY EndTaskNames
<1>4. target \in States
  BY DEF TERMINAL_STATES, States
<1>5. task' \in TaskRecord
  BY <1>1, <1>3, <1>4, EndedTyped
<1>6. QED
  BY <1>1, <1>2, <1>3, <1>5 DEF Ended, TaskRecord, RecoveryEffect, Offered, TERMINAL_STATES

LEMMA RequeuedRecovers ==
  ASSUME task \in TaskRecord, task' = Requeued(task)
  PROVE  RecoveryEffect
<1>1. task' \in TaskRecord
  BY RequeuedTyped
<1>2. QED
  BY <1>1 DEF Requeued, TaskRecord, RecoveryEffect, Offered, NamedStates

LEMMA RecoveryTask ==
  ASSUME TypeOK, RecoveryMemory, RecoveryStep
  PROVE  RecoveryEffect
<1>1. task \in TaskRecord /\ results \in Seq(EscrowResult) /\ \A p \in Procs : seen[p] \in Memory
  BY DEF TypeOK
<1>2. task' = task => RecoveryEffect
  BY <1>1 DEF RecoveryEffect
<1>3. \A p \in Procs : /\ seen[p].result \in Nat
                       /\ seen[p].rec.sup \in States /\ seen[p].rec.ver \in Verdicts
  BY <1>1 DEF Memory, EscrowResult
<1>4. \A p \in Procs : pc[p] \in RecordLabels \cup {"repair", "relinkResult"} => seen[p].result # 0
  BY <1>1 DEF RecoveryMemory, Recalls
<1>5. ASSUME NEW c \in Controllers, Recover(c)
      PROVE  RecoveryEffect
  <2>1. CASE RecoverRead(c) \/ RecoverOn(c)
    BY <1>2, <2>1 DEF RecoverRead, RecoverOn
  <2>2. CASE RelinkCheckpoint(c)
    BY <1>1, <1>3, <2>2 DEF RelinkCheckpoint, Procs, TaskRecord, RecoveryEffect
  <2>3. CASE Repair(c)
    <3>1. /\ task' = [task EXCEPT !.state = seen[c].rec.sup, !.ver = seen[c].rec.ver,
                                  !.result = seen[c].result, !.lease = NoLease]
          /\ seen[c].result # 0
      BY <1>4, <2>3 DEF Repair, At, Procs
    <3>2. QED
      BY <1>1, <1>3, <3>1 DEF Procs, TaskRecord, RecoveryEffect
  <2>4. CASE RelinkResult(c)
    <3>1. /\ task' = [task EXCEPT !.state = "completed_pending_verification", !.result = seen[c].result]
          /\ seen[c].result # 0 /\ seen[c].result \in Nat
      BY <1>3, <1>4, <2>4 DEF RelinkResult, At, Procs
    <3>2. QED
      BY <1>1, <3>1 DEF TaskRecord, States, Offered, RecoveryEffect
  <2>5. CASE FailTask(c)
    BY <1>2, <2>5, EndTaskRecovers DEF FailTask, TERMINAL_STATES
  <2>6. CASE FailLost(c)
    <3>1. seen[c].state \in {"failed", "budget_exhausted"}
      BY <2>6 DEF FailLost, At, RecoveryMemory, Recalls, Procs
    <3>2. QED
      BY <1>1, <1>2, <2>6, <3>1 DEF FailLost, TaskRecord, States, NamedStates, Offered, RecoveryEffect
  <2>7. CASE ResumeAfterReceipt(c)
    BY <1>1, <2>7 DEF ResumeAfterReceipt, TaskRecord, States, NamedStates, RecoveryEffect
  <2>8. CASE ReviewLink(c)
    <3>1. CASE UNCHANGED task
      BY <1>2, <3>1
    <3>2. ASSUME NEW item \in InboxItems \ task.claims,
                 task' = [task EXCEPT !.inbox = item, !.wait = "review",
                                      !.review = seen[c].result]
          PROVE  RecoveryEffect
      <4>1. /\ task' \in TaskRecord
            /\ task'.wait = "review" /\ task'.claims = task.claims
            /\ task'.gen = task.gen /\ task'.overdue = task.overdue /\ task'.lease = task.lease
            /\ task'.result = task.result /\ task'.state = task.state
        BY <1>1, <1>3, <3>2 DEF Procs, TaskRecord, Waits
      <4>2. QED
        BY <4>1 DEF RecoveryEffect
    <3>3. QED
      BY <2>8, <3>1, <3>2 DEF ReviewLink
  <2>9. CASE ReviewEnd(c)
    BY <1>2, <2>9, EndTaskRecovers DEF ReviewEnd, TERMINAL_STATES
  <2>10. QED
    BY <1>5, <2>1, <2>2, <2>3, <2>4, <2>5, <2>6, <2>7, <2>8, <2>9 DEF Recover
<1>6. ASSUME NEW c \in Controllers, ResolveRead(c) \/ ResolveReview(c) \/ Lookup(c)
      PROVE  RecoveryEffect
  <2>1. task' = task \/ task' = Requeued(task)
    BY <1>6 DEF ResolveRead, ResolveReview, Lookup
  <2>2. QED
    BY <1>1, <1>2, <2>1, RequeuedRecovers
<1>7. ASSUME NEW w \in Workers, Record(w)
      PROVE  RecoveryEffect
  <2>1. CASE RecordRead(w) \/ RecordSave(w)
    BY <1>2, <2>1 DEF RecordRead, RecordSave
  <2>2. CASE RecordLink(w)
    <3>1. task' = [task EXCEPT !.result = seen[w].result] /\ seen[w].result # 0 /\ seen[w].result \in Nat
      BY <1>3, <1>4, <2>2 DEF RecordLink, At, Procs, RecordLabels
    <3>2. QED
      BY <1>1, <3>1 DEF TaskRecord, RecoveryEffect
  <2>3. QED
    BY <1>7, <2>1, <2>2 DEF Record
<1>8. QED
  BY <1>5, <1>6, <1>7 DEF RecoveryStep

----------------------------------------------------------------------------
(* What a step does to the records *)

\* The records stay and keep their attempts, and at most one is added, of the attempt
\* of the moment.
LogEffect ==
  /\ results' \in Seq(EscrowResult) /\ index' \in 0..Len(results')
  /\ \A r \in 1..Len(results) : results'[r].gen = results[r].gen
  /\ \/ Len(results') = Len(results)
     \/ Len(results') = Len(results) + 1 /\ results'[Len(results) + 1].gen = task.gen

LEMMA LogAppended ==
  ASSUME TypeOK, NEW rec \in EscrowResult, rec.gen = task.gen,
         results' = Append(results, rec), index' \in {index, Len(results) + 1}
  PROVE  LogEffect
<1>1. results \in Seq(EscrowResult) /\ index \in 0..Len(results)
  BY DEF TypeOK
<1>2. /\ results' \in Seq(EscrowResult)
      /\ Len(results') = Len(results) + 1 /\ Len(results) \in Nat
      /\ \A r \in 1..Len(results) : results'[r] = results[r]
      /\ results'[Len(results) + 1] = rec
  BY <1>1
<1>3. index' \in 0..Len(results')
  BY <1>1, <1>2
<1>4. QED
  BY <1>2, <1>3 DEF LogEffect

LEMMA LogResaved ==
  ASSUME TypeOK, NEW r \in 1..Len(results), NEW rec \in EscrowResult,
         rec.gen = results[r].gen, SaveAgain(r, rec)
  PROVE  LogEffect /\ results'[r] = rec
<1>1. results \in Seq(EscrowResult) /\ results' = [results EXCEPT ![r] = rec] /\ index' = r
  BY DEF TypeOK, SaveAgain
<1>2. /\ results' \in Seq(EscrowResult) /\ Len(results') = Len(results)
      /\ \A i \in 1..Len(results) : results'[i] = IF i = r THEN rec ELSE results[i]
  BY <1>1, ExceptSeq
<1>3. index' \in 0..Len(results') /\ results'[r] = rec
  BY <1>1, <1>2
<1>4. \A i \in 1..Len(results) : results'[i].gen = results[i].gen
  BY <1>2
<1>5. QED
  BY <1>2, <1>3, <1>4 DEF LogEffect

LEMMA LogKept ==
  ASSUME TypeOK, UNCHANGED <<results, index>>
  PROVE  LogEffect
  BY DEF TypeOK, LogEffect

LEMMA EndTaskLog ==
  ASSUME TypeOK, NEW target \in States, EndTask(target)
  PROVE  LogEffect
<1>1. UNCHANGED <<results, index>> \/ SaveNew(FailureResult(target))
  BY EndTaskFiles
<1>2. FailureResult(target) \in EscrowResult /\ FailureResult(target).gen = task.gen
  BY FailureResultTyped DEF TypeOK
<1>3. QED
  BY <1>1, <1>2, LogKept, LogAppended DEF SaveNew

LEMMA LogStep ==
  ASSUME TypeOK, Remembered, Next
  PROVE  LogEffect
<1>1. FilesEffect /\ results \in Seq(EscrowResult) /\ task \in TaskRecord
  BY FilesStep DEF TypeOK
<1>2. CASE UNCHANGED <<results, index>>
  BY <1>2, LogKept
<1>3. ASSUME NEW target \in States, SaveNew(FailureResult(target))
      PROVE  LogEffect
  BY <1>1, <1>3, FailureResultTyped, LogAppended DEF SaveNew
<1>4. ASSUME NEW w \in Workers, NEW target \in States, MaySubmit(w, target),
             results' = Append(results, ChatResult(w, target)), index' = index
      PROVE  LogEffect
  <2>1. held[w] = task.gen /\ task.gen \in Nat
    BY <1>1, <1>4 DEF MaySubmit, HoldsLease, TaskRecord
  <2>2. ChatResult(w, target) \in EscrowResult /\ ChatResult(w, target).gen = task.gen
    BY <2>1 DEF ChatResult, EscrowResult, Verdicts
  <2>3. QED
    BY <1>4, <2>2, LogAppended
<1>5. ASSUME NEW p \in Procs, NEW rec \in EscrowResult, pc[p] \in {"publish", "verSave"},
             SaveAgain(seen[p].result, rec), rec.gen = seen[p].rec.gen
      PROVE  LogEffect
  <2>1. seen[p].result \in 1..Len(results) /\ rec.gen = results[seen[p].result].gen
    BY <1>1, <1>5 DEF Remembered
  <2>2. QED
    BY <1>5, <2>1, LogResaved
<1>6. QED
  BY <1>1, <1>2, <1>3, <1>4, <1>5 DEF FilesEffect

\* No step writes a result and a checkpoint.
LEMMA OneLog ==
  ASSUME Next
  PROVE  results' = results \/ checkpoints' = checkpoints
<1>1. ASSUME NEW w \in Workers, Work(w)
      PROVE  results' = results \/ checkpoints' = checkpoints
  BY <1>1 DEF Work, Acquire, AcquireOverdue, Start, ReleaseCheck, Release, ResumeRunning,
     MarkIrreversible, CheckpointRequest, CheckpointBegin, CheckpointPersist, SubmitEscrow,
     SubmitPublish, SuspendForBatch
<1>2. ASSUME NEW p \in Procs, Verify(p)
      PROVE  checkpoints' = checkpoints
  BY <1>2 DEF Verify, VerifyRead, VerifyRaises, VerifyApply, VerifySave
<1>3. ASSUME NEW c \in Controllers, Steer(c)
      PROVE  checkpoints' = checkpoints
  BY <1>3 DEF Steer, Queue, Reverify, ReopenCompleted, AcceptOverrun, FinalizeOverrun,
     CancelRead, CancelRequest, CancelFinish, RetryDecide, RetrySchedule, ReleaseRetry,
     Requeue, Fail, PauseRead, Pause, SuspendForHumanInput, ResumeFromHumanInput,
     SuspendForConnector, ResumeFromConnector, ResumeFromBatch
<1>4. CASE Faults
  BY <1>4 DEF Faults, Tick, DeadlinePasses, Crash, Heartbeat, CrashInSubmit, CrashInPersist,
     CrashInEnd
<1>5. QED
  BY <1>1, <1>2, <1>3, <1>4 DEF Next

----------------------------------------------------------------------------
(* What a recovery step does to the records and the processes *)

LEMMA RecoveryLog ==
  ASSUME TypeOK, RecoveryMemory, RecoveryStep
  PROVE  LogEffect /\ UNCHANGED <<checkpoints, held>>
<1>1. task \in TaskRecord /\ results \in Seq(EscrowResult) /\ \A p \in Procs : seen[p] \in Memory
  BY DEF TypeOK
<1>2. {"failed", "recovery_review_required"} \subseteq States
  BY DEF States
<1>3. ASSUME NEW c \in Controllers, Recover(c)
      PROVE  LogEffect /\ UNCHANGED <<checkpoints, held>>
  <2>1. CASE FailTask(c)
    BY <1>2, <2>1, EndTaskLog, LogKept DEF FailTask
  <2>2. CASE ReviewEnd(c)
    BY <1>2, <2>2, EndTaskLog, LogKept DEF ReviewEnd
  <2>3. CASE \/ RecoverRead(c) \/ RelinkCheckpoint(c) \/ RecoverOn(c) \/ Repair(c)
             \/ RelinkResult(c) \/ FailLost(c) \/ ResumeAfterReceipt(c) \/ ReviewLink(c)
    BY <2>3, LogKept DEF RecoverRead, RelinkCheckpoint, RecoverOn, Repair, RelinkResult,
       FailLost, ResumeAfterReceipt, ReviewLink
  <2>4. QED
    BY <1>3, <2>1, <2>2, <2>3 DEF Recover
<1>4. ASSUME NEW c \in Controllers, ResolveRead(c) \/ ResolveReview(c) \/ Lookup(c)
      PROVE  LogEffect /\ UNCHANGED <<checkpoints, held>>
  BY <1>4, LogKept DEF ResolveRead, ResolveReview, Lookup
<1>5. ASSUME NEW w \in Workers, Record(w)
      PROVE  LogEffect /\ UNCHANGED <<checkpoints, held>>
  <2>1. CASE RecordRead(w)
    <3>1. [FailureResult("failed") EXCEPT !.saved = FALSE] \in EscrowResult
      <4>1. FailureResult("failed") \in EscrowResult
        BY <1>1, <1>2, FailureResultTyped
      <4>2. \A rec \in EscrowResult : [rec EXCEPT !.saved = FALSE] \in EscrowResult
        BY DEF EscrowResult
      <4>3. QED
        BY <4>1, <4>2
    <3>2. [FailureResult("failed") EXCEPT !.saved = FALSE].gen = task.gen
      BY DEF FailureResult
    <3>3. UNCHANGED <<results, index>> \/
          (results' = Append(results, [FailureResult("failed") EXCEPT !.saved = FALSE]) /\ index' = index)
      BY <2>1 DEF RecordRead
    <3>4. QED
      BY <2>1, <3>1, <3>2, <3>3, LogKept, LogAppended DEF RecordRead
  <2>2. CASE RecordLink(w)
    BY <2>2, LogKept DEF RecordLink
  <2>3. CASE RecordSave(w)
    <3>1. /\ seen[w].result \in 1..Len(results) /\ seen[w].rec \in EscrowResult
          /\ seen[w].rec.gen = results[seen[w].result].gen
      BY <1>1, <2>3 DEF RecordSave, At, RecoveryMemory, Recalls, RecordLabels, Procs, Memory
    <3>2. UNCHANGED <<results, index>> \/ SaveAgain(seen[w].result, seen[w].rec)
      BY <2>3 DEF RecordSave
    <3>3. QED
      BY <2>3, <3>1, <3>2, LogKept, LogResaved DEF RecordSave
  <2>4. QED
    BY <1>5, <2>1, <2>2, <2>3 DEF Record
<1>6. QED
  BY <1>3, <1>4, <1>5 DEF RecoveryStep

\* A recovery step takes one process on: to a handler of its own, to a verification, to
\* a retry, or back to its caller.
Arrives(p, label, mem) ==
  /\ Goto(p, label, mem)
  /\ label \in RecoveryLabels \cup {"idle", "verify", "retry"}
  /\ label \notin RecordLabels => mem.then = "idle"
  /\ label = "retry" => mem.state = "retry_scheduled"
  /\ Recalls(label, mem, results')

RecoveryControl == \E p \in Procs, label \in Labels, mem \in Memory : Arrives(p, label, mem)

\* At most of the places nothing is asked of what the process remembers.
LEMMA PlainArrival ==
  ASSUME NEW p \in Procs, NEW mem \in Memory, mem.then = "idle",
         NEW label \in {"idle", "verify", "recover", "relinkCheckpoint", "failTask",
                        "receipt", "reviewLink", "reviewEnd", "resolve"},
         Goto(p, label, mem)
  PROVE  RecoveryControl
<1>1. /\ label \in Labels /\ label \in RecoveryLabels \cup {"idle", "verify", "retry"}
      /\ label \notin RecordLabels \cup {"repair", "relinkResult", "failLost", "retry"}
  BY DEF Labels, RecoveryLabels, RecordLabels
<1>2. Arrives(p, label, mem)
  BY <1>1 DEF Arrives, Recalls
<1>3. QED
  BY <1>1, <1>2 DEF RecoveryControl

LEMMA Returns ==
  ASSUME NEW p \in Procs, Return(p)
  PROVE  RecoveryControl
  BY NothingTyped, PlainArrival DEF Return

LEMMA EscrowTyped ==
  ASSUME TypeOK
  PROVE  /\ Escrowed \subseteq 1..Len(results) /\ LinkedEscrow \subseteq 1..Len(results)
         /\ EscrowByExecution \subseteq 1..Len(results)
         /\ \A r \in 1..Len(results) : r \in Nat /\ r \in DOMAIN results /\ results[r] \in EscrowResult
<1>1. results \in Seq(EscrowResult) /\ index \in 0..Len(results) /\ Len(results) \in Nat
  BY DEF TypeOK
<1>2. Escrowed \subseteq 1..Len(results) /\ LinkedEscrow \subseteq 1..Len(results)
  BY <1>1, EscrowIsResults
<1>3. EscrowByExecution \subseteq 1..Len(results)
  BY <1>1, <1>2 DEF EscrowByExecution
<1>4. QED
  BY <1>1, <1>2, <1>3

\* What a process is to repair a task from, or to send to verification.
LEMMA RepairArrival ==
  ASSUME TypeOK, UNCHANGED results, NEW p \in Procs, NEW r \in 1..Len(results),
         NEW rec \in EscrowResult, NEW label \in {"repair", "relinkResult"},
         Goto(p, label, [Nothing EXCEPT !.result = r, !.rec = rec])
  PROVE  RecoveryControl
<1> DEFINE mem == [Nothing EXCEPT !.result = r, !.rec = rec]
<1>1. r \in Nat /\ r \in DOMAIN results'
  BY EscrowTyped
<1>2. Nothing \in Memory /\ Nothing.then = "idle"
  BY NothingTyped
<1>3. mem \in Memory /\ mem.then = "idle" /\ mem.result = r
  BY <1>1, <1>2 DEF Memory
<1> HIDE DEF mem
<1>4. label \in Labels /\ label \in RecoveryLabels /\ label \notin RecordLabels
  BY DEF Labels, RecoveryLabels, RecordLabels
<1>5. Goto(p, label, mem)
  BY DEF mem
<1>6. Arrives(p, label, mem)
  BY <1>1, <1>3, <1>4, <1>5 DEF Arrives, Recalls
<1>7. QED
  BY <1>3, <1>4, <1>6 DEF RecoveryControl

LEMMA OutcomesTyped ==
  ASSUME NEW rec \in EscrowResult
  PROVE  Outcome(rec) \in EscrowResult /\ Repaired(rec) \in EscrowResult
<1>1. [rec EXCEPT !.sup = "completed", !.ver = "passed"] \in EscrowResult
  BY DEF EscrowResult, States, Verdicts
<1>2. QED
  BY <1>1 DEF Outcome, Repaired

LEMMA ConsumeArrives ==
  ASSUME TypeOK, UNCHANGED results, NEW c \in Procs, NEW r \in 1..Len(results), Consume(c, r)
  PROVE  RecoveryControl
<1>1. results[r] \in EscrowResult
  BY EscrowTyped
<1>2. QED
  BY <1>1, OutcomesTyped, RepairArrival DEF Consume

LEMMA LostLeaseArrives ==
  ASSUME TypeOK, NEW c \in Procs, LostLease(c)
  PROVE  RecoveryControl
<1>1. /\ {"retry_scheduled", "failed", "budget_exhausted"} \subseteq States
      /\ {"retry", "failLost"} \subseteq Labels \ RecordLabels /\ "failLost" \in RecoveryLabels
  BY DEF States, Labels, RecordLabels, RecoveryLabels
<1>2. task.gen \in Nat
  BY DEF TypeOK, TaskRecord
<1>3. ASSUME NEW state \in {"failed", "budget_exhausted"},
             Goto(c, "failLost", [Nothing EXCEPT !.state = state])
      PROVE  RecoveryControl
  <2> DEFINE mem == [Nothing EXCEPT !.state = state]
  <2>1. mem \in Memory /\ mem.then = "idle"
    BY <1>1, NothingTyped
  <2>2. mem.state = state
    BY DEF Nothing
  <2> HIDE DEF mem
  <2>3. Goto(c, "failLost", mem)
    BY <1>3 DEF mem
  <2>4. Arrives(c, "failLost", mem)
    BY <1>1, <2>1, <2>2, <2>3 DEF Arrives, Recalls
  <2>5. QED
    BY <1>1, <2>1, <2>4 DEF RecoveryControl
<1>4. ASSUME Goto(c, "retry", [Nothing EXCEPT !.state = "retry_scheduled"])
      PROVE  RecoveryControl
  <2> DEFINE mem == [Nothing EXCEPT !.state = "retry_scheduled"]
  <2>1. mem \in Memory /\ mem.then = "idle"
    BY <1>1, NothingTyped
  <2>2. mem.state = "retry_scheduled"
    BY DEF Nothing
  <2> HIDE DEF mem
  <2>3. Goto(c, "retry", mem)
    BY <1>4 DEF mem
  <2>4. Arrives(c, "retry", mem)
    BY <1>1, <2>1, <2>2, <2>3 DEF Arrives, Recalls, RecordLabels
  <2>5. QED
    BY <1>1, <2>1, <2>4 DEF RecoveryControl
<1>5. ASSUME Goto(c, "receipt", Nothing)
      PROVE  RecoveryControl
  BY <1>5, NothingTyped, PlainArrival
<1>6. ASSUME Goto(c, "reviewLink", [Nothing EXCEPT !.result = task.gen])
      PROVE  RecoveryControl
  <2>1. [Nothing EXCEPT !.result = task.gen] \in Memory
        /\ [Nothing EXCEPT !.result = task.gen].then = "idle"
    BY <1>2, NothingTyped DEF Memory
  <2>2. QED
    BY <1>6, <2>1, PlainArrival
<1>7. QED
  BY <1>3, <1>4, <1>5, <1>6 DEF LostLease

LEMMA DecideArrives ==
  ASSUME TypeOK, UNCHANGED results, NEW c \in Procs, Decide(c)
  PROVE  RecoveryControl
<1>1. CASE \E r \in RecoveredEscrow : Consume(c, r)
  BY <1>1, EscrowTyped, ConsumeArrives DEF RecoveredEscrow
<1>2. CASE Triage(c)
  <2>1. CASE Goto(c, "failTask", Nothing)
    BY <2>1, NothingTyped, PlainArrival
  <2>2. CASE \E r \in Escrowed : Consume(c, r)
    BY <2>2, EscrowTyped, ConsumeArrives
  <2>3. CASE LostLease(c)
    BY <2>3, LostLeaseArrives
  <2>4. QED
    BY <1>2, <2>1, <2>2, <2>3 DEF Triage
<1>3. QED
  BY <1>1, <1>2 DEF Decide

\* record_terminal_result goes on with the record it has in memory, or is done.
LEMMA ProceedArrives ==
  ASSUME TypeOK, RecoveryMemory, LogEffect, NEW w \in Procs, pc[w] \in RecordLabels, Proceed(w)
  PROVE  RecoveryControl
<1>1. /\ seen[w] \in Memory /\ seen[w].result \in 1..Len(results)
      /\ seen[w].rec.gen = results[seen[w].result].gen
      /\ seen[w].then \in RecordLabels \cup {"idle"}
  BY DEF TypeOK, RecoveryMemory, Recalls
<1>2. CASE seen[w].then = "idle"
  BY <1>2, Returns DEF Proceed
<1>3. CASE seen[w].then # "idle"
  <2> DEFINE mem == [seen[w] EXCEPT !.then = "idle"]
             label == seen[w].then
  <2>1. Goto(w, label, mem)
    BY <1>3 DEF Proceed
  <2>2. /\ mem \in Memory /\ mem.result = seen[w].result
        /\ mem.rec = seen[w].rec /\ mem.then = "idle"
    BY <1>1 DEF Memory, Labels
  <2>3. mem.result \in DOMAIN results' /\ mem.rec.gen = results'[mem.result].gen
    BY <1>1, <2>2 DEF LogEffect, TypeOK
  <2>4. label \in RecordLabels /\ label \in Labels /\ label \in RecoveryLabels
    BY <1>1, <1>3 DEF RecordLabels, Labels, RecoveryLabels
  <2>5. label # "retry" /\ label # "failLost"
    BY <2>4 DEF RecordLabels
  <2> HIDE DEF mem, label
  <2>6. Arrives(w, label, mem)
    BY <2>1, <2>2, <2>3, <2>4, <2>5 DEF Arrives, Recalls
  <2>7. QED
    BY <2>2, <2>4, <2>6 DEF RecoveryControl
<1>4. QED
  BY <1>2, <1>3

LEMMA RecordReadArrives ==
  ASSUME TypeOK, NEW w \in Procs, RecordRead(w)
  PROVE  RecoveryControl
<1>1. results \in Seq(EscrowResult) /\ task \in TaskRecord /\ "failed" \in States
  BY DEF TypeOK, States
<1>2. RecordLabels \subseteq Labels \cap RecoveryLabels
  BY DEF RecordLabels, Labels, RecoveryLabels
<1>3. ASSUME NEW r \in Nat, NEW rec \in EscrowResult, NEW label \in RecordLabels,
             NEW then \in RecordLabels \cup {"idle"},
             Goto(w, label, [Nothing EXCEPT !.result = r, !.rec = rec, !.then = then]),
             r \in DOMAIN results', rec.gen = results'[r].gen
      PROVE  RecoveryControl
  <2> DEFINE mem == [Nothing EXCEPT !.result = r, !.rec = rec, !.then = then]
  <2>1. /\ mem \in Memory /\ mem.result = r /\ mem.rec = rec /\ mem.then = then
    <3>1. then \in Labels /\ Nothing \in Memory
      BY <1>2, NothingTyped DEF Labels
    <3>2. QED
      BY <3>1 DEF Memory
  <2> HIDE DEF mem
  <2>2. Goto(w, label, mem)
    BY <1>3 DEF mem
  <2>3. label # "retry" /\ label # "failLost"
    BY <1>3 DEF RecordLabels
  <2>4. Arrives(w, label, mem)
    BY <1>2, <1>3, <2>1, <2>2, <2>3 DEF Arrives, Recalls
  <2>5. QED
    BY <1>2, <2>1, <2>4 DEF RecoveryControl
<1>4. ASSUME NEW r \in LinkedEscrow, NEW then \in {"recordLink", "idle"},
             Goto(w, "recordSave", [Nothing EXCEPT !.result = r,
                    !.rec = [results[r] EXCEPT !.sup = "failed"], !.then = then]),
             UNCHANGED results
      PROVE  RecoveryControl
  <2>1. r \in Nat /\ r \in DOMAIN results /\ results[r] \in EscrowResult
    BY EscrowTyped
  <2>2. /\ [results[r] EXCEPT !.sup = "failed"] \in EscrowResult
        /\ [results[r] EXCEPT !.sup = "failed"].gen = results[r].gen
    BY <1>1, <2>1 DEF EscrowResult
  <2>3. "recordSave" \in RecordLabels /\ then \in RecordLabels \cup {"idle"}
    BY DEF RecordLabels
  <2>4. QED
    BY <1>3, <1>4, <2>1, <2>2, <2>3
<1>5. ASSUME NEW label \in RecordLabels, NEW then \in RecordLabels \cup {"idle"},
             Goto(w, label, [Nothing EXCEPT !.result = Len(results) + 1,
                    !.rec = FailureResult("failed"), !.then = then]),
             results' = Append(results, [FailureResult("failed") EXCEPT !.saved = FALSE])
      PROVE  RecoveryControl
  <2>1. FailureResult("failed") \in EscrowResult
    BY <1>1, FailureResultTyped
  <2>2. [FailureResult("failed") EXCEPT !.saved = FALSE].gen = FailureResult("failed").gen
    BY DEF FailureResult
  <2>3. /\ Len(results) + 1 \in Nat /\ Len(results) + 1 \in DOMAIN results'
        /\ results'[Len(results) + 1] = [FailureResult("failed") EXCEPT !.saved = FALSE]
    BY <1>1, <1>5
  <2>4. QED
    BY <1>3, <1>5, <2>1, <2>2, <2>3
<1>6. QED
  BY <1>4, <1>5 DEF RecordRead, RecordLabels

LEMMA RecoveryArrives ==
  ASSUME TypeOK, RecoveryMemory, RecoveryStep
  PROVE  RecoveryControl
<1>1. Controllers \subseteq Procs /\ Workers \subseteq Procs
  BY DEF Procs
<1>2. LogEffect
  BY RecoveryLog
<1>3. ASSUME NEW c \in Controllers, Recover(c)
      PROVE  RecoveryControl
  <2>1. CASE RecoverRead(c)
    <3>1. CASE Goto(c, "relinkCheckpoint", [Nothing EXCEPT !.result = Len(checkpoints)])
      <4>1. Len(checkpoints) \in Nat
        BY DEF TypeOK
      <4>2. /\ [Nothing EXCEPT !.result = Len(checkpoints)] \in Memory
            /\ [Nothing EXCEPT !.result = Len(checkpoints)].then = "idle"
        BY <4>1, NothingTyped DEF Memory
      <4>3. QED
        BY <1>1, <3>1, <4>2, PlainArrival
    <3>2. CASE Decide(c)
      BY <1>1, <2>1, <3>2, DecideArrives DEF RecoverRead
    <3>3. QED
      BY <2>1, <3>1, <3>2 DEF RecoverRead
  <2>2. CASE RecoverOn(c)
    BY <1>1, <2>2, DecideArrives, Returns DEF RecoverOn
  <2>3. CASE RelinkCheckpoint(c) \/ RelinkResult(c)
    BY <1>1, <2>3, NothingTyped, PlainArrival DEF RelinkCheckpoint, RelinkResult
  <2>4. CASE ReviewLink(c)
    BY <1>1, <2>4, NothingTyped, PlainArrival, Returns DEF ReviewLink
  <2>5. CASE Repair(c) \/ FailTask(c) \/ FailLost(c) \/ ResumeAfterReceipt(c) \/ ReviewEnd(c)
    BY <1>1, <2>5, Returns DEF Repair, FailTask, FailLost, ResumeAfterReceipt, ReviewEnd
  <2>6. QED
    BY <1>3, <2>1, <2>2, <2>3, <2>4, <2>5 DEF Recover
<1>4. ASSUME NEW c \in Controllers, ResolveRead(c) \/ ResolveReview(c)
      PROVE  RecoveryControl
  BY <1>1, <1>4, NothingTyped, PlainArrival, Returns DEF ResolveRead, ResolveReview
<1>5. ASSUME NEW c \in Controllers, Lookup(c)
      PROVE  RecoveryControl
  <2>1. PICK r \in EscrowByExecution :
          Goto(c, "repair", [Nothing EXCEPT !.result = r, !.rec = Repaired(results[r])])
    BY <1>5 DEF Lookup
  <2>2. r \in 1..Len(results) /\ Repaired(results[r]) \in EscrowResult
    BY EscrowTyped, OutcomesTyped
  <2>3. QED
    BY <1>1, <1>5, <2>1, <2>2, RepairArrival DEF Lookup
<1>6. ASSUME NEW w \in Workers, Record(w)
      PROVE  RecoveryControl
  <2>1. CASE RecordRead(w)
    BY <1>1, <2>1, RecordReadArrives
  <2>2. CASE RecordLink(w)
    BY <1>1, <1>2, <2>2, ProceedArrives DEF RecordLink, At, RecordLabels
  <2>3. CASE RecordSave(w)
    BY <1>1, <1>2, <2>3, ProceedArrives, Returns DEF RecordSave, At, RecordLabels
  <2>4. QED
    BY <1>6, <2>1, <2>2, <2>3 DEF Record
<1>7. QED
  BY <1>3, <1>4, <1>5, <1>6 DEF RecoveryStep

----------------------------------------------------------------------------
(* The inductive invariant *)

\* A checkpoint that will come back to a state that stands for an outcome interrupted
\* such a state, so the task names a result.
CheckpointsNamed ==
  \A p \in Procs :
    pc[p] \in {"ckBegin", "ckPersist"} /\ seen[p].state \in NamedStates => task.result # 0

\* What the processes remember beyond the types, and what a task has to show.
Recollections == RecoveryMemory /\ CheckpointsTarget /\ RetriesReturn /\ CheckpointsNamed

RecoveryInv == TypeInv /\ Recollections /\ NamedOutcome

LEMMA InitRecovery ==
  ASSUME Init
  PROVE  RecoveryInv
<1>1. TypeInv
  BY InitLedger DEF LedgerInv
<1>2. task.state = "created" /\ pc = [p \in Procs |-> "idle"]
  BY DEF Init
<1>3. QED
  BY <1>1, <1>2 DEF RecoveryInv, Recollections, RecoveryMemory, Recalls, RecordLabels,
     CheckpointsTarget, RetriesReturn, CheckpointsNamed, NamedOutcome, NamedStates

\* What a process that stays where it is remembers goes on being so.
LEMMA RecallsKept ==
  ASSUME TypeOK, LogEffect, NEW label, NEW mem, Recalls(label, mem, results)
  PROVE  Recalls(label, mem, results')
<1>1. /\ results \in Seq(EscrowResult) /\ results' \in Seq(EscrowResult)
      /\ DOMAIN results \subseteq DOMAIN results'
      /\ \A r \in DOMAIN results : results'[r].gen = results[r].gen
  BY DEF TypeOK, LogEffect
<1>2. QED
  BY <1>1 DEF Recalls, RecordLabels

\* A process goes on with what the invariant asks it to remember.
Turns(p, label, mem) ==
  /\ Goto(p, label, mem)
  /\ Recalls(label, mem, results')
  /\ label = "retry" => mem.state \in {"retry_scheduled", "replanning"}
  /\ label = "ckBegin" => mem.state = task.state /\ task.state \in CheckpointStates
  /\ label = "ckPersist" => pc[p] = "ckBegin" /\ mem = seen[p]

\* Then the recollections of all of them are kept.
LEMMA RecollectionsKept ==
  ASSUME RecoveryInv, LogEffect, task.result # 0 => task'.result # 0,
         \/ UNCHANGED <<pc, seen>>
         \/ \E p \in Procs, label \in Labels, mem \in Memory : Turns(p, label, mem)
  PROVE  Recollections'
<1>1. /\ TypeOK /\ RecoveryMemory /\ CheckpointsTarget /\ RetriesReturn /\ CheckpointsNamed
      /\ NamedOutcome
      /\ pc \in [Procs -> Labels] /\ seen \in [Procs -> Memory]
  BY DEF RecoveryInv, Recollections, TypeInv, TypeOK
<1>2. \A q \in Procs : Recalls(pc[q], seen[q], results')
  BY <1>1, RecallsKept DEF RecoveryMemory
<1>3. CASE UNCHANGED <<pc, seen>>
  <2>1. RecoveryMemory'
    BY <1>2, <1>3 DEF RecoveryMemory
  <2>2. CheckpointsTarget' /\ RetriesReturn' /\ CheckpointsNamed'
    BY <1>1, <1>3 DEF CheckpointsTarget, RetriesReturn, CheckpointsNamed
  <2>3. QED
    BY <2>1, <2>2 DEF Recollections
<1>4. ASSUME NEW p \in Procs, NEW label \in Labels, NEW mem \in Memory, Turns(p, label, mem)
      PROVE  Recollections'
  <2>1. /\ pc'[p] = label /\ seen'[p] = mem
        /\ \A q \in Procs \ {p} : pc'[q] = pc[q] /\ seen'[q] = seen[q]
    BY <1>1, <1>4 DEF Goto, Turns
  <2>2. RecoveryMemory'
    BY <1>2, <1>4, <2>1 DEF RecoveryMemory, Turns
  <2>3. RetriesReturn'
    BY <1>1, <1>4, <2>1 DEF Turns, RetriesReturn
  <2>4. CheckpointsTarget'
    BY <1>1, <1>4, <2>1 DEF Turns, CheckpointsTarget
  <2>5. CheckpointsNamed'
    BY <1>1, <1>4, <2>1 DEF Turns, CheckpointsNamed, NamedOutcome
  <2>6. QED
    BY <2>2, <2>3, <2>4, <2>5 DEF Recollections
<1>5. QED
  BY <1>3, <1>4

LEMMA NextRecovery ==
  ASSUME RecoveryInv, Next
  PROVE  RecoveryInv'
<1>1. TypeInv /\ TypeOK /\ Remembered /\ Recollections /\ RetriesReturn /\ CheckpointsNamed /\ NamedOutcome
  BY DEF RecoveryInv, TypeInv, Recollections
<1>2. TypeInv' /\ ControlEffect /\ LogEffect /\ OutcomeEffect
  BY <1>1, NextTypeInv, StepEffects, LogStep, OutcomeStep
<1>3. ASSUME NEW p \in Procs, NEW label \in Labels, NEW mem \in Memory, Reaches(p, label, mem)
      PROVE  Turns(p, label, mem)
  <2>1. label \notin RecordLabels \cup {"repair", "relinkResult", "failLost"}
    BY <1>3 DEF Reaches, RecordLabels, RecoveryLabels
  <2>2. Recalls(label, mem, results')
    BY <2>1 DEF Recalls
  <2>3. QED
    BY <1>3, <2>2 DEF Reaches, Turns
<1>4. task.result # 0 => task'.result # 0
  BY <1>2 DEF OutcomeEffect
<1>5. Recollections'
  BY <1>2, <1>3, <1>4, RecollectionsKept DEF ControlEffect
<1>6. NamedOutcome'
  BY <1>1, <1>2 DEF OutcomeEffect, NamedOutcome, CheckpointsNamed, Procs
<1>7. QED
  BY <1>2, <1>5, <1>6 DEF RecoveryInv

LEMMA StepRecovery ==
  ASSUME RecoveryInv, RecoveryStep
  PROVE  RecoveryInv'
<1>1. /\ TypeOK /\ Remembered /\ ReturnsTo /\ RecoveryMemory /\ NamedOutcome
      /\ pc \in [Procs -> Labels] /\ seen \in [Procs -> Memory]
      /\ held \in [Workers -> 0..task.gen] /\ checkpoints \in Seq(Nat)
      /\ results \in Seq(EscrowResult)
  BY DEF RecoveryInv, TypeInv, Recollections, TypeOK
<1>2. RecoveryEffect /\ LogEffect /\ UNCHANGED <<checkpoints, held>> /\ RecoveryControl
  BY <1>1, RecoveryTask, RecoveryLog, RecoveryArrives
<1>3. PICK p \in Procs, label \in Labels, mem \in Memory : Arrives(p, label, mem)
  BY <1>2 DEF RecoveryControl
<1>4. /\ pc'[p] = label /\ seen'[p] = mem
      /\ \A q \in Procs \ {p} : pc'[q] = pc[q] /\ seen'[q] = seen[q]
      /\ pc' \in [Procs -> Labels] /\ seen' \in [Procs -> Memory]
  BY <1>1, <1>3 DEF Arrives, Goto
<1>5. TypeOK'
  BY <1>1, <1>2, <1>4 DEF TypeOK, RecoveryEffect, LogEffect
<1>6. label \notin {"publish", "verSave", "ckBegin", "ckPersist"}
  BY <1>3 DEF Arrives, RecoveryLabels
<1>7. Remembered'
  <2>1. /\ DOMAIN results \subseteq DOMAIN results'
        /\ \A r \in DOMAIN results : results'[r].gen = results[r].gen
    BY <1>1, <1>2 DEF LogEffect
  <2>2. QED
    BY <1>1, <1>4, <1>6, <2>1 DEF Remembered
<1>8. ReturnsTo'
  BY <1>1, <1>3, <1>4 DEF Arrives, ReturnsTo
<1>9. task.result # 0 => task'.result # 0
  BY <1>2 DEF RecoveryEffect
<1>10. Recollections'
  <2>1. Turns(p, label, mem)
    BY <1>3, <1>6 DEF Arrives, Turns
  <2>2. QED
    BY <1>2, <1>9, <2>1, RecollectionsKept
<1>11. NamedOutcome'
  BY <1>1, <1>2 DEF RecoveryEffect, NamedOutcome
<1>12. QED
  BY <1>5, <1>7, <1>8, <1>10, <1>11 DEF RecoveryInv, TypeInv

LEMMA StutterRecovery ==
  ASSUME RecoveryInv, UNCHANGED vars
  PROVE  RecoveryInv'
<1>1. TypeInv'
  BY DEF RecoveryInv, TypeInv, TypeOK, Remembered, ReturnsTo, vars
<1>2. QED
  BY <1>1 DEF RecoveryInv, Recollections, RecoveryMemory, CheckpointsTarget, RetriesReturn,
     CheckpointsNamed, NamedOutcome, vars

LEMMA RecoverySplit ==
  ASSUME RecoveryNext
  PROVE  Next \/ RecoveryStep
  BY DEF RecoveryNext, RecoveryStep

\* RecoveryInv holds in every state the supervisor and its recovery reach together.
THEOREM RecoveryInvariant == RecoverySpec => []RecoveryInv
<1>1. Init => RecoveryInv
  BY InitRecovery
<1>2. RecoveryInv /\ [RecoveryNext]_vars => RecoveryInv'
  BY NextRecovery, StepRecovery, StutterRecovery, RecoverySplit
<1>3. QED
  BY <1>1, <1>2, PTL DEF RecoverySpec

----------------------------------------------------------------------------
(* The supervisor with its recovery implements AttemptLedger *)

LEMMA LedgerInit ==
  ASSUME Init
  PROVE  Ledger!Init
<1>1. /\ task.gen = 0 /\ task.lease = NoLease /\ results = <<>> /\ checkpoints = <<>>
      /\ held = [w \in Workers |-> 0]
  BY DEF Init
<1>2. Bearers = {} /\ Live = FALSE
  BY <1>1 DEF Bearers, Live, NoLease
<1>3. ResultAttempts = <<>>
  BY <1>1 DEF ResultAttempts
<1>4. QED
  BY <1>1, <1>2, <1>3 DEF Ledger!Init

\* The attempts of the records grow by that of the moment, if they grow.
LEMMA AttemptsGrow ==
  ASSUME TypeOK, LogEffect
  PROVE  ResultAttempts' \in {ResultAttempts, Append(ResultAttempts, task.gen)}
<1>1. /\ results \in Seq(EscrowResult) /\ results' \in Seq(EscrowResult) /\ task.gen \in Nat
      /\ \A r \in 1..Len(results) : results'[r].gen = results[r].gen
  BY DEF TypeOK, TaskRecord, LogEffect
<1>2. /\ DOMAIN results = 1..Len(results) /\ DOMAIN results' = 1..Len(results')
      /\ Len(results) \in Nat
      /\ \A r \in 1..Len(results) : results[r] \in EscrowResult
  BY <1>1
<1>3. ResultAttempts \in Seq(Nat) /\ Len(ResultAttempts) = Len(results)
  <2>1. ResultAttempts \in [1..Len(results) -> Nat]
    BY <1>2 DEF ResultAttempts, EscrowResult
  <2>2. QED
    BY <1>2, <2>1
<1>4. CASE Len(results') = Len(results)
  BY <1>1, <1>2, <1>4 DEF ResultAttempts
<1>5. CASE Len(results') = Len(results) + 1 /\ results'[Len(results) + 1].gen = task.gen
  <2> DEFINE after == Append(ResultAttempts, task.gen)
  <2>1. /\ after \in [1..Len(results)+1 -> Nat]
        /\ \A r \in 1..Len(results) : after[r] = ResultAttempts[r]
        /\ after[Len(results) + 1] = task.gen
    <3>1. /\ after \in Seq(Nat) /\ Len(after) = Len(ResultAttempts) + 1
          /\ \A r \in 1..Len(ResultAttempts) : after[r] = ResultAttempts[r]
          /\ after[Len(ResultAttempts) + 1] = task.gen
      BY <1>1, <1>3, AppendProperties
    <3> HIDE DEF after
    <3>2. QED
      BY <1>3, <3>1
  <2> HIDE DEF after
  <2>2. \A r \in 1..Len(results)+1 : results'[r].gen = after[r]
    BY <1>1, <1>2, <1>5, <2>1 DEF ResultAttempts
  <2>3. ResultAttempts' = [r \in 1..Len(results)+1 |-> results'[r].gen]
    BY <1>2, <1>5 DEF ResultAttempts
  <2>4. ResultAttempts' = after
    BY <2>1, <2>2, <2>3
  <2>5. QED
    BY <2>4 DEF after
<1>6. QED
  BY <1>4, <1>5 DEF LogEffect

\* The checkpoints of a step are unchanged, or grow by that of the live attempt.
LEMMA CheckpointsGrow ==
  ASSUME CheckpointsEffect
  PROVE  \/ checkpoints' = checkpoints
         \/ Live /\ Bearers # {} /\ checkpoints' = Append(checkpoints, task.gen)
  BY DEF CheckpointsEffect, HoldsLease, Live, Bearers

LEMMA NextImplements ==
  ASSUME RecoveryInv, Next
  PROVE  Ledger!Next
<1>1. /\ TypeOK /\ TypeInv /\ Remembered
      /\ task.gen \in Nat /\ held \in [Workers -> 0..task.gen]
  BY DEF RecoveryInv, TypeInv, TypeOK, TaskRecord
<1>2. LiveEffect /\ HeldEffect /\ CheckpointsEffect /\ LogEffect
  BY <1>1, LiveStep, StepEffects, LogStep
<1>3. CASE Grants
  <2>1. PICK w \in Workers : held' = [held EXCEPT ![w] = task.gen + 1]
    BY <1>3 DEF Grants
  <2>2. Bearers' = {w}
    BY <1>1, <1>3, <2>1 DEF Grants, Bearers
  <2>3. Live' = TRUE /\ ~Live
    BY <1>3 DEF Grants, Live
  <2>4. ResultAttempts' = ResultAttempts
    BY <1>3 DEF Grants, ResultAttempts
  <2>5. Ledger!Grant(w)
    BY <1>3, <2>2, <2>3, <2>4 DEF Ledger!Grant, Grants
  <2>6. QED
    BY <2>5 DEF Ledger!Next
<1>4. CASE Carries
  <2>1. Bearers' \subseteq Bearers
    BY <1>1, <1>2, <1>4 DEF Carries, HeldEffect, Bearers
  <2>2. held' = held => Bearers' = Bearers
    BY <1>4 DEF Carries, Bearers
  <2>3. Live' \in BOOLEAN /\ (Live' => Live \/ Bearers' # {})
    BY <1>4, <2>2 DEF Carries, Live
  <2>4. Ledger!Carry
    BY <1>4, <2>1, <2>3 DEF Carries, Ledger!Carry
  <2>5. ResultAttempts' \in {ResultAttempts, Append(ResultAttempts, task.gen)}
    BY <1>1, <1>2, AttemptsGrow
  <2>6. results' = results => ResultAttempts' = ResultAttempts
    BY DEF ResultAttempts
  <2>7. Ledger!Write
    BY <1>2, <2>5, <2>6, OneLog, CheckpointsGrow DEF Ledger!Write
  <2>8. QED
    BY <2>4, <2>7 DEF Ledger!Next
<1>5. QED
  BY <1>2, <1>3, <1>4 DEF LiveEffect

LEMMA RecoveryImplements ==
  ASSUME RecoveryInv, RecoveryStep
  PROVE  Ledger!Next
<1>1. TypeOK /\ RecoveryMemory /\ task \in TaskRecord
  BY DEF RecoveryInv, TypeInv, Recollections, TypeOK
<1>2. RecoveryEffect /\ LogEffect /\ UNCHANGED <<checkpoints, held>>
  BY <1>1, RecoveryTask, RecoveryLog
<1>3. task'.gen = task.gen /\ Bearers' = Bearers
  BY <1>2 DEF RecoveryEffect, Bearers
<1>4. Live' \in BOOLEAN /\ (Live' => Live)
  BY <1>1, <1>2 DEF RecoveryEffect, Live, NoLease
<1>5. Ledger!Carry
  BY <1>3, <1>4 DEF Ledger!Carry
<1>6. Ledger!Write
  BY <1>1, <1>2, AttemptsGrow DEF Ledger!Write
<1>7. QED
  BY <1>5, <1>6 DEF Ledger!Next

LEMMA StutterImplements ==
  ASSUME UNCHANGED vars
  PROVE  UNCHANGED Ledger!vars
  BY DEF vars, Ledger!vars, Bearers, Live, ResultAttempts

\* The supervisor implements AttemptLedger also where recover, the read repair and
\* record_terminal_result write beside it.
THEOREM RecoveryKeepsLedger == RecoverySpec => LedgerKept
<1>1. Init => Ledger!Init
  BY LedgerInit
<1>2. RecoveryInv /\ [RecoveryNext]_vars => [Ledger!Next]_(Ledger!vars)
  BY RecoverySplit, NextImplements, RecoveryImplements, StutterImplements
<1>3. QED
  BY <1>1, <1>2, RecoveryInvariant, PTL DEF RecoverySpec, LedgerKept, Ledger!Spec

\* A behaviour of the supervisor is one of the supervisor with its recovery ...
LEMMA SpecIsRecovery == Spec => RecoverySpec
<1>1. [Next]_vars => [RecoveryNext]_vars
  BY DEF RecoveryNext
<1>2. QED
  BY <1>1, PTL DEF Spec, RecoverySpec

\* ... so it implements AttemptLedger too: no interleaving of its workers, controllers
\* and crashes, for any number of them, lets an attempt have two workers or a late one
\* write.
THEOREM SupervisorKeepsLedger == Spec => LedgerKept
  BY SpecIsRecovery, RecoveryKeepsLedger, PTL

----------------------------------------------------------------------------
(* What holds with recovery *)

\* Recovery and record_terminal_result write nothing that models.py does not allow, and
\* link nothing that was not created.
THEOREM RecoveryTypes == RecoverySpec => []TypeOK
<1>1. RecoveryInv => TypeOK
  BY DEF RecoveryInv, TypeInv
<1>2. QED
  BY <1>1, RecoveryInvariant, PTL

\* One worker writes under a lease, whatever recover writes without one: read off
\* AttemptLedger.
THEOREM RecoveryOneAuthority == RecoverySpec => []OneAuthority
<1>1. Ledger!OneBearer => OneAuthority
  BY DEF Ledger!OneBearer, Bearers, OneAuthority, HoldsLease
<1>2. QED
  BY <1>1, RecoveryKeepsLedger, Ledger!LedgerFences, PTL DEF LedgerKept

\* Records stay in the order of their attempts also when record_terminal_result adds
\* one without a lease and saves whole records from memory: read off AttemptLedger.
THEOREM RecoveryWritesAreFenced == RecoverySpec => []FencedWrites
<1>1. Ledger!InOrder => FencedWrites
  BY DEF Ledger!InOrder, ResultAttempts, FencedWrites
<1>2. QED
  BY <1>1, RecoveryKeepsLedger, Ledger!LedgerFences, PTL DEF LedgerKept

\* No process, from however old a copy it saves, changes the attempt on a record.
THEOREM ProvenanceIsKept == RecoverySpec => ProvenanceKept
<1>1. RecoveryInv /\ [RecoveryNext]_vars =>
        [\A r \in DOMAIN results : results'[r].gen = results[r].gen]_vars
  <2>1. SUFFICES ASSUME RecoveryInv, RecoveryNext
                 PROVE  \A r \in DOMAIN results : results'[r].gen = results[r].gen
    OBVIOUS
  <2>2. TypeOK /\ Remembered /\ RecoveryMemory /\ DOMAIN results = 1..Len(results)
    BY <2>1 DEF RecoveryInv, TypeInv, Recollections, TypeOK
  <2>3. LogEffect
    BY <2>1, <2>2, LogStep, RecoveryLog, RecoverySplit
  <2>4. QED
    BY <2>2, <2>3 DEF LogEffect
<1>2. QED
  BY <1>1, RecoveryInvariant, PTL DEF RecoverySpec, ProvenanceKept

\* A task that claims completion, is completed, cancelled or sent to review names a
\* result, although recover moves it from wherever it has got to.
THEOREM OutcomesAreNamed == RecoverySpec => []NamedOutcome
<1>1. RecoveryInv => NamedOutcome
  BY DEF RecoveryInv
<1>2. QED
  BY <1>1, RecoveryInvariant, PTL

\* Where no batch is waited for, a task that recover requeues or sends to a retry, from
\* whatever state, carries no lease that would hold the next worker off.
THEOREM RecoveredTasksAreFree ==
  ASSUME "batch" \notin Suspensions
  PROVE  RecoverySpec => []OfferedTasksAreFree
<1> DEFINE Inv == task.wait # "batch" /\ OfferedTasksAreFree
<1>1. Init => Inv
  BY DEF Init, NoLease, OfferedTasksAreFree
<1>2. RecoveryInv /\ Inv /\ [RecoveryNext]_vars => Inv'
  <2>1. SUFFICES ASSUME RecoveryInv, Inv, [RecoveryNext]_vars PROVE Inv'
    OBVIOUS
  <2>2. /\ TypeOK /\ RecoveryMemory /\ CheckpointsTarget /\ task.lease \in Int
    BY <2>1, BoundAssumption DEF RecoveryInv, TypeInv, Recollections, TypeOK, TaskRecord, NoLease
  <2>3. CASE Next
    <3>1. LeaseEffect
      BY <2>2, <2>3, LeaseStep
    <3>2. QED
      BY <2>1, <2>2, <3>1 DEF LeaseEffect, OfferedTasksAreFree, Offered
  <2>4. CASE RecoveryStep
    <3>1. RecoveryEffect
      BY <2>2, <2>4, RecoveryTask
    <3>2. QED
      BY <2>1, <3>1 DEF RecoveryEffect, OfferedTasksAreFree, Offered, NoLease
  <2>5. CASE UNCHANGED vars
    BY <2>1, <2>5 DEF vars, OfferedTasksAreFree
  <2>6. QED
    BY <2>1, <2>3, <2>4, <2>5, RecoverySplit
<1>3. QED
  BY <1>1, <1>2, RecoveryInvariant, PTL DEF RecoverySpec
=============================================================================
