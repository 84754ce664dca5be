--------------------- MODULE ExecutionSupervisorProofs ---------------------
(***************************************************************************)
(* What the supervisor promises, for every number of workers, controllers, *)
(* items, attempts, results, checkpoints and retries.                      *)
(*                                                                         *)
(* LedgerInv is inductive: an attempt belongs to one worker (HeldOnce), no *)
(* record is dated after the attempt the task is in (Dated), what the task *)
(* names was recorded (Recorded), and records come in the order of their   *)
(* attempts (FencedWrites).  ClaimInv adds where a checkpoint and a retry  *)
(* under way will come back to, which makes CurrentClaim and               *)
(* TerminalOutcome inductive.                                              *)
(*                                                                         *)
(* The steps are first reduced to what they may do to one part of the      *)
(* state (FilesEffect, HeldEffect, CheckpointsEffect, ControlEffect,       *)
(* LinksEffect, ClaimEffect), one case per action; the invariants follow   *)
(* from the effects without looking at the actions again.                  *)
(***************************************************************************)
EXTENDS ExecutionSupervisor, SequenceTheorems, TLAPS

----------------------------------------------------------------------------
(* What the operators on the task record keep *)

LEMMA RequeuedTyped ==
  ASSUME NEW t \in TaskRecord
  PROVE  Requeued(t) \in TaskRecord
  BY DEF Requeued, TaskRecord, States, Waits

LEMMA EndedTyped ==
  ASSUME NEW t \in TaskRecord, NEW target \in States, NEW r \in Nat
  PROVE  Ended(t, target, r) \in TaskRecord
  BY DEF Ended, TaskRecord, Waits

LEMMA PausedTyped ==
  ASSUME NEW t \in TaskRecord, NEW reason \in {t.wait} \cup (Suspensions \cap {"human"})
  PROVE  /\ [t EXCEPT !.state = "waiting", !.wait = reason] \in TaskRecord
         /\ [t EXCEPT !.state = "waiting", !.wait = reason].state = "waiting"
         /\ [t EXCEPT !.state = "waiting", !.wait = reason].result = t.result
<1>1. reason \in Waits
  BY DEF TaskRecord, Waits
<1>2. QED
  BY <1>1 DEF TaskRecord, States

LEMMA RescheduledTyped ==
  ASSUME NEW t \in TaskRecord, NEW target \in States
  PROVE  Rescheduled(t, target) \in TaskRecord
<1>1. t.retries + 1 \in Nat
  BY DEF TaskRecord
<1>2. QED
  BY <1>1 DEF Rescheduled, TaskRecord

LEMMA ReportedTyped ==
  ASSUME NEW t \in TaskRecord, NEW verdict \in Verdicts
  PROVE  Reported(t, verdict) \in TaskRecord
  BY DEF Reported, TaskRecord, States

LEMMA FailureResultTyped ==
  ASSUME task \in TaskRecord, NEW target \in States
  PROVE  /\ FailureResult(target) \in EscrowResult
         /\ FailureResult(target).gen = task.gen
         /\ FailureResult(target).saved
  BY DEF FailureResult, TaskRecord, EscrowResult, Verdicts

\* The links of a task in LinkedEscrow are results that exist.
LEMMA EscrowIsResults ==
  ASSUME results \in Seq(EscrowResult), index \in 0..Len(results)
  PROVE  /\ Escrowed \subseteq 1..Len(results)
         /\ LinkedEscrow \subseteq 1..Len(results)
  BY DEF Escrowed, LinkedEscrow, EscrowByExecution

LEMMA EndTaskTyped ==
  ASSUME TypeOK, NEW target \in States, EndTask(target)
  PROVE  task' \in TaskRecord
<1>1. task \in TaskRecord /\ results \in Seq(EscrowResult) /\ index \in 0..Len(results)
  BY DEF TypeOK
<1>2. task.result \in Nat
  BY <1>1 DEF TaskRecord
<1>3. Len(results) + 1 \in Nat
  BY <1>1
<1>4. LinkedEscrow \subseteq Nat
  BY <1>1, EscrowIsResults
<1>5. \E r \in Nat : task' = Ended(task, target, r)
  BY <1>2, <1>3, <1>4 DEF EndTask
<1>6. QED
  BY <1>1, <1>5, EndedTyped

----------------------------------------------------------------------------
(* Type correctness *)

\* What a process remembers of a record it is about to save again.
Remembered ==
  \A p \in Procs : pc[p] \in {"publish", "verSave"} =>
    /\ seen[p].result \in DOMAIN results
    /\ seen[p].rec.saved
    /\ seen[p].rec.gen = results[seen[p].result].gen

LEMMA TaskTyped ==
  ASSUME TypeOK, Next
  PROVE  task' \in TaskRecord
<1>1. task \in TaskRecord /\ results \in Seq(EscrowResult) /\ Len(results) \in Nat
  BY DEF TypeOK
<1>2. \A p \in Procs : seen[p].state \in States /\ seen[p].rec.ver \in Verdicts
  BY DEF TypeOK, Memory, EscrowResult
<1>0. task.gen + 1 \in Nat /\ Len(results) + 1 \in Nat /\ LeaseTicks \in 0..LeaseTicks
  BY <1>1, BoundAssumption DEF TaskRecord
<1>3. ASSUME NEW w \in Workers, Work(w)
      PROVE  task' \in TaskRecord
  <2>1. CASE Acquire(w)
    BY <1>0, <1>1, <2>1 DEF Acquire, TaskRecord, States
  <2>2. CASE AcquireOverdue(w)
    BY <2>2, EndTaskTyped DEF AcquireOverdue, States
  <2>3. CASE Start(w)
    BY <1>1, <2>3 DEF Start, TaskRecord, States
  <2>4. CASE Release(w)
    BY <1>1, <2>4, RequeuedTyped DEF Release
  <2>5. CASE ResumeRunning(w)
    BY <1>0, <1>1, <2>5 DEF ResumeRunning, TaskRecord, States
  <2>6. CASE MarkIrreversible(w)
    BY <1>1, <2>6 DEF MarkIrreversible, TaskRecord
  <2>7. CASE CheckpointBegin(w)
    BY <1>1, <2>7 DEF CheckpointBegin, TaskRecord, States
  <2>8. CASE CheckpointPersist(w)
    <3>1. seen[w].state \in States /\ Len(checkpoints) + 1 \in Nat
      BY <1>2 DEF Procs, TypeOK
    <3>2. QED
      BY <1>1, <2>8, <3>1 DEF CheckpointPersist, TaskRecord
  <2>9. CASE SubmitEscrow(w)
    <3>1. PICK target \in States :
            task' = [task EXCEPT !.state = target, !.result = Len(results) + 1]
      BY <2>9 DEF SubmitEscrow
    <3>2. QED
      BY <1>0, <1>1, <3>1 DEF TaskRecord
  <2>10. CASE SuspendForBatch(w)
    BY <1>1, <2>10 DEF SuspendForBatch, TaskRecord, States, Waits
  <2>11. CASE ReleaseCheck(w) \/ CheckpointRequest(w) \/ SubmitPublish(w)
    BY <1>1, <2>11 DEF ReleaseCheck, CheckpointRequest, SubmitPublish
  <2>12. QED
    BY <1>3, <2>1, <2>2, <2>3, <2>4, <2>5, <2>6, <2>7, <2>8, <2>9, <2>10, <2>11 DEF Work
<1>4. ASSUME NEW p \in Procs, Verify(p)
      PROVE  task' \in TaskRecord
  <2>1. CASE VerifyApply(p)
    BY <1>1, <1>2, <2>1, ReportedTyped DEF VerifyApply
  <2>2. CASE VerifyRead(p) \/ VerifyRaises(p) \/ \E v \in {"passed", "failed"} : VerifySave(p, v)
    BY <1>1, <2>2 DEF VerifyRead, VerifyRaises, VerifySave
  <2>3. QED
    BY <1>4, <2>1, <2>2 DEF Verify
<1>5. ASSUME NEW c \in Controllers, Steer(c)
      PROVE  task' \in TaskRecord
  <2>1. CASE Queue(c) \/ Requeue(c)
    BY <1>1, <2>1, RequeuedTyped DEF Queue, Requeue
  <2>2. CASE ReopenCompleted(c)
    BY <1>1, <2>2 DEF ReopenCompleted, TaskRecord, States, Verdicts
  <2>12. CASE FinalizeOverrun(c)
    BY <1>1, <2>12 DEF FinalizeOverrun, TaskRecord, States
  <2>15. CASE Pause(c)
    BY <1>1, <2>15, PausedTyped DEF Pause
  <2>13. CASE CancelRequest(c)
    BY <1>1, <2>13 DEF CancelRequest, TaskRecord, States
  <2>3. CASE CancelFinish(c)
    <3>1. task.result \in Nat /\ Len(results) + 1 \in Nat /\ "cancelled" \in States
      BY <1>1 DEF TaskRecord, States
    <3>2. QED
      BY <1>1, <2>3, <3>1, EndedTyped DEF CancelFinish
  <2>4. CASE RetrySchedule(c)
    BY <1>1, <1>2, <2>4, RescheduledTyped DEF RetrySchedule, Procs
  <2>5. CASE \E target \in {"failed", "budget_exhausted"} : Fail(c, target)
    BY <2>5, EndTaskTyped DEF Fail, States
  <2>6. ASSUME NEW item \in InboxItems, SuspendForHumanInput(c, item)
        PROVE  task' \in TaskRecord
    BY <1>1, <2>6 DEF SuspendForHumanInput, TaskRecord, States, Waits
  <2>7. ASSUME NEW item \in InboxItems, ResumeFromHumanInput(c, item)
        PROVE  task' \in TaskRecord
    <3>1. PICK late \in {FALSE, task.overdue} :
            task' = [Requeued(task) EXCEPT !.claims = @ \cup {item}, !.overdue = late]
      BY <2>7 DEF ResumeFromHumanInput
    <3>2. Requeued(task) \in TaskRecord /\ late \in BOOLEAN
      BY <1>1, RequeuedTyped DEF TaskRecord
    <3>3. QED
      BY <3>1, <3>2 DEF TaskRecord
  <2>8. CASE SuspendForConnector(c)
    BY <1>1, <2>8 DEF SuspendForConnector, TaskRecord, States, Waits
  <2>9. CASE ResumeFromConnector(c)
    BY <1>1, <2>9 DEF ResumeFromConnector, TaskRecord, States, Waits
  <2>14. CASE ResumeFromBatch(c)
    BY <1>1, <2>14 DEF ResumeFromBatch, TaskRecord, States, Waits
  <2>10. CASE \/ Reverify(c) \/ AcceptOverrun(c) \/ CancelRead(c)
              \/ RetryDecide(c) \/ ReleaseRetry(c) \/ PauseRead(c)
    BY <1>1, <2>10 DEF Reverify, AcceptOverrun, CancelRead, RetryDecide, ReleaseRetry, PauseRead
  <2>11. QED
    BY <1>5, <2>1, <2>2, <2>3, <2>4, <2>5, <2>6, <2>7, <2>8, <2>9, <2>10,
       <2>12, <2>13, <2>14, <2>15 DEF Steer
<1>6. CASE Faults
  <2>1. CASE Tick
    <3>1. task.lease - 1 \in 0..LeaseTicks
      BY <1>1, <2>1, BoundAssumption DEF Tick, TaskRecord, NoLease
    <3>2. QED
      BY <1>1, <2>1, <3>1 DEF Tick, TaskRecord
  <2>2. CASE DeadlinePasses
    BY <1>1, <2>2 DEF DeadlinePasses, TaskRecord
  <2>3. CASE \E w \in Workers : Heartbeat(w)
    <3>1. task' = [task EXCEPT !.lease = LeaseTicks]
      BY <2>3 DEF Heartbeat
    <3>2. QED
      BY <1>0, <1>1, <3>1 DEF TaskRecord
  <2>4. CASE \/ \E p \in Procs : Crash(p)
             \/ \E w \in Workers : CrashInSubmit(w) \/ CrashInPersist(w)
             \/ \E c \in Controllers, target \in {"failed", "budget_exhausted"} : CrashInEnd(c, target)
    BY <1>1, <2>4 DEF Crash, CrashInSubmit, CrashInPersist, CrashInEnd
  <2>5. QED
    BY <1>6, <2>1, <2>2, <2>3, <2>4 DEF Faults
<1>7. QED
  BY <1>3, <1>4, <1>5, <1>6 DEF Next

----------------------------------------------------------------------------
(* What a step does to each variable *)

\* The record of r is kept, and with it what a process remembers of it.
Kept(mem) ==
  /\ mem.result \in DOMAIN results'
  /\ mem.rec.saved
  /\ mem.rec.gen = results'[mem.result].gen

\* Where a process is in record_terminal_result, of SupervisorRecovery.
RecordLabels == {"recordSave", "recordLink"}

\* A handler that verifies on the way goes back to the caller or to
\* finalize_budget_overrun.
ReturnsTo ==
  \A p \in Procs : pc[p] \notin RecordLabels => seen[p].then \in {"idle", "finalize"}

\* A step leaves the files of results/ alone, adds a terminal record, adds a submitted
\* result, or saves a record again that a process has in memory.
FilesEffect ==
  \/ UNCHANGED <<results, index>>
  \/ \E target \in States : SaveNew(FailureResult(target))
  \/ \E w \in Workers, target \in States :
       /\ MaySubmit(w, target)
       /\ results' = Append(results, ChatResult(w, target))
       /\ index' = index
  \/ \E p \in Procs, rec \in EscrowResult :
       /\ pc[p] \in {"publish", "verSave"}
       /\ SaveAgain(seen[p].result, rec)
       /\ rec.gen = seen[p].rec.gen
       /\ rec.saved = seen[p].rec.saved

LEMMA EndTaskFiles ==
  ASSUME NEW target \in States, EndTask(target)
  PROVE  UNCHANGED <<results, index>> \/ SaveNew(FailureResult(target))
  BY DEF EndTask

LEMMA FilesStep ==
  ASSUME TypeOK, Next
  PROVE  FilesEffect
<1>1. \A p \in Procs : seen[p].rec \in EscrowResult
  BY DEF TypeOK, Memory
<1>2. {"failed", "budget_exhausted", "cancelled"} \subseteq States
  BY DEF States
<1>3. ASSUME NEW w \in Workers, Work(w)
      PROVE  FilesEffect
  <2>1. CASE AcquireOverdue(w)
    BY <1>2, <2>1, EndTaskFiles DEF AcquireOverdue, FilesEffect
  <2>2. CASE SubmitEscrow(w)
    BY <2>2 DEF SubmitEscrow, FilesEffect
  <2>3. CASE SubmitPublish(w)
    BY <1>1, <2>3 DEF SubmitPublish, FilesEffect, At, Procs
  <2>4. CASE \/ Acquire(w) \/ Start(w) \/ ReleaseCheck(w) \/ Release(w)
             \/ ResumeRunning(w) \/ MarkIrreversible(w)
             \/ CheckpointRequest(w) \/ CheckpointBegin(w) \/ CheckpointPersist(w)
             \/ SuspendForBatch(w)
    BY <2>4 DEF Acquire, Start, ReleaseCheck, Release, ResumeRunning, MarkIrreversible,
       CheckpointRequest, CheckpointBegin, CheckpointPersist, SuspendForBatch, FilesEffect
  <2>5. QED
    BY <1>3, <2>1, <2>2, <2>3, <2>4 DEF Work
<1>4. ASSUME NEW p \in Procs, Verify(p)
      PROVE  FilesEffect
  <2>1. ASSUME NEW verdict \in {"passed", "failed"}, VerifySave(p, verdict)
        PROVE  FilesEffect
    <3>1. /\ Judged(seen[p].rec, verdict) \in EscrowResult
          /\ Judged(seen[p].rec, verdict).gen = seen[p].rec.gen
          /\ Judged(seen[p].rec, verdict).saved = seen[p].rec.saved
      BY <1>1 DEF Judged, EscrowResult, Verdicts, States
    <3>2. QED
      BY <2>1, <3>1 DEF VerifySave, FilesEffect, At
  <2>2. CASE VerifyRead(p) \/ VerifyRaises(p) \/ VerifyApply(p)
    BY <2>2 DEF VerifyRead, VerifyRaises, VerifyApply, FilesEffect
  <2>3. QED
    BY <1>4, <2>1, <2>2 DEF Verify
<1>5. ASSUME NEW c \in Controllers, Steer(c)
      PROVE  FilesEffect
  <2>1. CASE CancelFinish(c)
    BY <1>2, <2>1 DEF CancelFinish, FilesEffect
  <2>2. CASE \E target \in {"failed", "budget_exhausted"} : Fail(c, target)
    BY <1>2, <2>2, EndTaskFiles DEF Fail, FilesEffect
  <2>3. CASE \/ Queue(c) \/ Reverify(c) \/ ReopenCompleted(c)
             \/ AcceptOverrun(c) \/ FinalizeOverrun(c)
             \/ CancelRead(c) \/ CancelRequest(c)
             \/ RetryDecide(c) \/ RetrySchedule(c) \/ ReleaseRetry(c) \/ Requeue(c)
             \/ PauseRead(c) \/ Pause(c)
    BY <2>3 DEF Queue, Reverify, ReopenCompleted, AcceptOverrun, FinalizeOverrun,
       CancelRead, CancelRequest, RetryDecide, RetrySchedule, ReleaseRetry, Requeue,
       PauseRead, Pause, FilesEffect
  <2>4. CASE \/ \E item \in InboxItems : SuspendForHumanInput(c, item) \/ ResumeFromHumanInput(c, item)
             \/ SuspendForConnector(c) \/ ResumeFromConnector(c) \/ ResumeFromBatch(c)
    BY <2>4 DEF SuspendForHumanInput, ResumeFromHumanInput, SuspendForConnector,
       ResumeFromConnector, ResumeFromBatch, FilesEffect
  <2>5. QED
    BY <1>5, <2>1, <2>2, <2>3, <2>4 DEF Steer
<1>6. CASE Faults
  <2>1. CASE \E w \in Workers : CrashInSubmit(w)
    BY <2>1 DEF CrashInSubmit, FilesEffect
  <2>2. CASE \E c \in Controllers, target \in {"failed", "budget_exhausted"} : CrashInEnd(c, target)
    BY <1>2, <2>2 DEF CrashInEnd, FilesEffect
  <2>3. CASE \/ Tick \/ DeadlinePasses
             \/ \E p \in Procs : Crash(p)
             \/ \E w \in Workers : Heartbeat(w) \/ CrashInPersist(w)
    BY <2>3 DEF Tick, DeadlinePasses, Crash, Heartbeat, CrashInPersist, FilesEffect
  <2>4. QED
    BY <1>6, <2>1, <2>2, <2>3 DEF Faults
<1>7. QED
  BY <1>3, <1>4, <1>5, <1>6 DEF Next

\* A step leaves the generation and what the workers hold alone, lets a worker forget
\* its attempt, or gives one idle worker the attempt of a new generation.
HeldEffect ==
  \/ task'.gen = task.gen /\ held' = held
  \/ /\ task'.gen = task.gen
     /\ \E w \in Workers : held' = [held EXCEPT ![w] = 0]
  \/ /\ task'.gen = task.gen + 1
     /\ \E w \in Workers : pc[w] = "idle" /\ held' = [held EXCEPT ![w] = task.gen + 1]
     /\ UNCHANGED <<pc, seen>>

LEMMA EndTaskGen ==
  ASSUME task \in TaskRecord, NEW target, EndTask(target)
  PROVE  task'.gen = task.gen
<1>1. PICK r : task' = Ended(task, target, r)
  BY DEF EndTask
<1>2. QED
  BY <1>1 DEF Ended, TaskRecord

LEMMA HeldStep ==
  ASSUME TypeOK, Next
  PROVE  HeldEffect
<1>1. task \in TaskRecord
  BY DEF TypeOK
<1>2. ASSUME NEW w \in Workers, Work(w)
      PROVE  HeldEffect
  <2>1. CASE Acquire(w)
    BY <1>1, <2>1 DEF Acquire, At, TaskRecord, HeldEffect
  <2>2. CASE AcquireOverdue(w)
    BY <1>1, <2>2, EndTaskGen DEF AcquireOverdue, HeldEffect
  <2>3. CASE Start(w) \/ ResumeRunning(w) \/ MarkIrreversible(w)
    BY <1>1, <2>3 DEF Start, ResumeRunning, MarkIrreversible, TaskRecord, HeldEffect
  <2>4. CASE Release(w)
    BY <1>1, <2>4 DEF Release, Requeued, TaskRecord, HeldEffect
  <2>5. CASE ReleaseCheck(w) \/ CheckpointRequest(w) \/ SubmitPublish(w)
    BY <2>5 DEF ReleaseCheck, CheckpointRequest, SubmitPublish, HeldEffect
  <2>6. CASE CheckpointBegin(w) \/ CheckpointPersist(w) \/ SuspendForBatch(w)
    BY <1>1, <2>6 DEF CheckpointBegin, CheckpointPersist, SuspendForBatch, TaskRecord, HeldEffect
  <2>7. CASE SubmitEscrow(w)
    BY <1>1, <2>7 DEF SubmitEscrow, TaskRecord, HeldEffect
  <2>8. QED
    BY <1>2, <2>1, <2>2, <2>3, <2>4, <2>5, <2>6, <2>7 DEF Work
<1>3. ASSUME NEW p \in Procs, Verify(p)
      PROVE  HeldEffect
  <2>1. CASE VerifyApply(p)
    BY <1>1, <2>1 DEF VerifyApply, Reported, TaskRecord, HeldEffect
  <2>2. CASE VerifyRead(p) \/ VerifyRaises(p) \/ \E v \in {"passed", "failed"} : VerifySave(p, v)
    BY <2>2 DEF VerifyRead, VerifyRaises, VerifySave, HeldEffect
  <2>3. QED
    BY <1>3, <2>1, <2>2 DEF Verify
<1>4. ASSUME NEW c \in Controllers, Steer(c)
      PROVE  HeldEffect
  <2>1. CASE Queue(c) \/ Requeue(c)
    BY <1>1, <2>1 DEF Queue, Requeue, Requeued, TaskRecord, HeldEffect
  <2>2. CASE ReopenCompleted(c) \/ FinalizeOverrun(c) \/ CancelRequest(c) \/ Pause(c)
    BY <1>1, <2>2 DEF ReopenCompleted, FinalizeOverrun, CancelRequest, Pause, TaskRecord, HeldEffect
  <2>3. CASE CancelFinish(c)
    BY <1>1, <2>3 DEF CancelFinish, Ended, TaskRecord, HeldEffect
  <2>4. CASE RetrySchedule(c)
    BY <1>1, <2>4 DEF RetrySchedule, Rescheduled, TaskRecord, HeldEffect
  <2>5. CASE \E target \in {"failed", "budget_exhausted"} : Fail(c, target)
    BY <1>1, <2>5, EndTaskGen DEF Fail, HeldEffect
  <2>6. ASSUME NEW item \in InboxItems,
               SuspendForHumanInput(c, item) \/ ResumeFromHumanInput(c, item)
        PROVE  HeldEffect
    BY <1>1, <2>6 DEF SuspendForHumanInput, ResumeFromHumanInput, Requeued, TaskRecord, HeldEffect
  <2>7. CASE SuspendForConnector(c) \/ ResumeFromConnector(c) \/ ResumeFromBatch(c)
    BY <1>1, <2>7 DEF SuspendForConnector, ResumeFromConnector, ResumeFromBatch,
       TaskRecord, HeldEffect
  <2>8. CASE \/ Reverify(c) \/ AcceptOverrun(c) \/ CancelRead(c)
             \/ RetryDecide(c) \/ ReleaseRetry(c) \/ PauseRead(c)
    BY <2>8 DEF Reverify, AcceptOverrun, CancelRead, RetryDecide, ReleaseRetry, PauseRead, HeldEffect
  <2>9. QED
    BY <1>4, <2>1, <2>2, <2>3, <2>4, <2>5, <2>6, <2>7, <2>8 DEF Steer
<1>5. CASE Faults
  <2>1. CASE Tick \/ DeadlinePasses \/ \E w \in Workers : Heartbeat(w)
    BY <1>1, <2>1 DEF Tick, DeadlinePasses, Heartbeat, TaskRecord, HeldEffect
  <2>2. CASE \E p \in Procs : Crash(p)
    BY <2>2 DEF Crash, Forgets, HeldEffect
  <2>3. CASE \E w \in Workers : CrashInSubmit(w) \/ CrashInPersist(w)
    BY <2>3 DEF CrashInSubmit, CrashInPersist, Forgets, HeldEffect
  <2>4. CASE \E c \in Controllers, target \in {"failed", "budget_exhausted"} : CrashInEnd(c, target)
    BY <2>4 DEF CrashInEnd, Forgets, HeldEffect
  <2>5. QED
    BY <1>5, <2>1, <2>2, <2>3, <2>4 DEF Faults
<1>6. QED
  BY <1>2, <1>3, <1>4, <1>5 DEF Next

\* A step leaves the checkpoints alone or adds one under a valid lease.
CheckpointsEffect ==
  \/ checkpoints' = checkpoints
  \/ \E w \in Workers : HoldsLease(w) /\ checkpoints' = Append(checkpoints, held[w])

LEMMA CheckpointsStep ==
  ASSUME Next
  PROVE  CheckpointsEffect
<1>1. ASSUME NEW w \in Workers, Work(w)
      PROVE  CheckpointsEffect
  <2>1. CASE CheckpointPersist(w)
    BY <2>1 DEF CheckpointPersist, CheckpointsEffect
  <2>2. CASE \/ Acquire(w) \/ AcquireOverdue(w) \/ Start(w) \/ ReleaseCheck(w) \/ Release(w)
             \/ ResumeRunning(w) \/ MarkIrreversible(w)
             \/ CheckpointRequest(w) \/ CheckpointBegin(w)
             \/ SubmitEscrow(w) \/ SubmitPublish(w) \/ SuspendForBatch(w)
    BY <2>2 DEF Acquire, AcquireOverdue, Start, ReleaseCheck, Release, ResumeRunning,
       MarkIrreversible, CheckpointRequest, CheckpointBegin, SubmitEscrow, SubmitPublish,
       SuspendForBatch, CheckpointsEffect
  <2>3. QED
    BY <1>1, <2>1, <2>2 DEF Work
<1>2. ASSUME NEW p \in Procs, Verify(p)
      PROVE  CheckpointsEffect
  BY <1>2 DEF Verify, VerifyRead, VerifyRaises, VerifyApply, VerifySave, CheckpointsEffect
<1>3. ASSUME NEW c \in Controllers, Steer(c)
      PROVE  CheckpointsEffect
  BY <1>3 DEF Steer, Queue, Reverify, ReopenCompleted, AcceptOverrun, FinalizeOverrun,
     CancelRead, CancelRequest, CancelFinish, RetryDecide, RetrySchedule, ReleaseRetry,
     Requeue, Fail, PauseRead, Pause, SuspendForHumanInput, ResumeFromHumanInput, SuspendForConnector,
     ResumeFromConnector, ResumeFromBatch, CheckpointsEffect
<1>4. CASE Faults
  BY <1>4 DEF Faults, Tick, DeadlinePasses, Crash, Heartbeat, CrashInSubmit, CrashInPersist,
     CrashInEnd, CheckpointsEffect
<1>5. QED
  BY <1>1, <1>2, <1>3, <1>4 DEF Next

\* A step leaves every process where it is, or takes one of them on: to a label with
\* what it is to remember there.
Reaches(p, label, mem) ==
  /\ Goto(p, label, mem)
  /\ label \notin RecoveryLabels
  /\ mem.then \in {"idle", "finalize"}
  /\ label \in {"publish", "verSave"} => Kept(mem)
  /\ label = "ckBegin" => mem.state = task.state /\ task.state \in CheckpointStates
  /\ label = "ckPersist" => pc[p] = "ckBegin" /\ mem = seen[p]
  /\ label = "retry" => mem.state \in {"retry_scheduled", "replanning"}

ControlEffect ==
  \/ UNCHANGED <<pc, seen>>
  \/ \E p \in Procs, label \in Labels, mem \in Memory : Reaches(p, label, mem)

LEMMA NothingTyped ==
  /\ Nothing \in Memory
  /\ Nothing.then = "idle"
  /\ \A state \in States : [Nothing EXCEPT !.state = state] \in Memory
  /\ \A state \in States : [Nothing EXCEPT !.state = state].then = "idle"
  BY DEF Nothing, NoResult, Memory, EscrowResult, States, Verdicts, Labels

LEMMA ReturnEffect ==
  ASSUME NEW p \in Procs, Return(p)
  PROVE  ControlEffect
  BY NothingTyped DEF Return, ControlEffect, Reaches, Labels, RecoveryLabels

LEMMA ReadClaimEffect ==
  ASSUME TypeOK, NEW p \in Procs, NEW then \in {"idle", "finalize"},
         ReadClaim(p, then), UNCHANGED results
  PROVE  ControlEffect
<1> DEFINE mem == [Nothing EXCEPT !.result = task.result,
                                  !.rec = results[task.result], !.then = then]
<1>1. task.result \in Escrowed /\ Goto(p, "verSave", mem)
  BY DEF ReadClaim
<1>2. task.result \in DOMAIN results /\ results[task.result].saved
  BY <1>1 DEF Escrowed
<1>3. task.result \in Nat /\ results[task.result] \in EscrowResult
  BY <1>2 DEF TypeOK, TaskRecord
<1>4. /\ mem \in Memory
      /\ mem.then = then /\ mem.result = task.result /\ mem.rec = results[task.result]
  BY <1>3 DEF Nothing, Memory, States, Labels
<1>5. Kept(mem)
  BY <1>2, <1>4 DEF Kept
<1>6. "verSave" \in Labels \ RecoveryLabels /\ mem.then \in {"idle", "finalize"}
  BY <1>4 DEF Labels, RecoveryLabels
<1> HIDE DEF mem
<1>7. Reaches(p, "verSave", mem)
  BY <1>1, <1>5, <1>6 DEF Reaches
<1>8. QED
  BY <1>4, <1>6, <1>7 DEF ControlEffect

LEMMA SubmitEffect ==
  ASSUME TypeOK, NEW w \in Workers, SubmitEscrow(w)
  PROVE  ControlEffect
<1>1. PICK target \in States :
        /\ results' = Append(results, ChatResult(w, target))
        /\ Goto(w, "publish", [Nothing EXCEPT !.result = Len(results) + 1,
                                              !.rec = ChatResult(w, target)])
  BY DEF SubmitEscrow
<1> DEFINE mem == [Nothing EXCEPT !.result = Len(results) + 1, !.rec = ChatResult(w, target)]
<1>2. results \in Seq(EscrowResult) /\ held[w] \in Nat
  BY DEF TypeOK, TaskRecord
<1>3. ChatResult(w, target) \in EscrowResult /\ ChatResult(w, target).saved
  BY <1>2 DEF ChatResult, EscrowResult, Verdicts
<1>4. /\ mem \in Memory /\ mem.then = "idle"
      /\ mem.result = Len(results) + 1 /\ mem.rec = ChatResult(w, target)
  <2>1. Len(results) + 1 \in Nat
    BY <1>2
  <2>2. Nothing \in Memory /\ Nothing.then = "idle"
    BY NothingTyped
  <2>3. QED
    BY <1>3, <2>1, <2>2 DEF Memory
<1>5. /\ Len(results) + 1 \in DOMAIN results'
      /\ results'[Len(results) + 1] = ChatResult(w, target)
  BY <1>1, <1>2, <1>3
<1>6. Kept(mem)
  BY <1>3, <1>4, <1>5 DEF Kept
<1>7. Goto(w, "publish", mem) /\ w \in Procs /\ "publish" \in Labels \ RecoveryLabels
  BY <1>1 DEF Labels, RecoveryLabels, Procs
<1> HIDE DEF mem
<1>8. Reaches(w, "publish", mem)
  BY <1>4, <1>6, <1>7 DEF Reaches
<1>9. QED
  BY <1>4, <1>7, <1>8 DEF ControlEffect

LEMMA ControlStep ==
  ASSUME TypeOK, ReturnsTo, Next
  PROVE  ControlEffect
<1>1. \A p \in Procs :
        /\ seen[p] \in Memory
        /\ pc[p] \notin RecordLabels => seen[p].then \in {"idle", "finalize"}
  BY DEF TypeOK, ReturnsTo
<1>2. \A p \in Procs, label \in Labels \ RecoveryLabels, mem \in Memory :
        /\ Goto(p, label, mem) /\ mem.then \in {"idle", "finalize"}
        /\ label \notin {"publish", "verSave", "ckBegin", "ckPersist", "retry"}
        => ControlEffect
  BY DEF ControlEffect, Reaches
<1>3. ASSUME NEW w \in Workers, Work(w)
      PROVE  ControlEffect
  <2>1. CASE ReleaseCheck(w)
    BY <1>2, <2>1, NothingTyped DEF ReleaseCheck, Procs, Labels, RecoveryLabels
  <2>2. CASE Release(w)
    BY <2>2, ReturnEffect DEF Release, Procs
  <2>3. CASE CheckpointRequest(w)
    <3>1. task.state \in States
      BY DEF TypeOK, TaskRecord
    <3> DEFINE mem == [Nothing EXCEPT !.state = task.state]
    <3>2. mem \in Memory /\ mem.then = "idle"
      BY <3>1, NothingTyped
    <3>3. mem.state = task.state
      BY DEF Nothing
    <3>4. Goto(w, "ckBegin", mem) /\ w \in Procs /\ task.state \in CheckpointStates
      BY <2>3 DEF CheckpointRequest, Procs
    <3> HIDE DEF mem
    <3>5. QED
      BY <3>2, <3>3, <3>4 DEF ControlEffect, Reaches, Labels, RecoveryLabels
  <2>4. CASE CheckpointBegin(w)
    <3>1. CASE Return(w)
      BY <3>1, ReturnEffect DEF Procs
    <3>2. CASE Goto(w, "ckPersist", seen[w])
      <4>1. w \in Procs /\ pc[w] = "ckBegin" /\ seen[w].then \in {"idle", "finalize"}
        BY <1>1, <2>4 DEF CheckpointBegin, At, Procs, RecordLabels
      <4>2. "ckPersist" \in Labels \ RecoveryLabels
        BY DEF Labels, RecoveryLabels
      <4>3. QED
        BY <1>1, <3>2, <4>1, <4>2 DEF ControlEffect, Reaches
    <3>3. QED
      BY <2>4, <3>1, <3>2 DEF CheckpointBegin
  <2>5. CASE CheckpointPersist(w)
    BY <2>5, ReturnEffect DEF CheckpointPersist, Procs
  <2>6. CASE SubmitEscrow(w)
    BY <2>6, SubmitEffect
  <2>7. CASE SubmitPublish(w)
    BY <1>2, <2>7, ReturnEffect, NothingTyped DEF SubmitPublish, Procs, Labels, RecoveryLabels
  <2>8. CASE \/ Acquire(w) \/ AcquireOverdue(w) \/ Start(w) \/ ResumeRunning(w)
             \/ MarkIrreversible(w) \/ SuspendForBatch(w)
    BY <2>8 DEF Acquire, AcquireOverdue, Start, ResumeRunning, MarkIrreversible,
       SuspendForBatch, ControlEffect
  <2>9. QED
    BY <1>3, <2>1, <2>2, <2>3, <2>4, <2>5, <2>6, <2>7, <2>8 DEF Work
<1>4. ASSUME NEW p \in Procs, Verify(p)
      PROVE  ControlEffect
  <2>1. CASE VerifyRead(p)
    BY <2>1, ReadClaimEffect, ReturnEffect DEF VerifyRead
  <2>2. CASE VerifyRaises(p)
    BY <2>2, ReturnEffect DEF VerifyRaises
  <2>3. CASE VerifyApply(p)
    <3>1. CASE Return(p)
      BY <3>1, ReturnEffect
    <3>2. CASE Goto(p, seen[p].then, [seen[p] EXCEPT !.then = "idle"])
      <4>1. /\ [seen[p] EXCEPT !.then = "idle"] \in Memory
            /\ [seen[p] EXCEPT !.then = "idle"].then = "idle"
            /\ seen[p].then \in Labels \ RecoveryLabels
            /\ seen[p].then \notin {"publish", "verSave", "ckBegin", "ckPersist", "retry"}
        BY <1>1, <2>3 DEF VerifyApply, At, RecordLabels, Memory, Labels, RecoveryLabels
      <4>2. QED
        BY <1>2, <3>2, <4>1
    <3>3. QED
      BY <2>3, <3>1, <3>2 DEF VerifyApply, Proceed
  <2>4. ASSUME NEW verdict \in {"passed", "failed"}, VerifySave(p, verdict)
        PROVE  ControlEffect
    <3> DEFINE mem == [seen[p] EXCEPT !.rec = [NoResult EXCEPT !.ver = verdict]]
    <3>1. mem \in Memory /\ mem.then = seen[p].then
      BY <1>1 DEF Memory, NoResult, EscrowResult, Verdicts, States
    <3>2. Goto(p, "verApply", mem)
      BY <2>4 DEF VerifySave
    <3>3. mem.then \in {"idle", "finalize"} /\ "verApply" \in Labels \ RecoveryLabels
      BY <1>1, <2>4, <3>1 DEF VerifySave, At, RecordLabels, Labels, RecoveryLabels
    <3> HIDE DEF mem
    <3>4. QED
      BY <1>2, <3>1, <3>2, <3>3
  <2>5. QED
    BY <1>4, <2>1, <2>2, <2>3, <2>4 DEF Verify
<1>5. ASSUME NEW c \in Controllers, Steer(c)
      PROVE  ControlEffect
  <2>1. CASE Reverify(c) \/ AcceptOverrun(c)
    BY <2>1, ReadClaimEffect DEF Reverify, AcceptOverrun, Procs
  <2>2. CASE \/ FinalizeOverrun(c) \/ CancelFinish(c) \/ RetrySchedule(c) \/ Requeue(c)
             \/ Pause(c)
    BY <2>2, ReturnEffect DEF FinalizeOverrun, CancelFinish, RetrySchedule, Requeue, Pause, Procs
  <2>3. CASE ReopenCompleted(c) \/ CancelRead(c) \/ ReleaseRetry(c) \/ PauseRead(c)
    BY <1>2, <2>3, NothingTyped DEF ReopenCompleted, CancelRead, ReleaseRetry, PauseRead, Procs, Labels, RecoveryLabels
  <2>4. CASE CancelRequest(c)
    <3>1. c \in Procs /\ (Goto(c, "cancelFinish", Nothing) \/ Return(c))
      BY <2>4 DEF CancelRequest, Procs
    <3>2. QED
      BY <1>2, <3>1, NothingTyped, ReturnEffect DEF Labels, RecoveryLabels
  <2>5. CASE RetryDecide(c)
    <3>1. PICK target \in {"retry_scheduled", "replanning"} :
            Goto(c, "retry", [Nothing EXCEPT !.state = target])
      BY <2>5 DEF RetryDecide
    <3> DEFINE mem == [Nothing EXCEPT !.state = target]
    <3>2. mem \in Memory /\ mem.then = "idle"
      BY NothingTyped DEF States
    <3>3. mem.state = target
      BY DEF Nothing
    <3>4. c \in Procs /\ Goto(c, "retry", mem)
      BY <3>1 DEF Procs
    <3> HIDE DEF mem
    <3>5. QED
      BY <3>2, <3>3, <3>4 DEF ControlEffect, Reaches, Labels, RecoveryLabels
  <2>6. CASE \/ Queue(c)
             \/ \E target \in {"failed", "budget_exhausted"} : Fail(c, target)
    BY <2>6 DEF Queue, Fail, ControlEffect
  <2>7. CASE \/ \E item \in InboxItems : SuspendForHumanInput(c, item) \/ ResumeFromHumanInput(c, item)
             \/ SuspendForConnector(c) \/ ResumeFromConnector(c) \/ ResumeFromBatch(c)
    BY <2>7 DEF SuspendForHumanInput, ResumeFromHumanInput, SuspendForConnector,
       ResumeFromConnector, ResumeFromBatch, ControlEffect
  <2>8. QED
    BY <1>5, <2>1, <2>2, <2>3, <2>4, <2>5, <2>6, <2>7 DEF Steer
<1>6. CASE Faults
  <2>1. CASE \E p \in Procs : Crash(p)
    BY <2>1, ReturnEffect DEF Crash, Forgets
  <2>2. CASE \E w \in Workers : CrashInSubmit(w) \/ CrashInPersist(w)
    BY <2>2, ReturnEffect DEF CrashInSubmit, CrashInPersist, Forgets, Procs
  <2>3. CASE \E c \in Controllers, target \in {"failed", "budget_exhausted"} : CrashInEnd(c, target)
    BY <2>3, ReturnEffect DEF CrashInEnd, Forgets, Procs
  <2>4. CASE Tick \/ DeadlinePasses \/ \E w \in Workers : Heartbeat(w)
    BY <2>4 DEF Tick, DeadlinePasses, Heartbeat, ControlEffect
  <2>5. QED
    BY <1>6, <2>1, <2>2, <2>3, <2>4 DEF Faults
<1>7. QED
  BY <1>3, <1>4, <1>5, <1>6 DEF Next

----------------------------------------------------------------------------
(* What follows for the records and for what the processes remember *)

\* No result record is lost or changes its attempt, and a new one is of the current
\* attempt and has a file.
ResultsEffect ==
  /\ Len(results) <= Len(results')
  /\ \A r \in 1..Len(results) :
       results'[r].gen = results[r].gen /\ (results[r].saved => results'[r].saved)
  /\ \A r \in Len(results)+1..Len(results') :
       results'[r].gen = task.gen /\ results'[r].saved

LEMMA AppendEffect ==
  ASSUME results \in Seq(EscrowResult), NEW rec \in EscrowResult,
         results' = Append(results, rec), rec.gen = task.gen, rec.saved
  PROVE  /\ results' \in Seq(EscrowResult)
         /\ Len(results') = Len(results) + 1
         /\ ResultsEffect
<1>1. /\ results' \in Seq(EscrowResult)
      /\ Len(results') = Len(results) + 1
      /\ \A r \in 1..Len(results) : results'[r] = results[r]
      /\ results'[Len(results) + 1] = rec
  OBVIOUS
<1>2. QED
  BY <1>1 DEF ResultsEffect

LEMMA ResultsStep ==
  ASSUME TypeOK, Remembered, FilesEffect
  PROVE  /\ results' \in Seq(EscrowResult)
         /\ index' \in 0..Len(results')
         /\ ResultsEffect
<1>1. task \in TaskRecord /\ results \in Seq(EscrowResult) /\ index \in 0..Len(results)
  BY DEF TypeOK
<1>2. CASE UNCHANGED <<results, index>>
  BY <1>1, <1>2 DEF ResultsEffect
<1>3. ASSUME NEW target \in States, SaveNew(FailureResult(target))
      PROVE  /\ results' \in Seq(EscrowResult)
             /\ index' \in 0..Len(results')
             /\ ResultsEffect
  <2>1. results' = Append(results, FailureResult(target)) /\ index' = Len(results) + 1
    BY <1>3 DEF SaveNew
  <2>2. QED
    BY <1>1, <2>1, FailureResultTyped, AppendEffect
<1>4. ASSUME NEW w \in Workers, NEW target \in States, MaySubmit(w, target),
             results' = Append(results, ChatResult(w, target)), index' = index
      PROVE  /\ results' \in Seq(EscrowResult)
             /\ index' \in 0..Len(results')
             /\ ResultsEffect
  <2>1. held[w] = task.gen /\ task.gen \in Nat
    BY <1>1, <1>4 DEF MaySubmit, HoldsLease, TaskRecord
  <2>2. /\ ChatResult(w, target) \in EscrowResult
        /\ ChatResult(w, target).gen = task.gen
        /\ ChatResult(w, target).saved
    BY <2>1 DEF ChatResult, EscrowResult, Verdicts
  <2>3. QED
    BY <1>1, <1>4, <2>2, AppendEffect
<1>5. ASSUME NEW p \in Procs, NEW rec \in EscrowResult, pc[p] \in {"publish", "verSave"},
             SaveAgain(seen[p].result, rec),
             rec.gen = seen[p].rec.gen, rec.saved = seen[p].rec.saved
      PROVE  /\ results' \in Seq(EscrowResult)
             /\ index' \in 0..Len(results')
             /\ ResultsEffect
  <2> DEFINE r == seen[p].result
  <2>1. r \in 1..Len(results) /\ rec.saved /\ rec.gen = results[r].gen
    BY <1>1, <1>5 DEF Remembered
  <2>2. results' = [results EXCEPT ![r] = rec] /\ index' = r
    BY <1>5 DEF SaveAgain
  <2> HIDE DEF r
  <2>3. /\ results' \in Seq(EscrowResult)
        /\ Len(results') = Len(results)
        /\ \A i \in 1..Len(results) : results'[i] = IF i = r THEN rec ELSE results[i]
    BY <1>1, <2>1, <2>2, ExceptSeq
  <2>4. QED
    BY <1>1, <2>1, <2>2, <2>3 DEF ResultsEffect
<1>6. QED
  BY <1>2, <1>3, <1>4, <1>5 DEF FilesEffect

LEMMA ControlTyped ==
  ASSUME TypeOK, ReturnsTo, ControlEffect
  PROVE  /\ pc' \in [Procs -> Labels]
         /\ seen' \in [Procs -> Memory]
         /\ ReturnsTo'
<1>1. pc \in [Procs -> Labels] /\ seen \in [Procs -> Memory]
  BY DEF TypeOK
<1>2. CASE UNCHANGED <<pc, seen>>
  BY <1>1, <1>2 DEF ReturnsTo
<1>3. ASSUME NEW p \in Procs, NEW label \in Labels, NEW mem \in Memory, Reaches(p, label, mem)
      PROVE  /\ pc' \in [Procs -> Labels]
             /\ seen' \in [Procs -> Memory]
             /\ ReturnsTo'
  BY <1>1, <1>3 DEF Reaches, Goto, ReturnsTo
<1>4. QED
  BY <1>2, <1>3 DEF ControlEffect

LEMMA RememberedStep ==
  ASSUME TypeOK, Remembered, ControlEffect, ResultsEffect, results' \in Seq(EscrowResult)
  PROVE  Remembered'
<1>1. /\ pc \in [Procs -> Labels] /\ seen \in [Procs -> Memory]
      /\ results \in Seq(EscrowResult)
  BY DEF TypeOK
<1>2. ASSUME NEW p \in Procs, pc[p] \in {"publish", "verSave"}
      PROVE  Kept(seen[p])
  <2>1. seen[p].result \in 1..Len(results) /\ seen[p].rec.saved
        /\ seen[p].rec.gen = results[seen[p].result].gen
    BY <1>1, <1>2 DEF Remembered
  <2>2. seen[p].result \in 1..Len(results')
    BY <1>1, <2>1 DEF ResultsEffect
  <2>3. QED
    BY <2>1, <2>2 DEF Kept, ResultsEffect
<1>3. \A p \in Procs : pc'[p] \in {"publish", "verSave"} => Kept(seen'[p])
  <2>1. CASE UNCHANGED <<pc, seen>>
    BY <1>2, <2>1
  <2>2. ASSUME NEW q \in Procs, NEW label \in Labels, NEW mem \in Memory, Reaches(q, label, mem)
        PROVE  \A p \in Procs : pc'[p] \in {"publish", "verSave"} => Kept(seen'[p])
    <3>1. /\ pc'[q] = label /\ seen'[q] = mem
          /\ \A p \in Procs \ {q} : pc'[p] = pc[p] /\ seen'[p] = seen[p]
      BY <1>1, <2>2 DEF Reaches, Goto
    <3>2. QED
      BY <1>2, <2>2, <3>1 DEF Reaches
  <2>3. QED
    BY <2>1, <2>2 DEF ControlEffect
<1>4. QED
  BY <1>3 DEF Remembered, Kept

----------------------------------------------------------------------------
(* The links of the task file *)

\* A step keeps a link or turns it to a record that exists.
LinksEffect ==
  /\ task'.result \in {task.result} \cup 1..Len(results')
  /\ task'.ckpt \in {task.ckpt} \cup 1..Len(checkpoints')

LEMMA EndTaskLinks ==
  ASSUME TypeOK, NEW target \in States, EndTask(target), UNCHANGED checkpoints
  PROVE  LinksEffect
<1>1. /\ task \in TaskRecord /\ results \in Seq(EscrowResult)
      /\ index \in 0..Len(results) /\ Len(results) \in Nat
  BY DEF TypeOK
<1>2. CASE \E r \in LinkedEscrow : task' = Ended(task, target, r) /\ results' = results
  <2>1. PICK r \in 1..Len(results) : task' = Ended(task, target, r) /\ results' = results
    BY <1>1, <1>2, EscrowIsResults
  <2>2. task'.result = r /\ task'.ckpt = task.ckpt
    BY <1>1, <2>1 DEF Ended, TaskRecord
  <2>3. QED
    BY <2>1, <2>2 DEF LinksEffect
<1>3. CASE task' = Ended(task, target, task.result)
  BY <1>1, <1>3 DEF Ended, TaskRecord, LinksEffect
<1>4. CASE SaveNew(FailureResult(target)) /\ task' = Ended(task, target, Len(results) + 1)
  <2>1. FailureResult(target) \in EscrowResult
    BY <1>1, FailureResultTyped
  <2>2. Len(results') = Len(results) + 1
    BY <1>1, <1>4, <2>1 DEF SaveNew
  <2>3. task'.result = Len(results) + 1 /\ task'.ckpt = task.ckpt
    BY <1>1, <1>4 DEF Ended, TaskRecord
  <2>4. QED
    BY <1>1, <2>2, <2>3 DEF LinksEffect
<1>5. QED
  BY <1>2, <1>3, <1>4 DEF EndTask

LEMMA LinksStep ==
  ASSUME TypeOK, Next
  PROVE  LinksEffect
<1>1. /\ task \in TaskRecord /\ results \in Seq(EscrowResult)
      /\ checkpoints \in Seq(Nat) /\ held \in [Workers -> Nat]
      /\ Len(results) \in Nat /\ Len(checkpoints) \in Nat
  BY DEF TypeOK, TaskRecord
<1>2. ASSUME task'.result = task.result, task'.ckpt = task.ckpt
      PROVE  LinksEffect
  BY <1>2 DEF LinksEffect
<1>3. ASSUME NEW w \in Workers, Work(w)
      PROVE  LinksEffect
  <2>1. CASE AcquireOverdue(w)
    BY <2>1, EndTaskLinks DEF AcquireOverdue, States
  <2>2. CASE CheckpointPersist(w)
    <3>1. CASE task' = task
      BY <1>2, <3>1
    <3>2. CASE /\ checkpoints' = Append(checkpoints, held[w])
               /\ task' = [task EXCEPT !.state = seen[w].state, !.ckpt = Len(checkpoints) + 1]
      <4>1. Len(checkpoints') = Len(checkpoints) + 1
        BY <1>1, <3>2
      <4>2. task'.ckpt = Len(checkpoints) + 1 /\ task'.result = task.result
        BY <1>1, <3>2 DEF TaskRecord
      <4>3. QED
        BY <1>1, <4>1, <4>2 DEF LinksEffect
    <3>3. QED
      BY <2>2, <3>1, <3>2 DEF CheckpointPersist
  <2>3. CASE SubmitEscrow(w)
    <3>1. PICK target \in States :
            /\ results' = Append(results, ChatResult(w, target))
            /\ task' = [task EXCEPT !.state = target, !.result = Len(results) + 1]
      BY <2>3 DEF SubmitEscrow
    <3>2. ChatResult(w, target) \in EscrowResult
      BY <1>1 DEF ChatResult, EscrowResult, Verdicts
    <3>3. Len(results') = Len(results) + 1
      BY <1>1, <3>1, <3>2
    <3>4. task'.result = Len(results) + 1 /\ task'.ckpt = task.ckpt
      BY <1>1, <3>1 DEF TaskRecord
    <3>5. QED
      BY <1>1, <3>3, <3>4 DEF LinksEffect
  <2>4. CASE \/ Acquire(w) \/ Start(w) \/ ResumeRunning(w) \/ MarkIrreversible(w)
             \/ CheckpointBegin(w) \/ SuspendForBatch(w)
    BY <1>1, <1>2, <2>4 DEF Acquire, Start, ResumeRunning, MarkIrreversible,
       CheckpointBegin, SuspendForBatch, TaskRecord
  <2>5. CASE Release(w)
    BY <1>1, <1>2, <2>5 DEF Release, Requeued, TaskRecord
  <2>6. CASE ReleaseCheck(w) \/ CheckpointRequest(w) \/ SubmitPublish(w)
    BY <1>2, <2>6 DEF ReleaseCheck, CheckpointRequest, SubmitPublish
  <2>7. QED
    BY <1>3, <2>1, <2>2, <2>3, <2>4, <2>5, <2>6 DEF Work
<1>4. ASSUME NEW p \in Procs, Verify(p)
      PROVE  LinksEffect
  <2>1. CASE VerifyApply(p)
    BY <1>1, <1>2, <2>1 DEF VerifyApply, Reported, TaskRecord
  <2>2. CASE VerifyRead(p) \/ VerifyRaises(p) \/ \E v \in {"passed", "failed"} : VerifySave(p, v)
    BY <1>2, <2>2 DEF VerifyRead, VerifyRaises, VerifySave
  <2>3. QED
    BY <1>4, <2>1, <2>2 DEF Verify
<1>5. ASSUME NEW c \in Controllers, Steer(c)
      PROVE  LinksEffect
  <2>1. CASE CancelFinish(c)
    <3>1. CASE task' = task
      BY <1>2, <3>1
    <3>2. CASE task' = Ended(task, "cancelled", task.result)
      BY <1>1, <1>2, <3>2 DEF Ended, TaskRecord
    <3>3. CASE /\ SaveNew(FailureResult("cancelled"))
               /\ task' = Ended(task, "cancelled", Len(results) + 1)
      <4>1. FailureResult("cancelled") \in EscrowResult
        BY <1>1, FailureResultTyped DEF States
      <4>2. Len(results') = Len(results) + 1
        BY <1>1, <3>3, <4>1 DEF SaveNew
      <4>3. task'.result = Len(results) + 1 /\ task'.ckpt = task.ckpt
        BY <1>1, <3>3 DEF Ended, TaskRecord
      <4>4. QED
        BY <1>1, <4>2, <4>3 DEF LinksEffect
    <3>4. QED
      BY <2>1, <3>1, <3>2, <3>3 DEF CancelFinish
  <2>2. CASE \E target \in {"failed", "budget_exhausted"} : Fail(c, target)
    BY <2>2, EndTaskLinks DEF Fail, States
  <2>3. CASE Queue(c) \/ Requeue(c) \/ RetrySchedule(c)
    BY <1>1, <1>2, <2>3 DEF Queue, Requeue, Requeued, RetrySchedule, Rescheduled, TaskRecord
  <2>4. CASE ReopenCompleted(c) \/ FinalizeOverrun(c) \/ CancelRequest(c) \/ Pause(c)
    BY <1>1, <1>2, <2>4 DEF ReopenCompleted, FinalizeOverrun, CancelRequest, Pause, TaskRecord
  <2>5. ASSUME NEW item \in InboxItems,
               SuspendForHumanInput(c, item) \/ ResumeFromHumanInput(c, item)
        PROVE  LinksEffect
    BY <1>1, <1>2, <2>5 DEF SuspendForHumanInput, ResumeFromHumanInput, Requeued, TaskRecord
  <2>6. CASE SuspendForConnector(c) \/ ResumeFromConnector(c) \/ ResumeFromBatch(c)
    BY <1>1, <1>2, <2>6 DEF SuspendForConnector, ResumeFromConnector, ResumeFromBatch, TaskRecord
  <2>7. CASE Reverify(c) \/ AcceptOverrun(c) \/ CancelRead(c) \/ RetryDecide(c) \/ ReleaseRetry(c) \/ PauseRead(c)
    BY <1>2, <2>7 DEF Reverify, AcceptOverrun, CancelRead, RetryDecide, ReleaseRetry, PauseRead
  <2>8. QED
    BY <1>5, <2>1, <2>2, <2>3, <2>4, <2>5, <2>6, <2>7 DEF Steer
<1>6. CASE Faults
  <2>1. CASE Tick \/ DeadlinePasses \/ \E w \in Workers : Heartbeat(w)
    BY <1>1, <1>2, <2>1 DEF Tick, DeadlinePasses, Heartbeat, TaskRecord
  <2>2. CASE \/ \E p \in Procs : Crash(p)
             \/ \E w \in Workers : CrashInSubmit(w) \/ CrashInPersist(w)
             \/ \E c \in Controllers, target \in {"failed", "budget_exhausted"} : CrashInEnd(c, target)
    BY <1>2, <2>2 DEF Crash, CrashInSubmit, CrashInPersist, CrashInEnd
  <2>3. QED
    BY <1>6, <2>1, <2>2 DEF Faults
<1>7. QED
  BY <1>3, <1>4, <1>5, <1>6 DEF Next

----------------------------------------------------------------------------
(* The inductive invariant *)

\* No two workers hold the same attempt.
HeldOnce == \A v, w \in Workers : held[v] # 0 /\ held[v] = held[w] => v = w

\* Nothing is written for an attempt that has not begun.
Dated ==
  /\ \A r \in 1..Len(results) : results[r].gen <= task.gen
  /\ \A k \in 1..Len(checkpoints) : checkpoints[k] <= task.gen

\* Every record has a file, and the links of the task are to records.
Recorded ==
  /\ \A r \in 1..Len(results) : results[r].saved
  /\ task.result \in 0..Len(results)
  /\ task.ckpt \in 0..Len(checkpoints)

TypeInv == TypeOK /\ Remembered /\ ReturnsTo

LedgerInv == TypeInv /\ HeldOnce /\ Dated /\ Recorded /\ FencedWrites

LEMMA InitLedger ==
  ASSUME Init
  PROVE  LedgerInv
<1>1. task \in TaskRecord
  BY BoundAssumption DEF Init, TaskRecord, States, Verdicts, Waits
<1>2. seen \in [Procs -> Memory] /\ ReturnsTo
  BY NothingTyped DEF Init, ReturnsTo
<1>3. pc \in [Procs -> Labels] /\ Remembered
  BY DEF Init, Labels, Remembered
<1>4. /\ results = <<>> /\ checkpoints = <<>> /\ index = 0
      /\ task.gen = 0 /\ task.result = 0 /\ task.ckpt = 0
      /\ held = [w \in Workers |-> 0]
  BY DEF Init
<1>5. TypeOK
  BY <1>1, <1>2, <1>3, <1>4 DEF TypeOK
<1>6. QED
  BY <1>2, <1>3, <1>4, <1>5 DEF LedgerInv, TypeInv, HeldOnce, Dated, Recorded, FencedWrites

LEMMA StepEffects ==
  ASSUME TypeInv, Next
  PROVE  /\ task' \in TaskRecord /\ task'.gen \in Nat
         /\ results' \in Seq(EscrowResult) /\ index' \in 0..Len(results')
         /\ ResultsEffect /\ HeldEffect /\ CheckpointsEffect /\ LinksEffect /\ ControlEffect
<1>1. task' \in TaskRecord
  BY TaskTyped DEF TypeInv
<1>2. QED
  BY <1>1, FilesStep, ResultsStep, HeldStep, CheckpointsStep, LinksStep, ControlStep
     DEF TypeInv, TaskRecord

LEMMA CheckpointsTyped ==
  ASSUME TypeOK, CheckpointsEffect
  PROVE  /\ checkpoints' \in Seq(Nat)
         /\ Len(checkpoints) <= Len(checkpoints')
         /\ \A k \in 1..Len(checkpoints) : checkpoints'[k] = checkpoints[k]
         /\ \A k \in Len(checkpoints)+1..Len(checkpoints') : checkpoints'[k] = task.gen
<1>1. checkpoints \in Seq(Nat) /\ task.gen \in Nat /\ \A w \in Workers : held[w] \in Nat
  BY DEF TypeOK, TaskRecord
<1>2. CASE checkpoints' = checkpoints
  BY <1>1, <1>2
<1>3. ASSUME NEW w \in Workers, HoldsLease(w), checkpoints' = Append(checkpoints, held[w])
      PROVE  checkpoints' = Append(checkpoints, task.gen)
  BY <1>3 DEF HoldsLease
<1>4. CASE checkpoints' = Append(checkpoints, task.gen)
  BY <1>1, <1>4
<1>5. QED
  BY <1>2, <1>3, <1>4 DEF CheckpointsEffect

LEMMA NextTypeInv ==
  ASSUME TypeInv, Next
  PROVE  TypeInv'
<1>1. task.gen \in Nat /\ held \in [Workers -> 0..task.gen]
  BY DEF TypeInv, TypeOK, TaskRecord
<1>2. held' \in [Workers -> 0..task'.gen]
  BY <1>1, StepEffects DEF HeldEffect
<1>3. checkpoints' \in Seq(Nat)
  BY StepEffects, CheckpointsTyped DEF TypeInv
<1>4. pc' \in [Procs -> Labels] /\ seen' \in [Procs -> Memory] /\ ReturnsTo'
  BY StepEffects, ControlTyped DEF TypeInv
<1>5. Remembered'
  BY StepEffects, RememberedStep DEF TypeInv
<1>6. TypeOK'
  BY <1>2, <1>3, <1>4, StepEffects DEF TypeOK
<1>7. QED
  BY <1>4, <1>5, <1>6 DEF TypeInv

LEMMA NextLedger ==
  ASSUME LedgerInv, Next
  PROVE  LedgerInv'
<1>1. /\ TypeInv /\ TypeOK /\ task.gen \in Nat /\ task.result \in Nat /\ task.ckpt \in Nat
      /\ results \in Seq(EscrowResult) /\ checkpoints \in Seq(Nat)
      /\ held \in [Workers -> 0..task.gen]
  BY DEF LedgerInv, TypeInv, TypeOK, TaskRecord
<1>2. TypeInv' /\ HeldEffect /\ ResultsEffect /\ LinksEffect /\ CheckpointsEffect
  BY <1>1, StepEffects, NextTypeInv
<1>3. /\ results' \in Seq(EscrowResult) /\ task'.gen \in Nat
      /\ \A r \in 1..Len(results') : results'[r].gen \in Nat
  <2>1. /\ results' \in Seq(EscrowResult) /\ task'.gen \in Nat
    BY <1>1, StepEffects
  <2>2. \A r \in 1..Len(results') : results'[r] \in EscrowResult
    BY <2>1
  <2>3. QED
    BY <2>1, <2>2 DEF EscrowResult
<1>4. /\ checkpoints' \in Seq(Nat)
      /\ Len(checkpoints) <= Len(checkpoints')
      /\ \A k \in 1..Len(checkpoints) : checkpoints'[k] = checkpoints[k]
      /\ \A k \in Len(checkpoints)+1..Len(checkpoints') : checkpoints'[k] = task.gen
  BY <1>1, <1>2, CheckpointsTyped
<1>5. task.gen <= task'.gen
  BY <1>1, <1>2 DEF HeldEffect
<1>6. HeldOnce'
  BY <1>1, <1>2 DEF LedgerInv, HeldOnce, HeldEffect
<1>7. \A r \in 1..Len(results') : results'[r].gen <= task.gen
  <2>1. \A r \in 1..Len(results) : results[r].gen <= task.gen
    BY DEF LedgerInv, Dated
  <2>2. QED
    BY <1>1, <1>2, <1>3, <2>1 DEF ResultsEffect
<1>8. \A k \in 1..Len(checkpoints') : checkpoints'[k] <= task.gen
  <2>1. \A k \in 1..Len(checkpoints) : checkpoints[k] <= task.gen
    BY DEF LedgerInv, Dated
  <2>2. SUFFICES ASSUME NEW k \in 1..Len(checkpoints') PROVE checkpoints'[k] <= task.gen
    OBVIOUS
  <2>3. CASE k \in 1..Len(checkpoints)
    BY <1>4, <2>1, <2>3
  <2>4. CASE k \in Len(checkpoints)+1..Len(checkpoints')
    BY <1>1, <1>4, <2>4
  <2>5. Len(checkpoints) \in Nat /\ Len(checkpoints') \in Nat
    BY <1>1, <1>4
  <2>6. QED
    BY <2>2, <2>3, <2>4, <2>5
<1>9. Dated'
  <2>1. \A r \in 1..Len(results') : results'[r].gen <= task'.gen
    BY <1>1, <1>3, <1>5, <1>7
  <2>2. \A k \in 1..Len(checkpoints') : checkpoints'[k] \in Nat
    BY <1>4
  <2>3. \A k \in 1..Len(checkpoints') : checkpoints'[k] <= task'.gen
    BY <1>1, <1>3, <1>5, <1>8, <2>2
  <2>4. QED
    BY <2>1, <2>3 DEF Dated
<1>10. Recorded'
  <2>1. /\ \A r \in 1..Len(results) : results[r].saved
        /\ task.result \in 0..Len(results) /\ task.ckpt \in 0..Len(checkpoints)
    BY DEF LedgerInv, Recorded
  <2>2. \A r \in 1..Len(results') : results'[r].saved
    BY <1>1, <1>2, <1>3, <2>1 DEF ResultsEffect
  <2>3. task'.result \in 0..Len(results')
    BY <1>1, <1>2, <1>3, <2>1 DEF ResultsEffect, LinksEffect
  <2>4. task'.ckpt \in 0..Len(checkpoints')
    BY <1>1, <1>2, <1>4, <2>1 DEF LinksEffect
  <2>5. QED
    BY <2>2, <2>3, <2>4 DEF Recorded
<1>11. FencedWrites'
  <2>1. \A i, j \in 1..Len(results') : i <= j => results'[i].gen <= results'[j].gen
    <3>1. SUFFICES ASSUME NEW i \in 1..Len(results'), NEW j \in 1..Len(results'), i <= j
                   PROVE  results'[i].gen <= results'[j].gen
      OBVIOUS
    <3>2. CASE j \in 1..Len(results)
      <4>1. i \in 1..Len(results) /\ i \in DOMAIN results /\ j \in DOMAIN results
        BY <1>1, <3>1, <3>2
      <4>2. results[i].gen <= results[j].gen
        BY <3>1, <4>1 DEF LedgerInv, FencedWrites
      <4>3. QED
        BY <1>2, <3>2, <4>1, <4>2 DEF ResultsEffect
    <3>3. CASE j \in Len(results)+1..Len(results')
      BY <1>2, <1>7, <3>1, <3>3 DEF ResultsEffect
    <3>4. QED
      BY <1>1, <1>3, <3>2, <3>3
  <2>2. \A i, j \in 1..Len(checkpoints') : i <= j => checkpoints'[i] <= checkpoints'[j]
    <3>1. SUFFICES ASSUME NEW i \in 1..Len(checkpoints'), NEW j \in 1..Len(checkpoints'), i <= j
                   PROVE  checkpoints'[i] <= checkpoints'[j]
      OBVIOUS
    <3>2. CASE j \in 1..Len(checkpoints)
      <4>1. i \in 1..Len(checkpoints) /\ i \in DOMAIN checkpoints /\ j \in DOMAIN checkpoints
        BY <1>1, <3>1, <3>2
      <4>2. checkpoints[i] <= checkpoints[j]
        BY <3>1, <4>1 DEF LedgerInv, FencedWrites
      <4>3. QED
        BY <1>4, <3>2, <4>1, <4>2
    <3>3. CASE j \in Len(checkpoints)+1..Len(checkpoints')
      BY <1>4, <1>8, <3>1, <3>3
    <3>4. QED
      BY <1>1, <1>4, <3>2, <3>3
  <2>3. DOMAIN results' = 1..Len(results') /\ DOMAIN checkpoints' = 1..Len(checkpoints')
    BY <1>3, <1>4
  <2>4. QED
    BY <2>1, <2>2, <2>3 DEF FencedWrites
<1>12. QED
  BY <1>2, <1>6, <1>9, <1>10, <1>11 DEF LedgerInv

LEMMA StutterLedger ==
  ASSUME LedgerInv, UNCHANGED vars
  PROVE  LedgerInv'
  BY DEF LedgerInv, TypeInv, TypeOK, Remembered, ReturnsTo, HeldOnce, Dated, Recorded,
     FencedWrites, vars

\* LedgerInv holds in every state: the invariant the theorems below are read from.
THEOREM LedgerInvariant == Spec => []LedgerInv
<1>1. Init => LedgerInv
  BY InitLedger
<1>2. LedgerInv /\ [Next]_vars => LedgerInv'
  BY NextLedger, StutterLedger
<1>3. QED
  BY <1>1, <1>2, PTL DEF Spec

----------------------------------------------------------------------------
(* The theorems *)

\* Every task record, escrow record, checkpoint and handler of the supervisor is what
\* models.py says, and every link is to a record that was created, whatever processes,
\* items and bounds there are.
THEOREM TypeCorrect == Spec => []TypeOK
<1>1. LedgerInv => TypeOK
  BY DEF LedgerInv, TypeInv
<1>2. QED
  BY <1>1, LedgerInvariant, PTL

\* acquire_lease gives every attempt to one worker, so _validate_lease never lets two
\* of them write the task, however many stale tokens are about.
THEOREM OneAuthorityHolds == Spec => []OneAuthority
<1>1. LedgerInv => OneAuthority
  BY DEF LedgerInv, HeldOnce, OneAuthority, HoldsLease
<1>2. QED
  BY <1>1, LedgerInvariant, PTL

\* A worker that lost its lease adds no result and no checkpoint after a later attempt
\* has: submit_result and checkpoint validate the lease under the lock of the write.
THEOREM WritesAreFenced == Spec => []FencedWrites
<1>1. LedgerInv => FencedWrites
  BY DEF LedgerInv
<1>2. QED
  BY <1>1, LedgerInvariant, PTL

\* The task file never names a result or a checkpoint that has no file, whatever crash
\* comes between the files of one update.
THEOREM LinksHaveFiles == Spec => []LinksAreDurable
<1>1. LedgerInv => LinksAreDurable
  <2>1. SUFFICES ASSUME LedgerInv PROVE LinksAreDurable
    OBVIOUS
  <2>2. /\ results \in Seq(EscrowResult) /\ checkpoints \in Seq(Nat)
        /\ task.result \in 0..Len(results) /\ task.ckpt \in 0..Len(checkpoints)
        /\ \A r \in 1..Len(results) : results[r].saved
    BY <2>1 DEF LedgerInv, TypeInv, TypeOK, Recorded
  <2>3. QED
    BY <2>2 DEF LinksAreDurable, Escrowed
<1>2. QED
  BY <1>1, LedgerInvariant, PTL

----------------------------------------------------------------------------
(* Claims of completion and outcomes *)

Claiming == {"completed_pending_verification", "pending_budget_decision", "completed"}

\* The task names a result of its current attempt.
NamesCurrent == task.result # 0 /\ results[task.result].gen = task.gen

\* A checkpoint comes back to the state it interrupted: when that was a claim and the
\* attempt is still the current one, the claim is too.
CheckpointsReturn ==
  \A p \in Procs : pc[p] \in {"ckBegin", "ckPersist"} =>
    /\ seen[p].state \in CheckpointStates
    /\ seen[p].state \in Claiming =>
         \A w \in Workers : w = p /\ held[w] # 0 /\ held[w] = task.gen => NamesCurrent

\* A checkpoint comes back to a state a checkpoint may be taken in.
CheckpointsTarget ==
  \A p \in Procs : pc[p] \in {"ckBegin", "ckPersist"} => seen[p].state \in CheckpointStates

RetriesReturn ==
  \A p \in Procs : pc[p] = "retry" => seen[p].state \in {"retry_scheduled", "replanning"}

ClaimInv == LedgerInv /\ CheckpointsReturn /\ RetriesReturn /\ CurrentClaim /\ TerminalOutcome

\* What a step does to the state and the result of the task: a claim is carried on,
\* made for a result of the current attempt, or come back to after a checkpoint, and
\* a task that ends has a result.
ClaimEffect ==
  /\ \/ task'.result = task.result
     \/ task.result = 0 /\ task'.result # 0
     \/ task'.result # 0 /\ results'[task'.result].gen = task.gen
  /\ task'.state \in Claiming =>
       /\ task'.gen = task.gen
       /\ \/ task.state \in Claiming /\ task'.result = task.result
          \/ task'.result # 0 /\ results'[task'.result].gen = task.gen
          \/ /\ task'.result = task.result
             /\ \E w \in Workers : /\ pc[w] = "ckPersist" /\ HoldsLease(w)
                                   /\ task'.state = seen[w].state
  /\ task'.state \in TERMINAL_STATES =>
       \/ task'.result # 0
       \/ task.state \in TERMINAL_STATES \cup Claiming /\ task'.result = task.result

LEMMA KeepsClaim ==
  ASSUME task'.result = task.result, task'.gen = task.gen,
         \/ task'.state = task.state
         \/ task.state \in Claiming /\ task'.state \in Claiming
  PROVE  ClaimEffect
  BY DEF ClaimEffect

LEMMA LeavesClaim ==
  ASSUME task'.result = task.result, task'.state \notin Claiming \cup TERMINAL_STATES
  PROVE  ClaimEffect
  BY DEF ClaimEffect

LEMMA EndTaskClaim ==
  ASSUME LedgerInv, NEW target \in TERMINAL_STATES \ {"completed"}, EndTask(target)
  PROVE  ClaimEffect
<1>1. /\ task \in TaskRecord /\ results \in Seq(EscrowResult)
      /\ index \in 0..Len(results) /\ task.result \in 0..Len(results)
      /\ \A r \in 1..Len(results) : results[r].saved
  BY DEF LedgerInv, TypeInv, TypeOK, Recorded
<1>2. target \notin Claiming
  BY DEF Claiming, TERMINAL_STATES
<1>3. \A r : task' = Ended(task, target, r) => task'.state = target /\ task'.result = r
  BY <1>1 DEF Ended, TaskRecord
<1>4. task.result # 0 => LinkedEscrow = {task.result}
  BY <1>1 DEF LinkedEscrow, Escrowed
<1>5. \E r \in 1..Len(results)+1 :
        task' = Ended(task, target, r) /\ (task.result # 0 => r = task.result)
  <2>1. Len(results) + 1 \in 1..Len(results)+1 /\ LinkedEscrow \subseteq 1..Len(results)+1
    BY <1>1, EscrowIsResults
  <2>2. QED
    BY <1>1, <1>4, <2>1 DEF EndTask
<1>6. PICK r \in 1..Len(results)+1 :
        task' = Ended(task, target, r) /\ (task.result # 0 => r = task.result)
  BY <1>5
<1>7. task'.state = target /\ task'.result = r /\ r # 0
  BY <1>1, <1>3, <1>6
<1>8. QED
  BY <1>2, <1>6, <1>7 DEF ClaimEffect

LEMMA ClaimStep ==
  ASSUME ClaimInv, Next
  PROVE  ClaimEffect
<1>1. /\ task \in TaskRecord /\ results \in Seq(EscrowResult)
      /\ held \in [Workers -> Nat] /\ Len(results) \in Nat /\ LedgerInv
  BY DEF ClaimInv, LedgerInv, TypeInv, TypeOK, TaskRecord
<1>2. {"failed", "budget_exhausted"} \subseteq TERMINAL_STATES \ {"completed"}
  BY DEF TERMINAL_STATES
<1>3. ASSUME NEW w \in Workers, Work(w)
      PROVE  ClaimEffect
  <2>1. CASE AcquireOverdue(w)
    BY <1>1, <1>2, <2>1, EndTaskClaim DEF AcquireOverdue
  <2>2. CASE CheckpointPersist(w)
    <3>1. CASE task' = task
      BY <3>1, KeepsClaim
    <3>2. CASE HoldsLease(w) /\ task' = [task EXCEPT !.state = seen[w].state,
                                                     !.ckpt = Len(checkpoints) + 1]
      <4>1. /\ task'.state = seen[w].state
            /\ task'.result = task.result /\ task'.gen = task.gen
        BY <1>1, <3>2 DEF TaskRecord
      <4>2. pc[w] = "ckPersist" /\ seen[w].state \in CheckpointStates
        BY <2>2 DEF CheckpointPersist, At, ClaimInv, CheckpointsReturn, Procs
      <4>3. task'.state \notin TERMINAL_STATES
        BY <4>1, <4>2 DEF CheckpointStates, TERMINAL_STATES
      <4>4. QED
        BY <3>2, <4>1, <4>2, <4>3 DEF ClaimEffect
    <3>3. QED
      BY <2>2, <3>1, <3>2 DEF CheckpointPersist
  <2>3. CASE SubmitEscrow(w)
    <3>1. PICK target \in States :
            /\ MaySubmit(w, target)
            /\ results' = Append(results, ChatResult(w, target))
            /\ task' = [task EXCEPT !.state = target, !.result = Len(results) + 1]
      BY <2>3 DEF SubmitEscrow
    <3>2. ChatResult(w, target) \in EscrowResult /\ ChatResult(w, target).gen = task.gen
      BY <1>1, <3>1 DEF ChatResult, EscrowResult, Verdicts, MaySubmit, HoldsLease
    <3>3. results'[Len(results) + 1] = ChatResult(w, target)
      BY <1>1, <3>1, <3>2
    <3>4. /\ task'.result = Len(results) + 1 /\ task'.gen = task.gen
          /\ Len(results) + 1 # 0
      BY <1>1, <3>1 DEF TaskRecord
    <3>5. QED
      BY <3>2, <3>3, <3>4 DEF ClaimEffect
  <2>4. CASE Acquire(w) \/ Start(w) \/ ResumeRunning(w) \/ SuspendForBatch(w)
    BY <1>1, <2>4, LeavesClaim DEF Acquire, Start, ResumeRunning, SuspendForBatch,
       TaskRecord, Claiming, TERMINAL_STATES
  <2>5. CASE MarkIrreversible(w)
    BY <1>1, <2>5, KeepsClaim DEF MarkIrreversible, TaskRecord
  <2>6. CASE CheckpointBegin(w)
    <3>1. CASE task' = task
      BY <3>1, KeepsClaim
    <3>2. CASE task' = [task EXCEPT !.state = "checkpointing"]
      BY <1>1, <3>2, LeavesClaim DEF TaskRecord, Claiming, TERMINAL_STATES
    <3>3. QED
      BY <2>6, <3>1, <3>2 DEF CheckpointBegin
  <2>7. CASE Release(w)
    <3>1. CASE task' = task
      BY <3>1, KeepsClaim
    <3>2. CASE task' = Requeued(task)
      BY <1>1, <3>2, LeavesClaim DEF Requeued, TaskRecord, Claiming, TERMINAL_STATES
    <3>3. QED
      BY <2>7, <3>1, <3>2 DEF Release
  <2>8. CASE ReleaseCheck(w) \/ CheckpointRequest(w) \/ SubmitPublish(w)
    BY <2>8, KeepsClaim DEF ReleaseCheck, CheckpointRequest, SubmitPublish
  <2>9. QED
    BY <1>3, <2>1, <2>2, <2>3, <2>4, <2>5, <2>6, <2>7, <2>8 DEF Work
<1>4. ASSUME NEW p \in Procs, Verify(p)
      PROVE  ClaimEffect
  <2>1. CASE VerifyApply(p)
    <3>1. CASE task' = task
      BY <3>1, KeepsClaim
    <3>2. CASE task' = Reported(task, seen[p].rec.ver)
      <4>1. task'.result = task.result /\ task'.gen = task.gen
        BY <1>1, <3>2 DEF Reported, TaskRecord
      <4>2. \/ task'.state = task.state
            \/ task.state \in Claiming /\ task'.state \in Claiming
        BY <1>1, <3>2 DEF Reported, TaskRecord, Claiming
      <4>3. QED
        BY <4>1, <4>2, KeepsClaim
    <3>3. QED
      BY <2>1, <3>1, <3>2 DEF VerifyApply
  <2>2. CASE VerifyRead(p) \/ VerifyRaises(p) \/ \E v \in {"passed", "failed"} : VerifySave(p, v)
    BY <2>2, KeepsClaim DEF VerifyRead, VerifyRaises, VerifySave
  <2>3. QED
    BY <1>4, <2>1, <2>2 DEF Verify
<1>5. ASSUME NEW c \in Controllers, Steer(c)
      PROVE  ClaimEffect
  <2>1. CASE CancelFinish(c)
    <3>1. CASE task' = task
      BY <3>1, KeepsClaim
    <3>2. ASSUME NEW r \in Nat \ {0}, task' = Ended(task, "cancelled", r),
                 task.result \in {0, r}
          PROVE  ClaimEffect
      <4>1. task'.state = "cancelled" /\ task'.result = r
        BY <1>1, <3>2 DEF Ended, TaskRecord
      <4>2. QED
        BY <3>2, <4>1 DEF ClaimEffect, Claiming
    <3>3. task.result \in Nat /\ Len(results) + 1 \in Nat \ {0}
      BY <1>1 DEF TaskRecord
    <3>4. QED
      BY <2>1, <3>1, <3>2, <3>3 DEF CancelFinish
  <2>2. CASE \E target \in {"failed", "budget_exhausted"} : Fail(c, target)
    BY <1>1, <1>2, <2>2, EndTaskClaim DEF Fail
  <2>3. CASE Queue(c) \/ Requeue(c)
    <3>1. CASE task' = task
      BY <3>1, KeepsClaim
    <3>2. CASE task' = Requeued(task)
      BY <1>1, <3>2, LeavesClaim DEF Requeued, TaskRecord, Claiming, TERMINAL_STATES
    <3>3. QED
      BY <2>3, <3>1, <3>2 DEF Queue, Requeue
  <2>4. CASE RetrySchedule(c)
    <3>1. CASE task' = task
      BY <3>1, KeepsClaim
    <3>2. CASE task' = Rescheduled(task, seen[c].state)
      <4>1. seen[c].state \in {"retry_scheduled", "replanning"}
        BY <2>4 DEF RetrySchedule, At, ClaimInv, RetriesReturn, Procs
      <4>2. task'.state = seen[c].state /\ task'.result = task.result
        BY <1>1, <3>2 DEF Rescheduled, TaskRecord
      <4>3. QED
        BY <4>1, <4>2, LeavesClaim DEF Claiming, TERMINAL_STATES
    <3>3. QED
      BY <2>4, <3>1, <3>2 DEF RetrySchedule
  <2>5. CASE ReopenCompleted(c) \/ FinalizeOverrun(c)
    BY <1>1, <2>5, KeepsClaim DEF ReopenCompleted, FinalizeOverrun, TaskRecord, Claiming
  <2>6. CASE CancelRequest(c)
    <3>1. CASE task' = task
      BY <3>1, KeepsClaim
    <3>2. CASE task' = [task EXCEPT !.state = "cancelling"]
      BY <1>1, <3>2, LeavesClaim DEF TaskRecord, Claiming, TERMINAL_STATES
    <3>3. QED
      BY <2>6, <3>1, <3>2 DEF CancelRequest
  <2>7. CASE Pause(c)
    <3>1. CASE task' = task
      BY <3>1, KeepsClaim
    <3>2. ASSUME NEW reason \in {task.wait} \cup (Suspensions \cap {"human"}),
                 task' = [task EXCEPT !.state = "waiting", !.wait = reason]
          PROVE  ClaimEffect
      BY <1>1, <3>2, PausedTyped, LeavesClaim DEF Claiming, TERMINAL_STATES
    <3>3. QED
      BY <2>7, <3>1, <3>2 DEF Pause
  <2>8. ASSUME NEW item \in InboxItems,
               SuspendForHumanInput(c, item) \/ ResumeFromHumanInput(c, item)
        PROVE  ClaimEffect
    <3>1. CASE SuspendForHumanInput(c, item)
      BY <1>1, <3>1, LeavesClaim DEF SuspendForHumanInput, TaskRecord, Claiming, TERMINAL_STATES
    <3>2. CASE ResumeFromHumanInput(c, item)
      <4>1. PICK late \in {FALSE, task.overdue} :
              task' = [Requeued(task) EXCEPT !.claims = @ \cup {item}, !.overdue = late]
        BY <3>2 DEF ResumeFromHumanInput
      <4>2. task'.result = task.result /\ task'.state = "queued"
        BY <1>1, <4>1 DEF Requeued, TaskRecord
      <4>3. QED
        BY <4>2, LeavesClaim DEF Claiming, TERMINAL_STATES
    <3>3. QED
      BY <2>8, <3>1, <3>2
  <2>9. CASE SuspendForConnector(c) \/ ResumeFromConnector(c) \/ ResumeFromBatch(c)
    BY <1>1, <2>9, LeavesClaim DEF SuspendForConnector, ResumeFromConnector,
       ResumeFromBatch, TaskRecord, Claiming, TERMINAL_STATES
  <2>10. CASE Reverify(c) \/ AcceptOverrun(c) \/ CancelRead(c) \/ RetryDecide(c) \/ ReleaseRetry(c) \/ PauseRead(c)
    BY <2>10, KeepsClaim DEF Reverify, AcceptOverrun, CancelRead, RetryDecide, ReleaseRetry, PauseRead
  <2>11. QED
    BY <1>5, <2>1, <2>2, <2>3, <2>4, <2>5, <2>6, <2>7, <2>8, <2>9, <2>10 DEF Steer
<1>6. CASE Faults
  <2>1. CASE Tick \/ DeadlinePasses \/ \E w \in Workers : Heartbeat(w)
    BY <1>1, <2>1, KeepsClaim DEF Tick, DeadlinePasses, Heartbeat, TaskRecord
  <2>2. CASE \/ \E p \in Procs : Crash(p)
             \/ \E w \in Workers : CrashInSubmit(w) \/ CrashInPersist(w)
             \/ \E c \in Controllers, target \in {"failed", "budget_exhausted"} : CrashInEnd(c, target)
    BY <2>2, KeepsClaim DEF Crash, CrashInSubmit, CrashInPersist, CrashInEnd
  <2>3. QED
    BY <1>6, <2>1, <2>2 DEF Faults
<1>7. QED
  BY <1>3, <1>4, <1>5, <1>6 DEF Next

LEMMA NamesCurrentKept ==
  ASSUME LedgerInv, ClaimEffect, ResultsEffect, NamesCurrent, task'.gen = task.gen,
         results' \in Seq(EscrowResult)
  PROVE  NamesCurrent'
<1>1. /\ results \in Seq(EscrowResult) /\ task.result \in 1..Len(results)
      /\ results[task.result].gen = task.gen
  BY DEF LedgerInv, TypeInv, TypeOK, Recorded, NamesCurrent
<1>2. CASE task'.result = task.result
  BY <1>1, <1>2 DEF ResultsEffect, NamesCurrent
<1>3. CASE task'.result # 0 /\ results'[task'.result].gen = task.gen
  BY <1>3 DEF NamesCurrent
<1>4. QED
  BY <1>1, <1>2, <1>3 DEF ClaimEffect

LEMMA CheckpointsReturnStep ==
  ASSUME ClaimInv, HeldEffect, ControlEffect, NamesCurrent /\ task'.gen = task.gen => NamesCurrent'
  PROVE  CheckpointsReturn' /\ RetriesReturn'
<1>1. /\ pc \in [Procs -> Labels] /\ seen \in [Procs -> Memory]
      /\ held \in [Workers -> 0..task.gen] /\ task.gen \in Nat
      /\ CheckpointsReturn /\ RetriesReturn /\ CurrentClaim
  BY DEF ClaimInv, LedgerInv, TypeInv, TypeOK, TaskRecord
<1>2. ASSUME task'.gen = task.gen + 1, UNCHANGED <<pc, seen>>,
             NEW v \in Workers, pc[v] = "idle", held' = [held EXCEPT ![v] = task.gen + 1]
      PROVE  CheckpointsReturn' /\ RetriesReturn'
  <2>1. \A w \in Workers \ {v} : held'[w] # task'.gen
    BY <1>1, <1>2
  <2>2. QED
    BY <1>1, <1>2, <2>1 DEF CheckpointsReturn, RetriesReturn
<1>3. ASSUME task'.gen = task.gen, \A w \in Workers : held'[w] \in {held[w], 0}
      PROVE  CheckpointsReturn' /\ RetriesReturn'
  <2>1. CASE UNCHANGED <<pc, seen>>
    BY <1>1, <1>3, <2>1 DEF CheckpointsReturn, RetriesReturn
  <2>2. ASSUME NEW p \in Procs, NEW label \in Labels, NEW mem \in Memory, Reaches(p, label, mem)
        PROVE  CheckpointsReturn' /\ RetriesReturn'
    <3>1. /\ pc'[p] = label /\ seen'[p] = mem
          /\ \A q \in Procs \ {p} : pc'[q] = pc[q] /\ seen'[q] = seen[q]
      BY <1>1, <2>2 DEF Reaches, Goto
    <3>2. CASE label = "ckBegin"
      <4>1. /\ seen'[p].state = task.state /\ task.state \in CheckpointStates
            /\ task.state \in Claiming => NamesCurrent
        BY <1>1, <2>2, <3>1, <3>2 DEF Reaches, CurrentClaim, NamesCurrent, Claiming
      <4>2. QED
        BY <1>1, <1>3, <3>1, <3>2, <4>1 DEF CheckpointsReturn, RetriesReturn
    <3>3. CASE label = "ckPersist"
      <4>1. pc[p] = "ckBegin" /\ seen'[p] = seen[p]
        BY <2>2, <3>1, <3>3 DEF Reaches
      <4>2. QED
        BY <1>1, <1>3, <3>1, <3>3, <4>1 DEF CheckpointsReturn, RetriesReturn
    <3>4. CASE label = "retry"
      BY <1>1, <1>3, <2>2, <3>1, <3>4 DEF Reaches, CheckpointsReturn, RetriesReturn
    <3>5. CASE label \notin {"ckBegin", "ckPersist", "retry"}
      BY <1>1, <1>3, <3>1, <3>5 DEF CheckpointsReturn, RetriesReturn
    <3>6. QED
      BY <3>2, <3>3, <3>4, <3>5
  <2>3. QED
    BY <2>1, <2>2 DEF ControlEffect
<1>4. QED
  BY <1>1, <1>2, <1>3 DEF HeldEffect

LEMMA NextClaim ==
  ASSUME ClaimInv, Next
  PROVE  ClaimInv'
<1>1. /\ LedgerInv /\ TypeInv /\ CurrentClaim /\ TerminalOutcome /\ CheckpointsReturn
      /\ task.gen \in Nat
  BY DEF ClaimInv, LedgerInv, TypeInv, TypeOK, TaskRecord
<1>2. /\ LedgerInv' /\ ClaimEffect /\ ResultsEffect /\ HeldEffect /\ ControlEffect
      /\ results' \in Seq(EscrowResult)
  BY <1>1, StepEffects, NextLedger, ClaimStep
<1>3. NamesCurrent /\ task'.gen = task.gen => NamesCurrent'
  BY <1>1, <1>2, NamesCurrentKept
<1>4. CheckpointsReturn' /\ RetriesReturn'
  BY <1>2, <1>3, CheckpointsReturnStep
<1>5. CurrentClaim'
  <2>1. SUFFICES ASSUME task'.state \in Claiming PROVE NamesCurrent'
    BY DEF CurrentClaim, NamesCurrent, Claiming
  <2>2. task'.gen = task.gen
    BY <1>2, <2>1 DEF ClaimEffect
  <2>3. CASE task.state \in Claiming
    BY <1>1, <1>3, <2>2, <2>3 DEF CurrentClaim, NamesCurrent, Claiming
  <2>4. CASE task'.result # 0 /\ results'[task'.result].gen = task.gen
    BY <2>2, <2>4 DEF NamesCurrent
  <2>5. ASSUME NEW w \in Workers, pc[w] = "ckPersist", HoldsLease(w), task'.state = seen[w].state
        PROVE  NamesCurrent'
    <3>1. held[w] # 0 /\ held[w] = task.gen /\ w \in Procs
      BY <2>5 DEF HoldsLease, Procs
    <3>2. QED
      BY <1>1, <1>3, <2>1, <2>2, <2>5, <3>1 DEF CheckpointsReturn
  <2>6. QED
    BY <1>2, <2>1, <2>3, <2>4, <2>5 DEF ClaimEffect
<1>6. TerminalOutcome'
  BY <1>1, <1>2 DEF ClaimEffect, TerminalOutcome, CurrentClaim, Claiming
<1>7. QED
  BY <1>2, <1>4, <1>5, <1>6 DEF ClaimInv

\* ClaimInv holds in every state.
THEOREM ClaimInvariant == Spec => []ClaimInv
<1>1. Init => ClaimInv
  <2>1. SUFFICES ASSUME Init PROVE ClaimInv
    OBVIOUS
  <2>2. task.state = "created" /\ pc = [p \in Procs |-> "idle"]
    BY <2>1 DEF Init
  <2>3. QED
    BY <2>1, <2>2, InitLedger
       DEF ClaimInv, CheckpointsReturn, RetriesReturn, CurrentClaim, TerminalOutcome, TERMINAL_STATES
<1>2. ClaimInv /\ UNCHANGED vars => ClaimInv'
  <2>1. SUFFICES ASSUME ClaimInv, UNCHANGED vars PROVE ClaimInv'
    OBVIOUS
  <2>2. LedgerInv'
    BY <2>1, StutterLedger DEF ClaimInv
  <2>3. QED
    BY <2>1, <2>2 DEF ClaimInv, CheckpointsReturn, RetriesReturn, CurrentClaim,
       TerminalOutcome, NamesCurrent, vars
<1>3. ClaimInv /\ [Next]_vars => ClaimInv'
  BY <1>2, NextClaim
<1>4. QED
  BY <1>1, <1>3, PTL DEF Spec

\* Whatever interleaving of submit_result, checkpoint, retry and verify_completion, a
\* task that claims completion or is completed names a result of its current attempt.
THEOREM ClaimsAreCurrent == Spec => []CurrentClaim
<1>1. ClaimInv => CurrentClaim
  BY DEF ClaimInv
<1>2. QED
  BY <1>1, ClaimInvariant, PTL

\* A task that has ended, in whichever way, names an outcome.
THEOREM OutcomesAreRecorded == Spec => []TerminalOutcome
<1>1. ClaimInv => TerminalOutcome
  BY DEF ClaimInv
<1>2. QED
  BY <1>1, ClaimInvariant, PTL
=============================================================================
