------------------------ MODULE ExecutionSupervisor ------------------------
(***************************************************************************)
(* One supervised task of src/mana_agent/execution_supervisor/supervisor.py*)
(* with the workers that lease it and the controllers (lanes, operators,   *)
(* the human inbox, connector health) that steer it.                       *)
(*                                                                         *)
(* Every write goes through the store's lock: one update of the task file  *)
(* is one action.  What a handler reads before it takes the lock, and every*)
(* further locked update, is a step of its own: pc and seen hold where a   *)
(* process is and what it read.  A locked update whose checks raise writes *)
(* nothing and the handler returns.                                        *)
(*                                                                         *)
(* Attempt n is the attempt with generation n: acquire_lease creates both  *)
(* together, and the lease token is as unique as the attempt, so a worker  *)
(* presents the pair as held[w].  Time is what a comparison with the clock *)
(* can tell: ticks left of the lease, and whether the deadline has passed. *)
(* Recovery and the read repair are in SupervisorRecovery.                 *)
(***************************************************************************)
EXTENDS ExecutionStates, Integers, Sequences

CONSTANTS Workers,          \* threads that lease the task and execute it
          Controllers,      \* threads that steer it without a lease
          InboxItems,       \* human inbox items the task may wait for
          NoItem,           \* "" in waiting_inbox_item_id
          Suspensions,      \* the durable waits the task's lane may enter
          HasDeadline,      \* deadline_at is set
          HasIrreversible,  \* the task's tools have an irreversible phase
          LeaseTicks,       \* lease_seconds, in ticks
          MaxAttempts,      \* bound on attempts (the code has none)
          MaxResults,       \* bound on escrow results (the code has none)
          MaxCheckpoints,   \* bound on checkpoints (the code has none)
          MaxRetries        \* retry_budget, all categories together

ASSUME ProcessAssumption == Workers \cap Controllers = {}
ASSUME ItemAssumption == NoItem \notin InboxItems
ASSUME OptionAssumption ==
  /\ Suspensions \subseteq {"human", "connector", "batch"}
  /\ HasDeadline \in BOOLEAN /\ HasIrreversible \in BOOLEAN
ASSUME BoundAssumption ==
  /\ LeaseTicks \in Nat \ {0}
  /\ MaxAttempts \in Nat /\ MaxResults \in Nat
  /\ MaxCheckpoints \in Nat /\ MaxRetries \in Nat

VARIABLES task,         \* the task record
          results,        \* results/: every escrow record, in creation order
          index,          \* results_by_execution/: the indexed result, 0 for none
          checkpoints,    \* checkpoints/: the attempt of each, in creation order
          held,           \* the attempt whose id and token a worker holds, 0 for none
          pc,             \* where each process is in its handler
          seen            \* what that handler has read or decided so far

vars == <<task, results, index, checkpoints, held, pc, seen>>

Procs == Workers \cup Controllers

NoLease == -1             \* lease_expires_at is None, lease_token is ""
Verdicts == {"pending", "passed", "failed", "not_supported"}
Waits == {"none", "human", "connector", "batch", "review"}

TaskRecord ==
  [state: States, gen: Nat, lease: {NoLease} \cup 0..LeaseTicks,
   result: Nat, ver: Verdicts, ckpt: Nat, inbox: InboxItems \cup {NoItem},
   wait: Waits, claims: SUBSET InboxItems, review: Nat, irreversible: BOOLEAN,
   overdue: BOOLEAN, retries: Nat]

\* A record that is not saved is a result id that was handed out and has no file.
EscrowResult == [gen: Nat, sup: States, ver: Verdicts, saved: BOOLEAN]

NoResult == [gen |-> 0, sup |-> "created", ver |-> "pending", saved |-> FALSE]

\* Where a process can be: its own handlers, and those of SupervisorRecovery.
RecoveryLabels == {"recover", "relinkCheckpoint", "repair", "relinkResult", "failTask",
                   "failLost", "receipt", "reviewLink", "reviewEnd", "resolve",
                   "recordSave", "recordLink"}

Labels == {"idle", "release", "ckBegin", "ckPersist", "publish", "verify", "verSave",
           "verApply", "finalize", "cancel", "cancelFinish", "retry", "requeue",
           "pause"}
          \cup RecoveryLabels

Memory == [state: States, result: Nat, rec: EscrowResult, then: Labels]

Nothing == [state |-> "created", result |-> 0, rec |-> NoResult, then |-> "idle"]

----------------------------------------------------------------------------
(* Handlers' control *)

At(p, label) == pc[p] = label

\* The handler goes on, remembering mem.
Goto(p, label, mem) ==
  /\ pc' = [pc EXCEPT ![p] = label]
  /\ seen' = [seen EXCEPT ![p] = mem]

\* The handler returns or raises.
Return(p) == Goto(p, "idle", Nothing)

\* The handler goes on where it decided to.
Proceed(p) ==
  IF seen[p].then = "idle"
    THEN Return(p)
    ELSE Goto(p, seen[p].then, [seen[p] EXCEPT !.then = "idle"])

----------------------------------------------------------------------------
(* The locked updates the handlers share *)

\* _validate_lease with the attempt id and the token of held[w].
HoldsLease(w) ==
  /\ held[w] # 0 /\ held[w] = task.gen
  /\ task.lease > 0
  /\ ~task.overdue

\* transition: the states a branch waiting for a human may enter only by its claim.
HumanGated == {"queued", "leased", "running", "checkpointing", "retry_scheduled",
               "completed_pending_verification"}

\* A mutation of MayMove: the durable question a task waits on is not looked at.
MayMoveUngated(target) ==
  /\ task.state # target
  /\ ~(task.state \in TERMINAL_STATES /\ target \in TERMINAL_STATES)
  /\ ValidTransition(task.state, target)

\* A mutation of MayMove: the table of moves is not asked.
MayMoveUnvalidated(target) ==
  /\ task.state # target
  /\ ~(task.state \in TERMINAL_STATES /\ target \in TERMINAL_STATES)
  /\ ~(task.inbox # NoItem /\ target \in HumanGated)

\* transition: the update moves the task; otherwise it raises or does nothing.
MayMove(target) ==
  /\ task.state # target
  /\ ~(task.state \in TERMINAL_STATES /\ target \in TERMINAL_STATES)
  /\ ~(task.inbox # NoItem /\ target \in HumanGated)
  /\ ValidTransition(task.state, target)

\* transition to QUEUED: the lease and the wait are cleared.
Requeued(t) ==
  [t EXCEPT !.state = "queued", !.lease = NoLease, !.inbox = NoItem, !.wait = "none"]

\* transition to a terminal state, linking result r.
Ended(t, target, r) ==
  [t EXCEPT !.state = target, !.lease = NoLease, !.result = r,
            !.inbox = IF target = "recovery_review_required" THEN @ ELSE NoItem,
            !.wait = IF target = "recovery_review_required" THEN @ ELSE "none"]

\* The results that have a file.
Escrowed == {r \in DOMAIN results : results[r].saved}

\* store.get_result_by_execution_id: through the index, or any result by a scan.
EscrowByExecution == IF index # 0 THEN {index} ELSE Escrowed

\* The result a handler finds for the task: the one it names, or one of its execution.
LinkedEscrow ==
  IF task.result # 0 THEN {task.result} \cap Escrowed ELSE EscrowByExecution

\* The terminal-failure record written when there is none.
FailureResult(target) ==
  [gen |-> task.gen, sup |-> target,
   ver |-> IF target \in {"failed", "recovery_review_required"}
           THEN "failed" ELSE "not_supported",
   saved |-> TRUE]

\* store.save_result of a record not yet in results/.
SaveNew(rec) ==
  /\ Len(results) < MaxResults
  /\ results' = Append(results, rec)
  /\ index' = Len(results) + 1

\* store.save_result under an id that was handed out.
SaveAgain(r, rec) ==
  /\ results' = [results EXCEPT ![r] = rec]
  /\ index' = r

\* A mutation of EndTask: the task ends and nobody writes down why.
EndTaskUnrecorded(target) ==
  /\ MayMove(target)
  /\ task' = Ended(task, target, task.result)
  /\ UNCHANGED <<results, index>>

\* transition to a terminal state other than COMPLETED: the outcome is escrowed
\* before the task file names it.
EndTask(target) ==
  /\ MayMove(target)
  /\ \/ /\ \E r \in LinkedEscrow : task' = Ended(task, target, r)
        /\ UNCHANGED <<results, index>>
     \/ /\ LinkedEscrow = {} /\ task.result # 0
        /\ task' = Ended(task, target, task.result)
        /\ UNCHANGED <<results, index>>
     \/ /\ LinkedEscrow = {} /\ task.result = 0
        /\ SaveNew(FailureResult(target))
        /\ task' = Ended(task, target, Len(results) + 1)

----------------------------------------------------------------------------
(* Lease and attempt: acquire_lease, start, heartbeat, release, resume *)

\* queue, on a task just created or left waiting by a fleet job.
Queue(c) ==
  /\ At(c, "idle")
  /\ task.state \in {"created", "waiting"}
  /\ MayMove("queued")
  /\ task' = Requeued(task)
  /\ UNCHANGED <<results, index, checkpoints, held, pc, seen>>

\* A mutation of Acquire: the attempt is new and the task keeps the old generation.
AcquireForgetsGeneration(w) ==
  /\ At(w, "idle") /\ held[w] = 0
  /\ task.state \in {"queued", "created"}
  /\ ~task.overdue /\ task.lease <= 0 /\ task.gen < MaxAttempts
  /\ task' = [task EXCEPT !.state = "leased", !.lease = LeaseTicks]
  /\ held' = [held EXCEPT ![w] = task.gen + 1]
  /\ UNCHANGED <<results, index, checkpoints, pc, seen>>

\* A mutation of Acquire: a task that was attempted before keeps its attempt.
AcquireSameAttempt(w) ==
  /\ At(w, "idle") /\ held[w] = 0
  /\ task.state \in {"queued", "created"}
  /\ ~task.overdue /\ task.lease <= 0 /\ task.gen < MaxAttempts
  /\ task' = [task EXCEPT !.state = "leased", !.lease = LeaseTicks,
                          !.gen = IF @ = 0 THEN 1 ELSE @]
  /\ held' = [held EXCEPT ![w] = task'.gen]
  /\ UNCHANGED <<results, index, checkpoints, pc, seen>>

\* acquire_lease: its deadline check and its clock are read before the lock; what
\* passes between shows as DeadlinePasses or Tick right after the claim.
Acquire(w) ==
  /\ At(w, "idle") /\ held[w] = 0
  /\ task.state \in {"queued", "created"}
  /\ ~task.overdue
  /\ task.lease <= 0
  /\ task.gen < MaxAttempts
  /\ task' = [task EXCEPT !.state = "leased", !.gen = @ + 1, !.lease = LeaseTicks]
  /\ held' = [held EXCEPT ![w] = task.gen + 1]
  /\ UNCHANGED <<results, index, checkpoints, pc, seen>>

\* acquire_lease on a task past its deadline fails the task.
AcquireOverdue(w) ==
  /\ At(w, "idle") /\ held[w] = 0
  /\ task.state \in {"queued", "created"}
  /\ task.overdue
  /\ EndTask("failed")
  /\ UNCHANGED <<checkpoints, held, pc, seen>>

\* start
Start(w) ==
  /\ At(w, "idle") /\ HoldsLease(w)
  /\ ValidTransition(task.state, "running")
  /\ task' = [task EXCEPT !.state = "running"]
  /\ UNCHANGED <<results, index, checkpoints, held, pc, seen>>

\* heartbeat, also from the renewal thread of a handler under way.
Heartbeat(w) ==
  /\ HoldsLease(w)
  /\ task.state \in {"leased", "running", "checkpointing", "waiting"}
  /\ task' = [task EXCEPT !.lease = LeaseTicks]
  /\ UNCHANGED <<results, index, checkpoints, held, pc, seen>>

\* release_lease, the checks on an unlocked read ...
ReleaseCheck(w) ==
  /\ At(w, "idle") /\ HoldsLease(w)
  /\ task.state = "leased"
  /\ Goto(w, "release", Nothing)
  /\ UNCHANGED <<task, results, index, checkpoints, held>>

\* ... and the transition it makes, which looks at the attempt but not the lease.
Release(w) ==
  /\ At(w, "release")
  /\ \/ /\ held[w] = task.gen /\ MayMove("queued")
        /\ task' = Requeued(task)
        /\ held' = [held EXCEPT ![w] = 0]
     \/ /\ held[w] # task.gen \/ ~MayMove("queued")
        /\ UNCHANGED <<task, held>>
  /\ Return(w)
  /\ UNCHANGED <<results, index, checkpoints>>

\* resume_running: a waiting task takes the caller's token back unseen; any other
\* state must hold a valid lease.
ResumeRunning(w) ==
  /\ At(w, "idle")
  /\ held[w] # 0 /\ held[w] = task.gen
  /\ \/ /\ task.state = "waiting"
        /\ task' = [task EXCEPT !.state = "running", !.lease = LeaseTicks]
     \/ /\ task.state = "leased" /\ HoldsLease(w)
        /\ task' = [task EXCEPT !.state = "running"]
  /\ UNCHANGED <<results, index, checkpoints, held, pc, seen>>

\* mark_irreversible_side_effect
MarkIrreversible(w) ==
  /\ HasIrreversible
  /\ At(w, "idle") /\ HoldsLease(w)
  /\ ~task.irreversible
  /\ task' = [task EXCEPT !.irreversible = TRUE]
  /\ UNCHANGED <<results, index, checkpoints, held, pc, seen>>

----------------------------------------------------------------------------
(* checkpoint: request, begin, persist *)

\* VALID_CHECKPOINT_STATES
CheckpointStates == {"running", "checkpointing", "completed_pending_verification",
                     "pending_budget_decision"}

\* The unlocked read decides whether to go on and which state to come back to.
CheckpointRequest(w) ==
  /\ At(w, "idle") /\ held[w] # 0
  /\ Len(checkpoints) < MaxCheckpoints
  /\ task.state \in CheckpointStates
  /\ Goto(w, "ckBegin", [Nothing EXCEPT !.state = task.state])
  /\ UNCHANGED <<task, results, index, checkpoints, held>>

\* begin: skipped in a terminal or waiting state, refused without the lease.
CheckpointBegin(w) ==
  /\ At(w, "ckBegin")
  /\ LET allowed == /\ task.state \notin TERMINAL_STATES \cup {"waiting"}
                    /\ HoldsLease(w)
                    /\ ValidTransition(task.state, "checkpointing")
     IN  \/ /\ allowed
            /\ task' = [task EXCEPT !.state = "checkpointing"]
            /\ Goto(w, "ckPersist", seen[w])
         \/ /\ ~allowed
            /\ UNCHANGED task
            /\ Return(w)
  /\ UNCHANGED <<results, index, checkpoints, held>>

\* A mutation of CheckpointPersist: the lease is not checked again under the lock.
CheckpointPersistUnfenced(w) ==
  /\ At(w, "ckPersist")
  /\ \/ /\ task.state = "checkpointing" /\ Len(checkpoints) < MaxCheckpoints
        /\ checkpoints' = Append(checkpoints, held[w])
        /\ task' = [task EXCEPT !.state = seen[w].state, !.ckpt = Len(checkpoints) + 1]
     \/ /\ task.state # "checkpointing"
        /\ UNCHANGED <<task, checkpoints>>
  /\ Return(w)
  /\ UNCHANGED <<results, index, held>>

\* persist: the checkpoint file, then the task that names it, back in the state
\* the request had read.
CheckpointPersist(w) ==
  /\ At(w, "ckPersist")
  /\ LET allowed == /\ task.state = "checkpointing"
                    /\ HoldsLease(w)
                    /\ ValidTransition("checkpointing", seen[w].state)
                    /\ Len(checkpoints) < MaxCheckpoints
     IN  \/ /\ allowed
            /\ checkpoints' = Append(checkpoints, held[w])
            /\ task' = [task EXCEPT !.state = seen[w].state,
                                    !.ckpt = Len(checkpoints) + 1]
         \/ /\ ~allowed
            /\ UNCHANGED <<task, checkpoints>>
  /\ Return(w)
  /\ UNCHANGED <<results, index, held>>

----------------------------------------------------------------------------
(* submit_result and verify_completion *)

ChatResult(w, target) ==
  [gen |-> held[w], sup |-> target, ver |-> "pending", saved |-> TRUE]

\* A mutation of MaySubmit: the lease is not checked under the lock.
MaySubmitUnfenced(w, target) ==
  /\ At(w, "idle") /\ held[w] # 0
  /\ task.state \in {"running", "waiting", "completed_pending_verification"}
  /\ target \in {"completed_pending_verification", "pending_budget_decision"}
  /\ ValidTransition(task.state, target)
  /\ Len(results) < MaxResults

\* submit_result's checks under the lock.  Whether the usage overruns a budget was
\* computed from unlocked reads; it is left open.
MaySubmit(w, target) ==
  /\ At(w, "idle") /\ HoldsLease(w)
  /\ task.state \in {"running", "waiting", "completed_pending_verification"}
  /\ target \in {"completed_pending_verification", "pending_budget_decision"}
  /\ ValidTransition(task.state, target)
  /\ Len(results) < MaxResults

\* submit_result, escrow: result file and task file under one lock, not indexed yet.
SubmitEscrow(w) ==
  \E target \in States :
    /\ MaySubmit(w, target)
    /\ results' = Append(results, ChatResult(w, target))
    /\ task' = [task EXCEPT !.state = target, !.result = Len(results) + 1]
    /\ Goto(w, "publish", [Nothing EXCEPT !.result = Len(results) + 1,
                                          !.rec = ChatResult(w, target)])
    /\ UNCHANGED <<index, checkpoints, held>>

\* submit_result, after the lock: the record it still has in memory is saved again
\* (as stored, then as available); without an overrun the result is verified.
SubmitPublish(w) ==
  /\ At(w, "publish")
  /\ SaveAgain(seen[w].result, seen[w].rec)
  /\ IF seen[w].rec.sup = "pending_budget_decision"
       THEN Return(w)
       ELSE Goto(w, "verify", Nothing)
  /\ UNCHANGED <<task, checkpoints, held>>

\* verify_completion, the unlocked reads of the task and its result.
ReadClaim(p, then) ==
  /\ task.state \in {"completed_pending_verification", "pending_budget_decision"}
  /\ task.result \in Escrowed
  /\ Goto(p, "verSave", [Nothing EXCEPT !.result = task.result,
                                        !.rec = results[task.result], !.then = then])

VerifyRead(p) ==
  /\ At(p, "verify")
  /\ \/ ReadClaim(p, "idle")
     \/ /\ \/ task.state \notin {"completed_pending_verification",
                                  "pending_budget_decision"}
           \/ task.result \notin Escrowed
        /\ Return(p)
  /\ UNCHANGED <<task, results, index, checkpoints, held>>

\* verify_completion called on its own: lane, batch watcher or main agent.
Reverify(c) ==
  /\ At(c, "idle")
  /\ ReadClaim(c, "idle")
  /\ UNCHANGED <<task, results, index, checkpoints, held>>

\* reverify_completed: a completed task is opened for verification again.
ReopenCompleted(c) ==
  /\ At(c, "idle")
  /\ task.state = "completed" /\ task.ver = "passed" /\ task.result \in Escrowed
  /\ task' = [task EXCEPT !.state = "completed_pending_verification", !.ver = "pending"]
  /\ Goto(c, "verify", Nothing)
  /\ UNCHANGED <<results, index, checkpoints, held>>

Judged(rec, verdict) ==
  [rec EXCEPT !.ver = verdict,
              !.sup = IF verdict = "passed" THEN "completed" ELSE "failed"]

\* verify_completion, the verdict saved in the escrow record that was read.
VerifySave(p, verdict) ==
  /\ At(p, "verSave")
  /\ SaveAgain(seen[p].result, Judged(seen[p].rec, verdict))
  /\ Goto(p, "verApply", [seen[p] EXCEPT !.rec = [NoResult EXCEPT !.ver = verdict]])
  /\ UNCHANGED <<task, checkpoints, held>>

\* The verifier raises: the claimed result stays in escrow.
VerifyRaises(p) ==
  /\ At(p, "verSave")
  /\ Return(p)
  /\ UNCHANGED <<task, results, index, checkpoints, held>>

\* verify_completion, apply_report
Reported(t, verdict) ==
  IF verdict = "passed" /\ t.state = "completed_pending_verification"
    THEN [t EXCEPT !.ver = verdict, !.state = "completed", !.lease = NoLease]
    ELSE [t EXCEPT !.ver = verdict]

VerifyApply(p) ==
  /\ At(p, "verApply")
  /\ \/ /\ task.result = seen[p].result
        /\ task' = Reported(task, seen[p].rec.ver)
        /\ Proceed(p)
     \/ /\ task.result # seen[p].result
        /\ UNCHANGED task
        /\ Return(p)
  /\ UNCHANGED <<results, index, checkpoints, held>>

\* finalize_budget_overrun: a decision to accept verifies first ...
AcceptOverrun(c) ==
  /\ At(c, "idle")
  /\ task.state = "pending_budget_decision"
  /\ ReadClaim(c, "finalize")
  /\ UNCHANGED <<task, results, index, checkpoints, held>>

\* ... and completes the task if it then carries a passed verdict.
FinalizeOverrun(c) ==
  /\ At(c, "finalize")
  /\ IF task.state = "pending_budget_decision" /\ task.ver = "passed"
       THEN task' = [task EXCEPT !.state = "completed"]
       ELSE UNCHANGED task
  /\ Return(c)
  /\ UNCHANGED <<results, index, checkpoints, held>>

----------------------------------------------------------------------------
(* cancel, retry, release_retry, failing and pausing a task *)

\* cancel, the unlocked read: a terminal task is left alone and a task in its
\* irreversible phase is only marked as blocked.
CancelRead(c) ==
  /\ At(c, "idle")
  /\ task.state \notin TERMINAL_STATES
  /\ ~task.irreversible
  /\ Goto(c, IF task.state = "cancelling" THEN "cancelFinish" ELSE "cancel", Nothing)
  /\ UNCHANGED <<task, results, index, checkpoints, held>>

\* cancel, transition to CANCELLING
CancelRequest(c) ==
  /\ At(c, "cancel")
  /\ \/ /\ MayMove("cancelling")
        /\ task' = [task EXCEPT !.state = "cancelling"]
        /\ Goto(c, "cancelFinish", Nothing)
     \/ /\ task.state = "cancelling"
        /\ UNCHANGED task
        /\ Goto(c, "cancelFinish", Nothing)
     \/ /\ task.state # "cancelling" /\ ~MayMove("cancelling")
        /\ UNCHANGED task
        /\ Return(c)
  /\ UNCHANGED <<results, index, checkpoints, held>>

\* cancel, finish: a task that ended meanwhile is left alone.  Without a result the
\* cancellation is escrowed; save_result refuses it when another result is indexed.
CancelFinish(c) ==
  /\ At(c, "cancelFinish")
  /\ \/ /\ task.state = "cancelling"
        /\ \/ /\ task.result # 0
              /\ task' = Ended(task, "cancelled", task.result)
              /\ UNCHANGED <<results, index>>
           \/ /\ task.result = 0 /\ index = 0
              /\ SaveNew(FailureResult("cancelled"))
              /\ task' = Ended(task, "cancelled", Len(results) + 1)
           \/ /\ task.result = 0 /\ index # 0
              /\ UNCHANGED <<task, results, index>>
     \/ /\ task.state # "cancelling"
        /\ UNCHANGED <<task, results, index>>
  /\ Return(c)
  /\ UNCHANGED <<checkpoints, held>>

\* retry, the policy's checks on an unlocked read: deadline and retry budget, not the
\* state.  The decision plans the retry anew or repeats it.
RetryDecide(c) ==
  /\ At(c, "idle")
  /\ ~task.overdue
  /\ task.retries < MaxRetries
  /\ \E target \in {"retry_scheduled", "replanning"} :
       Goto(c, "retry", [Nothing EXCEPT !.state = target])
  /\ UNCHANGED <<task, results, index, checkpoints, held>>

\* A mutation of Rescheduled: the lease survives the retry.
RescheduledLeased(t, target) == [t EXCEPT !.state = target, !.retries = @ + 1]

\* retry, schedule: whoever held the lease loses it.
Rescheduled(t, target) ==
  [t EXCEPT !.state = target, !.retries = @ + 1, !.lease = NoLease]

\* A mutation of RetrySchedule: the state is not looked at again under the lock.
RetryScheduleUnchecked(c) ==
  /\ At(c, "retry")
  /\ task' = Rescheduled(task, seen[c].state)
  /\ Return(c)
  /\ UNCHANGED <<results, index, checkpoints, held>>

RetrySchedule(c) ==
  /\ At(c, "retry")
  /\ IF ValidTransition(task.state, seen[c].state)
       THEN task' = Rescheduled(task, seen[c].state)
       ELSE UNCHANGED task
  /\ Return(c)
  /\ UNCHANGED <<results, index, checkpoints, held>>

\* release_retry, the check on an unlocked read that the backoff is over ...
ReleaseRetry(c) ==
  /\ At(c, "idle")
  /\ task.state \in {"retry_scheduled", "replanning"}
  /\ Goto(c, "requeue", Nothing)
  /\ UNCHANGED <<task, results, index, checkpoints, held>>

\* ... and the transition it makes from whatever state it then finds.
Requeue(c) ==
  /\ At(c, "requeue")
  /\ IF MayMove("queued") THEN task' = Requeued(task) ELSE UNCHANGED task
  /\ Return(c)
  /\ UNCHANGED <<results, index, checkpoints, held>>

\* transition to FAILED or BUDGET_EXHAUSTED by a lane.
Fail(c, target) ==
  /\ At(c, "idle")
  /\ EndTask(target)
  /\ UNCHANGED <<checkpoints, held, pc, seen>>

\* A lane that pauses, or a fleet job to be revalidated: the unlocked read ...
PauseRead(c) ==
  /\ At(c, "idle")
  /\ task.state \in {"queued", "leased", "running"}
  /\ Goto(c, "pause", Nothing)
  /\ UNCHANGED <<task, results, index, checkpoints, held>>

\* ... and the transition to WAITING, from whatever state it then finds.  The lease
\* is kept; a reason that speaks of an approval is noted.
Pause(c) ==
  /\ At(c, "pause")
  /\ \/ /\ MayMove("waiting")
        /\ \E reason \in {task.wait} \cup (Suspensions \cap {"human"}) :
             task' = [task EXCEPT !.state = "waiting", !.wait = reason]
     \/ /\ ~MayMove("waiting")
        /\ UNCHANGED task
  /\ Return(c)
  /\ UNCHANGED <<results, index, checkpoints, held>>

----------------------------------------------------------------------------
(* Durable waits: human inbox, connector health, provider batch *)

Suspendable == {"queued", "leased", "running", "checkpointing", "waiting",
                "retry_scheduled"}

\* suspend_for_human_input, for an item published with the current checkpoint.  Whether
\* the item was answered and its answer claimed is not looked at: create may come after
\* both.
SuspendForHumanInput(c, item) ==
  /\ "human" \in Suspensions
  /\ At(c, "idle")
  /\ task.ckpt # 0
  /\ task.state \in Suspendable
  /\ ~(task.state = "waiting" /\ task.inbox = item)
  /\ task' = [task EXCEPT !.state = "waiting", !.inbox = item, !.wait = "human",
                          !.lease = NoLease]
  /\ UNCHANGED <<results, index, checkpoints, held, pc, seen>>

\* A mutation of ResumeFromHumanInput: the resume claim is not looked up.
ResumeAgain(c, item) ==
  /\ At(c, "idle")
  /\ task.state = "waiting" /\ task.inbox = item
  /\ task.review = 0
  /\ \E late \in {FALSE, task.overdue} :
       task' = [Requeued(task) EXCEPT !.claims = @ \cup {item}, !.overdue = late]
  /\ UNCHANGED <<results, index, checkpoints, held, pc, seen>>

\* resume_from_human_input: the item's one resume claim.  The deadline moves by the
\* time waited, so one that passed during the wait is ahead again.
ResumeFromHumanInput(c, item) ==
  /\ At(c, "idle")
  /\ item \notin task.claims
  /\ task.state = "waiting" /\ task.inbox = item
  /\ task.review = 0
  /\ \E late \in {FALSE, task.overdue} :
       task' = [Requeued(task) EXCEPT !.claims = @ \cup {item}, !.overdue = late]
  /\ UNCHANGED <<results, index, checkpoints, held, pc, seen>>

\* suspend_for_connector: no lease is asked for and a human wait is not looked at.
SuspendForConnector(c) ==
  /\ "connector" \in Suspensions
  /\ At(c, "idle")
  /\ task.state \in Suspendable
  /\ ~(task.state = "waiting" /\ task.wait = "connector")
  /\ task' = [task EXCEPT !.state = "waiting", !.wait = "connector", !.lease = NoLease]
  /\ UNCHANGED <<results, index, checkpoints, held, pc, seen>>

\* resume_from_connector, with a resume claim not used before.
ResumeFromConnector(c) ==
  /\ At(c, "idle")
  /\ task.state = "waiting" /\ task.wait = "connector"
  /\ task' = [task EXCEPT !.state = "queued", !.wait = "none", !.lease = NoLease]
  /\ UNCHANGED <<results, index, checkpoints, held, pc, seen>>

\* suspend_for_batch, by the worker that submitted the batch.
SuspendForBatch(w) ==
  /\ "batch" \in Suspensions
  /\ At(w, "idle") /\ HoldsLease(w)
  /\ task.inbox = NoItem
  /\ task.state \in {"running", "checkpointing"}
  /\ task' = [task EXCEPT !.state = "waiting", !.wait = "batch", !.lease = NoLease]
  /\ UNCHANGED <<results, index, checkpoints, held, pc, seen>>

\* resume_from_batch
ResumeFromBatch(c) ==
  /\ At(c, "idle")
  /\ task.state = "waiting" /\ task.wait = "batch"
  /\ task.inbox = NoItem
  /\ ~task.overdue
  /\ task' = [task EXCEPT !.state = "queued", !.wait = "none"]
  /\ UNCHANGED <<results, index, checkpoints, held, pc, seen>>

----------------------------------------------------------------------------
(* Time and crashes *)

\* Time passes: a tick of the lease is gone.
Tick ==
  /\ task.lease > 0
  /\ task' = [task EXCEPT !.lease = @ - 1]
  /\ UNCHANGED <<results, index, checkpoints, held, pc, seen>>

\* Time passes: the wall-clock deadline is reached.
DeadlinePasses ==
  /\ HasDeadline
  /\ ~task.overdue
  /\ task' = [task EXCEPT !.overdue = TRUE]
  /\ UNCHANGED <<results, index, checkpoints, held, pc, seen>>

\* The process of p dies, or its lane is over: what it held and remembered is gone.
Forgets(p) ==
  /\ held' = IF p \in Workers THEN [held EXCEPT ![p] = 0] ELSE held
  /\ Return(p)

Crash(p) ==
  /\ ~At(p, "idle") \/ (p \in Workers /\ held[p] # 0)
  /\ Forgets(p)
  /\ UNCHANGED <<task, results, index, checkpoints>>

\* A mutation of CrashInSubmit: the task file is written before the result file.
CrashInSubmitTaskFirst(w) ==
  \E target \in States :
    /\ MaySubmit(w, target)
    /\ task' = [task EXCEPT !.state = target, !.result = Len(results) + 1]
    /\ Forgets(w)
    /\ UNCHANGED <<results, index, checkpoints>>

\* update_task_and_result interrupted between the result file and the task file.
CrashInSubmit(w) ==
  \E target \in States :
    /\ MaySubmit(w, target)
    /\ results' = Append(results, ChatResult(w, target))
    /\ Forgets(w)
    /\ UNCHANGED <<task, index, checkpoints>>

\* A mutation of CrashInPersist: the task file is written before the checkpoint file.
CrashInPersistTaskFirst(w) ==
  /\ At(w, "ckPersist")
  /\ task.state = "checkpointing" /\ HoldsLease(w)
  /\ Len(checkpoints) < MaxCheckpoints
  /\ task' = [task EXCEPT !.ckpt = Len(checkpoints) + 1]
  /\ Forgets(w)
  /\ UNCHANGED <<results, index, checkpoints>>

\* update_task_and_checkpoint interrupted between the checkpoint and the task file.
CrashInPersist(w) ==
  /\ At(w, "ckPersist")
  /\ task.state = "checkpointing"
  /\ HoldsLease(w)
  /\ Len(checkpoints) < MaxCheckpoints
  /\ checkpoints' = Append(checkpoints, held[w])
  /\ Forgets(w)
  /\ UNCHANGED <<task, results, index>>

\* transition interrupted between the terminal result and the task file.
CrashInEnd(c, target) ==
  /\ At(c, "idle")
  /\ MayMove(target)
  /\ LinkedEscrow = {}
  /\ SaveNew(FailureResult(target))
  /\ Forgets(c)
  /\ UNCHANGED <<task, checkpoints>>

----------------------------------------------------------------------------
(* The specification *)

Init ==
  /\ task = [state |-> "created", gen |-> 0, lease |-> NoLease, result |-> 0,
             ver |-> "pending", ckpt |-> 0, inbox |-> NoItem, wait |-> "none",
             claims |-> {}, review |-> 0, irreversible |-> FALSE,
             overdue |-> FALSE, retries |-> 0]
  /\ results = <<>>
  /\ index = 0
  /\ checkpoints = <<>>
  /\ held = [w \in Workers |-> 0]
  /\ pc = [p \in Procs |-> "idle"]
  /\ seen = [p \in Procs |-> Nothing]

\* What a worker does with its lease.
Work(w) ==
  \/ Acquire(w) \/ AcquireOverdue(w) \/ Start(w)
  \/ ReleaseCheck(w) \/ Release(w) \/ ResumeRunning(w)
  \/ MarkIrreversible(w)
  \/ CheckpointRequest(w) \/ CheckpointBegin(w) \/ CheckpointPersist(w)
  \/ SubmitEscrow(w) \/ SubmitPublish(w)
  \/ SuspendForBatch(w)

\* Verification, by whichever process came to it.
Verify(p) ==
  \/ VerifyRead(p) \/ VerifyRaises(p) \/ VerifyApply(p)
  \/ \E verdict \in {"passed", "failed"} : VerifySave(p, verdict)

\* What controllers do.
Steer(c) ==
  \/ Queue(c) \/ Reverify(c) \/ ReopenCompleted(c)
  \/ AcceptOverrun(c) \/ FinalizeOverrun(c)
  \/ CancelRead(c) \/ CancelRequest(c) \/ CancelFinish(c)
  \/ RetryDecide(c) \/ RetrySchedule(c) \/ ReleaseRetry(c) \/ Requeue(c)
  \/ \E target \in {"failed", "budget_exhausted"} : Fail(c, target)
  \/ PauseRead(c) \/ Pause(c)
  \/ \E item \in InboxItems : SuspendForHumanInput(c, item) \/ ResumeFromHumanInput(c, item)
  \/ SuspendForConnector(c) \/ ResumeFromConnector(c) \/ ResumeFromBatch(c)

Faults ==
  \/ Tick \/ DeadlinePasses
  \/ \E p \in Procs : Crash(p)
  \/ \E w \in Workers : Heartbeat(w) \/ CrashInSubmit(w) \/ CrashInPersist(w)
  \/ \E c \in Controllers, target \in {"failed", "budget_exhausted"} : CrashInEnd(c, target)

Next ==
  \/ \E w \in Workers : Work(w)
  \/ \E p \in Procs : Verify(p)
  \/ \E c \in Controllers : Steer(c)
  \/ Faults

Spec == Init /\ [][Next]_vars

----------------------------------------------------------------------------
(* What the supervisor promises *)

\* The types of the state; every link is to a record that has been created, and no
\* worker holds an attempt the task has not had.
TypeOK ==
  /\ task \in TaskRecord
  /\ results \in Seq(EscrowResult)
  /\ index \in 0..Len(results)
  /\ checkpoints \in Seq(Nat)
  /\ held \in [Workers -> 0..task.gen]
  /\ pc \in [Procs -> Labels]
  /\ seen \in [Procs -> Memory]

\* _validate_lease lets at most one worker through, however many of them still
\* carry the attempt id and token of an earlier acquire_lease.
OneAuthority == \A v, w \in Workers : HoldsLease(v) /\ HoldsLease(w) => v = w

\* A task that claims completion, awaits a decision on its overrun or is completed
\* names a result of its current attempt: submit_result, checkpoint (which leaves
\* these states and comes back to them) and verify_completion never let the result
\* of an earlier attempt stand for the work of a later one.
CurrentClaim ==
  task.state \in {"completed_pending_verification", "pending_budget_decision", "completed"}
    => task.result # 0 /\ results[task.result].gen = task.gen

\* What the task file names has a file, whatever was interrupted: results/ and
\* checkpoints/ are written before the task that advertises them
\* (update_task_and_result, update_task_and_checkpoint, transition, cancel).
LinksAreDurable ==
  /\ task.result # 0 => task.result \in Escrowed
  /\ task.ckpt # 0 => task.ckpt \in DOMAIN checkpoints

\* A task that has ended names an outcome a reader can fetch: transition and cancel
\* escrow a terminal-failure record when no result was submitted.
TerminalOutcome == task.state \in TERMINAL_STATES => task.result # 0

\* Results and checkpoints are written in the order of their attempts: once a later
\* attempt has written, nothing of an earlier one is added (the lease is validated
\* again under the lock of submit_result and of checkpoint's persist).
FencedWrites ==
  /\ \A i, j \in DOMAIN results : i <= j => results[i].gen <= results[j].gen
  /\ \A i, j \in DOMAIN checkpoints : i <= j => checkpoints[i] <= checkpoints[j]

\* A task that is offered for work, or waits to be, carries no lease of an earlier
\* attempt: acquire_lease refuses a task with a live lease, so one left behind
\* would hold the next worker off (release_lease, retry, release_retry, cancel).
OfferedTasksAreFree ==
  task.state \in {"created", "queued", "retry_scheduled", "replanning"} => task.lease <= 0

\* The attempt a worker presents is the one the task is in, and its lease is live.
Bearers == {w \in Workers : held[w] # 0 /\ held[w] = task.gen}
Live == task.lease > 0 /\ ~task.overdue
ResultAttempts == [r \in DOMAIN results |-> results[r].gen]

Ledger == INSTANCE AttemptLedger WITH
  epoch <- task.gen, bearers <- Bearers, live <- Live, results <- ResultAttempts

\* The supervisor implements AttemptLedger: an attempt is its worker's alone and dies
\* with it, and no write (submit_result, checkpoint, a verdict, the escrow of a
\* failure) is lost, reordered, restamped or dated back, whatever a process does with
\* what it read before it took the lock.
LedgerKept == Ledger!Spec

\* Every change of state is in the table of state_machine.py, also where a handler
\* assigns the state itself or decided on a read made before it took the lock.
EveryMoveInTable ==
  [][task'.state # task.state => task'.state \in TRANSITIONS[task.state]]_vars

\* "The claim ID is also persisted on the task, preventing duplicate continuation"
\* (docs/32): a task that waits for a person goes back to the queue only by an answer
\* to the item it waits for, and every answer brings it back once.  Neither the same
\* answer delivered again, to a task that create suspended for it after it was used, nor
\* a release, a retry, a verdict or another wait's end that was decided on an earlier
\* read queues it.
AnswersResumeOnce ==
  [][/\ task.state = "waiting" /\ task.wait = "human" /\ task.inbox # NoItem
     /\ task'.state = "queued"
     => task.inbox \in task'.claims \ task.claims]_vars

\* A question put to a human is not dropped: the task stops naming its item only
\* when the item is claimed, the task ends or a further question replaces it.
WaitsAreNotLost ==
  [][task.inbox # NoItem /\ task'.inbox = NoItem =>
       task.inbox \in task'.claims \/ task'.state \in TERMINAL_STATES]_vars

\* "A human-waiting branch may resume only through its durable inbox claim" (the
\* refusal in transition): a task that waits for an item goes back to work, or to
\* the queue, by the step that claims the item.
HumanBranchResumesByClaim ==
  [][/\ task.state = "waiting" /\ task.inbox # NoItem
     /\ task'.state \in HumanGated
     => task.inbox \in task'.claims]_vars
=============================================================================
