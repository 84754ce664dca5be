------------------------- MODULE SupervisorRecovery -------------------------
(***************************************************************************)
(* The handlers of supervisor.py that write a task without its lease:      *)
(* recover, which every start of a process runs over the shared store, the *)
(* read repair of get_verified_execution_result, record_terminal_result    *)
(* and the human resolution of a recovery review.  They run beside the     *)
(* workers and controllers of ExecutionSupervisor, over the same state.    *)
(*                                                                         *)
(* Each of them decides on unlocked reads of the task and of its escrow,   *)
(* here one step, and then writes under the lock, here another.            *)
(***************************************************************************)
EXTENDS ExecutionSupervisor

----------------------------------------------------------------------------
(* recover: what is read and decided *)

\* A mutation of ActiveStates: a task that was being checkpointed is passed over.
ActiveStatesPassingOver == {"leased", "running", "waiting"}

\* The states recover looks for a lost lease in.
ActiveStates == {"leased", "running", "checkpointing", "waiting"}

\* The result recover goes by: the one it links, or the last of the task.
RecoveredEscrow == IF LinkedEscrow # {} THEN LinkedEscrow ELSE Escrowed

Settled(rec) == rec.sup \in TERMINAL_STATES \/ rec.ver = "passed"

\* The outcome a settled record stands for.
Outcome(rec) ==
  IF rec.sup = "completed" \/ rec.ver = "passed"
    THEN [rec EXCEPT !.sup = "completed", !.ver = "passed"]
    ELSE rec

\* repair_completed, repair_term, finish_recovered and term_recovered are to follow
\* for a settled record, relink_result or prep_verify for another.
Consume(c, r) ==
  Goto(c, IF Settled(results[r]) THEN "repair" ELSE "relinkResult",
       [Nothing EXCEPT !.result = r, !.rec = Outcome(results[r])])

ConsumesEscrow(r) ==
  \/ Settled(results[r])
  \/ task.result = 0
  \/ task.state \in {"running", "leased", "completed_pending_verification"}

\* classify_lost_lease goes by a result that is AVAILABLE, not by one that submit_result
\* escrowed and did not publish: publishing makes it available and indexes it.
Published == index # 0

\* The lease ran out and no result is published: what classify_lost_lease may find in
\* the action journal, which is not modelled, once the retry budget allows it.
LostLease(c) ==
  IF task.retries >= MaxRetries
    THEN Goto(c, "failLost", [Nothing EXCEPT !.state = "budget_exhausted"])
    ELSE \/ /\ task.irreversible => task.ckpt # 0
            /\ Goto(c, "retry", [Nothing EXCEPT !.state = "retry_scheduled"])
         \/ Goto(c, "failLost", [Nothing EXCEPT !.state = "failed"])
         \/ Goto(c, "receipt", Nothing)
         \/ Goto(c, "reviewLink", [Nothing EXCEPT !.result = task.gen])

\* A task with no escrow to go by.  One that is cancelling or awaits verification is
\* handed to cancel or verify_completion: CancelRead and Reverify.
Triage(c) ==
  /\ ~(task.state = "waiting" /\ task.inbox # NoItem)
  /\ task.state \notin {"cancelling", "completed_pending_verification"}
  /\ \/ task.overdue /\ Goto(c, "failTask", Nothing)
     \/ /\ ~task.overdue
        /\ ~(task.state = "waiting" /\ task.wait = "batch")
        /\ task.state \in ActiveStates /\ task.lease = 0
        /\ IF Published THEN \E r \in Escrowed : Consume(c, r) ELSE LostLease(c)

Decide(c) ==
  \/ \E r \in RecoveredEscrow : ConsumesEscrow(r) /\ Consume(c, r)
  \/ /\ \A r \in RecoveredEscrow : ~ConsumesEscrow(r)
     /\ Triage(c)

\* The latest checkpoint is of the current attempt and the task does not name it.
CheckpointUnlinked ==
  /\ checkpoints # <<>>
  /\ checkpoints[Len(checkpoints)] = task.gen
  /\ task.ckpt # Len(checkpoints)

RecoverRead(c) ==
  /\ At(c, "idle")
  /\ task.state \notin TERMINAL_STATES
  /\ IF CheckpointUnlinked
       THEN Goto(c, "relinkCheckpoint", [Nothing EXCEPT !.result = Len(checkpoints)])
       ELSE Decide(c)
  /\ UNCHANGED <<task, results, index, checkpoints, held>>

RelinkCheckpoint(c) ==
  /\ At(c, "relinkCheckpoint")
  /\ task' = [task EXCEPT !.ckpt = seen[c].result]
  /\ Goto(c, "recover", Nothing)
  /\ UNCHANGED <<results, index, checkpoints, held>>

\* recover goes on after the checkpoint, or leaves the task unchanged.
RecoverOn(c) ==
  /\ At(c, "recover")
  /\ Decide(c) \/ Return(c)
  /\ UNCHANGED <<task, results, index, checkpoints, held>>

----------------------------------------------------------------------------
(* recover: what is written *)

\* The record's outcome is written over whatever state the task is in by now.
Repair(c) ==
  /\ At(c, "repair")
  /\ task' = [task EXCEPT !.state = seen[c].rec.sup, !.ver = seen[c].rec.ver,
                          !.result = seen[c].result, !.lease = NoLease]
  /\ Return(c)
  /\ UNCHANGED <<results, index, checkpoints, held>>

\* A mutation of RelinkResult: the task is sent to verification without its result.
RelinkResultUnset(c) ==
  /\ At(c, "relinkResult")
  /\ task' = [task EXCEPT !.state = "completed_pending_verification"]
  /\ Goto(c, "verify", Nothing)
  /\ UNCHANGED <<results, index, checkpoints, held>>

\* relink_result, or set_result and prep_verify; then verify_completion.
RelinkResult(c) ==
  /\ At(c, "relinkResult")
  /\ task' = [task EXCEPT !.state = "completed_pending_verification",
                          !.result = seen[c].result]
  /\ Goto(c, "verify", Nothing)
  /\ UNCHANGED <<results, index, checkpoints, held>>

\* transition to FAILED for a deadline that has passed.
FailTask(c) ==
  /\ At(c, "failTask")
  /\ \/ EndTask("failed")
     \/ ~MayMove("failed") /\ UNCHANGED <<task, results, index>>
  /\ Return(c)
  /\ UNCHANGED <<checkpoints, held>>

\* fail_budget, fail_policy, fail_reconciliation and fail_invalid_recovery check
\* the move, not the attempt, and escrow nothing.
FailLost(c) ==
  /\ At(c, "failLost")
  /\ task' = IF ValidTransition(task.state, seen[c].state)
               THEN [task EXCEPT !.state = seen[c].state, !.lease = NoLease]
               ELSE task
  /\ Return(c)
  /\ UNCHANGED <<results, index, checkpoints, held>>

\* A mutation of ResumeAfterReceipt: the lease is left on the requeued task.
ResumeAfterReceiptLeased(c) ==
  /\ At(c, "receipt")
  /\ task' = [task EXCEPT !.state = "queued"]
  /\ Return(c)
  /\ UNCHANGED <<results, index, checkpoints, held>>

\* resume_after_receipt
ResumeAfterReceipt(c) ==
  /\ At(c, "receipt")
  /\ task' = [task EXCEPT !.state = "queued", !.lease = NoLease]
  /\ Return(c)
  /\ UNCHANGED <<results, index, checkpoints, held>>

\* _require_ambiguous_lease_review: the review is published, as an item of its own for
\* which nothing was resumed yet, and linked; a failed publication leaves the task as it
\* is.
ReviewLink(c) ==
  /\ At(c, "reviewLink")
  /\ \/ /\ \E item \in InboxItems \ task.claims :
             task' = [task EXCEPT !.inbox = item, !.wait = "review",
                                  !.review = seen[c].result]
        /\ Goto(c, "reviewEnd", Nothing)
     \/ /\ UNCHANGED task
        /\ Return(c)
  /\ UNCHANGED <<results, index, checkpoints, held>>

ReviewEnd(c) ==
  /\ At(c, "reviewEnd")
  /\ \/ EndTask("recovery_review_required")
     \/ ~MayMove("recovery_review_required") /\ UNCHANGED <<task, results, index>>
  /\ Return(c)
  /\ UNCHANGED <<checkpoints, held>>

----------------------------------------------------------------------------
(* resolve_recovery_intervention, get_verified_execution_result *)

\* A reviewer's decision to go on; the decision to abort changes nothing, because
\* transition ignores a move between two terminal states.
ResolveRead(c) ==
  /\ At(c, "idle")
  /\ task.review # 0 /\ task.review = task.gen
  /\ task.state \in {"recovery_review_required", "waiting"}
  /\ Goto(c, "resolve", Nothing)
  /\ UNCHANGED <<task, results, index, checkpoints, held>>

\* clear_wait: the item is no longer waited for; review stays.
ResolveReview(c) ==
  /\ At(c, "resolve")
  /\ task' = IF ValidTransition(task.state, "queued") THEN Requeued(task) ELSE task
  /\ Return(c)
  /\ UNCHANGED <<results, index, checkpoints, held>>

\* get_verified_execution_result finds record r: not one pending verification.
Reportable(r) ==
  \/ results[r].ver = "passed"
  \/ /\ task.state # "completed_pending_verification"
     /\ results[r].ver # "pending" \/ task.state \in TERMINAL_STATES

Stale(r) ==
  task.state \notin TERMINAL_STATES \/ task.result # r \/ task.ver # results[r].ver

\* What the task is repaired to: completed when either side says so, else the
\* record's terminal state, else completed again.
Repaired(rec) ==
  IF task.state = "completed" \/ rec.ver = "passed" \/ rec.sup \notin TERMINAL_STATES \ {"completed"}
    THEN [rec EXCEPT !.sup = "completed", !.ver = "passed"]
    ELSE rec

Lookup(c) ==
  /\ At(c, "idle")
  /\ \E r \in EscrowByExecution :
       /\ Reportable(r) /\ Stale(r)
       /\ Settled(results[r]) \/ task.state \in TERMINAL_STATES
       /\ Goto(c, "repair", [Nothing EXCEPT !.result = r, !.rec = Repaired(results[r])])
  /\ UNCHANGED <<task, results, index, checkpoints, held>>

----------------------------------------------------------------------------
(* record_terminal_result *)

\* record_terminal_result, called by the lane of an attempt that failed: the reads.  An existing
\* record is to be saved from memory, and linked if the task named none; a new
\* record is to be linked first, unless the task names one already, then saved.
RecordRead(w) ==
  /\ At(w, "idle") /\ held[w] # 0
  /\ LET unlinked == task.result = 0
     IN  \/ /\ \E r \in LinkedEscrow :
                Goto(w, "recordSave",
                     [Nothing EXCEPT !.result = r, !.rec = [results[r] EXCEPT !.sup = "failed"],
                                     !.then = IF unlinked THEN "recordLink" ELSE "idle"])
            /\ UNCHANGED results
         \/ /\ LinkedEscrow = {}
            /\ Len(results) + 1 < MaxResults   \* leaves room for a terminal outcome
            /\ results' = Append(results, [FailureResult("failed") EXCEPT !.saved = FALSE])
            /\ Goto(w, IF unlinked THEN "recordLink" ELSE "recordSave",
                    [Nothing EXCEPT !.result = Len(results) + 1, !.rec = FailureResult("failed"),
                                    !.then = IF unlinked THEN "recordSave" ELSE "idle"])
  /\ UNCHANGED <<task, index, checkpoints, held>>

RecordLink(w) ==
  /\ At(w, "recordLink")
  /\ task' = [task EXCEPT !.result = seen[w].result]
  /\ Proceed(w)
  /\ UNCHANGED <<results, index, checkpoints, held>>

\* A mutation of RecordSave: the record is stamped with the attempt of the moment.
RecordSaveRestamped(w) ==
  /\ At(w, "recordSave")
  /\ SaveAgain(seen[w].result, [seen[w].rec EXCEPT !.gen = task.gen])
  /\ Proceed(w)
  /\ UNCHANGED <<task, checkpoints, held>>

\* save_result refuses a new record when another one is indexed.
RecordSave(w) ==
  /\ At(w, "recordSave")
  /\ \/ /\ seen[w].result \in Escrowed \/ index = 0
        /\ SaveAgain(seen[w].result, seen[w].rec)
        /\ Proceed(w)
     \/ /\ seen[w].result \notin Escrowed /\ index # 0
        /\ UNCHANGED <<results, index>>
        /\ Return(w)
  /\ UNCHANGED <<task, checkpoints, held>>

----------------------------------------------------------------------------
(* The specification *)

Recover(c) ==
  \/ RecoverRead(c) \/ RelinkCheckpoint(c) \/ RecoverOn(c)
  \/ Repair(c) \/ RelinkResult(c) \/ FailTask(c) \/ FailLost(c)
  \/ ResumeAfterReceipt(c) \/ ReviewLink(c) \/ ReviewEnd(c)

Record(w) == RecordRead(w) \/ RecordLink(w) \/ RecordSave(w)

RecoveryNext ==
  \/ Next
  \/ \E c \in Controllers : Recover(c) \/ ResolveRead(c) \/ ResolveReview(c) \/ Lookup(c)
  \/ \E w \in Workers : Record(w)

RecoverySpec == Init /\ [][RecoveryNext]_vars

(***************************************************************************)
(* The clock runs; a handler a controller is in goes on (its steps are     *)
(* straight-line code under a lock that is always given back); recover is  *)
(* run again and again, by every process that starts; and it is not cut    *)
(* off at the same place every time: what it relinks, publishes and        *)
(* decides gets written if it keeps trying.  Nothing is assumed of the     *)
(* workers: all of them may be dead.                                       *)
(***************************************************************************)
Handle(c) == ~At(c, "idle") /\ (Steer(c) \/ Verify(c) \/ Recover(c) \/ ResolveReview(c))

PublishReview(c) == ReviewLink(c) /\ ~At(c, "idle")'

WriteOutcome(c) == Handle(c) /\ task'.state # task.state

Fairness ==
  /\ WF_vars(Tick)
  /\ \A c \in Controllers :
       /\ WF_vars(Handle(c))
       /\ SF_vars(RecoverRead(c))
       /\ SF_vars(RelinkCheckpoint(c))
       /\ SF_vars(PublishReview(c))
       /\ SF_vars(WriteOutcome(c))

FairSpec == RecoverySpec /\ Fairness

----------------------------------------------------------------------------
(* What recovery promises *)

\* The attempt that produced a result stays on record, although verification,
\* submit_result and record_terminal_result write whole records back from memory.
ProvenanceKept ==
  [][\A r \in DOMAIN results : results'[r].gen = results[r].gen]_vars

\* The states that stand for something that was produced or decided.
NamedStates == {"completed_pending_verification", "pending_budget_decision", "completed",
                "cancelled", "recovery_review_required"}

\* Of TerminalOutcome this much is left when recovery writes over a task in whatever
\* state it has reached: a task that claims completion, is completed, cancelled or
\* sent to review names a result.  (One that recover fails may have none: FailLost.)
NamedOutcome == task.state \in NamedStates => task.result # 0

\* No worker holds the attempt the task is in the middle of.
Abandoned ==
  /\ task.state \in {"leased", "running", "checkpointing"}
  /\ \A w \in Workers : held[w] # task.gen

\* A task whose worker died does not stay in the middle of its attempt for ever:
\* once the lease has run out, recover consumes its escrow, schedules a retry, fails
\* it or sends it to review.
AbandonedWorkRecovered == Abandoned ~> ~Abandoned

\* "User-visible success comes only from completed; child text and lane success
\* claims cannot bypass completed_pending_verification"
\* (docs/29-resilient-execution.md): a task becomes completed only when a verifier
\* has passed a result of its, on record or by the verdict being applied.
SuccessIsVerified ==
  [][task.state # "completed" /\ task'.state = "completed" =>
       \/ \E r \in Escrowed : results[r].ver = "passed"
       \/ \E p \in Procs : At(p, "verApply") /\ seen[p].rec.ver = "passed"
       \/ task.ver = "passed"]_vars
=============================================================================
