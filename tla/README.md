# mana-agent in TLA+

mana-agent runs coding agents: a gateway takes a user's turn, specialist lanes
and sub-agents execute it, and a durable *execution supervisor* decides who works
on what, what counts as a result, and what happens when a worker, a lane or the
whole process goes away.  This directory models that program in TLA+, checks the
models with TLC on small instances, and proves with TLAPS what matters most for
every value of the constants.

Paths below are relative to `src/src/mana_agent/`; `supervisor.py`, `store.py`
and `models.py` without a directory are those of `execution_supervisor/`.

## Inventory

| component | state it keeps | operations | what is hard | what makes it correct |
|---|---|---|---|---|
| **execution supervisor** (`execution_supervisor/`) | a task file per task (state, attempt, lease, result, checkpoint, wait), `results/`, `results_by_execution/`, `checkpoints/`, `actions/` | `create_task`, `queue`, `acquire_lease`, `start`, `heartbeat`, `release_lease`, `resume_running`, `checkpoint`, `submit_result`, `verify_completion`, `finalize_budget_overrun`, `cancel`, `retry`, `release_retry`, `transition`, the suspend/resume pairs | workers that outlive their lease, decisions on unlocked reads, several files per step, crashes between them | one authority per attempt, results of the current attempt only, nothing advertised without a file, success only after verification |
| **supervisor recovery** (same file) | the same files | `recover`, `resolve_recovery_intervention`, `get_verified_execution_result`, `record_terminal_result` | runs at every process start beside live workers and writes without a lease | abandoned work leaves its state, records keep their provenance |
| retry policy, verifier, budget decision | none (pure) | classify and validate a retry; judge a result; accept or repair an overrun | boundaries of budgets | agreement with a reference definition |
| **human inbox** (`human_inbox/`) | items with status, tokens, claims, response | create, respond, expire, remind, delegate, escalate, supersede, resume, reconcile | an answer racing expiry, a replayed answer, a crash between branch resume and completion mark | every question answered at most once, every answered branch resumed |
| **transactional actions** (`transactional_actions/`) | intents, approvals, idempotency bindings, journal | propose, approve, claim, execute, verify, compensate | stale copies saved over newer files, approval spent by a claim that fails later, death while EXECUTING | no effect without a spent approval, none twice on one |
| **automations** (`automations/service.py`) | definitions, runs, one lease per automation | create, update, deploy, delete, claim, run, finish, release | a run that outlives its lease, a definition saved from a copy | one run at a time, a one-time occurrence is over, a due one is picked up |
| gateway lanes (`gateway/lane_coordinator.py`, `turn_engine.py`) | lanes, their task ids and leases | enqueue, run, pause, finish, recover | finishing a task another attempt has taken | a lane's outcome is its attempt's |
| multi-agent queue (`multi_agent/runtime`, `multi_agent/queue`) | work items, dependencies, fingerprints | submit, claim, complete, requeue | duplicate suppression, dead dependencies | each job once, drained at the end |
| managed worktrees (`multi_agent/worktrees`) | one record and one git worktree per task | create, resume, merge, remove, reconcile | git and the record are two things | no two tasks in one worktree, nothing unmerged is removed |
| provider batch (`batch/`) | submission intents, jobs, items | claim intent, submit, poll, collect | lost answers of the provider | no batch submitted twice |
| fleet (`fleet/`) | runs and jobs over supervised tasks | schedule, run, pause, recover | its own job states beside the supervisor's | the two agree |
| connector health (`connectors/health`) | status and circuit per connector | probe, open, half-open, close, suspend and resume tasks | resume claims | a waiting task is resumed once |
| execution manager and controller (`execution/`) | sandboxes, sessions | create, execute, suspend, clean up | clean-up after failure | every sandbox is released |
| context-cost governor (`context_cost/`) | reservations per turn | reserve, settle | concurrent reservations | the budget is never exceeded |
| coding engine, memory, tools, connectors, documents, model configuration, TUI, API | files, settings, transcripts | model calls, I/O, presentation | | outside this project: no control state of their own that the above does not have |

How they meet: the gateway's lanes, the fleet, the automations and the multi-agent
runtime create supervised tasks and act as its workers and controllers; the human
inbox, connector health and the batch watcher are *controllers* that suspend and
resume a task; the action gateway asks for the branch's state under the
supervisor's lock (`fence_claim`) before it acts.  The supervisor is thus where all
of them meet, and it is modelled first.  Its one shared resource is the store: an
update of a task is a callback run under a file lock, but most handlers also read
the task, its result or the action journal without it.

The file `PROJECT.json` lists every hazard met in the survey at the line where it
bites, with the properties about it or the reason there is none yet.

## The modules

| module | what it is |
|---|---|
| `ExecutionStates` | the states, the terminal states, the transition table and `validate_transition` (`models.py`, `state_machine.py`) |
| `ExecutionSupervisor` | one supervised task, the workers that lease it and the controllers that steer it; the properties |
| `SupervisorRecovery` | extends it with the handlers that write a task without its lease; fairness; the properties of recovery |
| `AttemptLedger` | the abstract promise of leases and attempts, whoever crashes, retries or recovers; two theorems about every implementation of it |
| `HumanDecision` | the abstract promise of inbox and gateway: one question per action, a final answer, an approval spent once, one side effect on it; two theorems about every implementation of it |
| `HumanInbox` | the approval items, the steps that answer, expire, cancel, reconcile and resume, and the supervised branch as far as inbox and gateway see it |
| `ActionGateway` | extends it with the workers that propose and execute the operation of one idempotency key, the action files and the grants; fairness; implements `HumanDecision` |
| `AutomationLease` | one automation: its executors, its editors, its lease; fairness |
| `MCExecutionSupervisor`, `MCSupervisorRecovery`, `MCActionGateway`, `MCAutomationLease` | the symmetry and the sequences TLC uses; values of the constants are in the `.cfg` files |
| `ExecutionSupervisorProofs` | the inductive invariants and the theorems about attempts, results and checkpoints |
| `SupervisorStepProofs` | extends it: theorems about waits, moves and the lease of a task on offer |
| `SupervisorRecoveryProofs` | extends that and `SupervisorRecovery`: the refinement of `AttemptLedger` and the theorems about the supervisor with recovery |
| `ActionGatewayProofs` | the inductive invariant of the gateway, its safety properties and the refinement of `HumanDecision` |
| `AutomationLeaseProofs` | the theorems about the automation's lease |

### State of the supervisor

`task` is the task file: `state`, `gen` (attempt generation), `lease` (ticks left,
`NoLease` for none), `result` and `ver` (result id, verification status), `ckpt`,
`inbox`, `wait` (the wait reason), `claims` (resume claims used), `review` (the attempt
a recovery review is about), `irreversible`, `overdue`, `retries`.  `results` and
`checkpoints` are the files of `results/` and `checkpoints/` in the order their ids
were handed out (`saved` is FALSE for an id that has no file yet); `index` is
`results_by_execution/`.  `held[w]` is the attempt whose id and token a worker
presents; `pc` and `seen` are where each process is in its handler and what it read.

### Steps of the supervisor

A locked update is one action; what a handler reads before it takes the lock, and
each further locked update, is an action of its own.  So `cancel` is `CancelRead`,
`CancelRequest`, `CancelFinish`; `retry` is `RetryDecide`, `RetrySchedule`;
`submit_result` is `SubmitEscrow` (result file and task file under one lock) and
`SubmitPublish` (the record it still has in memory is saved again, which also
writes the index); `verify_completion` is `VerifyRead`, `VerifySave`, `VerifyApply`;
`checkpoint` is `CheckpointRequest`, `CheckpointBegin`, `CheckpointPersist`.  `recover`
decides in `RecoverRead` and writes in the action it decided on.  A handler whose
checks under the lock raise writes nothing and returns; it is a disjunct of the same
action.

Crashes: any process may forget what it held at any step (`Crash`); where a step
writes two files, a separate action stops between them (`CrashInSubmit`,
`CrashInPersist`, `CrashInEnd`).  Time: `Tick` takes a tick off the lease,
`DeadlinePasses` sets `overdue`; a worker's renewal thread is `Heartbeat`.

### What is abstracted of the supervisor

- An attempt is its generation; the attempt id and the token are created with it and
  are as unique, so a worker presents one number.  Attempt files are not modelled:
  nothing decides on them but the journal's classification.
- Budgets and usage: whether a submission overruns is a nondeterministic outcome of
  `SubmitEscrow`.  Retry budgets per category are one counter.  A verifier's verdict is
  nondeterministic, and it may raise.
- The action journal: what `classify_lost_lease` finds (retry, fail, receipt, review) is
  nondeterministic, constrained by the irreversible flag and the checkpoint.
- The tree of tasks is not modelled: one task, no children, no acknowledgement.
- A lost attempt has a durable result (`Triage`) when a record of the task has been
  published (`Published`): `classify_lost_lease` asks for AVAILABLE, DELIVERED or
  ACKNOWLEDGED.
- Reads that follow each other without anything in between another process could
  tell apart are one step: the pre-lock reads of `acquire_lease` (a deadline passing or a
  tick in between shows right after the claim), `recover`'s listing and its reads of
  task and escrow, `reopen`'s read and write, `set_result` with `finish_recovered`, the two
  saves at the end of `submit_result`.
- `record_terminal_result` always saves the record (its metadata may have changed).
- The deadline is a flag; the pause of the deadline during a human wait is the choice
  `late` in `ResumeFromHumanInput`.
- Marking a task as blocked in `cancel`, reasons, metadata, events and audit are left
  out, as is the decision to abort a recovery review: `transition` ignores a move
  between two terminal states, so it changes nothing.

- `suspend_for_human_input` does not ask whether the item was answered already, and
  neither does `SuspendForHumanInput`: a task may be made to wait again for an item whose
  claim it has used.  `HumanInbox` has the callers' own steps; run `late_wait` shows the
  order in which one of them does this.

### The inbox and the gateway

`item[i]` is the inbox item about action `i`, `branch` the supervised task (state,
attempt, the item it waits for, the claims that resumed it), `answering[i]` where the
process is that settled or reconciles item `i`: in the terminal handler (`HandleAnswer`, and
`CloseAnswered` for the save of the action it read), in `_resume` (`ResumeBranch`) or at the
completion mark (`CompleteResume`).  That process works on the copy of the item its update
returned, so an approval withdrawn since still counts for it (`Told`).  `action[a]` is the
file of an action, `key` what the idempotency key is bound to, `grants` the approval
registry, `worker[w]` where a caller of `execute` is and the copy of the action it read.

What decides is which steps are atomic and which copies are old.  `respond`, `_expire_one`,
`cancel_for_task`, `supersede_for_action`, `claim_action_execution`, `claim_execution`,
`create_action`, `release_idempotency` and `consume` are updates under a lock; `execute`
reads the action once, in `ReadAction`, and every `save_action` after it writes the whole
copy, whatever the file holds by then (`SaveAndGoto`).  So between any two saves of a
worker another worker, a human, the terminal handler or the clock may have moved the
file, and the model lets the stale copy win, as the code does.  Before an approved effect
the branch is looked at twice: without a lock (`FindDecision`) and under the supervisor's
(`ClaimBranch`), where every error but `PermissionError` is swallowed and execution goes on
without the second look.

The branch's mark of an irreversible effect is not among its fields, because nothing the
model could say of it decides a step: the mark may be missing (see "What the runs show"),
and `cancel` read it before it took the lock, so `CancelBranch` may pass its check at any
time.  The handler that `supersede_for_action` calls inside a worker's withdrawal is one
step with it (`Withdraw`); the gap between its read and its save is modelled only for the
processes that answer (`HandleAnswer`, `CloseAnswered`).  A worker's grant id and
result are forgotten when `execute` does not use them again.

Left out: full-access mode, transactions and task-wide grants, `compensate`, `deny`, a key
used for materially different actions, reviewers who lose their rights, reminders and
delivery, clarification fields, delegation and escalation (no action's item is escalated),
signed tokens.  The preview, the digests and the checks that compare them are one
thing with the action, as its material changes only with a new action.  `approve` expires
a stale action as `execute` does and is, after its response, `Regrant`.  An adapter's
execution succeeds, fails with unknown effect, or is refused untouched.

### The automation

`record` is the definition in the store with the status and attempt of its recent
execution; `lease` its lease; `executor[e]` where a process is in `execute_automation`;
`editor[d]` the copy an editor read in `update_automation` or `reconcile_deployment`.  The
claim, the finish and the release are one locked update each; `upsert_automation` saves
the editor's copy.  `lost`, `over` and `early` are history: the runs whose lease
ended under them, a one-time occurrence that was completed and that nothing has put back
since, and the editors whose copy was read before it completed.  The `reconcile_deployment`
at the end of a one-time run is a step of an editor.  The job, the supervised task of the
run and the platform's scheduler are nondeterministic.

## The runs

Every bound is a constant of the specification named `Max...`; the code bounds only
retries.  All supervisor runs use a lease of one tick: what a handler can tell is whether a lease
is alive, expired or absent, and each of these is a value.  `CHECK_DEADLOCK` is off
because a task, or an action, may end for good with all bounds used up, and because a
deleted automation has nothing left to do.

| run | instance | what it checks |
|---|---|---|
| `attempts` | 2 workers, 1 controller, 2 attempts, 2 results, 1 retry, an irreversible phase | `TypeOK`, `OneAuthority`, `CurrentClaim`, `LinksAreDurable`, `TerminalOutcome`, `OfferedTasksAreFree`, `FencedWrites`, `EveryMoveInTable` |
| `waits` | 1 worker, 2 controllers, an inbox item, a checkpoint, a result, all three waits | `AnswersResumeOnce`, `WaitsAreNotLost`, `LinksAreDurable` and `LedgerKept` (with checkpoints), `EveryMoveInTable` |
| `recovery` | 2 workers, 1 controller, 2 attempts, a deadline, recovery and read repair | `OneAuthority`, `OfferedTasksAreFree`, `NamedOutcome`, `ProvenanceKept`, `LedgerKept` |
| `recovery_progress` | 1 worker, 1 controller, an item, a checkpoint, a retry; no symmetry | `AbandonedWorkRecovered` under `FairSpec` |
| `actions` | 2 workers, 1 unsupervised action, the policies deny, require_approval, allow in this order, 2 grants | `TypeOK`, `EffectsNeedDecision`, `OneEffectPerDecision` |
| `actions_branch` | 2 workers, 1 action of a branch of 2 attempts, a policy that requires approval; no symmetry | `ResumesOnAnswer`, `OneEffectPerDecision`, `AnswersAreDelivered` under `FairSpec` |
| `automation` | 2 executors, 1 editor, 2 attempts; no symmetry | `TypeOK`, `OneRunAtATime`, `OnceIsOver`, `DueRunsAreClaimed` under `FairSpec` |
| `human_gate` | 1 worker, 1 controller, an item | refutes `HumanBranchResumesByClaim` |
| `stale_generation` | 1 worker, 1 controller, 2 attempts, recovery | refutes `CurrentClaim` with recovery |
| `unverified_success` | 1 worker, 1 controller, 2 results, recovery | refutes `SuccessIsVerified` |
| `repeated_effect` | 2 workers, 2 actions of one key, a policy that allows them | refutes `NoVerifiedEffectRepeats` |
| `late_wait` | 1 worker, 1 action of a branch of 2 attempts | refutes `WaitsForOpenItem` |

Why these bounds suffice for the questions asked: a stale worker is one that holds
attempt 1 while attempt 2 is in progress, so two workers and two attempts show it, and
two results let each of them submit, or one worker submit twice.  A question to a
human is raced by two controllers (a second answer, or an answer and a suspension);
a second item adds no reason to move a task.  Recovery is one more process per
controller: one suffices to race live workers, and the retry it schedules leads to the
second attempt.  A stale copy of an action needs a second worker, and only one: what a
third could save, one of the two may save.  Three policies in a row make every outcome
and every change of mind happen; a second action of the key is what the theorems add,
which hold for any number.  Two executors show the run that outlives its lease, the
second one beside it and, as names are used again, the third; one editor holds one stale
copy, and two attempts are a first and a last one.

### What the runs show

The lease and the transition table do what they promise as long as nobody writes
without the lease: over two attempts no work of a lost attempt is ever named or
escrowed after that of the next, every end of a task has a record, and every change of
state is in the table, including those decided on unlocked reads and those of
`submit_result`, `checkpoint` and the waits, which assign the state themselves.
With recovery, authority stays unique and records keep the attempt that produced
them, whichever process writes them back from memory, and an abandoned attempt
is always recovered.  `LedgerKept` says this as one thing: seen from the task's attempts
and its files alone, the supervisor and its recovery are an `AttemptLedger`, in which an
attempt begins when no lease is live, is its worker's alone and dies with it, and every
record is appended under the attempt of the moment and stays.

The inbox and the gateway keep their promise whatever copies are saved: a person is
asked once, an answer is final, an approval is spent once and its effect begins at most
once, for two independent reasons, the item's claim where a person is asked and the
state of the file where nobody is (see the proof).  An answer is delivered to the branch
that waits for it although its deliverer dies, because `reconcile` starts over with the
same claim; nothing but an answer takes the branch on, and each answer does so once
(`ResumesOnAnswer` on the inbox's side, `AnswersResumeOnce` on the supervisor's, where the
same answer may be delivered again to a task that was suspended late).  An automation's runs
exclude each other as long as they keep their lease: `lost` names the three ways to lose one
(the hour passes and nobody renews it, the automation is deleted, another run that had lost
its own finishes and removes whatever lease there is).  A one-time occurrence that completed
is not due again as long as nobody saves a definition that was read before it completed
(`OnceIsOver`).

Not a violated promise but worth knowing: when a run of a one-time automation is
recorded as succeeded and then, the supervisor having refused its result, as failed, the
retry of that failure is given a time but the automation stays disabled
(`automations/service.py:1446`); a run that died stays recorded as running, and the next
wakeup repeats it as a first attempt.

Two sentences of the repository hold only in part; no run of their own is given to them.

- "A completed one-time automation has no further due occurrence"
  (`automations/service.py:1418`).  `update_automation` and `reconcile_deployment` read the
  definition, and `upsert_automation` (`automations/service.py:646`) saves the whole of it
  under another lock: a copy read before the run finished and saved after puts the
  occurrence back, enabled and due.  `OnceIsOver` says until when the sentence holds: a copy
  saved before the completion, or read after it, does not end it.
- `_claim_branch_execution` "atomically validates these invariants under the supervisor
  store lock and sets" the mark, so that "any subsequent supervisor `cancel()` invocation is
  safely blocked" (`docs/approval-action-binding-incident.md:63`), and such a task
  "remains active" (`docs/29-resilient-execution.md:222`).  Every error of that update but
  `PermissionError` is swallowed (`transactional_actions/gateway.py:839`-`844`) and the
  effect begins without mark and fence; an effect of a supervised branch that the policy
  allows without a person has no item and is never marked; and `cancel`
  (`supervisor.py:2844`) reads the mark before it takes the lock.  The model has all three,
  and no property claims the mark.

Five promises written in the repository are not kept, each shown by a run that
expects a violation:

- **`human_gate`**: "a human-waiting branch may resume only through its durable inbox
  claim" (`supervisor.py:666`).  For a WAITING task `resume_running` (`supervisor.py:1295`)
  checks the attempt only, gives it a new lease and looks neither at the lease that was
  taken away nor at the inbox item: a worker whose task was suspended goes on running
  it while the question is open.
- **`stale_generation`**: a result "from an older generation is rejected"
  (`docs/29-resilient-execution.md:100`).  `recover` (`supervisor.py:3914`) links whatever
  escrow it finds; after a crash between the result file and the task file of attempt 1
  that is the result of attempt 1, while attempt 2 is running.
- **`unverified_success`**: success comes only from verification
  (`docs/29-resilient-execution.md:39`).  `get_verified_execution_result`
  (`supervisor.py:2507`) takes an indexed record that is not terminal for a completion when
  the task itself has failed with another result.
- **`repeated_effect`**: the idempotency registry prevents restarts "from repeating verified
  effects" (`docs/31-policy-gated-transactional-actions.md:64`).  A worker that read an
  approved action before its time was over saves it as EXPIRED
  (`transactional_actions/gateway.py:184`) over the file another worker committed meanwhile,
  and releases the key; the next call begins the same operation again, as a new action.
- **`late_wait`**: a wait is the projection of an unresolved item (`supervisor.py:1736`).
  `HumanInboxService.create` writes the item before it suspends the branch
  (`human_inbox/service.py:161`); `reconcile` may restore the wait, a person answer and the
  branch resume in between, and the late suspension then takes the branch back to waiting
  for an item that nobody delivers again.

Properties that do not hold with recovery are checked and proved for `Spec`, without it,
and claimed only there: `CurrentClaim` (run `stale_generation`), `TerminalOutcome` and
`EveryMoveInTable` (`FailLost` escrows nothing; `Repair`, `RelinkResult` and
`ResumeAfterReceipt` write over whatever state they find), `WaitsAreNotLost`
(`ResolveReview` drops the item of whatever wait it finds), `AnswersResumeOnce` (the same
step queues a task that by then waits for another question) and `LinksAreDurable`
(`RecordLink` links before it saves).  What is
left of `TerminalOutcome` is `NamedOutcome`: a task that claims completion, is completed,
cancelled or sent to review names a result; only one that recovery failed may name none.
`OfferedTasksAreFree` is claimed without batch waits: `resume_from_batch` is the one resume
that leaves a lease where it is.

### Fairness

`Spec` and `RecoverySpec` have none.  `FairSpec` adds: time passes (`WF(Tick)`); a
controller in the middle of a handler goes on (`WF(Handle)`: straight-line code under a
lock that is always released); recovery is run again and again, which is what each
start of a process over the store does (`SF(RecoverRead)`), and is not cut off at the same
place every time: `SF` of relinking a checkpoint, of publishing a review and of writing
the outcome it decided on.  Nothing is assumed of workers, which may all be dead, or of
humans.  Strong fairness is needed because a crash disables a handler's step and a
live worker's heartbeat disables recovery of its lease.

`FairSpec` of the gateway: `reconcile` runs again and again (`WF(ReconcileAnswer)`; it is
called at each start of the API server, by its route and by the command line), and whoever
handles an answer does not die at the same step every time (`SF` of both halves of the
terminal handler and of `_resume`). `FairSpec` of the automation: the platform wakes a due
automation again and again (`WF` of a claim by some executor), a lease's hour ends
(`WF(Expire)`), and what follows the end of a run is straight-line code (`WF(AcceptEnded)`).
A job need not end, and no editor need do anything.

## What is proved

`ExecutionSupervisorProofs` and `SupervisorStepProofs` prove, for any sets of workers,
controllers and items and any bounds, from the named assumptions of
`ExecutionSupervisor` only (disjoint processes, `NoItem` not an item, natural bounds):

| theorem | statement |
|---|---|
| `LedgerInvariant` | `Spec => []LedgerInv` |
| `ClaimInvariant` | `Spec => []ClaimInv` |
| `TypeCorrect`, `OneAuthorityHolds`, `WritesAreFenced`, `LinksHaveFiles` | the properties `TypeOK`, `OneAuthority`, `FencedWrites`, `LinksAreDurable`, from `LedgerInv` |
| `ClaimsAreCurrent`, `OutcomesAreRecorded` | `CurrentClaim`, `TerminalOutcome`, from `ClaimInv` |
| `AnsweredOnce`, `QuestionsAreKept` | the action properties `AnswersResumeOnce` (with `RetriesReturn` of `ClaimInv`: no retry under way takes a waiting task to the queue) and `WaitsAreNotLost` |
| `MovesFollowTable` | the action property `EveryMoveInTable`, from `ClaimInv` (where a checkpoint or a retry returns to decides the move) |
| `OfferedTasksStayFree` | `OfferedTasksAreFree`, assuming `"batch" \notin Suspensions` |

`TypeOK`, `OneAuthority`, `CurrentClaim` and the like are not inductive alone.
`LedgerInv` is the type invariant, plus: what a handler remembers of a record still has
the attempt that record has (`Remembered`), and goes back to a place it came from
(`ReturnsTo`); an attempt is held by at most one worker (`HeldOnce`), which with the
generation check of `HoldsLease` gives `OneAuthority`; no record is dated after the
attempt the task is in (`Dated`), which is why appending keeps `FencedWrites`; and what
the task names was saved (`Recorded`). `CurrentClaim` needs to know in addition where a
checkpoint and a retry under way will come back to: `CheckpointsReturn` (a task that is
CHECKPOINTING for a worker that came from a claim still carries that claim's result of
the current attempt) and `RetriesReturn` (a retry under way can only go to
RETRY_SCHEDULED or REPLANNING).

The proof has two layers. Lemmas such as `FilesStep`, `HeldStep`, `CheckpointsStep`,
`ControlStep`, `WaitStep`, `MoveStep` and `LeaseStep` reduce every action to its effect
on one part of the state, with one step per action; the invariants then follow from
these effects without looking at the actions again.

`SupervisorRecoveryProofs` proves, from the same assumptions, what is left when `recover`,
the read repair and `record_terminal_result` write beside the workers and controllers:

| theorem | statement |
|---|---|
| `RecoveryInvariant` | `RecoverySpec => []RecoveryInv` |
| `RecoveryKeepsLedger` | `RecoverySpec => LedgerKept`: every initial state maps to one of `AttemptLedger`, every step to a step or a stutter |
| `SupervisorKeepsLedger` | `Spec => LedgerKept`, because a step of `Spec` is one of `RecoverySpec` |
| `LedgerFences`, `LedgerKeeps` (in `AttemptLedger`) | every behaviour of the ledger has one bearer and its records in order; it loses, moves and restamps none |
| `RecoveryOneAuthority`, `RecoveryWritesAreFenced` | `OneAuthority` and `FencedWrites` with recovery, read off `LedgerFences` through the refinement |
| `ProvenanceIsKept` | the action property `ProvenanceKept` |
| `OutcomesAreNamed` | `NamedOutcome` with recovery |
| `RecoveredTasksAreFree` | `OfferedTasksAreFree` with recovery, assuming `"batch" \notin Suspensions` |
| `RecoveryTypes` | `TypeOK` with recovery |

The refinement maps the task's attempt to `epoch`, the workers that present it to `bearers`
(`Bearers`), an unexpired lease before the deadline to `live` (`Live`), and each record to
the attempt it was written in (`ResultAttempts`).  A claim is a `Grant`; every other step is
`Carry`, and what it adds to the logs is `Write`.  The steps of `ExecutionSupervisor` are
known by their effects (`HeldEffect`, `FilesEffect` and `LeaseEffect` from before, `LiveEffect`
on the lease, `LogEffect` on the records, `OutcomeEffect` on what the task names), the steps
of recovery by `RecoveryEffect`, `LogEffect` and `RecoveryControl` (the one process that
moves and what it remembers).

`LedgerInv` is no invariant of `RecoverySpec`: recovery links what may have no file, so its
`Recorded` fails.  Its `HeldOnce`, `Dated` and `FencedWrites` need no proof here, because
`AttemptLedger` has its own invariant for them.  `RecoveryInv` is what remains
(`TypeInv`), plus `Recollections`, what processes remember between two locked updates:
a handler of recovery that links, repairs or saves a record remembers one that exists
(`RecoveryMemory`); a checkpoint under way comes back to a state it was begun from
(`CheckpointsTarget`), and when that state stands for an outcome the task still names one
(`CheckpointsNamed`); a retry goes to its two targets only (`RetriesReturn`).  `NamedOutcome`
needs the last two, because the checkpoint and the retry assign the state without looking
at the result; and it is part of `RecoveryInv` because `CheckpointsNamed` needs it in turn
when the checkpoint begins.

`ActionGatewayProofs` proves, for any workers, any number of actions, grants and branch
attempts and any sequence of policies, from the assumptions `InboxBounds` and
`GatewayBounds`:

| theorem | statement |
|---|---|
| `GatewayTypes` | `TypeOK` |
| `GatewayInvariant` | `Spec => [](TypeOK /\ Inv /\ AnswersInv)` |
| `NoEffectWithoutDecision` | `EffectsNeedDecision` |
| `BranchResumesOnAnswer` | the action property `ResumesOnAnswer`, from `AnswersInv` |
| `GatewayKeepsPromise` | `Spec => OneEffectPerDecision`: every initial state of `ActionGateway` maps to one of `HumanDecision`, every step to a step or a stutter |
| `DecisionsBind`, `DecisionsStand` (in `HumanDecision`) | every behaviour of the promise has an effect once, only on a spent approval where a person was asked, and takes back no refusal, no spent approval and no effect |
| `EffectsFollowDecisions`, `RefusalsStand` | both, of the item's claim, its status and the effects of `ActionGateway`, through the refinement |

That an effect begins once cannot be read off the action's file, which stale copies
overwrite in both directions.  The invariant says what they cannot change.  A policy
decision, once made, is the same in the file and in every copy (`WorkerInv`), so they agree
on whether a person is asked.  If one is, a worker at the claim or at the effect found the
item's claim taken by itself and by nobody else (`Apart`), and a file with an effect has a
claimed item (`ActionInv`).  If nobody is asked, a file with an effect has left the state
APPROVED, and no copy brings it back: only the first decision and a spent grant save
that state, and both are excluded by then.  `AnswersInv` says what whoever answers was
told: on the way to the branch an answer, on the way to closing an action a refusal.

`AutomationLeaseProofs` proves `LeaseTypes` (`TypeOK`), `RunsAreExclusive` (`OneRunAtATime`)
and `OnceStaysOver` (`OnceIsOver`) for any executors, editors and maximum of attempts, from
`LeaseConstants`.  The invariant is `Held` (a run that has not lost its lease is its holder,
and the lease has not expired) and `Ended`
(a one-time automation that is over has no next occurrence, and no copy read since it
was completed has one).

Only model-checked are the liveness properties `AbandonedWorkRecovered`,
`AnswersAreDelivered` and `DueRunsAreClaimed`: liveness under fairness, and the ENABLED it
needs, are out of the prover's reach.  Every invariant, action property and refinement
that a passing run checks is also a theorem.

## Plan

What is left, in this order:

1. `TaskTree`: children, cancellation child-first, acknowledgement of results
   (`supervisor.py`), on top of `ExecutionStates`.
2. `WorkQueue`: the multi-agent work queue with dependencies and duplicate suppression;
   `WorktreeLifecycle`; the batch submission intent.
3. Transactions and task-wide grants of the gateway, delegation and escalation of the inbox.
4. Operators for `retry.py` and `classify_lost_lease`, checked against a reference
   definition over all their inputs.

## Not modelled

The components of the last rows of the inventory, because their substance is model
calls, I/O or presentation; the others are on the plan.  Within the supervisor: the
task tree, the action journal, side-effect classification, token and cost budgets,
notifications and audit events.  Within the inbox and the gateway: what "Left out" names
above.  Within the automations: the arithmetic of triggers, the deployment backends, the
jobs, and the supervised task of a run.
