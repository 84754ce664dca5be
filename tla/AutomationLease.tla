--------------------------- MODULE AutomationLease ---------------------------
(***************************************************************************)
(* One persistent automation of src/mana_agent/automations/service.py: the *)
(* lease its executors claim, the record they and its editors write.       *)
(*                                                                         *)
(* Executors are the processes a wakeup of the platform's scheduler or a   *)
(* run-now starts; editors call update_automation, reconcile_deployment    *)
(* and delete_automation.  _acquire_lease, _finish_run and _release_lease  *)
(* read and write the store under its lock; upsert_automation writes a     *)
(* whole definition that was read without it, so the copy an editor holds  *)
(* is state.  An executor's name stands for its run: nothing refers to an  *)
(* earlier run of a name once it has claimed again.  Of the clock the      *)
(* model keeps whether next_run_at and the lease's expires_at are past.    *)
(***************************************************************************)
EXTENDS Naturals, FiniteSets

CONSTANTS Executors, Editors, NoRun,
          MaxAttempts        \* retry_policy.maximum_attempts

ASSUME LeaseConstants == NoRun \notin Executors /\ MaxAttempts \in Nat \ {0}

VARIABLES record,     \* the automation's definition in the store
          lease,      \* payload["leases"][automation.id]
          executor,   \* where each executor is in execute_automation
          editor,     \* where each editor is, with its copy of the definition
          lost,       \* the executors whose lease ended before their run did
          over,       \* a one-time automation's occurrence is over: it was finished, and
                      \* since then no other one was set and no copy from before saved
          early       \* the editors whose copy was read before it was finished

vars == <<record, lease, executor, editor, lost, over, early>>

\* status: a skipped run is done, a blocked one failed.
Definition == [present: BOOLEAN, enabled: BOOLEAN, once: BOOLEAN,
               next: {"none", "later", "due"},
               status: {"none", "running", "done", "failed"},
               attempt: 0..MaxAttempts]

\* No copy, and what a deleted definition leaves behind.
Nothing == [present |-> FALSE, enabled |-> FALSE, once |-> FALSE, next |-> "none",
            status |-> "none", attempt |-> 0]

ExecutorLabels == {"idle", "skip", "claimed", "executing", "ended"}
EditorLabels == {"idle", "edit", "redeploy", "deploy"}

TypeOK ==
  /\ record \in Definition
  /\ lease \in [holder: Executors \cup {NoRun}, expired: BOOLEAN]
  /\ executor \in [Executors -> ExecutorLabels]
  /\ editor \in [Editors -> [pc: EditorLabels, copy: Definition]]
  /\ lost \subseteq Executors
  /\ over \in BOOLEAN /\ early \subseteq Editors

Free == [holder |-> NoRun, expired |-> FALSE]

\* create_automation: enabled, due some time later, never executed.
Created(once) == [present |-> TRUE, enabled |-> TRUE, once |-> once, next |-> "later",
                  status |-> "none", attempt |-> 0]

Init ==
  /\ \E once \in BOOLEAN : record = Created(once)
  /\ executor = [e \in Executors |-> "idle"]
  /\ editor = [d \in Editors |-> [pc |-> "idle", copy |-> Nothing]]
  /\ lease = Free
  /\ lost = {} /\ over = FALSE /\ early = {}

----------------------------------------------------------------------------
(* Executors *)

At(e, label) == executor[e] = label
Goto(e, label) == executor' = [executor EXCEPT ![e] = label]
Busy(e) == executor[e] \in {"skip", "claimed", "executing"}

\* The lease of a run that is alive ends before the run does.
LostWith(holder) == IF holder # NoRun /\ Busy(holder) THEN lost \cup {holder} ELSE lost

\* Run e is over: it cannot lose its lease any more.
LostWithout(e) == lost' = lost \ {e}

\* A mutation of Claimable: a lease is never taken over.
ClaimableUnheld == lease.holder = NoRun

\* A mutation of Claimable: the lease is not looked at.
ClaimableAlways == TRUE

Claimable == lease.holder = NoRun \/ lease.expired

\* A mutation of NextAttempt: the retry policy's maximum is not looked at.
NextAttemptUnbounded == IF record.status = "failed" THEN record.attempt + 1 ELSE 1

\* The attempt that follows the last recorded execution.
NextAttempt ==
  IF record.status = "failed" /\ record.attempt < MaxAttempts THEN record.attempt + 1 ELSE 1

Due == record.present /\ record.enabled /\ record.next = "due"

\* _acquire_lease: a due wakeup claims the run, or a forced run at any time; a wakeup
\* that found the occurrence too late, before the lock, claims it to skip it.
Acquire(e) ==
  /\ At(e, "idle")
  /\ record.present /\ Claimable
  /\ \/ Due /\ \E label \in {"skip", "claimed"} : Goto(e, label)
     \/ Goto(e, "claimed")
  /\ lease' = [holder |-> e, expired |-> FALSE]
  /\ record' = [record EXCEPT !.status = "running", !.attempt = NextAttempt]
  /\ UNCHANGED <<editor, lost, over, early>>

\* The supervisor has a task, a lease and a start for the run ...
StartRun(e) ==
  /\ At(e, "claimed")
  /\ Goto(e, "executing")
  /\ UNCHANGED <<record, lease, editor, lost, over, early>>

\* ... or refuses one: _release_lease, of this run's lease alone.
StartFails(e) ==
  /\ At(e, "claimed")
  /\ lease' = IF lease.holder = e THEN Free ELSE lease
  /\ Goto(e, "idle") /\ LostWithout(e)
  /\ UNCHANGED <<record, editor, over, early>>

Retried(status) ==
  status = "failed" /\ (IF record.status = "none" THEN 1 ELSE record.attempt) < MaxAttempts

\* The occurrence is over with this outcome, unless a retry of it is planned; the copies
\* that editors have by then are from before.
Completes(status) ==
  /\ over' = (record.once /\ ~Retried(status))
  /\ early' = IF over THEN early ELSE {d \in Editors : editor[d].pc \in {"edit", "deploy"}}

\* A mutation of Finish: a one-time automation stays enabled.
FinishEnabled(e, status) ==
  /\ record.present
  /\ \E next \in {"later", "due"} :
       record' = [record EXCEPT !.status = status,
                                !.attempt = IF record.status = "none" THEN 1 ELSE @,
                                !.next = IF Retried(status) THEN "later" ELSE next]
  /\ lease' = Free
  /\ lost' = (IF lease.holder = e THEN lost ELSE LostWith(lease.holder)) \ {e}
  /\ Completes(status)
  /\ UNCHANGED editor

\* _finish_run: the outcome, the next occurrence, and whatever lease there is, released.
\* A schedule that catches up may be due again at once.
Finish(e, status) ==
  /\ record.present
  /\ \E next \in {"later", "due"} :
       LET ended == record.once /\ ~Retried(status)
       IN record' = [record EXCEPT !.status = status,
                                   !.attempt = IF record.status = "none" THEN 1 ELSE @,
                                   !.enabled = @ /\ ~ended,
                                   !.next = IF Retried(status) THEN "later"
                                            ELSE IF ended THEN "none" ELSE next]
  /\ lease' = Free
  /\ lost' = (IF lease.holder = e THEN lost ELSE LostWith(lease.holder)) \ {e}
  /\ Completes(status)
  /\ UNCHANGED editor

\* _finish_run raises for a deleted automation; the first one's caller gives the lease
\* back.
FinishDeleted(e) ==
  /\ ~record.present
  /\ lease' = IF At(e, "executing") /\ lease.holder = e THEN Free ELSE lease
  /\ Goto(e, "idle") /\ LostWithout(e)
  /\ UNCHANGED <<record, editor, over, early>>

\* A late occurrence is skipped.
SkipRun(e) ==
  /\ At(e, "skip")
  /\ \/ Finish(e, "done") /\ Goto(e, "idle")
     \/ FinishDeleted(e)

\* The job ends, and its outcome is recorded.
EndRun(e) ==
  /\ At(e, "executing")
  /\ \/ \E status \in {"done", "failed"} : Finish(e, status) /\ Goto(e, "ended")
     \/ FinishDeleted(e)

\* A heartbeat failed meanwhile, or the supervisor refuses the result: the same run is
\* finished a second time, as failed.
FailEnded(e) ==
  /\ At(e, "ended")
  /\ \/ Finish(e, "failed") /\ Goto(e, "idle")
     \/ FinishDeleted(e)

\* The supervisor accepts the outcome.  That of a one-time automation that is over is
\* followed by reconcile_deployment, which is an editor's.
AcceptEnded(e) ==
  /\ At(e, "ended")
  /\ Goto(e, "idle")
  /\ UNCHANGED <<record, lease, editor, lost, over, early>>

\* The process dies anywhere.
Crash(e) ==
  /\ ~At(e, "idle")
  /\ Goto(e, "idle") /\ LostWithout(e)
  /\ UNCHANGED <<record, lease, editor, over, early>>

----------------------------------------------------------------------------
(* Editors *)

\* upsert_automation: the whole copy becomes the record, with a next occurrence when it
\* has none and its trigger does (a one-time trigger: if run_at is still ahead).
Upsert(d, copy) ==
  \/ /\ ~copy.enabled \/ copy.next # "none" \/ copy.once
     /\ record' = copy
     /\ over' = (over /\ d \notin early)
  \/ /\ copy.enabled /\ copy.next = "none"
     /\ record' = [copy EXCEPT !.next = "later"]
     /\ over' = FALSE

EditorGoto(d, label) ==
  /\ editor' = [editor EXCEPT ![d] = [pc |-> label, copy |-> Nothing]]
  /\ early' = early \ {d}

\* get_automation, for an update or for reconcile_deployment.
ReadRecord(d) ==
  /\ record.present
  /\ \/ editor[d].pc = "idle" /\ editor' = [editor EXCEPT ![d] = [pc |-> "edit", copy |-> record]]
     \/ editor[d].pc \in {"idle", "redeploy"}
        /\ editor' = [editor EXCEPT ![d] = [pc |-> "deploy", copy |-> record]]
  /\ UNCHANGED <<record, lease, executor, lost, over, early>>

\* The definition was deleted before reconcile_deployment read it, or the editor dies.
EditorStops(d) ==
  /\ editor[d].pc # "idle"
  /\ EditorGoto(d, "idle")
  /\ UNCHANGED <<record, lease, executor, lost, over>>

\* update_automation: pause, resume, a change of no field modelled here, or a new
\* trigger with its own next occurrence.
SaveUpdate(d) ==
  LET c == editor[d].copy
  IN /\ editor[d].pc = "edit"
     /\ \/ \E on \in BOOLEAN : Upsert(d, [c EXCEPT !.enabled = on])
        \/ /\ \E once \in BOOLEAN : record' = [c EXCEPT !.once = once, !.next = "later"]
           /\ over' = FALSE
     /\ EditorGoto(d, "redeploy")
     /\ UNCHANGED <<lease, executor, lost>>

\* reconcile_deployment: the platform's wakeup is there, and the copy is saved with it.
SaveDeployment(d) ==
  /\ editor[d].pc = "deploy"
  /\ Upsert(d, editor[d].copy)
  /\ EditorGoto(d, "idle")
  /\ UNCHANGED <<lease, executor, lost>>

\* delete_automation: the record goes, and the lease with it.
Delete(d) ==
  /\ editor[d].pc = "edit" /\ record.present
  /\ record' = Nothing
  /\ lease' = Free
  /\ lost' = LostWith(lease.holder)
  /\ EditorGoto(d, "idle")
  /\ UNCHANGED <<executor, over>>

----------------------------------------------------------------------------
(* Time *)

\* LEASE_SECONDS pass; nobody renews the lease of a run that takes longer.
Expire ==
  /\ lease.holder # NoRun /\ ~lease.expired
  /\ lease' = [lease EXCEPT !.expired = TRUE]
  /\ lost' = LostWith(lease.holder)
  /\ UNCHANGED <<record, executor, editor, over, early>>

\* The clock reaches next_run_at.
FallsDue ==
  /\ record.next = "later"
  /\ record' = [record EXCEPT !.next = "due"]
  /\ UNCHANGED <<lease, executor, editor, lost, over, early>>

----------------------------------------------------------------------------

ExecutorStep(e) ==
  \/ Acquire(e) \/ StartRun(e) \/ StartFails(e) \/ SkipRun(e) \/ EndRun(e)
  \/ FailEnded(e) \/ AcceptEnded(e) \/ Crash(e)

EditorStep(d) ==
  ReadRecord(d) \/ EditorStops(d) \/ SaveUpdate(d) \/ SaveDeployment(d) \/ Delete(d)

Next ==
  \/ \E e \in Executors : ExecutorStep(e)
  \/ \E d \in Editors : EditorStep(d)
  \/ Expire \/ FallsDue

Spec == Init /\ [][Next]_vars

\* The platform wakes a due automation again and again, a lease's time ends, and what
\* follows the end of a run does not take forever.  Nothing makes a job end.
Fairness ==
  /\ WF_vars(\E e \in Executors : Acquire(e))
  /\ WF_vars(Expire)
  /\ \A e \in Executors : WF_vars(AcceptEnded(e))

FairSpec == Spec /\ Fairness

----------------------------------------------------------------------------
(* Properties *)

\* "Duplicate invocations cannot claim the same run" (docs/27): of two runs whose job
\* executes at once, one had lost its lease, to the hour's end, to a deletion or to
\* another run that finished without one.
OneRunAtATime ==
  \A e, f \in Executors :
    e # f /\ At(e, "executing") /\ At(f, "executing") => e \in lost \/ f \in lost

\* A one-time automation that completed is not due, whatever its executors record and
\* however it is paused, resumed and deployed again, until a definition read before it
\* completed is saved (upsert_automation puts the old occurrence back), an update gives it
\* another occurrence, or a second end of its run plans a retry.
OnceIsOver == over => ~Due

\* Due, and no run of it is alive.
Unattended == Due /\ \A e \in Executors : ~Busy(e)

\* A due automation whose executor died, with the lease in its hands or before it was
\* started, is picked up again.
DueRunsAreClaimed == Unattended ~> ~Unattended
=============================================================================
