----------------------------- MODULE HumanInbox -----------------------------
(***************************************************************************)
(* The approval items of src/mana_agent/human_inbox/service.py and the     *)
(* supervised branch that waits for their answers.                         *)
(*                                                                         *)
(* Every change of an item is one update under the repository's lock.      *)
(* Item i asks about action i (_ensure_inbox makes one item per action;    *)
(* delegation, which no caller in src/ uses, would make a second).  What   *)
(* the service does after a response is stored (the terminal handler, the  *)
(* resumption of the branch) are steps of their own: answering[i] is where *)
(* the process that answered is, and it may die between any two.           *)
(*                                                                         *)
(* Of the branch (an execution supervisor task) the inbox and the gateway  *)
(* see whether it runs, waits or is cancelled, and which attempt holds it. *)
(***************************************************************************)
EXTENDS Integers, Sequences, FiniteSets

CONSTANTS MaxActions,         \* bound on the actions proposed for the key
          MaxBranchAttempts,  \* bound on the attempts of the branch
          Supervised          \* the actions' task is one the supervisor knows

ASSUME InboxBounds ==
  /\ MaxActions \in Nat \ {0} /\ MaxBranchAttempts \in Nat \ {0}
  /\ Supervised \in BOOLEAN

VARIABLES item,       \* the inbox item that asks about each action
          branch,     \* the supervised task the actions belong to
          answering,  \* where the process that answers an item is
          lapsed      \* the actions whose expires_at has passed, item and all

inboxVars == <<item, branch, answering, lapsed>>

Actions == 1..MaxActions
NoAction == 0

UNRESOLVED == {"pending"}                     \* pending and delivered
Refusals == {"denied", "cancelled", "superseded", "expired"}
Statuses == {"none", "approved"} \cup UNRESOLVED \cup Refusals

\* attempt is 0 for an item without a checkpoint, of a branch nobody supervises.
InboxItem == [status: Statuses, attempt: 0..MaxBranchAttempts, claimed: BOOLEAN,
              resumed: BOOLEAN]

BranchStates == {"unsupervised", "running", "waiting", "queued", "cancelled"}
Branch == [state: BranchStates, attempt: 0..MaxBranchAttempts, waitsFor: 0..MaxActions,
           resumedBy: SUBSET Actions]

Unasked == [status |-> "none", attempt |-> 0, claimed |-> FALSE,
            resumed |-> FALSE]

InboxTypeOK ==
  /\ item \in [Actions -> InboxItem]
  /\ branch \in Branch
  /\ answering \in [Actions -> {"idle", "handle", "close", "resume", "complete"}]
  /\ lapsed \subseteq Actions

InboxInit ==
  /\ item = [i \in Actions |-> Unasked]
  /\ branch = [state |-> IF Supervised THEN "running" ELSE "unsupervised",
               attempt |-> IF Supervised THEN 1 ELSE 0, waitsFor |-> NoAction,
               resumedBy |-> {}]
  /\ answering = [i \in Actions |-> "idle"]
  /\ lapsed = {}

----------------------------------------------------------------------------
(* What the gateway asks of the inbox and the branch *)

Bound(i) == item[i].attempt # 0

\* _assert_branch_runnable and the checks of fence_claim.
Runnable(i) ==
  \/ ~Bound(i)
  \/ /\ branch.state \notin {"cancelled", "waiting"}
     /\ branch.attempt = item[i].attempt

\* create: the item of action i, addressed to the branch's current attempt.
CreateItem(i) ==
  item' = [item EXCEPT ![i] = [Unasked EXCEPT !.status = "pending",
                                              !.attempt = branch.attempt]]

\* suspend_for_human_input, its states and its effect.
MayWait == branch.state \in {"running", "waiting", "queued"}
WaitFor(i) == branch' = [branch EXCEPT !.state = "waiting", !.waitsFor = i]

\* claim_action_execution: an approved item nobody has claimed.
Spendable(i) == item[i].status = "approved" /\ ~item[i].claimed

\* supersede_for_action: an open or approved item is withdrawn.
Superseded(i) ==
  IF item[i].status \in UNRESOLVED \cup {"approved"}
    THEN [item EXCEPT ![i].status = "superseded"] ELSE item

----------------------------------------------------------------------------
(* The answer, and what follows it *)

At(i, label) == answering[i] = label
Continue(i, label) == answering' = [answering EXCEPT ![i] = label]

\* A mutation of Settle: an item that was answered is answered again.
SettleAgain(i, status) ==
  /\ At(i, "idle")
  /\ item[i].status \in UNRESOLVED \cup {"denied"}
  /\ item' = [item EXCEPT ![i].status = status]
  /\ Continue(i, "handle")

\* The locked update of respond, _expire_one and cancel_for_task: an unresolved
\* item gets its final status, and the caller goes on to the terminal handler.
Settle(i, status) ==
  /\ At(i, "idle")
  /\ item[i].status \in UNRESOLVED
  /\ item' = [item EXCEPT ![i].status = status]
  /\ Continue(i, "handle")

\* respond: APPROVE or DENY of an item that has not expired.
Respond(i) ==
  /\ i \notin lapsed
  /\ \E status \in {"approved", "denied"} : Settle(i, status)
  /\ UNCHANGED <<branch, lapsed>>

\* expire_due: the item's time is over and its branch stays blocked.
ExpireItem(i) ==
  /\ i \in lapsed
  /\ Settle(i, "expired")
  /\ UNCHANGED <<branch, lapsed>>

\* reconcile of a cancelled branch: cancel_for_task.
CancelItem(i) ==
  /\ Bound(i) /\ branch.state = "cancelled"
  /\ Settle(i, "cancelled")
  /\ UNCHANGED <<branch, lapsed>>

Answered(i) == item[i].status \in {"approved", "denied"}

\* The status in the copy of item i that the process which answers it works on: an
\* approval may have been withdrawn since, no other final status changes.
Told(i) == IF item[i].status = "superseded" THEN "approved" ELSE item[i].status

\* A mutation of ReconcileAnswer: only an approval is handled again.
ReconcileAnswerApproved(i) ==
  /\ At(i, "idle")
  /\ Bound(i) /\ item[i].status = "approved" /\ ~item[i].resumed
  /\ Continue(i, "handle")
  /\ UNCHANGED <<item, branch, lapsed>>

\* reconcile: an answer whose branch was not resumed is handled again.
ReconcileAnswer(i) ==
  /\ At(i, "idle")
  /\ Bound(i) /\ Answered(i) /\ ~item[i].resumed
  /\ Continue(i, "handle")
  /\ UNCHANGED <<item, branch, lapsed>>

\* A response that repeats the stored one only resumes the branch.
ReplayResponse(i) ==
  /\ At(i, "idle")
  /\ Bound(i) /\ Answered(i) /\ ~item[i].resumed
  /\ Continue(i, "resume")
  /\ UNCHANGED <<item, branch, lapsed>>

\* reconcile: restore_human_wait of an open item the branch does not wait for.
RestoreWait(i) ==
  /\ Bound(i) /\ item[i].status \in UNRESOLVED
  /\ branch.state # "waiting" \/ branch.waitsFor # i
  /\ MayWait
  /\ WaitFor(i)
  /\ UNCHANGED <<item, answering, lapsed>>

\* _resume and resume_from_human_input: once per claim, and only the branch that
\* waits for this item; otherwise it raises.
ResumeBranch(i) ==
  /\ At(i, "resume")
  /\ \/ /\ i \in branch.resumedBy
        /\ Continue(i, "complete")
        /\ UNCHANGED branch
     \/ /\ i \notin branch.resumedBy
        /\ branch.state = "waiting" /\ branch.waitsFor = i
        /\ branch' = [branch EXCEPT !.state = "queued", !.waitsFor = NoAction,
                                    !.resumedBy = @ \cup {i}]
        /\ Continue(i, "complete")
     \/ /\ i \notin branch.resumedBy
        /\ ~(branch.state = "waiting" /\ branch.waitsFor = i)
        /\ Continue(i, "idle")
        /\ UNCHANGED branch
  /\ UNCHANGED <<item, lapsed>>

\* _resume: the item records that its branch was resumed.
CompleteResume(i) ==
  /\ At(i, "complete")
  /\ item' = [item EXCEPT ![i].resumed = TRUE]
  /\ Continue(i, "idle")
  /\ UNCHANGED <<branch, lapsed>>

\* The process that answers dies.
AnswererStops(i) ==
  /\ ~At(i, "idle")
  /\ Continue(i, "idle")
  /\ UNCHANGED <<item, branch, lapsed>>

----------------------------------------------------------------------------
(* The supervisor's side of the branch, and time *)

\* acquire_lease: the resumed branch goes on in a new attempt.
LeaseBranch ==
  /\ branch.state = "queued" /\ branch.attempt < MaxBranchAttempts
  /\ branch' = [branch EXCEPT !.state = "running", !.attempt = @ + 1]
  /\ UNCHANGED <<item, answering, lapsed>>

\* cancel: it asks whether an irreversible effect has started of a copy read before the
\* locked updates, and an effect may be unmarked (ClaimBranch): the check may pass now.
CancelBranch ==
  /\ branch.state \notin {"unsupervised", "cancelled"}
  /\ branch' = [branch EXCEPT !.state = "cancelled", !.waitsFor = NoAction]
  /\ UNCHANGED <<item, answering, lapsed>>

\* The clock passes expires_at of action i, its decision and its item.
Lapse(i) ==
  /\ i \notin lapsed
  /\ lapsed' = lapsed \cup {i}
  /\ UNCHANGED <<item, branch, answering>>
=============================================================================
