--------------------------- MODULE ActionGateway ---------------------------
(***************************************************************************)
(* src/mana_agent/transactional_actions/gateway.py with its action store   *)
(* and its approval registry, over the human inbox: workers execute the    *)
(* material operation of one idempotency key.                              *)
(*                                                                         *)
(* execute reads the action file once and works on that copy; save_action  *)
(* writes the whole copy back whatever the file holds by then.  The copy   *)
(* is worker[w].copy, and every read, locked update or save is a step.     *)
(* Actions are numbered in the order in which the key was bound to them.   *)
(* An action's material, preview and approval digest are one thing: they   *)
(* change only with a new action.  Actions have no transaction, and the    *)
(* policy asks for grants of the scope action_once.                        *)
(***************************************************************************)
EXTENDS HumanInbox

CONSTANTS Workers,       \* threads and processes that call execute
          Outcomes,      \* the policy outcome under each policy fingerprint
          MaxGrants      \* bound on approval grants (the code has none)

ASSUME GatewayBounds ==
  /\ MaxGrants \in Nat
  /\ Outcomes \in Seq({"allow", "require_approval", "deny"}) /\ Len(Outcomes) > 0

VARIABLES policy,    \* the fingerprint of the current policy
          action,    \* actions/: the file of each action
          key,       \* idempotency/: the action the key is bound to
          grants,    \* approvals/: every grant, in issue order
          worker,    \* where each worker is in execute, and its copy
          effects,   \* how often each action's side effect was begun
          verified   \* the actions that were saved with complete verification

gatewayVars == <<policy, action, key, grants, worker, effects, verified>>
vars == <<item, branch, answering, lapsed, policy, action, key, grants, worker,
          effects, verified>>

ActionStates == {"absent", "proposed", "awaiting_approval", "approved", "executing",
                 "verifying", "committed", "failed", "cancelled", "expired"}

ActionIntent == [state: ActionStates, policy: 0..Len(Outcomes), linked: BOOLEAN,
                 tried: BOOLEAN]
Grant == [for: Actions, policy: 1..Len(Outcomes), live: BOOLEAN]

Absent == [state |-> "absent", policy |-> 0, linked |-> FALSE, tried |-> FALSE]

Labels == {"idle", "create", "decide", "ask", "suspend", "link", "check",
           "cancelOld", "rebind", "release", "consume", "stamp", "ready", "fence",
           "spend", "begin", "effect", "record", "invalidate", "verify"}

\* grant is the id execute presents; rechecked: it compared the policies already.
\* What is not used again is forgotten, so that it makes no states of its own.
Worker == [pc: Labels, id: 0..MaxActions, copy: ActionIntent, grant: 0..MaxGrants,
           rechecked: BOOLEAN,
           result: {"none", "ok", "error", "invalid"}]

Resting == [pc |-> "idle", id |-> NoAction, copy |-> Absent, grant |-> 0,
            rechecked |-> FALSE, result |-> "none"]

TypeOK ==
  /\ InboxTypeOK
  /\ policy \in 1..Len(Outcomes)
  /\ action \in [Actions -> ActionIntent]
  /\ key \in 0..MaxActions
  /\ grants \in Seq(Grant) /\ Len(grants) <= MaxGrants
  /\ worker \in [Workers -> Worker]
  /\ effects \in [Actions -> Nat]
  /\ verified \subseteq Actions

Init ==
  /\ InboxInit
  /\ policy = 1
  /\ action = [a \in Actions |-> Absent]
  /\ key = NoAction
  /\ grants = <<>>
  /\ worker = [w \in Workers |-> Resting]
  /\ effects = [a \in Actions |-> 0]
  /\ verified = {}

----------------------------------------------------------------------------
(* Control, files and grants *)

Id(w) == worker[w].id
Copy(w) == worker[w].copy
In(w, label) == worker[w].pc = label

Goto(w, label) == worker' = [worker EXCEPT ![w].pc = label]
Return(w) == worker' = [worker EXCEPT ![w] = Resting]

\* save_action: the worker's copy, now c, becomes the file.
SaveAndGoto(w, c, label) ==
  /\ action' = [action EXCEPT ![Id(w)] = c]
  /\ worker' = [worker EXCEPT ![w].copy = c, ![w].pc = label, ![w].result = "none"]
SaveAndReturn(w, c) ==
  /\ action' = [action EXCEPT ![Id(w)] = c]
  /\ Return(w)

\* valid_for, for the single-use grants of an action that waits or may run.
Valid(g, a, c) ==
  /\ grants[g].for = a /\ grants[g].live /\ a \notin lapsed
  /\ grants[g].policy = c.policy

\* issue: a new grant of action a under the decision of c.
Issued(a, c) == Append(grants, [for |-> a, policy |-> c.policy, live |-> TRUE])

\* find_valid, or issue when there is none: g is the id of the grant.
GrantFor(a, c, g) ==
  \/ /\ g \in 1..Len(grants) /\ Valid(g, a, c)
     /\ UNCHANGED grants
  \/ /\ \A h \in 1..Len(grants) : ~Valid(h, a, c)
     /\ Len(grants) < MaxGrants
     /\ grants' = Issued(a, c) /\ g = Len(grants) + 1

\* The same for a caller who does not use the grant now; past the bound it is lost.
Granted(a, c) ==
  IF (\E g \in 1..Len(grants) : Valid(g, a, c)) \/ Len(grants) = MaxGrants
    THEN grants ELSE Issued(a, c)

\* invalidate_for_action.
Invalidated(a) ==
  [g \in 1..Len(grants) |-> IF grants[g].for = a THEN [grants[g] EXCEPT !.live = FALSE]
                            ELSE grants[g]]

StillWaits(a) == action[a].state = "awaiting_approval"

\* A mutation of ClosedAs: the action takes over the status of its item.
ClosedAsAnswered(status) == status

\* The state an action is closed in when its item ends in the given refusal.
ClosedAs(status) == IF status = "expired" THEN "expired" ELSE "cancelled"

\* The copy of an action that still waited, closed and saved.
Closed(a, status) ==
  [action EXCEPT ![a].state = ClosedAs(status), ![a].tried = FALSE]

\* release_idempotency: frees the key, or raises when it is bound to another action.
FreedKey(a) == IF key = a THEN NoAction ELSE key
ReleaseRaises(a) == key \notin {a, NoAction}

\* invalidate_for_action and supersede_for_action, with the handler it calls.
Withdraw(w, label) ==
  LET a == Id(w)
      closes == StillWaits(a) /\ item[a].status \in UNRESOLVED \cup {"approved"}
  IN /\ grants' = Invalidated(a)
     /\ item' = Superseded(a)
     /\ action' = IF closes THEN Closed(a, "superseded") ELSE action
     /\ key' = IF closes THEN FreedKey(a) ELSE key
     /\ worker' = [worker EXCEPT ![w] = IF closes /\ ReleaseRaises(a) THEN Resting
                                        ELSE [@ EXCEPT !.pc = label]]

----------------------------------------------------------------------------
(* propose *)

\* execute looks the key up and copies the action it is bound to.
ReadAction(w) ==
  /\ In(w, "idle")
  /\ worker' = [worker EXCEPT ![w] =
                 IF key = NoAction THEN [Resting EXCEPT !.pc = "create"]
                 ELSE [Resting EXCEPT !.pc = "check", !.id = key, !.copy = action[key]]]
  /\ UNCHANGED <<inboxVars, policy, action, key, grants, effects, verified>>

\* propose after another worker bound the key: it finds the prior action, or
\* create_action raises because the key was bound after it looked.
AdoptPrior(w) ==
  /\ In(w, "create") /\ key # NoAction
  /\ \/ worker' = [worker EXCEPT ![w].pc = "check", ![w].id = key,
                                 ![w].copy = action[key]]
     \/ Return(w)
  /\ UNCHANGED <<inboxVars, policy, action, key, grants, effects, verified>>

\* create_action: a new action file, and the key bound to it.
CreateAction(w) ==
  /\ In(w, "create") /\ key = NoAction
  /\ \E a \in Actions :
       /\ action[a].state = "absent"
       /\ \A b \in 1..(a - 1) : action[b].state # "absent"
       /\ LET c == [Absent EXCEPT !.state = "proposed"]
          IN /\ action' = [action EXCEPT ![a] = c]
             /\ worker' = [worker EXCEPT ![w].pc = "decide", ![w].id = a, ![w].copy = c]
       /\ key' = a
  /\ UNCHANGED <<inboxVars, policy, grants, effects, verified>>

\* The preview and the policy decision, then the save of what was decided.
Decide(w) ==
  /\ In(w, "decide")
  /\ LET c == [Copy(w) EXCEPT !.policy = policy]
     IN CASE Outcomes[policy] = "deny" ->
               SaveAndReturn(w, [c EXCEPT !.state = "failed"])
          [] Outcomes[policy] = "allow" ->
               SaveAndGoto(w, [c EXCEPT !.state = "approved"], "check")
          [] Outcomes[policy] = "require_approval" ->
               SaveAndGoto(w, [c EXCEPT !.state = "awaiting_approval"], "ask")
  /\ UNCHANGED <<inboxVars, policy, key, grants, effects, verified>>

\* _ensure_inbox: the item of this action, if there is none yet.
AskHuman(w) ==
  /\ In(w, "ask")
  /\ IF item[Id(w)].status = "none"
       THEN /\ CreateItem(Id(w))
            /\ Goto(w, IF branch.state = "unsupervised" THEN "link" ELSE "suspend")
       ELSE Goto(w, "link") /\ UNCHANGED item
  /\ UNCHANGED <<branch, answering, lapsed, policy, action, key, grants, effects, verified>>

\* create: the branch is suspended for the item; a cancelled branch raises.
SuspendBranch(w) ==
  /\ In(w, "suspend")
  /\ IF MayWait THEN WaitFor(Id(w)) /\ Goto(w, "link")
                ELSE Return(w) /\ UNCHANGED branch
  /\ UNCHANGED <<item, answering, lapsed, policy, action, key, grants, effects, verified>>

\* The link to the item is saved with the rest of the copy.
LinkItem(w) ==
  /\ In(w, "link")
  /\ IF Copy(w).linked THEN Goto(w, "check") /\ UNCHANGED action
     ELSE SaveAndGoto(w, [Copy(w) EXCEPT !.linked = TRUE], "check")
  /\ UNCHANGED <<inboxVars, policy, key, grants, effects, verified>>

----------------------------------------------------------------------------
(* execute: the checks before a decision is used *)

\* The decision of the copy was made under another policy, and nothing was tried.
PolicyChanged(w) ==
  /\ In(w, "check") /\ ~worker[w].rechecked
  /\ Copy(w).policy \notin {0, policy}
  /\ Copy(w).state \in {"awaiting_approval", "approved", "failed"}
  /\ ~Copy(w).tried

Checked(w) == In(w, "check") /\ ~PolicyChanged(w)

\* policy changed: grants and item are withdrawn ...
WithdrawOld(w) ==
  /\ PolicyChanged(w)
  /\ Withdraw(w, "cancelOld")
  /\ UNCHANGED <<branch, answering, lapsed, policy, effects, verified>>

\* ... the copy is cancelled, saved, and its key released for a new proposal.
CancelOld(w) ==
  /\ In(w, "cancelOld")
  /\ IF Copy(w).state = "failed" THEN UNCHANGED action
       ELSE action' = [action EXCEPT ![Id(w)] = [Copy(w) EXCEPT !.state = "cancelled"]]
  /\ worker' = [worker EXCEPT ![w].pc = "rebind", ![w].rechecked = TRUE]
  /\ UNCHANGED <<inboxVars, policy, key, grants, effects, verified>>

\* release_idempotency: raises when the key is bound to another action.
ReleaseKey(w) ==
  /\ In(w, "release") \/ In(w, "rebind")
  /\ key' = FreedKey(Id(w))
  /\ IF In(w, "rebind") /\ ~ReleaseRaises(Id(w))
       THEN Goto(w, "create") ELSE Return(w)
  /\ UNCHANGED <<inboxVars, policy, action, grants, effects, verified>>

\* Committed: verified again and returned.  Failed: returned.  Otherwise it raises.
ReportPrior(w) ==
  /\ Checked(w)
  /\ Copy(w).state \notin {"awaiting_approval", "approved"}
  /\ Return(w)
  /\ UNCHANGED <<inboxVars, policy, action, key, grants, effects, verified>>

Pending(w, state) == Checked(w) /\ Copy(w).state = state

\* The action or its decision expired before execution.
ExpireAction(w) ==
  /\ Pending(w, "awaiting_approval") \/ Pending(w, "approved")
  /\ Id(w) \in lapsed
  /\ SaveAndGoto(w, [Copy(w) EXCEPT !.state = "expired"], "release")
  /\ UNCHANGED <<inboxVars, policy, key, grants, effects, verified>>

----------------------------------------------------------------------------
(* execute: the human decision *)

Gate(w) == Pending(w, "awaiting_approval") /\ Id(w) \notin lapsed

\* No item yet: the proposal died before it asked.  Under the last policy there is
\* nothing left to compare.
AskLate(w) ==
  /\ Gate(w) /\ item[Id(w)].status = "none"
  /\ worker' = [worker EXCEPT ![w].pc = "ask",
                              ![w].rechecked = @ \/ policy < Len(Outcomes)]
  /\ UNCHANGED <<inboxVars, policy, action, key, grants, effects, verified>>

\* The item is open: ApprovalRequired, or a grant that may not bypass it.
StillOpen(w) ==
  /\ Gate(w) /\ item[Id(w)].status \in UNRESOLVED
  /\ IF Copy(w).linked \/ \E g \in 1..Len(grants) : Valid(g, Id(w), Copy(w))
       THEN Return(w) /\ UNCHANGED action
       ELSE SaveAndReturn(w, [Copy(w) EXCEPT !.linked = TRUE])
  /\ UNCHANGED <<inboxVars, policy, key, grants, effects, verified>>

\* The item was refused, withdrawn or expired: the copy follows it.
Refused(w) ==
  /\ Gate(w) /\ item[Id(w)].status \in Refusals
  /\ SaveAndGoto(w, [Copy(w) EXCEPT !.state = ClosedAs(item[Id(w)].status)], "release")
  /\ UNCHANGED <<inboxVars, policy, key, grants, effects, verified>>

\* The item is approved: a grant for it, unless the branch cannot act.
UseDecision(w) ==
  /\ Gate(w) /\ item[Id(w)].status = "approved"
  /\ IF Runnable(Id(w))
       THEN \E g \in 1..MaxGrants :
              /\ GrantFor(Id(w), Copy(w), g)
              /\ worker' = [worker EXCEPT ![w].pc = "consume", ![w].grant = g,
                                          ![w].rechecked = FALSE]
       ELSE Return(w) /\ UNCHANGED grants
  /\ UNCHANGED <<inboxVars, policy, action, key, effects, verified>>

\* consume: a grant is used once, under the registry's lock.
Consume(w) ==
  /\ In(w, "consume")
  /\ IF Valid(worker[w].grant, Id(w), Copy(w))
       THEN /\ grants' = [grants EXCEPT ![worker[w].grant].live = FALSE]
            /\ worker' = [worker EXCEPT ![w].pc = "stamp", ![w].grant = 0]
       ELSE Return(w) /\ UNCHANGED grants
  /\ UNCHANGED <<inboxVars, policy, action, key, effects, verified>>

\* The copy is approved and saved.
Stamp(w) ==
  /\ In(w, "stamp")
  /\ SaveAndGoto(w, [Copy(w) EXCEPT !.state = "approved"], "ready")
  /\ UNCHANGED <<inboxVars, policy, key, grants, effects, verified>>

----------------------------------------------------------------------------
(* execute: the claims, the side effect and its evidence *)

Ready(w) == In(w, "ready") \/ (Pending(w, "approved") /\ Id(w) \notin lapsed)

\* A mutation of FindDecision: an approved action is not asked for its decision.
FindDecisionUnasked(w) ==
  /\ Ready(w)
  /\ Goto(w, IF item[Id(w)].status = "approved" THEN "fence" ELSE "begin")
  /\ UNCHANGED <<inboxVars, policy, action, key, grants, effects, verified>>

\* The durable decision behind an approved action: an approved item, whose branch can
\* act (_assert_branch_runnable), or a policy that asked for none.  Otherwise it raises.
FindDecision(w) ==
  /\ Ready(w)
  /\ \/ /\ item[Id(w)].status = "approved"
        /\ IF Id(w) \notin lapsed /\ Runnable(Id(w)) THEN Goto(w, "fence") ELSE Return(w)
     \/ /\ item[Id(w)].status # "approved"
        /\ IF Outcomes[Copy(w).policy] = "require_approval" THEN Return(w)
           ELSE Goto(w, "begin")
  /\ UNCHANGED <<inboxVars, policy, action, key, grants, effects, verified>>

\* _claim_branch_execution: the branch is checked again and marked under the
\* supervisor's lock.  A branch that cannot act raises PermissionError; any other error
\* of the update is swallowed, and execute goes on without check or mark.
ClaimBranch(w) ==
  /\ In(w, "fence")
  /\ \/ Runnable(Id(w)) /\ Goto(w, "spend")
     \/ ~Runnable(Id(w)) /\ (Return(w) \/ Goto(w, "spend"))
  /\ UNCHANGED <<inboxVars, policy, action, key, grants, effects, verified>>

\* claim_action_execution: the decision is spent.
SpendDecision(w) ==
  /\ In(w, "spend")
  /\ IF Spendable(Id(w))
       THEN item' = [item EXCEPT ![Id(w)].claimed = TRUE] /\ Goto(w, "begin")
       ELSE Return(w) /\ UNCHANGED item
  /\ UNCHANGED <<branch, answering, lapsed, policy, action, key, grants, effects, verified>>

\* A mutation of ClaimExecution: any state may be claimed.
ClaimExecutionUnfenced(w) ==
  /\ In(w, "begin")
  /\ SaveAndGoto(w, [action[Id(w)] EXCEPT !.state = "executing", !.tried = TRUE], "effect")
  /\ UNCHANGED <<inboxVars, policy, key, grants, effects, verified>>

\* claim_execution: under the store's lock, the file goes from approved to executing.
ClaimExecution(w) ==
  /\ In(w, "begin")
  /\ IF action[Id(w)].state = "approved"
       THEN SaveAndGoto(w, [action[Id(w)] EXCEPT !.state = "executing", !.tried = TRUE],
                        "effect")
       ELSE Return(w) /\ UNCHANGED action
  /\ UNCHANGED <<inboxVars, policy, key, grants, effects, verified>>

\* adapter.execute: done, failed with unknown effect, or refused as stale untouched.
Perform(w) ==
  /\ In(w, "effect")
  /\ \E r \in {"ok", "error", "invalid"} :
       /\ worker' = [worker EXCEPT ![w].pc = "record", ![w].result = r]
       /\ effects' = IF r = "invalid" THEN effects ELSE [effects EXCEPT ![Id(w)] = @ + 1]
  /\ UNCHANGED <<inboxVars, policy, action, key, grants, verified>>

\* The outcome is saved.
RecordOutcome(w) ==
  /\ In(w, "record")
  /\ CASE worker[w].result = "ok" ->
            SaveAndGoto(w, [Copy(w) EXCEPT !.state = "verifying"], "verify")
       [] worker[w].result = "error" ->
            SaveAndReturn(w, [Copy(w) EXCEPT !.state = "failed"])
       [] worker[w].result = "invalid" ->
            SaveAndGoto(w, [Copy(w) EXCEPT !.state = "failed"], "invalidate")
  /\ UNCHANGED <<inboxVars, policy, key, grants, effects, verified>>

\* ActionInvalidatedError: grants and item are withdrawn, then the key released.
InvalidateAction(w) ==
  /\ In(w, "invalidate")
  /\ Withdraw(w, "release")
  /\ UNCHANGED <<branch, answering, lapsed, policy, effects, verified>>

\* adapter.verify: complete evidence commits, anything else fails.
VerifyOutcome(w) ==
  /\ In(w, "verify")
  /\ \/ /\ SaveAndReturn(w, [Copy(w) EXCEPT !.state = "committed"])
        /\ verified' = verified \cup {Id(w)}
     \/ SaveAndReturn(w, [Copy(w) EXCEPT !.state = "failed"]) /\ UNCHANGED verified
  /\ UNCHANGED <<inboxVars, policy, key, grants, effects>>

\* The process dies anywhere in execute; another call starts over.
Crash(w) ==
  /\ ~In(w, "idle")
  /\ Return(w)
  /\ UNCHANGED <<inboxVars, policy, action, key, grants, effects, verified>>

----------------------------------------------------------------------------
(* The other entry points *)

InFlight(a) == \E w \in Workers :
  Id(w) = a /\ worker[w].pc \in {"effect", "record", "verify"}

\* resume_verification: what a dead worker left is closed, never executed again.
ResumeVerification(a) ==
  /\ ~InFlight(a)
  /\ \/ /\ action[a].state \in {"executing", "verifying"}
        /\ action' = [action EXCEPT ![a].state = "failed"]
        /\ UNCHANGED verified
     \/ /\ action[a].state = "verifying"
        /\ action' = [action EXCEPT ![a].state = "committed"]
        /\ verified' = verified \cup {a}
  /\ UNCHANGED <<inboxVars, policy, key, grants, worker, effects>>

\* A mutation of AfterHandler: the branch is resumed whatever became of its item.
AfterHandlerAlways(i) == IF Bound(i) THEN "resume" ELSE "idle"

\* Where the process that answers goes when its handler returns: _resume comes after
\* an answer, not after an expiry or a cancellation.
AfterHandler(i) == IF Bound(i) /\ Told(i) \in {"approved", "denied"} THEN "resume" ELSE "idle"

\* _reconcile_transactional_action reads the action.  One that still waits gets a grant
\* under an approval, and is to be closed under a refusal.
HandleAnswer(i) ==
  /\ At(i, "handle")
  /\ IF StillWaits(i) /\ Told(i) # "approved"
       THEN Continue(i, "close") /\ UNCHANGED grants
       ELSE /\ Continue(i, AfterHandler(i))
            /\ grants' = IF StillWaits(i) THEN Granted(i, action[i]) ELSE grants
  /\ UNCHANGED <<item, branch, lapsed, policy, action, key, worker, effects, verified>>

\* Its grants are withdrawn, the copy that was read is closed and saved over whatever
\* the file holds by now, and the key is released.
CloseAnswered(i) ==
  /\ At(i, "close")
  /\ grants' = Invalidated(i)
  /\ action' = Closed(i, Told(i))
  /\ key' = FreedKey(i)
  /\ Continue(i, IF ReleaseRaises(i) THEN "idle" ELSE AfterHandler(i))
  /\ UNCHANGED <<item, branch, lapsed, policy, worker, effects, verified>>

\* approve: after its response the principal's call gets a grant for the action it
\* read before, when that still waited, so at any later time.
Regrant(i) ==
  /\ item[i].status = "approved" /\ action[i].policy # 0
  /\ grants' = Granted(i, action[i])
  /\ UNCHANGED <<inboxVars, policy, action, key, worker, effects, verified>>

\* The configured policy changes.
ChangePolicy ==
  /\ policy < Len(Outcomes)
  /\ policy' = policy + 1
  /\ UNCHANGED <<inboxVars, action, key, grants, worker, effects, verified>>

----------------------------------------------------------------------------

WorkerStep(w) ==
  \/ ReadAction(w) \/ AdoptPrior(w) \/ CreateAction(w) \/ Decide(w) \/ AskHuman(w)
  \/ SuspendBranch(w) \/ LinkItem(w) \/ WithdrawOld(w) \/ CancelOld(w) \/ ReleaseKey(w)
  \/ ReportPrior(w) \/ ExpireAction(w) \/ AskLate(w) \/ StillOpen(w)
  \/ Refused(w) \/ UseDecision(w) \/ Consume(w) \/ Stamp(w) \/ FindDecision(w)
  \/ ClaimBranch(w) \/ SpendDecision(w) \/ ClaimExecution(w) \/ Perform(w)
  \/ RecordOutcome(w) \/ InvalidateAction(w) \/ VerifyOutcome(w)
  \/ Crash(w)

InboxStep(i) ==
  /\ \/ Respond(i) \/ ExpireItem(i) \/ CancelItem(i) \/ ReconcileAnswer(i)
     \/ ReplayResponse(i) \/ RestoreWait(i) \/ ResumeBranch(i) \/ CompleteResume(i)
     \/ AnswererStops(i) \/ Lapse(i)
  /\ UNCHANGED gatewayVars

BranchStep == (LeaseBranch \/ CancelBranch) /\ UNCHANGED gatewayVars

Next ==
  \/ \E w \in Workers : WorkerStep(w)
  \/ \E i \in Actions : \/ InboxStep(i) \/ HandleAnswer(i) \/ CloseAnswered(i)
                       \/ Regrant(i) \/ ResumeVerification(i)
  \/ BranchStep \/ ChangePolicy

Spec == Init /\ [][Next]_vars

\* The inbox reconciles again and again, and whoever handles an answer does not die
\* at the same step every time.
Reconciles(i) ==
  /\ WF_answering(ReconcileAnswer(i))
  /\ SF_answering(HandleAnswer(i)) /\ SF_answering(CloseAnswered(i))
  /\ SF_answering(ResumeBranch(i))

FairSpec == Spec /\ \A i \in Actions : Reconciles(i)

----------------------------------------------------------------------------
(* Properties *)

\* What an inbox item says to the caller who asked.
Decision(status) ==
  CASE status = "none" -> "none"
    [] status \in UNRESOLVED -> "open"
    [] status = "approved" -> "approved"
    [] status \in Refusals -> "refused"

Promise == INSTANCE HumanDecision WITH
  decision <- [a \in Actions |-> Decision(item[a].status)],
  spent <- {a \in Actions : item[a].claimed}

\* Whatever order workers, answers, withdrawals and crashes come in, the inbox and
\* the gateway keep the promise of HumanDecision: one question per action, a final
\* answer, an approval spent once, one side effect on it (claim_action_execution,
\* claim_execution).
OneEffectPerDecision == Promise!Spec

\* An action whose recorded decision asks for a person has no side effect before
\* the approval of its item was spent, whatever stale copies were saved over it.
EffectsNeedDecision ==
  \A a \in Actions :
    effects[a] > 0 /\ Outcomes[action[a].policy] = "require_approval" => item[a].claimed

\* A waiting branch goes on only for an answer of the item it waits for, and once: an
\* item that expired, was cancelled or is still open leaves it blocked
\* (_resume_terminal_if_needed, resume_from_human_input).  An approval may be withdrawn
\* while the process that stored it is on its way to the branch.
ResumesOnAnswer ==
  [][branch.state = "waiting" /\ branch'.state = "queued" =>
       /\ item[branch.waitsFor].status \in {"approved", "denied", "superseded"}
       /\ branch.waitsFor \notin branch.resumedBy]_vars

\* An answer reaches the branch that waits for it, however often the process that
\* handles it dies (reconcile, _resume, resume_from_human_input).
Undelivered(i) ==
  /\ Answered(i) /\ i \notin branch.resumedBy
  /\ branch.state = "waiting" /\ branch.waitsFor = i
AnswersAreDelivered == \A i \in Actions : []<>~Undelivered(i)

\* A wait is a "projection from an authoritative unresolved inbox item"
\* (restore_human_wait): no branch waits for an item it was already resumed by.
WaitsForOpenItem ==
  branch.state = "waiting" => branch.waitsFor \notin branch.resumedBy

\* After an action of the key was saved with complete verification no side effect
\* of the key begins: "prevents supervisor or worker restart retries from repeating
\* verified effects" (docs/31-policy-gated-transactional-actions.md).
NoVerifiedEffectRepeats == [][verified # {} => effects' = effects]_vars
=============================================================================
