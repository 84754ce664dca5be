------------------------- MODULE ActionGatewayProofs -------------------------
(***************************************************************************)
(* The types of ActionGateway, and that it keeps the promise of            *)
(* HumanDecision, for every number of workers, actions, grants and branch  *)
(* attempts and every sequence of policies.                                *)
(*                                                                         *)
(* The argument.  A policy decision, once made, is the same in the file    *)
(* and in every copy (WorkerInv), so file and copies agree on whether a    *)
(* person is asked.  If so, the item's claim is taken once, and only its   *)
(* taker reaches the effect, whatever state stale copies save.  If not,    *)
(* no step saves the state approved again once the file has left it, so    *)
(* claim_execution succeeds once.                                          *)
(***************************************************************************)
EXTENDS ActionGateway, SequenceTheorems, TLAPS

\* The decision p that asks for a person.
Human(p) == p # 0 /\ Outcomes[p] = "require_approval"

ActionInv(a) ==
  /\ action[a].state = "absent" => action[a].policy = 0
  /\ action[a].policy = 0 =>
       /\ action[a].state \in {"absent", "proposed"}
       /\ item[a].status = "none" /\ effects[a] = 0
  /\ action[a].state = "awaiting_approval" => Human(action[a].policy)
  /\ item[a].status = "none" => ~item[a].claimed /\ ~Bound(a)
  /\ item[a].status # "none" => Human(action[a].policy)
  /\ effects[a] \in {0, 1}
  /\ effects[a] = 1 /\ Human(action[a].policy) => item[a].claimed
  /\ effects[a] = 1 /\ ~Human(action[a].policy) => action[a].state # "approved"

Holds(w) == ~In(w, "idle") /\ ~In(w, "create")

WorkerInv(w) == Holds(w) =>
  /\ Id(w) \in Actions
  /\ Copy(w).policy # 0 => action[Id(w)].policy = Copy(w).policy
  /\ Copy(w).policy = 0 =>
       \/ In(w, "decide") /\ action[Id(w)].state = "proposed"
       \/ In(w, "check") /\ Copy(w).state \in {"absent", "proposed"}
  /\ In(w, "decide") => action[Id(w)].policy = 0 /\ Copy(w).policy = 0
  /\ Copy(w).state = "awaiting_approval" => Human(Copy(w).policy)
  /\ worker[w].pc \in {"ask", "suspend", "link", "consume", "stamp"} =>
       Copy(w).state = "awaiting_approval"
  /\ worker[w].pc \in {"fence", "spend"} =>
       Human(Copy(w).policy) /\ item[Id(w)].status # "none"
  /\ worker[w].pc \in {"begin", "effect"} /\ Human(Copy(w).policy) =>
       item[Id(w)].claimed /\ effects[Id(w)] = 0
  /\ In(w, "effect") /\ ~Human(Copy(w).policy) =>
       action[Id(w)].state # "approved" /\ effects[Id(w)] = 0
  /\ In(w, "record") => worker[w].result # "none"

\* v and w do not both claim or act on the same action.
Apart(v, w) == v # w /\ Holds(v) /\ Holds(w) /\ Id(v) = Id(w) =>
  /\ ~(In(v, "decide") /\ In(w, "decide"))
  /\ ~(In(v, "effect") /\ In(w, "effect"))
  /\ Human(Copy(v).policy) =>
       ~(worker[v].pc \in {"begin", "effect"} /\ worker[w].pc \in {"begin", "effect"})

Inv ==
  /\ \A a \in Actions : ActionInv(a)
  /\ \A w \in Workers : WorkerInv(w)
  /\ \A v, w \in Workers : Apart(v, w)

\* Who is on the way to close an action holds a refusal, who is on the way to the
\* branch an answer, which may have been withdrawn since.
AnswerInv(i) ==
  /\ At(i, "handle") => item[i].status \in {"approved"} \cup Refusals
  /\ At(i, "close") => item[i].status \in Refusals
  /\ At(i, "resume") => item[i].status \in {"approved", "denied", "superseded"}

AnswersInv == \A i \in Actions : AnswerInv(i)

----------------------------------------------------------------------------
(* Types *)

LEMMA OutcomeType ==
  ASSUME NEW p \in 1..Len(Outcomes)
  PROVE  Outcomes[p] \in {"allow", "require_approval", "deny"}
BY GatewayBounds

LEMMA GrantsType ==
  ASSUME grants \in Seq(Grant), Len(grants) <= MaxGrants, NEW a \in Actions,
         NEW c \in ActionIntent, c.policy # 0
  PROVE  /\ Len(grants) < MaxGrants =>
              Issued(a, c) \in Seq(Grant) /\ Len(Issued(a, c)) = Len(grants) + 1
         /\ Granted(a, c) \in Seq(Grant) /\ Len(Granted(a, c)) <= MaxGrants
<1> DEFINE g == [for |-> a, policy |-> c.policy, live |-> TRUE]
<1>1. g \in Grant
  BY DEF Grant, ActionIntent
<1>2. Append(grants, g) \in Seq(Grant) /\ Len(Append(grants, g)) = Len(grants) + 1
  BY <1>1, AppendProperties
<1>3. Issued(a, c) = Append(grants, g)
  BY DEF Issued
<1>4. Len(grants) \in Nat /\ MaxGrants \in Nat
  BY GatewayBounds, LenProperties
<1> HIDE DEF g
<1>5. Len(grants) # MaxGrants => Len(grants) + 1 <= MaxGrants
  BY <1>4
<1>6. QED
  BY <1>2, <1>3, <1>5 DEF Granted

LEMMA InvalidatedType ==
  ASSUME grants \in Seq(Grant), NEW a
  PROVE  Invalidated(a) \in Seq(Grant) /\ Len(Invalidated(a)) = Len(grants)
<1>1. Len(grants) \in Nat /\ \A g \in 1..Len(grants) : grants[g] \in Grant
  BY LenProperties, ElementOfSeq
<1>2. Invalidated(a) \in [1..Len(grants) -> Grant]
  BY <1>1 DEF Invalidated, Grant
<1>3. QED
  BY <1>1, <1>2, SeqDef, LenProperties

LEMMA WithdrawnGrant ==
  ASSUME grants \in Seq(Grant), NEW g
  PROVE  /\ [grants EXCEPT ![g].live = FALSE] \in Seq(Grant)
         /\ Len([grants EXCEPT ![g].live = FALSE]) = Len(grants)
<1>1. Len(grants) \in Nat /\ \A h \in 1..Len(grants) : grants[h] \in Grant
  BY LenProperties, ElementOfSeq
<1>2. grants \in [1..Len(grants) -> Grant]
  BY LenProperties
<1>3. [grants EXCEPT ![g].live = FALSE] \in [1..Len(grants) -> Grant]
  BY <1>1, <1>2 DEF Grant
<1>4. QED
  BY <1>1, <1>3, SeqDef, LenProperties

(* One field of a record changes. *)

LEMMA ItemUpdates ==
  ASSUME NEW f \in [Actions -> InboxItem], NEW i \in Actions
  PROVE  /\ \A status \in Statuses : [f EXCEPT ![i].status = status] \in [Actions -> InboxItem]
         /\ [f EXCEPT ![i].claimed = TRUE] \in [Actions -> InboxItem]
         /\ [f EXCEPT ![i].resumed = TRUE] \in [Actions -> InboxItem]
BY DEF InboxItem

LEMMA BranchMoves ==
  ASSUME NEW b \in Branch, NEW s \in BranchStates, NEW i \in 0..MaxActions
  PROVE  [b EXCEPT !.state = s, !.waitsFor = i] \in Branch
BY DEF Branch

LEMMA BranchResumes ==
  ASSUME NEW b \in Branch, NEW i \in Actions
  PROVE  [b EXCEPT !.state = "queued", !.waitsFor = NoAction, !.resumedBy = @ \cup {i}] \in Branch
<1>1. "queued" \in BranchStates /\ NoAction \in 0..MaxActions /\ b.resumedBy \cup {i} \in SUBSET Actions
  BY InboxBounds DEF Branch, BranchStates, NoAction
<1>2. QED
  BY <1>1 DEF Branch

LEMMA BranchLeased ==
  ASSUME NEW b \in Branch, b.attempt < MaxBranchAttempts
  PROVE  [b EXCEPT !.state = "running", !.attempt = @ + 1] \in Branch
<1>1. "running" \in BranchStates /\ b.attempt + 1 \in 0..MaxBranchAttempts
  BY InboxBounds DEF Branch, BranchStates
<1>2. QED
  BY <1>1 DEF Branch

LEMMA FileUpdates ==
  ASSUME NEW f \in [Actions -> ActionIntent], NEW a, NEW s \in ActionStates
  PROVE  [f EXCEPT ![a].state = s] \in [Actions -> ActionIntent]
BY DEF ActionIntent

LEMMA WorkerUpdates ==
  ASSUME NEW f \in [Workers -> Worker], NEW w \in Workers, NEW label \in Labels
  PROVE  /\ \A b \in BOOLEAN :
              [f EXCEPT ![w].pc = label, ![w].rechecked = b] \in [Workers -> Worker]
         /\ \A g \in 0..MaxGrants :
              /\ [f EXCEPT ![w].pc = label, ![w].grant = g] \in [Workers -> Worker]
              /\ [f EXCEPT ![w].pc = label, ![w].grant = g, ![w].rechecked = FALSE]
                    \in [Workers -> Worker]
         /\ \A r \in {"none", "ok", "error", "invalid"} :
              [f EXCEPT ![w].pc = label, ![w].result = r] \in [Workers -> Worker]
<1>1. f[w] \in Worker
  OBVIOUS
<1>2. /\ \A b \in BOOLEAN : [f[w] EXCEPT !.pc = label, !.rechecked = b] \in Worker
      /\ \A g \in 0..MaxGrants :
           /\ [f[w] EXCEPT !.pc = label, !.grant = g] \in Worker
           /\ [f[w] EXCEPT !.pc = label, !.grant = g, !.rechecked = FALSE] \in Worker
      /\ \A r \in {"none", "ok", "error", "invalid"} : [f[w] EXCEPT !.pc = label, !.result = r] \in Worker
  BY <1>1 DEF Worker
<1>3. QED
  BY <1>2
LEMMA ConstantsType ==
  /\ NoAction \in 0..MaxActions /\ Actions \subseteq 0..MaxActions
  /\ {"waiting", "cancelled"} \subseteq BranchStates
BY InboxBounds DEF NoAction, Actions, BranchStates

LEMMA RestingType == Resting \in Worker /\ Absent \in ActionIntent
BY GatewayBounds, InboxBounds DEF Resting, Worker, Absent, ActionIntent, ActionStates, Labels,
     NoAction

LEMMA MovesType ==
  ASSUME TypeOK, NEW w \in Workers, NEW c \in ActionIntent, NEW label \in Labels
  PROVE  /\ Goto(w, label) => worker' \in [Workers -> Worker]
         /\ Return(w) => worker' \in [Workers -> Worker]
         /\ SaveAndGoto(w, c, label) =>
              worker' \in [Workers -> Worker] /\ action' \in [Actions -> ActionIntent]
         /\ SaveAndReturn(w, c) =>
              worker' \in [Workers -> Worker] /\ action' \in [Actions -> ActionIntent]
<1> USE DEF TypeOK
<1>1. worker[w] \in Worker
  OBVIOUS
<1>2. /\ [worker[w] EXCEPT !.pc = label] \in Worker
      /\ [worker[w] EXCEPT !.copy = c, !.pc = label, !.result = "none"] \in Worker
  BY <1>1 DEF Worker
<1>3. Goto(w, label) => worker' = [worker EXCEPT ![w] = [worker[w] EXCEPT !.pc = label]]
  BY DEF Goto
<1>4. SaveAndGoto(w, c, label) =>
        worker' = [worker EXCEPT ![w] = [worker[w] EXCEPT !.copy = c, !.pc = label, !.result = "none"]]
  BY DEF SaveAndGoto
<1>5. QED
  BY <1>2, <1>3, <1>4, RestingType DEF Return, SaveAndGoto, SaveAndReturn

LEMMA CloseType ==
  ASSUME TypeOK, NEW a \in Actions, NEW status
  PROVE  Closed(a, status) \in [Actions -> ActionIntent] /\ FreedKey(a) \in 0..MaxActions
<1>1. action[a] \in ActionIntent /\ ClosedAs(status) \in ActionStates
  BY DEF TypeOK, ClosedAs, ActionStates
<1>2. [action[a] EXCEPT !.state = ClosedAs(status), !.tried = FALSE] \in ActionIntent
  BY <1>1 DEF ActionIntent
<1>3. Closed(a, status) =
        [action EXCEPT ![a] = [action[a] EXCEPT !.state = ClosedAs(status), !.tried = FALSE]]
  BY DEF Closed
<1>4. QED
  BY <1>2, <1>3, ConstantsType DEF FreedKey, TypeOK

LEMMA InboxStepType ==
  ASSUME TypeOK,
         \/ \E i \in Actions : InboxStep(i)
         \/ BranchStep
  PROVE  TypeOK'
<1> USE InboxBounds
<1>1. InboxTypeOK'
  <2> USE DEF TypeOK, InboxTypeOK
  <2>1. ASSUME NEW i \in Actions, InboxStep(i)
        PROVE  InboxTypeOK'
    <3>1. CASE Respond(i) \/ ExpireItem(i) \/ CancelItem(i)
      <4>1. PICK status \in Statuses : item' = [item EXCEPT ![i].status = status]
        BY <3>1 DEF Respond, ExpireItem, CancelItem, Settle, Statuses, Refusals
      <4>2. item' \in [Actions -> InboxItem]
        BY <4>1, ItemUpdates
      <4>3. QED
        BY <3>1, <4>2 DEF Respond, ExpireItem, CancelItem, Settle, Continue
    <3>2. CASE ReconcileAnswer(i) \/ ReplayResponse(i) \/ AnswererStops(i)
      BY <3>2 DEF ReconcileAnswer, ReplayResponse, AnswererStops, Continue
    <3>3. CASE RestoreWait(i)
      <4>1. branch' \in Branch
        <5>1. branch' = [branch EXCEPT !.state = "waiting", !.waitsFor = i]
          BY <3>3 DEF RestoreWait, WaitFor
        <5>2. QED
          BY <5>1, ConstantsType, BranchMoves
      <4>2. QED
        BY <3>3, <4>1 DEF RestoreWait
    <3>4. CASE ResumeBranch(i)
      <4>1. branch' \in Branch
        <5>1. \/ branch' = branch
              \/ branch' = [branch EXCEPT !.state = "queued", !.waitsFor = NoAction,
                                          !.resumedBy = @ \cup {i}]
          BY <3>4 DEF ResumeBranch
        <5>2. QED
          <6>1. [branch EXCEPT !.state = "queued", !.waitsFor = NoAction,
                               !.resumedBy = @ \cup {i}] \in Branch
            BY BranchResumes
          <6>2. QED
            BY <5>1, <6>1
      <4>2. QED
        BY <3>4, <4>1 DEF ResumeBranch, Continue
    <3>5. CASE CompleteResume(i)
      BY <3>5, ItemUpdates DEF CompleteResume, Continue
    <3>6. CASE Lapse(i)
      BY <3>6 DEF Lapse
    <3>7. QED
      BY <2>1, <3>1, <3>2, <3>3, <3>4, <3>5, <3>6 DEF InboxStep
  <2>2. CASE BranchStep
    <3>1. branch' \in Branch
      <4>1. \/ /\ branch.attempt < MaxBranchAttempts
               /\ branch' = [branch EXCEPT !.state = "running", !.attempt = @ + 1]
            \/ branch' = [branch EXCEPT !.state = "cancelled", !.waitsFor = NoAction]
        BY <2>2 DEF BranchStep, LeaseBranch, CancelBranch
      <4>2. QED
        <5>1. branch.attempt < MaxBranchAttempts =>
                [branch EXCEPT !.state = "running", !.attempt = @ + 1] \in Branch
          BY BranchLeased
        <5>2. [branch EXCEPT !.state = "cancelled", !.waitsFor = NoAction] \in Branch
          BY ConstantsType, BranchMoves
        <5>3. QED
          BY <4>1, <5>1, <5>2
    <3>2. QED
      BY <2>2, <3>1 DEF BranchStep, LeaseBranch, CancelBranch
  <2>3. QED
    BY <2>1, <2>2
<1>2. UNCHANGED gatewayVars
  BY DEF InboxStep, BranchStep
<1>3. QED
  BY <1>1, <1>2 DEF TypeOK, gatewayVars

\* The steps of a worker that issue no grant.
LEMMA WorkerStepType ==
  ASSUME TypeOK, Inv, NEW w \in Workers,
         \/ ReadAction(w) \/ AdoptPrior(w) \/ CreateAction(w) \/ Decide(w) \/ AskHuman(w)
         \/ SuspendBranch(w) \/ LinkItem(w) \/ WithdrawOld(w) \/ CancelOld(w)
         \/ ReleaseKey(w) \/ ReportPrior(w) \/ ExpireAction(w) \/ AskLate(w)
         \/ StillOpen(w) \/ Refused(w) \/ Consume(w) \/ Stamp(w) \/ FindDecision(w)
         \/ ClaimBranch(w) \/ SpendDecision(w) \/ ClaimExecution(w) \/ Perform(w) \/ RecordOutcome(w)
         \/ InvalidateAction(w) \/ VerifyOutcome(w) \/ Crash(w)
  PROVE  TypeOK'
<1> USE InboxBounds, GatewayBounds
<1>1. worker[w] \in Worker /\ Copy(w) \in ActionIntent /\ Id(w) \in 0..MaxActions
  BY DEF TypeOK, Worker, Copy, Id
<1>2. \A st \in ActionStates, b \in BOOLEAN :
        /\ [Copy(w) EXCEPT !.state = st] \in ActionIntent
        /\ [Copy(w) EXCEPT !.linked = b] \in ActionIntent
  BY <1>1 DEF ActionIntent
<1>3. CASE ReadAction(w) \/ AdoptPrior(w)
  <2>1. key # NoAction => action[key] \in ActionIntent
    BY DEF TypeOK, Actions, NoAction
  <2>2. /\ [Resting EXCEPT !.pc = "create"] \in Worker
        /\ key # NoAction =>
             /\ [Resting EXCEPT !.pc = "check", !.id = key, !.copy = action[key]] \in Worker
             /\ [worker[w] EXCEPT !.pc = "check", !.id = key, !.copy = action[key]] \in Worker
    BY <1>1, <2>1, RestingType DEF Worker, Labels, TypeOK
  <2>3. worker' \in [Workers -> Worker]
    BY <1>3, <2>2, RestingType DEF ReadAction, AdoptPrior, Return, TypeOK
  <2>4. QED
    BY <1>3, <2>3 DEF ReadAction, AdoptPrior, TypeOK, inboxVars, InboxTypeOK
<1>4. CASE CreateAction(w)
  <2> DEFINE c == [Absent EXCEPT !.state = "proposed"]
  <2>1. c \in ActionIntent
    BY RestingType DEF ActionIntent, ActionStates
  <2>2. PICK a \in Actions :
          /\ action' = [action EXCEPT ![a] = c]
          /\ worker' = [worker EXCEPT ![w].pc = "decide", ![w].id = a, ![w].copy = c]
          /\ key' = a
    BY <1>4 DEF CreateAction
  <2> HIDE DEF c
  <2>3. [worker[w] EXCEPT !.pc = "decide", !.id = a, !.copy = c] \in Worker /\ a \in 0..MaxActions
    <3>1. a \in 0..MaxActions /\ "decide" \in Labels
      BY ConstantsType DEF Labels
    <3>2. QED
      BY <1>1, <2>1, <3>1 DEF Worker
  <2>4. worker' \in [Workers -> Worker] /\ action' \in [Actions -> ActionIntent]
    BY <2>1, <2>2, <2>3 DEF TypeOK
  <2>5. QED
    BY <1>4, <2>2, <2>3, <2>4 DEF CreateAction, TypeOK, inboxVars, InboxTypeOK
<1>5. CASE Decide(w)
  <2> DEFINE c == [Copy(w) EXCEPT !.policy = policy]
  <2>1. /\ [c EXCEPT !.state = "failed"] \in ActionIntent
        /\ [c EXCEPT !.state = "approved"] \in ActionIntent
        /\ [c EXCEPT !.state = "awaiting_approval"] \in ActionIntent
    <3>1. policy \in 0..Len(Outcomes)
      BY LenProperties DEF TypeOK
    <3>2. QED
      BY <1>1, <3>1 DEF ActionIntent, ActionStates
  <2>2. Outcomes[policy] \in {"allow", "require_approval", "deny"}
    BY OutcomeType DEF TypeOK
  <2>3. \/ SaveAndReturn(w, [c EXCEPT !.state = "failed"])
        \/ SaveAndGoto(w, [c EXCEPT !.state = "approved"], "check")
        \/ SaveAndGoto(w, [c EXCEPT !.state = "awaiting_approval"], "ask")
    BY <1>5, <2>2 DEF Decide
  <2> HIDE DEF c
  <2>4. worker' \in [Workers -> Worker] /\ action' \in [Actions -> ActionIntent]
    BY <2>1, <2>3, MovesType DEF Labels
  <2>5. QED
    BY <1>5, <2>4 DEF Decide, TypeOK, inboxVars, InboxTypeOK
<1>6. CASE AskHuman(w)
  <2>1. worker' \in [Workers -> Worker]
    BY <1>6, <1>1, MovesType DEF AskHuman, Labels
  <2>2. item' \in [Actions -> InboxItem]
    <3>1. [Unasked EXCEPT !.status = "pending", !.attempt = branch.attempt] \in InboxItem
      BY DEF Unasked, InboxItem, Statuses, UNRESOLVED, TypeOK, InboxTypeOK, Branch
    <3>2. QED
      BY <1>6, <3>1 DEF AskHuman, CreateItem, TypeOK, InboxTypeOK
  <2>3. QED
    BY <1>6, <2>1, <2>2 DEF AskHuman, TypeOK, InboxTypeOK
<1>7. CASE SuspendBranch(w)
  <2>1. worker' \in [Workers -> Worker]
    BY <1>7, <1>1, MovesType DEF SuspendBranch, Labels
  <2>2. branch' \in Branch
    <3>1. \/ branch' = branch
          \/ branch' = [branch EXCEPT !.state = "waiting", !.waitsFor = Id(w)]
      BY <1>7 DEF SuspendBranch, WaitFor
    <3>2. QED
      <4>1. branch \in Branch
        BY DEF TypeOK, InboxTypeOK
      <4>2. [branch EXCEPT !.state = "waiting", !.waitsFor = Id(w)] \in Branch
        BY <1>1, <4>1, ConstantsType, BranchMoves
      <4>3. QED
        BY <3>1, <4>1, <4>2
  <2>3. QED
    BY <1>7, <2>1, <2>2 DEF SuspendBranch, TypeOK, InboxTypeOK
<1>8. CASE LinkItem(w) \/ ExpireAction(w) \/ Stamp(w) \/ Refused(w) \/ StillOpen(w)
  <2>1. worker' \in [Workers -> Worker] /\ action' \in [Actions -> ActionIntent]
    BY <1>8, <1>1, <1>2, MovesType DEF LinkItem, ExpireAction, Stamp, Refused, ClosedAs,
       StillOpen, Labels, ActionStates, TypeOK
  <2>2. QED
    BY <1>8, <2>1 DEF LinkItem, ExpireAction, Stamp, Refused, StillOpen, TypeOK, inboxVars,
       InboxTypeOK
<1>9. CASE WithdrawOld(w) \/ InvalidateAction(w)
  <2>1. PICK label \in Labels : Withdraw(w, label)
    BY <1>9 DEF WithdrawOld, InvalidateAction, Labels
  <2>2. grants' \in Seq(Grant) /\ Len(grants') = Len(grants)
    BY <2>1, InvalidatedType DEF Withdraw, TypeOK
  <2>3. item' \in [Actions -> InboxItem]
    BY <2>1 DEF Withdraw, Superseded, InboxItem, Statuses, Refusals, TypeOK, InboxTypeOK
  <2>4. action' \in [Actions -> ActionIntent] /\ key' \in 0..MaxActions
    <3>1. Id(w) \in Actions
      BY <1>9 DEF WithdrawOld, InvalidateAction, PolicyChanged, Inv, WorkerInv, Holds, In
    <3>2. /\ action' \in {action, Closed(Id(w), "superseded")}
          /\ key' \in {key, FreedKey(Id(w))}
      BY <2>1 DEF Withdraw
    <3>3. QED
      BY <3>1, <3>2, CloseType DEF TypeOK
  <2>5. [worker[w] EXCEPT !.pc = label] \in Worker
    BY <1>1 DEF Worker
  <2>6. worker' \in [Workers -> Worker]
    BY <2>1, <2>5, RestingType DEF Withdraw, TypeOK
  <2>7. QED
    BY <1>9, <2>2, <2>3, <2>4, <2>6 DEF WithdrawOld, InvalidateAction, TypeOK, InboxTypeOK
<1>10. CASE CancelOld(w) \/ AskLate(w)
  <2>1. [Copy(w) EXCEPT !.state = "cancelled"] \in ActionIntent
    BY <1>2 DEF ActionStates
  <2>2. worker' \in [Workers -> Worker]
    <3>1. PICK label \in Labels, b \in BOOLEAN :
            worker' = [worker EXCEPT ![w].pc = label, ![w].rechecked = b]
      <4>1. (worker[w].rechecked \/ policy < Len(Outcomes)) \in BOOLEAN
        BY <1>1 DEF Worker
      <4>2. CASE CancelOld(w)
        BY <4>2 DEF CancelOld, Labels
      <4>3. CASE AskLate(w)
        <5>1. worker' = [worker EXCEPT ![w].pc = "ask",
                ![w].rechecked = worker[w].rechecked \/ policy < Len(Outcomes)]
          BY <4>3 DEF AskLate, TypeOK
        <5>2. "ask" \in Labels
          BY DEF Labels
        <5>3. QED
          BY <4>1, <5>1, <5>2
      <4>4. QED
        BY <1>10, <4>2, <4>3
    <3>2. QED
      BY <3>1, WorkerUpdates DEF TypeOK
  <2>3. QED
    BY <1>10, <2>1, <2>2 DEF CancelOld, AskLate, TypeOK, inboxVars, InboxTypeOK
<1>11. CASE ReleaseKey(w) \/ ReportPrior(w) \/ Crash(w)
  <2>1. worker' \in [Workers -> Worker]
    BY <1>11, <1>1, MovesType DEF ReleaseKey, ReportPrior, Crash, Labels
  <2>2. QED
    BY <1>11, <2>1 DEF ReleaseKey, FreedKey, ReportPrior, Crash, NoAction, TypeOK, inboxVars, InboxTypeOK
<1>12. CASE Consume(w)
  <2>1. worker' \in [Workers -> Worker]
    <3>1. "stamp" \in Labels /\ 0 \in 0..MaxGrants
      BY DEF Labels
    <3>2. worker' = [worker EXCEPT ![w].pc = "stamp", ![w].grant = 0] \/ Return(w)
      BY <1>12 DEF Consume
    <3>3. worker \in [Workers -> Worker]
      BY DEF TypeOK
    <3>4. [worker EXCEPT ![w].pc = "stamp", ![w].grant = 0] \in [Workers -> Worker]
      BY <3>1, <3>3, WorkerUpdates
    <3>5. QED
      BY <3>2, <3>3, <3>4, RestingType DEF Return
  <2>2. grants' \in Seq(Grant) /\ Len(grants') = Len(grants)
    BY <1>12, WithdrawnGrant DEF Consume, TypeOK
  <2>3. QED
    BY <1>12, <2>1, <2>2 DEF Consume, TypeOK, inboxVars, InboxTypeOK
<1>13. CASE FindDecision(w) \/ ClaimBranch(w) \/ SpendDecision(w)
  <2>1. worker' \in [Workers -> Worker]
    BY <1>13, <1>1, MovesType DEF FindDecision, ClaimBranch, SpendDecision, Labels
  <2>2. item' \in [Actions -> InboxItem]
    <3>1. SpendDecision(w) => Id(w) \in Actions
      BY DEF SpendDecision, Inv, WorkerInv, Holds, In
    <3>2. \/ item' = item
          \/ Id(w) \in Actions /\ item' = [item EXCEPT ![Id(w)].claimed = TRUE]
      BY <1>13, <3>1 DEF FindDecision, ClaimBranch, SpendDecision, inboxVars
    <3>3. item \in [Actions -> InboxItem]
      BY DEF TypeOK, InboxTypeOK
    <3>4. Id(w) \in Actions => [item EXCEPT ![Id(w)].claimed = TRUE] \in [Actions -> InboxItem]
      BY <3>3, ItemUpdates
    <3>5. QED
      BY <3>2, <3>3, <3>4
  <2>3. QED
    BY <1>13, <2>1, <2>2 DEF FindDecision, ClaimBranch, SpendDecision, TypeOK, inboxVars,
       InboxTypeOK
<1>14. CASE ClaimExecution(w)
  <2> DEFINE c == [action[Id(w)] EXCEPT !.state = "executing", !.tried = TRUE]
  <2>1. Id(w) \in Actions
    BY <1>14 DEF ClaimExecution, Inv, WorkerInv, Holds, In
  <2>2. c \in ActionIntent
    BY <2>1 DEF ActionIntent, ActionStates, TypeOK
  <2>3. SaveAndGoto(w, c, "effect") \/ (Return(w) /\ UNCHANGED action)
    BY <1>14 DEF ClaimExecution
  <2> HIDE DEF c
  <2>4. worker' \in [Workers -> Worker] /\ action' \in [Actions -> ActionIntent]
    BY <2>2, <2>3, <1>1, MovesType DEF Labels, TypeOK
  <2>5. QED
    BY <1>14, <2>4 DEF ClaimExecution, TypeOK, inboxVars, InboxTypeOK
<1>15. CASE Perform(w)
  <2>1. worker' \in [Workers -> Worker]
    <3>1. PICK r \in {"ok", "error", "invalid"} :
            worker' = [worker EXCEPT ![w].pc = "record", ![w].result = r]
      BY <1>15 DEF Perform
    <3>2. "record" \in Labels
      BY DEF Labels
    <3>3. QED
      BY <3>1, <3>2, WorkerUpdates DEF TypeOK
  <2>2. effects' \in [Actions -> Nat]
    <3>1. Id(w) \in Actions
      BY <1>15 DEF Perform, Inv, WorkerInv, Holds, In
    <3>2. QED
      BY <1>15, <3>1 DEF Perform, TypeOK
  <2>3. QED
    BY <1>15, <2>1, <2>2 DEF Perform, TypeOK, inboxVars, InboxTypeOK
<1>16. CASE RecordOutcome(w)
  <2>1. worker[w].result \in {"ok", "error", "invalid"}
    BY <1>1, <1>16 DEF RecordOutcome, Inv, WorkerInv, Holds, In, Worker
  <2>2. \/ SaveAndGoto(w, [Copy(w) EXCEPT !.state = "verifying"], "verify")
        \/ SaveAndReturn(w, [Copy(w) EXCEPT !.state = "failed"])
        \/ SaveAndGoto(w, [Copy(w) EXCEPT !.state = "failed"], "invalidate")
    BY <1>16, <2>1 DEF RecordOutcome
  <2>3. worker' \in [Workers -> Worker] /\ action' \in [Actions -> ActionIntent]
    BY <1>2, <2>2, MovesType DEF Labels, ActionStates
  <2>4. QED
    BY <1>16, <2>3 DEF RecordOutcome, TypeOK, inboxVars, InboxTypeOK
<1>17. CASE VerifyOutcome(w)
  <2>1. worker' \in [Workers -> Worker] /\ action' \in [Actions -> ActionIntent]
    BY <1>2, <1>17, MovesType DEF VerifyOutcome, ActionStates, Labels
  <2>2. verified' \subseteq Actions
    BY <1>17 DEF VerifyOutcome, Inv, WorkerInv, Holds, In, TypeOK
  <2>3. QED
    BY <1>17, <2>1, <2>2 DEF VerifyOutcome, TypeOK, inboxVars, InboxTypeOK
<1>18. QED
  BY <1>3, <1>4, <1>5, <1>6, <1>7, <1>8, <1>9, <1>10, <1>11, <1>12, <1>13, <1>14, <1>15,
     <1>16, <1>17

LEMMA UseDecisionType ==
  ASSUME TypeOK, Inv, NEW w \in Workers, UseDecision(w)
  PROVE  TypeOK'
<1> USE InboxBounds, GatewayBounds
<1>1. /\ Id(w) \in Actions /\ Copy(w) \in ActionIntent /\ Copy(w).policy # 0
      /\ worker[w] \in Worker
  BY DEF UseDecision, Gate, Pending, Checked, Inv, WorkerInv, Holds, In, TypeOK, Worker, Copy,
     Id, ActionIntent
<1>2. CASE ~Runnable(Id(w))
  <2>1. worker' \in [Workers -> Worker]
    BY <1>1, <1>2, RestingType DEF UseDecision, Return, TypeOK
  <2>2. QED
    BY <1>2, <2>1 DEF UseDecision, TypeOK, inboxVars, InboxTypeOK
<1>3. CASE Runnable(Id(w))
  <2>1. PICK g \in 1..MaxGrants : /\ GrantFor(Id(w), Copy(w), g)
                                  /\ worker' = [worker EXCEPT ![w].pc = "consume", ![w].grant = g,
                                                              ![w].rechecked = FALSE]
    BY <1>3 DEF UseDecision
  <2>2. worker' \in [Workers -> Worker]
    <3>1. "consume" \in Labels /\ g \in 0..MaxGrants
      BY DEF Labels
    <3>2. QED
      BY <2>1, <3>1, WorkerUpdates DEF TypeOK
  <2>3. Len(grants) \in Nat
    BY LenProperties DEF TypeOK
  <2>4. grants' \in Seq(Grant) /\ Len(grants') <= MaxGrants
    BY <1>1, <2>1, <2>3, GrantsType DEF GrantFor, TypeOK
  <2>5. QED
    BY <1>3, <2>2, <2>4 DEF UseDecision, TypeOK, inboxVars, InboxTypeOK
<1>4. QED
  BY <1>2, <1>3

\* The other entry points.
LEMMA EntryType ==
  ASSUME TypeOK, Inv, NEW a \in Actions,
         \/ ResumeVerification(a) \/ HandleAnswer(a) \/ CloseAnswered(a) \/ Regrant(a)
         \/ ChangePolicy
  PROVE  TypeOK'
<1> USE InboxBounds, GatewayBounds
<1>1. action[a] \in ActionIntent
  BY DEF TypeOK
<1>2. CASE ResumeVerification(a)
  <2>1. action' \in [Actions -> ActionIntent]
    <3>1. PICK s \in ActionStates : action' = [action EXCEPT ![a].state = s]
      BY <1>2 DEF ResumeVerification, ActionStates
    <3>2. QED
      BY <3>1, FileUpdates DEF TypeOK
  <2>2. QED
    BY <1>2, <2>1 DEF ResumeVerification, TypeOK, inboxVars, InboxTypeOK
<1>3. CASE HandleAnswer(a) \/ CloseAnswered(a)
  <2>1. grants' \in Seq(Grant) /\ Len(grants') <= MaxGrants
    <3>1. StillWaits(a) => action[a].policy # 0
      BY DEF StillWaits, Inv, ActionInv, Human
    <3>2. QED
      BY <1>1, <1>3, <3>1, GrantsType, InvalidatedType DEF HandleAnswer, CloseAnswered, TypeOK
  <2>2. action' \in [Actions -> ActionIntent] /\ key' \in 0..MaxActions
    BY <1>3, CloseType DEF HandleAnswer, CloseAnswered, TypeOK
  <2>3. answering' \in [Actions -> {"idle", "handle", "close", "resume", "complete"}]
    <3>1. AfterHandler(a) \in {"idle", "resume"}
      BY DEF AfterHandler
    <3>2. QED
      BY <1>3, <3>1 DEF HandleAnswer, CloseAnswered, Continue, TypeOK, InboxTypeOK
  <2>4. QED
    BY <1>3, <2>1, <2>2, <2>3 DEF HandleAnswer, CloseAnswered, TypeOK, InboxTypeOK
<1>4. CASE Regrant(a)
  BY <1>1, <1>4, GrantsType DEF Regrant, TypeOK, inboxVars, InboxTypeOK
<1>5. CASE ChangePolicy
  <2>1. Len(Outcomes) \in Nat
    BY LenProperties
  <2>2. policy' \in 1..Len(Outcomes)
    BY <1>5, <2>1 DEF ChangePolicy, TypeOK
  <2>3. QED
    BY <1>5, <2>2 DEF ChangePolicy, TypeOK, inboxVars, InboxTypeOK
<1>6. QED
  BY <1>2, <1>3, <1>4, <1>5

LEMMA TypeStep ==
  ASSUME TypeOK, Inv, [Next]_vars
  PROVE  TypeOK'
<1>1. CASE \E w \in Workers : WorkerStep(w)
  BY <1>1, WorkerStepType, UseDecisionType DEF WorkerStep
<1>2. CASE \E i \in Actions : \/ InboxStep(i) \/ HandleAnswer(i) \/ CloseAnswered(i)
                             \/ Regrant(i) \/ ResumeVerification(i)
  BY <1>2, InboxStepType, EntryType
<1>3. CASE BranchStep
  BY <1>3, InboxStepType
<1>4. CASE ChangePolicy
  <2>1. 1 \in Actions
    BY InboxBounds DEF Actions
  <2>2. QED
    BY <1>4, <2>1, EntryType
<1>5. CASE UNCHANGED vars
  BY <1>5 DEF vars, TypeOK, InboxTypeOK
<1>6. QED
  BY <1>1, <1>2, <1>3, <1>4, <1>5 DEF Next

----------------------------------------------------------------------------
(* The steps that keep what a person and a policy decided: no effect begins, no claim *)
(* is taken, and a file changes its state only, to approved only when a person is     *)
(* asked.                                                                             *)

SteadyFile(b) ==
  \/ action'[b] = action[b]
  \/ /\ action[b].policy # 0 /\ action'[b].policy = action[b].policy
     /\ action'[b].state # "absent"
     /\ action'[b].state \in {"awaiting_approval", "approved"} => Human(action[b].policy)

SteadyItem(b) ==
  /\ item'[b].status = "none" <=> item[b].status = "none"
  /\ item'[b].claimed = item[b].claimed /\ item'[b].attempt = item[b].attempt

Steady ==
  /\ effects' = effects
  /\ \A b \in Actions : SteadyFile(b) /\ SteadyItem(b)

LEMMA SteadyActions ==
  ASSUME TypeOK, Inv, Steady, NEW a \in Actions
  PROVE  ActionInv(a)'
<1>1. ActionInv(a) /\ SteadyFile(a) /\ SteadyItem(a)
  BY DEF Inv, Steady
<1>2. QED
  BY <1>1 DEF Steady, SteadyFile, SteadyItem, ActionInv, Bound, Human

LEMMA SteadyWorker ==
  ASSUME TypeOK, Inv, Steady, NEW v \in Workers, worker'[v] = worker[v]
  PROVE  WorkerInv(v)'
<1>1. WorkerInv(v)
  BY DEF Inv
<1>2. CASE ~Holds(v)
  BY <1>2 DEF WorkerInv, Holds, In
<1>3. CASE Holds(v)
  <2>1. Id(v) \in Actions
    BY <1>1, <1>3 DEF WorkerInv
  <2>2. SteadyFile(Id(v)) /\ SteadyItem(Id(v))
    BY <2>1 DEF Steady
  <2>3. ActionInv(Id(v))
    BY <2>1 DEF Inv
  <2>4. QED
    BY <1>1, <1>3, <2>1, <2>2, <2>3 DEF Steady, SteadyFile, SteadyItem, WorkerInv, ActionInv,
       Holds, In, Id, Copy, Bound, Human
<1>4. QED
  BY <1>2, <1>3

\* A step of w alone that does not take it to a claim.
LEMMA SteadyStep ==
  ASSUME TypeOK, Inv, Steady, NEW w \in Workers,
         \A v \in Workers : v # w => worker'[v] = worker[v],
         WorkerInv(w)', worker'[w].pc \notin {"decide", "begin", "effect"}
  PROVE  Inv'
<1>1. \A a \in Actions : ActionInv(a)'
  BY SteadyActions
<1>2. \A v \in Workers : WorkerInv(v)'
  BY SteadyWorker
<1>3. ASSUME NEW u \in Workers, NEW v \in Workers
      PROVE  Apart(u, v)'
  <2>1. CASE u = w \/ v = w
    BY <2>1 DEF Apart, In
  <2>2. CASE u # w /\ v # w
    <3>1. Apart(u, v)
      BY DEF Inv
    <3>2. QED
      BY <2>2, <3>1 DEF Apart, Holds, In, Id, Copy, Human
  <2>3. QED
    BY <2>1, <2>2
<1>4. QED
  BY <1>1, <1>2, <1>3 DEF Inv

LEMMA SteadyEnvironment ==
  ASSUME TypeOK, Inv, Steady, worker' = worker
  PROVE  Inv'
<1>1. \A a \in Actions : ActionInv(a)'
  BY SteadyActions
<1>2. \A v \in Workers : WorkerInv(v)'
  BY SteadyWorker
<1>3. \A u, v \in Workers : Apart(u, v)'
  BY DEF Inv, Apart, Holds, In, Id, Copy, Human
<1>4. QED
  BY <1>1, <1>2, <1>3 DEF Inv

\* A save of the worker's copy that leaves the decision alone.
LEMMA SavedStep ==
  ASSUME TypeOK, Inv, NEW w \in Workers, Holds(w), Copy(w).policy # 0,
         NEW c \in ActionIntent, NEW label \in Labels,
         c.policy = Copy(w).policy, c.state # "absent",
         c.state \in {"awaiting_approval", "approved"} => Human(Copy(w).policy),
         UNCHANGED <<item, effects>>,
         label \notin {"decide", "fence", "spend", "begin", "effect", "record"},
         label \in {"ask", "suspend", "link", "consume", "stamp"} =>
           c.state = "awaiting_approval",
         SaveAndGoto(w, c, label) \/ SaveAndReturn(w, c)
  PROVE  Inv'
<1>1. WorkerInv(w) /\ Id(w) \in Actions /\ action[Id(w)].policy = Copy(w).policy
  BY DEF Inv, WorkerInv
<1>2. action' = [action EXCEPT ![Id(w)] = c]
  BY DEF SaveAndGoto, SaveAndReturn
<1>3. action \in [Actions -> ActionIntent] /\ worker \in [Workers -> Worker]
  BY DEF TypeOK
<1>4. ASSUME NEW b \in Actions
      PROVE  SteadyFile(b)
  <2>1. CASE b = Id(w)
    BY <1>1, <1>2, <1>3, <2>1 DEF SteadyFile
  <2>2. CASE b # Id(w)
    BY <1>2, <1>3, <2>2 DEF SteadyFile
  <2>3. QED
    BY <2>1, <2>2
<1>5. Steady
  BY <1>4 DEF Steady, SteadyItem
<1>6. \/ worker'[w] = Resting
      \/ worker'[w].copy = c /\ worker'[w].id = Id(w) /\ worker'[w].pc = label
  BY <1>3 DEF SaveAndGoto, SaveAndReturn, Return, Id, Worker
<1>7. action'[Id(w)].policy = c.policy
  BY <1>1, <1>2, <1>3
<1>8. WorkerInv(w)'
  BY <1>1, <1>6, <1>7 DEF WorkerInv, Holds, In, Id, Copy, Human, Resting
<1>9. worker'[w].pc \notin {"decide", "begin", "effect"}
  BY <1>6 DEF Resting
<1>10. \A v \in Workers : v # w => worker'[v] = worker[v]
  BY <1>3 DEF SaveAndGoto, SaveAndReturn, Return
<1>11. QED
  BY <1>5, <1>8, <1>9, <1>10, SteadyStep

LEMMA ReturnStep ==
  ASSUME TypeOK, Inv, Steady, NEW w \in Workers, Return(w)
  PROVE  Inv'
<1>1. worker'[w] = Resting /\ \A v \in Workers : v # w => worker'[v] = worker[v]
  BY DEF Return, TypeOK
<1>2. WorkerInv(w)' /\ worker'[w].pc = "idle"
  BY <1>1 DEF WorkerInv, Holds, In, Resting
<1>3. QED
  BY <1>1, <1>2, SteadyStep

LEMMA UnchangedIsSteady ==
  ASSUME UNCHANGED <<action, item, effects>>
  PROVE  Steady
BY DEF Steady, SteadyFile, SteadyItem

\* A step that keeps the worker's copy and takes it on, not to a claim.
LEMMA QuietStep ==
  ASSUME TypeOK, Inv, Steady, NEW w \in Workers, Holds(w), Copy(w).policy # 0,
         NEW label \in Labels,
         worker'[w].pc = label, worker'[w].id = Id(w), worker'[w].copy = Copy(w),
         label \notin {"decide", "fence", "spend", "begin", "effect", "record"},
         label \in {"ask", "suspend", "link", "consume", "stamp"} =>
           Copy(w).state = "awaiting_approval",
         \A v \in Workers : v # w => worker'[v] = worker[v]
  PROVE  Inv'
<1>1. WorkerInv(w) /\ Id(w) \in Actions /\ action[Id(w)].policy = Copy(w).policy
  BY DEF Inv, WorkerInv
<1>2. SteadyFile(Id(w))
  BY <1>1 DEF Steady
<1>3. action'[Id(w)].policy = Copy(w).policy
  BY <1>1, <1>2 DEF SteadyFile
<1>4. Copy(w).state = "awaiting_approval" => Human(Copy(w).policy)
  BY <1>1 DEF WorkerInv
<1>5. WorkerInv(w)'
  BY <1>1, <1>3, <1>4 DEF WorkerInv, Holds, In, Id, Copy, Human
<1>6. QED
  BY <1>5, SteadyStep

LEMMA GotoEffect ==
  ASSUME TypeOK, NEW w \in Workers, NEW label, Goto(w, label)
  PROVE  /\ worker'[w].pc = label /\ worker'[w].id = Id(w) /\ worker'[w].copy = Copy(w)
         /\ \A v \in Workers : v # w => worker'[v] = worker[v]
BY DEF Goto, TypeOK, Worker, Id, Copy

LEMMA ProposalInv ==
  ASSUME TypeOK, Inv, NEW w \in Workers, ReadAction(w) \/ AdoptPrior(w)
  PROVE  Inv'
<1>1. UNCHANGED <<action, item, effects>>
  BY DEF ReadAction, AdoptPrior, inboxVars
<1>2. Steady
  BY <1>1, UnchangedIsSteady
<1>3. \A v \in Workers : v # w => worker'[v] = worker[v]
  BY DEF ReadAction, AdoptPrior, Return, TypeOK
<1>4. key # NoAction => key \in Actions /\ ActionInv(key)
  BY DEF TypeOK, Inv, Actions, NoAction
<1>5. \/ worker'[w] = Resting
      \/ worker'[w].pc = "create"
      \/ /\ key # NoAction /\ worker'[w].pc = "check" /\ worker'[w].id = key
         /\ worker'[w].copy = action[key]
  <2>1. CASE ReadAction(w)
    BY <2>1, RestingType DEF ReadAction, TypeOK, Worker
  <2>2. CASE AdoptPrior(w)
    BY <2>2 DEF AdoptPrior, Return, TypeOK, Worker
  <2>3. QED
    BY <2>1, <2>2
<1>6. WorkerInv(w)'
  BY <1>1, <1>4, <1>5 DEF WorkerInv, ActionInv, Holds, In, Id, Copy, Human, Resting
<1>7. worker'[w].pc \notin {"decide", "begin", "effect"}
  BY <1>5 DEF Resting
<1>8. QED
  BY <1>2, <1>3, <1>6, <1>7, SteadyStep

\* The steps that save nothing, issue or use grants, wait and report.
LEMMA QuietInv ==
  ASSUME TypeOK, Inv, NEW w \in Workers,
         \/ SuspendBranch(w) \/ ReleaseKey(w) \/ ReportPrior(w) \/ AskLate(w)
         \/ UseDecision(w) \/ Consume(w)
  PROVE  Inv'
<1>1. WorkerInv(w) /\ worker[w] \in Worker
  BY DEF Inv, TypeOK
<1>2. Steady
  <2>1. UNCHANGED <<action, item, effects>>
    BY DEF SuspendBranch, ReleaseKey, ReportPrior, AskLate, UseDecision, Consume, inboxVars
  <2>2. QED
    BY <2>1, UnchangedIsSteady
<1>3. CASE Return(w)
  BY <1>2, <1>3, ReturnStep
<1>4. CASE ReleaseKey(w) /\ ~Return(w)
  <2>1. Goto(w, "create")
    BY <1>4 DEF ReleaseKey
  <2>2. worker'[w].pc = "create" /\ \A v \in Workers : v # w => worker'[v] = worker[v]
    BY <2>1, GotoEffect
  <2>3. WorkerInv(w)'
    BY <2>2 DEF WorkerInv, Holds, In
  <2>4. QED
    BY <1>2, <2>2, <2>3, SteadyStep
<1>5. CASE ~ReleaseKey(w) /\ ~Return(w)
  <2>1. PICK label \in {"link", "ask", "consume", "stamp"} :
          /\ worker'[w].pc = label /\ worker'[w].id = Id(w) /\ worker'[w].copy = Copy(w)
          /\ \A v \in Workers : v # w => worker'[v] = worker[v]
    <3>1. CASE SuspendBranch(w) \/ ReportPrior(w) \/ AskLate(w)
      BY <1>1, <1>5, <3>1, GotoEffect DEF SuspendBranch, ReportPrior, AskLate, TypeOK, Worker,
         Id, Copy
    <3>2. CASE UseDecision(w)
      <4>1. PICK g \in 1..MaxGrants :
              worker' = [worker EXCEPT ![w].pc = "consume", ![w].grant = g,
                                       ![w].rechecked = FALSE]
        BY <1>5, <3>2 DEF UseDecision
      <4>2. QED
        BY <1>1, <4>1 DEF TypeOK, Worker, Id, Copy
    <3>3. CASE Consume(w)
      BY <1>1, <1>5, <3>3 DEF Consume, TypeOK, Worker, Id, Copy
    <3>4. QED
      BY <1>5, <3>1, <3>2, <3>3
  <2>2. Holds(w) /\ Copy(w).state = "awaiting_approval"
    BY <1>1, <1>5 DEF SuspendBranch, ReportPrior, AskLate, UseDecision, Consume, Gate, Pending,
       Checked, WorkerInv, Holds, In
  <2>3. Copy(w).policy # 0
    BY <1>1, <2>2 DEF WorkerInv, Human
  <2>4. QED
    BY <1>2, <2>1, <2>2, <2>3, QuietStep DEF Labels
<1>6. QED
  BY <1>3, <1>4, <1>5

LEMMA CrashInv ==
  ASSUME TypeOK, Inv, NEW w \in Workers, Crash(w)
  PROVE  Inv'
BY UnchangedIsSteady, ReturnStep DEF Crash, inboxVars

\* The saves of a stale or fresh copy that claim nothing.
LEMMA SavedInv ==
  ASSUME TypeOK, Inv, NEW w \in Workers,
         \/ LinkItem(w) \/ CancelOld(w) \/ ExpireAction(w) \/ StillOpen(w) \/ Refused(w)
         \/ Stamp(w) \/ RecordOutcome(w) \/ VerifyOutcome(w)
  PROVE  Inv'
<1>1. /\ WorkerInv(w) /\ worker[w] \in Worker /\ Holds(w)
      /\ UNCHANGED <<item, effects>>
  BY DEF Inv, TypeOK, LinkItem, CancelOld, ExpireAction, StillOpen, Refused, Stamp,
     RecordOutcome, VerifyOutcome, Gate, Pending, Checked, Holds, In, inboxVars
<1>2. Copy(w).policy # 0
  BY <1>1 DEF WorkerInv, LinkItem, CancelOld, ExpireAction, StillOpen, Refused, Stamp,
     RecordOutcome, VerifyOutcome, Gate, Pending, Checked, In
<1>3. /\ \A s \in ActionStates :
           /\ [Copy(w) EXCEPT !.state = s] \in ActionIntent
           /\ [Copy(w) EXCEPT !.state = s].state = s
           /\ [Copy(w) EXCEPT !.state = s].policy = Copy(w).policy
      /\ [Copy(w) EXCEPT !.linked = TRUE] \in ActionIntent
      /\ [Copy(w) EXCEPT !.linked = TRUE].state = Copy(w).state
      /\ [Copy(w) EXCEPT !.linked = TRUE].policy = Copy(w).policy
      /\ {"link", "check", "release", "ready", "verify", "invalidate", "rebind"} \subseteq Labels
  BY <1>1 DEF Worker, Copy, ActionIntent, Labels
<1>4. CASE LinkItem(w)
  <2>1. Copy(w).state = "awaiting_approval" /\ Human(Copy(w).policy)
    BY <1>1, <1>4 DEF LinkItem, WorkerInv, In
  <2>2. CASE Copy(w).linked
    <3>1. Goto(w, "check") /\ action' = action
      BY <1>4, <2>2 DEF LinkItem
    <3>2. Steady
      BY <1>1, <3>1, UnchangedIsSteady
    <3>3. QED
      BY <1>1, <1>2, <1>3, <2>1, <3>1, <3>2, GotoEffect, QuietStep
  <2>3. CASE ~Copy(w).linked
    BY <1>1, <1>2, <1>3, <1>4, <2>1, <2>3, SavedStep DEF LinkItem
  <2>4. QED
    BY <2>2, <2>3
<1>5. CASE CancelOld(w)
  <2> DEFINE c == [Copy(w) EXCEPT !.state = "cancelled"]
  <2>1. c \in ActionIntent /\ c.policy = Copy(w).policy /\ c.state = "cancelled"
    BY <1>3 DEF ActionStates
  <2> HIDE DEF c
  <2>2. action' = action \/ action' = [action EXCEPT ![Id(w)] = c]
    BY <1>5 DEF CancelOld, c
  <2>3. action[Id(w)].policy = Copy(w).policy /\ Id(w) \in Actions
    BY <1>1, <1>2 DEF WorkerInv
  <2>4. \A b \in Actions : SteadyFile(b)
    BY <1>2, <2>1, <2>2, <2>3 DEF SteadyFile, TypeOK
  <2>5. Steady
    BY <1>1, <2>4 DEF Steady, SteadyItem
  <2>6. /\ worker'[w].pc = "rebind" /\ worker'[w].copy = Copy(w) /\ worker'[w].id = Id(w)
        /\ \A v \in Workers : v # w => worker'[v] = worker[v]
    BY <1>1, <1>5 DEF CancelOld, TypeOK, Worker, Copy, Id
  <2>7. action'[Id(w)].policy = Copy(w).policy
    BY <2>1, <2>2, <2>3 DEF TypeOK
  <2>8. WorkerInv(w)'
    BY <1>1, <1>2, <2>3, <2>6, <2>7 DEF WorkerInv, Holds, In, Id, Copy, Human
  <2>9. QED
    BY <2>5, <2>6, <2>8, SteadyStep
<1>6. CASE ExpireAction(w)
  BY <1>1, <1>2, <1>3, <1>6, SavedStep DEF ExpireAction, ActionStates
<1>7. CASE StillOpen(w)
  <2>1. Copy(w).state = "awaiting_approval" /\ Human(Copy(w).policy)
    BY <1>1, <1>7 DEF StillOpen, Gate, Pending, WorkerInv
  <2>2. \/ Return(w) /\ UNCHANGED action
        \/ SaveAndReturn(w, [Copy(w) EXCEPT !.linked = TRUE])
    BY <1>7 DEF StillOpen
  <2>3. CASE Return(w) /\ UNCHANGED action
    BY <1>1, <2>3, UnchangedIsSteady, ReturnStep
  <2>4. CASE SaveAndReturn(w, [Copy(w) EXCEPT !.linked = TRUE])
    BY <1>1, <1>2, <1>3, <2>1, <2>4, SavedStep
  <2>5. QED
    BY <2>2, <2>3, <2>4
<1>8. CASE Refused(w)
  <2>1. PICK s \in {"expired", "cancelled"} :
          SaveAndGoto(w, [Copy(w) EXCEPT !.state = s], "release")
    BY <1>8 DEF Refused, ClosedAs
  <2>2. QED
    BY <1>1, <1>2, <1>3, <2>1, SavedStep DEF ActionStates
<1>9. CASE Stamp(w)
  <2>1. Human(Copy(w).policy)
    BY <1>1, <1>9 DEF Stamp, WorkerInv, In
  <2>2. QED
    BY <1>1, <1>2, <1>3, <1>9, <2>1, SavedStep DEF Stamp, ActionStates
<1>10. CASE RecordOutcome(w)
  <2>1. worker[w].result \in {"ok", "error", "invalid"}
    BY <1>1, <1>10 DEF RecordOutcome, WorkerInv, In, Worker
  <2>2. \/ SaveAndGoto(w, [Copy(w) EXCEPT !.state = "verifying"], "verify")
        \/ SaveAndReturn(w, [Copy(w) EXCEPT !.state = "failed"])
        \/ SaveAndGoto(w, [Copy(w) EXCEPT !.state = "failed"], "invalidate")
    BY <1>10, <2>1 DEF RecordOutcome
  <2>3. QED
    BY <1>1, <1>2, <1>3, <2>2, SavedStep DEF ActionStates
<1>11. CASE VerifyOutcome(w)
  BY <1>1, <1>2, <1>3, <1>11, SavedStep DEF VerifyOutcome, ActionStates
<1>12. QED
  BY <1>4, <1>5, <1>6, <1>7, <1>8, <1>9, <1>10, <1>11

\* The withdrawals of a worker's own action.
LEMMA WithdrawInv ==
  ASSUME TypeOK, Inv, NEW w \in Workers, WithdrawOld(w) \/ InvalidateAction(w)
  PROVE  Inv'
<1>1. WorkerInv(w) /\ Holds(w) /\ Copy(w).policy # 0 /\ Id(w) \in Actions
  BY DEF Inv, WorkerInv, WithdrawOld, InvalidateAction, PolicyChanged, Holds, In
<1>2. PICK label \in {"cancelOld", "release"} : Withdraw(w, label)
  BY DEF WithdrawOld, InvalidateAction
<1>3. effects' = effects
  BY DEF WithdrawOld, InvalidateAction
<1>4. ActionInv(Id(w))
  BY <1>1 DEF Inv
<1>5. \A b \in Actions : SteadyFile(b)
  <2>1. \/ action' = action
        \/ /\ StillWaits(Id(w))
           /\ action' = [action EXCEPT ![Id(w)].state = "cancelled", ![Id(w)].tried = FALSE]
    BY <1>2 DEF Withdraw, Closed, ClosedAs
  <2>2. action[Id(w)] \in ActionIntent /\ action \in [Actions -> ActionIntent]
    BY <1>1 DEF TypeOK
  <2>3. StillWaits(Id(w)) => action[Id(w)].policy # 0
    BY <1>4 DEF ActionInv, StillWaits, Human
  <2>4. QED
    BY <1>1, <2>1, <2>2, <2>3 DEF SteadyFile, ActionIntent
<1>6. \A b \in Actions : SteadyItem(b)
  BY <1>2 DEF Withdraw, Superseded, SteadyItem, TypeOK, InboxTypeOK, InboxItem, UNRESOLVED
<1>7. Steady
  BY <1>3, <1>5, <1>6 DEF Steady
<1>8. CASE Return(w)
  BY <1>7, <1>8, ReturnStep
<1>9. CASE Goto(w, label)
  BY <1>1, <1>7, <1>9, GotoEffect, QuietStep DEF Labels
<1>10. QED
  BY <1>2, <1>8, <1>9 DEF Withdraw, Return, Goto

\* A step of w alone that takes it to a claim: the rest is steady.
LEMMA ClaimStep ==
  ASSUME TypeOK, Inv, Steady, NEW w \in Workers,
         \A v \in Workers : v # w => worker'[v] = worker[v],
         WorkerInv(w)', worker'[w].pc \in {"begin", "effect"},
         \A v \in Workers : Apart(v, w)' /\ Apart(w, v)'
  PROVE  Inv'
<1>1. \A a \in Actions : ActionInv(a)'
  BY SteadyActions
<1>2. \A v \in Workers : WorkerInv(v)'
  BY SteadyWorker
<1>3. ASSUME NEW u \in Workers, NEW v \in Workers
      PROVE  Apart(u, v)'
  <2>1. CASE u # w /\ v # w
    <3>1. Apart(u, v)
      BY DEF Inv
    <3>2. QED
      BY <2>1, <3>1 DEF Apart, Holds, In, Id, Copy, Human
  <2>2. QED
    BY <2>1
<1>4. QED
  BY <1>1, <1>2, <1>3 DEF Inv

\* Two workers that hold the same action agree on its decision.
LEMMA SameDecision ==
  ASSUME Inv, NEW v \in Workers, NEW w \in Workers, Holds(v), Holds(w), Id(v) = Id(w),
         Copy(v).policy # 0, Copy(w).policy # 0
  PROVE  Copy(v).policy = Copy(w).policy
BY DEF Inv, WorkerInv

LEMMA FindDecisionInv ==
  ASSUME TypeOK, Inv, NEW w \in Workers, FindDecision(w) \/ ClaimBranch(w)
  PROVE  Inv'
<1>1. /\ WorkerInv(w) /\ Holds(w) /\ Copy(w).policy # 0 /\ Id(w) \in Actions
      /\ action[Id(w)].policy = Copy(w).policy
  BY DEF Inv, WorkerInv, FindDecision, ClaimBranch, Ready, Pending, Checked, Holds, In, Human
<1>2. ActionInv(Id(w))
  BY <1>1 DEF Inv
<1>3. UNCHANGED <<action, item, effects>>
  BY DEF FindDecision, ClaimBranch, inboxVars
<1>4. Steady
  BY <1>3, UnchangedIsSteady
<1>5. CASE Return(w)
  BY <1>4, <1>5, ReturnStep
<1>6. ASSUME NEW label \in {"fence", "spend"}, Goto(w, label), item[Id(w)].status # "none"
      PROVE  Inv'
  <2>1. /\ worker'[w].pc = label /\ worker'[w].id = Id(w) /\ worker'[w].copy = Copy(w)
        /\ \A v \in Workers : v # w => worker'[v] = worker[v]
    BY <1>6, GotoEffect
  <2>2. Human(Copy(w).policy)
    BY <1>1, <1>2, <1>6 DEF ActionInv
  <2>3. WorkerInv(w)'
    BY <1>1, <1>3, <1>6, <2>1, <2>2 DEF WorkerInv, Holds, In, Id, Copy, Human
  <2>4. QED
    BY <1>4, <2>1, <2>3, SteadyStep
<1>7. CASE Goto(w, "begin") /\ ~Human(Copy(w).policy)
  <2>1. /\ worker'[w].pc = "begin" /\ worker'[w].id = Id(w) /\ worker'[w].copy = Copy(w)
        /\ \A v \in Workers : v # w => worker'[v] = worker[v]
    BY <1>7, GotoEffect
  <2>2. WorkerInv(w)'
    BY <1>1, <1>3, <1>7, <2>1 DEF WorkerInv, Holds, In, Id, Copy, Human
  <2>3. ASSUME NEW v \in Workers, v # w, Holds(v), Id(v) = Id(w)
        PROVE  ~Human(Copy(v).policy)
    BY <1>1, <1>7, <2>3, SameDecision DEF Human
  <2>4. \A v \in Workers : Apart(v, w)' /\ Apart(w, v)'
    BY <1>7, <2>1, <2>3 DEF Apart, Holds, In, Id, Copy, Human
  <2>5. QED
    BY <1>4, <2>1, <2>2, <2>4, ClaimStep
<1>8. CASE FindDecision(w)
  BY <1>1, <1>5, <1>6, <1>7, <1>8 DEF FindDecision, Human
<1>9. CASE ClaimBranch(w)
  <2>1. item[Id(w)].status # "none"
    BY <1>1, <1>9 DEF ClaimBranch, WorkerInv, In
  <2>2. QED
    BY <1>5, <1>6, <1>9, <2>1 DEF ClaimBranch
<1>10. QED
  BY <1>8, <1>9

LEMMA ClaimExecutionInv ==
  ASSUME TypeOK, Inv, NEW w \in Workers, ClaimExecution(w)
  PROVE  Inv'
<1> DEFINE a == Id(w)
           c == [action[a] EXCEPT !.state = "executing", !.tried = TRUE]
<1>1. /\ WorkerInv(w) /\ Holds(w) /\ In(w, "begin") /\ Copy(w).policy # 0 /\ a \in Actions
      /\ action[a].policy = Copy(w).policy
  BY DEF Inv, WorkerInv, ClaimExecution, Holds, In
<1>2. ActionInv(a)
  BY <1>1 DEF Inv
<1>3. UNCHANGED <<item, effects>>
  BY DEF ClaimExecution, inboxVars
<1>4. CASE Return(w) /\ UNCHANGED action
  BY <1>3, <1>4, UnchangedIsSteady, ReturnStep
<1>5. CASE action[a].state = "approved" /\ SaveAndGoto(w, c, "effect")
  <2>1. c.state = "executing" /\ c.policy = Copy(w).policy
    BY <1>1 DEF TypeOK, ActionIntent
  <2> HIDE DEF c
  <2>2. action' = [action EXCEPT ![a] = c]
    BY <1>5 DEF SaveAndGoto
  <2>3. Steady
    <3>1. \A b \in Actions : SteadyFile(b)
      BY <1>1, <2>1, <2>2 DEF SteadyFile, TypeOK
    <3>2. QED
      BY <1>3, <3>1 DEF Steady, SteadyItem
  <2>4. /\ worker'[w].pc = "effect" /\ worker'[w].id = a /\ worker'[w].copy = c
        /\ \A v \in Workers : v # w => worker'[v] = worker[v]
    BY <1>5 DEF SaveAndGoto, TypeOK, Worker, Id
  <2>5. action'[a] = c
    BY <1>1, <2>2 DEF TypeOK
  <2>6. ~Human(Copy(w).policy) => effects[a] = 0
    BY <1>1, <1>2, <1>5 DEF ActionInv
  <2>7. WorkerInv(w)'
    BY <1>1, <1>3, <2>1, <2>4, <2>5, <2>6 DEF WorkerInv, Holds, In, Id, Copy, Bound, Human
  <2>8. ASSUME NEW v \in Workers, v # w, Holds(v), Id(v) = a
        PROVE  /\ ~In(v, "effect")
               /\ Human(Copy(v).policy) => ~In(v, "begin")
    <3>1. WorkerInv(v) /\ Apart(v, w)
      BY DEF Inv
    <3>2. QED
      BY <1>1, <1>5, <2>8, <3>1 DEF WorkerInv, Apart, In, Human
  <2>9. ASSUME NEW v \in Workers, v # w, Holds(v), Id(v) = a, In(v, "begin")
        PROVE  ~Human(Copy(w).policy)
    <3>1. Copy(v).policy # 0
      BY <2>9 DEF Inv, WorkerInv, In
    <3>2. QED
      BY <1>1, <2>8, <2>9, <3>1, SameDecision
  <2>10. \A v \in Workers : Apart(v, w)' /\ Apart(w, v)'
    BY <1>1, <2>1, <2>4, <2>8, <2>9 DEF Apart, Holds, In, Id, Copy, Human
  <2>11. QED
    BY <2>3, <2>4, <2>7, <2>10, ClaimStep
<1>6. QED
  BY <1>4, <1>5 DEF ClaimExecution

\* Where only one action's file, item and effects change, what is known of the
\* workers of other actions is kept.
Elsewhere(a) ==
  \A b \in Actions : b # a =>
    /\ action'[b] = action[b] /\ item'[b] = item[b] /\ effects'[b] = effects[b]

LEMMA ElsewhereActions ==
  ASSUME Inv, NEW a, Elsewhere(a), NEW b \in Actions, b # a
  PROVE  ActionInv(b)'
BY DEF Inv, Elsewhere, ActionInv, Bound, Human

LEMMA ElsewhereWorkers ==
  ASSUME Inv, NEW a, Elsewhere(a), NEW v \in Workers, worker'[v] = worker[v],
         Holds(v) => Id(v) # a
  PROVE  WorkerInv(v)'
<1>1. WorkerInv(v)
  BY DEF Inv
<1>2. CASE ~Holds(v)
  BY <1>2 DEF WorkerInv, Holds, In
<1>3. CASE Holds(v)
  <2>1. Id(v) \in Actions /\ Id(v) # a
    BY <1>1, <1>3 DEF WorkerInv
  <2>2. /\ action'[Id(v)] = action[Id(v)] /\ item'[Id(v)] = item[Id(v)]
        /\ effects'[Id(v)] = effects[Id(v)]
    BY <2>1 DEF Elsewhere
  <2>3. QED
    BY <1>1, <1>3, <2>2 DEF WorkerInv, Holds, In, Id, Copy, Bound, Human
<1>4. QED
  BY <1>2, <1>3

\* Workers other than w stay apart; w stays apart from all when it is at no label
\* that Apart speaks of.
LEMMA ApartStep ==
  ASSUME Inv, NEW w \in Workers, \A v \in Workers : v # w => worker'[v] = worker[v],
         \A v \in Workers : Apart(v, w)' /\ Apart(w, v)'
  PROVE  \A u, v \in Workers : Apart(u, v)'
<1>1. ASSUME NEW u \in Workers, NEW v \in Workers, u # w, v # w
      PROVE  Apart(u, v)'
  BY <1>1 DEF Inv, Apart, Holds, In, Id, Copy, Human
<1>2. QED
  BY <1>1

LEMMA SpendDecisionInv ==
  ASSUME TypeOK, Inv, NEW w \in Workers, SpendDecision(w)
  PROVE  Inv'
<1> DEFINE a == Id(w)
<1>1. /\ WorkerInv(w) /\ Holds(w) /\ In(w, "spend") /\ Human(Copy(w).policy) /\ a \in Actions
      /\ action[a].policy = Copy(w).policy
  BY DEF Inv, WorkerInv, SpendDecision, Holds, In, Human
<1>2. ActionInv(a)
  BY <1>1 DEF Inv
<1>3. UNCHANGED <<action, effects>>
  BY DEF SpendDecision
<1>4. CASE Return(w) /\ UNCHANGED item
  BY <1>3, <1>4, UnchangedIsSteady, ReturnStep
<1>5. CASE Spendable(a) /\ item' = [item EXCEPT ![a].claimed = TRUE] /\ Goto(w, "begin")
  <2>1. /\ worker'[w].pc = "begin" /\ worker'[w].id = a /\ worker'[w].copy = Copy(w)
        /\ \A v \in Workers : v # w => worker'[v] = worker[v]
    BY <1>5, GotoEffect
  <2>2. /\ item'[a].status = item[a].status /\ item'[a].claimed
        /\ item'[a].attempt = item[a].attempt
        /\ \A b \in Actions : b # a => item'[b] = item[b]
    BY <1>1, <1>5 DEF TypeOK, InboxTypeOK, InboxItem
  <2>3. ~item[a].claimed /\ item[a].status = "approved"
    BY <1>5 DEF Spendable
  <2>4. effects[a] = 0
    BY <1>1, <1>2, <2>3 DEF ActionInv
  <2>5. Elsewhere(a)
    BY <1>3, <2>2 DEF Elsewhere
  <2>6. \A b \in Actions : ActionInv(b)'
    <3>1. ASSUME NEW b \in Actions, b = a
          PROVE  ActionInv(b)'
      BY <1>2, <1>3, <2>2, <2>3, <2>4, <3>1 DEF ActionInv, Bound, Human
    <3>2. QED
      BY <2>5, <3>1, ElsewhereActions
  <2>7. ASSUME NEW v \in Workers, v # w, Holds(v), Id(v) = a
        PROVE  WorkerInv(v)' /\ (Human(Copy(v).policy) => worker[v].pc \notin {"begin", "effect"})
    <3>1. WorkerInv(v)
      BY DEF Inv
    <3>2. QED
      BY <1>3, <2>1, <2>2, <2>3, <2>7, <3>1 DEF WorkerInv, Holds, In, Id, Copy, Bound, Human
  <2>8. WorkerInv(w)'
    BY <1>1, <1>3, <2>1, <2>2, <2>4 DEF WorkerInv, Holds, In, Id, Copy, Bound, Human
  <2>9. \A v \in Workers : WorkerInv(v)'
    BY <2>1, <2>5, <2>7, <2>8, ElsewhereWorkers
  <2>10. ASSUME NEW v \in Workers, v # w, Holds(v), Id(v) = a, In(v, "begin") \/ In(v, "effect")
         PROVE  FALSE
    <3>1. Copy(v).policy # 0
      BY <2>10 DEF Inv, WorkerInv, In
    <3>2. Copy(v).policy = Copy(w).policy
      BY <1>1, <2>10, <3>1, SameDecision DEF Human
    <3>3. QED
      BY <1>1, <2>7, <2>10, <3>2 DEF In
  <2>11. \A v \in Workers : Apart(v, w)' /\ Apart(w, v)'
    BY <2>1, <2>10 DEF Apart, Holds, In, Id, Copy, Human
  <2>12. QED
    BY <2>1, <2>6, <2>9, <2>11, ApartStep DEF Inv
<1>6. QED
  BY <1>4, <1>5 DEF SpendDecision

LEMMA PerformInv ==
  ASSUME TypeOK, Inv, NEW w \in Workers, Perform(w)
  PROVE  Inv'
<1> DEFINE a == Id(w)
<1>1. /\ WorkerInv(w) /\ Holds(w) /\ In(w, "effect") /\ Copy(w).policy # 0 /\ a \in Actions
      /\ action[a].policy = Copy(w).policy
  BY DEF Inv, WorkerInv, Perform, Holds, In
<1>2. ActionInv(a)
  BY <1>1 DEF Inv
<1>3. UNCHANGED <<action, item>>
  BY DEF Perform, inboxVars
<1>4. PICK r \in {"ok", "error", "invalid"} :
        /\ worker' = [worker EXCEPT ![w].pc = "record", ![w].result = r]
        /\ effects' = IF r = "invalid" THEN effects ELSE [effects EXCEPT ![a] = @ + 1]
  BY DEF Perform
<1>5. /\ worker'[w].pc = "record" /\ worker'[w].id = a /\ worker'[w].copy = Copy(w)
      /\ worker'[w].result # "none"
      /\ \A v \in Workers : v # w => worker'[v] = worker[v]
  BY <1>4 DEF TypeOK, Worker, Id, Copy
<1>6. effects[a] = 0
  BY <1>1 DEF WorkerInv, In
<1>7. effects'[a] \in {0, 1} /\ \A b \in Actions : b # a => effects'[b] = effects[b]
  BY <1>1, <1>4, <1>6 DEF TypeOK
<1>8. Elsewhere(a)
  BY <1>3, <1>7 DEF Elsewhere
<1>9. \A b \in Actions : ActionInv(b)'
  <2>1. /\ Human(Copy(w).policy) => item[a].claimed
        /\ ~Human(Copy(w).policy) => action[a].state # "approved"
    BY <1>1 DEF WorkerInv, In
  <2>2. ASSUME NEW b \in Actions, b = a
        PROVE  ActionInv(b)'
    BY <1>1, <1>2, <1>3, <1>7, <2>1, <2>2 DEF ActionInv, Bound, Human
  <2>3. QED
    BY <1>8, <2>2, ElsewhereActions
<1>10. WorkerInv(w)'
  BY <1>1, <1>3, <1>5 DEF WorkerInv, Holds, In, Id, Copy, Bound, Human
<1>11. ASSUME NEW v \in Workers, v # w, Holds(v), Id(v) = a
       PROVE  WorkerInv(v)'
  <2>1. WorkerInv(v) /\ Apart(v, w)
    BY DEF Inv
  <2>2. ~In(v, "effect") /\ (Human(Copy(v).policy) => ~In(v, "begin"))
    BY <1>1, <1>11, <2>1 DEF Apart, In
  <2>3. QED
    BY <1>3, <1>5, <1>11, <2>1, <2>2 DEF WorkerInv, Holds, In, Id, Copy, Bound, Human
<1>12. \A v \in Workers : WorkerInv(v)'
  BY <1>5, <1>8, <1>10, <1>11, ElsewhereWorkers
<1>13. \A v \in Workers : Apart(v, w)' /\ Apart(w, v)'
  BY <1>5 DEF Apart, In
<1>14. QED
  BY <1>5, <1>9, <1>12, <1>13, ApartStep DEF Inv

LEMMA CreateActionInv ==
  ASSUME TypeOK, Inv, NEW w \in Workers, CreateAction(w)
  PROVE  Inv'
<1> DEFINE c == [Absent EXCEPT !.state = "proposed"]
<1>1. PICK a \in Actions :
        /\ action[a].state = "absent"
        /\ action' = [action EXCEPT ![a] = c]
        /\ worker' = [worker EXCEPT ![w].pc = "decide", ![w].id = a, ![w].copy = c]
  BY DEF CreateAction
<1>2. c.state = "proposed" /\ c.policy = 0
  BY DEF Absent
<1> HIDE DEF c
<1>3. UNCHANGED <<item, effects>>
  BY DEF CreateAction, inboxVars
<1>4. /\ worker'[w].pc = "decide" /\ worker'[w].id = a /\ worker'[w].copy = c
      /\ \A v \in Workers : v # w => worker'[v] = worker[v]
  BY <1>1 DEF TypeOK, Worker
<1>5. action'[a] = c /\ \A b \in Actions : b # a => action'[b] = action[b]
  BY <1>1 DEF TypeOK
<1>6. ActionInv(a)
  BY DEF Inv
<1>7. Elsewhere(a)
  BY <1>3, <1>5 DEF Elsewhere
<1>8. \A b \in Actions : ActionInv(b)'
  <2>1. ActionInv(a)'
    BY <1>1, <1>2, <1>3, <1>5, <1>6 DEF ActionInv, Bound, Human
  <2>2. QED
    BY <1>7, <2>1, ElsewhereActions
<1>9. WorkerInv(w)'
  BY <1>2, <1>4, <1>5 DEF WorkerInv, Holds, In, Id, Copy, Human
<1>10. ASSUME NEW v \in Workers, v # w, Holds(v), Id(v) = a
       PROVE  WorkerInv(v)' /\ ~In(v, "decide") /\ Copy(v).policy = 0
  <2>1. WorkerInv(v)
    BY DEF Inv
  <2>2. Copy(v).policy = 0 /\ ~In(v, "decide") /\ In(v, "check")
    BY <1>1, <1>6, <1>10, <2>1 DEF WorkerInv, ActionInv, In
  <2>3. QED
    BY <1>2, <1>3, <1>4, <1>5, <1>10, <2>1, <2>2 DEF WorkerInv, Holds, In, Id, Copy, Bound, Human
<1>11. \A v \in Workers : WorkerInv(v)'
  BY <1>4, <1>7, <1>9, <1>10, ElsewhereWorkers
<1>12. \A v \in Workers : Apart(v, w)' /\ Apart(w, v)'
  BY <1>4, <1>10 DEF Apart, Holds, In, Id, Copy, Human
<1>13. QED
  BY <1>4, <1>8, <1>11, <1>12, ApartStep DEF Inv

LEMMA DecideInv ==
  ASSUME TypeOK, Inv, NEW w \in Workers, Decide(w)
  PROVE  Inv'
<1>1. /\ WorkerInv(w) /\ Holds(w) /\ In(w, "decide") /\ Copy(w).policy = 0
      /\ Id(w) \in Actions /\ action[Id(w)].policy = 0 /\ ActionInv(Id(w))
  BY DEF Inv, WorkerInv, Decide, Holds, In
<1>2. PICK a \in Actions : a = Id(w)
  BY <1>1
<1>3. policy # 0 /\ Outcomes[policy] \in {"allow", "require_approval", "deny"}
  BY OutcomeType DEF TypeOK
<1>4. PICK st \in {"failed", "approved", "awaiting_approval"}, label \in {"check", "ask"} :
        LET c == [[Copy(w) EXCEPT !.policy = policy] EXCEPT !.state = st]
        IN /\ SaveAndReturn(w, c) \/ SaveAndGoto(w, c, label)
           /\ st = "awaiting_approval" => Human(policy)
           /\ label = "ask" => st = "awaiting_approval"
  BY <1>3 DEF Decide, Human
<1> DEFINE c == [[Copy(w) EXCEPT !.policy = policy] EXCEPT !.state = st]
<1>5. c.state = st /\ c.policy = policy
  BY DEF TypeOK, Worker, Copy, ActionIntent
<1>6. SaveAndReturn(w, c) \/ SaveAndGoto(w, c, label)
  BY <1>4
<1> HIDE DEF c
<1>7. action' = [action EXCEPT ![a] = c]
  BY <1>2, <1>6 DEF SaveAndReturn, SaveAndGoto
<1>8. /\ \/ worker'[w] = Resting
         \/ worker'[w].pc = label /\ worker'[w].id = a /\ worker'[w].copy = c
      /\ \A v \in Workers : v # w => worker'[v] = worker[v]
  BY <1>2, <1>6 DEF SaveAndReturn, SaveAndGoto, Return, TypeOK, Worker, Id
<1>9. action'[a] = c /\ \A b \in Actions : b # a => action'[b] = action[b]
  BY <1>7 DEF TypeOK
<1>10. UNCHANGED <<item, effects>>
  BY DEF Decide, inboxVars
<1>11. Elsewhere(a)
  BY <1>9, <1>10 DEF Elsewhere
<1>12. \A b \in Actions : ActionInv(b)'
  <2>1. ActionInv(a)'
    BY <1>1, <1>2, <1>3, <1>4, <1>5, <1>9, <1>10 DEF ActionInv, Bound, Human
  <2>2. QED
    BY <1>11, <2>1, ElsewhereActions
<1>13. WorkerInv(w)'
  BY <1>3, <1>4, <1>5, <1>8, <1>9 DEF WorkerInv, Holds, In, Id, Copy, Human, Resting
<1>14. ASSUME NEW v \in Workers, v # w, Holds(v), Id(v) = a
       PROVE  WorkerInv(v)'
  <2>1. WorkerInv(v) /\ Apart(v, w)
    BY DEF Inv
  <2>2. Copy(v).policy = 0
    BY <1>1, <1>2, <1>14, <2>1 DEF WorkerInv
  <2>3. ~In(v, "decide") /\ In(v, "check")
    BY <1>1, <1>2, <1>14, <2>1, <2>2 DEF WorkerInv, Apart
  <2>4. QED
    BY <1>8, <1>10, <1>14, <2>1, <2>2, <2>3 DEF WorkerInv, Holds, In, Id, Copy, Bound, Human
<1>15. \A v \in Workers : WorkerInv(v)'
  BY <1>8, <1>11, <1>13, <1>14, ElsewhereWorkers
<1>16. \A v \in Workers : Apart(v, w)' /\ Apart(w, v)'
  BY <1>4, <1>8 DEF Apart, In, Resting
<1>17. QED
  BY <1>8, <1>12, <1>15, <1>16, ApartStep DEF Inv

LEMMA AskHumanInv ==
  ASSUME TypeOK, Inv, NEW w \in Workers, AskHuman(w)
  PROVE  Inv'
<1>1. /\ WorkerInv(w) /\ Holds(w) /\ In(w, "ask") /\ Copy(w).state = "awaiting_approval"
      /\ Human(Copy(w).policy) /\ Id(w) \in Actions /\ action[Id(w)].policy = Copy(w).policy
      /\ ActionInv(Id(w))
  BY DEF Inv, WorkerInv, AskHuman, Holds, In, Human
<1>2. PICK a \in Actions : a = Id(w)
  BY <1>1
<1>3. UNCHANGED <<action, effects>>
  BY DEF AskHuman
<1>4. PICK label \in {"link", "suspend"} : Goto(w, label)
  BY DEF AskHuman
<1>5. /\ worker'[w].pc = label /\ worker'[w].id = a /\ worker'[w].copy = Copy(w)
      /\ \A v \in Workers : v # w => worker'[v] = worker[v]
  BY <1>2, <1>4, GotoEffect
<1>6. CASE UNCHANGED item
  BY <1>1, <1>3, <1>4, <1>5, <1>6, GotoEffect, UnchangedIsSteady, QuietStep DEF Human, Labels
<1>7. CASE item[a].status = "none" /\ CreateItem(a)
  <2>1. /\ item'[a].status = "pending" /\ item'[a].claimed = FALSE
        /\ \A b \in Actions : b # a => item'[b] = item[b]
    BY <1>7 DEF CreateItem, Unasked, TypeOK, InboxTypeOK
  <2>2. Elsewhere(a)
    BY <1>3, <2>1 DEF Elsewhere
  <2>3. effects[a] = 0
    BY <1>1, <1>2, <1>7 DEF ActionInv
  <2>4. \A b \in Actions : ActionInv(b)'
    <3>1. ActionInv(a)'
      BY <1>1, <1>2, <1>3, <2>1, <2>3 DEF ActionInv, Bound, Human
    <3>2. QED
      BY <2>2, <3>1, ElsewhereActions
  <2>5. WorkerInv(w)'
    BY <1>1, <1>2, <1>3, <1>5 DEF WorkerInv, Holds, In, Id, Copy, Human
  <2>6. ASSUME NEW v \in Workers, v # w, Holds(v), Id(v) = a
        PROVE  WorkerInv(v)'
    <3>1. WorkerInv(v)
      BY DEF Inv
    <3>2. worker[v].pc \notin {"fence", "spend"} /\ (worker[v].pc \in {"begin", "effect"} => ~Human(Copy(v).policy))
      BY <1>1, <1>2, <1>7, <2>6, <3>1 DEF WorkerInv, ActionInv
    <3>3. QED
      BY <1>3, <1>5, <2>6, <3>1, <3>2 DEF WorkerInv, Holds, In, Id, Copy, Bound, Human
  <2>7. \A v \in Workers : WorkerInv(v)'
    BY <1>5, <2>2, <2>5, <2>6, ElsewhereWorkers
  <2>8. \A v \in Workers : Apart(v, w)' /\ Apart(w, v)'
    BY <1>5 DEF Apart, In
  <2>9. QED
    BY <1>5, <2>4, <2>7, <2>8, ApartStep DEF Inv
<1>8. QED
  BY <1>2, <1>6, <1>7 DEF AskHuman

\* The inbox, the branch and the other entry points.
LEMMA EnvironmentInv ==
  ASSUME TypeOK, Inv, AnswersInv,
         \/ \E i \in Actions : \/ InboxStep(i) \/ HandleAnswer(i) \/ CloseAnswered(i)
                                \/ Regrant(i) \/ ResumeVerification(i)
         \/ BranchStep \/ ChangePolicy
  PROVE  Inv'
<1>1. UNCHANGED <<worker, effects>>
  BY DEF InboxStep, BranchStep, gatewayVars, HandleAnswer, CloseAnswered, Regrant,
     ResumeVerification, ChangePolicy
<1>2. \A b \in Actions : SteadyItem(b)
  <2>1. \/ item' = item
        \/ \E i \in Actions, st \in {"approved", "denied", "expired", "cancelled"} :
             item[i].status \in UNRESOLVED /\ item' = [item EXCEPT ![i].status = st]
        \/ \E i \in Actions : item' = [item EXCEPT ![i].resumed = TRUE]
    BY DEF InboxStep, Respond, ExpireItem, CancelItem, Settle, ReconcileAnswer, ReplayResponse,
       RestoreWait, ResumeBranch, CompleteResume, AnswererStops, Lapse, BranchStep,
       LeaseBranch, CancelBranch, gatewayVars, HandleAnswer, CloseAnswered, Regrant,
       ResumeVerification, ChangePolicy, inboxVars
  <2>2. item \in [Actions -> InboxItem]
    BY DEF TypeOK, InboxTypeOK
  <2>3. ASSUME NEW b \in Actions
        PROVE  SteadyItem(b)
    <3>1. item[b] \in InboxItem
      BY <2>2
    <3>2. CASE item' = item
      BY <3>2 DEF SteadyItem
    <3>3. CASE \E i \in Actions, st \in {"approved", "denied", "expired", "cancelled"} :
                 item[i].status \in UNRESOLVED /\ item' = [item EXCEPT ![i].status = st]
      <4>1. PICK i \in Actions, st \in {"approved", "denied", "expired", "cancelled"} :
              item[i].status \in UNRESOLVED /\ item' = [item EXCEPT ![i].status = st]
        BY <3>3
      <4>2. item'[b] = IF b = i THEN [item[b] EXCEPT !.status = st] ELSE item[b]
        BY <2>2, <4>1
      <4>3. QED
        BY <3>1, <4>1, <4>2 DEF SteadyItem, InboxItem, UNRESOLVED
    <3>4. CASE \E i \in Actions : item' = [item EXCEPT ![i].resumed = TRUE]
      <4>1. PICK i \in Actions : item' = [item EXCEPT ![i].resumed = TRUE]
        BY <3>4
      <4>2. item'[b] = IF b = i THEN [item[b] EXCEPT !.resumed = TRUE] ELSE item[b]
        BY <2>2, <4>1
      <4>3. QED
        BY <3>1, <4>2 DEF SteadyItem, InboxItem
    <3>5. QED
      BY <2>1, <3>2, <3>3, <3>4
  <2>4. QED
    BY <2>3
<1>3. \A b \in Actions : SteadyFile(b)
  <2>1. \/ action' = action
        \/ \E i \in Actions : CloseAnswered(i)
        \/ \E i \in Actions, st \in {"failed", "committed"} :
             /\ action[i].state \in {"executing", "verifying"}
             /\ action' = [action EXCEPT ![i].state = st]
    BY DEF InboxStep, BranchStep, gatewayVars, HandleAnswer, Regrant, ResumeVerification,
       ChangePolicy
  <2>2. action \in [Actions -> ActionIntent] /\ \A i \in Actions : ActionInv(i) /\ AnswerInv(i)
    BY DEF TypeOK, Inv, AnswersInv
  <2>3. CASE action' = action
    BY <2>3 DEF SteadyFile
  <2>4. ASSUME NEW i \in Actions, CloseAnswered(i)
        PROVE  \A b \in Actions : SteadyFile(b)
    <3>1. action[i] \in ActionIntent /\ action[i].policy # 0
      BY <2>2, <2>4 DEF CloseAnswered, AnswerInv, ActionInv, Refusals, Human
    <3>2. PICK st \in {"expired", "cancelled"} :
            action' = [action EXCEPT ![i].state = st, ![i].tried = FALSE]
      BY <2>4 DEF CloseAnswered, Closed, ClosedAs
    <3>3. /\ action'[i].state = st /\ action'[i].policy = action[i].policy
          /\ \A b \in Actions : b # i => action'[b] = action[b]
      BY <2>2, <3>1, <3>2 DEF ActionIntent
    <3>4. QED
      BY <3>1, <3>3 DEF SteadyFile
  <2>5. ASSUME NEW i \in Actions, NEW st \in {"failed", "committed"},
               action[i].state \in {"executing", "verifying"},
               action' = [action EXCEPT ![i].state = st]
        PROVE  \A b \in Actions : SteadyFile(b)
    <3>1. action[i] \in ActionIntent /\ action[i].policy # 0
      BY <2>2, <2>5 DEF ActionInv
    <3>2. /\ action'[i].state = st /\ action'[i].policy = action[i].policy
          /\ \A b \in Actions : b # i => action'[b] = action[b]
      BY <2>2, <2>5, <3>1 DEF ActionIntent
    <3>3. QED
      BY <3>1, <3>2 DEF SteadyFile
  <2>6. QED
    BY <2>1, <2>3, <2>4, <2>5
<1>4. Steady
  BY <1>1, <1>2, <1>3 DEF Steady
<1>5. QED
  BY <1>1, <1>4, SteadyEnvironment

LEMMA InvStep ==
  ASSUME TypeOK, Inv, AnswersInv, [Next]_vars
  PROVE  Inv'
<1>1. ASSUME NEW w \in Workers, WorkerStep(w)
      PROVE  Inv'
  BY <1>1, ProposalInv, CreateActionInv, DecideInv, AskHumanInv, QuietInv, SavedInv,
     WithdrawInv, FindDecisionInv, SpendDecisionInv, ClaimExecutionInv, PerformInv, CrashInv
     DEF WorkerStep
<1>2. CASE UNCHANGED vars
  BY <1>2, UnchangedIsSteady, SteadyEnvironment DEF vars
<1>3. QED
  BY <1>1, <1>2, EnvironmentInv DEF Next

(* Who answers, and with what. *)

LEMMA AnswerKept ==
  ASSUME NEW i \in Actions, AnswerInv(i), answering'[i] = answering[i],
         \/ item'[i].status = item[i].status
         \/ item[i].status = "none"
         \/ item[i].status \in UNRESOLVED \cup {"approved"} /\ item'[i].status = "superseded"
  PROVE  AnswerInv(i)'
BY DEF AnswerInv, At, UNRESOLVED, Refusals

LEMMA AnswersStep ==
  ASSUME TypeOK, Inv, AnswersInv, [Next]_vars
  PROVE  AnswersInv'
<1>1. /\ item \in [Actions -> InboxItem]
      /\ answering \in [Actions -> {"idle", "handle", "close", "resume", "complete"}]
      /\ \A i \in Actions : AnswerInv(i)
  BY DEF TypeOK, InboxTypeOK, AnswersInv
<1>2. ASSUME UNCHANGED <<item, answering>>
      PROVE  AnswersInv'
  BY <1>1, <1>2, AnswerKept DEF AnswersInv
<1>3. ASSUME NEW w \in Workers, WorkerStep(w)
      PROVE  AnswersInv'
  <2>1. CASE AskHuman(w)
    <3>1. \A b \in Actions : item'[b] = item[b] \/ item[b].status = "none"
      BY <1>1, <2>1 DEF AskHuman, CreateItem
    <3>2. answering' = answering
      BY <2>1 DEF AskHuman
    <3>3. QED
      BY <1>1, <3>1, <3>2, AnswerKept DEF AnswersInv
  <2>2. CASE WithdrawOld(w) \/ InvalidateAction(w)
    <3>1. item' = Superseded(Id(w)) /\ answering' = answering
      BY <2>2 DEF WithdrawOld, InvalidateAction, Withdraw
    <3>2. ASSUME NEW b \in Actions
          PROVE  \/ item'[b].status = item[b].status
                 \/ /\ item[b].status \in UNRESOLVED \cup {"approved"}
                    /\ item'[b].status = "superseded"
      BY <1>1, <3>1 DEF Superseded, InboxItem
    <3>3. QED
      BY <1>1, <3>1, <3>2, AnswerKept DEF AnswersInv
  <2>3. CASE SpendDecision(w)
    <3>1. answering' = answering /\ \A b \in Actions : item'[b].status = item[b].status
      BY <1>1, <2>3 DEF SpendDecision, InboxItem
    <3>2. QED
      BY <1>1, <3>1, AnswerKept DEF AnswersInv
  <2>4. \/ AskHuman(w) \/ WithdrawOld(w) \/ InvalidateAction(w) \/ SpendDecision(w)
        \/ UNCHANGED <<item, answering>>
    BY <1>3 DEF WorkerStep, ReadAction, AdoptPrior, CreateAction, Decide, SuspendBranch, LinkItem,
       CancelOld, ReleaseKey, ReportPrior, ExpireAction, AskLate, StillOpen, Refused, UseDecision,
       Consume, Stamp, FindDecision, ClaimBranch, ClaimExecution, Perform, RecordOutcome,
       VerifyOutcome, Crash, inboxVars
  <2>5. QED
    BY <1>2, <2>1, <2>2, <2>3, <2>4
<1>4. ASSUME NEW i \in Actions, NEW label, Continue(i, label),
             \A b \in Actions : b # i => item'[b] = item[b],
             AnswerInv(i)'
      PROVE  AnswersInv'
  <2>1. \A b \in Actions : b # i => answering'[b] = answering[b]
    BY <1>1, <1>4 DEF Continue
  <2>2. QED
    BY <1>1, <1>4, <2>1, AnswerKept DEF AnswersInv
<1>5. ASSUME NEW i \in Actions, InboxStep(i)
      PROVE  AnswersInv'
  <2>1. CASE Respond(i) \/ ExpireItem(i) \/ CancelItem(i)
    <3>1. PICK status \in {"approved", "denied", "expired", "cancelled"} : Settle(i, status)
      BY <2>1 DEF Respond, ExpireItem, CancelItem
    <3>2. /\ item'[i].status = status /\ answering'[i] = "handle"
          /\ \A b \in Actions : b # i => item'[b] = item[b]
      BY <1>1, <3>1 DEF Settle, Continue, InboxItem
    <3>3. AnswerInv(i)'
      BY <3>2 DEF AnswerInv, At, Refusals
    <3>4. QED
      BY <1>4, <3>1, <3>2, <3>3 DEF Settle
  <2>2. CASE ReconcileAnswer(i) \/ ReplayResponse(i)
    <3>1. PICK label \in {"handle", "resume"} : Continue(i, label)
      BY <2>2 DEF ReconcileAnswer, ReplayResponse
    <3>2. item' = item /\ answering'[i] = label /\ item[i].status \in {"approved", "denied"}
      BY <1>1, <2>2, <3>1 DEF ReconcileAnswer, ReplayResponse, Answered, Continue
    <3>3. AnswerInv(i)'
      BY <3>2 DEF AnswerInv, At, Refusals
    <3>4. QED
      BY <1>4, <3>1, <3>2, <3>3
  <2>3. CASE ResumeBranch(i) \/ CompleteResume(i) \/ AnswererStops(i)
    <3>1. PICK label \in {"idle", "complete"} : Continue(i, label)
      BY <2>3 DEF ResumeBranch, CompleteResume, AnswererStops
    <3>2. answering'[i] = label /\ \A b \in Actions : b # i => item'[b] = item[b]
      BY <1>1, <2>3, <3>1 DEF ResumeBranch, CompleteResume, AnswererStops, Continue
    <3>3. AnswerInv(i)'
      BY <3>2 DEF AnswerInv, At
    <3>4. QED
      BY <1>4, <3>1, <3>2, <3>3
  <2>4. CASE RestoreWait(i) \/ Lapse(i)
    BY <1>2, <2>4 DEF RestoreWait, Lapse
  <2>5. QED
    BY <1>5, <2>1, <2>2, <2>3, <2>4 DEF InboxStep
<1>6. ASSUME NEW i \in Actions, HandleAnswer(i) \/ CloseAnswered(i)
      PROVE  AnswersInv'
  <2>1. PICK label \in {"idle", "close", "resume"} :
          /\ Continue(i, label)
          /\ label = "close" => At(i, "handle") /\ Told(i) # "approved"
          /\ label = "resume" => Told(i) \in {"approved", "denied"}
    BY <1>6 DEF HandleAnswer, CloseAnswered, AfterHandler
  <2>2. item' = item /\ answering'[i] = label
    BY <1>1, <1>6, <2>1 DEF HandleAnswer, CloseAnswered, Continue
  <2>3. AnswerInv(i)'
    BY <1>1, <2>1, <2>2 DEF AnswerInv, At, Told, Refusals
  <2>4. QED
    BY <1>4, <2>1, <2>2, <2>3
<1>7. ASSUME NEW i \in Actions, Regrant(i) \/ ResumeVerification(i)
      PROVE  AnswersInv'
  BY <1>2, <1>7 DEF Regrant, ResumeVerification, inboxVars
<1>8. CASE BranchStep \/ ChangePolicy \/ UNCHANGED vars
  BY <1>2, <1>8 DEF BranchStep, LeaseBranch, CancelBranch, ChangePolicy, inboxVars, vars
<1>9. QED
  BY <1>3, <1>5, <1>6, <1>7, <1>8 DEF Next

LEMMA InitInv == Init => TypeOK /\ Inv /\ AnswersInv
<1> SUFFICES ASSUME Init PROVE TypeOK /\ Inv /\ AnswersInv
  OBVIOUS
<1>1. InboxTypeOK
  <2>1. Unasked \in InboxItem
    BY InboxBounds DEF Unasked, InboxItem, Statuses
  <2>2. branch \in Branch
    <3>1. /\ "running" \in BranchStates /\ "unsupervised" \in BranchStates
          /\ 0 \in 0..MaxBranchAttempts /\ 1 \in 0..MaxBranchAttempts
      BY InboxBounds DEF BranchStates
    <3>2. QED
      BY <3>1, ConstantsType DEF Init, InboxInit, Branch
  <2>3. QED
    BY <2>1, <2>2 DEF Init, InboxInit, InboxTypeOK
<1>2. TypeOK
  <2>1. policy \in 1..Len(Outcomes)
    BY GatewayBounds, LenProperties DEF Init
  <2>2. grants \in Seq(Grant) /\ Len(grants) <= MaxGrants
    BY GatewayBounds, EmptySeq DEF Init
  <2>3. QED
    BY <1>1, <2>1, <2>2, RestingType, ConstantsType DEF Init, TypeOK, NoAction
<1>3. Inv
  BY DEF Init, InboxInit, Inv, ActionInv, WorkerInv, Apart, Holds, In, Absent, Unasked, Resting,
     Bound, Human
<1>4. AnswersInv
  BY DEF Init, InboxInit, AnswersInv, AnswerInv, At
<1>5. QED
  BY <1>2, <1>3, <1>4

\* Every variable keeps its type, for every number of workers and actions.
THEOREM GatewayTypes == Spec => []TypeOK
<1>1. Init => TypeOK /\ Inv /\ AnswersInv
  BY InitInv
<1>2. (TypeOK /\ Inv /\ AnswersInv) /\ [Next]_vars => (TypeOK /\ Inv /\ AnswersInv)'
  BY TypeStep, InvStep, AnswersStep
<1>3. QED
  BY <1>1, <1>2, PTL DEF Spec

\* File, copies, item and effects agree as Inv says, and who is on the way to the branch
\* holds an answer (AnswersInv).
THEOREM GatewayInvariant == Spec => [](TypeOK /\ Inv /\ AnswersInv)
<1>1. Init => TypeOK /\ Inv /\ AnswersInv
  BY InitInv
<1>2. (TypeOK /\ Inv /\ AnswersInv) /\ [Next]_vars => (TypeOK /\ Inv /\ AnswersInv)'
  BY TypeStep, InvStep, AnswersStep
<1>3. QED
  BY <1>1, <1>2, PTL DEF Spec

\* An action that asks for a person has no side effect before the approval of its
\* item was spent (execute, claim_action_execution).
THEOREM NoEffectWithoutDecision == Spec => []EffectsNeedDecision
<1>1. TypeOK /\ Inv => EffectsNeedDecision
  <2>1. ASSUME Inv, NEW a \in Actions, effects[a] > 0, Outcomes[action[a].policy] = "require_approval"
        PROVE  item[a].claimed
    <3>1. ActionInv(a)
      BY <2>1 DEF Inv
    <3>2. effects[a] = 1 /\ action[a].policy # 0
      BY <2>1, <3>1 DEF ActionInv
    <3>3. QED
      BY <2>1, <3>1, <3>2 DEF ActionInv, Human
  <2>2. QED
    BY <2>1 DEF EffectsNeedDecision
<1>2. QED
  BY <1>1, GatewayInvariant, PTL

\* A waiting branch goes on only for an answer of the item it waits for, and once,
\* whoever dies, expires, cancels or withdraws meanwhile (_resume).
THEOREM BranchResumesOnAnswer == Spec => ResumesOnAnswer
<1>1. TypeOK /\ AnswersInv /\ [Next]_vars =>
        [branch.state = "waiting" /\ branch'.state = "queued" =>
           /\ item[branch.waitsFor].status \in {"approved", "denied", "superseded"}
           /\ branch.waitsFor \notin branch.resumedBy]_vars
  <2>1. SUFFICES ASSUME TypeOK, AnswersInv, Next, branch.state = "waiting",
                        branch'.state = "queued"
                 PROVE  /\ item[branch.waitsFor].status \in {"approved", "denied", "superseded"}
                        /\ branch.waitsFor \notin branch.resumedBy
    OBVIOUS
  <2>2. branch \in Branch /\ branch' # branch
    BY <2>1 DEF TypeOK, InboxTypeOK
  <2>3. ~BranchStep /\ ~ChangePolicy
    BY <2>1, <2>2 DEF BranchStep, LeaseBranch, CancelBranch, ChangePolicy, inboxVars, Branch
  <2>4. \A w \in Workers : ~SuspendBranch(w)
    BY <2>1, <2>2 DEF SuspendBranch, WaitFor, Branch
  <2>5. \A w \in Workers : ~WorkerStep(w)
    BY <2>2, <2>4 DEF WorkerStep, ReadAction, AdoptPrior, CreateAction, Decide, AskHuman, LinkItem,
       WithdrawOld, CancelOld, ReleaseKey, ReportPrior, ExpireAction, AskLate, StillOpen, Refused,
       UseDecision, Consume, Stamp, FindDecision, ClaimBranch, SpendDecision, ClaimExecution,
       Perform, RecordOutcome, InvalidateAction, VerifyOutcome, Crash, inboxVars
  <2>6. \A i \in Actions : ~RestoreWait(i)
    BY <2>1, <2>2 DEF RestoreWait, WaitFor, Branch
  <2>7. PICK i \in Actions : ResumeBranch(i)
    BY <2>1, <2>2, <2>3, <2>5, <2>6 DEF Next, InboxStep, Respond, ExpireItem, CancelItem,
       ReconcileAnswer, ReplayResponse, CompleteResume, AnswererStops, Lapse, HandleAnswer,
       CloseAnswered, Regrant, ResumeVerification, inboxVars
  <2>8. At(i, "resume") /\ branch.waitsFor = i /\ i \notin branch.resumedBy
    BY <2>2, <2>7 DEF ResumeBranch
  <2>9. QED
    BY <2>1, <2>8 DEF AnswersInv, AnswerInv
<1>2. QED
  BY <1>1, GatewayInvariant, PTL DEF Spec, ResumesOnAnswer

----------------------------------------------------------------------------
(* ActionGateway implements HumanDecision. *)

decisions == [a \in Actions |-> Decision(item[a].status)]
spentItems == {a \in Actions : item[a].claimed}

LEMMA PromiseStutters ==
  ASSUME effects' = effects,
         \A b \in Actions : /\ item'[b].status = item[b].status
                            /\ item'[b].claimed = item[b].claimed
  PROVE  UNCHANGED Promise!vars
<1>1. decisions' = decisions
  BY DEF decisions
<1>2. spentItems' = spentItems
  BY DEF spentItems
<1>3. QED
  BY <1>1, <1>2 DEF decisions, spentItems, Promise!vars

\* One item's status changes.
LEMMA PromiseDecides ==
  ASSUME NEW i \in Actions, effects' = effects,
         \A b \in Actions : /\ b # i => item'[b].status = item[b].status
                            /\ item'[b].claimed = item[b].claimed
  PROVE  Promise!Decided(i, Decision(item'[i].status))
<1>1. decisions' = [decisions EXCEPT ![i] = Decision(item'[i].status)]
  BY DEF decisions
<1>2. spentItems' = spentItems
  BY DEF spentItems
<1>3. QED
  BY <1>1, <1>2 DEF decisions, spentItems, Promise!Decided

LEMMA DecisionOf ==
  ASSUME NEW status
  PROVE  /\ status = "none" => Decision(status) = "none"
         /\ status \in UNRESOLVED => Decision(status) = "open"
         /\ status = "approved" => Decision(status) = "approved"
         /\ status \in Refusals => Decision(status) = "refused"
         /\ status \in Statuses /\ Decision(status) = "none" => status = "none"
BY DEF Decision, UNRESOLVED, Refusals, Statuses

LEMMA AskPromised ==
  ASSUME TypeOK, Inv, NEW w \in Workers, AskHuman(w)
  PROVE  [Promise!Next]_(Promise!vars)
<1>1. Id(w) \in Actions /\ ActionInv(Id(w)) /\ Human(action[Id(w)].policy)
  BY DEF Inv, WorkerInv, AskHuman, Holds, In, Human
<1>2. PICK a \in Actions : a = Id(w)
  BY <1>1
<1>3. effects' = effects
  BY DEF AskHuman
<1>4. CASE item' = item
  BY <1>3, <1>4, PromiseStutters
<1>5. CASE item[a].status = "none" /\ CreateItem(a)
  <2>1. /\ item'[a].status = "pending" /\ ~item'[a].claimed
        /\ \A b \in Actions : b # a => item'[b] = item[b]
    BY <1>5 DEF CreateItem, Unasked, TypeOK, InboxTypeOK
  <2>2. ~item[a].claimed /\ effects[a] = 0 /\ item[a].claimed \in BOOLEAN /\ item'[a].claimed = FALSE
    BY <1>1, <1>2, <1>5 DEF ActionInv, CreateItem, Unasked, TypeOK, InboxTypeOK, InboxItem
  <2>3. Promise!Decided(a, "open")
    <3>1. item[a].claimed = FALSE
      BY <2>2
    <3>2. \A b \in Actions : /\ b # a => item'[b].status = item[b].status
                             /\ item'[b].claimed = item[b].claimed
      BY <2>1, <2>2, <3>1
    <3>3. Promise!Decided(a, Decision(item'[a].status))
      BY <1>3, <3>2, PromiseDecides
    <3>4. Decision(item'[a].status) = "open"
      BY <2>1, DecisionOf DEF UNRESOLVED
    <3>5. QED
      BY <3>3, <3>4
  <2>4. Decision(item[a].status) = "none"
    BY <1>5, DecisionOf
  <2>5. Promise!Ask(a)
    BY <2>2, <2>3, <2>4 DEF Promise!Ask
  <2>6. QED
    BY <2>5 DEF Promise!Next
<1>6. QED
  BY <1>2, <1>4, <1>5 DEF AskHuman

LEMMA SettlePromised ==
  ASSUME TypeOK, NEW i \in Actions, effects' = effects,
         NEW status \in {"approved", "denied", "expired", "cancelled"}, Settle(i, status)
  PROVE  [Promise!Next]_(Promise!vars)
<1>1. /\ item[i].status \in UNRESOLVED /\ item'[i].status = status
      /\ \A b \in Actions : b # i => item'[b].status = item[b].status
      /\ \A b \in Actions : item'[b].claimed = item[b].claimed
  BY DEF Settle, TypeOK, InboxTypeOK, InboxItem
<1>2. Promise!Decided(i, Decision(status)) /\ Decision(item[i].status) = "open"
  BY <1>1, PromiseDecides, DecisionOf
<1>3. Decision(status) \in {"approved", "refused"}
  BY DecisionOf DEF Refusals
<1>4. Promise!Answer(i)
  BY <1>2, <1>3 DEF Promise!Answer
<1>5. QED
  BY <1>4 DEF Promise!Next

LEMMA WithdrawPromised ==
  ASSUME TypeOK, Inv, NEW w \in Workers, WithdrawOld(w) \/ InvalidateAction(w)
  PROVE  [Promise!Next]_(Promise!vars)
<1>1. PICK i \in Actions : i = Id(w) /\ item' = Superseded(i)
  BY DEF Inv, WorkerInv, WithdrawOld, InvalidateAction, PolicyChanged, Holds, In, Withdraw
<1>2. effects' = effects
  BY DEF WithdrawOld, InvalidateAction
<1>3. CASE item' = item
  BY <1>2, <1>3, PromiseStutters
<1>4. CASE /\ item[i].status \in UNRESOLVED \cup {"approved"}
           /\ item' = [item EXCEPT ![i].status = "superseded"]
  <2>1. /\ item'[i].status = "superseded"
        /\ \A b \in Actions : b # i => item'[b].status = item[b].status
        /\ \A b \in Actions : item'[b].claimed = item[b].claimed
    BY <1>4 DEF TypeOK, InboxTypeOK, InboxItem
  <2>2. Promise!Decided(i, "refused")
    BY <1>2, <2>1, PromiseDecides, DecisionOf DEF Refusals
  <2>3. Decision(item[i].status) \in {"open", "approved"}
    BY <1>4, DecisionOf
  <2>4. Promise!Answer(i) \/ Promise!Withdraw(i)
    BY <2>2, <2>3 DEF Promise!Answer, Promise!Withdraw
  <2>5. QED
    BY <2>4 DEF Promise!Next
<1>5. QED
  BY <1>1, <1>3, <1>4 DEF Superseded

LEMMA SpendPromised ==
  ASSUME TypeOK, Inv, NEW w \in Workers, SpendDecision(w)
  PROVE  [Promise!Next]_(Promise!vars)
<1>1. PICK a \in Actions : a = Id(w)
  BY DEF Inv, WorkerInv, SpendDecision, Holds, In
<1>2. effects' = effects
  BY DEF SpendDecision
<1>3. CASE item' = item
  BY <1>2, <1>3, PromiseStutters
<1>4. CASE Spendable(a) /\ item' = [item EXCEPT ![a].claimed = TRUE]
  <2>1. /\ \A b \in Actions : item'[b].status = item[b].status
        /\ item'[a].claimed = TRUE
        /\ \A b \in Actions : b # a => item'[b].claimed = item[b].claimed
        /\ ~item[a].claimed /\ item[a].status = "approved"
    BY <1>4 DEF Spendable, TypeOK, InboxTypeOK, InboxItem
  <2>2. decisions' = decisions
    BY <2>1 DEF decisions
  <2>3. spentItems' = spentItems \cup {a} /\ a \notin spentItems
    BY <2>1 DEF spentItems
  <2>4. decisions[a] = "approved"
    BY <2>1, DecisionOf DEF decisions
  <2>5. Promise!Spend(a)
    BY <1>2, <2>2, <2>3, <2>4 DEF decisions, spentItems, Promise!Spend
  <2>6. QED
    BY <2>5 DEF Promise!Next
<1>5. QED
  BY <1>1, <1>3, <1>4 DEF SpendDecision

LEMMA PerformPromised ==
  ASSUME TypeOK, Inv, NEW w \in Workers, Perform(w)
  PROVE  [Promise!Next]_(Promise!vars)
<1>1. /\ WorkerInv(w) /\ Holds(w) /\ In(w, "effect") /\ Copy(w).policy # 0
      /\ Id(w) \in Actions /\ action[Id(w)].policy = Copy(w).policy
  BY DEF Inv, WorkerInv, Perform, Holds, In
<1>2. PICK a \in Actions : a = Id(w) /\ ActionInv(a)
  BY <1>1 DEF Inv
<1>3. item' = item
  BY DEF Perform, inboxVars
<1>4. effects[a] = 0
  BY <1>1, <1>2 DEF WorkerInv, In
<1>5. CASE effects' = effects
  BY <1>3, <1>5, PromiseStutters
<1>6. CASE effects' = [effects EXCEPT ![a] = @ + 1]
  <2>1. effects' = [effects EXCEPT ![a] = 1]
    BY <1>4, <1>6
  <2>2. decisions' = decisions /\ spentItems' = spentItems
    BY <1>3 DEF decisions, spentItems
  <2>3. item[a].claimed \/ item[a].status = "none"
    BY <1>1, <1>2 DEF WorkerInv, ActionInv, In
  <2>4. decisions[a] = "none" \/ a \in spentItems
    BY <2>3, DecisionOf DEF decisions, spentItems
  <2>5. Promise!Act(a)
    BY <1>4, <2>1, <2>2, <2>4 DEF decisions, spentItems, Promise!Act
  <2>6. QED
    BY <2>5 DEF Promise!Next
<1>7. QED
  BY <1>2, <1>5, <1>6 DEF Perform

LEMMA OtherStepsPromised ==
  ASSUME TypeOK, UNCHANGED <<item, effects>>
  PROVE  [Promise!Next]_(Promise!vars)
BY PromiseStutters

LEMMA InboxPromised ==
  ASSUME TypeOK, NEW i \in Actions, InboxStep(i)
  PROVE  [Promise!Next]_(Promise!vars)
<1>1. effects' = effects
  BY DEF InboxStep, gatewayVars
<1>2. CASE Respond(i) \/ ExpireItem(i) \/ CancelItem(i)
  <2>1. PICK status \in {"approved", "denied", "expired", "cancelled"} : Settle(i, status)
    BY <1>2 DEF Respond, ExpireItem, CancelItem
  <2>2. QED
    BY <1>1, <2>1, SettlePromised
<1>3. CASE CompleteResume(i)
  <2>1. \A b \in Actions : item'[b].status = item[b].status /\ item'[b].claimed = item[b].claimed
    BY <1>3 DEF CompleteResume, TypeOK, InboxTypeOK, InboxItem
  <2>2. QED
    BY <1>1, <2>1, PromiseStutters
<1>4. CASE item' = item
  BY <1>1, <1>4, OtherStepsPromised
<1>5. QED
  BY <1>2, <1>3, <1>4 DEF InboxStep, ReconcileAnswer, ReplayResponse, RestoreWait, ResumeBranch,
     AnswererStops, Lapse

\* Every step of the gateway is a step of the promise, or changes nothing of it.
LEMMA StepPromised ==
  ASSUME TypeOK, Inv, [Next]_vars
  PROVE  [Promise!Next]_(Promise!vars)
<1>1. ASSUME NEW w \in Workers, WorkerStep(w)
      PROVE  [Promise!Next]_(Promise!vars)
  <2>1. \/ AskHuman(w) \/ WithdrawOld(w) \/ InvalidateAction(w) \/ SpendDecision(w) \/ Perform(w)
        \/ UNCHANGED <<item, effects>>
    BY <1>1 DEF WorkerStep, ReadAction, AdoptPrior, CreateAction, Decide, SuspendBranch, LinkItem,
       CancelOld, ReleaseKey, ReportPrior, ExpireAction, AskLate, StillOpen, Refused, UseDecision,
       Consume, Stamp, FindDecision, ClaimBranch, ClaimExecution, RecordOutcome, VerifyOutcome, Crash,
       inboxVars
  <2>2. QED
    BY <2>1, AskPromised, WithdrawPromised, SpendPromised, PerformPromised, OtherStepsPromised
<1>2. ASSUME NEW i \in Actions,
             HandleAnswer(i) \/ CloseAnswered(i) \/ Regrant(i) \/ ResumeVerification(i)
      PROVE  [Promise!Next]_(Promise!vars)
  BY <1>2, OtherStepsPromised DEF HandleAnswer, CloseAnswered, Regrant, ResumeVerification, inboxVars
<1>3. CASE BranchStep \/ ChangePolicy \/ UNCHANGED vars
  BY <1>3, OtherStepsPromised DEF BranchStep, LeaseBranch, CancelBranch, ChangePolicy, inboxVars,
     gatewayVars, vars
<1>4. QED
  BY <1>1, <1>2, <1>3, InboxPromised DEF Next

LEMMA InitPromised == Init => Promise!Init
<1> SUFFICES ASSUME Init PROVE Promise!Init
  OBVIOUS
<1>1. decisions = [a \in Actions |-> "none"]
  BY DecisionOf DEF Init, InboxInit, Unasked, decisions
<1>2. spentItems = {}
  BY DEF Init, InboxInit, Unasked, spentItems
<1>3. QED
  BY <1>1, <1>2 DEF Init, decisions, spentItems, Promise!Init

\* The gateway and the inbox keep the promise of HumanDecision: one question per
\* action, a final answer, an approval spent once, one effect on it, for every number
\* of workers, actions, grants and policies, stale copies and crashes included.
THEOREM GatewayKeepsPromise == Spec => OneEffectPerDecision
<1>1. Init => Promise!Init
  BY InitPromised
<1>2. TypeOK /\ Inv /\ [Next]_vars => [Promise!Next]_(Promise!vars)
  BY StepPromised
<1>3. QED
  BY <1>1, <1>2, GatewayInvariant, PTL DEF Spec, OneEffectPerDecision, Promise!Spec

\* The effect of an action begins once, and where its item exists only after the item's
\* claim, whatever the files of the action say by now: read off HumanDecision.
THEOREM EffectsFollowDecisions ==
  Spec => [](\A a \in Actions : /\ effects[a] <= 1
                                 /\ effects[a] = 1 /\ item[a].status # "none" => item[a].claimed)
<1>1. TypeOK /\ (\A a \in Actions : Promise!Bound(a)) =>
        \A a \in Actions : /\ effects[a] <= 1
                            /\ effects[a] = 1 /\ item[a].status # "none" => item[a].claimed
  <2>1. SUFFICES ASSUME TypeOK, NEW a \in Actions, Promise!Bound(a)
                 PROVE  /\ effects[a] <= 1
                        /\ effects[a] = 1 /\ item[a].status # "none" => item[a].claimed
    OBVIOUS
  <2>2. item[a].status # "none" => Decision(item[a].status) # "none"
    BY <2>1 DEF Decision, TypeOK, InboxTypeOK, InboxItem, Statuses, UNRESOLVED, Refusals
  <2>3. QED
    BY <2>1, <2>2 DEF Promise!Bound
<1>2. QED
  BY <1>1, GatewayTypes, GatewayKeepsPromise, Promise!DecisionsBind, PTL DEF OneEffectPerDecision

\* A refusal, an expiry or a withdrawal of an item is final, and so is the claim of its
\* approval: read off HumanDecision.
THEOREM RefusalsStand ==
  Spec => [][\A a \in Actions :
               /\ item[a].status \in Refusals => item'[a].status \in Refusals
               /\ item[a].claimed => item'[a].claimed]_vars
<1>1. TypeOK /\ TypeOK' /\ [\A a \in Actions : Promise!Stands(a)]_(Promise!vars) =>
        [\A a \in Actions :
           /\ item[a].status \in Refusals => item'[a].status \in Refusals
           /\ item[a].claimed => item'[a].claimed]_vars
  <2>1. SUFFICES ASSUME TypeOK, TypeOK', NEW a \in Actions,
                        Promise!Stands(a) \/ UNCHANGED Promise!vars
                 PROVE  /\ item[a].status \in Refusals => item'[a].status \in Refusals
                        /\ item[a].claimed => item'[a].claimed
    OBVIOUS
  <2>2. /\ Decision(item[a].status) = "refused" <=> item[a].status \in Refusals
        /\ Decision(item'[a].status) = "refused" <=> item'[a].status \in Refusals
    <3>1. item[a].status \in Statuses /\ item'[a].status \in Statuses
      BY <2>1 DEF TypeOK, InboxTypeOK, InboxItem
    <3>2. \A status \in Statuses : Decision(status) = "refused" <=> status \in Refusals
      BY DEF Statuses, Decision, UNRESOLVED, Refusals
    <3>3. QED
      BY <3>1, <3>2
  <2>3. CASE Promise!Stands(a)
    BY <2>1, <2>2, <2>3 DEF Promise!Stands
  <2>4. CASE UNCHANGED Promise!vars
    <3>1. /\ decisions' = decisions /\ spentItems' = spentItems
      BY <2>4 DEF Promise!vars, decisions, spentItems
    <3>2. /\ Decision(item'[a].status) = Decision(item[a].status)
          /\ item'[a].claimed <=> item[a].claimed
      BY <2>1, <3>1 DEF decisions, spentItems
    <3>3. QED
      BY <2>2, <3>2
  <2>5. QED
    BY <2>1, <2>3, <2>4
<1>2. QED
  BY <1>1, GatewayTypes, GatewayKeepsPromise, Promise!DecisionsStand, PTL DEF OneEffectPerDecision
=============================================================================
