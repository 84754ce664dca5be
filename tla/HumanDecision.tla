---------------------------- MODULE HumanDecision ----------------------------
(***************************************************************************)
(* What the human inbox and the action gateway promise together: a person  *)
(* is asked about an action at most once, an answer given or withdrawn is  *)
(* not given again, an approval is spent once, and the side effect of an   *)
(* action begins at most once, and only on a spent approval when a person  *)
(* was asked.  Who asks, answers and executes, and how often each of them  *)
(* dies and starts over, is left to ActionGateway, which implements this.  *)
(***************************************************************************)
EXTENDS Naturals, TLAPS

CONSTANT Actions

VARIABLES decision,   \* what the person decided about each action
          spent,      \* the actions whose approval was used
          effects     \* how often each action's side effect was begun

vars == <<decision, spent, effects>>

Decisions == {"none", "open", "approved", "refused"}

Init ==
  /\ decision = [a \in Actions |-> "none"]
  /\ spent = {}
  /\ effects = [a \in Actions |-> 0]

Decided(a, d) == decision' = [decision EXCEPT ![a] = d] /\ UNCHANGED <<spent, effects>>

Ask(a) == decision[a] = "none" /\ effects[a] = 0 /\ Decided(a, "open")
Answer(a) == decision[a] = "open" /\ \E d \in {"approved", "refused"} : Decided(a, d)

\* An approval may be withdrawn, before or after it is spent.
Withdraw(a) == decision[a] = "approved" /\ Decided(a, "refused")

Spend(a) ==
  /\ decision[a] = "approved" /\ a \notin spent
  /\ spent' = spent \cup {a}
  /\ UNCHANGED <<decision, effects>>

Act(a) ==
  /\ effects[a] = 0
  /\ decision[a] = "none" \/ a \in spent
  /\ effects' = [effects EXCEPT ![a] = 1]
  /\ UNCHANGED <<decision, spent>>

Next == \E a \in Actions : Ask(a) \/ Answer(a) \/ Withdraw(a) \/ Spend(a) \/ Act(a)

Spec == Init /\ [][Next]_vars

----------------------------------------------------------------------------
(* What a reader of the promise may rely on *)

\* An action has one effect at most, and one about which a person was asked has it only
\* on an approval that was spent.
Bound(a) ==
  /\ effects[a] \in {0, 1}
  /\ a \in spent => decision[a] \in {"approved", "refused"}
  /\ effects[a] = 1 /\ decision[a] # "none" => a \in spent

TypeOK ==
  /\ decision \in [Actions -> Decisions] /\ spent \subseteq Actions
  /\ effects \in [Actions -> Nat]

Inv == TypeOK /\ \A a \in Actions : Bound(a)

\* A refusal, a spent approval and an effect stay, and nobody is asked again.
Stands(a) ==
  /\ decision[a] = "refused" => decision'[a] = "refused"
  /\ decision[a] # "none" => decision'[a] # "none"
  /\ decision'[a] = "open" => decision[a] \in {"none", "open"}
  /\ a \in spent => a \in spent'
  /\ effects[a] = 1 => effects'[a] = 1

LEMMA StepBinds ==
  ASSUME Inv, [Next]_vars
  PROVE  Inv' /\ \A a \in Actions : Stands(a)
<1>1. TypeOK /\ \A a \in Actions : Bound(a)
  BY DEF Inv
<1>2. CASE UNCHANGED vars
  BY <1>1, <1>2 DEF vars, Inv, TypeOK, Bound, Stands
<1>3. ASSUME NEW a \in Actions, Ask(a) \/ Answer(a) \/ Withdraw(a)
      PROVE  Inv' /\ \A b \in Actions : Stands(b)
  <2>1. PICK d \in {"open", "approved", "refused"} :
          /\ decision' = [decision EXCEPT ![a] = d] /\ UNCHANGED <<spent, effects>>
          /\ \/ decision[a] = "none" /\ effects[a] = 0 /\ d = "open"
             \/ decision[a] = "open" /\ d # "open"
             \/ decision[a] = "approved" /\ d = "refused"
    BY <1>3 DEF Ask, Answer, Withdraw, Decided
  <2>2. TypeOK'
    BY <1>1, <2>1 DEF TypeOK, Decisions
  <2>3. \A b \in Actions : decision'[b] = IF b = a THEN d ELSE decision[b]
    BY <1>1, <2>1 DEF TypeOK
  <2>4. \A b \in Actions : Bound(b)' /\ Stands(b)
    BY <1>1, <2>1, <2>3 DEF Bound, Stands
  <2>5. QED
    BY <2>2, <2>4 DEF Inv
<1>4. ASSUME NEW a \in Actions, Spend(a) \/ Act(a)
      PROVE  Inv' /\ \A b \in Actions : Stands(b)
  BY <1>1, <1>4 DEF Spend, Act, Inv, TypeOK, Bound, Stands
<1>5. QED
  BY <1>2, <1>3, <1>4 DEF Next

LEMMA InitBinds ==
  ASSUME Init
  PROVE  Inv
  BY DEF Init, Inv, TypeOK, Bound, Decisions

\* In every implementation an effect happens once, and where a person was asked only on
\* a spent approval.
THEOREM DecisionsBind == Spec => [](\A a \in Actions : Bound(a))
<1>1. Inv => \A a \in Actions : Bound(a)
  BY DEF Inv
<1>2. QED
  BY <1>1, InitBinds, StepBinds, PTL DEF Spec

\* In every implementation a refusal, a spent approval and an effect are final.
THEOREM DecisionsStand == Spec => [][\A a \in Actions : Stands(a)]_vars
<1>1. Inv /\ [Next]_vars => [\A a \in Actions : Stands(a)]_vars
  BY StepBinds
<1>2. QED
  BY <1>1, InitBinds, StepBinds, PTL DEF Spec
=============================================================================
