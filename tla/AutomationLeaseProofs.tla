------------------------ MODULE AutomationLeaseProofs ------------------------
(***************************************************************************)
(* The types of AutomationLease and its two safety properties, for every   *)
(* number of executors, editors and attempts.                              *)
(*                                                                         *)
(* A run that has not lost its lease still holds it, unexpired (Held), so  *)
(* of two runs alive at once one has lost its.  A one-time automation that *)
(* is over has no next occurrence, and no copy read since has one (Ended). *)
(***************************************************************************)
EXTENDS AutomationLease, TLAPS

Held == \A e \in Executors : Busy(e) /\ e \notin lost => lease = [holder |-> e, expired |-> FALSE]

Ended ==
  over => /\ record.next = "none"
          /\ \A d \in Editors : editor[d].pc \in {"edit", "deploy"} /\ d \notin early
                              => editor[d].copy.next = "none"

Inv == TypeOK /\ Held /\ Ended

----------------------------------------------------------------------------

LEMMA DefinitionUpdates ==
  ASSUME NEW c \in Definition
  PROVE  /\ \A on \in BOOLEAN : [c EXCEPT !.enabled = on] \in Definition
         /\ \A once \in BOOLEAN : [c EXCEPT !.once = once, !.next = "later"] \in Definition
         /\ \A n \in {"none", "later", "due"} : [c EXCEPT !.next = n] \in Definition
         /\ \A n \in 0..MaxAttempts :
              [c EXCEPT !.status = "running", !.attempt = n] \in Definition
BY DEF Definition

LEMMA ConstantDefinitions ==
  /\ Nothing \in Definition /\ \A once \in BOOLEAN : Created(once) \in Definition
  /\ Free \in [holder: Executors \cup {NoRun}, expired: BOOLEAN]
BY LeaseConstants DEF Nothing, Created, Definition, Free

LEMMA UpsertType ==
  ASSUME NEW c \in Definition, NEW d, TypeOK, Upsert(d, c)
  PROVE  record' \in Definition /\ over' \in BOOLEAN
BY DefinitionUpdates DEF Upsert, TypeOK

LEMMA FinishType ==
  ASSUME TypeOK, NEW e \in Executors, NEW status \in {"done", "failed"}, Finish(e, status)
  PROVE  /\ record' \in Definition
         /\ lease' \in [holder: Executors \cup {NoRun}, expired: BOOLEAN]
         /\ lost' \subseteq Executors /\ over' \in BOOLEAN /\ early' \subseteq Editors
<1>1. record' \in Definition
  <2>1. \A n \in {"none", "later", "due"}, on \in BOOLEAN, k \in 0..MaxAttempts :
          [record EXCEPT !.status = status, !.attempt = k, !.enabled = on, !.next = n] \in Definition
    BY DEF TypeOK, Definition
  <2>2. 1 \in 0..MaxAttempts /\ record.attempt \in 0..MaxAttempts /\ record.enabled \in BOOLEAN
    BY LeaseConstants DEF TypeOK, Definition
  <2>3. PICK n \in {"none", "later", "due"}, on \in BOOLEAN, k \in 0..MaxAttempts :
          record' = [record EXCEPT !.status = status, !.attempt = k, !.enabled = on, !.next = n]
    <3>1. PICK next \in {"later", "due"} :
            LET ended == record.once /\ ~Retried(status)
            IN record' = [record EXCEPT !.status = status,
                                   !.attempt = IF record.status = "none" THEN 1 ELSE @,
                                   !.enabled = @ /\ ~ended,
                                   !.next = IF Retried(status) THEN "later"
                                            ELSE IF ended THEN "none" ELSE next]
      BY DEF Finish
    <3> DEFINE k == IF record.status = "none" THEN 1 ELSE record.attempt
               on == record.enabled /\ ~(record.once /\ ~Retried(status))
               n == IF Retried(status) THEN "later"
                    ELSE IF record.once /\ ~Retried(status) THEN "none" ELSE next
    <3>2. k \in 0..MaxAttempts /\ on \in BOOLEAN /\ n \in {"none", "later", "due"}
      BY <2>2
    <3>3. record' = [record EXCEPT !.status = status, !.attempt = k, !.enabled = on, !.next = n]
      BY <3>1
    <3> HIDE DEF k, on, n
    <3>4. QED
      BY <3>2, <3>3
  <2>4. QED
    BY <2>1, <2>3
<1>2. lost' \subseteq Executors
  BY DEF Finish, LostWith, TypeOK
<1>3. over' \in BOOLEAN /\ early' \subseteq Editors
  BY DEF Finish, Completes, TypeOK, Definition
<1>4. QED
  BY <1>1, <1>2, <1>3, ConstantDefinitions DEF Finish

LEMMA GotoType ==
  ASSUME TypeOK, NEW e \in Executors, NEW label \in ExecutorLabels, Goto(e, label)
  PROVE  executor' \in [Executors -> ExecutorLabels]
BY DEF TypeOK, Goto

LEMMA EditorGotoType ==
  ASSUME TypeOK, NEW d \in Editors, NEW label \in EditorLabels, EditorGoto(d, label)
  PROVE  /\ editor' \in [Editors -> [pc: EditorLabels, copy: Definition]]
         /\ early' \subseteq Editors
BY ConstantDefinitions DEF TypeOK, EditorGoto

LEMMA ExecutorType ==
  ASSUME TypeOK, NEW e \in Executors, ExecutorStep(e)
  PROVE  TypeOK'
<1>1. CASE Acquire(e)
  <2>1. NextAttempt \in 0..MaxAttempts
    BY LeaseConstants DEF NextAttempt, TypeOK, Definition
  <2>2. record' \in Definition
    BY <1>1, <2>1, DefinitionUpdates DEF Acquire, TypeOK
  <2>3. executor' \in [Executors -> ExecutorLabels]
    BY <1>1, GotoType DEF Acquire, ExecutorLabels
  <2>4. QED
    BY <1>1, <2>2, <2>3 DEF Acquire, TypeOK
<1>2. CASE StartRun(e) \/ StartFails(e) \/ AcceptEnded(e) \/ Crash(e) \/ FinishDeleted(e)
  <2>1. executor' \in [Executors -> ExecutorLabels]
    BY <1>2, GotoType DEF StartRun, StartFails, AcceptEnded, Crash, FinishDeleted, ExecutorLabels
  <2>2. QED
    BY <1>2, <2>1, ConstantDefinitions DEF StartRun, StartFails, AcceptEnded, Crash,
       FinishDeleted, LostWithout, TypeOK
<1>3. ASSUME NEW status \in {"done", "failed"}, NEW label \in ExecutorLabels,
             Finish(e, status), Goto(e, label)
      PROVE  TypeOK'
  <2>1. /\ record' \in Definition /\ lost' \subseteq Executors
        /\ over' \in BOOLEAN /\ early' \subseteq Editors
        /\ lease' \in [holder: Executors \cup {NoRun}, expired: BOOLEAN]
    BY <1>3, FinishType
  <2>2. executor' \in [Executors -> ExecutorLabels]
    BY <1>3, GotoType
  <2>3. UNCHANGED editor
    BY <1>3 DEF Finish
  <2>4. QED
    BY <2>1, <2>2, <2>3 DEF TypeOK
<1>4. QED
  BY <1>1, <1>2, <1>3 DEF ExecutorStep, SkipRun, EndRun, FailEnded, ExecutorLabels

LEMMA EditorType ==
  ASSUME TypeOK, NEW d \in Editors, EditorStep(d)
  PROVE  TypeOK'
<1>1. CASE ReadRecord(d)
  <2>1. editor' \in [Editors -> [pc: EditorLabels, copy: Definition]]
    BY <1>1 DEF ReadRecord, TypeOK, EditorLabels
  <2>2. QED
    BY <1>1, <2>1 DEF ReadRecord, TypeOK
<1>2. CASE EditorStops(d)
  BY <1>2, EditorGotoType DEF EditorStops, EditorLabels, TypeOK
<1>3. CASE SaveUpdate(d)
  <2> DEFINE c == editor[d].copy
  <2>1. c \in Definition
    BY DEF TypeOK
  <2>2. \/ \E on \in BOOLEAN : Upsert(d, [c EXCEPT !.enabled = on])
        \/ /\ \E once \in BOOLEAN : record' = [c EXCEPT !.once = once, !.next = "later"]
           /\ over' = FALSE
    BY <1>3 DEF SaveUpdate
  <2> HIDE DEF c
  <2>3. record' \in Definition /\ over' \in BOOLEAN
    BY <2>1, <2>2, DefinitionUpdates, UpsertType DEF TypeOK
  <2>4. QED
    BY <1>3, <2>3, EditorGotoType DEF SaveUpdate, EditorLabels, TypeOK
<1>4. CASE SaveDeployment(d)
  <2>1. editor[d].copy \in Definition
    BY DEF TypeOK
  <2>2. QED
    BY <1>4, <2>1, UpsertType, EditorGotoType DEF SaveDeployment, EditorLabels, TypeOK
<1>5. CASE Delete(d)
  <2>1. lost' \subseteq Executors
    BY <1>5 DEF Delete, LostWith, TypeOK
  <2>2. QED
    BY <1>5, <2>1, ConstantDefinitions, EditorGotoType DEF Delete, EditorLabels, TypeOK
<1>6. QED
  BY <1>1, <1>2, <1>3, <1>4, <1>5 DEF EditorStep

LEMMA TypeStep ==
  ASSUME TypeOK, [Next]_vars
  PROVE  TypeOK'
<1>1. CASE Expire
  BY <1>1 DEF Expire, LostWith, TypeOK
<1>2. CASE FallsDue
  BY <1>2, DefinitionUpdates DEF FallsDue, TypeOK
<1>3. CASE UNCHANGED vars
  BY <1>3 DEF vars, TypeOK
<1>4. QED
  BY <1>1, <1>2, <1>3, ExecutorType, EditorType DEF Next

----------------------------------------------------------------------------

LEMMA HeldStep ==
  ASSUME TypeOK, Held, [Next]_vars
  PROVE  Held'
<1>1. ASSUME NEW e \in Executors, ExecutorStep(e)
      PROVE  Held'
  <2>1. CASE Acquire(e)
    <3>1. /\ executor' \in [Executors -> ExecutorLabels] /\ lost' = lost
          /\ lease' = [holder |-> e, expired |-> FALSE]
          /\ \A f \in Executors : f # e => executor'[f] = executor[f]
          /\ lease.holder = NoRun \/ lease.expired
      BY <2>1, GotoType DEF Acquire, Claimable, Goto, TypeOK, ExecutorLabels
    <3>2. \A f \in Executors : f # e /\ Busy(f) => f \in lost
      BY <3>1, LeaseConstants DEF Held
    <3>3. QED
      BY <3>1, <3>2 DEF Held, Busy
  <2>2. CASE StartRun(e)
    BY <2>2 DEF StartRun, Goto, Held, At, Busy, TypeOK
  <2>3. CASE AcceptEnded(e)
    BY <2>3 DEF AcceptEnded, Goto, Held, Busy, TypeOK
  <2>4. CASE StartFails(e) \/ Crash(e) \/ FinishDeleted(e)
    <3>1. /\ lost' = lost \ {e} /\ executor'[e] = "idle"
          /\ \A f \in Executors : f # e => executor'[f] = executor[f]
          /\ lease' = lease \/ lease.holder = e
      BY <2>4 DEF StartFails, Crash, FinishDeleted, LostWithout, Goto, TypeOK
    <3>2. QED
      BY <3>1 DEF Held, Busy
  <2>5. ASSUME NEW status, NEW label \in {"idle", "ended"}, Finish(e, status), Goto(e, label)
        PROVE  Held'
    <3>1. /\ executor'[e] = label
          /\ \A f \in Executors : f # e => executor'[f] = executor[f]
      BY <2>5 DEF Goto, TypeOK
    <3>2. \A f \in Executors : f # e /\ Busy(f) => f \in lost'
      BY <2>5, LeaseConstants DEF Finish, LostWith, Held
    <3>3. QED
      BY <3>1, <3>2 DEF Held, Busy
  <2>6. QED
    BY <1>1, <2>1, <2>2, <2>3, <2>4, <2>5 DEF ExecutorStep, SkipRun, EndRun, FailEnded
<1>2. ASSUME NEW d \in Editors, EditorStep(d)
      PROVE  Held'
  <2>1. CASE Delete(d)
    <3>1. executor' = executor /\ \A f \in Executors : Busy(f) => f \in lost'
      BY <2>1, LeaseConstants DEF Delete, LostWith, Held
    <3>2. QED
      BY <3>1 DEF Held, Busy
  <2>2. CASE UNCHANGED <<lease, executor, lost>>
    BY <2>2 DEF Held, Busy
  <2>3. QED
    BY <1>2, <2>1, <2>2 DEF EditorStep, ReadRecord, EditorStops, SaveUpdate, SaveDeployment
<1>3. CASE Expire
  <2>1. executor' = executor /\ \A f \in Executors : Busy(f) => f \in lost'
    BY <1>3, LeaseConstants DEF Expire, LostWith, Held
  <2>2. QED
    BY <2>1 DEF Held, Busy
<1>4. CASE UNCHANGED <<lease, executor, lost>>
  BY <1>4 DEF Held, Busy
<1>5. QED
  BY <1>1, <1>2, <1>3, <1>4 DEF Next, FallsDue, vars

\* Editor d saves its copy or drops it: the other editors keep theirs.
LEMMA EditorGotoEnded ==
  ASSUME TypeOK, Ended, NEW d \in Editors, NEW label \in {"idle", "redeploy"}, EditorGoto(d, label),
         over' => over /\ record'.next = "none"
  PROVE  Ended'
<1>1. /\ editor'[d].pc = label /\ early' = early \ {d}
      /\ \A f \in Editors : f # d => editor'[f] = editor[f]
  BY DEF EditorGoto, TypeOK
<1>2. QED
  BY <1>1 DEF Ended

LEMMA UpsertEnded ==
  ASSUME TypeOK, Ended, NEW d \in Editors, editor[d].pc \in {"edit", "deploy"},
         NEW c, c.next = editor[d].copy.next, Upsert(d, c)
  PROVE  over' => over /\ record'.next = "none"
BY DEF Upsert, Ended

LEMMA EndedStep ==
  ASSUME TypeOK, Ended, [Next]_vars
  PROVE  Ended'
<1>1. ASSUME NEW e \in Executors, ExecutorStep(e)
      PROVE  Ended'
  <2>1. CASE Acquire(e)
    BY <2>1 DEF Acquire, Ended, TypeOK, Definition
  <2>2. ASSUME NEW status, Finish(e, status)
        PROVE  Ended'
    <3>1. /\ over' = (record.once /\ ~Retried(status)) /\ editor' = editor
          /\ early' = IF over THEN early
                      ELSE {d \in Editors : editor[d].pc \in {"edit", "deploy"}}
      BY <2>2 DEF Finish, Completes
    <3>2. over' => record'.next = "none"
      BY <2>2, <3>1 DEF Finish, TypeOK, Definition
    <3>3. \A d \in Editors : editor[d].pc \in {"edit", "deploy"} /\ d \notin early'
                            => editor[d].copy.next = "none"
      BY <3>1 DEF Ended
    <3>4. QED
      BY <3>1, <3>2, <3>3 DEF Ended
  <2>3. CASE UNCHANGED <<record, editor, over, early>>
    BY <2>3 DEF Ended
  <2>4. QED
    BY <1>1, <2>1, <2>2, <2>3 DEF ExecutorStep, StartRun, StartFails, SkipRun, EndRun, FailEnded,
       FinishDeleted, AcceptEnded, Crash
<1>2. ASSUME NEW d \in Editors, EditorStep(d)
      PROVE  Ended'
  <2> DEFINE c == editor[d].copy
  <2>1. c \in Definition
    BY DEF TypeOK
  <2>2. CASE ReadRecord(d)
    <3>1. /\ UNCHANGED <<record, over, early>>
          /\ editor'[d].copy = record
          /\ \A f \in Editors : f # d => editor'[f] = editor[f]
      BY <2>2 DEF ReadRecord, TypeOK
    <3>2. QED
      BY <3>1 DEF Ended
  <2>3. CASE EditorStops(d)
    BY <2>3, EditorGotoEnded DEF EditorStops, Ended
  <2>4. CASE SaveUpdate(d)
    <3>1. EditorGoto(d, "redeploy") /\ editor[d].pc = "edit"
      BY <2>4 DEF SaveUpdate
    <3>2. over' => over /\ record'.next = "none"
      <4>1. CASE over' = FALSE
        BY <4>1
      <4>2. ASSUME NEW on \in BOOLEAN, Upsert(d, [c EXCEPT !.enabled = on])
            PROVE  over' => over /\ record'.next = "none"
        <5> HIDE DEF c
        <5>1. [c EXCEPT !.enabled = on].next = c.next
          BY <2>1 DEF Definition
        <5>2. QED
          BY <3>1, <4>2, <5>1, UpsertEnded DEF c
      <4>3. QED
        BY <2>4, <4>1, <4>2 DEF SaveUpdate
    <3>3. QED
      BY <3>1, <3>2, EditorGotoEnded
  <2>5. CASE SaveDeployment(d)
    <3>1. EditorGoto(d, "idle") /\ editor[d].pc = "deploy" /\ Upsert(d, c)
      BY <2>5 DEF SaveDeployment
    <3>2. over' => over /\ record'.next = "none"
      BY <3>1, UpsertEnded
    <3>3. QED
      BY <3>1, <3>2, EditorGotoEnded
  <2>6. CASE Delete(d)
    <3>1. EditorGoto(d, "idle") /\ over' = over /\ record'.next = "none"
      BY <2>6 DEF Delete, Nothing
    <3>2. QED
      BY <3>1, EditorGotoEnded
  <2>7. QED
    BY <1>2, <2>2, <2>3, <2>4, <2>5, <2>6 DEF EditorStep
<1>3. CASE FallsDue
  BY <1>3 DEF FallsDue, Ended, TypeOK, Definition
<1>4. CASE UNCHANGED <<record, editor, over, early>>
  BY <1>4 DEF Ended
<1>5. QED
  BY <1>1, <1>2, <1>3, <1>4 DEF Next, Expire, vars

LEMMA InvariantHolds == Spec => []Inv
<1>1. Init => Inv
  <2> SUFFICES ASSUME Init PROVE Inv
    OBVIOUS
  <2>1. TypeOK
    BY ConstantDefinitions DEF Init, TypeOK, ExecutorLabels, EditorLabels
  <2>2. Held /\ Ended
    BY DEF Init, Held, Busy, Ended
  <2>3. QED
    BY <2>1, <2>2 DEF Inv
<1>2. Inv /\ [Next]_vars => Inv'
  BY TypeStep, HeldStep, EndedStep DEF Inv
<1>3. QED
  BY <1>1, <1>2, PTL DEF Spec

\* Every variable keeps its type; the attempt number keeps within the retry policy.
THEOREM LeaseTypes == Spec => []TypeOK
BY InvariantHolds, PTL DEF Inv

\* Of two runs whose job executes at once, one has lost its lease (_acquire_lease).
THEOREM RunsAreExclusive == Spec => []OneRunAtATime
<1>1. Inv => OneRunAtATime
  BY DEF Inv, Held, OneRunAtATime, Busy, At
<1>2. QED
  BY <1>1, InvariantHolds, PTL

\* A one-time automation that completed is not due until another occurrence is set or a
\* copy from before is saved.
THEOREM OnceStaysOver == Spec => []OnceIsOver
<1>1. Inv => OnceIsOver
  BY DEF Inv, Ended, OnceIsOver, Due
<1>2. QED
  BY <1>1, InvariantHolds, PTL
=============================================================================
