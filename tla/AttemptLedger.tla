---------------------------- MODULE AttemptLedger ----------------------------
(***************************************************************************)
(* What leases and attempts are for, whoever crashes, retries or recovers: *)
(* an attempt begins when no lease is live and belongs to the one worker   *)
(* it was granted to; when that worker has forgotten it nobody revives its *)
(* lease; and records are only ever added, each under the attempt of the   *)
(* moment, a checkpoint only by the worker whose lease is live.            *)
(*                                                                         *)
(* ExecutionSupervisor and SupervisorRecovery implement it (LedgerKept).   *)
(***************************************************************************)
EXTENDS Naturals, Sequences, TLAPS

CONSTANT Workers

VARIABLES epoch,        \* the latest attempt, 0 before the first
          bearers,      \* the workers that can still present it
          live,         \* its lease holds
          results,      \* the attempt each result record was written in
          checkpoints   \* the attempt each checkpoint was written in

vars == <<epoch, bearers, live, results, checkpoints>>

Init ==
  /\ epoch = 0 /\ bearers = {} /\ live = FALSE
  /\ results = <<>> /\ checkpoints = <<>>

\* A worker is granted the next attempt.
Grant(w) ==
  /\ ~live
  /\ epoch' = epoch + 1 /\ bearers' = {w} /\ live' = TRUE
  /\ UNCHANGED <<results, checkpoints>>

\* The attempt goes on: its bearer may die, its lease may lapse, and may come back as
\* long as somebody bears the attempt.
Carry ==
  /\ epoch' = epoch
  /\ bearers' \subseteq bearers
  /\ live' \in BOOLEAN
  /\ live' => live \/ bearers' # {}

\* At most one record is added.  A failure may be recorded by anyone.
Write ==
  \/ UNCHANGED <<results, checkpoints>>
  \/ results' = Append(results, epoch) /\ UNCHANGED checkpoints
  \/ /\ live /\ bearers # {}
     /\ checkpoints' = Append(checkpoints, epoch) /\ UNCHANGED results

Next == (\E w \in Workers : Grant(w)) \/ (Carry /\ Write)

Spec == Init /\ [][Next]_vars

----------------------------------------------------------------------------
(* What a reader of the ledger may rely on *)

\* Nobody else can present the attempt of a worker.
OneBearer == \A v, w \in bearers : v = w

\* Records come in the order of their attempts.
InOrder ==
  /\ \A i, j \in DOMAIN results : i <= j => results[i] <= results[j]
  /\ \A i, j \in DOMAIN checkpoints : i <= j => checkpoints[i] <= checkpoints[j]

\* A record stays, with its attempt, where it was written.
Kept(log, after) == Len(log) <= Len(after) /\ \A r \in DOMAIN log : after[r] = log[r]

TypeOK ==
  /\ epoch \in Nat /\ bearers \subseteq Workers /\ live \in BOOLEAN
  /\ results \in Seq(Nat) /\ checkpoints \in Seq(Nat)

\* Nothing is written for an attempt that has not begun.
Begun ==
  /\ \A r \in DOMAIN results : results[r] <= epoch
  /\ \A r \in DOMAIN checkpoints : checkpoints[r] <= epoch

Inv == TypeOK /\ OneBearer /\ Begun /\ InOrder

\* A log in order stays so when the attempt of the moment is added.
LEMMA AppendInOrder ==
  ASSUME NEW log \in Seq(Nat), NEW n \in Nat,
         \A r \in DOMAIN log : log[r] <= n,
         \A i, j \in DOMAIN log : i <= j => log[i] <= log[j]
  PROVE  /\ Append(log, n) \in Seq(Nat)
         /\ Kept(log, Append(log, n))
         /\ \A r \in DOMAIN Append(log, n) : Append(log, n)[r] <= n
         /\ \A i, j \in DOMAIN Append(log, n) : i <= j => Append(log, n)[i] <= Append(log, n)[j]
<1> DEFINE after == Append(log, n)
<1>1. /\ after \in Seq(Nat) /\ Len(log) \in Nat
      /\ DOMAIN log = 1..Len(log) /\ DOMAIN after = 1..Len(log)+1 /\ Len(after) = Len(log) + 1
      /\ \A r \in 1..Len(log) : after[r] = log[r] /\ log[r] \in Nat
      /\ after[Len(log) + 1] = n
  OBVIOUS
<1> HIDE DEF after
<1>2. Kept(log, after)
  BY <1>1 DEF Kept
<1>3. \A r \in DOMAIN after : after[r] <= n
  BY <1>1
<1>4. \A i, j \in DOMAIN after : i <= j => after[i] <= after[j]
  <2>1. SUFFICES ASSUME NEW i \in DOMAIN after, NEW j \in DOMAIN after, i <= j
                 PROVE  after[i] <= after[j]
    OBVIOUS
  <2>2. CASE j = Len(log) + 1
    BY <1>1, <1>3, <2>2
  <2>3. CASE j \in 1..Len(log)
    <3>1. i \in 1..Len(log)
      BY <1>1, <2>1, <2>3
    <3>2. QED
      BY <1>1, <2>1, <2>3, <3>1
  <2>4. QED
    BY <1>1, <2>1, <2>2, <2>3
<1>5. QED
  BY <1>1, <1>2, <1>3, <1>4 DEF after

LEMMA InitKeeps ==
  ASSUME Init
  PROVE  Inv
<1>1. epoch = 0 /\ bearers = {} /\ live = FALSE /\ results = <<>> /\ checkpoints = <<>>
  BY DEF Init
<1>2. <<>> \in Seq(Nat) /\ DOMAIN results = {} /\ DOMAIN checkpoints = {}
  BY <1>1
<1>3. TypeOK
  BY <1>1, <1>2 DEF TypeOK
<1>4. OneBearer /\ Begun /\ InOrder
  BY <1>1, <1>2 DEF OneBearer, Begun, InOrder
<1>5. QED
  BY <1>3, <1>4 DEF Inv

LEMMA StepKeeps ==
  ASSUME Inv, [Next]_vars
  PROVE  Inv' /\ Kept(results, results') /\ Kept(checkpoints, checkpoints')
<1>1. /\ epoch \in Nat /\ bearers \subseteq Workers /\ live \in BOOLEAN
      /\ results \in Seq(Nat) /\ checkpoints \in Seq(Nat)
      /\ OneBearer /\ Begun /\ InOrder
  BY DEF Inv, TypeOK
<1>2. Kept(results, results) /\ Kept(checkpoints, checkpoints)
  BY <1>1 DEF Kept
<1>3. ASSUME NEW w \in Workers, Grant(w)
      PROVE  Inv' /\ Kept(results, results') /\ Kept(checkpoints, checkpoints')
  <2>1. /\ epoch' = epoch + 1 /\ bearers' = {w} /\ live' = TRUE
        /\ results' = results /\ checkpoints' = checkpoints
    BY <1>3 DEF Grant
  <2>2. TypeOK' /\ OneBearer' /\ InOrder'
    BY <1>1, <2>1 DEF TypeOK, OneBearer, InOrder
  <2>3. Begun'
    <3>1. /\ \A r \in DOMAIN results : results[r] \in Nat
          /\ \A r \in DOMAIN checkpoints : checkpoints[r] \in Nat
      BY <1>1
    <3>2. QED
      BY <1>1, <2>1, <3>1 DEF Begun
  <2>4. QED
    BY <1>2, <2>1, <2>2, <2>3 DEF Inv
<1>4. CASE Carry /\ Write
  <2>1. epoch' = epoch /\ bearers' \subseteq bearers /\ live' \in BOOLEAN
    BY <1>4 DEF Carry
  <2>2. \/ results' = results /\ checkpoints' = checkpoints
        \/ results' = Append(results, epoch) /\ checkpoints' = checkpoints
        \/ checkpoints' = Append(checkpoints, epoch) /\ results' = results
    BY <1>4 DEF Write
  <2>3. /\ results' \in Seq(Nat) /\ Kept(results, results')
        /\ \A r \in DOMAIN results' : results'[r] <= epoch
        /\ \A i, j \in DOMAIN results' : i <= j => results'[i] <= results'[j]
    BY <1>1, <1>2, <2>2, AppendInOrder DEF Begun, InOrder
  <2>4. /\ checkpoints' \in Seq(Nat) /\ Kept(checkpoints, checkpoints')
        /\ \A r \in DOMAIN checkpoints' : checkpoints'[r] <= epoch
        /\ \A i, j \in DOMAIN checkpoints' : i <= j => checkpoints'[i] <= checkpoints'[j]
    BY <1>1, <1>2, <2>2, AppendInOrder DEF Begun, InOrder
  <2>5. TypeOK' /\ OneBearer'
    BY <1>1, <2>1, <2>3, <2>4 DEF TypeOK, OneBearer
  <2>6. QED
    BY <2>1, <2>3, <2>4, <2>5 DEF Inv, Begun, InOrder
<1>5. CASE UNCHANGED vars
  BY <1>2, <1>5 DEF vars, Inv, TypeOK, OneBearer, Begun, InOrder
<1>6. QED
  BY <1>3, <1>4, <1>5 DEF Next

\* Every implementation of the ledger has one bearer of its attempt and its records in
\* the order of their attempts: a worker that lost its lease never writes after the
\* next one began to.
THEOREM LedgerFences == Spec => [](OneBearer /\ InOrder)
<1>1. Init => Inv
  BY InitKeeps
<1>2. Inv /\ [Next]_vars => Inv'
  BY StepKeeps
<1>3. Inv => OneBearer /\ InOrder
  BY DEF Inv
<1>4. QED
  BY <1>1, <1>2, <1>3, PTL DEF Spec

\* No record of an implementation is lost, moved or dated to another attempt.
THEOREM LedgerKeeps ==
  Spec => [][Kept(results, results') /\ Kept(checkpoints, checkpoints')]_vars
<1>1. Init => Inv
  BY InitKeeps
<1>2. Inv /\ [Next]_vars => Inv'
  BY StepKeeps
<1>3. Inv /\ [Next]_vars => [Kept(results, results') /\ Kept(checkpoints, checkpoints')]_vars
  BY StepKeeps
<1>4. QED
  BY <1>1, <1>2, <1>3, PTL DEF Spec
=============================================================================
