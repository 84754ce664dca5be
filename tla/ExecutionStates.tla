-------------------------- MODULE ExecutionStates --------------------------
(***************************************************************************)
(* The durable states of a supervised task and the table of the moves the  *)
(* supervisor accepts between them                                         *)
(* (src/mana_agent/execution_supervisor/state_machine.py and models.py).   *)
(* Everything here is constant; the modules about the supervisor extend it.*)
(***************************************************************************)

\* models.py, ExecutionState
States == {"created", "queued", "leased", "running", "checkpointing", "waiting",
           "retry_scheduled", "replanning", "cancelling", "cancelled", "failed",
           "budget_exhausted", "pending_budget_decision",
           "recovery_review_required", "completed_pending_verification",
           "completed"}

\* models.py, TERMINAL_STATES
TERMINAL_STATES == {"cancelled", "failed", "budget_exhausted",
                    "recovery_review_required", "completed"}

\* Where every state but the early and the closing ones may be sent.
LOCAL Stops == {"cancelling", "failed"}
LOCAL Aborts == Stops \cup {"budget_exhausted", "recovery_review_required"}

\* state_machine.py, TRANSITIONS
TRANSITIONS ==
  [created          |-> {"queued", "leased"} \cup Aborts,
   queued           |-> {"leased", "waiting"} \cup Aborts,
   leased           |-> {"running", "queued", "waiting", "retry_scheduled"} \cup Aborts,
   running          |-> {"checkpointing", "waiting", "retry_scheduled", "replanning",
                         "pending_budget_decision",
                         "completed_pending_verification"} \cup Aborts,
   checkpointing    |-> {"running", "waiting", "retry_scheduled",
                         "pending_budget_decision",
                         "completed_pending_verification"} \cup Aborts,
   waiting          |-> {"queued", "leased", "running", "checkpointing",
                         "retry_scheduled", "replanning", "pending_budget_decision",
                         "completed_pending_verification"} \cup Aborts,
   retry_scheduled  |-> {"queued", "waiting", "recovery_review_required"} \cup Stops,
   replanning       |-> {"queued", "waiting", "recovery_review_required"} \cup Stops,
   cancelling       |-> {"cancelled", "failed"},
   cancelled        |-> {},
   failed           |-> {"retry_scheduled", "replanning"},
   budget_exhausted |-> {},
   pending_budget_decision |->
        {"completed", "checkpointing", "waiting", "retry_scheduled", "replanning"}
        \cup Stops,
   recovery_review_required |-> {"queued", "cancelled"},
   completed_pending_verification |->
        {"completed", "checkpointing", "retry_scheduled", "replanning"} \cup Stops,
   completed        |-> {"completed_pending_verification"}]

(***************************************************************************)
(* validate_transition: what does not raise. A state may be "moved" to     *)
(* itself, and between two terminal states every move is let through (the  *)
(* code calls it an idempotent terminal delivery); all other moves must be *)
(* in the table.                                                           *)
(***************************************************************************)
ValidTransition(source, target) ==
  \/ source = target
  \/ source \in TERMINAL_STATES /\ target \in TERMINAL_STATES
  \/ target \in TRANSITIONS[source]
=============================================================================
