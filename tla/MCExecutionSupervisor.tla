----------------------- MODULE MCExecutionSupervisor -----------------------
(***************************************************************************)
(* ExecutionSupervisor for TLC: workers are interchangeable, and so are    *)
(* controllers; no property checked with this symmetry is about liveness.  *)
(***************************************************************************)
EXTENDS ExecutionSupervisor, TLC

Symmetry == Permutations(Workers) \cup Permutations(Controllers)
=============================================================================
