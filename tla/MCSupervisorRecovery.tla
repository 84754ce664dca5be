------------------------ MODULE MCSupervisorRecovery ------------------------
(***************************************************************************)
(* SupervisorRecovery for TLC: workers are interchangeable, and so are     *)
(* controllers.  The run that checks liveness does not use the symmetry.   *)
(***************************************************************************)
EXTENDS SupervisorRecovery, TLC

Symmetry == Permutations(Workers) \cup Permutations(Controllers)
=============================================================================
