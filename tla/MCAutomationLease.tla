--------------------------- MODULE MCAutomationLease ---------------------------
(***************************************************************************)
(* AutomationLease for TLC: the values of its constants are in the cfg.    *)
(***************************************************************************)
EXTENDS AutomationLease
=============================================================================
