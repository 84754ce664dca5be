-------------------------- MODULE MCActionGateway --------------------------
(***************************************************************************)
(* ActionGateway for TLC: the workers are interchangeable.                 *)
(***************************************************************************)
EXTENDS ActionGateway, TLC

Asks == <<"require_approval">>
EveryOutcome == <<"deny", "require_approval", "allow">>
Allows == <<"allow">>

Symmetry == Permutations(Workers)
=============================================================================
