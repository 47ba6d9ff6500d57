------------------------- MODULE MCGovernanceChain -------------------------
(***************************************************************************)
(* One request of each kind: enough for one to append while a second is    *)
(* between its SELECT and its INSERT and a third holds a transaction open. *)
(***************************************************************************)
EXTENDS GovernanceChain

CONSTANTS execute, attach, compare

MCRequest == {execute, attach, compare}

MCExecutions == {execute}

MCComparisons == {compare}
=============================================================================
