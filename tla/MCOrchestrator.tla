--------------------------- MODULE MCOrchestrator ---------------------------
(***************************************************************************)
(* A small instance of Orchestrator for TLC: two nodes, one of them on the *)
(* command line.                                                           *)
(***************************************************************************)
EXTENDS Orchestrator

CONSTANTS n1, n2

AllAddr == {n1, n2}

OneList == {<<n1>>}

=============================================================================
