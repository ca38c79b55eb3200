---------------------------- MODULE MCFrontEnd ----------------------------
(* Small instances of FrontEnd for TLC. *)
EXTENDS FrontEnd, TLC

CONSTANTS n1, n2, r1

TwoAddr == {n1, n2}

StartLists == {<<n1, n2>>, <<n1>>}

=============================================================================
