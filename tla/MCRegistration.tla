--------------------------- MODULE MCRegistration ---------------------------
(* A small instance of Registration for TLC. *)
EXTENDS Registration

CONSTANT n1

OneAddr == {n1}

NodeLists == {<< >>, <<n1>>}

=============================================================================
