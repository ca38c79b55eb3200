---------------------------- MODULE MCRoundRobin ----------------------------
(* Small instances of RoundRobin for TLC. *)
EXTENDS RoundRobin, TLC

CONSTANTS n1, n2, n3

AllAddr == {n1, n2, n3}

\* Three nodes in any order, and a list that names one of them twice.
StartLists ==
    {<<a, b, c>> : a \in AllAddr, b \in AllAddr, c \in AllAddr}

Sym == Permutations(AllAddr)

=============================================================================
