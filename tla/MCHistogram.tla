---------------------------- MODULE MCHistogram ----------------------------
(* Two threads recording a fast and a slow call.              *)
EXTENDS Histogram, TLC

CONSTANTS w1, w2

Symmetric == Permutations(Writer)

(***************************************************************************)
(* Up to a second, a latency is in the bin whose bounds are around it.     *)
(***************************************************************************)
ASSUME BinBounds ==
    \A l \in (1..20000) \cup {10^k - 1 : k \in 1..6} \cup {10^k : k \in 0..5} :
        /\ bin_to_latency(latency_to_bin(l)) <= l
        /\ l < bin_to_latency(latency_to_bin(l) + 1)
=============================================================================
