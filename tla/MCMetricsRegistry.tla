------------------------- MODULE MCMetricsRegistry --------------------------
(* Model values for checking MetricsRegistry; methods and threads are      *)
(* interchangeable.                                                        *)
EXTENDS MetricsRegistry, TLC

CONSTANTS t1, t2, m1, m2, m3, m4, n1

MCSymmetry == Permutations(Thread) \cup Permutations(Method)
=============================================================================
