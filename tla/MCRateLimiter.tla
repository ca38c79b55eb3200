--------------------------- MODULE MCRateLimiter ---------------------------
(* Small instances of RateLimiter for TLC. *)
EXTENDS RateLimiter, TLC

CONSTANTS i1, i2, r1, r2

Slots == Permutations({r1, r2})

=============================================================================
