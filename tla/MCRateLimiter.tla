----------------------------- MODULE MCRateLimiter -----------------------------
(***************************************************************************)
(* RateLimiter for TLC: two clients, whose buckets must not mix.           *)
(***************************************************************************)
EXTENDS RateLimiter, TLC

CONSTANTS c1, c2

\* The clients are interchangeable.
Symmetry == Permutations({c1, c2})
===============================================================================
