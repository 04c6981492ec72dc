--------------------------- MODULE MCRateLimiter ---------------------------
(* Instances of RateLimiter for TLC. *)
EXTENDS RateLimiter, TLC

SmallMax == [b \in Bucket |-> IF b = "auth" THEN 2 ELSE 1]
SmallTtl == [b \in Bucket |-> IF b = "api" THEN 1 ELSE 2]

Symmetry == Permutations(Request) \cup Permutations(Account)
=============================================================================
