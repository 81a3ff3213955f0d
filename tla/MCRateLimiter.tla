---------------------------- MODULE MCRateLimiter ----------------------------
(* Small instances of RateLimiter.                                         *)
EXTENDS RateLimiter

CONSTANTS k1, k2

(* --rate-limit 3, 1, 0, and one that does not parse.                      *)
Configured == {3, 1, 0, NaN}
=============================================================================
