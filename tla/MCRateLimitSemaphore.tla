----------------------- MODULE MCRateLimitSemaphore -----------------------
(* Instances of RateLimitSemaphore for TLC. *)
EXTENDS RateLimitSemaphore, TLC

CONSTANTS a, b, c, d

Dispatches == {a, b, c, d}
=============================================================================
