---------------------------- MODULE MCRateLimiter ----------------------------
(* A small instance of RateLimiter.                                          *)
EXTENDS RateLimiter
CONSTANTS t1
=============================================================================
