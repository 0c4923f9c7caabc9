---------------------------- MODULE MCRateLimiter ----------------------------
(* Two or three workers, a window or two.                                  *)
EXTENDS RateLimiter, TLC

MCSymmetry == Permutations(Callers)
=============================================================================
