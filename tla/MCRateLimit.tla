---------------------------- MODULE MCRateLimit ----------------------------
(* Bounds for model checking RateLimit: see MCRateLimit.cfg.               *)
EXTENDS RateLimit, TLC

\* Keys are interchangeable.
Interchangeable == Permutations(Key)
=============================================================================
