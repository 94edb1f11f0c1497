---------------------------- MODULE MCRateLimit ----------------------------
(* Model-checking instance of RateLimit.                                    *)
EXTENDS RateLimit, TLC

\* Endpoints and requests are interchangeable.
MCSymmetry == Permutations(Endpoints) \cup Permutations(Requests)
=============================================================================
