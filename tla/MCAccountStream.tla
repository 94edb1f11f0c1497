-------------------------- MODULE MCAccountStream --------------------------
(* Model-checking instance of AccountStream.                                *)
EXTENDS AccountStream, TLC

\* Topics, calls and markets are interchangeable.
MCSymmetry == Permutations(Topics) \cup Permutations(Calls) \cup Permutations(Markets)
=============================================================================
