---------------------------- MODULE MCVenueTopic ----------------------------
(* Model-checking instance of VenueTopic.                                   *)
EXTENDS VenueTopic, TLC

\* Calls of Watch are interchangeable.
MCSymmetry == Permutations(Watches)
=============================================================================
