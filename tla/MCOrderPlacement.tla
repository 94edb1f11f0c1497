-------------------------- MODULE MCOrderPlacement --------------------------
(* Model-checking instance of OrderPlacement.                               *)
EXTENDS OrderPlacement
=============================================================================
