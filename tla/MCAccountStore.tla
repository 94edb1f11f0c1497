--------------------------- MODULE MCAccountStore ---------------------------
(* Model-checking instance of AccountStore.                                 *)
EXTENDS AccountStore, TLC

\* Ids and requests are interchangeable.
MCSymmetry == Permutations(Ids) \cup Permutations(Requests)
=============================================================================
