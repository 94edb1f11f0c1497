--------------------------- MODULE MCPositionSync ---------------------------
(* Model-checking instance of PositionSync.                                 *)
EXTENDS PositionSync, TLC

\* Markets whose venues behave alike are interchangeable, and so are readers.
MCSymmetry == Permutations(Markets) \cup Permutations(Readers)
=============================================================================
