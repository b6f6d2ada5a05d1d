------------------------------ MODULE MCJournal ------------------------------
(* Model-checking instances of Journal. *)
EXTENDS Journal, TLC

Symmetry == Permutations(Writers)
=============================================================================
