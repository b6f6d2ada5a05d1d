------------------------------ MODULE MCSearch ------------------------------
(* Model-checking instances of Search. *)
EXTENDS Search

CONSTANT Count     \* bound: how many files there are

MCFiles == 1 .. Count
=============================================================================
