---------------------------- MODULE MCLocalDriver ----------------------------
(* Model-checking instance of the local driver: a first line, and two lines
   that a file may have or not. *)
EXTENDS LocalDriver

MCRanges == {[start |-> 1, end |-> 1], [start |-> 2, end |-> 3]}
=============================================================================
