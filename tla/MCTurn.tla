------------------------------- MODULE MCTurn -------------------------------
(* Model-checking instances of Turn. *)
EXTENDS Turn, TLC

CONSTANTS c1, c2

\* Two calls of registered tools; one of them, and a call whose tool name has a
\* blank; one of them alone.
BothKnown == c1 :> "known" @@ c2 :> "known"
OneOddName == c1 :> "known" @@ c2 :> "oddname"
OneKnown == c1 :> "known"
=============================================================================
