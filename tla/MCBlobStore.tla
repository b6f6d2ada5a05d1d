----------------------------- MODULE MCBlobStore -----------------------------
(* Model-checking instances of BlobStore, and of the cut behind it, Bounding. *)
EXTENDS BlobStore, TLC

CONSTANTS p1, p2, p3

\* Puts of two processes, and one of a process that has, or was later given,
\* the first one's id; two puts of one process.
ThreePuts == p1 :> 1 @@ p2 :> 2 @@ p3 :> 1
Twins     == p1 :> 1 @@ p2 :> 1

\* Decimal numbers of up to three digits.
MCDigits(n) ==
  CASE n < -9 -> 3 [] n \in -9 .. -1 -> 2 [] n \in 0 .. 9 -> 1 [] n \in 10 .. 99 -> 2 [] OTHER -> 3

\* Budgets about the size of the notice, and where its number gains a digit.
MCBudgets == 1 .. 16 \cup 100 .. 110

\* One wide character at every place there may be a cut.
MCTexts ==
  {text \in [size : {5, 17, 120}, inner : {at + 1 .. at + more : at \in 0 .. 16 \cup 94 .. 106,
                                                              more \in 0 .. 3}] :
     text.inner \subseteq 1 .. text.size - 1}
=============================================================================
