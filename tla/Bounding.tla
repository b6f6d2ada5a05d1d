------------------------------ MODULE Bounding ------------------------------
(***************************************************************************)
(* How an oversized result is cut: createBounder of                        *)
(* packages/context/src/bound.ts, behind the put of BlobStore.             *)
(*                                                                         *)
(* What is shown is a head of the text, a line feed and a notice that says *)
(* how many bytes the head has, so the size of the head depends on the     *)
(* decimal digits of itself.  A text is its size and the offsets inside    *)
(* its multi-byte characters; the notice is its size without that number.  *)
(***************************************************************************)
EXTENDS Integers

CONSTANTS
  Digits(_),   \* characters of a number, its sign included
  Fixed,       \* bytes of the line feed and the notice without the number
  FixedInner,  \* offsets inside a character of these
  Budgets,     \* byte budgets of a result
  Texts        \* what tools return

\* What the cut needs of decimal numbers: they have at most twenty characters,
\* larger ones not fewer, and of two that differ by no more than a budget has
\* digits one has at most one more; where budgets have at most nine digits, what
\* is less than that number of digits has one digit.
ASSUME DigitsAssumption ==
  \A max \in Budgets :
    /\ \A n \in -(Fixed + 20) .. max : Digits(n) \in 1 .. 20
    /\ \A m, n \in 0 .. max : m <= n => Digits(m) <= Digits(n)
    /\ \A m, n \in 0 .. max : (m <= n /\ n - m <= Digits(max)) => Digits(n) <= Digits(m) + 1
    /\ \A n \in 0 .. max : n < Digits(max) => Digits(n) = 1
    /\ \A n \in 1 .. Digits(max) : Digits(-n) = 2

ASSUME SizesAssumption ==
  /\ Fixed \in Nat \ {0} /\ FixedInner \subseteq 1 .. Fixed - 1
  /\ Budgets \subseteq Nat \ {0}
  /\ \A text \in Texts : text.size \in Nat /\ text.inner \subseteq 1 .. text.size - 1

\* cutAtCharBoundary: back from the budget over continuation bytes.
CutAtCharBoundary(text, budget) ==
  IF budget <= 0 THEN 0
  ELSE IF text.size <= budget THEN text.size
  ELSE CHOOSE end \in 0 .. budget :
         end \notin text.inner /\ \A e \in end + 1 .. budget : e \in text.inner

NoticeFor(shown) == Fixed + Digits(shown)

\* Mutant: one look at the digits of the budget.
BudgetOnce(max) == max - NoticeFor(max)

\* The loop: three times the room left by the notice of the last number; one that
\* comes out as it went in stays.
HeadBudget(max) == max - NoticeFor(max - NoticeFor(max - NoticeFor(max)))

\* The head, line feed and notice as one text; the number is of one-byte characters.
Joined(text, head) ==
  [size  |-> head + NoticeFor(head),
   inner |-> {e \in text.inner : e < head} \cup {head + e : e \in FixedInner}]

\* bound: what is shown of the text, and the size of it all.
Bound(text, max) ==
  IF text.size <= max THEN [shown |-> text.size, size |-> text.size]
  ELSE LET head == CutAtCharBoundary(text, HeadBudget(max))
           full == Joined(text, head)
       IN  [shown |-> head,
            size  |-> IF full.size <= max THEN full.size ELSE CutAtCharBoundary(full, max)]

-----------------------------------------------------------------------------

\* A result is never above its budget.  Unless the budget has no room for the
\* notice alone, a cut one carries the whole notice, with the true number, and as
\* many characters as fit beside it: one more, and it would not.
ExactCut(text, max) ==
  LET cut == Bound(text, max)
  IN  /\ cut.size <= max
      /\ cut.shown \notin text.inner
      /\ (text.size > max /\ max >= NoticeFor(0)) =>
           /\ cut.size = cut.shown + NoticeFor(cut.shown)
           /\ \A more \in cut.shown + 1 .. max :
                more \notin text.inner => more + NoticeFor(more) > max

AllCutsExact == \A text \in Texts : \A max \in Budgets : ExactCut(text, max)
=============================================================================
