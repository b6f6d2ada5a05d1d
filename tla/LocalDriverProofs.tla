-------------------------- MODULE LocalDriverProofs --------------------------
(***************************************************************************)
(* Proofs about the local driver, for any budgets, any amount of output,   *)
(* files and ranges of any length, and any number of replacements.  About  *)
(* LocalExec: its types, and that the terminal frame tells what became of  *)
(* the run.  About LocalRead: that what is opened is in the workspace, and *)
(* that what is yielded is what was asked for.                             *)
(***************************************************************************)
EXTENDS LocalDriver, SequenceTheorems, FiniteSetTheorems, WellFoundedInduction, TLAPS

\* The verdict is the first abort's; the pipes are only destroyed for an abort
\* or a used up budget.
VerdictKept ==
  /\ status \in {"ok", "timeout"}
  /\ status = "timeout" <=> aborted # "no"
  /\ aborted # "no" => failure = aborted
  /\ destroyed => aborted # "no" \/ truncated

\* Once the child is closed it stays as it is, and no chunk comes any more.
ClosedIsFinal ==
  closed # "none" => child = closed /\ (destroyed \/ (~ held /\ arrived = wrote))

\* The loop is only entered again with room, or truncated.
BudgetNoticed == pc \in {"loop", "done"} => (Exhausted => truncated)

\* What the frame was made of is still so.
FrameKept ==
  pc = "done" =>
    /\ closed # "none" /\ taken = arrived /\ frame.truncated = truncated
    /\ aborted # "no" => frame.status = "timeout" /\ frame.failure = failure
    /\ (aborted = "no" /\ ~ truncated) =>
         frame.status = IF closed = "zero" THEN "ok" ELSE "failed"
    /\ (aborted = "no" /\ truncated) => frame.status = "ok"

\* The inductive invariant.
ExecInv ==
  /\ TypeOK /\ taken \in Nat /\ arrived \in Nat /\ truncated \in BOOLEAN
  /\ VerdictKept /\ ClosedIsFinal /\ BudgetNoticed /\ FrameKept

\* A run that has not begun.
LEMMA InitExecInv == Init => ExecInv
<1> SUFFICES ASSUME Init PROVE ExecInv
  OBVIOUS
<1> USE ConstantsAssumption DEF Init
<1>1. frame.status = "none"
  BY DEF NoFrame
<1>2. TypeOK
  BY <1>1 DEF TypeOK, Exits
<1>3. VerdictKept /\ ClosedIsFinal /\ BudgetNoticed /\ FrameKept
  BY DEF VerdictKept, ClosedIsFinal, BudgetNoticed, FrameKept, Exhausted
<1> QED
  BY <1>2, <1>3 DEF ExecInv

-----------------------------------------------------------------------------
(* Steps *)

\* What the child and its heirs do touches neither verdict nor frame.
LEMMA ChildStepInv ==
  ASSUME ExecInv, Starts \/ StartFails \/ Writes \/ ChildExits \/ HeirExits \/ Sigkill
  PROVE  ExecInv'
<1> USE ConstantsAssumption DEF ExecInv, driver, stream, events, verdict, Exits
<1>1. /\ UNCHANGED driver
      /\ child' = child \/ child' \in {"running", "unborn"} \cup Exits
      /\ closed # "none" => child' = child
    BY DEF Starts, StartFails, Writes, ChildExits, HeirExits, Sigkill, TypeOK, ClosedIsFinal
<1>2. /\ wrote' \in 0 .. MaxChunks /\ wrote <= wrote'
      /\ (closed # "none" /\ ~ destroyed) => (wrote' = wrote /\ ~ held')
    BY DEF Starts, StartFails, Writes, ChildExits, HeirExits, Sigkill, TypeOK, ClosedIsFinal
<1>3. TypeOK'
  BY <1>1, <1>2 DEF TypeOK
<1>4. ClosedIsFinal'
  BY <1>1, <1>2 DEF ClosedIsFinal
<1> QED
  BY <1>1, <1>3, <1>4 DEF VerdictKept, BudgetNoticed, FrameKept, Exhausted

\* What node reports is taken as it is.
LEMMA NodeEventInv ==
  ASSUME ExecInv, Data \/ ErrorEvent \/ CloseEvent
  PROVE  ExecInv'
<1> USE ConstantsAssumption
    DEF ExecInv, process, stream, events, verdict, Exits, TypeOK, VerdictKept,
        ClosedIsFinal, BudgetNoticed, FrameKept, Exhausted
<1>1. CASE Data
  BY <1>1 DEF Data
<1>2. CASE ErrorEvent
  BY <1>2 DEF ErrorEvent
<1>3. CASE CloseEvent
  BY <1>3 DEF CloseEvent
<1> QED
  BY <1>1, <1>2, <1>3

\* An abort comes before the frame, and once.
LEMMA AbortInv ==
  ASSUME ExecInv, NEW reason \in {"deadline", "caller"}, Abort(reason)
  PROVE  ExecInv'
  BY ConstantsAssumption
  DEF ExecInv, Abort, TearDown, Live, process, stream, events, Exits, TypeOK, VerdictKept,
      ClosedIsFinal, BudgetNoticed, FrameKept, Exhausted

\* The generator takes what was reported, and makes the frame.
LEMMA GeneratorInv ==
  ASSUME ExecInv, Take \/ Throw \/ Finish \/ Resume \/ Leave
  PROVE  ExecInv'
<1> USE ConstantsAssumption
    DEF ExecInv, process, stream, events, verdict, Exits, TypeOK, VerdictKept,
        ClosedIsFinal, BudgetNoticed, FrameKept, Exhausted
<1>1. CASE Take
  BY <1>1 DEF Take, Pending
<1>2. CASE Throw
  BY <1>2 DEF Throw
<1>3. CASE Finish
  <2> DEFINE byExit == status # "timeout" /\ ~ truncated
  <2>1. /\ frame'.status = IF byExit /\ closed # "zero" THEN "failed" ELSE status
        /\ frame'.failure = IF byExit /\ closed # "zero" THEN closed ELSE failure
        /\ frame'.truncated = truncated
    BY <1>3 DEF Finish
  <2>2. /\ pc = "loop" /\ pc' = "done" /\ closed # "none" /\ taken = arrived
        /\ UNCHANGED <<process, stream, destroyed, terminated, events, aborted, truncated,
                      verdict>>
    BY <1>3 DEF Finish, Drained, Pending
  <2>3. TypeOK'
    BY <2>1, <2>2
  <2>4. FrameKept'
    BY <2>1, <2>2
  <2> QED
    BY <2>2, <2>3, <2>4
<1>4. CASE Resume
  <2>1. CASE Exhausted
    <3>1. truncated' = TRUE /\ pc' = "loop"
          /\ UNCHANGED <<process, stream, events, aborted, verdict, frame>>
      BY <1>4, <2>1 DEF Resume
    <3>2. destroyed => destroyed'
      BY <1>4, <2>1 DEF Resume, TearDown
    <3> QED
      BY <2>1, <3>1, <3>2
  <2>2. CASE ~ Exhausted
    BY <1>4, <2>2 DEF Resume
  <2> QED
    BY <2>1, <2>2
<1>5. CASE Leave
  BY <1>5 DEF Leave
<1> QED
  BY <1>1, <1>2, <1>3, <1>4, <1>5

\* Every step of a run, and those that are none of its.
LEMMA StepExecInv ==
  ASSUME ExecInv, [Next]_vars
  PROVE  ExecInv'
<1>1. CASE UNCHANGED vars
  BY <1>1 DEF vars, process, stream, events, verdict, ExecInv, TypeOK, VerdictKept,
              ClosedIsFinal, BudgetNoticed, FrameKept, Exhausted
<1>2. CASE \E reason \in {"deadline", "caller"} : Abort(reason)
  BY <1>2, AbortInv
<1> QED
  BY <1>1, <1>2, ChildStepInv, NodeEventInv, GeneratorInv DEF Next, NodeStep, GeneratorStep

\* The invariant holds at every step, however much the child writes.
THEOREM ExecInvariant == Spec => []ExecInv
  BY InitExecInv, StepExecInv, PTL DEF Spec

\* Every chunk is counted once, and the budget is kept to.
THEOREM ExecTypeCorrect == Spec => []TypeOK
<1>1. ExecInv => TypeOK
  BY DEF ExecInv
<1> QED
  BY <1>1, ExecInvariant, PTL

\* So the frame tells what became of the run.
LEMMA FrameByInv == ExecInv => FrameTellsRun
  BY ConstantsAssumption
  DEF ExecInv, TypeOK, VerdictKept, ClosedIsFinal, BudgetNoticed, FrameKept, Exhausted,
      FrameTellsRun, Exits

\* The terminal frame tells what became of the run: the first abort, or the exit
\* with all of the output, or that the budget was used up (exec.ts runExec).
THEOREM FrameIsTrue == Spec => []FrameTellsRun
  BY FrameByInv, ExecInvariant, PTL

-----------------------------------------------------------------------------
(* Line feeds and lines *)

\* A set of naturals has a least element: what holds at no least counterexample holds.
LEMMA Least == \A T \in SUBSET Nat : T # {} => \E x \in T : \A y \in T : x <= y
  <1> SUFFICES ASSUME NEW T \in SUBSET Nat, T # {} PROVE \E x \in T : \A y \in T : x <= y
    OBVIOUS
  <1> DEFINE R == OpToRel(<,Nat)
  <1>1. R = {ss \in Nat \X Nat : ss[1] < ss[2]}
    BY DEF OpToRel
  <1>2. IsWellFoundedOn(R, Nat)
    BY NatLessThanWellFounded, Zenon
  <1> HIDE DEF R
  <1>3. PICK x \in T : \A y \in T : ~ (<<y, x>> \in R)
    BY <1>2, WFMin
  <1>4. \A y \in T : ~(y < x)
    BY <1>1, <1>3
  <1> QED
    BY <1>4

\* The instance counts as FiniteSets does.
LEMMA PathCardinality == \A T : Path!Cardinality(T) = Cardinality(T)
  BY Zenon DEF Path!Cardinality, Cardinality

\* The line feeds among the first i bytes.
FeedsIn(s, i) == Cardinality({j \in 1 .. i : s[j] = "lf"})

\* A count of bytes, among as many bytes.
LEMMA FeedsInType ==
  ASSUME NEW s, NEW i \in Nat
  PROVE  /\ IsFiniteSet({j \in 1 .. i : s[j] = "lf"})
         /\ FeedsIn(s, i) \in Nat /\ FeedsIn(s, i) <= i
<1>1. IsFiniteSet(1 .. i) /\ Cardinality(1 .. i) = i
  BY FS_Interval
<1>2. {j \in 1 .. i : s[j] = "lf"} \subseteq 1 .. i
  OBVIOUS
<1>3. /\ IsFiniteSet({j \in 1 .. i : s[j] = "lf"})
      /\ Cardinality({j \in 1 .. i : s[j] = "lf"}) <= i
  BY <1>1, <1>2, FS_Subset
<1> QED
  BY <1>3, FS_CardinalityType DEF FeedsIn

\* The next byte adds one if it is a line feed.
LEMMA FeedsInStep ==
  ASSUME NEW s, NEW i \in Nat
  PROVE  FeedsIn(s, i + 1) = FeedsIn(s, i) + IF s[i + 1] = "lf" THEN 1 ELSE 0
<1> DEFINE A == {j \in 1 .. i : s[j] = "lf"}
           B == {j \in 1 .. i + 1 : s[j] = "lf"}
<1>1. IsFiniteSet(A) /\ Cardinality(A) \in Nat
  BY FeedsInType, FS_CardinalityType
<1>2. CASE s[i + 1] = "lf"
  <2>1. B = A \cup {i + 1} /\ i + 1 \notin A
    BY <1>2
  <2>2. Cardinality(A \cup {i + 1}) = Cardinality(A) + 1
    BY <1>1, <2>1, FS_AddElement
  <2> QED
    BY <1>2, <2>1, <2>2 DEF FeedsIn
<1>3. CASE s[i + 1] # "lf"
  <2>1. B = A
    BY <1>3
  <2> QED
    BY <1>1, <1>3, <2>1 DEF FeedsIn
<1> QED
  BY <1>2, <1>3

\* No bytes have none.
LEMMA FeedsInNone ==
  ASSUME NEW s
  PROVE  FeedsIn(s, 0) = 0
<1>1. {j \in 1 .. 0 : s[j] = "lf"} = {}
  OBVIOUS
<1> QED
  BY <1>1, FS_EmptySet DEF FeedsIn

\* More bytes have no fewer.
LEMMA FeedsInGrows ==
  ASSUME NEW s, NEW i \in Nat, NEW j \in Nat, i <= j
  PROVE  FeedsIn(s, i) <= FeedsIn(s, j)
<1>1. {k \in 1 .. i : s[k] = "lf"} \subseteq {k \in 1 .. j : s[k] = "lf"}
  OBVIOUS
<1>2. IsFiniteSet({k \in 1 .. j : s[k] = "lf"})
  BY FeedsInType
<1> QED
  BY <1>1, <1>2, FS_Subset DEF FeedsIn

\* Bytes that are no line feed add none.
LEMMA FeedsInSkip ==
  ASSUME NEW s, NEW i \in Nat, NEW j \in Nat, i <= j, \A k \in i + 1 .. j : s[k] # "lf"
  PROVE  FeedsIn(s, i) = FeedsIn(s, j)
<1>1. {k \in 1 .. i : s[k] = "lf"} = {k \in 1 .. j : s[k] = "lf"}
  OBVIOUS
<1> QED
  BY <1>1 DEF FeedsIn

\* The model's counts are these.
LEMMA FeedsAreIn ==
  ASSUME NEW s \in Seq(Path!Bytes)
  PROVE  /\ Path!Feeds(s) = FeedsIn(s, Len(s))
         /\ \A i \in 1 .. Len(s) : Path!LineOf(s, i) = 1 + FeedsIn(s, i - 1)
<1>1. Len(s) \in Nat /\ DOMAIN s = 1 .. Len(s)
  BY LenProperties
<1>2. Path!Feeds(s) = FeedsIn(s, Len(s))
  <2>1. {j \in DOMAIN s : s[j] = "lf"} = {j \in 1 .. Len(s) : s[j] = "lf"}
    BY <1>1
  <2> QED
    BY <2>1, PathCardinality DEF Path!Feeds, FeedsIn
<1>3. ASSUME NEW i \in 1 .. Len(s)
      PROVE  Path!LineOf(s, i) = 1 + FeedsIn(s, i - 1)
  <2> DEFINE t == SubSeq(s, 1, i - 1)
  <2>1. i \in Nat /\ i - 1 \in 0 .. Len(s)
    BY <1>1, <1>3
  <2>2. DOMAIN t = 1 .. i - 1
    BY <1>1, <2>1
  <2>3. \A k \in 1 .. i - 1 : t[k] = s[k]
    BY <1>1, <2>1
  <2> HIDE DEF t
  <2>4. {k \in DOMAIN t : t[k] = "lf"} = {k \in 1 .. i - 1 : s[k] = "lf"}
    BY <2>2, <2>3
  <2>5. Path!Feeds(t) = FeedsIn(s, i - 1)
    BY <2>4, PathCardinality DEF Path!Feeds, FeedsIn
  <2> QED
    BY <2>5 DEF Path!LineOf, t
<1> QED
  BY <1>2, <1>3

\* More bytes behind change nothing before, and add their own.
LEMMA FeedsInConcat ==
  ASSUME NEW s \in Seq(Path!Bytes), NEW t \in Seq(Path!Bytes)
  PROVE  /\ \A i \in 0 .. Len(s) : FeedsIn(s \o t, i) = FeedsIn(s, i)
         /\ \A i \in 0 .. Len(t) : FeedsIn(s \o t, Len(s) + i) = FeedsIn(s, Len(s)) + FeedsIn(t, i)
<1> DEFINE st == s \o t
<1>1. /\ Len(s) \in Nat /\ Len(t) \in Nat /\ Len(st) = Len(s) + Len(t)
      /\ \A k \in 1 .. Len(s) : st[k] = s[k]
      /\ \A k \in 1 .. Len(t) : st[Len(s) + k] = t[k]
  BY ConcatProperties, LenProperties
<1> HIDE DEF st
<1>2. ASSUME NEW i \in 0 .. Len(s)
      PROVE  FeedsIn(st, i) = FeedsIn(s, i)
  <2>1. {j \in 1 .. i : st[j] = "lf"} = {j \in 1 .. i : s[j] = "lf"}
    BY <1>1
  <2> QED
    BY <2>1 DEF FeedsIn
<1>3. \A i \in 0 .. Len(t) : FeedsIn(st, Len(s) + i) = FeedsIn(s, Len(s)) + FeedsIn(t, i)
  <2> DEFINE Bad == {i \in 0 .. Len(t) :
                       FeedsIn(st, Len(s) + i) # FeedsIn(s, Len(s)) + FeedsIn(t, i)}
  <2> SUFFICES ASSUME Bad # {} PROVE FALSE
    OBVIOUS
  <2>1. Bad \in SUBSET Nat
    OBVIOUS
  <2>2. PICK m \in Bad : \A y \in Bad : m <= y
    BY <2>1, Least
  <2>3. FeedsIn(s, Len(s)) \in Nat
    BY <1>1, FeedsInType
  <2>4. FeedsIn(st, Len(s) + 0) = FeedsIn(s, Len(s)) + FeedsIn(t, 0)
    <3>1. FeedsIn(st, Len(s)) = FeedsIn(s, Len(s))
      BY <1>1, <1>2
    <3>2. FeedsIn(t, 0) = 0
      BY FeedsInNone
    <3> QED
      BY <1>1, <2>3, <3>1, <3>2
  <2>5. m \in 1 .. Len(t)
    BY <1>1, <2>2, <2>4
  <2>6. m - 1 \in 0 .. Len(t) /\ m - 1 \notin Bad /\ m - 1 \in Nat
    BY <1>1, <2>2, <2>5
  <2>7. FeedsIn(st, Len(s) + (m - 1)) = FeedsIn(s, Len(s)) + FeedsIn(t, m - 1)
    BY <2>6
  <2>8. FeedsIn(t, (m - 1) + 1) = FeedsIn(t, m - 1) + IF t[(m - 1) + 1] = "lf" THEN 1 ELSE 0
    BY <2>6, FeedsInStep
  <2>9. FeedsIn(st, (Len(s) + (m - 1)) + 1)
          = FeedsIn(st, Len(s) + (m - 1)) + IF st[(Len(s) + (m - 1)) + 1] = "lf" THEN 1 ELSE 0
    <3>1. Len(s) + (m - 1) \in Nat
      BY <1>1, <2>6
    <3> QED
      BY <3>1, FeedsInStep
  <2>10. (m - 1) + 1 = m /\ (Len(s) + (m - 1)) + 1 = Len(s) + m /\ st[Len(s) + m] = t[m]
    BY <1>1, <2>5
  <2>11. FeedsIn(t, m - 1) \in Nat
    BY <2>6, FeedsInType
  <2>12. FeedsIn(st, Len(s) + m) = FeedsIn(s, Len(s)) + FeedsIn(t, m)
    BY <2>3, <2>7, <2>8, <2>9, <2>10, <2>11
  <2> QED
    BY <2>2, <2>12
<1> QED
  BY <1>2, <1>3 DEF st

\* The first d bytes are what comes before the line after the n-th.
IsUpTo(s, n, d) ==
  /\ d \in 0 .. Len(s)
  /\ d > 0 => FeedsIn(s, d - 1) < n
  /\ d < Len(s) => FeedsIn(s, d) >= n

\* There is one such place, and it is the number of bytes of the first n lines.
LEMMA IsUpToLine ==
  ASSUME NEW s \in Seq(Path!Bytes), NEW n \in Nat, NEW d, IsUpTo(s, n, d)
  PROVE  Path!UpToLine(s, n) = d
<1>1. Len(s) \in Nat /\ DOMAIN s = 1 .. Len(s) /\ d \in Nat /\ d <= Len(s)
  BY LenProperties DEF IsUpTo
<1>2. \A i \in 1 .. Len(s) : Path!LineOf(s, i) = 1 + FeedsIn(s, i - 1)
  BY FeedsAreIn
<1>3. ASSUME NEW i \in 1 .. d
      PROVE  Path!LineOf(s, i) <= n
  <2>1. i - 1 \in Nat /\ d - 1 \in Nat /\ i - 1 <= d - 1 /\ i \in 1 .. Len(s)
    BY <1>1, <1>3
  <2>2. FeedsIn(s, i - 1) <= FeedsIn(s, d - 1) /\ FeedsIn(s, d - 1) < n
    BY <2>1, <1>1, <1>3, FeedsInGrows DEF IsUpTo
  <2>3. FeedsIn(s, i - 1) \in Nat /\ FeedsIn(s, d - 1) \in Nat
    BY <2>1, FeedsInType
  <2> QED
    BY <1>2, <2>1, <2>2, <2>3
<1>4. ASSUME NEW i \in 1 .. Len(s), i \notin 1 .. d
      PROVE  ~ Path!LineOf(s, i) <= n
  <2>1. i - 1 \in Nat /\ d <= i - 1 /\ d < Len(s)
    BY <1>1, <1>4
  <2>2. FeedsIn(s, d) <= FeedsIn(s, i - 1) /\ FeedsIn(s, d) >= n
    BY <2>1, <1>1, FeedsInGrows DEF IsUpTo
  <2>3. FeedsIn(s, i - 1) \in Nat /\ FeedsIn(s, d) \in Nat
    BY <1>1, <2>1, FeedsInType
  <2> QED
    BY <1>2, <2>2, <2>3
<1>5. {i \in DOMAIN s : Path!LineOf(s, i) <= n} = 1 .. d
  BY <1>1, <1>3, <1>4
<1>6. Cardinality(1 .. d) = d
  BY <1>1, FS_Interval
<1> QED
  BY <1>5, <1>6, PathCardinality DEF Path!UpToLine

\* And the first n lines end at such a place.
LEMMA UpToLineIs ==
  ASSUME NEW s \in Seq(Path!Bytes), NEW n \in Nat
  PROVE  IsUpTo(s, n, Path!UpToLine(s, n))
<1> DEFINE T == {e \in 0 .. Len(s) : e = Len(s) \/ FeedsIn(s, e) >= n}
<1>1. Len(s) \in Nat /\ Len(s) \in T /\ T \in SUBSET Nat
  BY LenProperties
<1>2. PICK d \in T : \A e \in T : d <= e
  BY <1>1, Least
<1>3. d \in 0 .. Len(s) /\ (d < Len(s) => FeedsIn(s, d) >= n)
  BY <1>1, <1>2
<1>4. ASSUME d > 0 PROVE FeedsIn(s, d - 1) < n
  <2>1. d - 1 \in 0 .. Len(s) /\ d - 1 \notin T /\ d - 1 \in Nat
    BY <1>1, <1>2, <1>3, <1>4
  <2>2. FeedsIn(s, d - 1) \in Nat
    BY <2>1, FeedsInType
  <2> QED
    BY <2>1, <2>2
<1>5. IsUpTo(s, n, d)
  BY <1>3, <1>4 DEF IsUpTo
<1> QED
  BY <1>5, IsUpToLine

\* More lines have no fewer bytes.
LEMMA UpToLineGrows ==
  ASSUME NEW s \in Seq(Path!Bytes), NEW m \in Nat, NEW n \in Nat, m <= n
  PROVE  Path!UpToLine(s, m) <= Path!UpToLine(s, n)
<1> DEFINE a == Path!UpToLine(s, m)
           b == Path!UpToLine(s, n)
<1>1. IsUpTo(s, m, a) /\ IsUpTo(s, n, b)
  BY UpToLineIs
<1> HIDE DEF a, b
<1>2. Len(s) \in Nat /\ a \in Nat /\ b \in Nat /\ a <= Len(s)
  BY <1>1, LenProperties DEF IsUpTo
<1>3. ASSUME b < a PROVE FALSE
  <2>1. a - 1 \in Nat /\ b <= a - 1 /\ b < Len(s)
    BY <1>2, <1>3
  <2>2. FeedsIn(s, b) <= FeedsIn(s, a - 1) /\ FeedsIn(s, b) >= n /\ FeedsIn(s, a - 1) < m
    BY <1>1, <1>2, <1>3, <2>1, FeedsInGrows DEF IsUpTo
  <2>3. FeedsIn(s, b) \in Nat /\ FeedsIn(s, a - 1) \in Nat
    BY <1>2, <2>1, FeedsInType
  <2> QED
    BY <2>2, <2>3
<1> QED
  BY <1>2, <1>3 DEF a, b

\* Where a line begins that was read to its end does not depend on what comes.
LEMMA UpToLineKept ==
  ASSUME NEW s \in Seq(Path!Bytes), NEW t \in Seq(Path!Bytes), NEW n \in Nat,
         n <= FeedsIn(s, Len(s))
  PROVE  Path!UpToLine(s \o t, n) = Path!UpToLine(s, n)
<1> DEFINE d == Path!UpToLine(s, n)
<1>1. IsUpTo(s, n, d)
  BY UpToLineIs
<1> HIDE DEF d
<1>2. /\ s \o t \in Seq(Path!Bytes) /\ Len(s \o t) = Len(s) + Len(t)
      /\ Len(s) \in Nat /\ Len(t) \in Nat /\ d \in Nat /\ d <= Len(s)
  BY <1>1, ConcatProperties, LenProperties DEF IsUpTo
<1>3. \A i \in 0 .. Len(s) : FeedsIn(s \o t, i) = FeedsIn(s, i)
  BY FeedsInConcat
<1>4. FeedsIn(s \o t, d) = FeedsIn(s, d) /\ (d > 0 => FeedsIn(s \o t, d - 1) = FeedsIn(s, d - 1))
  BY <1>2, <1>3
<1>5. IsUpTo(s \o t, n, d)
  BY <1>1, <1>2, <1>4 DEF IsUpTo
<1> QED
  BY <1>2, <1>5, IsUpToLine DEF d

\* Before the line after the n-th there are n line feeds.
LEMMA UpToLineFeeds ==
  ASSUME NEW s \in Seq(Path!Bytes), NEW n \in Nat, n <= FeedsIn(s, Len(s))
  PROVE  FeedsIn(s, Path!UpToLine(s, n)) = n
<1> DEFINE d == Path!UpToLine(s, n)
<1>1. IsUpTo(s, n, d)
  BY UpToLineIs
<1> HIDE DEF d
<1>2. Len(s) \in Nat /\ d \in Nat /\ d <= Len(s)
  BY <1>1, LenProperties DEF IsUpTo
<1>3. FeedsIn(s, d) \in Nat /\ FeedsIn(s, 0) = 0
  BY <1>2, FeedsInType, FeedsInNone
<1>4. FeedsIn(s, d) >= n
  BY <1>1, <1>2, <1>3 DEF IsUpTo
<1>5. ASSUME d = 0 PROVE FeedsIn(s, d) = n
  BY <1>3, <1>4, <1>5
<1>6. ASSUME d > 0 PROVE FeedsIn(s, d) = n
  <2>1. d - 1 \in Nat /\ (d - 1) + 1 = d
    BY <1>2, <1>6
  <2>2. FeedsIn(s, d - 1) \in Nat /\ FeedsIn(s, d) <= FeedsIn(s, d - 1) + 1
    <3>1. FeedsIn(s, d - 1) \in Nat
      BY <2>1, FeedsInType
    <3>2. FeedsIn(s, (d - 1) + 1) = FeedsIn(s, d - 1) + IF s[(d - 1) + 1] = "lf" THEN 1 ELSE 0
      BY <2>1, FeedsInStep
    <3> QED
      BY <2>1, <3>1, <3>2
  <2>3. FeedsIn(s, d - 1) < n
    BY <1>1, <1>6 DEF IsUpTo
  <2> QED
    BY <1>3, <1>4, <2>2, <2>3
<1> QED
  BY <1>2, <1>5, <1>6 DEF d

\* The lines of a file: as many as its line feeds, and one more for what is left.
LEMMA LinesCounted ==
  ASSUME NEW s \in Seq(Path!Bytes)
  PROVE  Cardinality({Path!LineOf(s, i) : i \in DOMAIN s})
           = FeedsIn(s, Len(s)) + IF s # <<>> /\ s[Len(s)] = "x" THEN 1 ELSE 0
<1> DEFINE W == {Path!LineOf(s, i) : i \in DOMAIN s}
<1>0. PICK m : m = Len(s)
  OBVIOUS
<1>1. m \in Nat /\ DOMAIN s = 1 .. m /\ (s = <<>> <=> m = 0)
  BY <1>0, LenProperties, EmptySeq
<1>2. CASE m = 0
  <2>1. W = {}
    BY <1>1, <1>2
  <2>2. FeedsIn(s, 0) = 0 /\ s = <<>>
    BY <1>1, <1>2, FeedsInNone
  <2> QED
    BY <1>0, <1>2, <2>1, <2>2, FS_EmptySet
<1>3. CASE m > 0
  <2>0. PICK N : N = FeedsIn(s, m - 1)
    OBVIOUS
  <2>1. m - 1 \in Nat /\ (m - 1) + 1 = m /\ N \in Nat
    <3>1. m - 1 \in Nat /\ (m - 1) + 1 = m
      BY <1>1, <1>3
    <3> QED
      BY <2>0, <3>1, FeedsInType
  <2>2. \A i \in 1 .. m : Path!LineOf(s, i) = 1 + FeedsIn(s, i - 1)
    BY <1>0, FeedsAreIn
  <2>3. \A i \in 1 .. m : i - 1 \in Nat /\ i - 1 <= m - 1
    BY <1>1
  <2>4. \A i \in 1 .. m : FeedsIn(s, i - 1) \in Nat /\ FeedsIn(s, i - 1) <= N
    <3> TAKE i \in 1 .. m
    <3>1. i - 1 \in Nat /\ m - 1 \in Nat /\ i - 1 <= m - 1
      BY <2>1, <2>3
    <3> QED
      BY <2>0, <3>1, FeedsInType, FeedsInGrows
  <2>5. ASSUME NEW v \in 1 .. 1 + N
        PROVE  \E i \in 1 .. m : 1 + FeedsIn(s, i - 1) = v
    <3> DEFINE T == {i \in 1 .. m : FeedsIn(s, i - 1) >= v - 1}
    <3>1. m \in T /\ T \in SUBSET Nat
      BY <1>1, <1>3, <2>0, <2>1, <2>5
    <3>2. PICK k \in T : \A j \in T : k <= j
      BY <3>1, Least
    <3>3. k \in 1 .. m /\ FeedsIn(s, k - 1) >= v - 1 /\ FeedsIn(s, k - 1) \in Nat
      BY <2>4, <3>2
    <3>4. CASE k = 1
      <4>1. FeedsIn(s, k - 1) = 0
        BY <3>4, FeedsInNone
      <4> QED
        BY <3>3, <4>1, <2>5, <2>1
    <3>5. CASE k > 1
      <4>1. k - 1 \in 1 .. m /\ k - 1 \notin T /\ (k - 1) - 1 \in Nat /\ ((k - 1) - 1) + 1 = k - 1
        BY <1>1, <3>2, <3>3, <3>5
      <4>2. FeedsIn(s, (k - 1) - 1) < v - 1 /\ FeedsIn(s, (k - 1) - 1) \in Nat
        BY <2>1, <2>4, <2>5, <4>1
      <4>3. FeedsIn(s, k - 1) <= FeedsIn(s, (k - 1) - 1) + 1
        <5>1. FeedsIn(s, ((k - 1) - 1) + 1)
                = FeedsIn(s, (k - 1) - 1) + IF s[((k - 1) - 1) + 1] = "lf" THEN 1 ELSE 0
          BY <4>1, FeedsInStep
        <5> QED
          BY <4>1, <4>2, <5>1
      <4> QED
        BY <2>1, <2>5, <3>3, <4>2, <4>3
    <3> QED
      BY <1>1, <3>3, <3>4, <3>5
  <2>6. W = 1 .. 1 + N
    <3>1. \A i \in 1 .. m : Path!LineOf(s, i) \in 1 .. 1 + N
      BY <2>1, <2>2, <2>4
    <3>2. \A v \in 1 .. 1 + N : \E i \in 1 .. m : Path!LineOf(s, i) = v
      BY <2>2, <2>5
    <3> QED
      BY <1>1, <3>1, <3>2
  <2>7. Cardinality(1 .. 1 + N) = 1 + N
    BY <2>1, FS_Interval
  <2>8. FeedsIn(s, m) = N + IF s[m] = "lf" THEN 1 ELSE 0
    <3>1. FeedsIn(s, (m - 1) + 1) = FeedsIn(s, m - 1) + IF s[(m - 1) + 1] = "lf" THEN 1 ELSE 0
      BY <2>1, FeedsInStep
    <3> QED
      BY <2>0, <2>1, <3>1
  <2>9. s[m] \in {"x", "lf"}
    BY <1>1, <1>3, ElementOfSeq DEF Path!Bytes
  <2>10. s # <<>>
    BY <1>1, <1>3
  <2> HIDE DEF W
  <2>11. Cardinality(W) = 1 + N
    BY <2>6, <2>7
  <2>12. 1 + N = FeedsIn(s, m) + IF s # <<>> /\ s[m] = "x" THEN 1 ELSE 0
    BY <2>1, <2>8, <2>9, <2>10
  <2> QED
    BY <1>0, <2>11, <2>12 DEF W
<1> QED
  BY <1>1, <1>2, <1>3

-----------------------------------------------------------------------------
(* The resolution of a path *)

Verifying == {"lstat", "open", "fstat", "again"}
Held == {"opened", "reading", "lines", "yielded", "sleeping", "returned"}
Fresh == {"start", "probe", "ancestor", "realpath", "opened"} \cup Verifying
Reading == Held \ {"opened"}

\* The steps of a call, and what each has of it.
ControlInv ==
  /\ at \in Fresh \cup Reading \cup {"done", "left"}
  /\ dir \in {"real", "link", "gone"} /\ leaf \in Path!Entries \cup Path!Links \cup {"gone"}
  /\ changes \in Nat /\ depth \in Nat /\ stopped \in BOOLEAN
  /\ range \in Ranges \cup {Path!Whole} /\ cwd \in {"root", "d"}
  /\ call \in Path!Calls /\ (at \in Reading => call = "read")
  /\ at \notin {"start", "done", "left"} => call # "cwd"
  /\ at = "start" => depth = 0
  /\ at \in Verifying \cup Held => canonical \in {"here", "aside"}
  /\ fd \in Path!Entries \cup {"aside", "beyond", None}
  /\ Path!Over => fd = None
  /\ at = "done" <=> result # None

\* What was verified lies beyond the workspace only if the name did once by a
\* replacement, and leads back to its place by another.
ReplacedInv ==
  /\ (at \in {"lstat", "open"} /\ canonical = "here" /\ dir # "real") => changes >= 1
  /\ (at \in {"open", "fstat", "again"} /\ recorded = "beyond") =>
       canonical = "here" /\ changes >= 1 /\ (dir = "real" => changes >= 2)
  /\ at = "again" => fd = recorded
  /\ (at \in Held /\ fd = "beyond") => changes >= 2

\* The error says why, of a tree that stayed as it is.
Answered ==
  /\ result = "escape" <=> (IF call = "cwd" THEN cwd = "d" /\ dir = "link"
                            ELSE Path!Realpath = "beyond" \/ (cwd = "d" /\ dir = "link"))
  /\ result = "absent" => Path!Realpath = "missing"

\* What each step has found out, of a tree in which nothing was replaced.
StillInv ==
  changes = 0 =>
    /\ at \notin {"start", "done", "left"} => (cwd = "d" => dir = "real")
    /\ at \in {"probe", "ancestor"} =>
         /\ depth >= 1 => Path!EntryAt("here") = "missing"
         /\ depth >= 2 => dir = "gone"
         /\ (at = "ancestor" /\ depth = 0) => Path!EntryAt("here") # "missing"
         /\ (at = "ancestor" /\ depth = 1) => dir # "gone"
    /\ at \in Verifying \cup Held => canonical = Path!Realpath
    /\ at \in {"open", "fstat"} => recorded = Path!EntryAt(canonical)
    /\ at = "fstat" => fd = recorded
    /\ (at = "done" /\ ~ stopped) => Answered

ResolveInv == ControlInv /\ ReplacedInv /\ StillInv

\* A call that has not begun, or that is not of this kind.
LEMMA InitResolveInv == DriverInit => ResolveInv
<1> SUFFICES ASSUME DriverInit PROVE ResolveInv
  OBVIOUS
<1> USE DriverAssumption, NoneAssumption DEF ResolveInv, ControlInv, ReplacedInv, StillInv, Fresh, Reading,
        Held, Verifying, Path!Entries, Path!Regular, Path!Links, Path!Over, Path!Calls
<1>1. CASE NoPath
  BY <1>1 DEF NoPath, Answered, Path!Realpath, Path!RealpathOfDir
<1>2. CASE Path!Init
  BY <1>2 DEF Path!Init
<1> QED
  BY <1>1, <1>2 DEF DriverInit

\* A replacement counts.
LEMMA ReplaceResolveInv ==
  ASSUME ResolveInv, Path!Replace
  PROVE  ResolveInv'
<1> USE DriverAssumption, NoneAssumption DEF ResolveInv, Path!Replace, Path!request, Path!path, Path!bytes
<1>1. changes' = changes + 1 /\ changes \in Nat /\ Path!Resolving
  BY DEF ControlInv
<1>2. ControlInv'
  BY <1>1 DEF ControlInv, Fresh, Reading, Held, Verifying, Path!Entries, Path!Regular,
              Path!Links, Path!Over, Path!Calls
<1>3. ReplacedInv'
  BY <1>1 DEF ControlInv, ReplacedInv, Path!Resolving, Held
<1>4. StillInv'
  BY <1>1 DEF StillInv
<1> QED
  BY <1>2, <1>3, <1>4

\* The steps up to the first canonicalization find out what the tree is.
LEMMA BeginResolveInv ==
  ASSUME ResolveInv, Path!Start \/ Path!Probe \/ Path!Ancestor \/ Path!Canonicalize
  PROVE  ResolveInv'
<1> USE DriverAssumption, NoneAssumption
    DEF ResolveInv, Path!tree, Path!request, Path!path, Path!bytes, Path!Goto, Path!EndWith,
        ControlInv, ReplacedInv, Fresh, Reading, Held, Verifying, Path!Over, Path!Calls
<1>1. CASE Path!Start
  <2>1. ControlInv' /\ ReplacedInv'
    BY <1>1 DEF Path!Start
  <2>2. StillInv'
    <3> SUFFICES ASSUME changes = 0 PROVE StillInv'
      BY <1>1 DEF Path!Start, StillInv
    <3>1. UNCHANGED <<dir, leaf, changes, call, cwd, depth, canonical, recorded, stopped>>
      BY <1>1 DEF Path!Start
    <3>2. /\ at' \in {"probe", "realpath", "done"} /\ (at' = "probe" => depth = 0)
          /\ at' # "done" => (cwd = "d" => dir = "real")
      BY <1>1 DEF Path!Start, Path!RealpathOfDir
    <3>3. CASE at' = "done" /\ ~ stopped
      <4>1. /\ result' \in {"io", "escape", "named"}
            /\ result' = "escape" <=> cwd = "d" /\ dir = "link"
            /\ result' = "io" <=> cwd = "d" /\ dir = "gone"
            /\ result' = "named" => call = "cwd"
        <5>1. CASE cwd = "d" /\ dir = "link"
          BY <1>1, <3>3, <5>1 DEF Path!Start, Path!RealpathOfDir
        <5>2. CASE cwd = "d" /\ dir = "gone"
          BY <1>1, <3>3, <5>2 DEF Path!Start, Path!RealpathOfDir
        <5>3. CASE cwd # "d" \/ dir \notin {"link", "gone"}
          BY <1>1, <3>3, <5>3 DEF Path!Start, Path!RealpathOfDir
        <5> QED
          BY <5>1, <5>2, <5>3
      <4>2. Path!Realpath' = Path!Realpath /\ call' = call /\ cwd' = cwd /\ dir' = dir
        BY <3>1 DEF Path!Realpath, Path!RealpathOfDir
      <4>3. /\ dir = "gone" => Path!Realpath = "missing"
            /\ dir = "link" => Path!Realpath = "beyond"
        BY DEF Path!Realpath, Path!RealpathOfDir
      <4>4. Answered'
        BY <4>1, <4>2, <4>3 DEF Answered
      <4> QED
        BY <3>1, <3>3, <4>4 DEF StillInv
    <3> QED
      BY <3>1, <3>2, <3>3 DEF StillInv
  <2> QED
    BY <2>1, <2>2
<1>2. CASE Path!Probe
  <2>1. ControlInv' /\ ReplacedInv'
    BY <1>2 DEF Path!Probe
  <2>2. StillInv'
    BY <1>2 DEF Path!Probe, StillInv, Path!EntryAt, Path!RealpathOfDir
  <2> QED
    BY <2>1, <2>2
<1>3. CASE Path!Ancestor
  <2>1. ControlInv' /\ ReplacedInv'
    BY <1>3 DEF Path!Ancestor
  <2>2. StillInv'
    <3> SUFFICES ASSUME changes = 0 PROVE StillInv'
      BY <1>3 DEF Path!Ancestor, StillInv
    <3>1. /\ UNCHANGED <<dir, leaf, changes, call, cwd, depth, canonical, recorded, stopped>>
          /\ call # "cwd" /\ (cwd = "d" => dir = "real")
      BY <1>3 DEF Path!Ancestor, StillInv
    <3>2. at' \in {"realpath", "done"}
      BY <1>3 DEF Path!Ancestor
    <3>4. /\ Path!Realpath' = Path!Realpath
          /\ dir = "gone" => Path!Realpath = "missing"
          /\ dir = "link" => Path!Realpath = "beyond"
      BY <3>1 DEF Path!Realpath, Path!RealpathOfDir
    <3>3. ASSUME at' = "done" PROVE Answered'
      <4>1. CASE depth = 0
        <5>1. Path!Realpath \in {"missing", "beyond"}
              /\ result' = IF Path!Realpath = "missing" THEN "raw" ELSE "escape"
          BY <1>3, <3>3, <4>1 DEF Path!Ancestor
        <5> QED
          BY <3>1, <5>1, <3>4 DEF Answered
      <4>2. CASE depth = 1
        <5>1. result' = IF dir = "link" THEN "escape" ELSE "absent"
          BY <1>3, <3>3, <4>2 DEF Path!Ancestor, StillInv, Path!RealpathOfDir
        <5>2. dir = "link" \/ Path!Realpath = "missing"
          <6>1. Path!EntryAt("here") = "missing"
            BY <1>3, <4>2 DEF Path!Ancestor, StillInv
          <6>2. CASE dir = "real"
            <7>1. leaf = "gone"
              <8>1. Path!EntryAt("here") = IF leaf = "gone" THEN "missing" ELSE leaf
                BY <6>2 DEF Path!EntryAt
              <8> QED
                BY <6>1, <8>1 DEF Path!Entries, Path!Regular, Path!Links
            <7> QED
              BY <6>2, <7>1 DEF Path!Realpath
          <6>3. CASE dir # "real"
            BY <6>3 DEF Path!Realpath, Path!RealpathOfDir
          <6> QED
            BY <6>2, <6>3
        <5> QED
          BY <3>1, <3>4, <5>1, <5>2 DEF Answered
      <4>3. CASE depth \notin {0, 1}
        <5>1. result' = "absent" /\ dir = "gone"
          BY <1>3, <3>3, <4>3 DEF Path!Ancestor, StillInv
        <5> QED
          BY <3>1, <3>4, <5>1 DEF Answered
      <4> QED
        BY <4>1, <4>2, <4>3
    <3> QED
      BY <3>1, <3>2, <3>3 DEF StillInv
  <2> QED
    BY <2>1, <2>2
<1>4. CASE Path!Canonicalize
  <2>1. ControlInv' /\ ReplacedInv'
    BY <1>4 DEF Path!Canonicalize, Path!Realpath, Path!RealpathOfDir
  <2>2. StillInv'
    BY <1>4 DEF Path!Canonicalize, StillInv, Answered, Path!Realpath, Path!RealpathOfDir
  <2> QED
    BY <2>1, <2>2
<1> QED
  BY <1>1, <1>2, <1>3, <1>4

\* The steps that verify the handle only go on with what they found before.
LEMMA VerifyResolveInv ==
  ASSUME ResolveInv, Path!Lstat \/ Path!Open \/ Path!Fstat \/ Path!CanonicalizeAgain
  PROVE  ResolveInv'
<1> USE DriverAssumption, NoneAssumption
    DEF ResolveInv, Path!tree, Path!request, Path!path, Path!bytes, Path!Goto, Path!EndWith,
        ControlInv, ReplacedInv, Fresh, Reading, Held, Verifying, Path!Over, Path!Calls,
        Path!Entries, Path!Regular, Path!Links
<1>1. CASE Path!Lstat
  <2>1. ControlInv'
    BY <1>1 DEF Path!Lstat
  <2>2. ReplacedInv'
    <3>1. CASE at' = "open"
      <4>1. canonical' = canonical /\ dir' = dir /\ changes' = changes /\ fd' = fd
            /\ recorded' = Path!EntryAt(canonical) /\ at = "lstat"
        BY <1>1, <3>1 DEF Path!Lstat
      <4>2. Path!EntryAt(canonical) = "beyond" => (canonical = "here" /\ dir = "link")
        BY <4>1 DEF Path!EntryAt, Path!RealpathOfDir
      <4> QED
        BY <3>1, <4>1, <4>2
    <3>2. CASE at' # "open"
      BY <1>1, <3>2 DEF Path!Lstat
    <3> QED
      BY <3>1, <3>2
  <2>3. StillInv'
    BY <1>1 DEF Path!Lstat, StillInv, Answered, Path!Realpath, Path!RealpathOfDir, Path!EntryAt
  <2> QED
    BY <2>1, <2>2, <2>3
<1>2. CASE Path!Open
  <2>1. ControlInv' /\ ReplacedInv'
    BY <1>2 DEF Path!Open, Path!EntryAt, Path!RealpathOfDir
  <2>2. StillInv'
    BY <1>2 DEF Path!Open, StillInv, Answered, Path!Realpath, Path!RealpathOfDir, Path!EntryAt
  <2> QED
    BY <2>1, <2>2
<1>3. CASE Path!Fstat
  <2>1. ControlInv' /\ ReplacedInv'
    BY <1>3 DEF Path!Fstat
  <2>2. StillInv'
    BY <1>3 DEF Path!Fstat, StillInv, Answered, Path!Realpath, Path!RealpathOfDir, Path!EntryAt
  <2> QED
    BY <2>1, <2>2
<1>4. CASE Path!CanonicalizeAgain
  <2>1. ControlInv' /\ ReplacedInv'
    BY <1>4 DEF Path!CanonicalizeAgain, Path!Realpath, Path!RealpathOfDir, Path!IsInsideRoot
  <2>2. StillInv'
    BY <1>4 DEF Path!CanonicalizeAgain, StillInv, Answered, Path!Realpath, Path!RealpathOfDir,
                Path!IsInsideRoot
  <2> QED
    BY <2>1, <2>2
<1> QED
  BY <1>1, <1>2, <1>3, <1>4

\* What is done with a verified handle never says that the path escapes.
LEMMA DrainResolveInv ==
  ASSUME ResolveInv,
         Path!UseHandle \/ Path!Drain \/ Path!Wake \/ Path!Resume \/ Path!Leave \/ Path!Abort
  PROVE  ResolveInv'
<1> USE DriverAssumption, NoneAssumption
    DEF ResolveInv, ControlInv, Fresh, Reading, Held, Verifying, Path!Over, Path!Calls
<1>1. /\ UNCHANGED <<dir, leaf, changes, call, cwd, range, depth, canonical, recorded>>
      /\ at \in Held /\ at' \in Reading \cup {"done", "left"}
      /\ at' \in Reading => fd' = fd /\ call = "read"
      /\ at' \in {"done", "left"} => fd' = None
      /\ at' = "done" <=> result' # None
      /\ result' \in {None, "entry", "named", "io", "timeout", "ok"}
      /\ stopped' \in {stopped, TRUE}
  <2> USE DEF Path!tree, Path!request, Path!path, Path!bytes, Path!control, Path!Goto, Path!EndWith
  <2>1. CASE Path!UseHandle
    BY <2>1 DEF Path!UseHandle
  <2>2. CASE Path!SeesAbort \/ Path!Again \/ Path!Wake
    BY <2>2 DEF Path!SeesAbort, Path!Again, Path!Wake
  <2>3. CASE Path!ReadFails \/ Path!Finish \/ Path!Leave
    BY <2>3 DEF Path!ReadFails, Path!Finish, Path!Leave
  <2>4. CASE Path!ReadChunk
    BY <2>4 DEF Path!ReadChunk, Path!Emit, Path!Keep
  <2>5. CASE Path!TakeLine
    BY <2>5 DEF Path!TakeLine, Path!Emit, Path!Keep
  <2>6. CASE Path!ReadEnd
    BY <2>6 DEF Path!ReadEnd, Path!Emit
  <2>7. CASE Path!Resume
    BY <2>7 DEF Path!Resume
  <2>8. CASE Path!Abort
    BY <2>8 DEF Path!Abort
  <2> QED
    BY <2>1, <2>2, <2>3, <2>4, <2>5, <2>6, <2>7, <2>8 DEF Path!Drain
<1>2. ControlInv'
  <2>1. /\ at' \in Fresh \cup Reading \cup {"done", "left"}
        /\ at' \in Reading => call' = "read"
        /\ at' \notin {"start", "done", "left"} => call' # "cwd"
        /\ at' = "start" => depth' = 0
        /\ Path!Over' => fd' = None
    BY <1>1
  <2>2. /\ at' \in Verifying \cup Held => canonical' \in {"here", "aside"}
        /\ fd' \in Path!Entries \cup {"aside", "beyond", None}
    BY <1>1 DEF Path!Entries
  <2> QED
    BY <1>1, <2>1, <2>2
<1>3. ReplacedInv'
  BY <1>1 DEF ReplacedInv
<1>4. StillInv'
  BY <1>1 DEF StillInv, Answered, Path!Realpath, Path!RealpathOfDir
<1> QED
  BY <1>2, <1>3, <1>4

\* Every step of a call.
LEMMA StepResolveInv ==
  ASSUME ResolveInv, [DriverNext]_<<vars, pathVars>>
  PROVE  ResolveInv'
<1>1. CASE UNCHANGED pathVars
  BY <1>1 DEF pathVars, ResolveInv, ControlInv, ReplacedInv, StillInv, Answered, Path!Over,
              Path!Realpath, Path!RealpathOfDir, Path!EntryAt
<1>2. CASE Path!Next
  BY <1>2, ReplaceResolveInv, BeginResolveInv, VerifyResolveInv, DrainResolveInv
  DEF Path!Next, Path!Step, Path!Resolve
<1> QED
  BY <1>1, <1>2 DEF DriverNext

-----------------------------------------------------------------------------
(* What is yielded of the bytes that were read *)

\* o is what has been yielded of g's bytes behind the first from, once those up
\* to upto were looked at: all of them, as far as the budget goes.
YieldedOf(o, g, from, upto) ==
  /\ Len(o) = IF upto <= from THEN 0 ELSE IF upto - from < ReadBytes THEN upto - from ELSE ReadBytes
  /\ \A i \in 1 .. Len(o) : o[i] = g[from + i]

\* The lesser of two numbers.
LEMMA MinIs ==
  ASSUME NEW a \in Nat, NEW b \in Nat
  PROVE  Path!Min({a, b}) = IF a < b THEN a ELSE b
<1> DEFINE m == IF a < b THEN a ELSE b
<1>1. m \in {a, b} /\ \A y \in {a, b} : m <= y
  OBVIOUS
<1>2. \A x \in {a, b} : (\A y \in {a, b} : x <= y) => x = m
  OBVIOUS
<1> QED
  BY <1>1, <1>2 DEF Path!Min

\* The counter allows the next bytes as far as there is room.
LEMMA YieldMore ==
  ASSUME NEW g \in Seq(Path!Bytes), NEW from \in Nat, NEW upto \in Nat, NEW k \in Nat,
         from <= upto, upto + k <= Len(g), out \in Seq(Path!Bytes), Len(out) < ReadBytes,
         YieldedOf(out, g, from, upto)
  PROVE  /\ out \o Path!Allow(SubSeq(g, upto + 1, upto + k)) \in Seq(Path!Bytes)
         /\ YieldedOf(out \o Path!Allow(SubSeq(g, upto + 1, upto + k)), g, from, upto + k)
<1> USE DriverAssumption
<1>1. PICK e : e = SubSeq(g, upto + 1, upto + k)
  OBVIOUS
<1>2. Len(g) \in Nat /\ Len(out) \in Nat
  BY LenProperties
<1>3. /\ e \in Seq(Path!Bytes) /\ Len(e) = k
      /\ \A i \in 1 .. k : e[i] = g[upto + i]
  BY <1>1, <1>2
<1>4. PICK n : n = IF k < ReadBytes - Len(out) THEN k ELSE ReadBytes - Len(out)
  OBVIOUS
<1>5. n \in Nat /\ n <= k /\ ReadBytes - Len(out) \in Nat
  BY <1>2, <1>4
<1>6. Path!Allow(e) = SubSeq(e, 1, n)
  <2>1. Path!Min({Len(e), ReadBytes - Len(out)}) = n
    BY <1>3, <1>4, <1>5, MinIs
  <2> QED
    BY <2>1 DEF Path!Allow
<1>7. PICK w : w = SubSeq(e, 1, n)
  OBVIOUS
<1>8. /\ w \in Seq(Path!Bytes) /\ Len(w) = n
      /\ \A i \in 1 .. n : w[i] = g[upto + i]
  BY <1>3, <1>5, <1>7
<1>9. PICK more : more = out \o w
  OBVIOUS
<1>10. /\ more \in Seq(Path!Bytes) /\ Len(more) = Len(out) + n
       /\ \A i \in 1 .. Len(out) : more[i] = out[i]
       /\ \A i \in 1 .. n : more[Len(out) + i] = w[i]
  <2>1. out \in Seq(Path!Bytes) /\ w \in Seq(Path!Bytes) /\ Len(w) = n
    BY <1>8
  <2> QED
    <3>1. /\ more \in Seq(Path!Bytes) /\ Len(more) = Len(out) + Len(w)
          /\ \A i \in 1 .. Len(out) + Len(w) :
               more[i] = IF i <= Len(out) THEN out[i] ELSE w[i - Len(out)]
      BY <2>1, <1>9, ConcatProperties
    <3>2. \A i \in 1 .. n : Len(out) + i \in 1 .. Len(out) + n /\ ~ (Len(out) + i <= Len(out))
                            /\ (Len(out) + i) - Len(out) = i
      BY <1>2, <1>5
    <3> QED
      <4>1. \A i \in 1 .. Len(out) : more[i] = out[i]
        BY <1>2, <1>5, <2>1, <3>1
      <4>2. \A i \in 1 .. n : more[Len(out) + i] = w[i]
        <5> TAKE i \in 1 .. n
        <5>1. Len(out) + i \in 1 .. Len(out) + Len(w)
          BY <2>1, <3>2
        <5>2. more[Len(out) + i] = w[(Len(out) + i) - Len(out)]
          BY <3>1, <3>2, <5>1
        <5> QED
          BY <3>2, <5>2
      <4> QED
        BY <2>1, <3>1, <4>1, <4>2
<1>11. Len(out) = upto - from
  BY <1>2 DEF YieldedOf
<1>12. Len(more) = IF upto + k <= from THEN 0
                   ELSE IF (upto + k) - from < ReadBytes THEN (upto + k) - from ELSE ReadBytes
  BY <1>2, <1>4, <1>10, <1>11
<1>13. ASSUME NEW i \in 1 .. Len(more)
       PROVE  more[i] = g[from + i]
  <2>1. CASE i \in 1 .. Len(out)
    BY <2>1, <1>10 DEF YieldedOf
  <2>2. CASE i \notin 1 .. Len(out)
    <3>1. i - Len(out) \in 1 .. n /\ Len(out) + (i - Len(out)) = i
          /\ upto + (i - Len(out)) = from + i
      BY <1>2, <1>5, <1>10, <1>11, <1>13, <2>2
    <3>2. w[i - Len(out)] = g[upto + (i - Len(out))]
      BY <1>8, <3>1
    <3>3. more[Len(out) + (i - Len(out))] = w[i - Len(out)]
      BY <1>10, <3>1
    <3> QED
      BY <3>1, <3>2, <3>3
  <2> QED
    BY <2>1, <2>2
<1>14. YieldedOf(more, g, from, upto + k)
  BY <1>12, <1>13 DEF YieldedOf
<1> QED
  BY <1>1, <1>6, <1>7, <1>9, <1>10, <1>14

\* Nothing more is to be yielded once the budget is used up.
LEMMA YieldNoMore ==
  ASSUME NEW o \in Seq(Path!Bytes), NEW g, NEW from \in Nat, NEW upto \in Nat,
         NEW more \in Nat, upto <= more, YieldedOf(o, g, from, upto), Len(o) >= ReadBytes
  PROVE  YieldedOf(o, g, from, more)
<1>1. Len(o) \in Nat
  BY LenProperties
<1> QED
  BY <1>1, DriverAssumption DEF YieldedOf

\* What was yielded does not depend on the bytes that come.
LEMMA YieldedKept ==
  ASSUME NEW o \in Seq(Path!Bytes), NEW g \in Seq(Path!Bytes), NEW c \in Seq(Path!Bytes),
         NEW from \in Nat, NEW upto \in Nat, upto <= Len(g), YieldedOf(o, g, from, upto)
  PROVE  YieldedOf(o, g \o c, from, upto)
<1>1. /\ Len(o) \in Nat /\ Len(g) \in Nat
      /\ \A i \in 1 .. Len(g) : (g \o c)[i] = g[i]
  BY LenProperties, ConcatProperties
<1>2. from + Len(o) <= Len(g) \/ Len(o) = 0
  BY <1>1, DriverAssumption DEF YieldedOf
<1>3. \A i \in 1 .. Len(o) : from + i \in 1 .. Len(g)
  BY <1>1, <1>2
<1> QED
  BY <1>1, <1>3 DEF YieldedOf

\* What was yielded is a first part of what was asked for; and all of it, as far
\* as the budget goes, if all that was asked for was looked at.
LEMMA YieldedIsPrefix ==
  ASSUME NEW o \in Seq(Path!Bytes), NEW g \in Seq(Path!Bytes), NEW from \in Nat,
         NEW upto \in Nat, NEW to \in 0 .. Len(g), upto <= to, YieldedOf(o, g, from, upto)
  PROVE  /\ Path!IsPrefix(o, SubSeq(g, from + 1, to))
         /\ YieldedOf(o, g, from, to) =>
              LET wanted == SubSeq(g, from + 1, to)
              IN  /\ o = SubSeq(wanted, 1, Path!Min({Len(wanted), ReadBytes}))
                  /\ Len(o) >= ReadBytes <=> Len(wanted) >= ReadBytes
<1> USE DriverAssumption
<1>1. Len(o) \in Nat /\ Len(g) \in Nat /\ to \in Nat
  BY LenProperties
<1>2. PICK w : w = SubSeq(g, from + 1, to)
  OBVIOUS
<1>3. /\ w \in Seq(Path!Bytes)
      /\ Len(w) = IF to <= from THEN 0 ELSE to - from
      /\ \A i \in 1 .. Len(w) : w[i] = g[from + i]
  BY <1>1, <1>2
<1>4. Len(o) <= Len(w) /\ Len(w) \in Nat
  BY <1>1, <1>3 DEF YieldedOf
<1>5. \A i \in 1 .. Len(o) : o[i] = w[i]
  BY <1>1, <1>3, <1>4 DEF YieldedOf
<1>6. \A n \in 0 .. Len(o) : SubSeq(o, 1, n) = SubSeq(w, 1, n)
  <2> TAKE n \in 0 .. Len(o)
  <2>1. n \in Nat /\ n <= Len(o) /\ n <= Len(w)
    BY <1>1, <1>4
  <2>2. /\ SubSeq(o, 1, n) \in Seq(Path!Bytes) /\ Len(SubSeq(o, 1, n)) = n
        /\ \A i \in 1 .. n : SubSeq(o, 1, n)[i] = o[i]
    BY <1>1, <2>1
  <2>3. /\ SubSeq(w, 1, n) \in Seq(Path!Bytes) /\ Len(SubSeq(w, 1, n)) = n
        /\ \A i \in 1 .. n : SubSeq(w, 1, n)[i] = w[i]
    BY <1>3, <1>4, <2>1
  <2>4. \A i \in 1 .. n : SubSeq(o, 1, n)[i] = SubSeq(w, 1, n)[i]
    BY <1>1, <1>5, <2>1, <2>2, <2>3
  <2> QED
    BY <2>2, <2>3, <2>4, SeqEqual
<1>7. Path!IsPrefix(o, w)
  BY <1>1, <1>4, <1>6 DEF Path!IsPrefix
<1>8. ASSUME YieldedOf(o, g, from, to)
      PROVE  /\ o = SubSeq(w, 1, Path!Min({Len(w), ReadBytes}))
             /\ Len(o) >= ReadBytes <=> Len(w) >= ReadBytes
  <2>1. Len(o) = IF Len(w) < ReadBytes THEN Len(w) ELSE ReadBytes
    BY <1>1, <1>3, <1>8 DEF YieldedOf
  <2>2. Path!Min({Len(w), ReadBytes}) = Len(o)
    BY <1>4, <2>1, MinIs
  <2>3. SubSeq(o, 1, Len(o)) = o
    <3>1. /\ SubSeq(o, 1, Len(o)) \in Seq(Path!Bytes) /\ Len(SubSeq(o, 1, Len(o))) = Len(o)
          /\ \A i \in 1 .. Len(o) : SubSeq(o, 1, Len(o))[i] = o[i]
      BY <1>1
    <3> QED
      BY <3>1, SeqEqual
  <2>4. SubSeq(o, 1, Len(o)) = SubSeq(w, 1, Len(o))
    BY <1>1, <1>6
  <2>5. Len(o) >= ReadBytes <=> Len(w) >= ReadBytes
    BY <1>4, <2>1
  <2> QED
    BY <2>2, <2>3, <2>4, <2>5
<1> QED
  BY <1>2, <1>7, <1>8

\* What is asked for begins behind the first From bytes, and Upto were looked at.
From(g) == IF range = Path!Whole THEN 0 ELSE Path!UpToLine(g, range.start - 1)
Upto(g, n) == IF range = Path!Whole THEN Len(g) ELSE Path!UpToLine(g, n)

CountsInv ==
  /\ got \in Seq(Path!Bytes) /\ Len(got) <= MaxFile
  /\ out \in Seq(Path!Bytes) /\ carry \in Seq(Path!Bytes)
  /\ line \in Nat /\ feeds = FeedsIn(got, Len(got)) /\ cut \in BOOLEAN
  /\ last = IF got = <<>> THEN None ELSE got[Len(got)]

\* When a read has begun, what it says of its budget, and what of its end.
EndInv ==
  /\ at \in Fresh => got = <<>> /\ out = <<>> /\ carry = <<>> /\ line = 0
  /\ at = "yielded" => ~ cut
  /\ at \notin {"yielded", "left"} => (cut <=> Len(out) >= ReadBytes)
  /\ at = "lines" => range # Path!Whole
  /\ total # None => total = Path!Lines /\ at \in {"yielded", "returned", "done", "left"}
  /\ (at = "returned" /\ ~ stopped) => total # None
  /\ result = "ok" => ~ stopped /\ total # None
  /\ result = "timeout" => stopped /\ total = None

\* Whole lines were taken from what was read, up to the range's last; the rest is
\* carried, and has no line feed when more is read.
LinesInv ==
  range # Path!Whole =>
    /\ line <= range.end
    /\ (total = None /\ at # "done") => line <= feeds
    /\ (total = None /\ at # "done" /\ line < range.end) =>
         carry = SubSeq(got, Path!UpToLine(got, line) + 1, Len(got))
    /\ (at \in {"reading", "sleeping"} /\ line < range.end) => \A i \in 1 .. Len(carry) : carry[i] = "x"
    /\ total # None => cut \/ line = range.end \/ Path!UpToLine(got, line) = Len(got)

YieldedInv == YieldedOf(out, got, From(got), Upto(got, line))

BytesInv == CountsInv /\ EndInv /\ LinesInv /\ YieldedInv

\* Lines are a first part of the bytes.
LEMMA UpToLineType ==
  ASSUME NEW s \in Seq(Path!Bytes), NEW n \in Nat
  PROVE  Path!UpToLine(s, n) \in Nat /\ Path!UpToLine(s, n) <= Len(s)
<1>1. Path!UpToLine(s, n) \in 0 .. Len(s) /\ Len(s) \in Nat
  BY UpToLineIs, LenProperties DEF IsUpTo
<1> QED
  BY <1>1

\* A range's lines are counted from 1.
LEMMA RangeType ==
  ASSUME ResolveInv, range # Path!Whole
  PROVE  range.start \in Nat \ {0} /\ range.end \in Nat \ {0} /\ range.start - 1 \in Nat
<1>1. range \in [start : Nat \ {0}, end : Nat \ {0}]
  BY DriverAssumption DEF ResolveInv, ControlInv
<1> QED
  BY <1>1

\* The places are numbers of bytes.
LEMMA PlacesType ==
  ASSUME ResolveInv, NEW s \in Seq(Path!Bytes), NEW n \in Nat
  PROVE  From(s) \in Nat /\ Upto(s, n) \in Nat /\ Upto(s, n) <= Len(s)
<1>1. Len(s) \in Nat
  BY LenProperties
<1> QED
  <2>1. CASE range = Path!Whole
    BY <1>1, <2>1 DEF From, Upto
  <2>2. CASE range # Path!Whole
    <3>1. range.start - 1 \in Nat
      BY <2>2, RangeType
    <3>2. /\ Path!UpToLine(s, range.start - 1) \in Nat
          /\ Path!UpToLine(s, n) \in Nat /\ Path!UpToLine(s, n) <= Len(s)
      BY <3>1, UpToLineType
    <3> QED
      BY <2>2, <3>2 DEF From, Upto
  <2> QED
    BY <2>1, <2>2

\* Nothing was read.
LEMMA NothingIn ==
  /\ <<>> \in Seq(Path!Bytes) /\ Len(<<>>) = 0 /\ FeedsIn(<<>>, Len(<<>>)) = 0
  /\ \A n \in Nat : Path!UpToLine(<<>>, n) = 0
<1>1. <<>> \in Seq(Path!Bytes) /\ Len(<<>>) = 0
  BY EmptySeq
<1>2. FeedsIn(<<>>, 0) = 0
  BY FeedsInNone
<1>3. \A n \in Nat : Path!UpToLine(<<>>, n) = 0
  <2> TAKE n \in Nat
  <2>1. Path!UpToLine(<<>>, n) \in Nat /\ Path!UpToLine(<<>>, n) <= 0
    BY <1>1, UpToLineType
  <2> QED
    BY <2>1
<1> QED
  BY <1>1, <1>2, <1>3

\* A call that has not begun has read nothing.
LEMMA InitBytesInv == DriverInit => BytesInv
<1> SUFFICES ASSUME DriverInit PROVE BytesInv
  OBVIOUS
<1> USE DriverAssumption, NoneAssumption
<1>1. /\ got = <<>> /\ out = <<>> /\ carry = <<>> /\ line = 0 /\ feeds = 0 /\ last = None
      /\ cut = FALSE /\ total = None /\ at \in {"start", "done"} /\ result \in {None, "named"}
  BY DEF DriverInit, NoPath, Path!Init
<1>2. CountsInv
  <2>1. FeedsIn(got, Len(got)) = 0
    BY <1>1, NothingIn
  <2>2. got \in Seq(Path!Bytes) /\ out \in Seq(Path!Bytes) /\ carry \in Seq(Path!Bytes)
    BY <1>1, NothingIn
  <2>3. Len(got) <= MaxFile
    BY <1>1, NothingIn
  <2> QED
    <3>1. feeds = FeedsIn(got, Len(got)) /\ line \in Nat /\ cut \in BOOLEAN
      BY <1>1, <2>1
    <3>2. last = IF got = <<>> THEN None ELSE got[Len(got)]
      BY <1>1, Zenon
    <3> QED
      BY <2>2, <2>3, <3>1, <3>2, Zenon DEF CountsInv
<1>3. EndInv
  BY <1>1, NothingIn DEF EndInv
<1>4. LinesInv
  <2> SUFFICES ASSUME range # Path!Whole PROVE LinesInv
    BY DEF LinesInv
  <2>1. range.start \in Nat \ {0} /\ range.end \in Nat \ {0}
    BY InitResolveInv, RangeType
  <2>2. SubSeq(<<>>, 0 + 1, 0) = <<>>
    OBVIOUS
  <2> QED
    BY <1>1, <2>1, <2>2, NothingIn DEF LinesInv
<1>5. YieldedInv
  <2>1. From(<<>>) = 0 /\ Upto(<<>>, 0) = 0
    BY NothingIn, InitResolveInv, RangeType DEF From, Upto
  <2> QED
    BY <1>1, <2>1, NothingIn DEF YieldedInv, YieldedOf
<1> QED
  BY <1>2, <1>3, <1>4, <1>5 DEF BytesInv

-----------------------------------------------------------------------------
(* Steps *)

\* What a step leaves as it is that reads and yields nothing.
QuietStep ==
  /\ UNCHANGED <<got, out, carry, line, feeds, last, cut, range>>
  /\ at' \in Fresh => at \in Fresh
  /\ at' = "yielded" => at = "yielded"
  /\ at' \notin {"yielded", "left"} => at \notin {"yielded", "left"}
  /\ at' = "lines" => at = "lines"
  /\ at' \in {"reading", "sleeping"} => at \in {"reading", "sleeping", "opened"}
  /\ at' # "done" => at # "done"
  /\ (total' = None /\ at' # "done") => total = None
  /\ total' # None => total' = total /\ at' \in {"yielded", "returned", "done", "left"}
  /\ (at' = "returned" /\ ~ stopped') => total' # None
  /\ result' = "ok" => ~ stopped' /\ total' # None
  /\ result' = "timeout" => stopped' /\ total' = None

\* Such a step keeps what is known of the bytes.
LEMMA QuietBytesInv ==
  ASSUME ResolveInv, BytesInv, QuietStep
  PROVE  BytesInv'
<1> USE DEF BytesInv, QuietStep
<1>1. CountsInv'
  BY DEF CountsInv
<1>2. EndInv'
  BY DEF EndInv, Path!Lines
<1>3. LinesInv'
  <2> SUFFICES ASSUME range # Path!Whole PROVE LinesInv'
    BY DEF LinesInv
  <2>1. UNCHANGED <<got, carry, line, feeds, cut, range>> /\ got = got' /\ line = line'
    OBVIOUS
  <2>2. at = "opened" => carry = <<>>
    BY DEF EndInv, Fresh
  <2>3. (at' \in {"reading", "sleeping"} /\ line < range.end) => \A i \in 1 .. Len(carry) : carry[i] = "x"
    BY <2>2, NothingIn DEF LinesInv
  <2>4. /\ (total' = None /\ at' # "done") => line <= feeds
        /\ (total' = None /\ at' # "done" /\ line < range.end) =>
              carry = SubSeq(got, Path!UpToLine(got, line) + 1, Len(got))
        /\ total' # None => cut \/ line = range.end \/ Path!UpToLine(got, line) = Len(got)
        /\ line <= range.end
    BY DEF LinesInv
  <2> QED
    BY <2>1, <2>3, <2>4 DEF LinesInv
<1>4. YieldedInv'
  BY DEF YieldedInv, From, Upto
<1> QED
  BY <1>1, <1>2, <1>3, <1>4

\* The resolution of a path and the ends of a call are such steps.
LEMMA ResolveIsQuiet ==
  ASSUME ResolveInv, BytesInv, Path!Replace \/ Path!Resolve
  PROVE  QuietStep
<1> USE NoneAssumption DEF ResolveInv, ControlInv, BytesInv, EndInv, Fresh, Reading, Held, Verifying,
        Path!tree, Path!request, Path!path, Path!bytes, Path!Goto, Path!EndWith
<1>1. CASE Path!Replace
  BY <1>1 DEF Path!Replace, Path!Resolving, QuietStep
<1>2. ASSUME Path!Resolve
      PROVE  /\ UNCHANGED <<got, out, carry, line, feeds, last, cut, range, stopped, total>>
             /\ at \in Fresh /\ at' \in Fresh \cup {"done", "reading"}
             /\ at' = "reading" => at = "opened"
             /\ at' # "done" => result' = result
             /\ result' = "timeout" => result = "timeout" \/ stopped
             /\ result' = "ok" => result = "ok"
  <2>1. CASE Path!Start
    BY <2>1 DEF Path!Start
  <2>2. CASE Path!Probe
    BY <2>2 DEF Path!Probe
  <2>3. CASE Path!Ancestor
    BY <2>3 DEF Path!Ancestor
  <2>4. CASE Path!Canonicalize
    BY <2>4 DEF Path!Canonicalize
  <2>5. CASE Path!Lstat
    BY <2>5 DEF Path!Lstat
  <2>6. CASE Path!Open
    BY <2>6 DEF Path!Open
  <2>7. CASE Path!Fstat \/ Path!CanonicalizeAgain
    BY <2>7 DEF Path!Fstat, Path!CanonicalizeAgain
  <2>8. CASE Path!UseHandle
    BY <2>8 DEF Path!UseHandle
  <2> QED
    BY <1>2, <2>1, <2>2, <2>3, <2>4, <2>5, <2>6, <2>7, <2>8 DEF Path!Resolve
<1>3. CASE Path!Resolve
  <2>1. total = None /\ total' = None
    BY <1>2, <1>3
  <2> QED
    BY <1>2, <1>3, <2>1 DEF QuietStep
<1> QED
  BY <1>1, <1>3

\* So are the waits, the failures, the abort, and the ends of a read.
LEMMA EndIsQuiet ==
  ASSUME ResolveInv, BytesInv,
         \/ Path!SeesAbort \/ Path!Again \/ Path!ReadFails \/ Path!Finish
         \/ Path!Wake \/ Path!Leave \/ Path!Abort
  PROVE  QuietStep
<1> USE NoneAssumption DEF ResolveInv, ControlInv, BytesInv, EndInv, Fresh, Reading, Held, Verifying,
        Path!tree, Path!request, Path!path, Path!bytes, Path!control, Path!EndWith, QuietStep
<1>1. CASE Path!SeesAbort
  BY <1>1 DEF Path!SeesAbort
<1>2. CASE Path!Again \/ Path!Wake
  BY <1>2 DEF Path!Again, Path!Wake
<1>3. CASE Path!ReadFails
  BY <1>3 DEF Path!ReadFails
<1>4. CASE Path!Finish
  BY <1>4 DEF Path!Finish
<1>5. CASE Path!Leave
  BY <1>5 DEF Path!Leave
<1>6. CASE Path!Abort
  BY <1>6 DEF Path!Abort
<1> QED
  BY <1>1, <1>2, <1>3, <1>4, <1>5, <1>6

\* A part of a sequence.
LEMMA SliceIs ==
  ASSUME NEW g \in Seq(Path!Bytes), NEW a \in Nat, NEW b \in Nat, a <= b, b <= Len(g)
  PROVE  /\ SubSeq(g, a + 1, b) \in Seq(Path!Bytes) /\ Len(SubSeq(g, a + 1, b)) = b - a
         /\ \A i \in 1 .. b - a : SubSeq(g, a + 1, b)[i] = g[a + i]
<1>1. Len(g) \in Nat
  BY LenProperties
<1> QED
  BY <1>1

\* What is carried, with more behind it, is the rest of all that was read.
LEMMA RestConcat ==
  ASSUME NEW s \in Seq(Path!Bytes), NEW t \in Seq(Path!Bytes), NEW d \in Nat, d <= Len(s)
  PROVE  SubSeq(s, d + 1, Len(s)) \o t = SubSeq(s \o t, d + 1, Len(s) + Len(t))
<1>1. Len(s) \in Nat /\ Len(t) \in Nat
  BY LenProperties
<1>2. PICK st : st = s \o t
  OBVIOUS
<1>3. /\ st \in Seq(Path!Bytes) /\ Len(st) = Len(s) + Len(t)
      /\ \A i \in 1 .. Len(s) + Len(t) : st[i] = IF i <= Len(s) THEN s[i] ELSE t[i - Len(s)]
  BY <1>2, ConcatProperties
<1>4. PICK a : a = SubSeq(s, d + 1, Len(s))
  OBVIOUS
<1>5. /\ a \in Seq(Path!Bytes) /\ Len(a) = Len(s) - d
      /\ \A i \in 1 .. Len(s) - d : a[i] = s[d + i]
  BY <1>1, <1>4
<1>6. PICK b : b = a \o t
  OBVIOUS
<1>7. /\ b \in Seq(Path!Bytes) /\ Len(b) = (Len(s) - d) + Len(t)
      /\ \A i \in 1 .. (Len(s) - d) + Len(t) :
           b[i] = IF i <= Len(s) - d THEN a[i] ELSE t[i - (Len(s) - d)]
  <2>1. /\ b \in Seq(Path!Bytes) /\ Len(b) = Len(a) + Len(t)
        /\ \A i \in 1 .. Len(a) + Len(t) : b[i] = IF i <= Len(a) THEN a[i] ELSE t[i - Len(a)]
    BY <1>5, <1>6, ConcatProperties
  <2> QED
    BY <1>5, <2>1
<1>8. PICK e : e = SubSeq(st, d + 1, Len(s) + Len(t))
  OBVIOUS
<1>9. /\ e \in Seq(Path!Bytes) /\ Len(e) = (Len(s) - d) + Len(t)
      /\ \A i \in 1 .. (Len(s) - d) + Len(t) : e[i] = st[d + i]
  <2>1. Len(s) + Len(t) \in Nat /\ d <= Len(s) + Len(t) /\ Len(s) + Len(t) <= Len(st)
        /\ (Len(s) + Len(t)) - d = (Len(s) - d) + Len(t)
    BY <1>1, <1>3
  <2>2. /\ e \in Seq(Path!Bytes) /\ Len(e) = (Len(s) + Len(t)) - d
        /\ \A i \in 1 .. (Len(s) + Len(t)) - d : e[i] = st[d + i]
    BY <1>3, <1>8, <2>1, SliceIs
  <2> QED
    BY <2>1, <2>2
<1>10. ASSUME NEW i \in 1 .. (Len(s) - d) + Len(t)
       PROVE  b[i] = e[i]
  <2>1. d + i \in 1 .. Len(s) + Len(t)
    BY <1>1, <1>10
  <2>2. CASE i <= Len(s) - d
    <3>1. i \in 1 .. Len(s) - d /\ d + i <= Len(s)
      BY <1>1, <2>2
    <3> QED
      BY <1>3, <1>5, <1>7, <1>9, <2>1, <2>2, <3>1
  <2>3. CASE ~ (i <= Len(s) - d)
    <3>1. ~ (d + i <= Len(s)) /\ (d + i) - Len(s) = i - (Len(s) - d)
      BY <1>1, <2>3
    <3>2. b[i] = t[i - (Len(s) - d)]
      BY <1>7, <2>3
    <3>3. e[i] = t[(d + i) - Len(s)]
      BY <1>3, <1>9, <2>1, <3>1
    <3> QED
      BY <3>1, <3>2, <3>3
  <2> QED
    BY <2>2, <2>3
<1>11. b = e
  BY <1>7, <1>9, <1>10, SeqEqual
<1> QED
  BY <1>2, <1>4, <1>6, <1>8, <1>11

\* All of a sequence is a part of it.
LEMMA WholeIsRest ==
  ASSUME NEW s \in Seq(Path!Bytes)
  PROVE  SubSeq(s, 1, Len(s)) = s
<1>1. Len(s) \in Nat
  BY LenProperties
<1>2. /\ SubSeq(s, 1, Len(s)) \in Seq(Path!Bytes) /\ Len(SubSeq(s, 1, Len(s))) = Len(s)
      /\ \A i \in 1 .. Len(s) : SubSeq(s, 1, Len(s))[i] = s[i]
  BY <1>1
<1> QED
  BY <1>2, SeqEqual

\* What came last is the rest behind what was there.
LEMMA NewIsRest ==
  ASSUME NEW s \in Seq(Path!Bytes), NEW t \in Seq(Path!Bytes)
  PROVE  t = SubSeq(s \o t, Len(s) + 1, Len(s) + Len(t))
<1>1. Len(s) \in Nat
  BY LenProperties
<1>2. SubSeq(s, Len(s) + 1, Len(s)) \o t = SubSeq(s \o t, Len(s) + 1, Len(s) + Len(t))
  BY <1>1, RestConcat
<1>3. SubSeq(s, Len(s) + 1, Len(s)) = <<>>
  BY <1>1
<1> QED
  BY <1>2, <1>3, ConcatEmptySeq

\* Some more bytes: a whole read yields them, a range carries them to their lines.
LEMMA ChunkBytesInv ==
  ASSUME ResolveInv, BytesInv, Path!ReadChunk
  PROVE  BytesInv'
<1> USE DriverAssumption, NoneAssumption
<1>1. PICK chunk \in UNION {[1 .. n -> Path!Bytes] : n \in 1 .. MaxFile - Len(got)} :
        /\ got' = got \o chunk
        /\ last' = chunk[Len(chunk)]
        /\ feeds' = feeds + Path!Feeds(chunk)
        /\ CASE Path!Ranged /\ ~ Path!RangeComplete ->
                  carry' = carry \o chunk /\ at' = "lines" /\ UNCHANGED out
             [] ~ Path!Ranged /\ ~ cut -> Path!Emit(chunk) /\ UNCHANGED carry
             [] OTHER -> Path!Keep /\ UNCHANGED carry
  BY DEF Path!ReadChunk
<1>2. /\ at = "reading" /\ ~ stopped
      /\ UNCHANGED <<line, cut, range, stopped, total, result>>
  BY DEF Path!ReadChunk, Path!control, Path!request
<1>3. PICK n \in 1 .. MaxFile - Len(got) : chunk \in [1 .. n -> Path!Bytes]
  BY <1>1
<1>4. /\ got \in Seq(Path!Bytes) /\ out \in Seq(Path!Bytes) /\ carry \in Seq(Path!Bytes)
      /\ Len(got) \in Nat /\ Len(out) \in Nat /\ line \in Nat /\ cut \in BOOLEAN
      /\ feeds = FeedsIn(got, Len(got)) /\ feeds \in Nat
  BY LenProperties, FeedsInType DEF BytesInv, CountsInv
<1>5. total = None /\ result = None /\ (cut <=> Len(out) >= ReadBytes)
  BY <1>2 DEF BytesInv, EndInv, ResolveInv, ControlInv
<1>6. /\ chunk \in Seq(Path!Bytes) /\ Len(chunk) = n /\ n \in Nat /\ n >= 1
      /\ Len(got) + n <= MaxFile
  <2>1. n \in Nat /\ n >= 1 /\ n <= MaxFile - Len(got)
    BY <1>3, <1>4
  <2>2. chunk \in Seq(Path!Bytes) /\ Len(chunk) = n
    BY <1>3, <2>1
  <2> QED
    BY <1>4, <2>1, <2>2
<1>7. /\ got' \in Seq(Path!Bytes) /\ Len(got') = Len(got) + n
      /\ got'[Len(got')] = chunk[n] /\ got' # <<>>
  <2>1. /\ got' \in Seq(Path!Bytes) /\ Len(got') = Len(got) + n
        /\ \A i \in 1 .. Len(got) + n :
             got'[i] = IF i <= Len(got) THEN got[i] ELSE chunk[i - Len(got)]
    <3>1. /\ got' \in Seq(Path!Bytes) /\ Len(got') = Len(got) + Len(chunk)
          /\ \A i \in 1 .. Len(got) + Len(chunk) :
               got'[i] = IF i <= Len(got) THEN got[i] ELSE chunk[i - Len(got)]
      <4>1. got \in Seq(Path!Bytes) /\ chunk \in Seq(Path!Bytes) /\ got' = got \o chunk
        BY <1>1, <1>4, <1>6
      <4> HIDE DriverAssumption, NoneAssumption
      <4> QED
        BY <4>1, ConcatProperties
    <3> QED
      BY <1>6, <3>1
  <2>2. Len(got) + n \in 1 .. Len(got) + n /\ ~ (Len(got) + n <= Len(got))
        /\ (Len(got) + n) - Len(got) = n
    BY <1>4, <1>6
  <2>3. got'[Len(got')] = chunk[n]
    BY <2>1, <2>2
  <2>4. got' # <<>>
    BY <1>4, <1>6, <2>1
  <2> QED
    BY <2>1, <2>3, <2>4
<1>8. feeds' = FeedsIn(got', Len(got')) /\ feeds' \in Nat /\ feeds <= feeds'
  <2>1. Path!Feeds(chunk) = FeedsIn(chunk, n) /\ FeedsIn(chunk, n) \in Nat
    BY <1>6, FeedsAreIn, FeedsInType
  <2>2. FeedsIn(got \o chunk, Len(got) + n) = FeedsIn(got, Len(got)) + FeedsIn(chunk, n)
    BY <1>4, <1>6, FeedsInConcat
  <2>3. got' = got \o chunk /\ Len(got') = Len(got) + n /\ feeds' = feeds + Path!Feeds(chunk)
    BY <1>1, <1>7
  <2>4. FeedsIn(got', Len(got')) = feeds + FeedsIn(chunk, n)
    BY <1>4, <2>2, <2>3
  <2> QED
    BY <1>4, <2>1, <2>3, <2>4
<1> DEFINE Common == /\ got' \in Seq(Path!Bytes) /\ Len(got') <= MaxFile /\ line' \in Nat
                     /\ feeds' = FeedsIn(got', Len(got')) /\ cut' \in BOOLEAN
                     /\ last' = IF got' = <<>> THEN None ELSE got'[Len(got')]
<1>9. Common
  <2>1. last' = got'[Len(got')]
    BY <1>1, <1>6, <1>7
  <2> QED
    BY <1>2, <1>4, <1>6, <1>7, <1>8, <2>1
<1> HIDE DEF Common
<1>10. CASE range # Path!Whole
  <2>1. /\ range.start - 1 \in Nat /\ range.end \in Nat /\ line <= range.end /\ line <= feeds
        /\ line < range.end => carry = SubSeq(got, Path!UpToLine(got, line) + 1, Len(got))
    BY <1>2, <1>5, <1>10, RangeType DEF BytesInv, LinesInv
  <2>2. PICK d : d = Path!UpToLine(got, line)
    OBVIOUS
  <2>3. d \in Nat /\ d <= Len(got) /\ Path!UpToLine(got', line) = d
    BY <1>1, <1>4, <1>6, <2>1, <2>2, UpToLineType, UpToLineKept
  <2>4. out' = out /\ UNCHANGED <<line, cut, range, total>>
        /\ \/ line < range.end /\ carry' = carry \o chunk /\ at' = "lines"
           \/ line >= range.end /\ carry' = carry /\ at' = "reading"
    <3>1. CASE line < range.end
      <4>1. Path!Ranged /\ ~ Path!RangeComplete
        BY <1>4, <1>10, <2>1, <3>1 DEF Path!Ranged, Path!RangeComplete
      <4>2. out' = out /\ carry' = carry \o chunk /\ at' = "lines"
        BY <1>1, <4>1, Zenon
      <4> QED
        BY <1>2, <3>1, <4>2
    <3>2. CASE line >= range.end
      <4>1. Path!Ranged /\ Path!RangeComplete
        BY <1>10, <3>2 DEF Path!Ranged, Path!RangeComplete
      <4>2. Path!Keep /\ UNCHANGED carry
        BY <1>1, <4>1, Zenon
      <4> QED
        BY <1>2, <3>2, <4>2 DEF Path!Keep
    <3> QED
      BY <1>4, <2>1, <3>1, <3>2
  <2>5. CountsInv'
    <3>1. carry' \in Seq(Path!Bytes)
      <4>1. carry \o chunk \in Seq(Path!Bytes)
        BY <1>4, <1>6, ConcatProperties
      <4> QED
        BY <1>4, <2>4, <4>1
    <3> QED
      BY <1>4, <1>9, <2>4, <3>1 DEF CountsInv, Common
  <2>6. EndInv'
    BY <1>2, <1>5, <1>10, <2>4 DEF EndInv, Fresh, Verifying
  <2>7. LinesInv'
    <3>1. line < range.end => carry' = SubSeq(got', d + 1, Len(got'))
      <4>1. SubSeq(got, d + 1, Len(got)) \o chunk = SubSeq(got \o chunk, d + 1, Len(got) + Len(chunk))
        BY <1>4, <1>6, <2>3, RestConcat
      <4>2. line < range.end => carry' = SubSeq(got, d + 1, Len(got)) \o chunk
        <5> SUFFICES ASSUME line < range.end PROVE carry' = SubSeq(got, d + 1, Len(got)) \o chunk
          OBVIOUS
        <5>1. ~ (line >= range.end)
          BY <1>4, <2>1
        <5>2. carry' = carry \o chunk
          BY <2>4, <5>1
        <5>3. carry = SubSeq(got, d + 1, Len(got))
          BY <2>1, <2>2
        <5> QED
          BY <5>2, <5>3
      <4>3. got \o chunk = got' /\ Len(got) + Len(chunk) = Len(got')
        BY <1>1, <1>6, <1>7
      <4> QED
        BY <4>1, <4>2, <4>3
    <3>2. line <= feeds'
      BY <1>4, <1>8, <2>1
    <3>3. /\ UNCHANGED <<line, range, total>> /\ Path!UpToLine(got', line') = d
          /\ at' \in {"reading", "sleeping"} => ~ (line < range.end)
      BY <1>4, <2>1, <2>3, <2>4
    <3> QED
      BY <1>5, <2>1, <3>1, <3>2, <3>3 DEF LinesInv
  <2>8. YieldedInv'
    <3>1. YieldedOf(out, got, Path!UpToLine(got, range.start - 1), d)
      BY <1>10, <2>2 DEF BytesInv, YieldedInv, From, Upto
    <3>2. PICK f : f = Path!UpToLine(got, range.start - 1)
      OBVIOUS
    <3>3. f \in Nat
      BY <1>4, <2>1, <3>2, UpToLineType
    <3>4. CASE range.start - 1 <= line
      <4>1. range.start - 1 <= FeedsIn(got, Len(got))
        BY <1>4, <2>1, <3>4
      <4>2. Path!UpToLine(got', range.start - 1) = f
        BY <1>1, <1>4, <1>6, <2>1, <3>2, <4>1, UpToLineKept
      <4>3. YieldedOf(out, got', f, d)
        BY <1>1, <1>4, <1>6, <2>3, <3>1, <3>2, <3>3, YieldedKept
      <4> QED
        BY <1>10, <2>3, <2>4, <4>2, <4>3 DEF YieldedInv, From, Upto
    <3>5. CASE ~ (range.start - 1 <= line)
      <4>1. line <= range.start - 1
        BY <1>4, <2>1, <3>5
      <4>2. d <= f
        BY <1>4, <2>1, <2>2, <3>2, <4>1, UpToLineGrows
      <4>3. Len(out) = 0
        BY <3>1, <3>2, <4>2 DEF YieldedOf
      <4>4. d <= Path!UpToLine(got', range.start - 1)
        BY <1>4, <1>7, <2>1, <2>3, <4>1, UpToLineGrows
      <4> QED
        BY <1>10, <2>3, <2>4, <4>3, <4>4 DEF YieldedInv, YieldedOf, From, Upto
    <3> QED
      BY <3>4, <3>5
  <2> QED
    BY <2>5, <2>6, <2>7, <2>8 DEF BytesInv
<1>11. CASE range = Path!Whole
  <2>1. UNCHANGED <<line, cut, range, total, carry>>
        /\ \/ ~ cut /\ out' = out \o Path!Allow(chunk) /\ at' = "yielded"
           \/ cut /\ out' = out /\ at' = "reading"
    BY <1>1, <1>2, <1>4, <1>11 DEF Path!Ranged, Path!Keep, Path!Emit
  <2>2. YieldedOf(out, got, 0, Len(got))
    BY <1>11 DEF BytesInv, YieldedInv, From, Upto
  <2>3. YieldedOf(out, got', 0, Len(got))
    <3>1. YieldedOf(out, got \o chunk, 0, Len(got))
      <4>1. 0 \in Nat /\ Len(got) \in Nat /\ Len(got) <= Len(got)
        BY <1>4
      <4> QED
        BY <1>4, <1>6, <2>2, <4>1, YieldedKept
    <3> QED
      BY <1>1, <3>1
  <2>4. out' \in Seq(Path!Bytes) /\ YieldedOf(out', got', 0, Len(got) + n)
    <3>1. CASE ~ cut
      <4>1. chunk = SubSeq(got', Len(got) + 1, Len(got) + n)
        BY <1>1, <1>4, <1>6, NewIsRest
      <4>2. Len(out) < ReadBytes /\ 0 <= Len(got) /\ Len(got) + n <= Len(got')
        BY <1>4, <1>5, <1>6, <1>7, <3>1
      <4> QED
        <5>1. /\ out \o Path!Allow(SubSeq(got', Len(got) + 1, Len(got) + n)) \in Seq(Path!Bytes)
              /\ YieldedOf(out \o Path!Allow(SubSeq(got', Len(got) + 1, Len(got) + n)),
                           got', 0, Len(got) + n)
          BY <1>4, <1>6, <1>7, <2>3, <4>2, YieldMore
        <5>2. out' = out \o Path!Allow(SubSeq(got', Len(got) + 1, Len(got) + n))
          BY <2>1, <3>1, <4>1
        <5> QED
          BY <5>1, <5>2
    <3>2. CASE cut
      <4>1. Len(got) <= Len(got) + n /\ Len(got) + n \in Nat /\ Len(out) >= ReadBytes
        BY <1>4, <1>5, <1>6, <3>2
      <4> QED
        BY <1>4, <2>1, <2>3, <3>2, <4>1, YieldNoMore
    <3> QED
      BY <3>1, <3>2
  <2>5. CountsInv'
    BY <1>4, <1>9, <2>1, <2>4 DEF CountsInv, Common
  <2>6. EndInv'
    BY <1>2, <1>4, <1>5, <2>1 DEF EndInv, Fresh, Verifying
  <2>7. LinesInv'
    BY <1>11, <2>1 DEF LinesInv
  <2>8. YieldedInv'
    BY <1>7, <1>11, <2>1, <2>4 DEF YieldedInv, From, Upto
  <2> QED
    BY <2>5, <2>6, <2>7, <2>8 DEF BytesInv
<1> QED
  BY <1>10, <1>11

\* A part of a part is a part.
LEMMA SliceOfSlice ==
  ASSUME NEW g \in Seq(Path!Bytes), NEW a \in Nat, NEW b \in Nat, a <= b, b <= Len(g),
         NEW c \in Nat, NEW e \in Nat, c <= e, e <= b - a
  PROVE  SubSeq(SubSeq(g, a + 1, b), c + 1, e) = SubSeq(g, (a + c) + 1, a + e)
<1>1. PICK s : s = SubSeq(g, a + 1, b)
  OBVIOUS
<1>2. s \in Seq(Path!Bytes) /\ Len(s) = b - a /\ \A i \in 1 .. b - a : s[i] = g[a + i]
  BY <1>1, SliceIs
<1>3. PICK x : x = SubSeq(s, c + 1, e)
  OBVIOUS
<1>4. x \in Seq(Path!Bytes) /\ Len(x) = e - c /\ \A i \in 1 .. e - c : x[i] = s[c + i]
  BY <1>2, <1>3, SliceIs
<1>5. PICK y : y = SubSeq(g, (a + c) + 1, a + e)
  OBVIOUS
<1>6. a + c \in Nat /\ a + e \in Nat /\ a + c <= a + e /\ a + e <= Len(g) /\ (a + e) - (a + c) = e - c
  <2>1. Len(g) \in Nat
    BY LenProperties
  <2> QED
    BY <2>1
<1>7. /\ y \in Seq(Path!Bytes) /\ Len(y) = (a + e) - (a + c)
      /\ \A i \in 1 .. (a + e) - (a + c) : y[i] = g[(a + c) + i]
  BY <1>5, <1>6, SliceIs
<1>8. ASSUME NEW i \in 1 .. e - c
      PROVE  x[i] = y[i]
  <2>1. c + i \in 1 .. b - a /\ a + (c + i) = (a + c) + i
    BY <1>8
  <2> QED
    BY <1>2, <1>4, <1>6, <1>7, <2>1
<1>9. x = y
  BY <1>4, <1>6, <1>7, <1>8, SeqEqual
<1> QED
  BY <1>1, <1>3, <1>5, <1>9

\* The first line feed of what is carried.
LEMMA NextFeedIs ==
  ASSUME carry \in Seq(Path!Bytes), NEW i \in 1 .. Len(carry), carry[i] = "lf"
  PROVE  /\ Path!NextFeed \in 1 .. Len(carry)
         /\ carry[Path!NextFeed] = "lf"
         /\ \A j \in 1 .. Path!NextFeed - 1 : carry[j] # "lf"
<1>1. DOMAIN carry = 1 .. Len(carry) /\ Len(carry) \in Nat
  BY LenProperties
<1>2. PICK k \in DOMAIN carry : carry[k] = "lf" /\ \A j \in 1 .. k - 1 : carry[j] # "lf"
  <2> DEFINE T == {l \in 1 .. Len(carry) : carry[l] = "lf"}
  <2>1. T \in SUBSET Nat
    BY <1>1
  <2>2. T # {}
    OBVIOUS
  <2>3. PICK k \in T : \A j \in T : k <= j
    BY <2>1, <2>2, Least
  <2>4. k \in 1 .. Len(carry) /\ carry[k] = "lf" /\ k \in Nat /\ k <= Len(carry)
    BY <1>1, <2>3
  <2>5. \A j \in 1 .. k - 1 : j \in 1 .. Len(carry) /\ ~ (k <= j)
    BY <1>1, <2>4
  <2>6. \A j \in 1 .. k - 1 : carry[j] # "lf"
    BY <2>3, <2>5
  <2> QED
    BY <1>1, <2>4, <2>6
<1> QED
  BY <1>1, <1>2 DEF Path!NextFeed

\* The next line of g ends at the first line feed behind the first d bytes.
LEMMA NextLine ==
  ASSUME NEW g \in Seq(Path!Bytes), NEW n \in Nat, NEW d \in Nat, NEW m \in Nat,
         FeedsIn(g, (d + m) - 1) = n, m >= 1, d + m <= Len(g), g[d + m] = "lf"
  PROVE  Path!UpToLine(g, n + 1) = d + m /\ n + 1 <= FeedsIn(g, Len(g))
<1>1. /\ Len(g) \in Nat /\ d + m \in Nat /\ (d + m) - 1 \in Nat /\ ((d + m) - 1) + 1 = d + m
  BY LenProperties
<1>2. FeedsIn(g, d + m) = n + 1
  <2>1. FeedsIn(g, ((d + m) - 1) + 1)
          = FeedsIn(g, (d + m) - 1) + IF g[((d + m) - 1) + 1] = "lf" THEN 1 ELSE 0
    BY <1>1, FeedsInStep
  <2> QED
    BY <1>1, <2>1
<1>3. IsUpTo(g, n + 1, d + m)
  BY <1>1, <1>2 DEF IsUpTo
<1>4. n + 1 <= FeedsIn(g, Len(g))
  BY <1>1, <1>2, FeedsInGrows
<1> QED
  BY <1>3, <1>4, IsUpToLine

\* One more line, yielded if it is asked for and there is room.
LEMMA LineBytesInv ==
  ASSUME ResolveInv, BytesInv, Path!TakeLine
  PROVE  BytesInv'
<1> USE DriverAssumption, NoneAssumption
<1>1. /\ at = "lines" /\ range # Path!Whole
      /\ UNCHANGED <<got, feeds, last, cut, range, stopped, total, result>>
  BY DEF Path!TakeLine, Path!control, Path!request, BytesInv, EndInv
<1>2. /\ got \in Seq(Path!Bytes) /\ out \in Seq(Path!Bytes) /\ carry \in Seq(Path!Bytes)
      /\ Len(got) \in Nat /\ Len(out) \in Nat /\ Len(carry) \in Nat /\ line \in Nat
      /\ cut \in BOOLEAN /\ feeds = FeedsIn(got, Len(got)) /\ feeds \in Nat
      /\ DOMAIN carry = 1 .. Len(carry)
  BY LenProperties, FeedsInType DEF BytesInv, CountsInv
<1>3. total = None /\ result = None /\ (cut <=> Len(out) >= ReadBytes)
  BY <1>1 DEF BytesInv, EndInv, ResolveInv, ControlInv
<1>4. /\ range.start \in Nat \ {0} /\ range.start - 1 \in Nat /\ range.end \in Nat
      /\ line <= range.end /\ line <= feeds
      /\ line < range.end => carry = SubSeq(got, Path!UpToLine(got, line) + 1, Len(got))
  BY <1>1, <1>3, RangeType DEF BytesInv, LinesInv
<1>5. PICK d : d = Path!UpToLine(got, line)
  OBVIOUS
<1>6. PICK f : f = Path!UpToLine(got, range.start - 1)
  OBVIOUS
<1>7. d \in Nat /\ d <= Len(got) /\ f \in Nat /\ YieldedOf(out, got, f, d)
  BY <1>1, <1>2, <1>4, <1>5, <1>6, UpToLineType DEF BytesInv, YieldedInv, From, Upto
<1>8. CASE line >= range.end
  <2>1. carry' = <<>> /\ out' = out /\ at' = "reading" /\ line' = line
    BY <1>8 DEF Path!TakeLine, Path!RangeComplete, Path!Keep
  <2>2. CountsInv'
    BY <1>1, <2>1, NothingIn DEF BytesInv, CountsInv
  <2>3. EndInv'
    BY <1>1, <1>3, <2>1 DEF EndInv, Fresh, Verifying
  <2>4. LinesInv'
    BY <1>1, <1>2, <1>3, <1>4, <1>8, <2>1 DEF LinesInv
  <2>5. YieldedInv'
    BY <1>1, <1>5, <1>6, <1>7, <2>1 DEF YieldedInv, From, Upto
  <2> QED
    BY <2>2, <2>3, <2>4, <2>5 DEF BytesInv
<1>9. CASE line < range.end /\ ~ \E i \in 1 .. Len(carry) : carry[i] = "lf"
  <2>1. carry' = carry /\ out' = out /\ at' = "reading" /\ line' = line
    <3>1. ~ Path!RangeComplete
      BY <1>2, <1>4, <1>9 DEF Path!RangeComplete
    <3>2. "lf" \notin Path!Range(carry)
      BY <1>2, <1>9 DEF Path!Range
    <3> QED
      BY <3>1, <3>2 DEF Path!TakeLine, Path!Keep
  <2>2. \A i \in 1 .. Len(carry) : carry[i] = "x"
    BY <1>2, <1>9, ElementOfSeq DEF Path!Bytes
  <2>3. CountsInv'
    BY <1>1, <2>1 DEF BytesInv, CountsInv
  <2>4. EndInv'
    BY <1>1, <1>3, <2>1 DEF EndInv, Fresh, Verifying
  <2>5. LinesInv'
    BY <1>1, <1>3, <1>4, <2>1, <2>2 DEF LinesInv
  <2>6. YieldedInv'
    BY <1>1, <1>5, <1>6, <1>7, <2>1 DEF YieldedInv, From, Upto
  <2> QED
    BY <2>3, <2>4, <2>5, <2>6 DEF BytesInv
<1>10. CASE line < range.end /\ \E i \in 1 .. Len(carry) : carry[i] = "lf"
  <2>1. PICK m : m = Path!NextFeed
    OBVIOUS
  <2>2. carry = SubSeq(got, d + 1, Len(got)) /\ line <= FeedsIn(got, Len(got))
    BY <1>2, <1>4, <1>5, <1>10
  <2>3. /\ m \in 1 .. Len(carry) /\ d + m <= Len(got)
        /\ Path!UpToLine(got, line + 1) = d + m /\ line + 1 <= feeds
        /\ SubSeq(carry, 1, m) = SubSeq(got, d + 1, d + m)
        /\ SubSeq(carry, m + 1, Len(carry)) = SubSeq(got, (d + m) + 1, Len(got))
    <3>1. /\ m \in 1 .. Len(carry) /\ carry[m] = "lf" /\ \A j \in 1 .. m - 1 : carry[j] # "lf"
      <4>1. carry \in Seq(Path!Bytes)
        BY <1>2
      <4>2. PICK i \in 1 .. Len(carry) : carry[i] = "lf"
        BY <1>10
      <4> HIDE DriverAssumption, NoneAssumption
      <4> QED
        BY <2>1, <4>1, <4>2, NextFeedIs
    <3>2. Len(carry) = Len(got) - d /\ \A i \in 1 .. Len(got) - d : carry[i] = got[d + i]
      <4>1. /\ Len(SubSeq(got, d + 1, Len(got))) = Len(got) - d
            /\ \A i \in 1 .. Len(got) - d : SubSeq(got, d + 1, Len(got))[i] = got[d + i]
        <5>1. got \in Seq(Path!Bytes) /\ d \in Nat /\ Len(got) \in Nat /\ d <= Len(got)
              /\ Len(got) <= Len(got)
          BY <1>2, <1>7
        <5> HIDE DriverAssumption, NoneAssumption
        <5> QED
          BY <5>1, SliceIs
      <4> QED
        BY <2>2, <4>1
    <3>3. m \in Nat /\ m >= 1 /\ m <= Len(got) - d /\ d + m <= Len(got)
      BY <1>2, <1>7, <3>1, <3>2
    <3>4. got[d + m] = "lf"
      BY <3>1, <3>2, <3>3
    <3>5. ASSUME NEW j \in d + 1 .. (d + m) - 1 PROVE got[j] # "lf"
      <4>1. j - d \in 1 .. m - 1 /\ j - d \in 1 .. Len(got) - d /\ d + (j - d) = j
        BY <1>2, <1>7, <3>3, <3>5
      <4> QED
        BY <3>1, <3>2, <4>1
    <3>6. FeedsIn(got, d) = line
      BY <1>2, <1>5, <2>2, UpToLineFeeds
    <3>7. Path!UpToLine(got, line + 1) = d + m /\ line + 1 <= FeedsIn(got, Len(got))
      <4>1. \A j \in d + 1 .. (d + m) - 1 : got[j] # "lf"
        BY <3>5
      <4>2. FeedsIn(got, (d + m) - 1) = line
        <5>1. (d + m) - 1 \in Nat /\ d <= (d + m) - 1
          BY <1>7, <3>3
        <5> QED
          BY <1>7, <3>6, <4>1, <5>1, FeedsInSkip
      <4> QED
        <5>1. got \in Seq(Path!Bytes) /\ line \in Nat /\ d \in Nat /\ m \in Nat
          BY <1>2, <1>7, <3>3
        <5>2. m >= 1 /\ d + m <= Len(got)
          BY <3>3
        <5> HIDE DriverAssumption, NoneAssumption
        <5> QED
          BY <3>4, <4>2, <5>1, <5>2, NextLine
    <3>8. SubSeq(carry, 1, m) = SubSeq(got, d + 1, d + m)
      <4>1. SubSeq(SubSeq(got, d + 1, Len(got)), 0 + 1, m) = SubSeq(got, (d + 0) + 1, d + m)
        BY <1>2, <1>7, <3>3, SliceOfSlice
      <4>2. 0 + 1 = 1 /\ d + 0 = d
        BY <1>7
      <4> QED
        BY <2>2, <4>1, <4>2
    <3>9. SubSeq(carry, m + 1, Len(carry)) = SubSeq(got, (d + m) + 1, Len(got))
      <4>1. Len(got) - d \in Nat /\ d + (Len(got) - d) = Len(got)
        BY <1>2, <1>7
      <4>2. SubSeq(SubSeq(got, d + 1, Len(got)), m + 1, Len(got) - d)
              = SubSeq(got, (d + m) + 1, d + (Len(got) - d))
        BY <1>2, <1>7, <3>3, <4>1, SliceOfSlice
      <4> QED
        BY <2>2, <3>2, <4>1, <4>2
    <3> QED
      BY <1>2, <3>1, <3>3, <3>7, <3>8, <3>9
  <2>4. /\ line' = line + 1 /\ carry' = SubSeq(carry, m + 1, Len(carry))
        /\ IF Path!InRange(line + 1)
             THEN out' = out \o Path!Allow(SubSeq(carry, 1, m)) /\ at' = "yielded"
             ELSE at' = "lines" /\ out' = out
    <3>1. ~ Path!RangeComplete
      BY <1>2, <1>4, <1>10 DEF Path!RangeComplete
    <3>2. "lf" \in Path!Range(carry)
      BY <1>2, <1>10 DEF Path!Range
    <3> QED
      BY <2>1, <3>1, <3>2 DEF Path!TakeLine, Path!Emit
  <2>5. /\ m \in Nat /\ d + m \in Nat /\ d <= d + m /\ line + 1 \in Nat /\ line + 1 <= range.end
        /\ carry' \in Seq(Path!Bytes)
    <3>1. m \in Nat
      BY <1>2, <2>3
    <3>2. carry' \in Seq(Path!Bytes)
      <4>1. m <= Len(carry) /\ Len(carry) <= Len(carry)
        BY <1>2, <2>3
      <4>2. SubSeq(carry, m + 1, Len(carry)) \in Seq(Path!Bytes)
        BY <1>2, <3>1, <4>1, SliceIs
      <4> QED
        BY <2>4, <4>2
    <3> QED
      <4>1. d + m \in Nat /\ d <= d + m
        BY <1>7, <3>1
      <4>2. line + 1 \in Nat /\ line + 1 <= range.end
        BY <1>2, <1>4, <1>10
      <4> QED
        BY <3>1, <3>2, <4>1, <4>2
  <2>6. Path!InRange(line + 1) <=> ~ cut /\ range.start - 1 <= line
    BY <1>2, <1>4, <2>5 DEF Path!InRange
  <2>7. out' \in Seq(Path!Bytes) /\ YieldedOf(out', got, f, d + m)
    <3>1. CASE Path!InRange(line + 1)
      <4>1. f <= d
        BY <1>2, <1>4, <1>5, <1>6, <2>6, <3>1, UpToLineGrows
      <4>2. Len(out) < ReadBytes
        BY <1>2, <1>3, <2>6, <3>1
      <4>3. /\ out \o Path!Allow(SubSeq(got, d + 1, d + m)) \in Seq(Path!Bytes)
            /\ YieldedOf(out \o Path!Allow(SubSeq(got, d + 1, d + m)), got, f, d + m)
        BY <1>2, <1>7, <2>3, <2>5, <4>1, <4>2, YieldMore
      <4>4. out' = out \o Path!Allow(SubSeq(got, d + 1, d + m))
        BY <2>3, <2>4, <3>1
      <4> QED
        BY <4>3, <4>4
    <3>2. CASE ~ Path!InRange(line + 1) /\ cut
      <4>1. Len(out) >= ReadBytes
        BY <1>3, <3>2
      <4>2. YieldedOf(out, got, f, d + m)
        BY <1>2, <1>7, <2>5, <4>1, YieldNoMore
      <4> QED
        BY <1>2, <2>4, <3>2, <4>2
    <3>3. CASE ~ Path!InRange(line + 1) /\ ~ cut
      <4>1. ~ (range.start - 1 <= line)
        BY <2>6, <3>3
      <4>2. line <= range.start - 1 /\ line + 1 <= range.start - 1
        BY <1>2, <1>4, <4>1
      <4>3. d <= f /\ d + m <= f
        BY <1>2, <1>4, <1>5, <1>6, <2>3, <2>5, <4>2, UpToLineGrows
      <4>4. YieldedOf(out, got, f, d + m)
        BY <1>7, <4>3 DEF YieldedOf
      <4> QED
        BY <1>2, <2>4, <3>3, <4>4
    <3> QED
      BY <3>1, <3>2, <3>3
  <2>8. CountsInv'
    BY <1>1, <2>4, <2>5, <2>7 DEF BytesInv, CountsInv
  <2>9. EndInv'
    <3>1. at' = "lines" => out' = out
      BY <2>4
    <3>2. at' \in {"lines", "yielded"} /\ (at' = "yielded" => ~ cut)
      BY <2>4, <2>6
    <3> QED
      BY <1>1, <1>3, <3>1, <3>2 DEF EndInv, Fresh, Verifying
  <2>10. LinesInv'
    <3>1. at' \in {"lines", "yielded"}
      BY <2>4
    <3> QED
      BY <1>1, <1>3, <2>3, <2>4, <2>5, <3>1 DEF LinesInv
  <2>11. YieldedInv'
    BY <1>1, <1>6, <2>3, <2>4, <2>7 DEF YieldedInv, From, Upto
  <2> QED
    BY <2>8, <2>9, <2>10, <2>11 DEF BytesInv
<1> QED
  BY <1>2, <1>4, <1>8, <1>9, <1>10

\* What is left at the end is the last line, that no line feed ends.
LEMMA LastLine ==
  ASSUME NEW g \in Seq(Path!Bytes), NEW n \in Nat, NEW d \in Nat, d < Len(g),
         FeedsIn(g, d) = n, \A j \in d + 1 .. Len(g) : g[j] # "lf"
  PROVE  Path!UpToLine(g, n + 1) = Len(g)
<1>1. Len(g) \in Nat /\ Len(g) - 1 \in Nat /\ d <= Len(g) - 1
  BY LenProperties
<1>2. \A j \in d + 1 .. Len(g) - 1 : g[j] # "lf"
  BY <1>1
<1>3. FeedsIn(g, Len(g) - 1) = n
  BY <1>1, <1>2, FeedsInSkip
<1>4. IsUpTo(g, n + 1, Len(g))
  BY <1>1, <1>3 DEF IsUpTo
<1> QED
  BY <1>1, <1>4, IsUpToLine

\* The end of a range's bytes.
LEMMA EndBytesInv ==
  ASSUME ResolveInv, BytesInv, Path!ReadEnd
  PROVE  BytesInv'
<1> USE DriverAssumption, NoneAssumption
<1>1. /\ at = "reading" /\ ~ stopped /\ total' = Path!Lines
      /\ UNCHANGED <<got, feeds, last, cut, range, stopped, result>>
      /\ IF Path!Ranged /\ ~ Path!RangeComplete /\ carry # <<>> /\ ~ cut
           THEN line' = line + 1 /\ carry' = <<>>
                /\ IF Path!InRange(line + 1) THEN Path!Emit(carry) ELSE out' = out /\ at' = "returned"
           ELSE out' = out /\ at' = "returned" /\ UNCHANGED <<line, carry>>
  BY DEF Path!ReadEnd, Path!request
<1>2. /\ got \in Seq(Path!Bytes) /\ out \in Seq(Path!Bytes) /\ carry \in Seq(Path!Bytes)
      /\ Len(got) \in Nat /\ Len(out) \in Nat /\ Len(carry) \in Nat /\ line \in Nat
      /\ cut \in BOOLEAN /\ feeds = FeedsIn(got, Len(got)) /\ feeds \in Nat
      /\ DOMAIN carry = 1 .. Len(carry)
  BY LenProperties, FeedsInType DEF BytesInv, CountsInv
<1>3. total = None /\ result = None /\ (cut <=> Len(out) >= ReadBytes)
  BY <1>1 DEF BytesInv, EndInv, ResolveInv, ControlInv
<1>4. total' # None /\ total' = Path!Lines'
  <2>1. Path!Lines \in Nat /\ Path!Lines' = Path!Lines
    BY <1>1, <1>2 DEF Path!Lines
  <2> QED
    BY <1>1, <2>1
<1>5. /\ range # Path!Whole => range.start \in Nat \ {0} /\ range.start - 1 \in Nat /\ range.end \in Nat
      /\ range # Path!Whole => line <= range.end /\ line <= feeds
      /\ (range # Path!Whole /\ line < range.end) =>
           /\ carry = SubSeq(got, Path!UpToLine(got, line) + 1, Len(got))
           /\ \A i \in 1 .. Len(carry) : carry[i] = "x"
  BY <1>1, <1>3, RangeType DEF BytesInv, LinesInv
<1>6. CASE ~ (Path!Ranged /\ ~ Path!RangeComplete /\ carry # <<>> /\ ~ cut)
  <2>1. out' = out /\ at' = "returned" /\ line' = line /\ carry' = carry
    BY <1>1, <1>6
  <2>2. CountsInv'
    BY <1>1, <2>1 DEF BytesInv, CountsInv
  <2>3. EndInv'
    BY <1>1, <1>3, <1>4, <2>1 DEF EndInv, Fresh, Verifying
  <2>4. LinesInv'
    <3> SUFFICES ASSUME range # Path!Whole PROVE LinesInv'
      BY <1>1 DEF LinesInv
    <3>1. PICK d : d = Path!UpToLine(got, line)
      OBVIOUS
    <3>2. d \in Nat /\ d <= Len(got)
      BY <1>2, <3>1, UpToLineType
    <3>3. cut \/ line = range.end \/ d = Len(got)
      <4> SUFFICES ASSUME ~ cut, line < range.end PROVE d = Len(got)
        BY <1>2, <1>5
      <4>1. carry = <<>>
        BY <1>2, <1>5, <1>6 DEF Path!Ranged, Path!RangeComplete
      <4>2. Len(SubSeq(got, d + 1, Len(got))) = Len(got) - d
        BY <1>2, <3>2, SliceIs
      <4>3. SubSeq(got, d + 1, Len(got)) = <<>>
        BY <1>5, <3>1, <4>1
      <4>4. Len(got) - d = 0
        BY <4>2, <4>3, NothingIn
      <4> QED
        BY <1>2, <3>2, <4>4
    <3> QED
      BY <1>1, <1>4, <1>5, <2>1, <3>1, <3>3 DEF LinesInv
  <2>5. YieldedInv'
    BY <1>1, <2>1 DEF BytesInv, YieldedInv, From, Upto
  <2> QED
    BY <2>2, <2>3, <2>4, <2>5 DEF BytesInv
<1>7. CASE Path!Ranged /\ ~ Path!RangeComplete /\ carry # <<>> /\ ~ cut
  <2>1. /\ range # Path!Whole /\ line < range.end /\ ~ cut
        /\ line' = line + 1 /\ carry' = <<>>
        /\ \/ Path!InRange(line + 1) /\ out' = out \o Path!Allow(carry) /\ at' = "yielded"
           \/ ~ Path!InRange(line + 1) /\ out' = out /\ at' = "returned"
    BY <1>1, <1>2, <1>5, <1>7 DEF Path!Ranged, Path!RangeComplete, Path!Emit
  <2>2. PICK d : d = Path!UpToLine(got, line)
    OBVIOUS
  <2>3. PICK f : f = Path!UpToLine(got, range.start - 1)
    OBVIOUS
  <2>4. /\ d \in Nat /\ d <= Len(got) /\ f \in Nat /\ YieldedOf(out, got, f, d)
        /\ line + 1 \in Nat /\ line + 1 <= range.end /\ range.start - 1 \in Nat
    <3>1. d \in Nat /\ d <= Len(got) /\ f \in Nat
      BY <1>2, <1>5, <2>1, <2>2, <2>3, UpToLineType
    <3>2. YieldedOf(out, got, f, d)
      BY <2>1, <2>2, <2>3 DEF BytesInv, YieldedInv, From, Upto
    <3> QED
      BY <1>2, <1>5, <2>1, <3>1, <3>2
  <2>5. carry = SubSeq(got, d + 1, Len(got)) /\ \A i \in 1 .. Len(carry) : carry[i] = "x"
    BY <1>5, <2>1, <2>2
  <2>6. /\ Len(carry) = Len(got) - d
        /\ \A i \in 1 .. Len(got) - d : carry[i] = got[d + i]
    BY <1>2, <2>4, <2>5, SliceIs
  <2>7. d < Len(got)
    <3>1. Len(carry) # 0
      BY <1>2, <1>7, EmptySeq
    <3> QED
      BY <1>2, <2>4, <2>6, <3>1
  <2>8. Path!UpToLine(got, line + 1) = Len(got)
    <3>1. \A j \in d + 1 .. Len(got) : got[j] # "lf"
      <4> TAKE j \in d + 1 .. Len(got)
      <4>1. j - d \in 1 .. Len(got) - d /\ d + (j - d) = j
        BY <1>2, <2>4
      <4> QED
        BY <2>5, <2>6, <4>1
    <3>2. FeedsIn(got, d) = line
      BY <1>2, <1>5, <2>1, <2>2, UpToLineFeeds
    <3>3. got \in Seq(Path!Bytes) /\ line \in Nat /\ d \in Nat
      BY <1>2, <2>4
    <3> HIDE DriverAssumption, NoneAssumption
    <3> QED
      BY <2>7, <3>1, <3>2, <3>3, LastLine
  <2>9. Path!InRange(line + 1) <=> range.start - 1 <= line
    BY <1>2, <1>5, <2>1, <2>4 DEF Path!InRange
  <2>10. out' \in Seq(Path!Bytes) /\ YieldedOf(out', got, f, Len(got))
    <3>1. CASE Path!InRange(line + 1)
      <4>1. f <= d
        BY <1>2, <2>2, <2>3, <2>4, <2>9, <3>1, UpToLineGrows
      <4>2. Len(out) < ReadBytes
        BY <1>2, <1>3, <2>1
      <4>3. Len(got) - d \in Nat /\ d + (Len(got) - d) = Len(got) /\ Len(got) <= Len(got)
        BY <1>2, <2>4
      <4>4. /\ out \o Path!Allow(SubSeq(got, d + 1, d + (Len(got) - d))) \in Seq(Path!Bytes)
            /\ YieldedOf(out \o Path!Allow(SubSeq(got, d + 1, d + (Len(got) - d))), got, f,
                         d + (Len(got) - d))
        BY <1>2, <2>4, <4>1, <4>2, <4>3, YieldMore
      <4>5. out' = out \o Path!Allow(SubSeq(got, d + 1, d + (Len(got) - d)))
        BY <2>1, <2>5, <3>1, <4>3
      <4> QED
        BY <4>3, <4>4, <4>5
    <3>2. CASE ~ Path!InRange(line + 1)
      <4>1. ~ (range.start - 1 <= line)
        BY <2>9, <3>2
      <4>2. line <= range.start - 1 /\ line + 1 <= range.start - 1
        BY <1>2, <2>4, <4>1
      <4>3. d <= f /\ Len(got) <= f
        BY <1>2, <2>2, <2>3, <2>4, <2>8, <4>2, UpToLineGrows
      <4>4. YieldedOf(out, got, f, Len(got))
        BY <2>4, <4>3 DEF YieldedOf
      <4> QED
        BY <1>2, <2>1, <3>2, <4>4
    <3> QED
      BY <3>1, <3>2
  <2>11. CountsInv'
    BY <1>1, <2>1, <2>4, <2>10, NothingIn DEF BytesInv, CountsInv
  <2>12. EndInv'
    <3>1. at' \in {"yielded", "returned"} /\ (at' = "returned" => out' = out)
      BY <2>1
    <3> QED
      BY <1>1, <1>3, <1>4, <2>1, <3>1 DEF EndInv, Fresh, Verifying
  <2>13. LinesInv'
    BY <1>1, <1>4, <2>1, <2>4, <2>8 DEF LinesInv
  <2>14. YieldedInv'
    BY <1>1, <2>1, <2>3, <2>8, <2>10 DEF YieldedInv, From, Upto
  <2> QED
    BY <2>11, <2>12, <2>13, <2>14 DEF BytesInv
<1> QED
  BY <1>6, <1>7

\* A budget that is met is used up; nothing else changes where a read goes on.
LEMMA ResumeBytesInv ==
  ASSUME ResolveInv, BytesInv, Path!Resume
  PROVE  BytesInv'
<1> USE NoneAssumption
<1>1. /\ at = "yielded" /\ cut' = (Len(out) >= ReadBytes) /\ ~ cut
      /\ UNCHANGED <<got, out, carry, line, feeds, last, range, stopped, total, result>>
      /\ at' = CASE total # None -> "returned" [] total = None /\ Path!Ranged -> "lines" [] OTHER -> "reading"
  BY DEF Path!Resume, Path!control, Path!request, BytesInv, EndInv
<1>2. /\ at' \in {"returned", "lines", "reading"}
      /\ at' = "returned" <=> total # None
      /\ at' = "lines" => range # Path!Whole
      /\ at' = "reading" => range = Path!Whole
  BY <1>1 DEF Path!Ranged
<1>3. result = None /\ cut' \in BOOLEAN
  BY <1>1 DEF ResolveInv, ControlInv
<1>4. CountsInv'
  BY <1>1, <1>3 DEF BytesInv, CountsInv
<1>5. EndInv'
  <2>1. total # None => total' = Path!Lines'
    BY <1>1 DEF BytesInv, EndInv, Path!Lines
  <2> QED
    BY <1>1, <1>2, <1>3, <2>1 DEF EndInv, Fresh, Verifying
<1>6. LinesInv'
  BY <1>1, <1>2 DEF BytesInv, LinesInv
<1>7. YieldedInv'
  BY <1>1 DEF BytesInv, YieldedInv, From, Upto
<1> QED
  BY <1>4, <1>5, <1>6, <1>7 DEF BytesInv

\* Every step of a call.
LEMMA StepBytesInv ==
  ASSUME ResolveInv, BytesInv, [DriverNext]_<<vars, pathVars>>
  PROVE  BytesInv'
<1>1. CASE UNCHANGED pathVars
  <2>1. UNCHANGED <<range, at, stopped, got, out, carry, line, feeds, last, cut, total, result>>
    BY <1>1 DEF pathVars
  <2> QED
    BY <2>1 DEF BytesInv, CountsInv, EndInv, LinesInv, YieldedInv, From, Upto, Path!Lines
<1>2. CASE Path!Replace \/ Path!Resolve
  BY <1>2, ResolveIsQuiet, QuietBytesInv
<1>3. CASE \/ Path!SeesAbort \/ Path!Again \/ Path!ReadFails \/ Path!Finish
           \/ Path!Wake \/ Path!Leave \/ Path!Abort
  BY <1>3, EndIsQuiet, QuietBytesInv
<1>4. CASE Path!ReadChunk \/ Path!TakeLine \/ Path!ReadEnd \/ Path!Resume
  BY <1>4, ChunkBytesInv, LineBytesInv, EndBytesInv, ResumeBytesInv
<1> QED
  BY <1>1, <1>2, <1>3, <1>4 DEF DriverNext, Path!Next, Path!Step, Path!Drain

\* A call that runs no program has none running.
LEMMA NoExecInv == NoExec => ExecInv
<1> SUFFICES ASSUME NoExec PROVE ExecInv
  OBVIOUS
<1> USE ConstantsAssumption DEF NoExec
<1>1. frame.status = "none"
  BY DEF NoFrame
<1>2. TypeOK
  BY <1>1 DEF TypeOK, Exits
<1>3. VerdictKept /\ ClosedIsFinal /\ BudgetNoticed /\ FrameKept
  BY DEF VerdictKept, ClosedIsFinal, BudgetNoticed, FrameKept, Exhausted
<1> QED
  BY <1>2, <1>3 DEF ExecInv

\* Whichever kind of call the driver serves: what it knows of the run, of names,
\* of bytes and of lines is true at every step.
THEOREM DriverInvariant == DriverSpec => [](ExecInv /\ ResolveInv /\ BytesInv)
<1> DEFINE Inv == ExecInv /\ ResolveInv /\ BytesInv
<1>1. DriverInit => Inv
  BY InitExecInv, NoExecInv, InitResolveInv, InitBytesInv DEF DriverInit
<1>2. Inv /\ [DriverNext]_<<vars, pathVars>> => Inv'
  <2> SUFFICES ASSUME Inv, [DriverNext]_<<vars, pathVars>> PROVE Inv'
    OBVIOUS
  <2>1. [Next]_vars
    BY DEF DriverNext
  <2> QED
    BY <2>1, StepExecInv, StepResolveInv, StepBytesInv
<1> QED
  BY <1>1, <1>2, PTL DEF DriverSpec

\* Lines of a file are no more than its bytes.
LEMMA LinesBound ==
  ASSUME NEW s \in Seq(Path!Bytes)
  PROVE  FeedsIn(s, Len(s)) + (IF s # <<>> /\ s[Len(s)] = "x" THEN 1 ELSE 0) <= Len(s)
<1>0. PICK m : m = Len(s)
  OBVIOUS
<1>1. m \in Nat /\ (s = <<>> <=> m = 0)
  BY <1>0, LenProperties, EmptySeq
<1>2. FeedsIn(s, m) \in Nat /\ FeedsIn(s, m) <= m
  BY <1>1, FeedsInType
<1>3. CASE s # <<>> /\ s[m] = "x"
  <2>1. m - 1 \in Nat /\ (m - 1) + 1 = m
    BY <1>1, <1>3
  <2>2. FeedsIn(s, m - 1) \in Nat /\ FeedsIn(s, m - 1) <= m - 1
    BY <2>1, FeedsInType
  <2>3. FeedsIn(s, (m - 1) + 1) = FeedsIn(s, m - 1) + IF s[(m - 1) + 1] = "lf" THEN 1 ELSE 0
    BY <2>1, FeedsInStep
  <2>4. s[m] # "lf"
    BY <1>3
  <2>5. FeedsIn(s, m) = FeedsIn(s, m - 1)
    BY <2>1, <2>2, <2>3, <2>4
  <2> QED
    BY <1>0, <1>1, <1>3, <2>2, <2>5
<1>4. CASE ~ (s # <<>> /\ s[m] = "x")
  BY <1>0, <1>1, <1>2, <1>4
<1> QED
  BY <1>3, <1>4

\* The count a read ends with is the number of lines of the file.
LEMMA LinesAreCounted ==
  ASSUME BytesInv
  PROVE  /\ Path!Lines = Cardinality({Path!LineOf(got, i) : i \in DOMAIN got})
         /\ Path!Lines \in 0 .. MaxFile
<1> USE DriverAssumption, NoneAssumption
<1>1. /\ got \in Seq(Path!Bytes) /\ Len(got) <= MaxFile /\ Len(got) \in Nat
      /\ feeds = FeedsIn(got, Len(got)) /\ feeds \in Nat
      /\ last = IF got = <<>> THEN None ELSE got[Len(got)]
  BY LenProperties, FeedsInType DEF BytesInv, CountsInv
<1>2. last = "x" <=> got # <<>> /\ got[Len(got)] = "x"
  BY <1>1 DEF Path!Bytes
<1>3. Path!Lines = FeedsIn(got, Len(got)) + IF got # <<>> /\ got[Len(got)] = "x" THEN 1 ELSE 0
  BY <1>1, <1>2 DEF Path!Lines
<1>4. FeedsIn(got, Len(got)) + (IF got # <<>> /\ got[Len(got)] = "x" THEN 1 ELSE 0) <= Len(got)
  BY <1>1, LinesBound
<1>5. Path!Lines \in Nat /\ Path!Lines <= Len(got)
  BY <1>1, <1>3, <1>4
<1>6. Path!Lines = Cardinality({Path!LineOf(got, i) : i \in DOMAIN got})
  BY <1>1, <1>3, LinesCounted
<1> QED
  BY <1>1, <1>5, <1>6

\* So what is opened is in the workspace.
LEMMA InsideByInv ==
  ASSUME ResolveInv, BytesInv
  PROVE  HandleIsInside
<1> USE DriverAssumption
<1>1. Len(out) <= ReadBytes
  <2>1. got \in Seq(Path!Bytes) /\ line \in Nat
    BY DEF BytesInv, CountsInv
  <2>2. From(got) \in Nat /\ Upto(got, line) \in Nat
    BY <2>1, PlacesType
  <2> QED
    BY <2>2 DEF BytesInv, YieldedInv, YieldedOf
<1>2. total \in {None} \cup 0 .. MaxFile
  BY LinesAreCounted DEF BytesInv, EndInv
<1>3. Path!TypeOK
  BY <1>1, <1>2 DEF Path!TypeOK, ResolveInv, ControlInv, BytesInv, CountsInv
<1>4. Path!HandleIsInside
  BY DEF Path!HandleIsInside, ResolveInv, ReplacedInv, StillInv, Answered, Held
<1> QED
  BY <1>3, <1>4 DEF HandleIsInside

\* How much of what was read was asked for, and that no more than that was looked at.
LEMMA WantedIs ==
  ASSUME ResolveInv, BytesInv
  PROVE  \E to \in 0 .. Len(got) :
           /\ Path!Wanted(got) = SubSeq(got, From(got) + 1, to)
           /\ Upto(got, line) <= to
           /\ (total # None /\ ~ cut) => Upto(got, line) = to
<1>1. got \in Seq(Path!Bytes) /\ Len(got) \in Nat /\ line \in Nat
  BY LenProperties DEF BytesInv, CountsInv
<1>2. CASE range = Path!Whole
  <2>1. Path!Wanted(got) = SubSeq(got, 0 + 1, Len(got))
    BY <1>1, <1>2, WholeIsRest DEF Path!Wanted, Path!Ranged
  <2>2. From(got) = 0 /\ Upto(got, line) = Len(got) /\ Len(got) \in 0 .. Len(got)
    BY <1>1, <1>2 DEF From, Upto
  <2> QED
    BY <1>1, <2>1, <2>2
<1>3. CASE range # Path!Whole
  <2>1. PICK e : e = Path!UpToLine(got, range.end)
    OBVIOUS
  <2>2. PICK d : d = Path!UpToLine(got, line)
    OBVIOUS
  <2>3. range.end \in Nat /\ line <= range.end
    BY <1>3, RangeType DEF BytesInv, LinesInv
  <2>4. e \in Nat /\ e <= Len(got) /\ d \in Nat /\ d <= Len(got) /\ d <= e
    BY <1>1, <2>1, <2>2, <2>3, UpToLineType, UpToLineGrows
  <2>5. Path!Wanted(got) = SubSeq(got, From(got) + 1, e) /\ Upto(got, line) = d
    BY <1>3, <2>1, <2>2 DEF Path!Wanted, Path!Ranged, From, Upto
  <2>6. (total # None /\ ~ cut) => line = range.end \/ d = Len(got)
    BY <1>3, <2>2 DEF BytesInv, LinesInv
  <2>7. (total # None /\ ~ cut) => d = e
    <3>1. line = range.end => d = e
      BY <2>1, <2>2
    <3>2. d = Len(got) => d = e
      BY <1>1, <2>4
    <3> QED
      BY <2>6, <3>1, <3>2
  <2>8. e \in 0 .. Len(got) /\ Upto(got, line) <= e
    BY <1>1, <2>4, <2>5
  <2>9. (total # None /\ ~ cut) => Upto(got, line) = e
    BY <2>5, <2>7
  <2> QED
    BY <2>5, <2>8, <2>9
<1> QED
  BY <1>2, <1>3

\* So what is yielded is what was asked for.
LEMMA ExactByInv ==
  ASSUME ResolveInv, BytesInv
  PROVE  ReadIsExact
<1> USE NoneAssumption
<1>1. /\ got \in Seq(Path!Bytes) /\ out \in Seq(Path!Bytes) /\ line \in Nat
      /\ Len(got) \in Nat /\ Len(out) \in Nat
  BY LenProperties DEF BytesInv, CountsInv
<1>2. PICK to \in 0 .. Len(got) :
        /\ Path!Wanted(got) = SubSeq(got, From(got) + 1, to)
        /\ Upto(got, line) <= to
        /\ (total # None /\ ~ cut) => Upto(got, line) = to
  BY WantedIs
<1>3. PICK f : f = From(got)
  OBVIOUS
<1>4. PICK u : u = Upto(got, line)
  OBVIOUS
<1>5. f \in Nat /\ u \in Nat /\ u <= to /\ to \in Nat /\ YieldedOf(out, got, f, u)
  BY <1>1, <1>2, <1>3, <1>4, PlacesType DEF BytesInv, YieldedInv
<1>6. PICK w : w = Path!Wanted(got)
  OBVIOUS
<1>7. /\ Path!IsPrefix(out, w)
      /\ YieldedOf(out, got, f, to) =>
           /\ out = SubSeq(w, 1, Path!Min({Len(w), ReadBytes}))
           /\ Len(out) >= ReadBytes <=> Len(w) >= ReadBytes
  <2>1. w = SubSeq(got, f + 1, to)
    BY <1>2, <1>3, <1>6
  <2>2. /\ Path!IsPrefix(out, SubSeq(got, f + 1, to))
        /\ YieldedOf(out, got, f, to) =>
             /\ out = SubSeq(SubSeq(got, f + 1, to), 1,
                             Path!Min({Len(SubSeq(got, f + 1, to)), ReadBytes}))
             /\ Len(out) >= ReadBytes <=> Len(SubSeq(got, f + 1, to)) >= ReadBytes
    BY <1>1, <1>5, YieldedIsPrefix
  <2> HIDE DEF ResolveInv, BytesInv
  <2> QED
    BY <2>1, <2>2
<1>8. ASSUME result = "ok"
      PROVE  /\ ~ stopped
             /\ out = SubSeq(w, 1, Path!Min({Len(w), ReadBytes}))
             /\ cut <=> Len(w) >= ReadBytes
             /\ total = Path!Cardinality({Path!LineOf(got, i) : i \in DOMAIN got})
  <2>1. ~ stopped /\ total # None /\ total = Path!Lines /\ at = "done"
    BY <1>8 DEF BytesInv, EndInv, ResolveInv, ControlInv
  <2>2. cut <=> Len(out) >= ReadBytes
    BY <2>1 DEF BytesInv, EndInv
  <2>3. YieldedOf(out, got, f, to)
    <3>1. CASE cut
      BY <1>1, <1>5, <2>2, <3>1, YieldNoMore
    <3>2. CASE ~ cut
      BY <1>2, <1>4, <1>5, <2>1, <3>2
    <3> QED
      BY <3>1, <3>2
  <2>4. cut \in BOOLEAN
    BY DEF BytesInv, CountsInv
  <2>5. total = Path!Cardinality({Path!LineOf(got, i) : i \in DOMAIN got})
    BY <2>1, LinesAreCounted, PathCardinality
  <2>6. cut <=> Len(w) >= ReadBytes
    BY <1>7, <2>2, <2>3
  <2> QED
    BY <1>7, <2>1, <2>3, <2>5, <2>6
<1>9. result = "timeout" => stopped /\ total = None
  BY DEF BytesInv, EndInv
<1> QED
  BY <1>6, <1>7, <1>8, <1>9 DEF ReadIsExact, Path!ReadIsExact

\* A call that runs a program keeps its types and its frame tells what became of
\* it, also where the driver serves other calls.
THEOREM DriverTellsRun == DriverSpec => [](TypeOK /\ FrameTellsRun)
<1>1. ExecInv => TypeOK /\ FrameTellsRun
  BY FrameByInv DEF ExecInv
<1> QED
  BY <1>1, DriverInvariant, PTL

\* What a call of the driver opened is a file of the workspace, unless names were
\* replaced twice under it, and it is closed when the call is over; of a tree that
\* stays as it is, a path is refused as an escape exactly if it leads beyond.
THEOREM HandlesAreInside == DriverSpec => []HandleIsInside
<1>1. ResolveInv /\ BytesInv => HandleIsInside
  BY InsideByInv
<1> QED
  BY <1>1, DriverInvariant, PTL

\* What a read yields is a first part of what was asked for, whatever chunks the
\* file came in and wherever the budget ends; a read that ends ok yielded all of
\* it that fits, says truncated exactly if it met the budget, and counts the lines.
THEOREM ReadsAreExact == DriverSpec => []ReadIsExact
<1>1. ResolveInv /\ BytesInv => ReadIsExact
  BY ExactByInv
<1> QED
  BY <1>1, DriverInvariant, PTL

=============================================================================
