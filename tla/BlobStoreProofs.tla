--------------------------- MODULE BlobStoreProofs ---------------------------
(***************************************************************************)
(* Proofs about oversized results.  Of the cut (Bounding): for every text, *)
(* every budget and every notice, what is shown fits and is told exactly.  *)
(* Of the puts (BlobStore): whom a put can be in the way of, that the      *)
(* address never holds a part of the bytes, and that references lead there.*)
(***************************************************************************)
EXTENDS BlobStore, FiniteSetTheorems, WellFoundedInduction, TLAPS

(* A set of naturals that is not empty has a least element. *)
LEMMA Least ==
  ASSUME NEW T, T \subseteq Nat, T # {}
  PROVE  \E x \in T : \A y \in T : x <= y
<1>1. PICK x \in T : \A y \in T : ~ (<<y, x>> \in OpToRel(<, Nat))
  BY NatLessThanWellFounded, WFMin, Zenon
<1>2. \A y \in T : ~ (y < x)
  BY <1>1 DEF OpToRel
<1> QED
  BY <1>2

(* The cut stops at a boundary, not above the budget, and no boundary of the
   text lies between the two. *)
LEMMA CutAtBoundary ==
  ASSUME NEW text, text.size \in Nat, text.inner \subseteq 1 .. text.size - 1,
         NEW budget \in Int, NEW end, end = CutAtCharBoundary(text, budget)
  PROVE  /\ end \in 0 .. text.size /\ end \notin text.inner
         /\ budget <= 0 => end = 0
         /\ budget >= 0 => end <= budget
         /\ \A e \in end + 1 .. budget : e <= text.size => e \in text.inner
<1>1. CASE budget <= 0
  BY <1>1 DEF CutAtCharBoundary
<1>2. CASE budget > 0 /\ text.size <= budget
  BY <1>2 DEF CutAtCharBoundary
<1>3. CASE budget > 0 /\ text.size > budget
  <2> DEFINE Stop(e) == e \notin text.inner /\ \A f \in e + 1 .. budget : f \in text.inner
             T == {b \in 0 .. budget : budget - b \notin text.inner}
  <2>1. T \subseteq Nat /\ T # {}
    <3>1. budget \in T
      BY <1>3
    <3> QED
      BY <3>1
  <2>2. PICK b \in T : \A y \in T : b <= y
    BY <2>1, Least
  <2>3. budget - b \in 0 .. budget /\ budget - b \notin text.inner
    BY <1>3
  <2>4. ASSUME NEW f \in budget - b + 1 .. budget PROVE f \in text.inner
    <3>1. budget - f \in 0 .. budget /\ budget - f < b /\ budget - (budget - f) = f
      BY <1>3, <2>3
    <3>2. budget - f \in T => b <= budget - f
      <4> HIDE DEF T
      <4> QED
        BY <2>2
    <3>3. budget - f \notin T
      <4>1. b \in Nat
        OBVIOUS
      <4> HIDE DEF T
      <4> QED
        BY <3>1, <3>2, <4>1
    <3> QED
      BY <3>1, <3>3
  <2>5. \E e \in 0 .. budget : Stop(e)
    BY <2>3, <2>4
  <2>6. end = CHOOSE e \in 0 .. budget : Stop(e)
    BY <1>3 DEF CutAtCharBoundary
  <2>7. end \in 0 .. budget /\ Stop(end)
    BY <2>5, <2>6
  <2> QED
    BY <1>3, <2>7
<1> QED
  BY <1>1, <1>2, <1>3

(* The number in the notice is at home in what is assumed of numbers. *)
LEMMA Numbers ==
  ASSUME NEW max \in Budgets, NEW n \in Int, n >= -(Fixed + 20), n <= max
  PROVE  /\ Digits(n) \in 1 .. 20 /\ NoticeFor(n) \in Int
         /\ max - NoticeFor(n) >= -(Fixed + 20) /\ max - NoticeFor(n) < max
         /\ max - NoticeFor(n) \in Int
<1>1. max \in Nat \ {0} /\ Fixed \in Nat \ {0}
  BY SizesAssumption
<1>2. Digits(n) \in 1 .. 20
  BY <1>1, DigitsAssumption
<1> QED
  BY <1>1, <1>2 DEF NoticeFor

LEMMA HeadBudgetType ==
  ASSUME NEW max \in Budgets
  PROVE  HeadBudget(max) \in Int /\ HeadBudget(max) < max /\ HeadBudget(max) >= -(Fixed + 20)
<1> DEFINE x1 == max - NoticeFor(max)
           x2 == max - NoticeFor(x1)
<1>1. max \in Nat \ {0} /\ Fixed \in Nat \ {0}
  BY SizesAssumption
<1>2. x1 \in Int /\ x1 >= -(Fixed + 20) /\ x1 <= max
  BY <1>1, Numbers
<1>3. x2 \in Int /\ x2 >= -(Fixed + 20) /\ x2 <= max
  BY <1>1, <1>2, Numbers
<1>4. HeadBudget(max) = max - NoticeFor(x2)
  BY DEF HeadBudget
<1> HIDE DEF x1, x2
<1> QED
  BY <1>1, <1>3, <1>4, Numbers

(* Where the notice fits at all: a head within its budget fits beside the notice
   of its own size, and a longer one does not. *)
LEMMA HeadFits ==
  ASSUME NEW max \in Budgets, max >= NoticeFor(0)
  PROVE  /\ \A s \in 0 .. max : (s = 0 \/ s <= HeadBudget(max)) => s + NoticeFor(s) <= max
         /\ \A t \in 1 .. max : t > HeadBudget(max) => t + NoticeFor(t) > max
<1> DEFINE D == Digits(max)
           k == max - Fixed
           x1 == k - D
           x2 == k - Digits(x1)
           x3 == k - Digits(x2)
<1>1. max \in Nat \ {0} /\ Fixed \in Nat \ {0}
  BY SizesAssumption
<1>2. /\ \A n \in -(Fixed + 20) .. max : Digits(n) \in 1 .. 20
      /\ \A m, n \in 0 .. max : m <= n => Digits(m) <= Digits(n)
      /\ \A m, n \in 0 .. max : (m <= n /\ n - m <= D) => Digits(n) <= Digits(m) + 1
      /\ \A n \in 0 .. max : n < D => Digits(n) = 1
      /\ \A n \in 1 .. D : Digits(-n) = 2
  BY DigitsAssumption
<1>3. D \in 1 .. 20 /\ Digits(0) = 1
  BY <1>1, <1>2
<1>4. k \in Nat \ {0} /\ k < max
  BY <1>1, <1>3 DEF NoticeFor
<1>5. HeadBudget(max) = x3
  <2>1. max - NoticeFor(max) = x1
    BY <1>1, <1>3 DEF NoticeFor
  <2>2. x1 \in -(Fixed + 20) .. max
    BY <1>1, <1>3, <1>4
  <2>3. max - NoticeFor(x1) = x2
    BY <1>1, <1>2, <2>2 DEF NoticeFor
  <2>4. x2 \in -(Fixed + 20) .. max
    BY <1>1, <1>2, <1>4, <2>2
  <2>5. max - NoticeFor(x2) = x3
    BY <1>1, <1>2, <2>4 DEF NoticeFor
  <2> QED
    BY <2>1, <2>3, <2>5 DEF HeadBudget
<1>6. \A n \in 0 .. max : Digits(n) \in 1 .. 20
  BY <1>1, <1>2
<1> DEFINE Fits(s)   == s + Digits(s) <= k
           Exceeds(t) == t + Digits(t) > k
           Exact == /\ \A s \in 0 .. max : (s = 0 \/ s <= x3) => Fits(s)
                    /\ \A t \in 1 .. max : t > x3 => Exceeds(t)
<1>7. \A m, n \in 0 .. max : m <= n => Digits(m) <= Digits(n)
  BY <1>2
<1>8. ASSUME x1 >= 0 PROVE Exact
  <2>1. x1 \in 0 .. max
    BY <1>1, <1>3, <1>4, <1>8
  <2>2. Digits(x1) \in 1 .. D
    BY <1>1, <1>2, <2>1
  <2>3. x2 \in 0 .. max /\ x1 <= x2 /\ x2 - x1 <= D
    BY <1>1, <1>3, <1>4, <2>1, <2>2
  <2>4. Digits(x2) \in 1 .. D /\ Digits(x1) <= Digits(x2) /\ Digits(x2) <= Digits(x1) + 1
    BY <1>1, <1>2, <2>1, <2>3
  <2>5. x3 \in 0 .. max /\ (x3 = x2 \/ x3 = x2 - 1)
    BY <1>1, <1>3, <1>4, <2>1, <2>2, <2>3, <2>4
  <2>6. k = x3 + Digits(x2)
    BY <1>4, <2>4
  <2> HIDE DEF x1, x2, x3, k
  <2>7. ASSUME NEW s \in 0 .. max, s = 0 \/ s <= x3 PROVE Fits(s)
    <3>1. s <= x3 /\ s <= x2
      BY <2>3, <2>5, <2>7
    <3>2. Digits(s) <= Digits(x2) /\ Digits(s) \in 1 .. 20
      BY <1>1, <1>6, <1>7, <2>3, <3>1
    <3> QED
      BY <2>4, <2>5, <2>6, <3>1, <3>2
  <2>8. ASSUME NEW t \in 1 .. max, t > x3 PROVE Exceeds(t)
    <3>1. t >= x2
      BY <2>3, <2>5, <2>8
    <3>2. Digits(t) >= Digits(x2) /\ Digits(t) \in 1 .. 20
      BY <1>1, <1>6, <1>7, <2>3, <3>1
    <3> QED
      BY <2>4, <2>5, <2>6, <2>8, <3>2
  <2> QED
    BY <2>7, <2>8
<1>9. ASSUME x1 < 0 PROVE Exact
  <2>1. k < D /\ -x1 \in 1 .. D
    BY <1>3, <1>4, <1>9
  <2>2. Digits(x1) = 2
    <3>1. x1 = -(-x1)
      BY <1>3, <1>4
    <3> QED
      BY <1>2, <2>1, <3>1
  <2>3. x2 = k - 2
    BY <2>2
  <2>4. (k = 1 /\ x3 = -1) \/ (k > 1 /\ x3 = k - 1)
    <3>1. CASE k = 1
      <4>1. x2 = -1 /\ 1 \in 1 .. D
        BY <1>3, <2>3, <3>1
      <4> QED
        BY <1>2, <3>1, <4>1
    <3>2. CASE k > 1
      <4>1. x2 \in 0 .. max /\ x2 < D
        BY <1>1, <1>3, <1>4, <2>1, <2>3, <3>2
      <4> QED
        BY <1>2, <3>2, <4>1
    <3> QED
      BY <1>4, <3>1, <3>2
  <2> HIDE DEF x1, x2, x3, k
  <2>5. ASSUME NEW s \in 0 .. max, s = 0 \/ s <= x3 PROVE Fits(s)
    <3>1. s < D /\ s < k
      BY <1>3, <1>4, <2>1, <2>4, <2>5
    <3> QED
      BY <1>2, <1>4, <3>1
  <2>6. ASSUME NEW t \in 1 .. max, t > x3 PROVE Exceeds(t)
    <3>1. Digits(t) \in 1 .. 20
      BY <1>1, <1>6
    <3> QED
      BY <1>4, <2>4, <2>6, <3>1
  <2> QED
    BY <2>5, <2>6
<1>10. Exact
  BY <1>3, <1>4, <1>8, <1>9
<1>11. \A n \in 0 .. max : (Fits(n) => n + NoticeFor(n) <= max) /\ (Exceeds(n) => n + NoticeFor(n) > max)
  BY <1>1, <1>6 DEF NoticeFor
<1>12. \A n \in 1 .. max : n \in 0 .. max
  BY <1>1
<1> HIDE DEF x3, Fits, Exceeds
<1> QED
  BY <1>5, <1>10, <1>11, <1>12

(* Every cut is exact, whatever the text and the budget. *)
LEMMA BoundIsExact == AllCutsExact
<1> SUFFICES ASSUME NEW text \in Texts, NEW max \in Budgets
             PROVE  ExactCut(text, max)
  BY DEF AllCutsExact
<1> DEFINE h    == HeadBudget(max)
           s    == CutAtCharBoundary(text, h)
           full == Joined(text, s)
<1>1. /\ max \in Nat \ {0} /\ Fixed \in Nat \ {0} /\ FixedInner \subseteq 1 .. Fixed - 1
      /\ text.size \in Nat /\ text.inner \subseteq 1 .. text.size - 1
  BY SizesAssumption
<1>2. h \in Int /\ h < max /\ h >= -(Fixed + 20)
  BY HeadBudgetType
<1>3. /\ s \in 0 .. text.size /\ s \notin text.inner
      /\ h <= 0 => s = 0
      /\ h >= 0 => s <= h
      /\ \A e \in s + 1 .. h : e <= text.size => e \in text.inner
  <2> HIDE DEF h
  <2> QED
    BY <1>1, <1>2, CutAtBoundary
<1>4. s \in 0 .. max /\ (s = 0 \/ s <= h)
  BY <1>1, <1>2, <1>3
<1>5. CASE text.size <= max
  <2>1. Bound(text, max) = [shown |-> text.size, size |-> text.size]
    BY <1>5 DEF Bound
  <2>2. text.size \notin text.inner
    BY <1>1
  <2> QED
    BY <1>1, <1>5, <2>1, <2>2 DEF ExactCut
<1>6. CASE text.size > max
  <2> DEFINE size == IF full.size <= max THEN full.size ELSE CutAtCharBoundary(full, max)
  <2>1. Bound(text, max).shown = s /\ Bound(text, max).size = size
    BY <1>1, <1>6 DEF Bound
  <2>2. Digits(s) \in 1 .. 20 /\ NoticeFor(s) = Fixed + Digits(s)
    BY <1>1, <1>4, Numbers DEF NoticeFor
  <2>3. full.size = s + NoticeFor(s) /\ full.size \in Nat
    BY <1>1, <1>3, <2>2 DEF Joined
  <2>4. full.inner \subseteq 1 .. full.size - 1
    <3>1. full.inner = {e \in text.inner : e < s} \cup {s + e : e \in FixedInner}
      BY DEF Joined
    <3> HIDE DEF s, full
    <3>2. \A e \in text.inner : e < s => e \in 1 .. full.size - 1
      BY <1>1, <1>3, <2>2, <2>3
    <3>3. \A e \in FixedInner : s + e \in 1 .. full.size - 1
      BY <1>1, <1>3, <2>2, <2>3
    <3> QED
      BY <3>1, <3>2, <3>3
  <2>5. size <= max
    <3> HIDE DEF full
    <3>1. CutAtCharBoundary(full, max) <= max
      BY <1>1, <2>3, <2>4, CutAtBoundary
    <3> QED
      BY <3>1
  <2>6. ASSUME max >= NoticeFor(0)
        PROVE  /\ size = s + NoticeFor(s)
               /\ \A more \in s + 1 .. max :
                    more \notin text.inner => more + NoticeFor(more) > max
    <3> HIDE DEF s, h, full
    <3>1. /\ \A n \in 0 .. max : (n = 0 \/ n <= h) => n + NoticeFor(n) <= max
          /\ \A t \in 1 .. max : t > h => t + NoticeFor(t) > max
      BY <2>6, HeadFits DEF h
    <3>2. size = s + NoticeFor(s)
      BY <1>4, <2>3, <3>1
    <3>3. ASSUME NEW more \in s + 1 .. max, more \notin text.inner
          PROVE  more + NoticeFor(more) > max
      <4>1. more \in 1 .. max /\ more <= text.size
        BY <1>1, <1>4, <1>6
      <4>2. more > h
        BY <1>1, <1>2, <1>3, <1>4, <3>3, <4>1
      <4> QED
        BY <3>1, <4>1, <4>2
    <3> QED
      BY <3>2, <3>3
  <2> HIDE DEF s, h, full, size
  <2> QED
    BY <1>3, <2>1, <2>5, <2>6 DEF ExactCut
<1> QED
  BY <1>1, <1>5, <1>6

(* A result that carries a reference is within its budget and says exactly how
   much of it is shown (bound.ts 76-110). *)
THEOREM CutsAreExact == Spec => []CutIsExact
<1>1. CutIsExact
  BY BoundIsExact DEF CutIsExact
<1> QED
  BY <1>1, PTL DEF Spec

-----------------------------------------------------------------------------
(* The puts and their files *)

(* What a put has not done yet, and while it has a file of its own. *)
Before  == {"idle", "lookup", "found", "create"}
Writing == {"created", "write", "writing", "written", "synced"}
Late    == {"renamed", "published", "failing", "done", "dead"}

(* There is an inode for every put that may still create one. *)
Room == created + Cardinality({p \in Puts : pc[p] \in Before}) <= Cardinality(Puts)

OutcomeLast == \A p \in Puts : pc[p] \notin {"done", "dead"} => outcome[p] = "none"

(* A put that writes has a file open; a temporary name is the doing of a put of its
   process that has not moved it to the address, and a put whose temporary file was
   taken away has met another of its process that came to its rename. *)
HeldSome == \A p \in Puts : pc[p] \in Writing => held[p] # 0

TempMade ==
  \A pid \in Pids : temporary[pid] # 0 =>
    \E q \in Puts : /\ Pid[q] = pid /\ outcome[q] # "found" /\ outcome[q] # "published"
                   /\ pc[q] \in Writing \cup {"failing", "done", "dead"}

TempTaken ==
  \A p \in Puts : (pc[p] = "created" /\ held[p] # temporary[Pid[p]]) =>
    \E q \in Puts : q # p /\ Pid[q] = Pid[p] /\ pc[q] \in Late

StoreInv == TypeOK /\ Room /\ OutcomeLast /\ HeldSome /\ TempMade /\ TempTaken

LEMMA PidType == ASSUME NEW p \in Puts PROVE Pid[p] \in Pids
BY DEF Pids

LEMMA RoomKept ==
  ASSUME Room, created' = created, created \in Nat,
         \A p \in Puts : pc'[p] \in Before => pc[p] \in Before
  PROVE  Room'
<1> DEFINE S == {p \in Puts : pc[p] \in Before}
           T == {p \in Puts : pc'[p] \in Before}
<1>1. S \in SUBSET Puts /\ T \in SUBSET S
  OBVIOUS
<1>2. created + Cardinality(S) <= Cardinality(Puts)
  BY DEF Room
<1> HIDE DEF S, T
<1>3. IsFiniteSet(Puts) /\ IsFiniteSet(S)
  BY <1>1, ConstantsAssumption, FS_Subset
<1>4. IsFiniteSet(T) /\ Cardinality(T) <= Cardinality(S)
  BY <1>1, <1>3, FS_Subset
<1>5. Cardinality(S) \in Nat /\ Cardinality(T) \in Nat /\ Cardinality(Puts) \in Nat
  BY <1>3, <1>4, FS_CardinalityType
<1>6. created + Cardinality(T) <= Cardinality(Puts)
  BY <1>2, <1>4, <1>5
<1> QED
  BY <1>6 DEF Room, T

(* A put that is about to create its file finds room for it. *)
LEMMA RoomForOne ==
  ASSUME Room, created \in Nat, NEW p \in Puts, pc[p] \in Before
  PROVE  /\ created + 1 \in Inodes
         /\ created + 1 + Cardinality({r \in Puts : pc[r] \in Before} \ {p}) <= Cardinality(Puts)
<1> DEFINE S == {r \in Puts : pc[r] \in Before}
<1>1. S \in SUBSET Puts /\ p \in S
  OBVIOUS
<1>2. created + Cardinality(S) <= Cardinality(Puts)
  BY DEF Room
<1> HIDE DEF S
<1>3. IsFiniteSet(Puts) /\ IsFiniteSet(S)
  BY <1>1, ConstantsAssumption, FS_Subset
<1>4. Cardinality(S \ {p}) = Cardinality(S) - 1 /\ IsFiniteSet(S \ {p})
  BY <1>1, <1>3, FS_RemoveElement
<1>5. Cardinality(S) \in Nat /\ Cardinality(S \ {p}) \in Nat /\ Cardinality(Puts) \in Nat
  BY <1>3, <1>4, FS_CardinalityType
<1>6. created + 1 + Cardinality(S \ {p}) <= Cardinality(Puts) /\ created + 1 \in Inodes
  BY <1>2, <1>4, <1>5 DEF Inodes
<1> QED
  BY <1>6 DEF S

LEMMA InitStoreInv == Init => StoreInv
<1> SUFFICES ASSUME Init PROVE StoreInv
  OBVIOUS
<1>1. Cardinality(Puts) \in Nat
  BY ConstantsAssumption, FS_CardinalityType
<1>2. TypeOK
  BY <1>1, ConstantsAssumption DEF Init, TypeOK, Ended, Inodes
<1>3. Room
  <2>1. {p \in Puts : pc[p] \in Before} = Puts
    BY DEF Init, Before
  <2>2. Cardinality({p \in Puts : pc[p] \in Before}) = Cardinality(Puts) /\ created = 0
    BY <2>1 DEF Init
  <2> QED
    BY <1>1, <2>2 DEF Room
<1>4. OutcomeLast /\ HeldSome /\ TempMade /\ TempTaken
  BY DEF Init, OutcomeLast, HeldSome, TempMade, TempTaken, Writing
<1> QED
  BY <1>2, <1>3, <1>4 DEF StoreInv

(* A step of a put is its own. *)
LEMMA PutMoves ==
  ASSUME TypeOK, OutcomeLast, NEW p \in Puts, Start(p) \/ PutStep(p)
  PROVE  /\ \A q \in Puts : q # p => pc'[q] = pc[q] /\ held'[q] = held[q] /\ outcome'[q] = outcome[q]
         /\ pc[p] \notin {"done", "dead"} /\ pc'[p] \notin {"idle", "dead"}
         /\ pc'[p] \in Before => pc[p] \in Before
         /\ pc'[p] # "done" => outcome'[p] = outcome[p]
         /\ pc'[p] = "create" => file = 0
         /\ pc[p] \in Late => pc'[p] \in Late
         /\ pc[p] \notin Before => outcome'[p] # "found"
         /\ (pc[p] \in Writing /\ pc'[p] \in Writing) => held'[p] = held[p]
         /\ UNCHANGED <<crashes, powerLosses>>
<1> USE DEF TypeOK, Before, Writing, Late, Ended, Goto, Refer, Throw
<1>1. CASE Start(p)
  BY <1>1 DEF Start, OutcomeLast
<1>2. CASE Lookup(p) \/ LookupVerify(p) \/ Create(p) \/ CreateVerify(p)
  BY <1>2 DEF OutcomeLast, Lookup, LookupVerify, Create, CreateVerify
<1>3. CASE WriteSome(p) \/ WriteRest(p) \/ Sync(p) \/ WriteFail(p)
  BY <1>3 DEF OutcomeLast, WriteSome, WriteRest, Sync, WriteFail
<1>4. CASE Rename(p) \/ SyncDirectory(p) \/ Unlink(p)
  BY <1>4 DEF OutcomeLast, Rename, SyncDirectory, Unlink
<1> QED
  BY <1>1, <1>2, <1>3, <1>4 DEF PutStep

(* The files a step of a put touches: it creates one, writes its own, moves the
   temporary name to the address, or removes it. *)
LEMMA PutTypes ==
  ASSUME StoreInv, NEW p \in Puts, Start(p) \/ PutStep(p)
  PROVE  TypeOK'
<1> USE DEF StoreInv, TypeOK, Ended, Goto, Refer, Throw, diskVars, TempOf
<1>0. created \in Nat /\ Cardinality(Puts) \in Nat /\ Pid[p] \in Pids
  BY ConstantsAssumption, FS_CardinalityType, PidType
<1>1. CASE Start(p)
  BY <1>1 DEF Start
<1>2. CASE Lookup(p) \/ LookupVerify(p)
  BY <1>2 DEF Lookup, LookupVerify
<1>3. CASE Create(p)
  <2>1. CASE Throw(p) /\ UNCHANGED <<temporary, created>>
    BY <1>3, <2>1 DEF Create
  <2>2. CASE created' # created
    <3>1. created + 1 \in 1 .. Cardinality(Puts)
      BY <1>0, <1>3, RoomForOne DEF Create, Before, Inodes
    <3>2. /\ created' = created + 1 /\ temporary' = [temporary EXCEPT ![Pid[p]] = created + 1]
          /\ held' = [held EXCEPT ![p] = created + 1] /\ pc' = [pc EXCEPT ![p] = "created"]
          /\ UNCHANGED <<file, durable, content, outcome, crashes, powerLosses>>
      BY <1>3, <2>2 DEF Create
    <3>3. /\ file' \in 0 .. created' /\ durable' \in 0 .. created'
          /\ temporary' \in [Pids -> 0 .. created'] /\ held' \in [Puts -> 0 .. created']
      BY <1>0, <3>2
    <3> QED
      BY <1>0, <3>1, <3>2, <3>3
  <2> QED
    BY <1>0, <1>3, <2>1, <2>2 DEF Create
<1>4. CASE CreateVerify(p)
  BY <1>4 DEF CreateVerify
<1>5. CASE WriteSome(p) \/ WriteRest(p) \/ Sync(p) \/ WriteFail(p)
  BY <1>5 DEF WriteSome, WriteRest, Sync, WriteFail
<1>6. CASE Rename(p) \/ SyncDirectory(p)
  BY <1>0, <1>6 DEF Rename, SyncDirectory
<1>7. CASE Unlink(p)
  BY <1>0, <1>7 DEF Unlink
<1> QED
  BY <1>1, <1>2, <1>3, <1>4, <1>5, <1>6, <1>7 DEF PutStep

(* What a step of a put does to the temporary names. *)
LEMMA PutNames ==
  ASSUME TypeOK, NEW p \in Puts, Start(p) \/ PutStep(p)
  PROVE  \/ /\ UNCHANGED <<temporary, created>>
            /\ pc[p] \in Before => pc'[p] \in Before \cup {"done"}
         \/ /\ temporary[Pid[p]] = 0 /\ pc[p] = "create" /\ pc'[p] = "created"
            /\ held'[p] = created + 1 /\ created' = created + 1
            /\ temporary' = [temporary EXCEPT ![Pid[p]] = created + 1]
         \/ /\ \/ pc[p] = "synced" /\ pc'[p] = "renamed" /\ temporary[Pid[p]] # 0
               \/ pc[p] \in {"published", "failing"} /\ pc'[p] = "done" /\ file' = file
            /\ created' = created /\ temporary' = [temporary EXCEPT ![Pid[p]] = 0]
<1> USE DEF TypeOK, Before, Goto, Refer, Throw, TempOf, diskVars
<1>1. CASE Start(p) \/ Lookup(p) \/ LookupVerify(p) \/ CreateVerify(p)
  BY <1>1 DEF Start, Lookup, LookupVerify, CreateVerify
<1>2. CASE Create(p)
  BY <1>2 DEF Create
<1>3. CASE WriteSome(p) \/ WriteRest(p) \/ Sync(p) \/ WriteFail(p) \/ SyncDirectory(p)
  BY <1>3 DEF WriteSome, WriteRest, Sync, WriteFail, SyncDirectory
<1>4. CASE Rename(p) \/ Unlink(p)
  BY <1>4 DEF Rename, Unlink
<1> QED
  BY <1>1, <1>2, <1>3, <1>4 DEF PutStep

(* Whoever has made a temporary file leaves it, or moves it to the address. *)
LEMMA MakerStays ==
  ASSUME TypeOK, OutcomeLast, NEW p \in Puts, PutStep(p), pc[p] \in Writing \cup {"failing"}
  PROVE  /\ outcome'[p] # "found" /\ outcome'[p] # "published"
         /\ \/ pc'[p] \in Writing \cup {"failing", "done"}
            \/ temporary'[Pid[p]] = 0
<1> USE DEF TypeOK, OutcomeLast, Writing, Goto, Refer, Throw, TempOf
<1>1. outcome[p] = "none" /\ Pid[p] \in Pids
  BY PidType
<1>2. CASE CreateVerify(p) \/ WriteSome(p) \/ WriteRest(p) \/ Sync(p) \/ WriteFail(p)
  BY <1>1, <1>2 DEF CreateVerify, WriteSome, WriteRest, Sync, WriteFail
<1>3. CASE Rename(p)
  BY <1>1, <1>3 DEF Rename
<1>4. CASE Unlink(p)
  BY <1>1, <1>4 DEF Unlink
<1> QED
  BY <1>2, <1>3, <1>4 DEF PutStep, Lookup, LookupVerify, Create, SyncDirectory

LEMMA PutStoreInv ==
  ASSUME StoreInv, NEW p \in Puts, Start(p) \/ PutStep(p)
  PROVE  StoreInv'
<1>1. /\ \A q \in Puts : q # p => pc'[q] = pc[q] /\ held'[q] = held[q] /\ outcome'[q] = outcome[q]
      /\ pc[p] \notin {"done", "dead"} /\ pc'[p] \notin {"idle", "dead"}
      /\ pc'[p] \in Before => pc[p] \in Before
      /\ pc'[p] # "done" => outcome'[p] = outcome[p]
      /\ pc[p] \in Late => pc'[p] \in Late
      /\ (pc[p] \in Writing /\ pc'[p] \in Writing) => held'[p] = held[p]
  BY PutMoves DEF StoreInv
<1>2. \/ /\ UNCHANGED <<temporary, created>>
         /\ pc[p] \in Before => pc'[p] \in Before \cup {"done"}
      \/ /\ temporary[Pid[p]] = 0 /\ pc[p] = "create" /\ pc'[p] = "created"
         /\ held'[p] = created + 1 /\ created' = created + 1
         /\ temporary' = [temporary EXCEPT ![Pid[p]] = created + 1]
      \/ /\ \/ pc[p] = "synced" /\ pc'[p] = "renamed" /\ temporary[Pid[p]] # 0
            \/ pc[p] \in {"published", "failing"} /\ pc'[p] = "done" /\ file' = file
         /\ created' = created /\ temporary' = [temporary EXCEPT ![Pid[p]] = 0]
  BY PutNames DEF StoreInv
<1>3. created \in Nat /\ temporary \in [Pids -> 0 .. created] /\ \A q \in Puts : Pid[q] \in Pids
  BY PidType, ConstantsAssumption, FS_CardinalityType DEF StoreInv, TypeOK
<1>4. TypeOK'
  BY PutTypes
<1>5. Room'
  <2>1. CASE created' = created
    BY <1>1, <1>3, <2>1, RoomKept DEF StoreInv
  <2>2. CASE created' # created
    <3>1. pc[p] \in Before /\ pc'[p] \notin Before /\ created' = created + 1
      BY <1>2, <2>2 DEF Before
    <3>2. {r \in Puts : pc'[r] \in Before} = {r \in Puts : pc[r] \in Before} \ {p}
      BY <1>1, <3>1
    <3>3. created + 1 + Cardinality({r \in Puts : pc'[r] \in Before}) <= Cardinality(Puts)
      BY <1>3, <3>1, <3>2, RoomForOne DEF StoreInv
    <3> QED
      BY <3>1, <3>3 DEF Room
  <2> QED
    BY <2>1, <2>2
<1>6. OutcomeLast'
  BY <1>1 DEF StoreInv, OutcomeLast
<1>7. HeldSome'
  <2> SUFFICES ASSUME NEW q \in Puts, pc'[q] \in Writing PROVE held'[q] # 0
    BY DEF HeldSome
  <2>1. CASE q # p
    BY <1>1, <2>1 DEF StoreInv, HeldSome
  <2>2. CASE q = p /\ pc[p] \in Writing
    BY <1>1, <2>2 DEF StoreInv, HeldSome
  <2>3. CASE q = p /\ pc[p] \notin Writing
    <3>1. pc[p] \in Before
      BY <1>1, <2>3 DEF StoreInv, TypeOK, Ended, Before, Writing, Late
    <3>2. held'[p] = created + 1
      BY <1>2, <2>3, <3>1 DEF Before, Writing
    <3> QED
      BY <1>3, <2>3, <3>2
  <2> QED
    BY <2>1, <2>2, <2>3
<1>8. TempMade'
  <2> SUFFICES ASSUME NEW pid \in Pids, temporary'[pid] # 0
               PROVE  \E q \in Puts : /\ Pid[q] = pid
                                     /\ outcome'[q] # "found" /\ outcome'[q] # "published"
                                     /\ pc'[q] \in Writing \cup {"failing", "done", "dead"}
    BY DEF TempMade
  <2>1. CASE temporary[pid] # 0
    <3>1. PICK q \in Puts : /\ Pid[q] = pid /\ outcome[q] # "found" /\ outcome[q] # "published"
                           /\ pc[q] \in Writing \cup {"failing", "done", "dead"}
      BY <2>1 DEF StoreInv, TempMade
    <3>2. CASE q # p
      BY <1>1, <3>1, <3>2
    <3>3. CASE q = p
      <4>1. pc[p] \in Writing \cup {"failing"} /\ PutStep(p)
        BY <1>1, <3>1, <3>3 DEF Start, Writing
      <4> QED
        BY <3>1, <3>3, <4>1, MakerStays DEF StoreInv
    <3> QED
      BY <3>2, <3>3
  <2>2. CASE temporary[pid] = 0
    <3>1. pid = Pid[p] /\ pc[p] = "create" /\ pc'[p] = "created"
      BY <1>2, <1>3, <2>2
    <3>2. outcome'[p] = "none"
      BY <1>1, <3>1 DEF StoreInv, OutcomeLast
    <3> QED
      BY <3>1, <3>2 DEF Writing
  <2> QED
    BY <2>1, <2>2
<1>9. TempTaken'
  <2> SUFFICES ASSUME NEW r \in Puts, pc'[r] = "created", held'[r] # temporary'[Pid[r]]
               PROVE  \E q \in Puts : q # r /\ Pid[q] = Pid[r] /\ pc'[q] \in Late
    BY DEF TempTaken
  <2>1. CASE r = p
    <3>1. held'[p] = temporary'[Pid[p]]
      <4>1. Create(p)
        BY <2>1 DEF PutStep, Start, Lookup, LookupVerify, CreateVerify, WriteSome, WriteRest,
                    Sync, WriteFail, Rename, SyncDirectory, Unlink, Goto, Refer, Throw,
                    StoreInv, TypeOK
      <4> QED
        BY <1>3, <2>1, <4>1 DEF Create, TempOf, Goto, Refer, Throw, StoreInv, TypeOK
    <3> QED
      BY <2>1, <3>1
  <2>2. CASE r # p
    <3>1. pc[r] = "created" /\ held'[r] = held[r] /\ held[r] # 0
      BY <1>1, <2>2 DEF StoreInv, HeldSome, Writing
    <3>2. CASE held[r] # temporary[Pid[r]]
      <4>1. PICK q \in Puts : q # r /\ Pid[q] = Pid[r] /\ pc[q] \in Late
        BY <3>1, <3>2 DEF StoreInv, TempTaken
      <4>2. pc'[q] \in Late
        BY <1>1, <4>1
      <4> QED
        BY <4>1, <4>2
    <3>3. CASE held[r] = temporary[Pid[r]]
      <4>1. temporary'[Pid[r]] # temporary[Pid[r]] /\ temporary[Pid[r]] # 0
        BY <3>1, <3>3
      <4>2. Pid[r] = Pid[p] /\ pc'[p] \in Late
        BY <1>2, <1>3, <4>1 DEF Late
      <4> QED
        BY <2>2, <4>2
    <3> QED
      BY <3>2, <3>3
  <2> QED
    BY <2>1, <2>2
<1> QED
  BY <1>4, <1>5, <1>6, <1>7, <1>8, <1>9 DEF StoreInv

LEMMA DieStoreInv ==
  ASSUME StoreInv, NEW pids \in SUBSET Pids, Die(pids), created' = created, TypeOK',
         temporary' = temporary \/ (pids = Pids /\ temporary' = [pid \in Pids |-> 0])
  PROVE  StoreInv'
<1>1. /\ \A p \in Puts : pc'[p] = pc[p] \/ (Pid[p] \in pids /\ pc[p] \notin Ended /\ pc'[p] = "dead")
      /\ \A p \in Puts : pc'[p] \in Writing => Pid[p] \notin pids
      /\ \A p \in Puts : Pid[p] \notin pids => pc'[p] = pc[p] /\ held'[p] = held[p]
      /\ outcome' = outcome
  BY DEF Die, Ended, Writing
<1>2. created \in Nat /\ \A p \in Puts : Pid[p] \in Pids
  BY ConstantsAssumption, FS_CardinalityType, PidType DEF StoreInv, TypeOK
<1>3. Room'
  <2>1. \A p \in Puts : pc'[p] \in Before => pc[p] \in Before
    BY <1>1 DEF Before
  <2> QED
    BY <1>2, <2>1, RoomKept DEF StoreInv
<1>4. OutcomeLast'
  BY <1>1 DEF StoreInv, OutcomeLast
<1>5. HeldSome'
  BY <1>1 DEF StoreInv, HeldSome
<1>6. TempMade'
  BY <1>1 DEF StoreInv, TempMade, Writing, Ended
<1>7. TempTaken'
  <2> SUFFICES ASSUME NEW p \in Puts, pc'[p] = "created", held'[p] # temporary'[Pid[p]]
               PROVE  \E q \in Puts : q # p /\ Pid[q] = Pid[p] /\ pc'[q] \in Late
    BY DEF TempTaken
  <2>1. Pid[p] \notin pids /\ temporary' = temporary /\ pc[p] = "created" /\ held'[p] = held[p]
    BY <1>1, <1>2 DEF Writing
  <2>2. PICK q \in Puts : q # p /\ Pid[q] = Pid[p] /\ pc[q] \in Late
    BY <2>1 DEF StoreInv, TempTaken
  <2>3. pc'[q] = pc[q]
    BY <1>1, <2>1, <2>2
  <2> QED
    BY <2>2, <2>3
<1> QED
  BY <1>3, <1>4, <1>5, <1>6, <1>7 DEF StoreInv

LEMMA NextStoreInv == StoreInv /\ [Next]_vars => StoreInv'
<1> SUFFICES ASSUME StoreInv, [Next]_vars PROVE StoreInv'
  OBVIOUS
<1>1. CASE UNCHANGED vars
  BY <1>1 DEF vars, diskVars, putVars, StoreInv, TypeOK, Room, OutcomeLast, HeldSome,
              TempMade, TempTaken
<1>2. CASE \E p \in Puts : Start(p) \/ PutStep(p)
  BY <1>2, PutStoreInv
<1>3. ASSUME NEW pid \in Pids, Crash(pid) PROVE StoreInv'
  <2>1. Die({pid}) /\ UNCHANGED <<diskVars, powerLosses>> /\ crashes' \in 0 .. MaxCrash
    BY <1>3, ConstantsAssumption DEF Crash, StoreInv, TypeOK
  <2>2. TypeOK'
    BY <2>1 DEF Die, StoreInv, TypeOK, Ended, diskVars
  <2> QED
    BY <2>1, <2>2, DieStoreInv DEF diskVars
<1>4. CASE PowerLoss
  <2>1. /\ Die(Pids) /\ UNCHANGED <<created, crashes>> /\ powerLosses' \in 0 .. MaxPowerLoss
        /\ file' \in {file, durable, 0} /\ durable' = file'
        /\ content' = [i \in Inodes |-> IF content[i] = "synced" THEN "synced" ELSE "partial"]
        /\ temporary' \in {temporary, [pid \in Pids |-> 0]}
    BY <1>4, ConstantsAssumption DEF PowerLoss, StoreInv, TypeOK
  <2>2. created \in Nat
    BY ConstantsAssumption, FS_CardinalityType DEF StoreInv, TypeOK
  <2>3. /\ file' \in 0 .. created /\ durable' \in 0 .. created
        /\ temporary' \in [Pids -> 0 .. created]
        /\ content' \in [Inodes -> {"empty", "partial", "whole", "synced"}]
    BY <2>1, <2>2 DEF StoreInv, TypeOK
  <2>4. /\ held' \in [Puts -> 0 .. created] /\ \A p \in Puts : pc'[p] \in Ended => held'[p] = 0
        /\ pc' \in [Puts -> Ended \cup {"lookup", "found", "create", "created", "write", "writing",
                                        "written", "synced", "renamed", "published", "failing"}]
        /\ outcome' \in [Puts -> {"none", "found", "published", "raw"}]
    BY <2>1, <2>2 DEF Die, StoreInv, TypeOK, Ended
  <2>5. TypeOK'
    BY <2>1, <2>3, <2>4 DEF StoreInv, TypeOK
  <2> QED
    BY <2>1, <2>5, DieStoreInv
<1> QED
  BY <1>1, <1>2, <1>3, <1>4 DEF Next

(* The types, and what a step needs to know of the puts around it: the room for an
   inode of each, and whose a temporary name can be (store.ts 72-118). *)
THEOREM StoreInvariant == Spec => []StoreInv
<1> QED
  BY InitStoreInv, NextStoreInv, PTL DEF Spec

(* Whatever fails or dies, the temporary name is only ever in the way of puts of the
   process id that made it (store.ts 81). *)
THEOREM OthersNeverBlock == Spec => []OnlyOwnTemporaryBlocks
<1>1. StoreInv => OnlyOwnTemporaryBlocks
  <2> SUFFICES ASSUME StoreInv PROVE OnlyOwnTemporaryBlocks
    OBVIOUS
  <2>1. ASSUME NEW p \in Puts, pc[p] = "create", temporary[TempOf(p)] # 0
        PROVE  \E q \in Puts : /\ Pid[q] = Pid[p]
                              /\ outcome[q] # "found" /\ outcome[q] # "published"
                              /\ pc[q] \in {"created", "write", "writing", "written", "synced",
                                           "failing", "done", "dead"}
    BY <2>1, PidType DEF StoreInv, TempMade, TempOf, Writing
  <2>2. ASSUME NEW p \in Puts, pc[p] = "created", held[p] # temporary[TempOf(p)]
        PROVE  \E q \in Puts : /\ q # p /\ Pid[q] = Pid[p]
                              /\ pc[q] \in {"renamed", "published", "failing", "done", "dead"}
    BY <2>2 DEF StoreInv, TempTaken, TempOf, Late
  <2> QED
    BY <2>1, <2>2 DEF OnlyOwnTemporaryBlocks
<1> QED
  BY <1>1, StoreInvariant, PTL

-----------------------------------------------------------------------------
(* What the address holds *)

(* Who met a file at the address, or put one there, leaves one there. *)
RefInv ==
  /\ \A p \in Puts : pc[p] = "found" => held[p] # 0
  /\ \A p \in Puts : /\ pc[p] \in {"renamed", "published"} => file # 0
                     /\ pc[p] = "published" => durable # 0
  /\ \A p \in Puts :
       /\ outcome[p] \in {"found", "published"} /\ powerLosses = 0 => file # 0
       /\ outcome[p] = "published" /\ FanoutDurable => file # 0 /\ durable # 0

(* A file at the address stays one, and a file on disk at the address stays there,
   while the machine has power. *)
LEMMA AddressStays ==
  ASSUME TypeOK, [Next]_vars, ~ PowerLoss
  PROVE  /\ file # 0 => file' # 0
         /\ durable # 0 /\ file # 0 => durable' # 0
         /\ powerLosses' = powerLosses
<1> USE DEF diskVars
<1>1. CASE UNCHANGED vars
  BY <1>1 DEF vars
<1>2. ASSUME NEW p \in Puts, Start(p) \/ PutStep(p)
      PROVE  /\ file # 0 => file' # 0
             /\ durable # 0 /\ file # 0 => durable' # 0
             /\ powerLosses' = powerLosses
  BY <1>2 DEF PutStep, Start, Lookup, LookupVerify, Create, CreateVerify, WriteSome, WriteRest,
              Sync, WriteFail, Rename, SyncDirectory, Unlink
<1>3. CASE \E pid \in Pids : Crash(pid)
  BY <1>3 DEF Crash
<1> QED
  BY <1>1, <1>2, <1>3 DEF Next

LEMMA PutRefs ==
  ASSUME StoreInv, RefInv, NEW p \in Puts, Start(p) \/ PutStep(p)
  PROVE  /\ pc'[p] = "found" => held'[p] # 0
         /\ pc'[p] \in {"renamed", "published"} => file' # 0
         /\ pc'[p] = "published" => durable' # 0
         /\ outcome'[p] = "found" => file' # 0
         /\ outcome'[p] = "published" => file' # 0 /\ durable' # 0
<1> USE DEF StoreInv, TypeOK, Goto, Refer, Throw, RefInv, diskVars
<1>0. outcome[p] = "none"
  BY PutMoves DEF OutcomeLast
<1>1. CASE Start(p)
  BY <1>0, <1>1 DEF Start
<1>2. CASE Lookup(p) \/ LookupVerify(p)
  BY <1>0, <1>2 DEF Lookup, LookupVerify
<1>3. CASE Create(p) \/ CreateVerify(p)
  BY <1>0, <1>3 DEF Create, CreateVerify
<1>4. CASE WriteSome(p) \/ WriteRest(p) \/ Sync(p) \/ WriteFail(p)
  BY <1>0, <1>4 DEF WriteSome, WriteRest, Sync, WriteFail
<1>5. CASE Rename(p) \/ SyncDirectory(p)
  BY <1>0, <1>5 DEF Rename, SyncDirectory
<1>6. CASE Unlink(p)
  BY <1>0, <1>6 DEF Unlink
<1> QED
  BY <1>1, <1>2, <1>3, <1>4, <1>5, <1>6 DEF PutStep

LEMMA StepRefs ==
  ASSUME StoreInv, RefInv, [Next]_vars
  PROVE  RefInv'
<1>1. CASE UNCHANGED vars
  BY <1>1 DEF vars, diskVars, putVars, RefInv
<1>2. ASSUME NEW p \in Puts, Start(p) \/ PutStep(p) PROVE RefInv'
  <2>1. \A q \in Puts : q # p => pc'[q] = pc[q] /\ held'[q] = held[q] /\ outcome'[q] = outcome[q]
    BY <1>2, PutMoves DEF StoreInv
  <2>2. ~ PowerLoss
    BY <1>2, PutMoves DEF StoreInv, TypeOK, PowerLoss
  <2>3. /\ file # 0 => file' # 0
        /\ durable # 0 /\ file # 0 => durable' # 0
        /\ powerLosses' = powerLosses
    BY <2>2, AddressStays DEF StoreInv
  <2>4. /\ pc'[p] = "found" => held'[p] # 0
        /\ pc'[p] \in {"renamed", "published"} => file' # 0
        /\ pc'[p] = "published" => durable' # 0
        /\ outcome'[p] = "found" => file' # 0
        /\ outcome'[p] = "published" => file' # 0 /\ durable' # 0
    BY <1>2, PutRefs
  <2> SUFFICES ASSUME NEW q \in Puts
      PROVE  /\ pc'[q] = "found" => held'[q] # 0
             /\ pc'[q] \in {"renamed", "published"} => file' # 0
             /\ pc'[q] = "published" => durable' # 0
             /\ outcome'[q] \in {"found", "published"} /\ powerLosses' = 0 => file' # 0
             /\ outcome'[q] = "published" /\ FanoutDurable => file' # 0 /\ durable' # 0
    BY DEF RefInv
  <2>5. CASE q = p
    BY <2>4, <2>5
  <2>6. CASE q # p
    BY <2>1, <2>3, <2>6 DEF RefInv
  <2> QED
    BY <2>5, <2>6
<1>3. ASSUME NEW pid \in Pids, Crash(pid) PROVE RefInv'
  <2>1. UNCHANGED <<file, durable, outcome, powerLosses>>
    BY <1>3 DEF Crash, Die, diskVars
  <2>2. \A q \in Puts : pc'[q] # "dead" /\ pc'[q] \notin Ended => pc'[q] = pc[q] /\ held'[q] = held[q]
    BY <1>3 DEF Crash, Die, Ended
  <2> QED
    BY <2>1, <2>2 DEF RefInv, Ended
<1>4. CASE PowerLoss
  <2>1. /\ file' \in {file, IF FanoutDurable THEN durable ELSE 0} /\ durable' = file'
        /\ powerLosses' # 0 /\ outcome' = outcome
    BY <1>4, ConstantsAssumption DEF PowerLoss, Die, StoreInv, TypeOK
  <2>2. \A q \in Puts : pc'[q] \in Ended
    BY <1>4, PidType DEF PowerLoss, Die, Ended
  <2> QED
    BY <2>1, <2>2 DEF RefInv, Ended
<1> QED
  BY <1>1, <1>2, <1>3, <1>4 DEF Next

(* A put that writes has an inode of its own ... *)
HeldOwn ==
  \A p \in Puts : pc[p] \in Writing =>
    /\ held[p] \in 1 .. created
    /\ \A q \in Puts : (pc[q] \in Writing /\ held[q] = held[p]) => q = p
    /\ pc[p] # "synced" => held[p] # file /\ held[p] # durable
    /\ pc[p] = "synced" => content[held[p]] = "synced"

(* ... and the temporary name of its process names that inode or, where another put
   of the process took the name away, none, and then there is a file at the address
   and no put of the process that will create another. *)
NameOwn ==
  \A p \in Puts : pc[p] \in Writing =>
    /\ temporary[Pid[p]] \in {0, held[p]}
    /\ temporary[Pid[p]] = 0 =>
         /\ file # 0
         /\ \A q \in Puts : (q # p /\ Pid[q] = Pid[p]) => pc[q] # "create"

(* A put whose rename failed with nothing at the address is alone in its process
   with the temporary file. *)
FailOwn ==
  \A p \in Puts : pc[p] = "failing" =>
    \/ file # 0
    \/ /\ temporary[Pid[p]] # 0
       /\ \A q \in Puts : (q # p /\ Pid[q] = Pid[p]) =>
            pc[q] \notin Writing \cup {"renamed", "published", "failing"}

AddressSynced == \A i \in {file, durable} : i # 0 => content[i] = "synced"

FilesInv == HeldOwn /\ NameOwn /\ FailOwn /\ AddressSynced

(* Who has missed the address stays one that has. *)
LEMMA CrowdedStays == ASSUME StoreInv, Crowded, [Next]_vars PROVE Crowded'
<1>1. ASSUME NEW p \in Puts, Missed(p) PROVE Missed(p)'
  <2>1. CASE UNCHANGED vars
    BY <1>1, <2>1 DEF vars, putVars, Missed
  <2>2. ASSUME NEW q \in Puts, Start(q) \/ PutStep(q) PROVE Missed(p)'
    <3>1. CASE q # p
      BY <1>1, <2>2, <3>1, PutMoves DEF StoreInv, Missed
    <3>2. CASE q = p
      <4>1. pc[p] \notin Before \/ pc[p] = "create"
        BY <1>1 DEF Missed, Before
      <4>2. CASE pc[p] = "create"
        <5>1. Create(p)
          BY <2>2, <3>2, <4>2 DEF PutStep, Start, Lookup, LookupVerify, CreateVerify, WriteSome,
               WriteRest, Sync, WriteFail, Rename, SyncDirectory, Unlink
        <5> QED
          BY <1>1, <5>1 DEF Create, Throw, Refer, Goto, Missed, StoreInv, TypeOK
      <4>3. CASE pc[p] \notin Before
        BY <1>1, <2>2, <3>2, <4>3, PutMoves DEF StoreInv, Missed, Before
      <4> QED
        BY <4>1, <4>2, <4>3
    <3> QED
      BY <3>1, <3>2
  <2>3. CASE PowerLoss \/ \E pid \in Pids : Crash(pid)
    BY <1>1, <2>3 DEF PowerLoss, Crash, Die, Missed, Ended
  <2> QED
    BY <2>1, <2>2, <2>3 DEF Next
<1>2. PICK p \in Puts, q \in Puts, r \in Puts :
        /\ p # q /\ q # r /\ p # r /\ Pid[p] = Pid[q] /\ Pid[q] = Pid[r]
        /\ Missed(p) /\ Missed(q) /\ Missed(r)
  BY DEF Crowded
<1>3. Missed(p)' /\ Missed(q)' /\ Missed(r)'
  BY <1>1, <1>2
<1> QED
  BY <1>2, <1>3 DEF Crowded

(* Whose the temporary name is, after a step of a put. *)
LEMMA PutNameOwn ==
  ASSUME StoreInv, RefInv, FilesInv, ~ Crowded, NEW p \in Puts, Start(p) \/ PutStep(p)
  PROVE  NameOwn'
<1> SUFFICES ASSUME NEW r \in Puts, pc'[r] \in Writing
             PROVE  /\ temporary'[Pid[r]] \in {0, held'[r]}
                    /\ temporary'[Pid[r]] = 0 =>
                         /\ file' # 0
                         /\ \A q \in Puts : (q # r /\ Pid[q] = Pid[r]) => pc'[q] # "create"
  BY DEF NameOwn
<1>1. /\ \A q \in Puts : q # p => pc'[q] = pc[q] /\ held'[q] = held[q] /\ outcome'[q] = outcome[q]
      /\ pc[p] \notin {"done", "dead"}
      /\ pc'[p] = "create" => file = 0
      /\ pc[p] \in Late => pc'[p] \in Late
      /\ (pc[p] \in Writing /\ pc'[p] \in Writing) => held'[p] = held[p]
  BY PutMoves DEF StoreInv
<1>2. \/ /\ UNCHANGED <<temporary, created>>
         /\ pc[p] \in Before => pc'[p] \in Before \cup {"done"}
      \/ /\ temporary[Pid[p]] = 0 /\ pc[p] = "create" /\ pc'[p] = "created"
         /\ held'[p] = created + 1 /\ created' = created + 1
         /\ temporary' = [temporary EXCEPT ![Pid[p]] = created + 1]
      \/ /\ \/ pc[p] = "synced" /\ pc'[p] = "renamed" /\ temporary[Pid[p]] # 0
            \/ pc[p] \in {"published", "failing"} /\ pc'[p] = "done" /\ file' = file
         /\ created' = created /\ temporary' = [temporary EXCEPT ![Pid[p]] = 0]
  BY PutNames DEF StoreInv
<1>3. /\ created \in Nat /\ temporary \in [Pids -> 0 .. created]
      /\ Pid[p] \in Pids /\ Pid[r] \in Pids
      /\ pc[p] \in Before \cup Writing \cup Late
  BY PidType, ConstantsAssumption, FS_CardinalityType
     DEF StoreInv, TypeOK, Ended, Before, Writing, Late
<1>4. file # 0 => file' # 0
  <2>1. ~ PowerLoss
    BY PutMoves DEF StoreInv, TypeOK, PowerLoss
  <2> QED
    BY <2>1, AddressStays DEF StoreInv, Next
<1>5. ASSUME pc[r] \in Writing
      PROVE  /\ temporary[Pid[r]] \in {0, held[r]}
             /\ temporary[Pid[r]] = 0 =>
                  /\ file # 0
                  /\ \A q \in Puts : (q # r /\ Pid[q] = Pid[r]) => pc[q] # "create"
  BY <1>5 DEF FilesInv, NameOwn
<1>6. CASE r = p
  <2>1. CASE pc[p] \in Writing
    <3>1. UNCHANGED temporary
      BY <1>2, <1>6, <2>1 DEF Writing
    <3> QED
      BY <1>1, <1>4, <1>5, <1>6, <2>1, <3>1
  <2>2. CASE pc[p] \notin Writing
    <3>1. temporary' = [temporary EXCEPT ![Pid[p]] = created + 1] /\ held'[p] = created + 1
      BY <1>1, <1>2, <1>3, <1>6, <2>2 DEF Writing, Before, Late
    <3> QED
      BY <1>3, <1>6, <3>1
  <2> QED
    BY <2>1, <2>2
<1>7. CASE r # p /\ Pid[r] # Pid[p]
  <2>1. temporary'[Pid[r]] = temporary[Pid[r]]
    BY <1>2, <1>3, <1>7
  <2> QED
    BY <1>1, <1>4, <1>5, <1>7, <2>1
<1>8. CASE r # p /\ Pid[r] = Pid[p]
  <2>1. pc[r] \in Writing /\ held'[r] = held[r]
    BY <1>1, <1>8
  <2>2. CASE UNCHANGED temporary
    <3>1. temporary[Pid[r]] = 0 => pc'[p] # "create"
      BY <1>1, <1>5, <2>1
    <3> QED
      BY <1>1, <1>4, <1>5, <2>1, <2>2, <3>1
  <2>3. CASE temporary[Pid[p]] = 0 /\ pc[p] = "create"
    BY <1>5, <1>8, <2>1, <2>3
  <2>4. CASE pc[p] = "synced" /\ temporary[Pid[p]] # 0
    BY <1>5, <1>8, <2>1, <2>4 DEF FilesInv, NameOwn, HeldOwn, Writing
  <2>5. CASE /\ pc[p] \in {"published", "failing"} /\ pc'[p] = "done" /\ file' = file
             /\ temporary' = [temporary EXCEPT ![Pid[p]] = 0]
    <3>1. temporary'[Pid[r]] = 0
      BY <1>3, <1>8, <2>5
    <3>2. file' # 0
      BY <1>8, <2>1, <2>5 DEF RefInv, FilesInv, FailOwn
    <3>3. ASSUME NEW q \in Puts, q # r, Pid[q] = Pid[r], pc'[q] = "create"
          PROVE  FALSE
      <4>1. q # p /\ pc[q] = "create"
        BY <1>1, <2>5, <3>3
      <4>2. Missed(p) /\ Missed(q) /\ Missed(r)
        BY <2>1, <2>5, <4>1 DEF Missed, StoreInv, OutcomeLast, Writing
      <4> QED
        BY <1>8, <3>3, <4>1, <4>2 DEF Crowded
    <3> QED
      BY <3>1, <3>2, <3>3
  <2> QED
    BY <1>2, <2>2, <2>3, <2>4, <2>5
<1> QED
  BY <1>6, <1>7, <1>8

(* ... and who is left alone with the file where a rename fails. *)
LEMMA PutFailOwn ==
  ASSUME StoreInv, RefInv, FilesInv, NEW p \in Puts, Start(p) \/ PutStep(p)
  PROVE  FailOwn'
<1> DEFINE Rivals == Writing \cup {"renamed", "published", "failing"}
<1> SUFFICES ASSUME NEW q \in Puts, pc'[q] = "failing", file' = 0
             PROVE  /\ temporary'[Pid[q]] # 0
                    /\ \A s \in Puts : (s # q /\ Pid[s] = Pid[q]) => pc'[s] \notin Rivals
  BY DEF FailOwn
<1>1. /\ \A s \in Puts : s # p => pc'[s] = pc[s] /\ held'[s] = held[s]
      /\ pc[p] \notin {"done", "dead"}
  BY PutMoves DEF StoreInv
<1>2. \/ /\ UNCHANGED <<temporary, created>>
         /\ pc[p] \in Before => pc'[p] \in Before \cup {"done"}
      \/ /\ temporary[Pid[p]] = 0 /\ pc[p] = "create" /\ pc'[p] = "created"
         /\ held'[p] = created + 1 /\ created' = created + 1
         /\ temporary' = [temporary EXCEPT ![Pid[p]] = created + 1]
      \/ /\ \/ pc[p] = "synced" /\ pc'[p] = "renamed" /\ temporary[Pid[p]] # 0
            \/ pc[p] \in {"published", "failing"} /\ pc'[p] = "done" /\ file' = file
         /\ created' = created /\ temporary' = [temporary EXCEPT ![Pid[p]] = 0]
  BY PutNames DEF StoreInv
<1>3. /\ created \in Nat /\ temporary \in [Pids -> 0 .. created]
      /\ Pid[p] \in Pids /\ Pid[q] \in Pids
      /\ pc[p] \in Before \cup Rivals
  BY <1>1, PidType, ConstantsAssumption, FS_CardinalityType
     DEF StoreInv, TypeOK, Ended, Before, Writing
<1>4. file = 0
  <2>1. ~ PowerLoss
    BY PutMoves DEF StoreInv, TypeOK, PowerLoss
  <2> QED
    BY <2>1, AddressStays DEF StoreInv, Next
<1>5. \A s \in Puts : pc[s] \notin {"renamed", "published"}
  BY <1>4 DEF RefInv
<1>6. CASE q = p
  <2>1. pc[p] = "synced" /\ UNCHANGED temporary
    BY <1>1, <1>5, <1>6 DEF PutStep, Start, Lookup, LookupVerify, Create, CreateVerify, WriteSome,
         WriteRest, Sync, WriteFail, Rename, SyncDirectory, Unlink, Goto, Refer, Throw,
         StoreInv, TypeOK
  <2>2. temporary[Pid[p]] = held[p] /\ held[p] # 0
    BY <1>4, <2>1 DEF FilesInv, NameOwn, StoreInv, HeldSome, Writing
  <2>3. ASSUME NEW s \in Puts, s # p, Pid[s] = Pid[p] PROVE pc'[s] \notin Rivals
    <3>1. pc'[s] = pc[s]
      BY <1>1, <2>3
    <3>2. pc[s] \notin Writing
      BY <2>1, <2>2, <2>3 DEF FilesInv, NameOwn, HeldOwn, Writing
    <3>3. pc[s] # "failing"
      BY <1>4, <2>1, <2>3 DEF FilesInv, FailOwn, Writing
    <3> QED
      BY <1>5, <3>1, <3>2, <3>3
  <2> QED
    BY <1>6, <2>1, <2>2, <2>3
<1>7. CASE q # p
  <2>1. /\ pc[q] = "failing" /\ temporary[Pid[q]] # 0
        /\ \A s \in Puts : (s # q /\ Pid[s] = Pid[q]) => pc[s] \notin Rivals
    BY <1>1, <1>4, <1>7 DEF FilesInv, FailOwn
  <2>2. CASE Pid[p] # Pid[q]
    <3>1. temporary'[Pid[q]] = temporary[Pid[q]]
      BY <1>2, <1>3, <2>2
    <3> QED
      BY <1>1, <2>1, <2>2, <3>1
  <2>3. CASE Pid[p] = Pid[q]
    <3>1. pc[p] \in Before
      BY <1>3, <1>7, <2>1, <2>3
    <3>2. UNCHANGED temporary /\ pc'[p] \in Before \cup {"done"}
      BY <1>2, <2>1, <2>3, <3>1 DEF Before
    <3>3. pc'[p] \notin Rivals
      BY <3>2 DEF Before, Writing
    <3> QED
      BY <1>1, <2>1, <3>2, <3>3
  <2> QED
    BY <2>2, <2>3
<1> QED
  BY <1>6, <1>7

(* A step that creates nothing, and puts nothing at the address that some put
   still writes. *)
LEMMA FilesKept ==
  ASSUME HeldOwn, created' = created,
         \A q \in Puts : pc'[q] \in Writing =>
           /\ pc[q] \in Writing /\ held'[q] = held[q]
           /\ pc'[q] = "synced" => content'[held[q]] = "synced"
           /\ pc'[q] # "synced" => pc[q] # "synced",
         \A i \in {file', durable'} : i # 0 =>
           /\ content'[i] = "synced"
           /\ \/ i \in {file, durable}
              \/ \A q \in Puts : pc'[q] \in Writing => held'[q] # i
  PROVE  HeldOwn' /\ AddressSynced'
<1>1. HeldOwn'
  <2> SUFFICES ASSUME NEW p \in Puts, pc'[p] \in Writing
               PROVE  /\ held'[p] \in 1 .. created'
                      /\ \A q \in Puts : (pc'[q] \in Writing /\ held'[q] = held'[p]) => q = p
                      /\ pc'[p] # "synced" => held'[p] # file' /\ held'[p] # durable'
                      /\ pc'[p] = "synced" => content'[held'[p]] = "synced"
    BY DEF HeldOwn
  <2>1. pc[p] \in Writing /\ held'[p] = held[p] /\ held[p] \in 1 .. created
    BY DEF HeldOwn
  <2>2. held[p] # 0
    BY <2>1
  <2>3. \A q \in Puts : (pc'[q] \in Writing /\ held'[q] = held'[p]) => q = p
    BY <2>1 DEF HeldOwn
  <2>4. pc'[p] # "synced" => held'[p] # file' /\ held'[p] # durable'
    BY <2>1, <2>2 DEF HeldOwn
  <2> QED
    BY <2>1, <2>3, <2>4
<1>2. AddressSynced'
  BY DEF AddressSynced
<1> QED
  BY <1>1, <1>2

(* A put creates its file only where the temporary name is free, and then no
   other put of its process is writing. *)
LEMMA CreateFiles ==
  ASSUME StoreInv, FilesInv, NEW p \in Puts, Create(p)
  PROVE  HeldOwn' /\ AddressSynced'
<1> USE DEF Goto, Throw, Refer, TempOf
<1>1. TypeOK /\ Pid[p] \in Pids /\ created \in Nat /\ pc[p] = "create"
  BY PidType, ConstantsAssumption, FS_CardinalityType DEF StoreInv, TypeOK, Create
<1>2. CASE Throw(p) /\ UNCHANGED <<temporary, created>>
  <2>1. /\ UNCHANGED <<file, durable, content, temporary, created>>
        /\ pc' = [pc EXCEPT ![p] = "done"] /\ held' = [held EXCEPT ![p] = 0]
    BY <1>2 DEF Create
  <2>2. /\ pc'[p] = "done"
        /\ \A q \in Puts : q # p => pc'[q] = pc[q] /\ held'[q] = held[q]
    BY <1>1, <2>1 DEF TypeOK
  <2>3. \A q \in Puts : pc'[q] \in Writing => pc'[q] = pc[q] /\ held'[q] = held[q]
    BY <2>2 DEF Writing
  <2> QED
    BY <2>1, <2>3, FilesKept DEF FilesInv, HeldOwn, AddressSynced
<1>3. CASE temporary[Pid[p]] = 0 /\ created' = created + 1
  <2>1. /\ UNCHANGED <<file, durable, content>> /\ created' = created + 1
        /\ temporary' = [temporary EXCEPT ![Pid[p]] = created + 1]
        /\ held' = [held EXCEPT ![p] = created + 1] /\ pc' = [pc EXCEPT ![p] = "created"]
    BY <1>3 DEF Create
  <2>2. /\ pc'[p] = "created" /\ held'[p] = created + 1 /\ temporary'[Pid[p]] = created + 1
        /\ \A q \in Puts : q # p => pc'[q] = pc[q] /\ held'[q] = held[q]
        /\ \A pid \in Pids : pid # Pid[p] => temporary'[pid] = temporary[pid]
    BY <1>1, <2>1 DEF TypeOK
  <2>3. ASSUME NEW q \in Puts, q # p, pc'[q] \in Writing
        PROVE  /\ pc[q] \in Writing /\ held[q] \in 1 .. created /\ held'[q] = held[q]
               /\ held'[q] # created + 1 /\ Pid[q] # Pid[p] /\ Pid[q] \in Pids
    <3>1. pc[q] \in Writing /\ held'[q] = held[q] /\ held[q] \in 1 .. created
      BY <2>2, <2>3 DEF FilesInv, HeldOwn
    <3>2. Pid[q] # Pid[p]
      BY <1>1, <1>3, <2>3, <3>1 DEF FilesInv, NameOwn
    <3> QED
      BY <1>1, <3>1, <3>2, PidType
  <2>4. HeldOwn'
    <3> SUFFICES ASSUME NEW r \in Puts, pc'[r] \in Writing
                 PROVE  /\ held'[r] \in 1 .. created'
                        /\ \A q \in Puts : (pc'[q] \in Writing /\ held'[q] = held'[r]) => q = r
                        /\ pc'[r] # "synced" => held'[r] # file /\ held'[r] # durable
                        /\ pc'[r] = "synced" => content[held'[r]] = "synced"
      BY <2>1 DEF HeldOwn
    <3>1. CASE r = p
      <4>1. file \in 0 .. created /\ durable \in 0 .. created
        BY <1>1 DEF TypeOK
      <4> QED
        BY <1>1, <2>1, <2>2, <2>3, <3>1, <4>1
    <3>2. CASE r # p
      <4>1. /\ pc[r] \in Writing /\ held'[r] = held[r] /\ pc'[r] = pc[r]
            /\ held[r] \in 1 .. created /\ held[r] # created + 1
        BY <2>2, <2>3, <3>2
      <4>2. held'[r] \in 1 .. created'
        BY <1>1, <2>1, <4>1
      <4> QED
        BY <2>2, <2>3, <4>1, <4>2 DEF FilesInv, HeldOwn
    <3> QED
      BY <3>1, <3>2
  <2>5. AddressSynced'
    BY <2>1 DEF FilesInv, AddressSynced
  <2> QED
    BY <2>4, <2>5
<1> QED
  BY <1>1, <1>2, <1>3 DEF Create

(* Writing and syncing are done to the put's own file, which nobody publishes yet. *)
LEMMA WriteFiles ==
  ASSUME StoreInv, FilesInv, NEW p \in Puts, WriteSome(p) \/ WriteRest(p) \/ Sync(p)
  PROVE  HeldOwn' /\ AddressSynced'
<1>1. TypeOK /\ created \in 0 .. Cardinality(Puts) /\ Cardinality(Puts) \in Nat
  BY ConstantsAssumption, FS_CardinalityType DEF StoreInv, TypeOK
<1>2. pc[p] \in Writing /\ pc[p] # "synced"
  BY DEF WriteSome, WriteRest, Sync, Writing
<1>3. /\ held[p] \in 1 .. created /\ held[p] # file /\ held[p] # durable
      /\ \A q \in Puts : (pc[q] \in Writing /\ held[q] = held[p]) => q = p
  BY <1>2 DEF FilesInv, HeldOwn
<1>4. held[p] \in Inodes
  BY <1>1, <1>3 DEF Inodes
<1>5. /\ UNCHANGED <<file, durable, temporary, created, held>>
      /\ \E how \in {"partial", "whole", "synced"} :
           content' = [content EXCEPT ![held[p]] = how] /\ (how # "synced" => pc'[p] # "synced")
      /\ \A q \in Puts : q # p => pc'[q] = pc[q]
      /\ pc'[p] \in Writing
  BY <1>1 DEF WriteSome, WriteRest, Sync, Goto, TypeOK, Writing
<1>6. PICK how \in {"partial", "whole", "synced"} :
        content' = [content EXCEPT ![held[p]] = how] /\ (how # "synced" => pc'[p] # "synced")
  BY <1>5
<1>7. /\ content'[held[p]] = how
      /\ \A i \in Inodes : i # held[p] => content'[i] = content[i]
  BY <1>1, <1>4, <1>6 DEF TypeOK
<1>8. \A q \in Puts : pc'[q] \in Writing => pc[q] \in Writing
  BY <1>2, <1>5
<1>9. ASSUME NEW q \in Puts, pc'[q] \in Writing
       PROVE  /\ pc'[q] = "synced" => content'[held[q]] = "synced"
              /\ pc'[q] # "synced" => pc[q] # "synced"
  <2>1. CASE q = p
    BY <1>2, <1>6, <1>7, <2>1
  <2>2. CASE q # p
    <3>1. pc'[q] = pc[q] /\ held[q] # held[p] /\ held[q] \in 1 .. created
      BY <1>3, <1>5, <1>8, <1>9, <2>2 DEF FilesInv, HeldOwn
    <3>2. held[q] \in Inodes
      BY <1>1, <3>1 DEF Inodes
    <3> QED
      BY <1>7, <1>9, <3>1, <3>2 DEF FilesInv, HeldOwn
  <2> QED
    BY <2>1, <2>2
<1>10. \A i \in {file', durable'} : i # 0 => content'[i] = "synced" /\ i \in {file, durable}
  <2> SUFFICES ASSUME NEW i \in {file, durable}, i # 0 PROVE content'[i] = "synced"
    BY <1>5
  <2>1. content[i] = "synced" /\ i # held[p]
    BY <1>3 DEF FilesInv, AddressSynced
  <2>2. i \in Inodes
    BY <1>1 DEF TypeOK, Inodes
  <2> QED
    BY <1>7, <2>1, <2>2
<1> QED
  BY <1>5, <1>8, <1>9, <1>10, FilesKept DEF FilesInv

(* The address gets the file of the put that renames, and that one is synced. *)
LEMMA RenameFiles ==
  ASSUME StoreInv, FilesInv, NEW p \in Puts, Rename(p)
  PROVE  HeldOwn' /\ AddressSynced'
<1>1. TypeOK
  BY DEF StoreInv
<1>2. /\ UNCHANGED <<durable, content, created, held>> /\ pc[p] = "synced"
      /\ pc'[p] \in {"renamed", "failing"} /\ \A q \in Puts : q # p => pc'[q] = pc[q]
  BY <1>1 DEF Rename, Goto, TypeOK
<1>3. /\ pc[p] \in Writing /\ content[held[p]] = "synced"
      /\ temporary[Pid[p]] \in {0, held[p]}
      /\ \A q \in Puts : (pc[q] \in Writing /\ held[q] = held[p]) => q = p
  BY <1>2 DEF FilesInv, HeldOwn, NameOwn, Writing
<1>4. \A q \in Puts : pc'[q] \in Writing => pc'[q] = pc[q] /\ q # p
  BY <1>2 DEF Writing
<1>5. CASE file' = temporary[Pid[p]] /\ temporary[Pid[p]] # 0
  <2>1. file' = held[p]
    BY <1>3, <1>5
  <2>2. \A q \in Puts : pc'[q] \in Writing => held'[q] # file'
    BY <1>2, <1>3, <1>4, <2>1
  <2>3. \A i \in {file', durable'} : i # 0 => content'[i] = "synced"
    BY <1>2, <1>3, <2>1 DEF FilesInv, AddressSynced
  <2> QED
    BY <1>2, <1>4, <2>2, <2>3, FilesKept DEF FilesInv, HeldOwn
<1>6. CASE UNCHANGED <<file, temporary>>
  BY <1>2, <1>4, <1>6, FilesKept DEF FilesInv, HeldOwn, AddressSynced
<1> QED
  BY <1>5, <1>6 DEF Rename, TempOf

(* The other steps of a put, and the death of a process, leave the files as they are. *)
LEMMA QuietFiles ==
  ASSUME FilesInv, UNCHANGED <<file, content, created>>, durable' \in {durable, file},
         \A q \in Puts : pc'[q] \in Writing =>
           /\ pc[q] \in Writing /\ held'[q] = held[q] /\ (pc'[q] = "synced" <=> pc[q] = "synced")
  PROVE  HeldOwn' /\ AddressSynced'
BY FilesKept DEF FilesInv, HeldOwn, AddressSynced

LEMMA PutFiles ==
  ASSUME StoreInv, RefInv, FilesInv, ~ Crowded, NEW p \in Puts, Start(p) \/ PutStep(p)
  PROVE  FilesInv'
<1>1. TypeOK
  BY DEF StoreInv
<1>2. NameOwn' /\ FailOwn'
  BY PutNameOwn, PutFailOwn
<1>3. CASE Create(p) \/ WriteSome(p) \/ WriteRest(p) \/ Sync(p) \/ Rename(p)
  BY <1>2, <1>3, CreateFiles, WriteFiles, RenameFiles DEF FilesInv
<1>4. CASE \/ Start(p) \/ Lookup(p) \/ LookupVerify(p) \/ CreateVerify(p)
           \/ WriteFail(p) \/ SyncDirectory(p) \/ Unlink(p)
  <2>1. UNCHANGED <<file, content, created>> /\ durable' \in {durable, file}
    BY <1>4 DEF Start, Lookup, LookupVerify, CreateVerify, WriteFail, SyncDirectory, Unlink,
                diskVars
  <2>2. /\ pc'[p] \in Writing => pc[p] \in Writing /\ held'[p] = held[p]
        /\ pc'[p] \in Writing => pc'[p] # "synced" /\ pc[p] # "synced"
        /\ \A q \in Puts : q # p => pc'[q] = pc[q] /\ held'[q] = held[q]
    BY <1>1, <1>4 DEF Start, Lookup, LookupVerify, CreateVerify, WriteFail, SyncDirectory, Unlink,
                      Goto, Refer, Throw, TypeOK, Writing
  <2>3. HeldOwn' /\ AddressSynced'
    BY <2>1, <2>2, QuietFiles
  <2> QED
    BY <1>2, <2>3 DEF FilesInv
<1> QED
  BY <1>3, <1>4 DEF PutStep

LEMMA StepFiles ==
  ASSUME StoreInv, RefInv, FilesInv, ~ Crowded, [Next]_vars
  PROVE  FilesInv'
<1>1. CASE UNCHANGED vars
  BY <1>1 DEF vars, diskVars, putVars, FilesInv, HeldOwn, NameOwn, FailOwn, AddressSynced
<1>2. CASE \E p \in Puts : Start(p) \/ PutStep(p)
  BY <1>2, PutFiles
<1>3. CASE \E pid \in Pids : Crash(pid)
  <2>1. UNCHANGED <<file, durable, temporary, content, created>>
    BY <1>3 DEF Crash, diskVars
  <2>2. \A q \in Puts : pc'[q] # "dead" => pc'[q] = pc[q] /\ (held'[q] = held[q] \/ pc[q] \in Ended)
    BY <1>3 DEF Crash, Die
  <2>3. HeldOwn' /\ AddressSynced'
    BY <2>1, <2>2, QuietFiles DEF Writing, Ended
  <2>4. NameOwn'
    BY <2>1, <2>2 DEF FilesInv, NameOwn, Writing, Ended
  <2>5. FailOwn'
    BY <2>1, <2>2 DEF FilesInv, FailOwn, Writing
  <2> QED
    BY <2>3, <2>4, <2>5 DEF FilesInv
<1>4. CASE PowerLoss
  <2>1. \A q \in Puts : pc'[q] \notin Writing \cup {"failing"}
    BY <1>4, PidType DEF PowerLoss, Die, Writing, Ended
  <2>2. /\ file' \in {file, durable, 0} /\ durable' = file'
        /\ content' = [i \in Inodes |-> IF content[i] = "synced" THEN "synced" ELSE "partial"]
    BY <1>4 DEF PowerLoss
  <2>3. file' # 0 => content[file'] = "synced" /\ file' \in Inodes
    <3>1. file' # 0 => file' \in 1 .. created /\ created \in 0 .. Cardinality(Puts)
      BY <2>2, ConstantsAssumption, FS_CardinalityType DEF StoreInv, TypeOK
    <3> QED
      BY <2>2, <3>1, ConstantsAssumption, FS_CardinalityType DEF FilesInv, AddressSynced, Inodes
  <2> QED
    BY <2>1, <2>2, <2>3 DEF FilesInv, HeldOwn, NameOwn, FailOwn, AddressSynced
<1> QED
  BY <1>1, <1>2, <1>3, <1>4 DEF Next

(* No death of a process or the machine leaves a partial file at the address
   (store.ts 7-10), of any number of puts in any number of processes, until three of
   one process id have all missed it. *)
THEOREM PublishedWhole == Spec => []PublishedIsWhole
<1> DEFINE Whole == StoreInv /\ RefInv /\ (Crowded \/ FilesInv)
<1>1. Init => RefInv /\ FilesInv
  BY DEF Init, RefInv, FilesInv, HeldOwn, NameOwn, FailOwn, AddressSynced, Writing
<1>2. Whole /\ [Next]_vars => Whole'
  BY NextStoreInv, StepRefs, CrowdedStays, StepFiles
<1>3. Whole => PublishedIsWhole
  BY DEF StoreInv, FilesInv, AddressSynced, PublishedIsWhole
<1>4. Init => Whole
  BY <1>1, InitStoreInv
<1> QED
  BY <1>2, <1>3, <1>4, PTL DEF Spec

(* A reference a result carries leads to a file (AC-19.3), and to all of the bytes
   until three puts of one process id have missed it, for every number of puts and
   processes. *)
THEOREM RefsRetrieve == Spec => []RefRetrievable
<1>1. Init => RefInv
  BY DEF Init, RefInv
<1>2. StoreInv /\ RefInv /\ [Next]_vars => RefInv'
  BY StepRefs
<1>3. RefInv /\ PublishedIsWhole => RefRetrievable
  <2> SUFFICES ASSUME RefInv, PublishedIsWhole, NEW p \in Puts,
                      \/ outcome[p] = "published" /\ (FanoutDurable \/ powerLosses = 0)
                      \/ outcome[p] = "found" /\ powerLosses = 0
               PROVE  file # 0 /\ (Crowded \/ content[file] = "synced")
    BY DEF RefRetrievable
  <2>1. file # 0
    BY DEF RefInv
  <2> QED
    BY <2>1 DEF PublishedIsWhole
<1> QED
  BY <1>1, <1>2, <1>3, PublishedWhole, StoreInvariant, PTL DEF Spec
=============================================================================
