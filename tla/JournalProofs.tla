---------------------------- MODULE JournalProofs ----------------------------
(***************************************************************************)
(* Theorems about Journal, for any number of writers, entries, repairs and *)
(* power losses.  JournalInv is inductive: there is one lemma per action,  *)
(* and in it one step per conjunct the action can disturb.  What the       *)
(* appends went through (HistoryInv) is inductive on top of it.            *)
(* At the end the journal implements DurableLog.                           *)
(***************************************************************************)
EXTENDS Journal, TLAPS

LEMMA EmptyContent == Empty \in Content
BY DEF Empty, Content

\* What the types say of a file that exists.
LEMMA FileFacts ==
  ASSUME TypeOK, NEW i \in 1 .. created
  PROVE  /\ i \in FileIds /\ files[i] \in Content
         /\ files[i].recs \in Seq(Record) /\ Len(files[i].recs) \in Nat
         /\ files[i].tail \in {"none", "torn", "zero", "corrupt"}
         /\ files[i].durable \in Nat
<1>1. i \in FileIds
  BY ConstantsAssumption DEF TypeOK, FileIds
<1>2. files[i] \in Content
  BY <1>1 DEF TypeOK
<1> QED
  BY <1>1, <1>2 DEF Content

LEMMA InitInv == Init => JournalInv
<1> SUFFICES ASSUME Init PROVE JournalInv
    OBVIOUS
<1> USE ConstantsAssumption DEF Init
<1>2. TypeOK
  BY EmptyContent DEF TypeOK, FileIds, PC, Opening, Writable, Record
<1>3. OneHolder /\ HandleNamed /\ RepairExact /\ AppendExact /\ FailedIsIdle
  BY DEF OneHolder, HandleNamed, RepairExact, AppendExact, FailedIsIdle, Writable
<1>4. FilesDense
  BY DEF FilesDense, Empty
<1>5. AckedDurable
  BY DEF AckedDurable
<1> QED
  BY <1>2, <1>3, <1>4, <1>5 DEF JournalInv

-----------------------------------------------------------------------------
(* Opening *)

\* A step of an open or a repair that does not end it: the lock stays, nobody
\* else is at it, and no append is under way.
LEMMA OpeningStep ==
  ASSUME TypeOK, OneHolder, FailedIsIdle, NEW w \in Writers, pc[w] \in Opening,
         NEW p \in Opening, pc' = [pc EXCEPT ![w] = p],
         UNCHANGED <<lock, queue, step, failure>>
  PROVE  /\ \A v \in Writers : v # w => pc[v] = "closed" /\ pc'[v] = "closed"
         /\ pc'[w] = p
         /\ OneHolder' /\ AppendExact' /\ FailedIsIdle'
<1>1. pc[w] # "closed" /\ pc[w] \notin Writable /\ p # "closed" /\ p \notin Writable
  BY DEF Opening, Writable
<1>2. pc'[w] = p /\ \A v \in Writers : v # w => pc'[v] = pc[v]
  BY DEF TypeOK
<1>3. \A v \in Writers : v # w => pc[v] = "closed"
  BY <1>1 DEF OneHolder
<1>4. \A v \in Writers : pc'[v] \notin Writable
  BY <1>1, <1>2, <1>3 DEF Writable
<1>5. OneHolder'
  BY <1>1, <1>2, <1>3 DEF OneHolder
<1>6. AppendExact' /\ FailedIsIdle'
  BY <1>4 DEF AppendExact, FailedIsIdle
<1> QED
  BY <1>2, <1>3, <1>5, <1>6

LEMMA OpenLockInv ==
  ASSUME JournalInv, NEW w \in Writers, OpenLock(w)
  PROVE  JournalInv'
<1> USE ConstantsAssumption DEF JournalInv, OpenLock, fileVars, callVars, readVars
<1>1. TypeOK'
  BY DEF TypeOK, PC, Opening
<1>2. OneHolder'
  BY DEF OneHolder, TypeOK, Writable
<1>3. (HandleNamed /\ RepairExact)'
  BY DEF HandleNamed, RepairExact, Writable, TypeOK
<1>4. (AppendExact /\ FailedIsIdle)'
  BY DEF AppendExact, FailedIsIdle, Writable, TypeOK
<1>5. (FilesDense /\ AckedDurable)'
  BY DEF FilesDense, AckedDurable
<1> QED
  BY <1>1, <1>2, <1>3, <1>4, <1>5

LEMMA OpenFileInv ==
  ASSUME JournalInv, NEW w \in Writers, OpenFile(w)
  PROVE  JournalInv'
<1> USE ConstantsAssumption DEF JournalInv, OpenFile, callVars, readVars
<1>1. TypeOK'
  <2>1. created' \in 0 .. MaxFile /\ created <= created' /\ journal' \in 0 .. created'
    BY DEF TypeOK
  <2>2. durableName' \in 0 .. created' /\ reading' \in 0 .. created'
    BY <2>1 DEF TypeOK
  <2>3. /\ created \in Nat /\ created' \in Nat
        /\ handle \in [Writers -> 0 .. created] /\ tmp \in [Writers -> 0 .. created]
        /\ handle' = [handle EXCEPT ![w] = journal'] /\ tmp' = tmp
    BY DEF TypeOK
  <2>4. handle' \in [Writers -> 0 .. created'] /\ tmp' \in [Writers -> 0 .. created']
    <3> HIDE DEF JournalInv, OpenFile
    <3>1. 0 .. created \subseteq 0 .. created'
      BY <2>1, <2>3
    <3> QED
      BY <2>1, <2>3, <3>1
  <2> QED
    BY <2>1, <2>2, <2>4 DEF TypeOK, PC, Opening
<1>2. /\ \A v \in Writers : v # w => pc[v] = "closed" /\ pc'[v] = "closed"
      /\ pc'[w] = "named"
      /\ OneHolder' /\ AppendExact' /\ FailedIsIdle'
  <2>1. pc[w] \in Opening /\ "named" \in Opening
    BY DEF Opening
  <2>2. pc' = [pc EXCEPT ![w] = "named"] /\ UNCHANGED <<lock, queue, step, failure>>
    OBVIOUS
  <2> QED
    BY <2>1, <2>2, OpeningStep
<1>3. (HandleNamed /\ RepairExact)'
  <2>1. handle'[w] = journal'
    BY DEF TypeOK
  <2>2. journal' # 0
    BY DEF TypeOK
  <2> HIDE DEF JournalInv, OpenFile
  <2> QED
    BY <1>2, <2>1, <2>2 DEF HandleNamed, RepairExact, Writable
<1>4. (FilesDense /\ AckedDurable)'
  BY DEF FilesDense, AckedDurable
<1> QED
  BY <1>1, <1>2, <1>3, <1>4

LEMMA OpenSyncDirectoryInv ==
  ASSUME JournalInv, NEW w \in Writers, OpenSyncDirectory(w)
  PROVE  JournalInv'
<1> USE ConstantsAssumption DEF JournalInv, OpenSyncDirectory, callVars, readVars
<1>1. TypeOK'
  BY DEF TypeOK, PC, Opening
<1>2. /\ \A v \in Writers : v # w => pc[v] = "closed" /\ pc'[v] = "closed"
      /\ pc'[w] = "opened"
      /\ OneHolder' /\ AppendExact' /\ FailedIsIdle'
  <2>1. pc[w] \in Opening /\ "opened" \in Opening
    BY DEF Opening
  <2>2. pc' = [pc EXCEPT ![w] = "opened"] /\ UNCHANGED <<lock, queue, step, failure>>
    OBVIOUS
  <2> QED
    BY <2>1, <2>2, OpeningStep
<1>3. (HandleNamed /\ RepairExact)'
  BY <1>2 DEF HandleNamed, RepairExact, Writable
<1>4. (FilesDense /\ AckedDurable)'
  BY DEF FilesDense, AckedDurable
<1> QED
  BY <1>1, <1>2, <1>3, <1>4

LEMMA OpenScanInv ==
  ASSUME JournalInv, NEW w \in Writers, OpenScan(w)
  PROVE  JournalInv'
<1> USE ConstantsAssumption DEF JournalInv, OpenScan, fileVars, callVars, readVars
<1> DEFINE f == files[handle[w]]
<1>1. handle[w] = journal /\ journal \in 1 .. created
  BY DEF HandleNamed, TypeOK
<1>2b. f \in Content /\ f = files[journal] /\ Len(f.recs) \in Nat
  BY <1>1, FileFacts
<1>2. TypeOK'
  <2>1. pc' \in [Writers -> PC]
    BY DEF TypeOK, PC, Opening, Writable
  <2>2. image' \in [Writers -> Content] /\ seq' \in [Writers -> Nat]
    BY <1>2b, EmptyContent DEF TypeOK
  <2> QED
    BY <2>1, <2>2 DEF TypeOK
<1>3. OneHolder'
  BY DEF OneHolder, TypeOK, Writable
<1>4. HandleNamed'
  BY DEF HandleNamed, OneHolder, Writable, TypeOK
<1>5. RepairExact'
  BY <1>1, <1>2b DEF RepairExact, OneHolder, Writable, TypeOK
<1>6. (AppendExact /\ FailedIsIdle)'
  <2>1. /\ \A v \in Writers : v # w => pc'[v] = "closed"
        /\ pc'[w] = "open" => f.tail = "none"
        /\ seq'[w] = Len(f.recs) /\ step[w] = "idle" /\ pc'[w] # "closing"
    <3>1. \A v \in Writers : v # w => pc'[v] = pc[v] /\ pc[v] = "closed"
      BY DEF OneHolder, TypeOK
    <3>2. (pc'[w] = "open" => f.tail = "none") /\ pc'[w] # "closing"
      BY DEF TypeOK, Scans
    <3>3. seq'[w] = Len(f.recs) /\ step[w] = "idle"
      BY DEF OneHolder, TypeOK, Writable
    <3> QED
      BY <3>1, <3>2, <3>3
  <2>2. UNCHANGED <<files, journal, step, failure, queue>> /\ FailedIsIdle
    OBVIOUS
  <2> HIDE DEF JournalInv, OpenScan, f
  <2>3. \A v \in Writers : pc'[v] \in Writable => v = w
    BY <2>1 DEF Writable
  <2> QED
    BY <1>2b, <2>1, <2>2, <2>3 DEF AppendExact, FailedIsIdle, Writable
<1>7. (FilesDense /\ AckedDurable)'
  BY DEF FilesDense, AckedDurable
<1> QED
  BY <1>2, <1>3, <1>4, <1>5, <1>6, <1>7

\* What Forget leaves true, whatever else changes besides: OpenFail and Close
\* change nothing else, Crash only what the callers know.
LEMMA ForgetInv ==
  ASSUME JournalInv, NEW w \in Writers, pc[w] # "closed", Forget(w),
         UNCHANGED <<fileVars, issued, acked, readVars, powerLosses>>,
         outcome' \in [Entries -> {"unasked", "queued", "acked", "uncertain",
                                   "refused", "lost"}]
  PROVE  JournalInv'
<1> USE ConstantsAssumption DEF JournalInv, Forget, fileVars, readVars
<1>1. TypeOK'
  BY EmptyContent DEF TypeOK, PC
<1>2. OneHolder'
  BY DEF OneHolder, TypeOK, Writable
<1>3. (HandleNamed /\ RepairExact)'
  BY DEF HandleNamed, RepairExact, OneHolder, Writable, TypeOK
<1>4. (AppendExact /\ FailedIsIdle)'
  BY DEF AppendExact, FailedIsIdle, OneHolder, Writable, TypeOK
<1>5. (FilesDense /\ AckedDurable)'
  BY DEF FilesDense, AckedDurable
<1> QED
  BY <1>1, <1>2, <1>3, <1>4, <1>5

-----------------------------------------------------------------------------
(* Repair *)

LEMMA RepairBackupInv ==
  ASSUME JournalInv, NEW w \in Writers, RepairBackup(w)
  PROVE  JournalInv'
<1> USE ConstantsAssumption DEF JournalInv, RepairBackup, callVars, readVars
<1>1. TypeOK'
  BY DEF TypeOK, PC, Opening
<1>2. /\ \A v \in Writers : v # w => pc[v] = "closed" /\ pc'[v] = "closed"
      /\ pc'[w] = "backed"
      /\ OneHolder' /\ AppendExact' /\ FailedIsIdle'
  <2>1. pc[w] \in Opening /\ "backed" \in Opening
    BY DEF Opening
  <2>2. pc' = [pc EXCEPT ![w] = "backed"] /\ UNCHANGED <<lock, queue, step, failure>>
    OBVIOUS
  <2> QED
    BY <2>1, <2>2, OpeningStep
<1>3. (HandleNamed /\ RepairExact)'
  BY <1>2 DEF HandleNamed, RepairExact, Writable
<1>4. (FilesDense /\ AckedDurable)'
  BY DEF FilesDense, AckedDurable
<1> QED
  BY <1>1, <1>2, <1>3, <1>4

\* A repaired file is a file, whole, dense and synced, with one record more.
LEMMA RepairedWhole ==
  ASSUME NEW f \in Content, NEW n \in Nat, n = Len(f.recs) + 1,
         \A i \in DOMAIN f.recs : f.recs[i].seq = i
  PROVE  LET g == Repaired(f, n)
         IN /\ g \in Content /\ g.tail = "none"
            /\ g.recs = Append(f.recs, RecordOf(Repair, n))
            /\ Len(g.recs) = n /\ g.durable = n
            /\ \A i \in DOMAIN g.recs : g.recs[i].seq = i
            /\ \A i \in DOMAIN f.recs : g.recs[i] = f.recs[i]
<1> DEFINE r == RecordOf(Repair, n)
<1>1. r \in Record /\ r.seq = n
  BY DEF RecordOf, Record
<1>2. f.recs \in Seq(Record)
  BY DEF Content
<1>3. /\ Append(f.recs, r) \in Seq(Record) /\ Len(Append(f.recs, r)) = n
      /\ DOMAIN Append(f.recs, r) = 1 .. n /\ DOMAIN f.recs = 1 .. (n - 1)
      /\ \A i \in DOMAIN f.recs : Append(f.recs, r)[i] = f.recs[i]
      /\ Append(f.recs, r)[n] = r
  BY <1>1, <1>2
<1>4. Repaired(f, n) = [recs |-> Append(f.recs, r), tail |-> "none", durable |-> n]
  BY <1>3 DEF Repaired, Synced
<1> QED
  BY <1>1, <1>3, <1>4 DEF Content

LEMMA RepairReplaceInv ==
  ASSUME JournalInv, NEW w \in Writers, RepairReplace(w)
  PROVE  JournalInv'
<1> USE ConstantsAssumption DEF JournalInv, RepairReplace, callVars, readVars
<1> DEFINE k == created + 1
           g == Repaired(image[w], seq[w] + 1)
<1>1. k \in FileIds /\ k # journal /\ k # durableName /\ k # 0
  BY DEF TypeOK, FileIds
<1>2. /\ handle[w] = journal /\ journal \in FileIds /\ image[w] = files[journal]
      /\ seq[w] = Len(image[w].recs) /\ seq[w] \in Nat /\ image[w] \in Content
  BY DEF HandleNamed, RepairExact, TypeOK, FileIds, Writable
<1> DEFINE n == seq[w] + 1
<1>2a. n \in Nat /\ n = Len(image[w].recs) + 1
      /\ \A i \in DOMAIN image[w].recs : image[w].recs[i].seq = i
  BY <1>2 DEF FilesDense
<1>3. /\ g \in Content /\ g.tail = "none" /\ g.durable = Len(g.recs)
      /\ Len(g.recs) \in Nat /\ \A i \in DOMAIN g.recs : g.recs[i].seq = i
  <2> HIDE DEF n
  <2>1. LET h == Repaired(image[w], n)
        IN /\ h \in Content /\ h.tail = "none" /\ Len(h.recs) = n /\ h.durable = n
           /\ \A i \in DOMAIN h.recs : h.recs[i].seq = i
    BY <1>2, <1>2a, RepairedWhole
  <2> QED
    BY <1>2a, <2>1 DEF n
<1>4. files' = [files EXCEPT ![k] = g]
  OBVIOUS
<1>5. TypeOK'
  <2>1. /\ created \in Nat /\ created < MaxFile /\ MaxFile \in Nat /\ created' = created + 1
        /\ journal' \in 0 .. created /\ durableName' \in 0 .. created
        /\ reading' \in 0 .. created /\ handle' \in [Writers -> 0 .. created]
        /\ tmp \in [Writers -> 0 .. created] /\ tmp' = [tmp EXCEPT ![w] = created']
    BY DEF TypeOK
  <2>2. /\ created' \in 0 .. MaxFile /\ journal' \in 0 .. created'
        /\ durableName' \in 0 .. created' /\ reading' \in 0 .. created'
        /\ handle' \in [Writers -> 0 .. created'] /\ tmp' \in [Writers -> 0 .. created']
    <3> HIDE DEF JournalInv, RepairReplace
    <3>1. 0 .. created \subseteq 0 .. created' /\ created' \in 0 .. created'
      BY <2>1
    <3> QED
      BY <2>1, <3>1
  <2> QED
    BY <1>3, <1>4, <2>2 DEF TypeOK, PC, Opening
<1>6. /\ \A v \in Writers : v # w => pc[v] = "closed" /\ pc'[v] = "closed"
      /\ pc'[w] = "replaced"
      /\ OneHolder' /\ AppendExact' /\ FailedIsIdle'
  <2>1. pc[w] \in Opening /\ "replaced" \in Opening
    BY DEF Opening
  <2>2. pc' = [pc EXCEPT ![w] = "replaced"] /\ UNCHANGED <<lock, queue, step, failure>>
    OBVIOUS
  <2> QED
    BY <2>1, <2>2, OpeningStep
<1>7. HandleNamed'
  BY <1>6 DEF HandleNamed, Writable
<1>8. files'[journal] = files[journal] /\ files'[durableName] = files[durableName]
  BY <1>1, <1>4 DEF TypeOK
<1>9. RepairExact'
  <2> SUFFICES ASSUME NEW v \in Writers PROVE RepairExact!(v)'
    BY DEF RepairExact
  <2>1. CASE v = w
    <3>1. pc'[v] = "replaced" /\ tmp'[v] = k /\ image'[v] = image[v] /\ seq'[v] = seq[v]
          /\ journal' = journal /\ backups' = backups
      BY <2>1 DEF TypeOK
    <3>2. files'[k] = g /\ files'[journal] = files[journal]
      BY <1>1, <1>4, <1>8 DEF TypeOK
    <3> QED
      BY <1>1, <1>2, <2>1, <3>1, <3>2 DEF RepairExact
  <2>2. CASE v # w
    BY <1>6, <2>2
  <2> QED
    BY <2>1, <2>2
<1>11. FilesDense'
  <2> HIDE DEF g
  <2>1. files'[k] = g /\ \A i \in FileIds : i # k => files'[i] = files[i]
    BY <1>1, <1>4 DEF TypeOK
  <2>2. g.tail # "corrupt" /\ g.durable <= Len(g.recs)
    BY <1>3
  <2> QED
    BY <1>3, <2>1, <2>2 DEF FilesDense
<1>12. AckedDurable'
  BY <1>8 DEF AckedDurable
<1> QED
  BY <1>5, <1>6, <1>7, <1>9, <1>11, <1>12

LEMMA RepairRenameInv ==
  ASSUME JournalInv, NEW w \in Writers, RepairRename(w)
  PROVE  JournalInv'
<1> USE ConstantsAssumption DEF JournalInv, RepairRename, callVars, readVars
<1> DEFINE g == files[tmp[w]]
<1>1. /\ journal \in FileIds /\ durableName = journal /\ tmp[w] \in FileIds
      /\ image[w] = files[journal] /\ seq[w] = Len(image[w].recs) /\ seq[w] \in Nat
      /\ image[w] \in Content /\ tmp[w] # 0
  BY DEF HandleNamed, RepairExact, TypeOK, FileIds, Writable
<1>2. \A i \in DOMAIN image[w].recs : image[w].recs[i].seq = i
  BY <1>1 DEF FilesDense
<1>3. g = Repaired(image[w], seq[w] + 1)
  BY DEF RepairExact
<1>4. /\ g.tail = "none" /\ Len(g.recs) = seq[w] + 1 /\ g.durable = seq[w] + 1
      /\ \A i \in DOMAIN image[w].recs : g.recs[i] = image[w].recs[i]
  BY <1>1, <1>2, <1>3, RepairedWhole
<1>5. TypeOK'
  BY DEF TypeOK, PC, Opening
<1>6. /\ \A v \in Writers : v # w => pc[v] = "closed" /\ pc'[v] = "closed"
      /\ pc'[w] = "renamed"
      /\ OneHolder' /\ AppendExact' /\ FailedIsIdle'
  <2>1. pc[w] \in Opening /\ "renamed" \in Opening
    BY DEF Opening
  <2>2. pc' = [pc EXCEPT ![w] = "renamed"] /\ UNCHANGED <<lock, queue, step, failure>>
    OBVIOUS
  <2> QED
    BY <2>1, <2>2, OpeningStep
<1>7. HandleNamed'
  BY <1>6 DEF HandleNamed, Writable
<1>8. RepairExact'
  <2>1. journal' = tmp[w] /\ files' = files /\ seq' = seq
    OBVIOUS
  <2> HIDE DEF JournalInv, RepairRename
  <2> QED
    BY <1>1, <1>4, <1>6, <2>1 DEF RepairExact
<1>10. FilesDense'
  BY DEF FilesDense
<1>11. AckedDurable'
  <2> SUFFICES ASSUME NEW r \in acked
               PROVE  r.seq \in 1 .. g.durable /\ g.recs[r.seq] = r
    BY <1>1 DEF AckedDurable
  <2>1. /\ r.seq \in 1 .. files[journal].durable /\ files[journal].recs[r.seq] = r
        /\ files[journal].durable <= Len(files[journal].recs)
        /\ files[journal].durable \in Nat /\ files[journal].recs \in Seq(Record)
    BY <1>1 DEF AckedDurable, FilesDense, Content
  <2>2. r.seq \in DOMAIN image[w].recs /\ r.seq \in 1 .. (seq[w] + 1)
    BY <1>1, <2>1
  <2> QED
    BY <1>1, <1>4, <2>1, <2>2
<1> QED
  BY <1>5, <1>6, <1>7, <1>8, <1>10, <1>11

LEMMA RepairFinishInv ==
  ASSUME JournalInv, NEW w \in Writers, RepairFinish(w)
  PROVE  JournalInv'
<1> USE ConstantsAssumption DEF JournalInv, RepairFinish, HandleAfterRepair, callVars, readVars
<1>1. journal # 0 /\ files[journal].tail = "none" /\ Len(files[journal].recs) = seq[w] + 1
  BY DEF RepairExact
<1>2. TypeOK'
  <2>1. /\ pc' \in [Writers -> PC] /\ handle' \in [Writers -> 0 .. created']
        /\ seq' \in [Writers -> Nat]
    <3>1. pc' \in [Writers -> PC] /\ seq' \in [Writers -> Nat]
      BY DEF TypeOK, PC, Writable
    <3>2. handle' \in [Writers -> 0 .. created']
      BY DEF TypeOK
    <3> QED
      BY <3>1, <3>2
  <2>2. image' \in [Writers -> Content] /\ tmp' \in [Writers -> 0 .. created']
    BY EmptyContent DEF TypeOK
  <2>3. durableName' \in 0 .. created'
    BY DEF TypeOK
  <2> QED
    BY <2>1, <2>2, <2>3 DEF TypeOK
<1>3. OneHolder'
  BY DEF OneHolder, TypeOK, Writable
<1>4. (HandleNamed /\ RepairExact)'
  BY <1>1 DEF HandleNamed, RepairExact, OneHolder, Writable, TypeOK
<1>5. (AppendExact /\ FailedIsIdle)'
  BY <1>1 DEF AppendExact, FailedIsIdle, OneHolder, Writable, TypeOK
<1>6. (FilesDense /\ AckedDurable)'
  BY DEF FilesDense, AckedDurable
<1> QED
  BY <1>2, <1>3, <1>4, <1>5, <1>6

-----------------------------------------------------------------------------
(* Appending *)

LEMMA CallAppendInv ==
  ASSUME JournalInv, NEW w \in Writers, NEW e \in Entries, CallAppend(w, e)
  PROVE  JournalInv'
<1> USE ConstantsAssumption DEF JournalInv, CallAppend, fileVars, readVars
<1> DEFINE q == Append(queue[w], e)
<1>0. q \in Seq(Entries) /\ (queue[w] # <<>> => q # <<>> /\ Head(q) = Head(queue[w]))
  <2>1. queue[w] \in Seq(Entries)
    BY DEF TypeOK
  <2> QED
    BY <2>1
<1> HIDE DEF q
<1>1. TypeOK'
  <2>1. queue' \in [Writers -> Seq(Entries)]
    BY <1>0 DEF TypeOK, q
  <2>2. Append(issued[w], e) \in Seq(Entries)
    BY DEF TypeOK
  <2>3. issued' \in [Writers -> Seq(Entries)]
    BY <2>2 DEF TypeOK
  <2> QED
    BY <2>1, <2>3 DEF TypeOK
<1>2. OneHolder'
  BY DEF OneHolder, TypeOK, Writable
<1>3. (HandleNamed /\ RepairExact)'
  BY DEF HandleNamed, RepairExact, Writable
<1>4. \A v \in Writers : queue[v] # <<>> => /\ queue'[v] # <<>>
                                           /\ Head(queue'[v]) = Head(queue[v])
  <2>1. queue' = [queue EXCEPT ![w] = q] \/ queue' = queue
    BY DEF q
  <2> QED
    BY <1>0, <2>1 DEF TypeOK
<1>5. (AppendExact /\ FailedIsIdle)'
  BY <1>4 DEF AppendExact, FailedIsIdle
<1>6. (FilesDense /\ AckedDurable)'
  BY DEF FilesDense, AckedDurable
<1> QED
  BY <1>1, <1>2, <1>3, <1>5, <1>6

\* An entry leaves the queue: the types and the other writers stand it.
LEMMA SettleFacts ==
  ASSUME JournalInv, NEW w \in Writers, queue[w] # <<>>,
         NEW how \in {"acked", "uncertain", "refused"}, Settle(w, how)
  PROVE  /\ pc[w] \in Writable /\ lock = w /\ handle[w] = journal
         /\ journal = durableName /\ journal \in 1 .. created
         /\ \A v \in Writers : v # w => pc[v] = "closed"
         /\ queue' \in [Writers -> Seq(Entries)]
         /\ step' \in [Writers -> {"idle", "writing", "written"}]
         /\ outcome' \in [Entries -> {"unasked", "queued", "acked", "uncertain",
                                      "refused", "lost"}]
         /\ step'[w] = "idle" /\ Head(queue[w]) \in Entries
         /\ \A v \in Writers : v # w => queue'[v] = queue[v] /\ step'[v] = step[v]
<1> USE ConstantsAssumption DEF JournalInv, Settle
<1>1. queue[w] \in Seq(Entries) /\ Tail(queue[w]) \in Seq(Entries)
      /\ Head(queue[w]) \in Entries
  BY DEF TypeOK
<1>2. pc[w] \in Writable /\ lock = w /\ \A v \in Writers : v # w => pc[v] = "closed"
  BY DEF OneHolder, TypeOK, Writable
<1>3. handle[w] = journal /\ journal = durableName /\ journal # 0
  BY <1>2 DEF HandleNamed
<1> QED
  BY <1>1, <1>2, <1>3 DEF TypeOK

LEMMA RefuseAppendInv ==
  ASSUME JournalInv, NEW w \in Writers, RefuseAppend(w)
  PROVE  JournalInv'
<1> USE DEF JournalInv, RefuseAppend, Parses, fileVars, readVars
<1>1. /\ pc[w] \in Writable
      /\ \A v \in Writers : v # w => pc[v] = "closed" /\ queue'[v] = queue[v]
                                                    /\ step'[v] = step[v]
      /\ step'[w] = "idle"
      /\ queue' \in [Writers -> Seq(Entries)]
      /\ step' \in [Writers -> {"idle", "writing", "written"}]
      /\ outcome' \in [Entries -> {"unasked", "queued", "acked", "uncertain",
                                   "refused", "lost"}]
  BY SettleFacts
<1>2. TypeOK'
  BY <1>1 DEF TypeOK
<1>3. OneHolder'
  <2>1. OneHolder /\ UNCHANGED <<pc, lock, failure>>
    OBVIOUS
  <2> HIDE DEF JournalInv, RefuseAppend
  <2> QED
    BY <1>1, <2>1 DEF OneHolder
<1>4. (HandleNamed /\ RepairExact)'
  BY DEF HandleNamed, RepairExact
<1>5. (AppendExact /\ FailedIsIdle)'
  BY <1>1 DEF AppendExact, FailedIsIdle, Writable
<1>6. (FilesDense /\ AckedDurable)'
  BY DEF FilesDense, AckedDurable
<1> QED
  BY <1>2, <1>3, <1>4, <1>5, <1>6

LEMMA AppendFailInv ==
  ASSUME JournalInv, NEW w \in Writers, AppendFail(w)
  PROVE  JournalInv'
<1> USE DEF JournalInv, AppendFail, Parses, fileVars, readVars
<1>1. /\ pc[w] \in Writable
      /\ \A v \in Writers : v # w => pc[v] = "closed" /\ queue'[v] = queue[v]
                                                    /\ step'[v] = step[v]
      /\ step'[w] = "idle"
      /\ queue' \in [Writers -> Seq(Entries)]
      /\ step' \in [Writers -> {"idle", "writing", "written"}]
      /\ outcome' \in [Entries -> {"unasked", "queued", "acked", "uncertain",
                                   "refused", "lost"}]
  BY SettleFacts
<1>2. TypeOK'
  BY <1>1 DEF TypeOK
<1>3. OneHolder'
  <2>1. /\ \A v \in Writers : v # w => failure'[v] = failure[v]
        /\ OneHolder /\ UNCHANGED <<pc, lock>>
    BY DEF TypeOK
  <2> HIDE DEF JournalInv, AppendFail
  <2> QED
    BY <1>1, <2>1 DEF OneHolder
<1>4. (HandleNamed /\ RepairExact)'
  BY DEF HandleNamed, RepairExact
<1>5. (AppendExact /\ FailedIsIdle)'
  BY <1>1 DEF AppendExact, FailedIsIdle, Writable, TypeOK
<1>6. (FilesDense /\ AckedDurable)'
  BY DEF FilesDense, AckedDurable
<1> QED
  BY <1>2, <1>3, <1>4, <1>5, <1>6

LEMMA WriteFragmentInv ==
  ASSUME JournalInv, NEW w \in Writers, WriteFragment(w)
  PROVE  JournalInv'
<1> USE ConstantsAssumption DEF JournalInv, WriteFragment, Parses, callVars, readVars
<1> DEFINE f == files[journal]
           g == WithFragment(f)
<1>1. /\ pc[w] \in Writable /\ handle[w] = journal /\ journal \in 1 .. created
      /\ \A v \in Writers : v # w => pc[v] = "closed"
      /\ f.tail = "none" /\ Len(f.recs) = seq[w]
  BY DEF OneHolder, HandleNamed, AppendExact, TypeOK, Writable
<1>2. f \in Content /\ journal \in FileIds
  BY <1>1, FileFacts
<1>3. g \in Content /\ g.recs = f.recs /\ g.durable = f.durable /\ g.tail = "torn"
  BY <1>1, <1>2 DEF WithFragment, Content
<1>4. files' = [files EXCEPT ![journal] = g]
  BY <1>1
<1> HIDE DEF g
<1>5. /\ files'[journal] = g
      /\ \A i \in FileIds : i # journal => files'[i] = files[i]
  BY <1>2, <1>4 DEF TypeOK
<1>6. TypeOK'
  BY <1>3, <1>4 DEF TypeOK
<1>7. OneHolder'
  BY <1>1 DEF OneHolder, TypeOK
<1>8. (HandleNamed /\ RepairExact)'
  BY <1>1 DEF HandleNamed, RepairExact, Writable
<1>9. (AppendExact /\ FailedIsIdle)'
  BY <1>1, <1>3, <1>5 DEF AppendExact, FailedIsIdle, Writable, TypeOK
<1>10. FilesDense'
  BY <1>3, <1>5 DEF FilesDense
<1>11. AckedDurable'
  <2>1. /\ AckedDurable /\ durableName = journal
        /\ UNCHANGED <<journal, durableName, acked>>
    BY <1>1 DEF HandleNamed
  <2> HIDE DEF JournalInv, WriteFragment
  <2> QED
    BY <1>3, <1>5, <2>1 DEF AckedDurable
<1> QED
  BY <1>6, <1>7, <1>8, <1>9, <1>10, <1>11

LEMMA WriteLineInv ==
  ASSUME JournalInv, NEW w \in Writers, WriteLine(w)
  PROVE  JournalInv'
<1> USE ConstantsAssumption DEF JournalInv, WriteLine, callVars, readVars
<1> DEFINE f == files[journal]
           r == RecordOf(Head(queue[w]), seq[w] + 1)
           g == WithLine(f, r)
<1>1. /\ pc[w] \in Writable /\ handle[w] = journal /\ journal \in 1 .. created
      /\ durableName = journal /\ ~failure[w]
      /\ \A v \in Writers : v # w => pc[v] = "closed"
      /\ f.tail = "torn" /\ Len(f.recs) = seq[w] /\ queue[w] # <<>>
  BY DEF OneHolder, HandleNamed, AppendExact, FailedIsIdle, TypeOK, Writable
<1>2. /\ f \in Content /\ journal \in FileIds /\ f.recs \in Seq(Record)
      /\ f.durable \in Nat /\ seq[w] \in Nat
  BY <1>1, FileFacts DEF TypeOK
<1>3. r \in Record /\ r.seq = seq[w] + 1
  BY <1>1, <1>2 DEF RecordOf, Record, TypeOK
<1> HIDE DEF r
<1>4. g = [recs |-> Append(f.recs, r), tail |-> "none", durable |-> f.durable]
  BY <1>1 DEF WithLine
<1>5. /\ Append(f.recs, r) \in Seq(Record) /\ Len(Append(f.recs, r)) = seq[w] + 1
      /\ DOMAIN Append(f.recs, r) = 1 .. (seq[w] + 1) /\ DOMAIN f.recs = 1 .. seq[w]
      /\ \A i \in 1 .. seq[w] : Append(f.recs, r)[i] = f.recs[i]
      /\ Append(f.recs, r)[seq[w] + 1] = r
  BY <1>1, <1>2, <1>3
<1>6. /\ g \in Content /\ g.tail = "none" /\ g.durable = f.durable
      /\ Len(g.recs) = seq[w] + 1 /\ g.recs[seq[w] + 1] = r
      /\ DOMAIN g.recs = 1 .. (seq[w] + 1)
      /\ \A i \in 1 .. seq[w] : g.recs[i] = f.recs[i]
  BY <1>2, <1>4, <1>5 DEF Content
<1>7. files' = [files EXCEPT ![journal] = g]
  BY <1>1 DEF r
<1> HIDE DEF g
<1>8. /\ files'[journal] = g
      /\ \A i \in FileIds : i # journal => files'[i] = files[i]
  BY <1>2, <1>7 DEF TypeOK
<1>9. TypeOK'
  BY <1>6, <1>7 DEF TypeOK
<1>10. OneHolder'
  BY <1>1 DEF OneHolder, TypeOK
<1>11. (HandleNamed /\ RepairExact)'
  BY <1>1 DEF HandleNamed, RepairExact, Writable
<1>12. (AppendExact /\ FailedIsIdle)'
  <2>1. /\ step'[w] = "written" /\ \A v \in Writers : v # w => step'[v] = step[v]
        /\ UNCHANGED <<pc, failure, queue, seq, journal>> /\ FailedIsIdle
    BY DEF TypeOK
  <2> HIDE DEF JournalInv, WriteLine
  <2> QED
    BY <1>1, <1>6, <1>8, <2>1 DEF AppendExact, FailedIsIdle, Writable, r
<1>13. FilesDense'
  <2>1. f.durable <= seq[w] /\ \A i \in 1 .. seq[w] : f.recs[i].seq = i
    BY <1>1, <1>2, <1>5 DEF FilesDense
  <2>2. /\ g.tail # "corrupt" /\ g.durable <= Len(g.recs)
        /\ \A i \in DOMAIN g.recs : g.recs[i].seq = i
    <3>1. g.tail # "corrupt" /\ g.durable <= Len(g.recs)
      BY <1>2, <1>6, <2>1
    <3>2. \A i \in 1 .. seq[w] : g.recs[i].seq = i
      BY <1>6, <2>1
    <3>3. g.recs[seq[w] + 1].seq = seq[w] + 1
      BY <1>3, <1>6
    <3> QED
      BY <1>2, <1>6, <3>1, <3>2, <3>3
  <2> QED
    BY <1>8, <2>2 DEF FilesDense
<1>14. AckedDurable'
  <2> SUFFICES ASSUME NEW a \in acked
               PROVE  a.seq \in 1 .. g.durable /\ g.recs[a.seq] = a
    BY <1>1, <1>8 DEF AckedDurable
  <2>1. a.seq \in 1 .. f.durable /\ f.recs[a.seq] = a
    BY <1>1 DEF AckedDurable
  <2>2. f.durable <= seq[w]
    BY <1>1, <1>2 DEF FilesDense
  <2> HIDE DEF JournalInv, WriteLine, f
  <2>3. a.seq \in 1 .. seq[w] /\ a.seq \in 1 .. g.durable
    BY <1>2, <1>6, <2>1, <2>2
  <2> QED
    BY <1>6, <2>1, <2>3
<1> QED
  BY <1>9, <1>10, <1>11, <1>12, <1>13, <1>14

LEMMA SyncAppendInv ==
  ASSUME JournalInv, NEW w \in Writers, SyncAppend(w)
  PROVE  JournalInv'
<1> USE ConstantsAssumption DEF JournalInv, SyncAppend, readVars
<1> DEFINE f == files[journal]
           r == RecordOf(Head(queue[w]), seq[w] + 1)
           g == Synced(f)
<1>1. /\ queue[w] # <<>> /\ ~failure[w]
      /\ f.tail = "none" /\ Len(f.recs) = seq[w] + 1 /\ f.recs[seq[w] + 1] = r
  BY DEF OneHolder, AppendExact, FailedIsIdle, TypeOK, Writable
<1>2. /\ pc[w] \in Writable /\ lock = w /\ handle[w] = journal
      /\ journal = durableName /\ journal \in 1 .. created
      /\ \A v \in Writers : v # w => pc[v] = "closed" /\ queue'[v] = queue[v]
                                                    /\ step'[v] = step[v]
      /\ step'[w] = "idle" /\ Head(queue[w]) \in Entries
      /\ queue' \in [Writers -> Seq(Entries)]
      /\ step' \in [Writers -> {"idle", "writing", "written"}]
      /\ outcome' \in [Entries -> {"unasked", "queued", "acked", "uncertain",
                                   "refused", "lost"}]
  BY <1>1, SettleFacts
<1>3. /\ f \in Content /\ journal \in FileIds /\ f.recs \in Seq(Record)
      /\ f.tail \in {"none", "torn", "zero", "corrupt"} /\ seq[w] \in Nat
      /\ f.durable \in Nat
  BY <1>2, FileFacts DEF TypeOK
<1>4. r \in Record /\ r.seq = seq[w] + 1
  BY <1>2, <1>3 DEF RecordOf, Record
<1>5. /\ g \in Content /\ g.tail = "none" /\ g.durable = seq[w] + 1
      /\ g.recs = f.recs
  BY <1>1, <1>3 DEF Synced, Content
<1>6. files' = [files EXCEPT ![journal] = g] /\ acked' = acked \cup {r}
  BY <1>2
<1> HIDE DEF g, r
<1>7. /\ files'[journal] = g
      /\ \A i \in FileIds : i # journal => files'[i] = files[i]
  BY <1>3, <1>6 DEF TypeOK
<1>8. TypeOK'
  <2>1. files' \in [FileIds -> Content] /\ acked' \subseteq Record
    BY <1>4, <1>5, <1>6 DEF TypeOK
  <2>2. seq' \in [Writers -> Nat]
    BY <1>3 DEF TypeOK
  <2> QED
    BY <1>2, <2>1, <2>2 DEF TypeOK
<1>9. OneHolder'
  BY <1>2 DEF OneHolder, TypeOK
<1>10. (HandleNamed /\ RepairExact)'
  BY <1>2 DEF HandleNamed, RepairExact, Writable
<1>11. (AppendExact /\ FailedIsIdle)'
  <2>1. /\ seq'[w] = seq[w] + 1 /\ FailedIsIdle
        /\ UNCHANGED <<pc, failure, journal>>
    BY <1>3 DEF TypeOK
  <2>2. \A v \in Writers : pc[v] \in Writable => v = w
    BY <1>2 DEF Writable
  <2> HIDE DEF JournalInv, SyncAppend, f
  <2>3. /\ files'[journal].tail = "none"
        /\ Len(files'[journal].recs) = seq'[w]
    BY <1>1, <1>5, <1>7, <2>1
  <2>4. step'[w] = "idle" /\ \A v \in Writers : v # w => step'[v] = step[v]
    BY <1>2
  <2> QED
    BY <2>1, <2>2, <2>3, <2>4 DEF AppendExact, FailedIsIdle
<1>12. FilesDense'
  BY <1>1, <1>3, <1>5, <1>7 DEF FilesDense
<1>13. AckedDurable'
  <2> SUFFICES ASSUME NEW a \in acked \cup {r}
               PROVE  a.seq \in 1 .. g.durable /\ g.recs[a.seq] = a
    BY <1>2, <1>6, <1>7 DEF AckedDurable
  <2>1. CASE a = r
    BY <1>1, <1>3, <1>4, <1>5, <2>1
  <2>2. CASE a \in acked
    <3>1. a.seq \in 1 .. f.durable /\ f.recs[a.seq] = a /\ f.durable <= Len(f.recs)
      BY <1>2, <1>3, <2>2 DEF AckedDurable, FilesDense
    <3> QED
      BY <1>1, <1>3, <1>5, <3>1
  <2> QED
    BY <2>1, <2>2
<1> QED
  BY <1>8, <1>9, <1>10, <1>11, <1>12, <1>13

LEMMA CallCloseInv ==
  ASSUME JournalInv, NEW w \in Writers, CallClose(w)
  PROVE  JournalInv'
<1> USE DEF JournalInv, CallClose, fileVars, callVars, readVars
<1>1. TypeOK'
  BY DEF TypeOK, PC, Writable
<1>2. OneHolder'
  BY DEF OneHolder, TypeOK, Writable
<1>3. (HandleNamed /\ RepairExact)'
  BY DEF HandleNamed, RepairExact, Writable, TypeOK
<1>4. (AppendExact /\ FailedIsIdle)'
  BY DEF AppendExact, FailedIsIdle, Writable, TypeOK
<1>5. (FilesDense /\ AckedDurable)'
  BY DEF FilesDense, AckedDurable
<1> QED
  BY <1>1, <1>2, <1>3, <1>4, <1>5

-----------------------------------------------------------------------------
(* The machine, the readers, and every step *)

LEMMA PrefixFacts ==
  ASSUME NEW s \in Seq(Record), NEW k \in 0 .. Len(s)
  PROVE  /\ SubSeq(s, 1, k) \in Seq(Record) /\ Len(SubSeq(s, 1, k)) = k
         /\ DOMAIN SubSeq(s, 1, k) = 1 .. k
         /\ \A i \in 1 .. k : i \in DOMAIN s /\ SubSeq(s, 1, k)[i] = s[i]
OBVIOUS

LEMMA PowerLossInv ==
  ASSUME JournalInv, PowerLoss
  PROVE  JournalInv'
<1> USE ConstantsAssumption DEF JournalInv, PowerLoss
<1>1. /\ journal' \in {journal, durableName} /\ journal' \in 0 .. created
      /\ durableName' = journal'
  BY DEF TypeOK
<1> DEFINE f == files[journal']
           Kept(k) == SubSeq(f.recs, 1, k)
<1>2. \/ files' = files
      \/ /\ journal' \in FileIds
         /\ \E k \in f.durable .. Len(f.recs), t \in {"none", "torn", "zero"} :
              files' = [files EXCEPT ![journal'] =
                          [recs |-> Kept(k), tail |-> t, durable |-> f.durable]]
  <2>1. journal' # 0 => journal' \in FileIds
    BY <1>1 DEF TypeOK, FileIds
  <2>2. \/ files' = files
        \/ /\ journal' # 0
           /\ \E k \in f.durable .. Len(f.recs), t \in {"none", "torn", "zero"} :
                /\ k < Len(f.recs) \/ f.tail # "none"
                /\ files' = [files EXCEPT ![journal'] =
                               [recs |-> Kept(k), tail |-> t, durable |-> f.durable]]
    BY Zenon
  <2> QED
    BY <2>1, <2>2, Zenon
<1>3. ASSUME NEW k \in f.durable .. Len(f.recs), journal' \in FileIds
      PROVE  /\ Kept(k) \in Seq(Record) /\ k \in Nat /\ Len(Kept(k)) = k
             /\ DOMAIN Kept(k) = 1 .. k /\ k \in f.durable .. Len(f.recs)
             /\ \A i \in 1 .. k : i \in DOMAIN f.recs /\ Kept(k)[i] = f.recs[i]
             /\ f.durable \in Nat
  <2>1. f \in Content
    BY <1>3 DEF TypeOK
  <2>2. f.recs \in Seq(Record) /\ f.durable \in Nat /\ k \in Nat /\ k <= Len(f.recs)
    BY <2>1 DEF Content
  <2>3. k \in 0 .. Len(f.recs) /\ k \in f.durable .. Len(f.recs)
    BY <2>2
  <2> HIDE DEF JournalInv, PowerLoss, f
  <2> QED
    BY <2>2, <2>3, PrefixFacts
<1> HIDE DEF Kept
<1>4. files' \in [FileIds -> Content]
  <2>1. CASE files' = files
    BY <2>1 DEF TypeOK
  <2>2. CASE files' # files
    <3>1. PICK k \in f.durable .. Len(f.recs), t \in {"none", "torn", "zero"} :
             files' = [files EXCEPT ![journal'] =
                         [recs |-> Kept(k), tail |-> t, durable |-> f.durable]]
      BY <1>2, <2>2
    <3>2. [recs |-> Kept(k), tail |-> t, durable |-> f.durable] \in Content
      BY <1>2, <1>3, <2>2 DEF Content
    <3> QED
      BY <3>1, <3>2 DEF TypeOK
  <2> QED
    BY <2>1, <2>2
<1>5. outcome' \in [Entries -> {"unasked", "queued", "acked", "uncertain",
                               "refused", "lost"}]
  BY DEF TypeOK, Lost
<1>6. TypeOK'
  <2>1. powerLosses' \in 0 .. MaxPowerLoss
    BY DEF TypeOK
  <2>2. /\ handle' \in [Writers -> 0 .. created'] /\ tmp' \in [Writers -> 0 .. created']
        /\ image' \in [Writers -> Content] /\ seq' \in [Writers -> Nat]
        /\ queue' \in [Writers -> Seq(Entries)] /\ pc' \in [Writers -> PC]
    BY EmptyContent DEF TypeOK, PC
  <2> QED
    BY <1>1, <1>4, <1>5, <2>1, <2>2 DEF TypeOK
<1>7. OneHolder'
  BY DEF OneHolder, Writable
<1>8. (HandleNamed /\ RepairExact /\ AppendExact /\ FailedIsIdle)'
  BY DEF HandleNamed, RepairExact, AppendExact, FailedIsIdle, Writable
<1>9. FilesDense'
  <2>1. CASE files' = files
    BY <2>1 DEF FilesDense
  <2>2. CASE files' # files
    <3>1. PICK k \in f.durable .. Len(f.recs), t \in {"none", "torn", "zero"} :
             files' = [files EXCEPT ![journal'] =
                         [recs |-> Kept(k), tail |-> t, durable |-> f.durable]]
      BY <1>2, <2>2
    <3>2. /\ files'[journal'] = [recs |-> Kept(k), tail |-> t, durable |-> f.durable]
          /\ \A i \in FileIds : i # journal' => files'[i] = files[i]
      BY <1>2, <2>2, <3>1 DEF TypeOK
    <3>3. \A i \in DOMAIN f.recs : f.recs[i].seq = i
      BY <1>2, <2>2 DEF FilesDense
    <3>4. f.durable <= Len(Kept(k)) /\ \A i \in DOMAIN Kept(k) : Kept(k)[i].seq = i
      <4>1. /\ Len(Kept(k)) = k /\ DOMAIN Kept(k) = 1 .. k
            /\ \A i \in 1 .. k : i \in DOMAIN f.recs /\ Kept(k)[i] = f.recs[i]
            /\ k \in Nat /\ f.durable \in Nat
        BY <1>2, <1>3, <2>2
      <4>2. f.durable <= k
        BY <4>1
      <4> QED
        BY <3>3, <4>1, <4>2
    <3> QED
      BY <3>2, <3>4 DEF FilesDense
  <2> QED
    BY <2>1, <2>2
<1>10. AckedDurable'
  <2> SUFFICES ASSUME NEW a \in acked
               PROVE  /\ journal' # 0 /\ a.seq \in 1 .. files'[journal'].durable
                      /\ files'[journal'].recs[a.seq] = a
    BY <1>1 DEF AckedDurable
  <2>0. journal' # 0 /\ a.seq \in 1 .. f.durable /\ f.recs[a.seq] = a
    BY <1>1 DEF AckedDurable
  <2>1. CASE files' = files
    BY <2>0, <2>1
  <2>2. CASE files' # files
    <3>1. PICK k \in f.durable .. Len(f.recs), t \in {"none", "torn", "zero"} :
             files' = [files EXCEPT ![journal'] =
                         [recs |-> Kept(k), tail |-> t, durable |-> f.durable]]
      BY <1>2, <2>2
    <3>2. files'[journal'] = [recs |-> Kept(k), tail |-> t, durable |-> f.durable]
      BY <1>2, <2>2, <3>1 DEF TypeOK
    <3>3. a.seq \in 1 .. k
      BY <1>2, <1>3, <2>0, <2>2
    <3> QED
      BY <1>2, <1>3, <2>0, <2>2, <3>2, <3>3
  <2> QED
    BY <2>1, <2>2
<1> QED
  BY <1>6, <1>7, <1>8, <1>9, <1>10

\* A step that touches neither files nor writers keeps the invariant.
LEMMA ReaderInv ==
  ASSUME JournalInv, ReaderOpen \/ ReaderRefused \/ ReaderRead
  PROVE  JournalInv'
<1> USE DEF JournalInv, ReaderOpen, ReaderRefused, ReaderRead,
            fileVars, writerVars, callVars
<1>1. files[reading].recs \in Seq(Record) \/ reading = 0
  BY FileFacts DEF TypeOK
<1>2. TypeOK'
  <2>1. reading' \in 0 .. created' /\ seen' \in Seq(Record)
    <3>1. CASE ReaderOpen \/ ReaderRefused
      BY <3>1 DEF TypeOK
    <3>2. CASE ReaderRead
      <4>1. files[reading].recs \in Seq(Record)
        BY <1>1, <3>2
      <4> QED
        BY <3>2, <4>1 DEF TypeOK
    <3> QED
      BY <3>1, <3>2
  <2> QED
    BY <2>1 DEF TypeOK
<1>3. (OneHolder /\ HandleNamed /\ RepairExact /\ AppendExact /\ FailedIsIdle)'
  BY DEF OneHolder, HandleNamed, RepairExact, AppendExact, FailedIsIdle
<1>4. (FilesDense /\ AckedDurable)'
  BY DEF FilesDense, AckedDurable
<1> QED
  BY <1>2, <1>3, <1>4

LEMMA LeaveInv ==
  ASSUME JournalInv, NEW w \in Writers, OpenFail(w) \/ Close(w) \/ Crash(w)
  PROVE  JournalInv'
<1>1. pc[w] # "closed"
  BY DEF OpenFail, Close, Crash, Opening
<1>2. Forget(w) /\ UNCHANGED <<fileVars, issued, acked, readVars, powerLosses>>
  BY DEF OpenFail, Close, Crash, callVars
<1>3. outcome' \in [Entries -> {"unasked", "queued", "acked", "uncertain",
                               "refused", "lost"}]
  BY DEF JournalInv, TypeOK, OpenFail, Close, Crash, callVars, Lost
<1> QED
  BY <1>1, <1>2, <1>3, ForgetInv

LEMMA StepInv ==
  ASSUME JournalInv, [Next]_vars
  PROVE  JournalInv'
<1>1. CASE UNCHANGED vars
  BY <1>1 DEF vars, fileVars, writerVars, callVars, readVars, JournalInv, TypeOK, OneHolder,
              FilesDense, HandleNamed, RepairExact, AppendExact, FailedIsIdle, AckedDurable
<1>2. CASE PowerLoss
  BY <1>2, PowerLossInv
<1>3. CASE ReaderOpen \/ ReaderRefused \/ ReaderRead
  BY <1>3, ReaderInv
<1>4. ASSUME NEW w \in Writers, WriterStep(w) PROVE JournalInv'
  <2>1. CASE OpenLock(w) \/ OpenFile(w) \/ OpenSyncDirectory(w) \/ OpenScan(w)
    BY <2>1, OpenLockInv, OpenFileInv, OpenSyncDirectoryInv, OpenScanInv
  <2>2. CASE OpenFail(w) \/ Close(w) \/ Crash(w)
    BY <2>2, LeaveInv
  <2>3. CASE RepairBackup(w) \/ RepairReplace(w) \/ RepairRename(w) \/ RepairFinish(w)
    BY <2>3, RepairBackupInv, RepairReplaceInv, RepairRenameInv, RepairFinishInv
  <2>4. CASE \E e \in Entries : CallAppend(w, e)
    BY <2>4, CallAppendInv
  <2>5. CASE RefuseAppend(w) \/ WriteFragment(w) \/ WriteLine(w)
    BY <2>5, RefuseAppendInv, WriteFragmentInv, WriteLineInv
  <2>6. CASE SyncAppend(w) \/ AppendFail(w) \/ CallClose(w)
    BY <2>6, SyncAppendInv, AppendFailInv, CallCloseInv
  <2> QED
    BY <1>4, <2>1, <2>2, <2>3, <2>4, <2>5, <2>6 DEF WriterStep
<1> QED
  BY <1>1, <1>2, <1>3, <1>4 DEF Next

-----------------------------------------------------------------------------
(* Theorems *)

\* JournalInv holds in every state: it is what keeps every promise below.
THEOREM InvariantHolds == Spec => []JournalInv
<1>1. JournalInv /\ [Next]_vars => JournalInv'
  BY StepInv
<1> QED
  BY <1>1, InitInv, PTL DEF Spec

\* Every variable of the journal keeps its type.
THEOREM TypeCorrect == Spec => []TypeOK
<1>1. JournalInv => TypeOK
  BY DEF JournalInv
<1> QED
  BY <1>1, InvariantHolds, PTL

\* No acknowledged record is ever lost: JournalWriter.append's promise.
THEOREM AcknowledgedIsDurable == Spec => []AckedDurable
<1>1. JournalInv => AckedDurable
  BY DEF JournalInv
<1> QED
  BY <1>1, InvariantHolds, PTL

\* No file of the session ever holds what scanJournal takes for corruption.
THEOREM FilesAlwaysScan == Spec => []AlwaysScans
<1>1. JournalInv => AlwaysScans
  BY ConstantsAssumption DEF JournalInv, AlwaysScans, FilesDense, TypeOK, FileIds
<1> QED
  BY <1>1, InvariantHolds, PTL

\* A writer appends to the file the journal's path names, after repairs too.
THEOREM AppendsReachPath == Spec => []AppendsReachNamedFile
<1>1. JournalInv => AppendsReachNamedFile
  BY DEF JournalInv, AppendsReachNamedFile, HandleNamed
<1> QED
  BY <1>1, InvariantHolds, PTL

\* A repair publishes its replacement only after the damaged file was saved.
THEOREM RepairsKeepBackups == Spec => BackupBeforeRepair
<1> DEFINE Kept == (journal # 0 /\ journal' # journal /\ powerLosses' = powerLosses)
                     => files[journal] \in backups
<1>1. ASSUME JournalInv, [Next]_vars PROVE Kept
  <2>1. CASE \E w \in Writers : RepairRename(w)
    BY <1>1, <2>1 DEF JournalInv, RepairExact, RepairRename
  <2>2. CASE PowerLoss
    BY <1>1, <2>2 DEF PowerLoss, JournalInv, TypeOK
  <2>3. CASE \E w \in Writers : OpenFile(w)
    BY <2>3 DEF OpenFile
  <2> QED
    BY <1>1, <2>1, <2>2, <2>3
    DEF Next, WriterStep, vars, fileVars, OpenLock, OpenSyncDirectory, OpenScan, OpenFail,
        RepairBackup, RepairReplace, RepairFinish, CallAppend, RefuseAppend, WriteFragment,
        WriteLine, SyncAppend, AppendFail, CallClose, Close, Crash,
        ReaderOpen, ReaderRefused, ReaderRead
<1>2. ASSUME JournalInv, [Next]_vars PROVE [Kept]_vars
  BY <1>1, <1>2
<1> QED
  BY <1>2, InvariantHolds, PTL DEF Spec, BackupBeforeRepair

-----------------------------------------------------------------------------
(* The order of the appends, and those that were refused *)

\* No append is queued twice, by one writer or by two.
IssuedOnce ==
  \A v, w \in Writers : \A i \in DOMAIN issued[v], k \in DOMAIN issued[w] :
    issued[v][i] = issued[w][k] => v = w /\ i = k

\* What is queued is the end of what was issued.
QueueIsTail ==
  \A w \in Writers :
    /\ Len(queue[w]) <= Len(issued[w])
    /\ \A i \in 1 .. Len(queue[w]) :
         /\ queue[w][i] = issued[w][Len(issued[w]) - Len(queue[w]) + i]
         /\ outcome[queue[w][i]] = "queued"

IssuedAsked ==
  \A w \in Writers : \A i \in DOMAIN issued[w] : outcome[issued[w][i]] # "unasked"

\* The appends of w that can be in a file are the first so many.
Reached(w) ==
  LET settled == Len(issued[w]) - Len(queue[w])
  IN  IF step[w] = "written" THEN settled + 1 ELSE settled

\* A record is a repair's, or that of an append reached and not refused.
FilesReached ==
  \A f \in FileIds : \A n \in DOMAIN files[f].recs :
    LET e == files[f].recs[n].entry
    IN  \/ e = Repair
        \/ /\ outcome[e] # "refused"
           /\ \E w \in Writers : \E k \in DOMAIN issued[w] : issued[w][k] = e /\ k <= Reached(w)

Ordered(recs) ==
  \A w \in Writers : \A i, j \in DOMAIN issued[w] : \A m, n \in DOMAIN recs :
    i <= j /\ recs[m].entry = issued[w][i] /\ recs[n].entry = issued[w][j]
      => m <= n /\ (i = j => m = n)

FilesOrdered == \A f \in FileIds : Ordered(files[f].recs)

HistoryInv == IssuedOnce /\ QueueIsTail /\ IssuedAsked /\ FilesReached /\ FilesOrdered

\* Every file holds, at their places, records some file held, and repairs.
FilesFrom ==
  \A f \in FileIds : \E g \in FileIds : \A n \in DOMAIN files'[f].recs :
    \/ files'[f].recs[n].entry = Repair
    \/ n \in DOMAIN files[g].recs /\ files'[f].recs[n].entry = files[g].recs[n].entry

Unwritten(e) == \A f \in FileIds : \A n \in DOMAIN files[f].recs : files[f].recs[n].entry # e

LEMMA IssuedTypes ==
  ASSUME TypeOK, NEW w \in Writers
  PROVE  /\ issued[w] \in Seq(Entries) /\ Len(issued[w]) \in Nat
         /\ DOMAIN issued[w] = 1 .. Len(issued[w])
         /\ \A i \in DOMAIN issued[w] : issued[w][i] \in Entries /\ issued[w][i] # Repair
         /\ queue[w] \in Seq(Entries) /\ Len(queue[w]) \in Nat
BY ConstantsAssumption DEF TypeOK

\* A step that issues nothing and writes no new append.
LEMMA HistoryKept ==
  ASSUME TypeOK, HistoryInv, issued' = issued, FilesFrom, QueueIsTail',
         \A w \in Writers : \A k \in DOMAIN issued[w] : k <= Reached(w) => k <= Reached(w)',
         \A e \in Entries : outcome'[e] \in {"unasked", "refused"} =>
           outcome'[e] = outcome[e] \/ (outcome'[e] = "refused" /\ Unwritten(e))
  PROVE  HistoryInv'
<1>1. IssuedOnce' /\ IssuedAsked'
  BY IssuedTypes DEF HistoryInv, IssuedOnce, IssuedAsked
<1>2. FilesReached'
  <2> SUFFICES ASSUME NEW f \in FileIds, NEW n \in DOMAIN files'[f].recs,
                      files'[f].recs[n].entry # Repair
               PROVE  /\ outcome'[files'[f].recs[n].entry] # "refused"
                      /\ \E w \in Writers : \E k \in DOMAIN issued[w] :
                           issued[w][k] = files'[f].recs[n].entry /\ k <= Reached(w)'
    BY DEF FilesReached
  <2>1. PICK g \in FileIds : \A m \in DOMAIN files'[f].recs :
          \/ files'[f].recs[m].entry = Repair
          \/ m \in DOMAIN files[g].recs /\ files'[f].recs[m].entry = files[g].recs[m].entry
    BY DEF FilesFrom
  <2> DEFINE e == files'[f].recs[n].entry
  <2>2. n \in DOMAIN files[g].recs /\ e = files[g].recs[n].entry
    BY <2>1
  <2>3. /\ outcome[e] # "refused"
        /\ \E w \in Writers : \E k \in DOMAIN issued[w] : issued[w][k] = e /\ k <= Reached(w)
    BY <2>2 DEF HistoryInv, FilesReached
  <2>4. e \in Entries /\ ~ Unwritten(e)
    BY <2>2, <2>3, IssuedTypes DEF Unwritten
  <2> HIDE DEF e
  <2>5. outcome'[e] # "refused"
    BY <2>3, <2>4
  <2> QED
    BY <2>3, <2>5 DEF e
<1>3. FilesOrdered'
  <2> SUFFICES ASSUME NEW f \in FileIds, NEW w \in Writers,
                      NEW i \in DOMAIN issued[w], NEW j \in DOMAIN issued[w],
                      NEW m \in DOMAIN files'[f].recs, NEW n \in DOMAIN files'[f].recs,
                      i <= j, files'[f].recs[m].entry = issued[w][i],
                      files'[f].recs[n].entry = issued[w][j]
               PROVE  m <= n /\ (i = j => m = n)
    BY DEF FilesOrdered, Ordered
  <2>1. PICK g \in FileIds : \A k \in DOMAIN files'[f].recs :
          \/ files'[f].recs[k].entry = Repair
          \/ k \in DOMAIN files[g].recs /\ files'[f].recs[k].entry = files[g].recs[k].entry
    BY DEF FilesFrom
  <2>2. issued[w][i] # Repair /\ issued[w][j] # Repair
    BY IssuedTypes
  <2>3. /\ m \in DOMAIN files[g].recs /\ files[g].recs[m].entry = issued[w][i]
        /\ n \in DOMAIN files[g].recs /\ files[g].recs[n].entry = issued[w][j]
    BY <2>1, <2>2
  <2> QED
    BY <2>3 DEF HistoryInv, FilesOrdered, Ordered
<1> QED
  BY <1>1, <1>2, <1>3 DEF HistoryInv

LEMMA SameFiles ==
  ASSUME \A f \in FileIds : files'[f].recs = files[f].recs
  PROVE  FilesFrom
BY DEF FilesFrom

\* Opening, repairing, reading: nothing of an append moves.
LEMMA QuietHistory ==
  ASSUME TypeOK, HistoryInv, FilesFrom, UNCHANGED <<issued, queue, outcome>>,
         \A w \in Writers : step'[w] = "written" <=> step[w] = "written"
  PROVE  HistoryInv'
<1>1. QueueIsTail'
  BY DEF HistoryInv, QueueIsTail
<1>2. \A w \in Writers : Reached(w)' = Reached(w)
  BY DEF Reached
<1> QED
  BY <1>1, <1>2, HistoryKept

\* A writer goes, and its queue with it.
LEMMA LeaveHistory ==
  ASSUME JournalInv, HistoryInv, FilesFrom, UNCHANGED issued,
         \A w \in Writers : \/ queue'[w] = <<>>
                            \/ queue[w] = <<>> /\ queue'[w] = queue[w] /\ step'[w] = step[w],
         \A e \in Entries : outcome'[e] = outcome[e] \/ outcome'[e] = "lost"
  PROVE  HistoryInv'
<1>1. TypeOK
  BY DEF JournalInv
<1>2. \A w \in Writers : queue'[w] = <<>> /\ Len(queue'[w]) = 0
  OBVIOUS
<1>2a. \A w \in Writers : /\ Len(issued[w]) \in Nat /\ DOMAIN issued[w] = 1 .. Len(issued[w])
                         /\ Len(issued'[w]) = Len(issued[w])
  BY <1>1, IssuedTypes
<1>3. QueueIsTail'
  <2> SUFFICES ASSUME NEW w \in Writers
               PROVE  /\ Len(queue'[w]) <= Len(issued'[w])
                      /\ \A i \in 1 .. Len(queue'[w]) : FALSE
    BY Zenon DEF QueueIsTail
  <2>1. Len(queue'[w]) = 0 /\ Len(issued'[w]) \in Nat
    BY <1>2, <1>2a
  <2> QED
    BY <2>1
<1>4. ASSUME NEW w \in Writers, NEW k \in DOMAIN issued[w] PROVE k <= Reached(w)'
  <2>1. Len(queue'[w]) = 0 /\ issued'[w] = issued[w] /\ Len(issued[w]) \in Nat
    BY <1>2, <1>2a
  <2>2. Reached(w)' = Len(issued[w]) \/ Reached(w)' = Len(issued[w]) + 1
    BY <2>1 DEF Reached
  <2> QED
    BY <1>2a, <2>2
<1> QED
  BY <1>1, <1>3, <1>4, HistoryKept

\* The arithmetic of places in a queue of b appends out of a.
LEMMA Places ==
  \A a, b \in Nat : b >= 1 /\ b <= a =>
    /\ 1 \in 1 .. b /\ a - b + 1 \in 1 .. a /\ a - b + 1 \in Nat /\ (a - b + 1) - 1 = a - b
    /\ b - 1 <= a /\ a - (b - 1) = a - b + 1
    /\ \A i \in 1 .. b - 1 : /\ i + 1 \in 1 .. b /\ a - b + (i + 1) \in 1 .. a
                             /\ a - b + (i + 1) # a - b + 1
                             /\ \A c : c = b - 1 => a - b + (i + 1) = a - c + i
OBVIOUS

\* The append at the head of the queue is the first one not settled; no other is it.
First(w) == Len(issued[w]) - Len(queue[w]) + 1

LEMMA HeadIssued ==
  ASSUME JournalInv, HistoryInv, NEW w \in Writers, queue[w] # <<>>
  PROVE  /\ First(w) \in DOMAIN issued[w] /\ First(w) \in Nat
         /\ issued[w][First(w)] = Head(queue[w])
         /\ outcome[Head(queue[w])] = "queued" /\ Head(queue[w]) \in Entries
         /\ \A v \in Writers : v # w => queue[v] = <<>>
         /\ \A v \in Writers : \A k \in DOMAIN issued[v] :
              issued[v][k] = Head(queue[w]) => v = w /\ k = First(w)
         /\ step[w] = "written" => Reached(w) = First(w)
         /\ step[w] # "written" => Reached(w) = First(w) - 1
<1>1. TypeOK /\ OneHolder
  BY DEF JournalInv
<1>2. /\ Len(issued[w]) \in Nat /\ DOMAIN issued[w] = 1 .. Len(issued[w])
      /\ queue[w] \in Seq(Entries)
  BY <1>1, IssuedTypes
<1>3. /\ Len(queue[w]) \in Nat /\ Len(queue[w]) >= 1 /\ Head(queue[w]) = queue[w][1]
      /\ Head(queue[w]) \in Entries
  BY <1>2
<1>4. /\ Len(queue[w]) <= Len(issued[w]) /\ 1 \in 1 .. Len(queue[w])
      /\ \A i \in 1 .. Len(queue[w]) :
           /\ queue[w][i] = issued[w][Len(issued[w]) - Len(queue[w]) + i]
           /\ outcome[queue[w][i]] = "queued"
  <2>1. /\ Len(queue[w]) <= Len(issued[w])
        /\ \A i \in 1 .. Len(queue[w]) :
             /\ queue[w][i] = issued[w][Len(issued[w]) - Len(queue[w]) + i]
             /\ outcome[queue[w][i]] = "queued"
    BY DEF HistoryInv, QueueIsTail
  <2> QED
    BY <1>2, <1>3, <2>1, Places
<1>5. First(w) \in 1 .. Len(issued[w]) /\ First(w) \in Nat
  BY <1>2, <1>3, <1>4, Places, Zenon DEF First
<1>6. issued[w][First(w)] = Head(queue[w]) /\ outcome[Head(queue[w])] = "queued"
  BY <1>3, <1>4 DEF First
<1>7. \A v \in Writers : v # w => queue[v] = <<>>
  <2>1. pc[w] # "closed"
    BY <1>1 DEF OneHolder, Writable
  <2> QED
    BY <1>1, <2>1 DEF OneHolder, Writable
<1>8. ASSUME NEW v \in Writers, NEW k \in DOMAIN issued[v], issued[v][k] = Head(queue[w])
      PROVE  v = w /\ k = First(w)
  BY <1>2, <1>5, <1>6, <1>8 DEF HistoryInv, IssuedOnce
<1>9. /\ step[w] = "written" => Reached(w) = First(w)
      /\ step[w] # "written" => Reached(w) = First(w) - 1
  BY <1>2, <1>3, <1>4, Places, Zenon DEF Reached, First
<1> QED
  BY <1>2, <1>3, <1>5, <1>6, <1>7, <1>8, <1>9

LEMMA HeadUnwritten ==
  ASSUME JournalInv, HistoryInv, NEW w \in Writers, queue[w] # <<>>, step[w] # "written"
  PROVE  Unwritten(Head(queue[w]))
<1> DEFINE e == Head(queue[w])
<1>1. /\ First(w) \in Nat /\ e \in Entries /\ Reached(w) = First(w) - 1
      /\ \A v \in Writers : \A k \in DOMAIN issued[v] :
           issued[v][k] = e => v = w /\ k = First(w)
  BY HeadIssued
<1>2. e # Repair
  BY <1>1, ConstantsAssumption
<1> HIDE DEF e
<1>3. ASSUME NEW v \in Writers, NEW k \in DOMAIN issued[v], issued[v][k] = e, k <= Reached(v)
      PROVE  FALSE
  <2>1. v = w /\ k = First(w)
    BY <1>1, <1>3
  <2> QED
    BY <1>1, <1>3, <2>1
<1>4. ASSUME NEW f \in FileIds, NEW n \in DOMAIN files[f].recs, files[f].recs[n].entry = e
      PROVE  FALSE
  BY <1>2, <1>3, <1>4 DEF HistoryInv, FilesReached
<1> QED
  BY <1>4 DEF Unwritten, e

\* Without its head the rest of a queue keeps its places.
Shrunk(s, q, p) ==
  /\ Len(p) <= Len(s)
  /\ \A i \in 1 .. Len(p) :
       LET k == Len(s) - Len(p) + i
       IN  /\ i + 1 \in 1 .. Len(q) /\ p[i] = q[i + 1]
           /\ p[i] = s[k] /\ k \in 1 .. Len(s) /\ k # Len(s) - Len(q) + 1

LEMMA TailPlaces ==
  ASSUME NEW s \in Seq(Entries), NEW q \in Seq(Entries), q # <<>>, Len(q) <= Len(s),
         \A i \in 1 .. Len(q) : q[i] = s[Len(s) - Len(q) + i]
  PROVE  Shrunk(s, q, Tail(q))
<1>1. PICK a \in Nat : a = Len(s)
  OBVIOUS
<1>2. PICK b \in Nat : b = Len(q)
  OBVIOUS
<1>3. b >= 1 /\ b <= a /\ Len(Tail(q)) = b - 1
  BY <1>1, <1>2
<1>4. \A i \in 1 .. b - 1 : /\ i + 1 \in 1 .. b /\ Tail(q)[i] = q[i + 1]
  BY <1>2
<1>5. \A i \in 1 .. b : q[i] = s[a - b + i]
  BY <1>1, <1>2
<1>6. \A i \in 1 .. b - 1 : /\ a - b + (i + 1) = a - (b - 1) + i /\ a - (b - 1) + i \in 1 .. a
                           /\ a - (b - 1) + i # a - b + 1
  BY <1>3
<1>7. \A i \in 1 .. b - 1 : Tail(q)[i] = s[a - (b - 1) + i]
  BY <1>4, <1>5, <1>6
<1>8. b - 1 <= a
  BY <1>3
<1> QED
  BY <1>1, <1>2, <1>3, <1>4, <1>6, <1>7, <1>8 DEF Shrunk

LEMMA SettleHistory ==
  ASSUME JournalInv, HistoryInv, NEW w \in Writers, queue[w] # <<>>,
         NEW how \in {"acked", "uncertain", "refused"}, Settle(w, how), FilesFrom,
         issued' = issued, how = "refused" => step[w] # "written"
  PROVE  HistoryInv'
<1>1. /\ First(w) \in DOMAIN issued[w] /\ First(w) \in Nat
      /\ issued[w][First(w)] = Head(queue[w])
      /\ Head(queue[w]) \in Entries
      /\ \A v \in Writers : v # w => queue[v] = <<>>
      /\ \A v \in Writers : \A k \in DOMAIN issued[v] :
           issued[v][k] = Head(queue[w]) => v = w /\ k = First(w)
      /\ step[w] = "written" => Reached(w) = First(w)
      /\ step[w] # "written" => Reached(w) = First(w) - 1
  BY HeadIssued
<1>2. TypeOK
  BY DEF JournalInv
<1>3. /\ Len(issued[w]) \in Nat /\ DOMAIN issued[w] = 1 .. Len(issued[w])
      /\ queue[w] \in Seq(Entries)
  BY <1>2, IssuedTypes
<1>4. /\ Len(queue[w]) \in Nat /\ Len(queue[w]) >= 1 /\ Len(Tail(queue[w])) = Len(queue[w]) - 1
      /\ \A i \in 1 .. Len(queue[w]) - 1 : Tail(queue[w])[i] = queue[w][i + 1]
      /\ \A i \in 1 .. Len(queue[w]) : queue[w][i] \in Entries
  BY <1>3
<1>5. /\ Len(queue[w]) <= Len(issued[w])
      /\ \A i \in 1 .. Len(queue[w]) :
           /\ queue[w][i] = issued[w][Len(issued[w]) - Len(queue[w]) + i]
           /\ outcome[queue[w][i]] = "queued"
  BY DEF HistoryInv, QueueIsTail
<1>6. /\ queue'[w] = Tail(queue[w]) /\ step'[w] = "idle"
      /\ \A v \in Writers : v # w => queue'[v] = queue[v] /\ step'[v] = step[v]
      /\ outcome'[Head(queue[w])] = how
      /\ \A e \in Entries : e # Head(queue[w]) => outcome'[e] = outcome[e]
  BY <1>1, <1>2 DEF Settle, TypeOK
<1>7. QueueIsTail'
  <2> SUFFICES ASSUME NEW v \in Writers
               PROVE  /\ Len(queue'[v]) <= Len(issued[v])
                      /\ \A i \in 1 .. Len(queue'[v]) :
                           /\ queue'[v][i] = issued[v][Len(issued[v]) - Len(queue'[v]) + i]
                           /\ outcome'[queue'[v][i]] = "queued"
    BY DEF QueueIsTail
  <2>1. CASE v # w
    <3>1. Len(queue'[v]) = 0
      BY <1>1, <1>6, <2>1
    <3>2. Len(issued[v]) \in Nat
      BY <1>2, IssuedTypes
    <3> QED
      BY <3>1, <3>2
  <2>2. CASE v = w
    <3>0. Shrunk(issued[w], queue[w], queue'[w])
      <4>1. issued[w] \in Seq(Entries)
        BY <1>2, IssuedTypes
      <4> QED
        BY <1>3, <1>5, <1>6, <4>1, TailPlaces, Zenon
    <3>2. ASSUME NEW i \in 1 .. Len(queue'[w])
          PROVE  /\ queue'[w][i] = issued[w][Len(issued[w]) - Len(queue'[w]) + i]
                 /\ outcome'[queue'[w][i]] = "queued"
      <4>1. PICK k : k = Len(issued[w]) - Len(queue'[w]) + i
        OBVIOUS
      <4>2. /\ i + 1 \in 1 .. Len(queue[w]) /\ queue'[w][i] = queue[w][i + 1]
            /\ queue'[w][i] = issued[w][k] /\ k \in 1 .. Len(issued[w]) /\ k # First(w)
        BY <3>0, <4>1, Zenon DEF Shrunk, First
      <4>3. outcome[queue'[w][i]] = "queued" /\ queue'[w][i] \in Entries
        BY <1>4, <1>5, <4>2
      <4>4. queue'[w][i] # Head(queue[w])
        BY <1>1, <1>3, <4>2
      <4>5. outcome'[queue'[w][i]] = "queued"
        BY <1>6, <4>3, <4>4
      <4> QED
        BY <4>1, <4>2, <4>5, Zenon
    <3>3. Len(queue'[w]) <= Len(issued[w])
      BY <3>0, Zenon DEF Shrunk
    <3> QED
      BY <2>2, <3>2, <3>3, Zenon
  <2> QED
    BY <2>1, <2>2
<1>8. ASSUME NEW v \in Writers, NEW k \in DOMAIN issued[v], k <= Reached(v)
      PROVE  k <= Reached(v)'
  <2>1. CASE v # w
    <3>1. Reached(v)' = Reached(v)
      BY <1>6, <2>1 DEF Reached
    <3> QED
      BY <1>8, <3>1
  <2>2. CASE v = w
    <3>1. Reached(w)' = Len(issued[w]) - (Len(queue[w]) - 1)
      BY <1>4, <1>6 DEF Reached
    <3>2. Reached(w)' = First(w)
      BY <1>3, <1>4, <1>5, <3>1, Places, Zenon DEF First
    <3>3. k \in Nat
      BY <1>3, <2>2
    <3> QED
      BY <1>1, <1>8, <2>2, <3>2, <3>3
  <2> QED
    BY <2>1, <2>2
<1>9. \A e \in Entries : outcome'[e] \in {"unasked", "refused"} =>
        outcome'[e] = outcome[e] \/ (outcome'[e] = "refused" /\ Unwritten(e))
  <2>1. how = "refused" => Unwritten(Head(queue[w]))
    BY HeadUnwritten
  <2> QED
    BY <1>6, <2>1
<1> QED
  BY <1>2, <1>7, <1>8, <1>9, HistoryKept

\* An append nobody asked for yet is nowhere.
LEMMA UnaskedNowhere ==
  ASSUME TypeOK, HistoryInv, NEW e \in Entries, outcome[e] = "unasked"
  PROVE  /\ Unwritten(e)
         /\ \A w \in Writers : \A i \in DOMAIN issued[w] : issued[w][i] # e
         /\ \A w \in Writers : \A i \in 1 .. Len(queue[w]) : queue[w][i] # e
<1>1. \A w \in Writers : \A i \in DOMAIN issued[w] : issued[w][i] # e
  BY DEF HistoryInv, IssuedAsked
<1>2. \A w \in Writers : \A i \in 1 .. Len(queue[w]) : queue[w][i] # e
  BY DEF HistoryInv, QueueIsTail
<1>3. e # Repair
  BY ConstantsAssumption
<1>4. Unwritten(e)
  BY <1>1, <1>3 DEF HistoryInv, FilesReached, Unwritten
<1> QED
  BY <1>1, <1>2, <1>4

\* t and p are s and its end q with one more element x.
Grown(s, q, t, p, x) ==
  /\ Len(p) <= Len(t) /\ Len(t) - Len(p) = Len(s) - Len(q)
  /\ \A i \in DOMAIN t : \/ i \in DOMAIN s /\ t[i] = s[i]
                         \/ i = Len(s) + 1 /\ t[i] = x
  /\ \A i \in DOMAIN s : i \in DOMAIN t /\ t[i] = s[i]
  /\ \A i \in 1 .. Len(p) : /\ p[i] = t[Len(t) - Len(p) + i]
                            /\ p[i] = x \/ (i \in 1 .. Len(q) /\ p[i] = q[i])

LEMMA AppendPlaces ==
  ASSUME NEW s \in Seq(Entries), NEW q \in Seq(Entries), NEW x \in Entries,
         NEW t, t = Append(s, x), NEW p, p = Append(q, x),
         Len(q) <= Len(s), \A i \in 1 .. Len(q) : q[i] = s[Len(s) - Len(q) + i]
  PROVE  Grown(s, q, t, p, x)
<1>1. PICK a \in Nat : a = Len(s)
  OBVIOUS
<1>2. PICK b \in Nat : b = Len(q)
  OBVIOUS
<1>3. /\ Len(t) = a + 1 /\ Len(p) = b + 1 /\ b <= a
      /\ DOMAIN t = 1 .. a + 1 /\ DOMAIN s = 1 .. a
      /\ \A i \in 1 .. a : t[i] = s[i]
      /\ \A i \in 1 .. b : p[i] = q[i]
      /\ t[a + 1] = x /\ p[b + 1] = x
  BY <1>1, <1>2
<1>4. \A i \in 1 .. b : q[i] = s[a - b + i]
  BY <1>1, <1>2
<1>5. ASSUME NEW i \in 1 .. b + 1
      PROVE  /\ p[i] = t[(a + 1) - (b + 1) + i]
             /\ p[i] = x \/ (i \in 1 .. b /\ p[i] = q[i])
  <2>1. CASE i = b + 1
    <3>1. (a + 1) - (b + 1) + i = a + 1
      BY <1>3, <2>1
    <3>2. p[b + 1] = x /\ t[a + 1] = x
      BY <1>3, Zenon
    <3>3. p[i] = x
      BY <2>1, <3>2, Zenon
    <3> QED
      BY <3>1, <3>2, <3>3, Zenon
  <2>2. CASE i \in 1 .. b
    <3>1. (a + 1) - (b + 1) + i = a - b + i /\ a - b + i \in 1 .. a
      BY <1>3, <2>2
    <3> QED
      BY <1>3, <1>4, <2>2, <3>1, Zenon
  <2>3. i = b + 1 \/ i \in 1 .. b
    OBVIOUS
  <2> QED
    BY <2>1, <2>2, <2>3, Zenon
<1>6. /\ \A i \in 1 .. a + 1 : i \in 1 .. a \/ i = a + 1
      /\ \A i \in 1 .. a : i \in 1 .. a + 1
      /\ (a + 1) - (b + 1) = a - b /\ b + 1 <= a + 1
  BY <1>3
<1> QED
  BY <1>1, <1>2, <1>3, <1>5, <1>6, Zenon DEF Grown

LEMMA CallAppendHistory ==
  ASSUME JournalInv, HistoryInv, NEW w \in Writers, NEW e \in Entries, CallAppend(w, e)
  PROVE  HistoryInv'
<1>1. TypeOK
  BY DEF JournalInv
<1>2. /\ outcome[e] = "unasked" /\ Unwritten(e)
      /\ \A v \in Writers : \A i \in DOMAIN issued[v] : issued[v][i] # e
      /\ \A v \in Writers : \A i \in 1 .. Len(queue[v]) : queue[v][i] # e
  BY <1>1, UnaskedNowhere DEF CallAppend
<1>3. /\ UNCHANGED <<files, step>> /\ outcome'[e] \in {"queued", "refused"}
      /\ \A x \in Entries : x # e => outcome'[x] = outcome[x]
  BY <1>1 DEF CallAppend, TypeOK, fileVars
<1>4. CASE UNCHANGED <<queue, issued>>
  <2>1. \A v \in Writers : Reached(v)' = Reached(v)
    BY <1>3, <1>4 DEF Reached
  <2>2. \A v \in Writers : \A i \in 1 .. Len(queue[v]) : outcome'[queue[v][i]] = "queued"
    <3> SUFFICES ASSUME NEW v \in Writers, NEW i \in 1 .. Len(queue[v])
                 PROVE  outcome'[queue[v][i]] = "queued"
      OBVIOUS
    <3>1. queue[v][i] \in Entries /\ queue[v][i] # e
      BY <1>1, <1>2, IssuedTypes
    <3>2. outcome[queue[v][i]] = "queued"
      BY DEF HistoryInv, QueueIsTail
    <3> QED
      BY <1>3, <3>1, <3>2
  <2>3. QueueIsTail'
    BY <1>4, <2>2, Zenon DEF HistoryInv, QueueIsTail
  <2>4. FilesFrom
    BY <1>3, SameFiles
  <2> QED
    BY <1>1, <1>2, <1>3, <1>4, <2>1, <2>3, <2>4, HistoryKept
<1>5. CASE /\ queue' = [queue EXCEPT ![w] = Append(@, e)]
           /\ issued' = [issued EXCEPT ![w] = Append(@, e)]
           /\ outcome' = [outcome EXCEPT ![e] = "queued"]
  <2>1. /\ queue'[w] = Append(queue[w], e) /\ issued'[w] = Append(issued[w], e)
        /\ \A v \in Writers : v # w => queue'[v] = queue[v] /\ issued'[v] = issued[v]
        /\ outcome'[e] = "queued"
    BY <1>1, <1>5 DEF TypeOK
  <2>2. /\ Len(queue'[w]) <= Len(issued'[w])
        /\ Len(issued'[w]) - Len(queue'[w]) = Len(issued[w]) - Len(queue[w])
        /\ \A i \in DOMAIN issued'[w] : \/ i \in DOMAIN issued[w] /\ issued'[w][i] = issued[w][i]
                                        \/ i = Len(issued[w]) + 1 /\ issued'[w][i] = e
        /\ \A i \in DOMAIN issued[w] : i \in DOMAIN issued'[w] /\ issued'[w][i] = issued[w][i]
        /\ \A i \in 1 .. Len(queue'[w]) :
             /\ queue'[w][i] = issued'[w][Len(issued'[w]) - Len(queue'[w]) + i]
             /\ queue'[w][i] = e \/ (i \in 1 .. Len(queue[w]) /\ queue'[w][i] = queue[w][i])
    <3>1. issued[w] \in Seq(Entries) /\ queue[w] \in Seq(Entries)
      BY <1>1, IssuedTypes
    <3>2. /\ Len(queue[w]) <= Len(issued[w])
          /\ \A i \in 1 .. Len(queue[w]) :
               queue[w][i] = issued[w][Len(issued[w]) - Len(queue[w]) + i]
      BY DEF HistoryInv, QueueIsTail
    <3>3. Grown(issued[w], queue[w], issued'[w], queue'[w], e)
      BY <2>1, <3>1, <3>2, AppendPlaces, Zenon
    <3> QED
      BY <3>3, Zenon DEF Grown
  <2>3. \A v \in Writers : Reached(v)' = Reached(v)
    BY <1>3, <2>1, <2>2 DEF Reached
  <2>4. \A v \in Writers : \A i \in DOMAIN issued'[v] :
          \/ i \in DOMAIN issued[v] /\ issued'[v][i] = issued[v][i] /\ issued[v][i] # e
          \/ v = w /\ i = Len(issued[w]) + 1 /\ issued'[v][i] = e
    BY <1>2, <2>1, <2>2
  <2>5. IssuedOnce'
    BY <2>4 DEF HistoryInv, IssuedOnce
  <2>6. QueueIsTail'
    <3> SUFFICES ASSUME NEW v \in Writers
                 PROVE  /\ Len(queue'[v]) <= Len(issued'[v])
                        /\ \A i \in 1 .. Len(queue'[v]) :
                             /\ queue'[v][i] = issued'[v][Len(issued'[v]) - Len(queue'[v]) + i]
                             /\ outcome'[queue'[v][i]] = "queued"
      BY Zenon DEF QueueIsTail
    <3>1. /\ Len(queue[v]) <= Len(issued[v])
          /\ \A i \in 1 .. Len(queue[v]) :
               /\ queue[v][i] = issued[v][Len(issued[v]) - Len(queue[v]) + i]
               /\ outcome[queue[v][i]] = "queued"
      BY DEF HistoryInv, QueueIsTail
    <3>2. \A i \in 1 .. Len(queue[v]) : outcome'[queue[v][i]] = "queued"
      <4> SUFFICES ASSUME NEW i \in 1 .. Len(queue[v]) PROVE outcome'[queue[v][i]] = "queued"
        OBVIOUS
      <4>1. queue[v][i] \in Entries
        BY <1>1, IssuedTypes
      <4> QED
        BY <1>2, <1>3, <3>1, <4>1
    <3>3. CASE v = w
      <4>1. ASSUME NEW i \in 1 .. Len(queue'[w])
            PROVE  outcome'[queue'[w][i]] = "queued"
        <5>1. CASE queue'[w][i] = e
          BY <2>1, <5>1, Zenon
        <5>2. CASE i \in 1 .. Len(queue[w]) /\ queue'[w][i] = queue[w][i]
          BY <3>2, <3>3, <5>2, Zenon
        <5> QED
          BY <2>2, <5>1, <5>2, Zenon
      <4> QED
        BY <2>2, <3>3, <4>1, Zenon
    <3>4. CASE v # w
      <4>1. queue'[v] = queue[v] /\ issued'[v] = issued[v]
        BY <2>1, <3>4, Zenon
      <4> QED
        BY <3>1, <3>2, <4>1, Zenon
    <3> QED
      BY <3>3, <3>4
  <2>7. IssuedAsked'
    <3> SUFFICES ASSUME NEW v \in Writers, NEW i \in DOMAIN issued'[v]
                 PROVE  outcome'[issued'[v][i]] # "unasked"
      BY DEF IssuedAsked
    <3>1. CASE issued'[v][i] = e
      BY <2>1, <3>1
    <3>2. CASE i \in DOMAIN issued[v] /\ issued'[v][i] = issued[v][i] /\ issued[v][i] # e
      BY <1>1, <1>3, <3>2, IssuedTypes DEF HistoryInv, IssuedAsked
    <3> QED
      BY <2>4, <3>1, <3>2
  <2>8. \A v \in Writers : \A i \in DOMAIN issued[v] :
          i \in DOMAIN issued'[v] /\ issued'[v][i] = issued[v][i]
    BY <2>1, <2>2
  <2>9. FilesReached'
    <3> SUFFICES ASSUME NEW f \in FileIds, NEW n \in DOMAIN files[f].recs,
                        files[f].recs[n].entry # Repair
                 PROVE  /\ outcome'[files[f].recs[n].entry] # "refused"
                        /\ \E v \in Writers : \E k \in DOMAIN issued'[v] :
                             issued'[v][k] = files[f].recs[n].entry /\ k <= Reached(v)'
      BY <1>3 DEF FilesReached
    <3> DEFINE x == files[f].recs[n].entry
    <3>1. outcome[x] # "refused" /\ x # e
      BY <1>2 DEF HistoryInv, FilesReached, Unwritten
    <3>2. PICK v \in Writers : \E k \in DOMAIN issued[v] : issued[v][k] = x /\ k <= Reached(v)
      BY DEF HistoryInv, FilesReached
    <3>2a. PICK k \in DOMAIN issued[v] : issued[v][k] = x /\ k <= Reached(v)
      BY <3>2
    <3>3. x \in Entries
      BY <1>1, <3>2a, IssuedTypes
    <3> HIDE DEF x
    <3>4. outcome'[x] # "refused"
      BY <1>3, <3>1, <3>3
    <3>5. k \in DOMAIN issued'[v] /\ issued'[v][k] = x /\ k <= Reached(v)'
      BY <2>3, <2>8, <3>2a
    <3> QED
      BY <3>4, <3>5 DEF x
  <2>10. FilesOrdered'
    <3> SUFFICES ASSUME NEW f \in FileIds, NEW v \in Writers,
                        NEW i \in DOMAIN issued'[v], NEW j \in DOMAIN issued'[v],
                        NEW m \in DOMAIN files[f].recs, NEW n \in DOMAIN files[f].recs,
                        i <= j, files[f].recs[m].entry = issued'[v][i],
                        files[f].recs[n].entry = issued'[v][j]
                 PROVE  m <= n /\ (i = j => m = n)
      BY <1>3 DEF FilesOrdered, Ordered
    <3>1. issued'[v][i] # e /\ issued'[v][j] # e
      BY <1>2 DEF Unwritten
    <3>2. /\ i \in DOMAIN issued[v] /\ issued'[v][i] = issued[v][i]
          /\ j \in DOMAIN issued[v] /\ issued'[v][j] = issued[v][j]
      BY <2>4, <3>1
    <3> QED
      BY <3>2 DEF HistoryInv, FilesOrdered, Ordered
  <2> QED
    BY <2>5, <2>6, <2>7, <2>9, <2>10 DEF HistoryInv
<1> QED
  BY <1>4, <1>5 DEF CallAppend

\* The line of the first append not settled goes behind all the others.
LEMMA WriteLineHistory ==
  ASSUME JournalInv, HistoryInv, NEW w \in Writers, WriteLine(w)
  PROVE  HistoryInv'
<1> DEFINE f == files[journal]
           e == Head(queue[w])
           r == RecordOf(e, seq[w] + 1)
<1>1. TypeOK /\ step[w] = "writing"
  BY DEF JournalInv, WriteLine
<1>2. /\ handle[w] = journal /\ journal \in 1 .. created /\ f.tail = "torn"
      /\ queue[w] # <<>>
  BY <1>1 DEF JournalInv, OneHolder, HandleNamed, AppendExact, FailedIsIdle, TypeOK, Writable
<1>3. journal \in FileIds /\ f.recs \in Seq(Record)
  BY <1>1, <1>2, FileFacts
<1>4. /\ First(w) \in DOMAIN issued[w] /\ First(w) \in Nat /\ issued[w][First(w)] = e
      /\ outcome[e] = "queued" /\ e \in Entries /\ Reached(w) = First(w) - 1
      /\ \A v \in Writers : \A k \in DOMAIN issued[v] :
           issued[v][k] = e => v = w /\ k = First(w)
  BY <1>1, <1>2, HeadIssued, Zenon
<1>5. Unwritten(e)
  BY <1>1, <1>2, HeadUnwritten
<1>6. /\ UNCHANGED <<queue, issued, outcome>>
      /\ files' = [files EXCEPT ![journal] =
                     [recs |-> Append(f.recs, r), tail |-> "none", durable |-> f.durable]]
      /\ step' = [step EXCEPT ![w] = "written"]
  BY <1>2 DEF WriteLine, WithLine, callVars
<1>7. /\ step'[w] = "written" /\ \A v \in Writers : v # w => step'[v] = step[v]
      /\ files'[journal].recs = Append(f.recs, r)
      /\ \A g \in FileIds : g # journal => files'[g] = files[g]
  BY <1>1, <1>3, <1>6 DEF TypeOK
<1>8. r.entry = e
  BY DEF RecordOf
<1> HIDE DEF e, r
<1>9. \A n \in DOMAIN Append(f.recs, r) :
        \/ n \in DOMAIN f.recs /\ Append(f.recs, r)[n] = f.recs[n]
        \/ n = Len(f.recs) + 1 /\ Append(f.recs, r)[n] = r
  BY <1>3
<1>10. \A g \in FileIds : \A n \in DOMAIN files'[g].recs :
         \/ n \in DOMAIN files[g].recs /\ files'[g].recs[n].entry = files[g].recs[n].entry
         \/ g = journal /\ n = Len(f.recs) + 1 /\ files'[g].recs[n].entry = e
  BY <1>7, <1>8, <1>9
<1>11. \A n \in DOMAIN f.recs : n \in Nat /\ n < Len(f.recs) + 1
  BY <1>3
<1>12. Len(f.recs) \in Nat
  BY <1>3
<1>13. (IssuedOnce /\ QueueIsTail /\ IssuedAsked)'
  BY <1>6 DEF HistoryInv, IssuedOnce, QueueIsTail, IssuedAsked
<1>14. /\ Reached(w)' = First(w)
       /\ \A v \in Writers : v # w => Reached(v)' = Reached(v)
  <2>1. Reached(w)' = Len(issued[w]) - Len(queue[w]) + 1
    BY <1>6, <1>7 DEF Reached
  <2>2. \A v \in Writers : v # w => Reached(v)' = Reached(v)
    BY <1>6, <1>7 DEF Reached
  <2> QED
    BY <2>1, <2>2, Zenon DEF First
<1>15. FilesReached'
  <2> SUFFICES ASSUME NEW g \in FileIds, NEW n \in DOMAIN files'[g].recs,
                      files'[g].recs[n].entry # Repair
               PROVE  /\ outcome[files'[g].recs[n].entry] # "refused"
                      /\ \E v \in Writers : \E k \in DOMAIN issued[v] :
                           issued[v][k] = files'[g].recs[n].entry /\ k <= Reached(v)'
    BY <1>6 DEF FilesReached
  <2>1. CASE files'[g].recs[n].entry = e
    BY <1>4, <1>14, <2>1
  <2>2. CASE n \in DOMAIN files[g].recs /\ files'[g].recs[n].entry = files[g].recs[n].entry
    <3>1. PICK x : x = files'[g].recs[n].entry
      OBVIOUS
    <3>2. /\ outcome[x] # "refused"
          /\ \E v \in Writers : \E k \in DOMAIN issued[v] : issued[v][k] = x /\ k <= Reached(v)
      BY <2>2, <3>1 DEF HistoryInv, FilesReached
    <3>3. PICK v \in Writers : \E k \in DOMAIN issued[v] : issued[v][k] = x /\ k <= Reached(v)
      BY <3>2
    <3>4. PICK k \in DOMAIN issued[v] : issued[v][k] = x /\ k <= Reached(v)
      BY <3>3
    <3>5. k <= Reached(v)'
      <4>1. CASE v = w
        <5>1. k \in Nat
          BY <1>1, IssuedTypes
        <5> QED
          BY <1>4, <1>14, <3>4, <4>1, <5>1
      <4>2. CASE v # w
        BY <1>14, <3>4, <4>2
      <4> QED
        BY <4>1, <4>2
    <3> QED
      BY <3>1, <3>2, <3>4, <3>5
  <2> QED
    BY <1>10, <2>1, <2>2
<1>16. \A g \in FileIds : \A n \in DOMAIN files[g].recs : files[g].recs[n].entry # e
  BY <1>5 DEF Unwritten
<1>17. ASSUME NEW g \in FileIds, NEW n \in DOMAIN files[g].recs, NEW j \in DOMAIN issued[w],
              files[g].recs[n].entry = issued[w][j]
       PROVE  j < First(w)
  <2>1. issued[w][j] # Repair /\ j \in Nat
    BY <1>1, IssuedTypes
  <2>2. PICK v \in Writers : \E k \in DOMAIN issued[v] :
           issued[v][k] = issued[w][j] /\ k <= Reached(v)
    BY <1>17, <2>1 DEF HistoryInv, FilesReached
  <2>3. PICK k \in DOMAIN issued[v] : issued[v][k] = issued[w][j] /\ k <= Reached(v)
    BY <2>2
  <2>4. v = w /\ k = j
    BY <2>3 DEF HistoryInv, IssuedOnce
  <2> QED
    BY <1>4, <2>1, <2>3, <2>4
<1>18. FilesOrdered'
  <2> SUFFICES ASSUME NEW g \in FileIds, NEW v \in Writers,
                      NEW i \in DOMAIN issued[v], NEW j \in DOMAIN issued[v],
                      NEW m \in DOMAIN files'[g].recs, NEW n \in DOMAIN files'[g].recs,
                      i <= j, files'[g].recs[m].entry = issued[v][i],
                      files'[g].recs[n].entry = issued[v][j]
               PROVE  m <= n /\ (i = j => m = n)
    BY <1>6 DEF FilesOrdered, Ordered
  <2> DEFINE Old(k) == /\ k \in DOMAIN files[g].recs
                       /\ files'[g].recs[k].entry = files[g].recs[k].entry
             New(k) == g = journal /\ k = Len(f.recs) + 1 /\ files'[g].recs[k].entry = e
  <2>1. (Old(m) \/ New(m)) /\ (Old(n) \/ New(n))
    BY <1>10
  <2>2. CASE Old(m) /\ Old(n)
    <3>1. /\ m \in DOMAIN files[g].recs /\ files[g].recs[m].entry = issued[v][i]
          /\ n \in DOMAIN files[g].recs /\ files[g].recs[n].entry = issued[v][j]
      BY <2>2
    <3> QED
      BY <3>1 DEF HistoryInv, FilesOrdered, Ordered
  <2>3. CASE New(m) /\ New(n)
    BY <1>12, <2>3
  <2>4. CASE Old(m) /\ New(n)
    <3>1. m < n
      BY <1>11, <1>12, <2>4
    <3>2. i # j
      BY <1>16, <2>4
    <3>3. m \in Nat /\ n \in Nat
      BY <1>11, <1>12, <2>4
    <3> QED
      BY <3>1, <3>2, <3>3
  <2>5. CASE New(m) /\ Old(n)
    <3>1. v = w /\ i = First(w)
      BY <1>4, <2>5
    <3>2. files[g].recs[n].entry = issued[w][j] /\ j \in DOMAIN issued[w]
      BY <2>5, <3>1
    <3>3. j < First(w) /\ j \in Nat
      BY <1>1, <1>17, <2>5, <3>2, IssuedTypes
    <3> QED
      BY <1>4, <3>1, <3>3
  <2> QED
    BY <2>1, <2>2, <2>3, <2>4, <2>5
<1> QED
  BY <1>13, <1>15, <1>18 DEF HistoryInv

\* The replacement of a repair holds what it replaces, and a repair record.
LEMMA RepairReplaceHistory ==
  ASSUME JournalInv, HistoryInv, NEW w \in Writers, RepairReplace(w)
  PROVE  HistoryInv'
<1> DEFINE k == created + 1
           s == files[journal].recs
           r == RecordOf(Repair, seq[w] + 1)
<1>1. TypeOK
  BY DEF JournalInv
<1>2. image[w] = files[journal] /\ journal \in 1 .. created
  BY <1>1 DEF JournalInv, HandleNamed, RepairExact, RepairReplace, TypeOK, Writable
<1>3. journal \in FileIds /\ s \in Seq(Record)
  BY <1>1, <1>2, FileFacts
<1>4. /\ files' = [files EXCEPT ![k] = Repaired(image[w], seq[w] + 1)]
      /\ UNCHANGED <<issued, queue, outcome, step>>
  BY DEF RepairReplace, callVars
<1>5. /\ \A f \in FileIds : f # k => files'[f] = files[f]
      /\ k \in FileIds => files'[k].recs = Append(s, r)
  BY <1>1, <1>2, <1>4 DEF TypeOK, Repaired, Synced
<1>6. r.entry = Repair
  BY DEF RecordOf
<1> HIDE DEF k, r
<1>7. \A n \in DOMAIN Append(s, r) : \/ Append(s, r)[n].entry = Repair
                                     \/ n \in DOMAIN s /\ Append(s, r)[n] = s[n]
  BY <1>3, <1>6
<1>8. FilesFrom
  <2> SUFFICES ASSUME NEW f \in FileIds
               PROVE  \E g \in FileIds : \A n \in DOMAIN files'[f].recs :
                        \/ files'[f].recs[n].entry = Repair
                        \/ /\ n \in DOMAIN files[g].recs
                           /\ files'[f].recs[n].entry = files[g].recs[n].entry
    BY DEF FilesFrom
  <2>1. CASE f = k
    <3>1. files'[f].recs = Append(s, r)
      BY <1>5, <2>1
    <3>2. \A n \in DOMAIN files'[f].recs :
            \/ files'[f].recs[n].entry = Repair
            \/ /\ n \in DOMAIN files[journal].recs
               /\ files'[f].recs[n].entry = files[journal].recs[n].entry
      BY <1>7, <3>1
    <3> QED
      BY <1>3, <3>2
  <2>2. CASE f # k
    BY <1>5, <2>2
  <2> QED
    BY <2>1, <2>2
<1> QED
  BY <1>1, <1>4, <1>8, QuietHistory

LEMMA WriteFragmentHistory ==
  ASSUME JournalInv, HistoryInv, NEW w \in Writers, WriteFragment(w)
  PROVE  HistoryInv'
<1>1. TypeOK
  BY DEF JournalInv
<1>2. /\ files' = [files EXCEPT ![handle[w]] = WithFragment(files[handle[w]])]
      /\ step' = [step EXCEPT ![w] = "writing"] /\ step[w] = "idle"
      /\ UNCHANGED <<issued, queue, outcome>>
  BY DEF WriteFragment, callVars
<1>3. FilesFrom
  BY <1>1, <1>2, SameFiles DEF TypeOK, WithFragment
<1>4. \A v \in Writers : step'[v] = "written" <=> step[v] = "written"
  BY <1>1, <1>2 DEF TypeOK
<1> QED
  BY <1>1, <1>2, <1>3, <1>4, QuietHistory

LEMMA SettlesHistory ==
  ASSUME JournalInv, HistoryInv, NEW w \in Writers,
         RefuseAppend(w) \/ SyncAppend(w) \/ AppendFail(w)
  PROVE  HistoryInv'
<1>1. TypeOK
  BY DEF JournalInv
<1>2. CASE RefuseAppend(w)
  <2>1. /\ queue[w] # <<>> /\ step[w] # "written" /\ Settle(w, "refused")
        /\ UNCHANGED <<files, issued>>
    BY <1>2 DEF RefuseAppend, fileVars
  <2>2. FilesFrom
    BY <2>1, SameFiles
  <2> QED
    BY <2>1, <2>2, SettleHistory
<1>3. CASE SyncAppend(w)
  <2>1. /\ files' = [files EXCEPT ![handle[w]] = Synced(files[handle[w]])]
        /\ Settle(w, "acked") /\ UNCHANGED issued
    BY <1>3 DEF SyncAppend
  <2>2. FilesFrom
    BY <1>1, <2>1, SameFiles DEF TypeOK, Synced
  <2>3. queue[w] # <<>>
    BY <1>3 DEF SyncAppend, JournalInv, OneHolder, AppendExact, FailedIsIdle
  <2> QED
    BY <2>1, <2>2, <2>3, SettleHistory
<1>4. CASE AppendFail(w)
  <2>1. queue[w] # <<>> /\ Settle(w, "uncertain") /\ UNCHANGED <<files, issued>>
    BY <1>4 DEF AppendFail, fileVars
  <2>2. FilesFrom
    BY <2>1, SameFiles
  <2> QED
    BY <2>1, <2>2, SettleHistory
<1> QED
  BY <1>2, <1>3, <1>4

LEMMA WriterLeavesHistory ==
  ASSUME JournalInv, HistoryInv, NEW w \in Writers, OpenFail(w) \/ Close(w) \/ Crash(w)
  PROVE  HistoryInv'
<1>1. TypeOK /\ OneHolder
  BY DEF JournalInv
<1>2. pc[w] # "closed" /\ Forget(w) /\ UNCHANGED <<files, issued>>
  BY DEF OpenFail, Close, Crash, Opening, fileVars, callVars
<1>3. FilesFrom
  BY <1>2, SameFiles
<1>4. \A v \in Writers : v # w => queue[v] = <<>>
  BY <1>1, <1>2 DEF OneHolder, Writable
<1>5. \A v \in Writers : \/ queue'[v] = <<>>
                         \/ queue[v] = <<>> /\ queue'[v] = queue[v] /\ step'[v] = step[v]
  BY <1>1, <1>2, <1>4 DEF Forget, TypeOK
<1>6. \A e \in Entries : outcome'[e] = outcome[e] \/ outcome'[e] = "lost"
  BY DEF OpenFail, Close, Crash, Lost, callVars
<1> QED
  BY <1>2, <1>3, <1>5, <1>6, LeaveHistory

LEMMA PowerLossHistory ==
  ASSUME JournalInv, HistoryInv, PowerLoss
  PROVE  HistoryInv'
<1>1. TypeOK
  BY DEF JournalInv
<1>2. FilesFrom
  <2>1. CASE files' = files
    BY <2>1, SameFiles
  <2>2. CASE files' # files
    <3> DEFINE s == files[journal'].recs
    <3>1. PICK k \in files[journal'].durable .. Len(s), t \in {"none", "torn", "zero"} :
            files' = [files EXCEPT ![journal'] =
                        [recs |-> SubSeq(s, 1, k), tail |-> t,
                         durable |-> files[journal'].durable]]
      BY <2>2 DEF PowerLoss
    <3>2. journal' \in 1 .. created
      BY <1>1, <2>2 DEF PowerLoss, TypeOK
    <3>3. /\ journal' \in FileIds /\ s \in Seq(Record) /\ Len(s) \in Nat
          /\ files[journal'].durable \in Nat
      BY <1>1, <3>2, FileFacts
    <3>4. /\ files'[journal'].recs = SubSeq(s, 1, k)
          /\ \A f \in FileIds : f # journal' => files'[f] = files[f]
      BY <1>1, <3>1, <3>3 DEF TypeOK
    <3>5. k \in 0 .. Len(s)
      BY <3>3
    <3>6. \A n \in DOMAIN SubSeq(s, 1, k) : n \in DOMAIN s /\ SubSeq(s, 1, k)[n] = s[n]
      BY <3>3, <3>5
    <3> SUFFICES ASSUME NEW f \in FileIds
                 PROVE  \E g \in FileIds : \A n \in DOMAIN files'[f].recs :
                          /\ n \in DOMAIN files[g].recs
                          /\ files'[f].recs[n].entry = files[g].recs[n].entry
      BY DEF FilesFrom
    <3>7. \A n \in DOMAIN files'[f].recs : /\ n \in DOMAIN files[f].recs
                                           /\ files'[f].recs[n] = files[f].recs[n]
      <4>1. CASE f = journal'
        BY <3>4, <3>6, <4>1
      <4>2. CASE f # journal'
        BY <3>4, <4>2
      <4> QED
        BY <4>1, <4>2
    <3> QED
      BY <3>7
  <2> QED
    BY <2>1, <2>2
<1>3. /\ issued' = issued /\ \A v \in Writers : queue'[v] = <<>>
      /\ \A e \in Entries : outcome'[e] = outcome[e] \/ outcome'[e] = "lost"
  BY DEF PowerLoss, Lost
<1> QED
  BY <1>2, <1>3, LeaveHistory

LEMMA StepHistory ==
  ASSUME JournalInv, HistoryInv, [Next]_vars
  PROVE  HistoryInv'
<1>1. TypeOK
  BY DEF JournalInv
<1>2. ASSUME UNCHANGED <<files, issued, queue, outcome, step>> PROVE HistoryInv'
  BY <1>1, <1>2, SameFiles, QuietHistory
<1>3. CASE UNCHANGED vars
  BY <1>2, <1>3 DEF vars, fileVars, writerVars, callVars
<1>4. CASE ReaderOpen \/ ReaderRefused \/ ReaderRead
  BY <1>2, <1>4 DEF ReaderOpen, ReaderRefused, ReaderRead, fileVars, writerVars, callVars
<1>5. ASSUME NEW w \in Writers, WriterStep(w) PROVE HistoryInv'
  <2>1. CASE \/ OpenLock(w) \/ OpenFile(w) \/ OpenSyncDirectory(w) \/ OpenScan(w)
             \/ RepairBackup(w) \/ RepairRename(w) \/ RepairFinish(w) \/ CallClose(w)
    BY <1>2, <2>1 DEF OpenLock, OpenFile, OpenSyncDirectory, OpenScan, RepairBackup,
                      RepairRename, RepairFinish, CallClose, fileVars, callVars
  <2>2. CASE RepairReplace(w) \/ WriteFragment(w) \/ WriteLine(w)
    BY <2>2, RepairReplaceHistory, WriteFragmentHistory, WriteLineHistory
  <2>3. CASE \E e \in Entries : CallAppend(w, e)
    BY <2>3, CallAppendHistory
  <2>4. CASE RefuseAppend(w) \/ SyncAppend(w) \/ AppendFail(w)
    BY <2>4, SettlesHistory
  <2>5. CASE OpenFail(w) \/ Close(w) \/ Crash(w)
    BY <2>5, WriterLeavesHistory
  <2> QED
    BY <1>5, <2>1, <2>2, <2>3, <2>4, <2>5 DEF WriterStep
<1> QED
  BY <1>3, <1>4, <1>5, PowerLossHistory DEF Next

LEMMA InitHistory == Init => HistoryInv
BY DEF Init, HistoryInv, IssuedOnce, QueueIsTail, IssuedAsked, FilesReached, FilesOrdered,
       Ordered, Empty

\* An append is issued once, queued at the end of what was issued, and in a file only once the
\* writer reached it (JournalWriter.append chains every call behind the one before).
THEOREM HistoryHolds == Spec => []HistoryInv
<1>1. JournalInv /\ HistoryInv /\ [Next]_vars => HistoryInv'
  BY StepHistory
<1> QED
  BY <1>1, InitHistory, InvariantHolds, PTL DEF Spec

\* Appends of one process reach the journal in the order append was called, each at most once,
\* whatever failed, crashed or was repaired in between.
THEOREM AppendsInOrder == Spec => []InOrder
<1>1. JournalInv /\ HistoryInv => InOrder
  BY FileFacts DEF JournalInv, TypeOK, HistoryInv, FilesOrdered, Ordered, InOrder
<1> QED
  BY <1>1, InvariantHolds, HistoryHolds, PTL

\* An append whose caller was refused has no record in any file: nothing is written for it
\* before the refusal, and nothing after.
THEOREM RefusedNotWritten == Spec => []RefusedNeverWritten
<1>1. ASSUME JournalInv, HistoryInv PROVE RefusedNeverWritten
  <2> SUFFICES ASSUME NEW e \in Entries, outcome[e] = "refused", NEW i \in 1 .. created,
                      NEW n \in DOMAIN files[i].recs, files[i].recs[n].entry = e
               PROVE  FALSE
    BY DEF RefusedNeverWritten
  <2>1. i \in FileIds
    BY <1>1, FileFacts DEF JournalInv
  <2> QED
    BY <1>1, <2>1, ConstantsAssumption DEF HistoryInv, FilesReached
<1> QED
  BY <1>1, InvariantHolds, HistoryHolds, PTL

-----------------------------------------------------------------------------
(***************************************************************************)
(* The journal implements DurableLog: the complete lines of the file its   *)
(* path names are the log, the records whose append resolved the promises. *)
(* JournalInv is not enough for that: a power loss may move the path back  *)
(* to the file a repair replaced, which must be a prefix (OnDisk).         *)
(***************************************************************************)

Log == IF journal = 0 THEN <<>> ELSE files[journal].recs

LEMMA InitOnDisk == Init => OnDisk
BY ConstantsAssumption DEF Init, OnDisk, Empty, FileIds

\* OnDisk speaks of four variables; what leaves them alone keeps it.
LEMMA QuietOnDisk ==
  ASSUME OnDisk, UNCHANGED <<files, created, journal, durableName>>
  PROVE  OnDisk'
BY DEF OnDisk

LEMMA SubSeqWhole ==
  ASSUME NEW S, NEW s \in Seq(S) PROVE SubSeq(s, 1, Len(s)) = s
OBVIOUS

LEMMA SubSeqTwice ==
  ASSUME NEW S, NEW s \in Seq(S), NEW n \in 0 .. Len(s), NEW k \in 0 .. n
  PROVE  SubSeq(SubSeq(s, 1, n), 1, k) = SubSeq(s, 1, k)
OBVIOUS

LEMMA OpenFileOnDisk ==
  ASSUME JournalInv, OnDisk, NEW w \in Writers, OpenFile(w)
  PROVE  OnDisk' /\ Log' = Log
<1>1. CASE journal # 0
  BY <1>1 DEF OpenFile, OnDisk, Log
<1>2. CASE journal = 0
  <2>1. journal = 0 /\ created' = created + 1 /\ journal' = created + 1
        /\ files' = files /\ durableName' = 0 /\ created < MaxFile
    BY <1>2 DEF OpenFile, OnDisk
  <2>2. created \in Nat /\ created + 1 \in FileIds
    BY <2>1, ConstantsAssumption DEF JournalInv, TypeOK, FileIds
  <2> QED
    BY <2>1, <2>2 DEF OnDisk, Log, FileIds
<1> QED
  BY <1>1, <1>2

LEMMA NameSyncedOnDisk ==
  ASSUME OnDisk, durableName' = journal, UNCHANGED <<files, created, journal>>
  PROVE  OnDisk'
BY DEF OnDisk

\* A write by the writer that appends: the path and the disk agree.
LEMMA WriteOnDisk ==
  ASSUME JournalInv, OnDisk, NEW w \in Writers, pc[w] \in Writable, NEW g,
         files' = [files EXCEPT ![journal] = g],
         UNCHANGED <<created, journal, durableName>>
  PROVE  OnDisk'
<1>1. journal = durableName /\ journal # 0 /\ journal \in 1 .. created
  BY DEF JournalInv, HandleNamed, TypeOK
<1>2. \A i \in FileIds : i > created => files'[i] = files[i]
  BY <1>1 DEF JournalInv, TypeOK
<1> QED
  BY <1>1, <1>2 DEF OnDisk

LEMMA RepairReplaceOnDisk ==
  ASSUME JournalInv, OnDisk, NEW w \in Writers, RepairReplace(w)
  PROVE  OnDisk' /\ Log' = Log
<1>1. /\ created' = created + 1 /\ created \in Nat
      /\ journal \in 0 .. created /\ durableName \in 0 .. created
      /\ journal' = journal /\ durableName' = durableName
      /\ DOMAIN files = FileIds
      /\ \A i \in FileIds : i # created + 1 => files'[i] = files[i]
  BY ConstantsAssumption DEF RepairReplace, JournalInv, TypeOK
<1>2. /\ journal # 0 => files'[journal] = files[journal]
      /\ durableName # 0 => files'[durableName] = files[durableName]
  <2>1. MaxFile \in Nat \ {0} /\ created <= MaxFile
    BY ConstantsAssumption DEF JournalInv, TypeOK
  <2>2. /\ journal # 0 => journal \in FileIds /\ journal # created + 1
        /\ durableName # 0 => durableName \in FileIds /\ durableName # created + 1
    BY <1>1, <2>1 DEF FileIds
  <2> QED
    BY <1>1, <2>2
<1>3. \A i \in FileIds : i > created' => files'[i].recs = <<>>
  BY <1>1 DEF OnDisk, FileIds
<1> QED
  BY <1>1, <1>2, <1>3 DEF OnDisk, Log

\* The replacement is what it replaces and one record more.
LEMMA RepairRenameOnDisk ==
  ASSUME JournalInv, OnDisk, NEW w \in Writers, RepairRename(w)
  PROVE  OnDisk' /\ Log' = Append(Log, RecordOf(Repair, Len(Log) + 1))
<1> DEFINE s == files[journal].recs
           r == RecordOf(Repair, Len(s) + 1)
<1>1. /\ journal # 0 /\ durableName = journal /\ image[w] = files[journal]
      /\ seq[w] = Len(s) /\ tmp[w] # 0 /\ files[tmp[w]] = Repaired(image[w], seq[w] + 1)
  BY DEF RepairRename, JournalInv, HandleNamed, RepairExact, Writable
<1>2. journal \in 1 .. created
  BY <1>1 DEF JournalInv, TypeOK
<1>3. s \in Seq(Record) /\ Len(s) \in Nat
  BY <1>2, FileFacts DEF JournalInv
<1>4. files[tmp[w]].recs = Append(s, r)
  BY <1>1 DEF Repaired, Synced
<1> HIDE DEF r
<1>5. r \in Record
  BY <1>3 DEF r, RecordOf, Record
<1>6. Len(Append(s, r)) = Len(s) + 1 /\ SubSeq(Append(s, r), 1, Len(s)) = s
  BY <1>3, <1>5
<1>7. journal' = tmp[w] /\ UNCHANGED <<files, created, durableName>>
  BY DEF RepairRename
<1>8. OnDisk'
  BY <1>1, <1>3, <1>4, <1>6, <1>7 DEF OnDisk
<1> QED
  BY <1>1, <1>4, <1>7, <1>8 DEF Log, r

\* A power loss leaves a prefix of the log with every promise in it.
LEMMA PowerLossOnDisk ==
  ASSUME JournalInv, OnDisk, PowerLoss
  PROVE  OnDisk' /\ DL!Lose
<1> USE ConstantsAssumption
<1> DEFINE f == files[journal']
<1>1. /\ journal' \in {journal, durableName} /\ durableName' = journal'
      /\ created' = created /\ acked' = acked /\ journal' \in 0 .. created
      /\ journal \in 0 .. created
  BY DEF PowerLoss, JournalInv, TypeOK
<1>2. CASE journal' = 0
  <2>1. files' = files /\ acked = {}
    BY <1>2, <1>1 DEF PowerLoss, JournalInv, AckedDurable
  <2>2. Log = <<>> /\ Log' = <<>>
    BY <1>1, <1>2 DEF OnDisk, Log
  <2>3. /\ Log' = SubSeq(Log, 1, 0) /\ 0 \in 0 .. Len(Log)
        /\ \A r \in acked : r.seq <= 0
    BY <2>1, <2>2
  <2>4. OnDisk'
    BY <1>1, <1>2, <2>1 DEF OnDisk
  <2> QED
    BY <1>1, <2>3, <2>4 DEF DL!Lose, Log
<1>3. CASE journal' # 0
  <2>1. /\ journal' \in 1 .. created /\ journal # 0 /\ journal \in 1 .. created
    BY <1>1, <1>3 DEF OnDisk
  <2>2. /\ journal' \in FileIds /\ f \in Content /\ f.recs \in Seq(Record)
        /\ Len(f.recs) \in Nat /\ f.durable \in Nat /\ f.durable <= Len(f.recs)
    BY <2>1, FileFacts DEF JournalInv, FilesDense
  <2>3. Log \in Seq(Record)
    BY <2>1, FileFacts DEF Log, JournalInv
  <2>4. Len(f.recs) <= Len(Log) /\ f.recs = SubSeq(Log, 1, Len(f.recs))
    <3>1. CASE journal' = journal
      BY <2>1, <2>2, <3>1, SubSeqWhole DEF Log
    <3>2. CASE journal' # journal
      BY <1>1, <2>1, <3>2 DEF OnDisk, Log
    <3> QED
      BY <3>1, <3>2
  <2>5. PICK k \in f.durable .. Len(f.recs) : files'[journal'].recs = SubSeq(f.recs, 1, k)
    <3>1. CASE files' = files
      BY <2>2, <3>1, SubSeqWhole
    <3>2. CASE files' # files
      <4>1. \E k \in f.durable .. Len(f.recs), t \in {"none", "torn", "zero"} :
              files' = [files EXCEPT ![journal'] =
                          [recs |-> SubSeq(f.recs, 1, k), tail |-> t,
                           durable |-> f.durable]]
        BY <3>2, Zenon DEF PowerLoss
      <4>2. journal' \in DOMAIN files
        BY <2>2 DEF JournalInv, TypeOK
      <4>3. PICK k \in f.durable .. Len(f.recs), t \in {"none", "torn", "zero"} :
              files' = [files EXCEPT ![journal'] =
                          [recs |-> SubSeq(f.recs, 1, k), tail |-> t,
                           durable |-> f.durable]]
        BY <4>1
      <4>4. files'[journal'].recs = SubSeq(f.recs, 1, k)
        BY <4>2, <4>3
      <4> QED
        BY <4>4
    <3> QED
      BY <3>1, <3>2
  <2>6. k \in 0 .. Len(f.recs) /\ k \in 0 .. Len(Log)
    BY <2>2, <2>3, <2>4
  <2>7. Log' = SubSeq(Log, 1, k)
    BY <1>3, <2>2, <2>3, <2>4, <2>5, <2>6, SubSeqTwice DEF Log
  <2>8. \A r \in acked : r.seq <= k
    <3> SUFFICES ASSUME NEW r \in acked PROVE r.seq <= k
      OBVIOUS
    <3>1. r.seq \in 1 .. f.durable
      BY <1>1, <1>3 DEF JournalInv, AckedDurable
    <3> QED
      BY <2>2, <2>6, <3>1
  <2>9. \A i \in FileIds : i > created => files'[i] = files[i]
    BY <2>1 DEF PowerLoss, JournalInv, TypeOK
  <2>10. OnDisk'
    BY <1>1, <1>3, <2>9 DEF OnDisk
  <2> QED
    BY <1>1, <2>6, <2>7, <2>8, <2>10 DEF DL!Lose, Log
<1> QED
  BY <1>2, <1>3

\* The two steps of an append the log knows: the line is complete, and the
\* caller is told so.
LEMMA WriteLineCommits ==
  ASSUME JournalInv, OnDisk, NEW w \in Writers, WriteLine(w)
  PROVE  OnDisk' /\ DL!Commit
<1> DEFINE f == files[journal]
           e == Head(queue[w])
<1>1. /\ pc[w] \in Writable /\ handle[w] = journal /\ journal \in 1 .. created
      /\ f.tail = "torn" /\ Len(f.recs) = seq[w] /\ queue[w] # <<>>
  BY DEF WriteLine, JournalInv, OneHolder, HandleNamed, AppendExact, FailedIsIdle, TypeOK,
         Writable
<1>2. e \in Entries
  BY <1>1 DEF JournalInv, TypeOK
<1>3. /\ files' = [files EXCEPT ![journal] = WithLine(f, RecordOf(e, seq[w] + 1))]
      /\ UNCHANGED <<created, journal, durableName, acked>>
  BY <1>1 DEF WriteLine, callVars
<1>4. OnDisk'
  BY <1>1, <1>3, WriteOnDisk
<1>5. files'[journal].recs = Append(f.recs, RecordOf(e, seq[w] + 1))
  <2>1. journal \in DOMAIN files
    BY <1>1, FileFacts DEF JournalInv, TypeOK
  <2> QED
    BY <1>1, <1>3, <2>1 DEF WithLine
<1>6. Log' = Append(Log, RecordOf(e, Len(Log) + 1)) /\ acked' = acked
  BY <1>1, <1>3, <1>5 DEF Log
<1> QED
  BY <1>2, <1>4, <1>6 DEF DL!Commit, DL!Entry, RecordOf, Log

LEMMA SyncAppendPromises ==
  ASSUME JournalInv, OnDisk, NEW w \in Writers, SyncAppend(w)
  PROVE  OnDisk' /\ DL!Promise
<1> DEFINE f == files[journal]
           r == RecordOf(Head(queue[w]), seq[w] + 1)
<1>0. /\ pc[w] \in Writable /\ ~failure[w] /\ handle[w] = journal
      /\ journal \in 1 .. created
  BY DEF SyncAppend, JournalInv, OneHolder, HandleNamed, FailedIsIdle, TypeOK
<1>1. Len(f.recs) = seq[w] + 1 /\ f.recs[seq[w] + 1] = r /\ seq[w] \in Nat
  BY <1>0 DEF SyncAppend, JournalInv, AppendExact, TypeOK
<1>2. /\ files' = [files EXCEPT ![journal] = Synced(f)] /\ acked' = acked \cup {r}
      /\ UNCHANGED <<created, journal, durableName>>
  BY <1>0 DEF SyncAppend
<1>3. OnDisk'
  BY <1>0, <1>2, WriteOnDisk
<1>4. journal \in DOMAIN files /\ f.recs \in Seq(Record)
  BY <1>0, FileFacts DEF JournalInv, TypeOK
<1>5. Log = f.recs /\ Log' = Log
  BY <1>0, <1>2, <1>4 DEF Log, Synced
<1>6. seq[w] + 1 \in DOMAIN Log /\ Log[seq[w] + 1] = r
  BY <1>1, <1>4, <1>5
<1> HIDE DEF r
<1> QED
  BY <1>2, <1>3, <1>5, <1>6 DEF DL!Promise, Log

LEMMA RepairRenameCommits ==
  ASSUME JournalInv, OnDisk, NEW w \in Writers, RepairRename(w)
  PROVE  OnDisk' /\ DL!Commit
<1>1. OnDisk' /\ Log' = Append(Log, RecordOf(Repair, Len(Log) + 1))
  BY RepairRenameOnDisk
<1>2. acked' = acked
  BY DEF RepairRename, callVars
<1> QED
  BY <1>1, <1>2 DEF DL!Commit, DL!Entry, RecordOf, Log

\* Every step keeps OnDisk and is a step of the log or leaves it as it was.
LEMMA StepRefines ==
  ASSUME JournalInv, OnDisk, [Next]_vars
  PROVE  OnDisk' /\ [DL!Next]_DL!vars
<1>1. ASSUME UNCHANGED <<files, created, journal, durableName, acked>>
      PROVE  OnDisk' /\ [DL!Next]_DL!vars
  BY <1>1, QuietOnDisk DEF DL!vars
<1>2. CASE UNCHANGED vars
  BY <1>1, <1>2 DEF vars, fileVars, callVars
<1>3. CASE PowerLoss
  BY <1>3, PowerLossOnDisk DEF DL!Next
<1>4. CASE ReaderOpen \/ ReaderRefused \/ ReaderRead
  BY <1>1, <1>4 DEF ReaderOpen, ReaderRefused, ReaderRead, fileVars, callVars
<1>5. ASSUME NEW w \in Writers, WriterStep(w) PROVE OnDisk' /\ [DL!Next]_DL!vars
  <2>1. CASE OpenFile(w)
    <3>1. acked' = acked
      BY <2>1 DEF OpenFile, callVars
    <3> QED
      BY <2>1, <3>1, OpenFileOnDisk DEF DL!vars, Log
  <2>2. CASE OpenSyncDirectory(w)
    BY <2>2, NameSyncedOnDisk DEF OpenSyncDirectory, callVars, DL!vars
  <2>3. CASE RepairReplace(w)
    <3>1. acked' = acked
      BY <2>3 DEF RepairReplace, callVars
    <3> QED
      BY <2>3, <3>1, RepairReplaceOnDisk DEF DL!vars, Log
  <2>4. CASE RepairRename(w)
    BY <2>4, RepairRenameCommits DEF DL!Next
  <2>5. CASE RepairFinish(w)
    BY <2>5, NameSyncedOnDisk DEF RepairFinish, callVars, DL!vars
  <2>6. CASE WriteLine(w)
    BY <2>6, WriteLineCommits DEF DL!Next
  <2>7. CASE SyncAppend(w)
    BY <2>7, SyncAppendPromises DEF DL!Next
  <2>8. CASE WriteFragment(w)
    <3>1. /\ pc[w] \in Writable /\ handle[w] = journal /\ journal \in 1 .. created
      BY <2>8 DEF WriteFragment, JournalInv, OneHolder, HandleNamed, TypeOK
    <3>2. files' = [files EXCEPT ![journal] = WithFragment(files[journal])]
          /\ UNCHANGED <<created, journal, durableName, acked>>
      BY <2>8, <3>1 DEF WriteFragment, callVars
    <3>3. OnDisk'
      BY <3>1, <3>2, WriteOnDisk
    <3>4. journal \in DOMAIN files
      BY <3>1, FileFacts DEF JournalInv, TypeOK
    <3>5. Log' = Log
      BY <3>1, <3>2, <3>4 DEF Log, WithFragment
    <3> QED
      BY <3>2, <3>3, <3>5 DEF DL!vars, Log
  <2>9. CASE OpenLock(w) \/ OpenScan(w) \/ OpenFail(w) \/ RepairBackup(w)
    BY <1>1, <2>9 DEF OpenLock, OpenScan, OpenFail, RepairBackup, fileVars, callVars
  <2>10. CASE \/ \E e \in Entries : CallAppend(w, e)
              \/ RefuseAppend(w) \/ AppendFail(w) \/ CallClose(w) \/ Close(w) \/ Crash(w)
    BY <1>1, <2>10 DEF CallAppend, RefuseAppend, AppendFail, CallClose, Close, Crash,
                       fileVars, callVars
  <2> QED
    BY <1>5, <2>1, <2>2, <2>3, <2>4, <2>5, <2>6, <2>7, <2>8, <2>9, <2>10 DEF WriterStep
<1> QED
  BY <1>2, <1>3, <1>4, <1>5 DEF Next

\* After a power loss the path names a prefix of what it named.
THEOREM PathIsPrefixOnDisk == Spec => []OnDisk
<1>1. JournalInv /\ OnDisk /\ [Next]_vars => OnDisk'
  BY StepRefines
<1> QED
  BY <1>1, InitOnDisk, InvariantHolds, PTL DEF Spec

\* The journal is a DurableLog: one total order, no acknowledged record lost,
\* whatever fails between any two of its steps.
THEOREM JournalIsDurableLog == Spec => ImplementsDurableLog
<1>1. Init => DL!Init
  BY DEF Init, DL!Init
<1>2. JournalInv /\ OnDisk /\ [Next]_vars => [DL!Next]_DL!vars
  BY StepRefines
<1> QED
  BY <1>1, <1>2, InvariantHolds, PathIsPrefixOnDisk, PTL DEF Spec, ImplementsDurableLog, DL!Spec

-----------------------------------------------------------------------------
(* What readers returned *)

Before(s, t) == Len(s) <= Len(t) /\ \A i \in 1 .. Len(s) : s[i] = t[i]

\* What is being read, and what was, is the beginning of the log.
ReadInv ==
  /\ reading # 0 => journal # 0 /\ Before(files[reading].recs, Log)
  /\ seen # <<>> => journal # 0 /\ Before(seen, Log)

LEMMA BeforeAppend ==
  ASSUME NEW s \in Seq(Record), NEW t \in Seq(Record), NEW r, Before(s, t)
  PROVE  Before(s, Append(t, r))
<1>1. PICK a \in Nat : a = Len(s)
  OBVIOUS
<1>2. PICK b \in Nat : b = Len(t)
  OBVIOUS
<1>3. Len(Append(t, r)) = b + 1 /\ \A i \in 1 .. b : Append(t, r)[i] = t[i]
  BY <1>2
<1>4. a <= b /\ \A i \in 1 .. a : s[i] = t[i]
  BY <1>1, <1>2 DEF Before
<1>5. a <= b + 1 /\ \A i \in 1 .. a : i \in 1 .. b
  BY <1>4
<1>6. \A i \in 1 .. a : s[i] = Append(t, r)[i]
  BY <1>3, <1>4, <1>5
<1> QED
  BY <1>1, <1>3, <1>5, <1>6 DEF Before

LEMMA BeforeIsPrefix ==
  ASSUME NEW s \in Seq(Record), NEW t \in Seq(Record), Before(s, t)
  PROVE  SubSeq(t, 1, Len(s)) = s
<1>1. Len(s) \in Nat /\ Len(t) \in Nat /\ Len(s) <= Len(t)
  BY DEF Before
<1>2. SubSeq(t, 1, Len(s)) \in Seq(Record) /\ Len(SubSeq(t, 1, Len(s))) = Len(s)
  BY <1>1
<1>3. \A i \in 1 .. Len(s) : SubSeq(t, 1, Len(s))[i] = s[i]
  BY <1>1 DEF Before
<1> QED
  BY <1>2, <1>3

LEMMA LogType ==
  ASSUME JournalInv PROVE Log \in Seq(Record)
<1>1. CASE journal = 0
  BY <1>1 DEF Log
<1>2. CASE journal # 0
  <2>1. journal \in 1 .. created
    BY <1>2 DEF JournalInv, TypeOK
  <2> QED
    BY <1>2, <2>1, FileFacts DEF Log, JournalInv
<1> QED
  BY <1>1, <1>2

\* A writer only adds to the log, and of the files that exist changes only the
\* lines of the one that is the log.
LEMMA WriterGrows ==
  ASSUME JournalInv, OnDisk, NEW w \in Writers, WriterStep(w)
  PROVE  /\ Log' = Log \/ \E r \in Record : Log' = Append(Log, r)
         /\ journal # 0 => journal' # 0
         /\ \A i \in 1 .. created : \/ files'[i].recs = files[i].recs
                                    \/ i = journal /\ journal' = journal
         /\ UNCHANGED <<reading, seen>>
<1> DEFINE Grows == /\ Log' = Log \/ \E r \in Record : Log' = Append(Log, r)
                    /\ journal # 0 => journal' # 0
                    /\ \A i \in 1 .. created : \/ files'[i].recs = files[i].recs
                                               \/ i = journal /\ journal' = journal
                    /\ UNCHANGED <<reading, seen>>
<1>1. ASSUME UNCHANGED <<files, journal, reading, seen>> PROVE Grows
  BY <1>1 DEF Log
<1>2. \A i \in 1 .. created : i \in FileIds
  BY FileFacts DEF JournalInv
<1>3. \A e \in Entries \cup {Repair} : RecordOf(e, Len(Log) + 1) \in Record
  BY LogType DEF RecordOf, Record
<1>4. CASE OpenFile(w)
  <2>1. Log' = Log
    BY <1>4, OpenFileOnDisk
  <2>2. files' = files /\ UNCHANGED <<reading, seen>> /\ (journal # 0 => journal' = journal)
    BY <1>4 DEF OpenFile, readVars
  <2> QED
    BY <2>1, <2>2
<1>5. CASE RepairReplace(w)
  <2>1. Log' = Log
    BY <1>5, RepairReplaceOnDisk
  <2>2. /\ files' = [files EXCEPT ![created + 1] = Repaired(image[w], seq[w] + 1)]
        /\ UNCHANGED <<journal, reading, seen>>
    BY <1>5 DEF RepairReplace, readVars
  <2>3. \A i \in 1 .. created : i # created + 1
    BY DEF JournalInv, TypeOK
  <2>4. \A i \in 1 .. created : files'[i] = files[i]
    BY <1>2, <2>2, <2>3 DEF JournalInv, TypeOK
  <2> QED
    BY <2>1, <2>2, <2>4
<1>6. CASE RepairRename(w)
  <2>1. Log' = Append(Log, RecordOf(Repair, Len(Log) + 1))
    BY <1>6, RepairRenameOnDisk
  <2>2. /\ UNCHANGED <<files, reading, seen>> /\ journal' # 0
    BY <1>6 DEF RepairRename, readVars, JournalInv, RepairExact
  <2>3. \E r \in Record : Log' = Append(Log, r)
    BY <1>3, <2>1
  <2> QED
    BY <2>2, <2>3
<1>7. CASE WriteFragment(w) \/ WriteLine(w) \/ SyncAppend(w)
  <2>1. handle[w] = journal /\ journal \in 1 .. created
    BY <1>7 DEF WriteFragment, WriteLine, SyncAppend, JournalInv, OneHolder, HandleNamed, TypeOK
  <2>2. UNCHANGED <<journal, reading, seen>>
    BY <1>7 DEF WriteFragment, WriteLine, SyncAppend, readVars
  <2>3. \A i \in 1 .. created : i # journal => files'[i] = files[i]
    BY <1>2, <1>7, <2>1 DEF WriteFragment, WriteLine, SyncAppend, JournalInv, TypeOK
  <2>4. Log' = Log \/ \E r \in Record : Log' = Append(Log, r)
    <3>1. CASE WriteFragment(w)
      BY <1>2, <2>1, <2>2, <3>1 DEF WriteFragment, WithFragment, Log, JournalInv, TypeOK
    <3>2. CASE SyncAppend(w)
      BY <1>2, <2>1, <2>2, <3>2 DEF SyncAppend, Synced, Log, JournalInv, TypeOK
    <3>3. CASE WriteLine(w)
      <4>1. PICK p \in Entries \cup {Repair} : Log' = Append(Log, RecordOf(p, Len(Log) + 1))
        BY <3>3, WriteLineCommits DEF DL!Commit, DL!Entry, RecordOf, Log
      <4> QED
        BY <1>3, <4>1
    <3> QED
      BY <1>7, <3>1, <3>2, <3>3
  <2> QED
    BY <2>1, <2>2, <2>3, <2>4
<1>8. CASE \/ OpenLock(w) \/ OpenSyncDirectory(w) \/ OpenScan(w) \/ OpenFail(w)
           \/ RepairBackup(w) \/ RepairFinish(w)
           \/ \E e \in Entries : CallAppend(w, e)
           \/ RefuseAppend(w) \/ AppendFail(w) \/ CallClose(w) \/ Close(w) \/ Crash(w)
  BY <1>1, <1>8 DEF OpenLock, OpenSyncDirectory, OpenScan, OpenFail, RepairBackup, RepairFinish,
                    CallAppend, RefuseAppend, AppendFail, CallClose, Close, Crash,
                    fileVars, readVars
<1> QED
  BY <1>4, <1>5, <1>6, <1>7, <1>8 DEF WriterStep

LEMMA StepReads ==
  ASSUME JournalInv, OnDisk, ReadInv, [Next]_vars
  PROVE  ReadInv'
<1>1. Log \in Seq(Record) /\ seen \in Seq(Record) /\ (reading # 0 => reading \in 1 .. created)
  BY LogType DEF JournalInv, TypeOK
<1>2. CASE UNCHANGED vars
  BY <1>2 DEF vars, fileVars, readVars, ReadInv, Log
<1>3. CASE PowerLoss
  BY <1>3 DEF PowerLoss, ReadInv
<1>4. CASE ReaderOpen \/ ReaderRefused \/ ReaderRead
  <2>1. UNCHANGED <<files, journal>> /\ Log' = Log
    BY <1>4 DEF ReaderOpen, ReaderRefused, ReaderRead, fileVars, Log
  <2>2. CASE ReaderOpen
    <3>1. journal # 0 /\ reading' = journal /\ seen' = seen /\ files[journal].recs = Log
      BY <2>2 DEF ReaderOpen, Log
    <3>2. Before(Log, Log)
      BY <1>1 DEF Before
    <3> QED
      BY <2>1, <3>1, <3>2 DEF ReadInv
  <2>3. CASE ReaderRefused
    BY <2>1, <2>3 DEF ReaderRefused, ReadInv
  <2>4. CASE ReaderRead
    BY <2>1, <2>4 DEF ReaderRead, ReadInv
  <2> QED
    BY <1>4, <2>2, <2>3, <2>4
<1>5. ASSUME NEW w \in Writers, WriterStep(w) PROVE ReadInv'
  <2>1. /\ Log' = Log \/ \E r \in Record : Log' = Append(Log, r)
        /\ journal # 0 => journal' # 0
        /\ \A i \in 1 .. created : \/ files'[i].recs = files[i].recs
                                   \/ i = journal /\ journal' = journal
        /\ UNCHANGED <<reading, seen>>
    BY <1>5, WriterGrows
  <2>2. ASSUME NEW s \in Seq(Record), Before(s, Log) PROVE Before(s, Log')
    BY <1>1, <2>1, <2>2, BeforeAppend
  <2>3. seen' # <<>> => journal' # 0 /\ Before(seen', Log')
    BY <1>1, <2>1, <2>2 DEF ReadInv
  <2>4. ASSUME reading' # 0 PROVE journal' # 0 /\ Before(files'[reading'].recs, Log')
    <3>1. /\ reading' = reading /\ reading \in 1 .. created /\ journal # 0 /\ journal' # 0
          /\ Before(files[reading].recs, Log)
      BY <1>1, <2>1, <2>4 DEF ReadInv
    <3>2. files[reading].recs \in Seq(Record)
      BY <3>1, FileFacts DEF JournalInv
    <3>3. CASE files'[reading].recs = files[reading].recs
      BY <2>2, <3>1, <3>2, <3>3
    <3>4. CASE reading = journal /\ journal' = journal
      <4>1. files'[reading'].recs = Log'
        BY <3>1, <3>4 DEF Log
      <4>2. Log' \in Seq(Record)
        BY <1>1, <2>1
      <4>3. Before(Log', Log')
        BY <4>2 DEF Before
      <4> QED
        BY <3>1, <4>1, <4>3
    <3> QED
      BY <2>1, <3>1, <3>3, <3>4
  <2> QED
    BY <2>3, <2>4 DEF ReadInv
<1> QED
  BY <1>2, <1>3, <1>4, <1>5 DEF Next

\* What a reader returned stays a prefix of the session, whatever append or repair it raced:
\* readers take no lock (JournalReader).
THEOREM ReadsArePrefixes == Spec => []ReadsStayPrefix
<1>1. Init => ReadInv
  BY DEF Init, ReadInv
<1>2. JournalInv /\ OnDisk /\ ReadInv /\ [Next]_vars => ReadInv'
  BY StepReads
<1>3. ASSUME JournalInv, ReadInv PROVE ReadsStayPrefix
  <2> SUFFICES ASSUME seen # <<>>
               PROVE  /\ Len(seen) <= Len(files[journal].recs)
                      /\ SubSeq(files[journal].recs, 1, Len(seen)) = seen
    BY DEF ReadsStayPrefix
  <2>1. Before(seen, Log) /\ Log = files[journal].recs /\ seen \in Seq(Record)
    BY <1>3 DEF ReadInv, Log, JournalInv, TypeOK
  <2>2. Log \in Seq(Record)
    BY <1>3, LogType
  <2>3. SubSeq(Log, 1, Len(seen)) = seen
    BY <2>1, <2>2, BeforeIsPrefix
  <2> QED
    BY <2>1, <2>3 DEF Before
<1> QED
  BY <1>1, <1>2, <1>3, InvariantHolds, PathIsPrefixOnDisk, PTL DEF Spec
=============================================================================
