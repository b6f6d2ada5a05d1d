------------------------------- MODULE Journal -------------------------------
(***************************************************************************)
(* The session journal of packages/storage/src/journal: one JSONL file per *)
(* session, appended to by the process that holds the session's lock       *)
(* (JournalWriter), repaired by it when the last line is incomplete, and   *)
(* read without any lock by everybody else (JournalReader).                *)
(*                                                                         *)
(* A file is its complete lines plus what follows the last line feed.      *)
(* "torn" is a fragment of one record, "zero" the zero-filled blocks a     *)
(* power loss can leave, and "corrupt" a fragment with more bytes behind   *)
(* it, which no scan accepts.  A write is two chunks, so that another      *)
(* process, a reader or a crash can meet half a line.                      *)
(***************************************************************************)
EXTENDS Naturals, Sequences, FiniteSets

CONSTANTS Writers,      \* processes that may open the session for writing
          Entries,      \* the appends the callers ask for, each at most once
          Invalid,      \* those whose record parseRecord refuses
          Repair,       \* the entry of a repair record
          NoWriter,     \* nobody holds the lock
          MaxFile,      \* bound: files ever created at the journal's path
          MaxPowerLoss  \* bound: how often the machine loses power

ASSUME ConstantsAssumption ==
  /\ Invalid \subseteq Entries
  /\ Repair \notin Entries
  /\ NoWriter \notin Writers
  /\ MaxFile \in Nat \ {0}
  /\ MaxPowerLoss \in Nat

VARIABLES
  files,        \* content of every file, by number; 0 is "no file"
  created,      \* how many files were created
  journal,      \* the file the journal's path names
  durableName,  \* the file the path names on disk, after a power loss
  backups,      \* damaged contents saved as <journal>.corrupt.<id>
  lock,         \* holder of the session lock
  pc,           \* where each writer is in open, repair, append and close
  handle,       \* the file each writer has open
  image,        \* the content each opening writer read before deciding
  tmp,          \* the replacement file of a repair
  seq,          \* JournalWriter.seq
  queue,        \* JournalWriter.queue: appends not yet settled
  step,         \* how far the append at the head of the queue is
  failure,      \* JournalWriter.failure: an append's outcome is uncertain
  outcome,      \* what the caller of each append knows
  issued,       \* history: the appends each writer queued, in order
  acked,        \* history: the records whose append resolved
  reading,      \* the file a reader has open
  seen,         \* the records the last read returned
  powerLosses

fileVars   == <<files, created, journal, durableName, backups>>
writerVars == <<pc, handle, image, tmp, seq, queue, step, failure>>
callVars   == <<outcome, issued, acked>>
readVars   == <<reading, seen>>
vars == <<fileVars, lock, writerVars, callVars, readVars, powerLosses>>

Record   == [seq : Nat, entry : Entries \cup {Repair}]
Content  == [recs : Seq(Record), tail : {"none", "torn", "zero", "corrupt"},
             durable : Nat]
Empty    == [recs |-> <<>>, tail |-> "none", durable |-> 0]
FileIds  == 1 .. MaxFile

Opening  == {"locked", "named", "opened", "torn", "backed", "replaced", "renamed"}
Writable == {"open", "closing"}
PC       == Opening \cup Writable \cup {"closed"}

\* parseRecord accepts the record of an entry, whatever its number.
Parses(e) == e \notin Invalid

RecordOf(e, n) == [seq |-> n, entry |-> e]

\* fsync: the complete lines are on disk.
NotSynced(f) == f                                \* mutant: fsync forgotten
Synced(f) == [recs |-> f.recs, tail |-> f.tail, durable |-> Len(f.recs)]

\* A repaired file: the verified lines and the repair record, synced.
RepairedShort(f, n) ==                           \* mutant: one line too few
  Synced([f EXCEPT !.recs = Append(SubSeq(@, 2, Len(@)), RecordOf(Repair, n)),
                   !.tail = "none"])
Repaired(f, n) ==
  Synced([recs |-> Append(f.recs, RecordOf(Repair, n)), tail |-> "none"])

\* scanJournal: every line must parse and carry the next sequence number, and
\* what follows the last line feed may only be a fragment.
Scans(f) == /\ f.tail \in {"none", "torn"}
            /\ \A i \in DOMAIN f.recs : f.recs[i].seq = i

Init ==
  /\ files = [i \in FileIds |-> Empty]
  /\ created = 0 /\ journal = 0 /\ durableName = 0 /\ backups = {}
  /\ lock = NoWriter
  /\ pc = [w \in Writers |-> "closed"]
  /\ handle = [w \in Writers |-> 0]
  /\ image = [w \in Writers |-> Empty]
  /\ tmp = [w \in Writers |-> 0]
  /\ seq = [w \in Writers |-> 0]
  /\ queue = [w \in Writers |-> <<>>]
  /\ step = [w \in Writers |-> "idle"]
  /\ failure = [w \in Writers |-> FALSE]
  /\ outcome = [e \in Entries |-> "unasked"]
  /\ issued = [w \in Writers |-> <<>>]
  /\ acked = {}
  /\ reading = 0 /\ seen = <<>>
  /\ powerLosses = 0

-----------------------------------------------------------------------------
(* JournalWriter.open *)

\* acquireJournalLock; a second opener is refused while the lock is held.
OpenLock(w) ==
  /\ pc[w] = "closed" /\ lock = NoWriter
  /\ lock' = w
  /\ pc' = [pc EXCEPT ![w] = "locked"]
  /\ UNCHANGED <<fileVars, handle, image, tmp, seq, queue, step, failure,
                 callVars, readVars, powerLosses>>

\* The path is opened, and created when it names nothing.
OpenFile(w) ==
  /\ pc[w] = "locked"
  /\ \/ /\ journal # 0
        /\ UNCHANGED <<journal, created>>
     \/ /\ journal = 0 /\ created < MaxFile
        /\ created' = created + 1 /\ journal' = created + 1
  /\ handle' = [handle EXCEPT ![w] = journal']
  /\ pc' = [pc EXCEPT ![w] = "named"]
  /\ UNCHANGED <<files, durableName, backups, lock, image, tmp, seq, queue,
                 step, failure, callVars, readVars, powerLosses>>

\* The directory is synced before a byte is read or written.
OpenSyncDirectory(w) ==
  /\ pc[w] = "named"
  /\ durableName' = journal
  /\ pc' = [pc EXCEPT ![w] = "opened"]
  /\ UNCHANGED <<files, created, journal, backups, lock, handle, image, tmp,
                 seq, queue, step, failure, callVars, readVars, powerLosses>>

\* The scan decides: append to a whole file, repair a torn one.
OpenScan(w) ==
  LET f == files[handle[w]]
  IN /\ pc[w] = "opened"
     /\ Scans(f)
     /\ image' = [image EXCEPT ![w] = IF f.tail = "torn" THEN f ELSE Empty]
     /\ seq' = [seq EXCEPT ![w] = Len(f.recs)]
     /\ pc' = [pc EXCEPT ![w] = IF f.tail = "torn" THEN "torn" ELSE "open"]
     /\ UNCHANGED <<fileVars, lock, handle, tmp, queue, step, failure,
                    callVars, readVars, powerLosses>>

\* Everything a writer holds in memory or in the kernel goes with it.
Forget(w) ==
  /\ lock' = IF lock = w THEN NoWriter ELSE lock
  /\ pc' = [pc EXCEPT ![w] = "closed"]
  /\ handle' = [handle EXCEPT ![w] = 0]
  /\ image' = [image EXCEPT ![w] = Empty]
  /\ tmp' = [tmp EXCEPT ![w] = 0]
  /\ seq' = [seq EXCEPT ![w] = 0]
  /\ queue' = [queue EXCEPT ![w] = <<>>]
  /\ step' = [step EXCEPT ![w] = "idle"]
  /\ failure' = [failure EXCEPT ![w] = FALSE]

\* Any error on the way, a scan that refuses the file included, closes the
\* handle and releases the lock; what is already on disk stays.
OpenFail(w) ==
  /\ pc[w] \in Opening
  /\ Forget(w)
  /\ UNCHANGED <<fileVars, callVars, readVars, powerLosses>>

-----------------------------------------------------------------------------
(* JournalWriter.repair, the only mutation that is not an append *)

\* Mutant: the replacement is published without a backup.
RepairNoBackup(w) ==
  /\ pc[w] = "torn"
  /\ pc' = [pc EXCEPT ![w] = "backed"]
  /\ UNCHANGED <<fileVars, lock, handle, image, tmp, seq, queue, step, failure,
                 callVars, readVars, powerLosses>>

\* The damaged original is saved and synced, with its directory.
RepairBackup(w) ==
  /\ pc[w] = "torn"
  /\ backups' = backups \cup {image[w]}
  /\ pc' = [pc EXCEPT ![w] = "backed"]
  /\ UNCHANGED <<files, created, journal, durableName, lock, handle, image, tmp,
                 seq, queue, step, failure, callVars, readVars, powerLosses>>

\* The verified prefix and the repair record go to a new file, synced.
RepairReplace(w) ==
  /\ pc[w] = "backed"
  /\ created < MaxFile
  /\ created' = created + 1
  /\ files' = [files EXCEPT ![created + 1] = Repaired(image[w], seq[w] + 1)]
  /\ tmp' = [tmp EXCEPT ![w] = created + 1]
  /\ pc' = [pc EXCEPT ![w] = "replaced"]
  /\ UNCHANGED <<journal, durableName, backups, lock, handle, image, seq,
                 queue, step, failure, callVars, readVars, powerLosses>>

\* rename(2) puts the replacement at the journal's path.
RepairRename(w) ==
  /\ pc[w] = "replaced"
  /\ journal' = tmp[w]
  /\ pc' = [pc EXCEPT ![w] = "renamed"]
  /\ UNCHANGED <<files, created, durableName, backups, lock, handle, image, tmp,
                 seq, queue, step, failure, callVars, readVars, powerLosses>>

\* The handle appends go to after a repair: the path is opened again.
HandleKept(w) == handle[w]                       \* mutant: not reopened
HandleAfterRepair(w) == journal

\* The directory is synced, the path reopened, the old handle closed.
RepairFinish(w) ==
  /\ pc[w] = "renamed"
  /\ durableName' = journal
  /\ handle' = [handle EXCEPT ![w] = HandleAfterRepair(w)]
  /\ seq' = [seq EXCEPT ![w] = @ + 1]
  /\ image' = [image EXCEPT ![w] = Empty]
  /\ tmp' = [tmp EXCEPT ![w] = 0]
  /\ pc' = [pc EXCEPT ![w] = "open"]
  /\ UNCHANGED <<files, created, journal, backups, lock, queue, step, failure,
                 callVars, readVars, powerLosses>>

-----------------------------------------------------------------------------
(* JournalWriter.append and close *)

\* Calling append puts the entry behind those that have not settled, unless
\* close was called before: then it is refused at once.
CallAppend(w, e) ==
  /\ outcome[e] = "unasked"
  /\ \/ /\ pc[w] = "open"
        /\ queue' = [queue EXCEPT ![w] = Append(@, e)]
        /\ outcome' = [outcome EXCEPT ![e] = "queued"]
        /\ issued' = [issued EXCEPT ![w] = Append(@, e)]
     \/ /\ pc[w] = "closing"
        /\ outcome' = [outcome EXCEPT ![e] = "refused"]
        /\ UNCHANGED <<queue, issued>>
  /\ UNCHANGED <<fileVars, lock, pc, handle, image, tmp, seq, step, failure,
                 acked, readVars, powerLosses>>

\* The append at the head of the queue is settled and the next one may start.
Settle(w, how) ==
  /\ queue' = [queue EXCEPT ![w] = Tail(@)]
  /\ outcome' = [outcome EXCEPT ![Head(queue[w])] = how]
  /\ step' = [step EXCEPT ![w] = "idle"]

\* Mutant: a rejected append breaks the promise chain the next ones wait on.
RefuseAppendBreaksQueue(w) ==
  /\ queue[w] # <<>> /\ step[w] = "idle"
  /\ ~failure[w] /\ ~Parses(Head(queue[w]))
  /\ Settle(w, "refused")
  /\ UNCHANGED <<fileVars, lock, pc, handle, image, tmp, seq, failure,
                 issued, acked, readVars, powerLosses>>

\* Nothing is written for a record the schema refuses, or after an append
\* whose outcome is uncertain.
RefuseAppend(w) ==
  /\ queue[w] # <<>> /\ step[w] = "idle"
  /\ failure[w] \/ ~Parses(Head(queue[w]))
  /\ Settle(w, "refused")
  /\ UNCHANGED <<fileVars, lock, pc, handle, image, tmp, seq, failure,
                 issued, acked, readVars, powerLosses>>

\* What the file holds when a chunk without line feed arrives at its end.
WithFragment(f) == [recs |-> f.recs, durable |-> f.durable,
                    tail |-> IF f.tail = "none" THEN "torn" ELSE "corrupt"]

\* ... and when the rest of the line arrives.
WithLine(f, r) ==
  IF f.tail = "torn"
  THEN [recs |-> Append(f.recs, r), tail |-> "none", durable |-> f.durable]
  ELSE [recs |-> f.recs, tail |-> "corrupt", durable |-> f.durable]

\* writeAll is a loop over short writes: a first chunk ...
WriteFragment(w) ==
  /\ queue[w] # <<>> /\ step[w] = "idle"
  /\ ~failure[w] /\ Parses(Head(queue[w]))
  /\ files' = [files EXCEPT ![handle[w]] = WithFragment(@)]
  /\ step' = [step EXCEPT ![w] = "writing"]
  /\ UNCHANGED <<created, journal, durableName, backups, lock, pc, handle, image,
                 tmp, seq, queue, failure, callVars, readVars, powerLosses>>

\* ... and the rest, line feed included.
WriteLine(w) ==
  /\ step[w] = "writing"
  /\ files' = [files EXCEPT ![handle[w]] =
                 WithLine(@, RecordOf(Head(queue[w]), seq[w] + 1))]
  /\ step' = [step EXCEPT ![w] = "written"]
  /\ UNCHANGED <<created, journal, durableName, backups, lock, pc, handle, image,
                 tmp, seq, queue, failure, callVars, readVars, powerLosses>>

\* fsync returned: the record is committed and its append resolves.
SyncAppend(w) ==
  /\ step[w] = "written"
  /\ files' = [files EXCEPT ![handle[w]] = Synced(@)]
  /\ seq' = [seq EXCEPT ![w] = @ + 1]
  /\ acked' = acked \cup {RecordOf(Head(queue[w]), seq[w] + 1)}
  /\ Settle(w, "acked")
  /\ UNCHANGED <<created, journal, durableName, backups, lock, pc, handle, image,
                 tmp, failure, issued, readVars, powerLosses>>

\* Mutants of AppendFail: the caller is told that nothing was written; the append
\* is tried again.
FailureToldRefused(w) ==
  /\ queue[w] # <<>>
  /\ ~failure[w] /\ Parses(Head(queue[w]))
  /\ failure' = [failure EXCEPT ![w] = TRUE]
  /\ Settle(w, "refused")
  /\ UNCHANGED <<fileVars, lock, pc, handle, image, tmp, seq,
                 issued, acked, readVars, powerLosses>>
FailureRetried(w) ==
  /\ step[w] # "idle"
  /\ step' = [step EXCEPT ![w] = "idle"]
  /\ UNCHANGED <<fileVars, lock, pc, handle, image, tmp, seq, queue, failure,
                 callVars, readVars, powerLosses>>

\* A write or the fsync threw: how much of the line is there is unknown, and
\* the writer takes no further append.
AppendFail(w) ==
  /\ queue[w] # <<>>
  /\ ~failure[w] /\ Parses(Head(queue[w]))
  /\ failure' = [failure EXCEPT ![w] = TRUE]
  /\ Settle(w, "uncertain")
  /\ UNCHANGED <<fileVars, lock, pc, handle, image, tmp, seq,
                 issued, acked, readVars, powerLosses>>

\* close() refuses new appends at once ...
CallClose(w) ==
  /\ pc[w] = "open"
  /\ pc' = [pc EXCEPT ![w] = "closing"]
  /\ UNCHANGED <<fileVars, lock, handle, image, tmp, seq, queue, step, failure,
                 callVars, readVars, powerLosses>>

\* ... and waits for the queued ones before it releases the lock.
Close(w) ==
  /\ pc[w] = "closing" /\ queue[w] = <<>>
  /\ Forget(w)
  /\ UNCHANGED <<fileVars, callVars, readVars, powerLosses>>

-----------------------------------------------------------------------------
(* The process, the machine and the readers *)

Lost(ws) == [e \in Entries |->
               IF \E w \in ws : \E i \in DOMAIN queue[w] : queue[w][i] = e
               THEN "lost" ELSE outcome[e]]

\* A process dies.  What it wrote stays in the file; the kernel drops its lock.
Crash(w) ==
  /\ pc[w] # "closed"
  /\ Forget(w)
  /\ outcome' = Lost({w})
  /\ UNCHANGED <<fileVars, issued, acked, readVars, powerLosses>>

\* After a power loss the path names what the last synced directory named or
\* what was renamed over it, and the file keeps at least what was synced.
PowerLoss ==
  /\ powerLosses < MaxPowerLoss
  /\ powerLosses' = powerLosses + 1
  /\ journal' \in {journal, durableName}
  /\ durableName' = journal'
  /\ \/ UNCHANGED files
     \/ /\ journal' # 0
        /\ LET f == files[journal']
           IN \E k \in f.durable .. Len(f.recs), t \in {"none", "torn", "zero"} :
                /\ k < Len(f.recs) \/ f.tail # "none"
                /\ files' = [files EXCEPT ![journal'] =
                               [recs |-> SubSeq(f.recs, 1, k), tail |-> t,
                                durable |-> f.durable]]
  /\ lock' = NoWriter
  /\ pc' = [w \in Writers |-> "closed"]
  /\ handle' = [w \in Writers |-> 0]
  /\ image' = [w \in Writers |-> Empty]
  /\ tmp' = [w \in Writers |-> 0]
  /\ seq' = [w \in Writers |-> 0]
  /\ queue' = [w \in Writers |-> <<>>]
  /\ step' = [w \in Writers |-> "idle"]
  /\ failure' = [w \in Writers |-> FALSE]
  /\ outcome' = Lost(Writers)
  /\ reading' = 0 /\ seen' = <<>>
  /\ UNCHANGED <<created, backups, issued, acked>>

\* A reader opens the path without a lock ...
ReaderOpen ==
  /\ reading = 0 /\ journal # 0
  /\ reading' = journal
  /\ UNCHANGED <<fileVars, lock, writerVars, callVars, seen, powerLosses>>

\* ... is refused when the path was renamed under it (openRegular) ...
ReaderRefused ==
  /\ reading # 0 /\ reading # journal
  /\ reading' = 0
  /\ UNCHANGED <<fileVars, lock, writerVars, callVars, seen, powerLosses>>

\* ... and otherwise returns the complete lines of the extent it saw, or the
\* error of a scan that refuses the file.  A rename after openRegular's check
\* leaves it with the old file.
ReaderRead ==
  /\ reading # 0
  /\ seen' = IF Scans(files[reading]) THEN files[reading].recs ELSE <<>>
  /\ reading' = 0
  /\ UNCHANGED <<fileVars, lock, writerVars, callVars, powerLosses>>

WriterStep(w) ==
  \/ OpenLock(w) \/ OpenFile(w) \/ OpenSyncDirectory(w) \/ OpenScan(w)
  \/ OpenFail(w)
  \/ RepairBackup(w) \/ RepairReplace(w) \/ RepairRename(w) \/ RepairFinish(w)
  \/ \E e \in Entries : CallAppend(w, e)
  \/ RefuseAppend(w) \/ WriteFragment(w) \/ WriteLine(w) \/ SyncAppend(w)
  \/ AppendFail(w)
  \/ CallClose(w) \/ Close(w)
  \/ Crash(w)

Next ==
  \/ \E w \in Writers : WriterStep(w)
  \/ PowerLoss
  \/ ReaderOpen \/ ReaderRefused \/ ReaderRead

Spec == Init /\ [][Next]_vars

-----------------------------------------------------------------------------
(* Properties *)

TypeOK ==
  /\ files \in [FileIds -> Content]
  /\ created \in 0 .. MaxFile
  /\ journal \in 0 .. created /\ durableName \in 0 .. created
  /\ backups \subseteq Content
  /\ lock \in Writers \cup {NoWriter}
  /\ pc \in [Writers -> PC]
  /\ handle \in [Writers -> 0 .. created] /\ tmp \in [Writers -> 0 .. created]
  /\ image \in [Writers -> Content]
  /\ seq \in [Writers -> Nat]
  /\ queue \in [Writers -> Seq(Entries)]
  /\ step \in [Writers -> {"idle", "writing", "written"}]
  /\ failure \in [Writers -> BOOLEAN]
  /\ outcome \in [Entries -> {"unasked", "queued", "acked", "uncertain",
                              "refused", "lost"}]
  /\ issued \in [Writers -> Seq(Entries)]
  /\ acked \subseteq Record
  /\ reading \in 0 .. created /\ seen \in Seq(Record)
  /\ powerLosses \in 0 .. MaxPowerLoss

\* An append that resolved is on disk, at its sequence number, in the file the
\* path names now and in the one it would name after a power loss: neither a
\* repair nor an error nor a crash between two steps of either loses it
\* (writer.ts 1-11, "every append resolves only after its complete LF-ended
\* record and fsync").
AckedDurable ==
  \A r \in acked : \A i \in {journal, durableName} :
    /\ i # 0
    /\ r.seq \in 1 .. files[i].durable
    /\ files[i].recs[r.seq] = r

\* No sequence of short writes, failures, crashes and repairs by any number of
\* writers leaves a file that scanJournal refuses: fragments stay at the end,
\* sequence numbers are dense.  (Zero-filled blocks after a power loss are the
\* one exception, and are refused on purpose.)
AlwaysScans ==
  \A i \in 1 .. created :
    /\ files[i].tail # "corrupt"
    /\ \A n \in DOMAIN files[i].recs : files[i].recs[n].seq = n

\* A writer that takes appends writes to the file its path names, now and after
\* a power loss, and not to the inode a repair replaced (writer.ts 230-232).
AppendsReachNamedFile ==
  \A w \in Writers : pc[w] \in Writable => /\ handle[w] = journal
                                           /\ handle[w] = durableName

\* An append whose caller was refused (closed journal, invalid record, earlier
\* uncertain failure) left no record in any file, now or later.
RefusedNeverWritten ==
  \A e \in Entries : outcome[e] = "refused" =>
    \A i \in 1 .. created : \A n \in DOMAIN files[i].recs :
      files[i].recs[n].entry # e

\* Appends of one process reach the journal in the order append was called,
\* whoever else wrote in between, and none of them twice.
InOrder ==
  journal # 0 =>
    LET recs == files[journal].recs
    IN \A w \in Writers : \A i, j \in DOMAIN issued[w] : \A m, n \in DOMAIN recs :
         (i <= j /\ recs[m].entry = issued[w][i] /\ recs[n].entry = issued[w][j])
           => (m <= n /\ (i = j => m = n))

\* What a reader returned stays a prefix of the session, whatever repair or
\* append it raced (until a power loss takes unsynced records back).
ReadsStayPrefix ==
  seen # <<>> => /\ Len(seen) <= Len(files[journal].recs)
                 /\ SubSeq(files[journal].recs, 1, Len(seen)) = seen

-----------------------------------------------------------------------------
(* Why the promises are kept: the inductive invariant *)

\* The lock tells who is at it; a writer that is not open has nothing under way.
OneHolder ==
  \A w \in Writers : /\ pc[w] # "closed" <=> lock = w
                     /\ pc[w] \notin Writable => /\ step[w] = "idle" /\ ~failure[w]
                                                /\ queue[w] = <<>>

\* Every file, named or not, is dense and at most torn, and no more of it is
\* durable than is there.
FilesDense ==
  \A i \in FileIds :
    /\ files[i].tail # "corrupt"
    /\ files[i].durable <= Len(files[i].recs)
    /\ \A n \in DOMAIN files[i].recs : files[i].recs[n].seq = n

\* Which file the holder has open at each step, and what the path names.
HandleNamed ==
  \A w \in Writers :
    /\ pc[w] \in {"named", "opened", "torn", "backed", "replaced"} \cup Writable
         => handle[w] = journal /\ journal # 0
    /\ pc[w] \in {"opened", "torn", "backed", "replaced"} \cup Writable
         => durableName = journal

\* A repair works on what the file still holds, which it saved, and its replacement adds one
\* record to exactly that.
RepairExact ==
  \A w \in Writers :
    /\ pc[w] \in {"torn", "backed", "replaced"} =>
         /\ image[w] = files[journal] /\ seq[w] = Len(image[w].recs)
    /\ pc[w] \in {"backed", "replaced"} => image[w] \in backups
    /\ pc[w] = "replaced" => /\ tmp[w] # 0
                             /\ files[tmp[w]] = Repaired(image[w], seq[w] + 1)
    /\ pc[w] = "renamed" => /\ journal # 0 /\ files[journal].tail = "none"
                            /\ Len(files[journal].recs) = seq[w] + 1

\* How much of a line is in the file at each step of an append.
AppendExact ==
  \A w \in Writers : (pc[w] \in Writable /\ ~failure[w]) =>
    LET f == files[journal]
    IN /\ step[w] = "idle" => f.tail = "none" /\ Len(f.recs) = seq[w]
       /\ step[w] = "writing" => /\ queue[w] # <<>> /\ f.tail = "torn"
                                 /\ Len(f.recs) = seq[w]
       /\ step[w] = "written" => /\ queue[w] # <<>> /\ f.tail = "none"
                                 /\ Len(f.recs) = seq[w] + 1
                                 /\ f.recs[seq[w] + 1] = RecordOf(Head(queue[w]), seq[w] + 1)

\* A failed append leaves nothing under way.
FailedIsIdle == \A w \in Writers : failure[w] => step[w] = "idle"

\* All of it together holds at every step, and is what each step needs.
JournalInv ==
  /\ TypeOK /\ OneHolder /\ FilesDense /\ HandleNamed
  /\ RepairExact /\ AppendExact /\ FailedIsIdle /\ AckedDurable

\* What the path would name after a power loss is a prefix of what it names, and
\* files not created yet are empty.
OnDisk ==
  /\ journal = 0 => durableName = 0
  /\ journal # durableName =>
       LET now == files[journal].recs
       IN \/ durableName = 0 /\ now = <<>>
          \/ /\ durableName # 0
             /\ Len(files[durableName].recs) <= Len(now)
             /\ files[durableName].recs = SubSeq(now, 1, Len(files[durableName].recs))
  /\ \A i \in FileIds : i > created => files[i].recs = <<>>

\* The path is only moved to a repaired file once the damaged one is saved
\* (writer.ts 8-9, "preserve the damaged original, then publish").
BackupBeforeRepair ==
  [][(journal # 0 /\ journal' # journal /\ powerLosses' = powerLosses)
       => files[journal] \in backups]_vars

\* The complete lines of the named file are the log DurableLog describes.
DL == INSTANCE DurableLog
        WITH Payload <- Entries \cup {Repair},
             log <- IF journal = 0 THEN <<>> ELSE files[journal].recs,
             promised <- acked
ImplementsDurableLog == DL!Spec

(***************************************************************************)
(* The event loop and the kernel run what was started: every step of an    *)
(* append or a close that can be taken is taken.  Callers, failures and    *)
(* crashes owe nothing.                                                    *)
(***************************************************************************)
Fairness ==
  \A w \in Writers : /\ WF_vars(RefuseAppend(w)) /\ WF_vars(WriteFragment(w))
                     /\ WF_vars(WriteLine(w)) /\ WF_vars(SyncAppend(w))
                     /\ WF_vars(Close(w))

FairSpec == Spec /\ Fairness

\* Every append settles, one way or another, also behind a failed one or a
\* close; and a close releases the lock.
CallsSettle ==
  /\ \A e \in Entries : outcome[e] = "queued" ~> outcome[e] # "queued"
  /\ \A w \in Writers : pc[w] = "closing" ~> lock # w
=============================================================================
