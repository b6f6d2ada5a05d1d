------------------------------ MODULE BlobStore ------------------------------
(***************************************************************************)
(* The content-addressed store of oversized tool output:                   *)
(* packages/storage/src/blobs/store.ts under the bounding of               *)
(* packages/context/src/bound.ts and packages/cli/src/tool-runner.ts.      *)
(*                                                                         *)
(* One address is modelled, the one all the puts have in common: blobs of  *)
(* different content share no file.  A put runs inside a process and may   *)
(* overlap with others of the same process, as the tool calls of one       *)
(* response do.  Inodes are numbered; 0 is "no such file".                 *)
(***************************************************************************)
EXTENDS Bounding, FiniteSets

CONSTANTS
  Puts,           \* puts of the same bytes
  Pid,            \* the process id each of them runs under
  FanoutDurable,  \* the directory of the address was on disk before
  IoMayFail,      \* a system call may fail, whichever it is
  MaxCrash,       \* bound: how often a process dies
  MaxPowerLoss    \* bound: how often the machine loses power

Pids == {Pid[p] : p \in Puts}

ASSUME ConstantsAssumption ==
  /\ IsFiniteSet(Puts)
  /\ Pid \in [Puts -> Pids]
  /\ FanoutDurable \in BOOLEAN /\ IoMayFail \in BOOLEAN
  /\ MaxCrash \in Nat /\ MaxPowerLoss \in Nat

VARIABLES
  file,      \* the inode at the blob's address
  durable,   \* the inode the address has on disk
  temporary, \* the inode at <address>.tmp.<pid>, for every process id
  content,   \* how much of the bytes each inode holds
  created,   \* how many inodes were created
  pc, held,  \* where each put is, and the inode it has open
  outcome,   \* what came of it
  crashes, powerLosses

diskVars == <<file, durable, temporary, content, created>>
putVars  == <<pc, held, outcome>>
vars == <<diskVars, putVars, crashes, powerLosses>>

Inodes == 1 .. Cardinality(Puts)
Ended  == {"idle", "done", "dead"}

Init ==
  /\ file = 0 /\ durable = 0
  /\ temporary = [pid \in Pids |-> 0]
  /\ content = [i \in Inodes |-> "empty"] /\ created = 0
  /\ pc = [p \in Puts |-> "idle"] /\ held = [p \in Puts |-> 0]
  /\ outcome = [p \in Puts |-> "none"]
  /\ crashes = 0 /\ powerLosses = 0

\* Bounding a result that is too large starts with a put of all of it.
Start(p) ==
  /\ pc[p] = "idle"
  /\ pc' = [pc EXCEPT ![p] = "lookup"]
  /\ UNCHANGED <<diskVars, held, outcome, crashes, powerLosses>>

\* The put returns the blob's reference: the result is cut (Bounding) and carries it.
Refer(p, how) ==
  /\ outcome' = [outcome EXCEPT ![p] = how]
  /\ pc' = [pc EXCEPT ![p] = "done"]
  /\ held' = [held EXCEPT ![p] = 0]

\* The put throws: the tool runner lets the result through as it is.
Throw(p) == Refer(p, "raw")

Goto(p, where) == pc' = [pc EXCEPT ![p] = where]

-----------------------------------------------------------------------------
(* putBlob *)

\* The directories are made and checked, then openRegular on the address: open,
\* and compare what was opened with what the path names by now.  ENOENT, and only
\* that, leads to writing the file.
Lookup(p) ==
  /\ pc[p] = "lookup"
  /\ \/ /\ held' = [held EXCEPT ![p] = file]
        /\ Goto(p, IF file = 0 THEN "create" ELSE "found")
        /\ UNCHANGED outcome
     \/ IoMayFail /\ Throw(p)
  /\ UNCHANGED <<diskVars, crashes, powerLosses>>

LookupVerify(p) ==
  /\ pc[p] = "found"
  /\ \/ held[p] = file /\ Refer(p, "found")
     \/ (held[p] # file \/ IoMayFail) /\ Throw(p)
  /\ UNCHANGED <<diskVars, crashes, powerLosses>>

\* Mutant: one temporary name for every process.
OneTemp(p) == CHOOSE pid \in Pids : TRUE

\* The temporary file's name is the process's.
TempOf(p) == Pid[p]

\* It is created exclusively: if it exists, or cannot be created, the put is over.
Create(p) ==
  /\ pc[p] = "create"
  /\ \/ /\ temporary[TempOf(p)] = 0
        /\ created' = created + 1
        /\ temporary' = [temporary EXCEPT ![TempOf(p)] = created + 1]
        /\ held' = [held EXCEPT ![p] = created + 1]
        /\ Goto(p, "created") /\ UNCHANGED outcome
     \/ /\ temporary[TempOf(p)] # 0 \/ IoMayFail
        /\ Throw(p) /\ UNCHANGED <<temporary, created>>
  /\ UNCHANGED <<file, durable, content, crashes, powerLosses>>

\* The rest of openRegular: what it created may be gone, or not be inspected; the
\* temporary file then stays where it is.
CreateVerify(p) ==
  /\ pc[p] = "created"
  /\ \/ held[p] = temporary[TempOf(p)] /\ Goto(p, "write") /\ UNCHANGED <<held, outcome>>
     \/ (held[p] # temporary[TempOf(p)] \/ IoMayFail) /\ Throw(p)
  /\ UNCHANGED <<diskVars, crashes, powerLosses>>

\* writeAll is a loop over short writes: some bytes ...
WriteSome(p) ==
  /\ pc[p] = "write"
  /\ content' = [content EXCEPT ![held[p]] = "partial"]
  /\ Goto(p, "writing")
  /\ UNCHANGED <<file, durable, temporary, created, held, outcome, crashes, powerLosses>>

\* ... and the rest of them.
WriteRest(p) ==
  /\ pc[p] = "writing"
  /\ content' = [content EXCEPT ![held[p]] = "whole"]
  /\ Goto(p, "written")
  /\ UNCHANGED <<file, durable, temporary, created, held, outcome, crashes, powerLosses>>

\* Mutant: the rename does not wait for the fsync.
SyncLater(p) ==
  /\ pc[p] = "written"
  /\ Goto(p, "synced")
  /\ UNCHANGED <<diskVars, held, outcome, crashes, powerLosses>>

\* fsync and close.
Sync(p) ==
  /\ pc[p] = "written"
  /\ content' = [content EXCEPT ![held[p]] = "synced"]
  /\ Goto(p, "synced")
  /\ UNCHANGED <<file, durable, temporary, created, held, outcome, crashes, powerLosses>>

\* A write, the fsync or the close throws; the temporary file stays where it is.
WriteFail(p) ==
  /\ IoMayFail /\ pc[p] \in {"write", "writing", "written", "synced"}
  /\ Throw(p)
  /\ UNCHANGED <<diskVars, crashes, powerLosses>>

\* The temporary name, whatever file it names by now, moves to the address.
Rename(p) ==
  /\ pc[p] = "synced"
  /\ \/ /\ temporary[TempOf(p)] # 0
        /\ file' = temporary[TempOf(p)]
        /\ temporary' = [temporary EXCEPT ![TempOf(p)] = 0]
        /\ Goto(p, "renamed")
     \/ /\ temporary[TempOf(p)] = 0 \/ IoMayFail
        /\ Goto(p, "failing") /\ UNCHANGED <<file, temporary>>
  /\ UNCHANGED <<durable, content, created, held, outcome, crashes, powerLosses>>

SyncDirectory(p) ==
  /\ pc[p] = "renamed"
  /\ \/ durable' = file /\ Goto(p, "published")
     \/ IoMayFail /\ Goto(p, "failing") /\ UNCHANGED durable
  /\ UNCHANGED <<file, temporary, content, created, held, outcome, crashes, powerLosses>>

\* Mutant: the clean-up of a failed put takes the address.
UnlinkAddress(p) ==
  /\ \/ pc[p] = "published" /\ Refer(p, "published") /\ UNCHANGED file
     \/ pc[p] = "failing" /\ Throw(p) /\ file' = 0
  /\ UNCHANGED <<temporary, durable, content, created, crashes, powerLosses>>

\* The finally unlinks the temporary name, and ignores that it is not there or
\* that it stays.
Unlink(p) ==
  /\ \/ pc[p] = "published" /\ Refer(p, "published")
     \/ pc[p] = "failing" /\ Throw(p)
  /\ \/ temporary' = [temporary EXCEPT ![TempOf(p)] = 0]
     \/ IoMayFail /\ UNCHANGED temporary
  /\ UNCHANGED <<file, durable, content, created, crashes, powerLosses>>

-----------------------------------------------------------------------------
(* Processes and the machine *)

Die(pids) ==
  /\ pc' = [p \in Puts |-> IF Pid[p] \in pids /\ pc[p] \notin Ended
                           THEN "dead" ELSE pc[p]]
  /\ held' = [p \in Puts |-> IF Pid[p] \in pids THEN 0 ELSE held[p]]
  /\ UNCHANGED outcome

\* A process dies in the middle of its puts; its id may be given out again.
Crash(pid) ==
  /\ crashes < MaxCrash /\ crashes' = crashes + 1
  /\ \E p \in Puts : Pid[p] = pid /\ pc[p] \notin Ended
  /\ Die({pid})
  /\ UNCHANGED <<diskVars, powerLosses>>

\* What was not synced may be gone: bytes, temporary names, the new name.
PowerLoss ==
  /\ powerLosses < MaxPowerLoss /\ powerLosses' = powerLosses + 1
  /\ file' \in {file, IF FanoutDurable THEN durable ELSE 0}
  /\ durable' = file'
  /\ content' = [i \in Inodes |-> IF content[i] = "synced" THEN "synced" ELSE "partial"]
  /\ temporary' \in {temporary, [pid \in Pids |-> 0]}
  /\ Die(Pids)
  /\ UNCHANGED <<created, crashes>>

PutStep(p) ==
  \/ Lookup(p) \/ LookupVerify(p) \/ Create(p) \/ CreateVerify(p)
  \/ WriteSome(p) \/ WriteRest(p) \/ Sync(p) \/ WriteFail(p)
  \/ Rename(p) \/ SyncDirectory(p) \/ Unlink(p)

Next ==
  \/ \E p \in Puts : Start(p) \/ PutStep(p)
  \/ \E pid \in Pids : Crash(pid)
  \/ PowerLoss

Spec == Init /\ [][Next]_vars

-----------------------------------------------------------------------------
(* Properties *)

\* Types; a put that is over, whichever way, has no file open.
TypeOK ==
  /\ file \in 0 .. created /\ durable \in 0 .. created
  /\ temporary \in [Pids -> 0 .. created]
  /\ content \in [Inodes -> {"empty", "partial", "whole", "synced"}]
  /\ created \in 0 .. Cardinality(Puts)
  /\ pc \in [Puts -> Ended \cup {"lookup", "found", "create", "created", "write", "writing",
                                 "written", "synced", "renamed", "published", "failing"}]
  /\ held \in [Puts -> 0 .. created]
  /\ outcome \in [Puts -> {"none", "found", "published", "raw"}]
  /\ \A p \in Puts : pc[p] \in Ended => held[p] = 0
  /\ crashes \in 0 .. MaxCrash /\ powerLosses \in 0 .. MaxPowerLoss

\* Three puts of one process id of which none found the blob: one can remove the
\* temporary file of another, and that one then publish what the third has begun
\* to write.
Missed(p) == pc[p] \notin {"idle", "lookup", "found"} /\ outcome[p] # "found"

Crowded ==
  \E p, q, r \in Puts : /\ p # q /\ q # r /\ p # r
                       /\ Pid[p] = Pid[q] /\ Pid[q] = Pid[r]
                       /\ Missed(p) /\ Missed(q) /\ Missed(r)

\* Whatever a process or the machine dies in, the address holds all of the
\* bytes or is not there: the store never rewrites it, so a partial file there
\* would stay for good (store.ts 7-10).  Crowded is the exception.  The types of
\* the state are with it, and that a put which is over has closed its file.
PublishedIsWhole == TypeOK /\ (Crowded \/ (file # 0 => content[file] = "synced"))

\* A reference a result carries leads to the bytes (AC-19.3), also when other
\* puts of them fail later.  Power loss is the exception where the put found a
\* file whose name another one has not synced, or the directory itself is new:
\* then there may be no file.  Crowded is the other: it may be partial.
RefRetrievable ==
  \A p \in Puts :
    (\/ outcome[p] = "published" /\ (FanoutDurable \/ powerLosses = 0)
     \/ outcome[p] = "found" /\ powerLosses = 0)
      => file # 0 /\ (Crowded \/ content[file] = "synced")

\* The temporary name is in the way of a put, which so lets its result through
\* uncut though nothing fails, by the doing of another of its process id: one
\* between the creation of its file and the rename, one that died, or one that
\* failed and left its file for good.  And what a put created is not there any
\* more only where another of its process id has come to its own rename.  Puts of
\* other processes are never in its way.
OnlyOwnTemporaryBlocks ==
  /\ \A p \in Puts : (pc[p] = "create" /\ temporary[TempOf(p)] # 0) =>
       \E q \in Puts : /\ Pid[q] = Pid[p] /\ outcome[q] # "found" /\ outcome[q] # "published"
                      /\ pc[q] \in {"created", "write", "writing", "written", "synced",
                                   "failing", "done", "dead"}
  /\ \A p \in Puts : (pc[p] = "created" /\ held[p] # temporary[TempOf(p)]) =>
       \E q \in Puts : /\ q # p /\ Pid[q] = Pid[p]
                      /\ pc[q] \in {"renamed", "published", "failing", "done", "dead"}

\* A result whose put returned a reference obeys its budget (AC-19.4) and tells the
\* cut exactly, whatever its size and wherever its characters lie.
CutIsExact ==
  (\E p \in Puts : outcome[p] \in {"found", "published"}) => AllCutsExact

\* Where nothing fails, every oversized result is cut (AC-19.4: a context entry
\* is never above its byte budget).
OutcomesBounded == \A p \in Puts : outcome[p] # "raw"
=============================================================================
