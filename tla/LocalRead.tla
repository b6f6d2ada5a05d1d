------------------------------ MODULE LocalRead ------------------------------
(***************************************************************************)
(* Paths and reads of the local driver: resolve.ts and the read, stat and  *)
(* search-root calls of driver.ts, in                                      *)
(* packages/stub-client/src/drivers/local-ts.                              *)
(*                                                                         *)
(* A call resolves the path d/f of a workspace, one system call a step,    *)
(* while other programs may replace either name at most MaxChanges times.  *)
(* What it verified is an open handle, which a read then drains in chunks. *)
(* The code between two system calls is synchronous, so only a yield or a  *)
(* sleep lets the deadline or the caller in.  A file is a sequence of      *)
(* bytes that are a line feed or not.                                      *)
(***************************************************************************)
EXTENDS Naturals, FiniteSets, SequencesExt

CONSTANTS
  None,       \* no value
  MaxBytes,   \* the byte budget
  MaxFile,    \* bound: bytes a read meets before the end of the file
  MaxChanges, \* bound: replacements during the resolution
  Ranges      \* line ranges a read may ask for

VARIABLES
  dir, leaf,  \* what the names d and f are
  changes,
  call, cwd, range,
  pc,
  depth,      \* missing components the walk of stat has passed
  canonical,  \* where the path led when it was canonicalized
  recorded,   \* the identity lstat saw
  fd,         \* the file of the open handle
  aborted,    \* the deadline's signal
  got, out,   \* bytes read, bytes yielded
  carry, line, feeds, last,
  truncated, total, result

tree == <<dir, leaf, changes>>
request == <<call, cwd, range>>
path == <<depth, canonical, recorded>>
bytes == <<got, out, carry, line, feeds, last, truncated>>
vars == <<tree, request, pc, path, fd, aborted, bytes, total, result>>

Whole == [start |-> 1, end |-> 0]   \* no range was given
Regular == {"file1", "file2"}
Entries == Regular \cup {"fifo", "folder"}           \* what f itself may be
Links == {"linkIn", "linkOut", "linkDead"}           \* to a file of the workspace, beyond it, to nothing
Calls == {"read", "stat", "search", "cwd"}
Bytes == {"x", "lf"}

Init ==
  /\ dir \in {"real", "link", "gone"} /\ leaf \in Entries \cup Links \cup {"gone"}
  /\ changes = 0
  /\ call \in Calls /\ cwd \in {"root", "d"}
  /\ range \in IF call = "read" THEN Ranges \cup {Whole} ELSE {Whole}
  /\ aborted \in IF call = "read" THEN BOOLEAN ELSE {FALSE}
  /\ pc = "start" /\ depth = 0 /\ canonical = None /\ recorded = None /\ fd = None
  /\ got = <<>> /\ out = <<>> /\ carry = <<>> /\ line = 0 /\ feeds = 0 /\ last = None
  /\ truncated = FALSE /\ total = None /\ result = None

Over == pc \in {"done", "left"}
Resolving == pc \in {"start", "probe", "ancestor", "realpath", "lstat", "open", "fstat", "again"}

\* Once a handle is verified no name is looked up again.
Replace ==
  /\ Resolving /\ changes < MaxChanges
  /\ changes' = changes + 1
  /\ \/ dir' \in {"real", "link", "gone"} \ {dir} /\ UNCHANGED leaf
     \/ leaf' \in (Entries \cup Links \cup {"gone"}) \ {leaf} /\ UNCHANGED dir
  /\ UNCHANGED <<request, pc, path, fd, aborted, bytes, total, result>>

-----------------------------------------------------------------------------
(* What the system calls answer of the tree as it is *)

RealpathOfDir == CASE dir = "gone" -> "missing" [] dir = "link" -> "beyond" [] OTHER -> "here"

\* realpath: in place, another file of the workspace, beyond it, or missing.
Realpath ==
  IF dir # "real" THEN RealpathOfDir
  ELSE CASE leaf \in {"gone", "linkDead"} -> "missing"
         [] leaf = "linkOut" -> "beyond"
         [] leaf = "linkIn" -> "aside"
         [] OTHER -> "here"

\* The entry a canonical name has: d is followed, the last component is not.
EntryAt(place) ==
  CASE place = "aside" -> "aside"
    [] place # "aside" /\ dir # "real" -> RealpathOfDir
    [] OTHER -> IF leaf = "gone" THEN "missing" ELSE leaf

IsInsideRoot(place) == place \in {"here", "aside"}

-----------------------------------------------------------------------------
(* Resolution *)

Goto(step) == pc' = step /\ UNCHANGED <<fd, total, result>>

\* The call ends with an error or an answer; whatever it had open is closed.
EndWith(answer) == pc' = "done" /\ result' = answer /\ fd' = None /\ UNCHANGED total

\* readStream looks at the signal first; then assertCwd, which tells a missing
\* directory from an escape.  A search without a root, and exec, end there.
Start ==
  /\ pc = "start"
  /\ LET where == IF cwd = "root" THEN "here" ELSE RealpathOfDir
     IN  CASE aborted -> EndWith("timeout")
           [] ~ aborted /\ where = "missing" -> EndWith("io")
           [] ~ aborted /\ where = "beyond" -> EndWith("escape")
           [] OTHER -> CASE call = "cwd" -> EndWith("named")
                         [] call = "stat" -> Goto("probe")
                         [] OTHER -> Goto("realpath")
  /\ UNCHANGED <<tree, request, path, aborted, bytes>>

\* resolveMissing: up from the path to the deepest name that exists, by lstat.
Probe ==
  /\ pc = "probe"
  /\ LET there == CASE depth = 0 -> EntryAt("here") # "missing"
                    [] depth = 1 -> dir # "gone"
                    [] OTHER -> TRUE
     IN  IF there THEN Goto("ancestor") /\ UNCHANGED depth
                  ELSE Goto("probe") /\ depth' = depth + 1
  /\ UNCHANGED <<tree, request, canonical, recorded, aborted, bytes>>

\* The ancestor is canonicalized in a second step; what is missing then is an
\* error as node raised it.  With nothing missing the path is resolved afresh.
Ancestor ==
  /\ pc = "ancestor"
  /\ LET where == CASE depth = 0 -> Realpath [] depth = 1 -> RealpathOfDir [] OTHER -> "here"
     IN  CASE where = "missing" -> EndWith("raw")
           [] where = "beyond" -> EndWith("escape")
           [] OTHER -> IF depth > 0 THEN EndWith("absent") ELSE Goto("realpath")
  /\ UNCHANGED <<tree, request, path, aborted, bytes>>

\* joinAndCanonicalize and assertInside; ENOENT leaves canonicalize as it is.
Canonicalize ==
  /\ pc = "realpath"
  /\ CASE Realpath = "missing" -> EndWith("raw") /\ UNCHANGED canonical
       [] Realpath = "beyond" -> EndWith("escape") /\ UNCHANGED canonical
       [] OTHER -> Goto("lstat") /\ canonical' = Realpath
  /\ UNCHANGED <<tree, request, depth, recorded, aborted, bytes>>

Lstat ==
  /\ pc = "lstat"
  /\ IF EntryAt(canonical) = "missing"
       THEN EndWith("io") /\ UNCHANGED recorded
       ELSE Goto("open") /\ recorded' = EntryAt(canonical)
  /\ UNCHANGED <<tree, request, depth, canonical, aborted, bytes>>

\* O_NOFOLLOW: a link in the last place is refused.
Open ==
  /\ pc = "open"
  /\ LET entry == EntryAt(canonical)
     IN  CASE entry = "missing" -> EndWith("io")
           [] entry \in Links -> EndWith("escape")
           [] OTHER -> pc' = "fstat" /\ fd' = entry /\ UNCHANGED <<total, result>>
  /\ UNCHANGED <<tree, request, path, aborted, bytes>>

\* The handle is the file lstat saw.
Fstat ==
  /\ pc = "fstat"
  /\ IF fd # recorded THEN EndWith("escape") ELSE Goto("again")
  /\ UNCHANGED <<tree, request, path, aborted, bytes>>

\* Mutant: the handle is accepted without a second look at the name.
TrustHandle ==
  /\ pc = "again" /\ Goto("opened")
  /\ UNCHANGED <<tree, request, path, aborted, bytes>>

\* And its name still leads where it led.
CanonicalizeAgain ==
  /\ pc = "again"
  /\ LET fresh == IF canonical = "aside" THEN "aside" ELSE Realpath
     IN  IF fresh # canonical \/ ~ IsInsideRoot(fresh) THEN EndWith("escape") ELSE Goto("opened")
  /\ UNCHANGED <<tree, request, path, aborted, bytes>>

\* stat and searchRootFor ask the handle and close it; a read goes on with it.
UseHandle ==
  /\ pc = "opened"
  /\ CASE call = "stat" -> EndWith("entry")
       [] call = "search" -> EndWith(IF fd = "folder" THEN "named" ELSE "io")
       [] OTHER -> Goto("reading")
  /\ UNCHANGED <<tree, request, path, aborted, bytes>>

-----------------------------------------------------------------------------
(* readRaw and readRanged *)

control == <<tree, request, path, fd, aborted, total, result>>

Ranged == range # Whole

\* The signal is looked at before every read.
SeesAbort ==
  /\ pc = "reading" /\ aborted
  /\ pc' = "returned"
  /\ UNCHANGED <<control, bytes>>

\* A fifo nobody has written to yet.
Again ==
  /\ pc = "reading" /\ ~ aborted /\ fd = "fifo"
  /\ pc' = "sleeping"
  /\ UNCHANGED <<control, bytes>>

Wake ==
  /\ pc = "sleeping" /\ pc' = "reading"
  /\ UNCHANGED <<control, bytes>>

\* A directory always, a file that fails: the finally blocks close the handle.
ReadFails ==
  /\ pc = "reading" /\ ~ aborted
  /\ EndWith("io")
  /\ UNCHANGED <<tree, request, path, aborted, bytes>>

\* The counter: as much of the bytes as there is room for, of which a read that
\* is not truncated always has some.
Allow(some) == SubSeq(some, 1, Min({Len(some), MaxBytes - Len(out)}))

Emit(some) == out' = out \o Allow(some) /\ pc' = "yielded"

Keep == out' = out /\ pc' = "reading"

Feeds(some) == Cardinality({i \in DOMAIN some : some[i] = "lf"})

\* The range's last line has been passed; the rest is read for its line feeds.
RangeComplete == line >= range.end

\* Some bytes, as many as the file has ready.
ReadChunk ==
  /\ pc = "reading" /\ ~ aborted /\ fd # "folder"
  /\ \E chunk \in UNION {[1 .. n -> Bytes] : n \in 1 .. MaxFile - Len(got)} :
       /\ got' = got \o chunk
       /\ last' = chunk[Len(chunk)]
       /\ feeds' = feeds + Feeds(chunk)
       /\ CASE Ranged /\ ~ RangeComplete ->
                 carry' = carry \o chunk /\ pc' = "lines" /\ UNCHANGED out
            [] ~ Ranged /\ ~ truncated -> Emit(chunk) /\ UNCHANGED carry
            [] OTHER -> Keep /\ UNCHANGED carry
  /\ UNCHANGED <<control, line, truncated>>

\* Whether emitLine yields line n.
InRange(n) == ~ truncated /\ n >= range.start /\ n <= range.end

NextFeed == CHOOSE i \in DOMAIN carry : carry[i] = "lf" /\ \A j \in 1 .. i - 1 : carry[j] # "lf"

\* The next whole line of what was read; what is behind the range is dropped.
TakeLine ==
  /\ pc = "lines"
  /\ CASE RangeComplete -> carry' = <<>> /\ Keep /\ UNCHANGED line
       [] ~ RangeComplete /\ "lf" \notin Range(carry) -> Keep /\ UNCHANGED <<carry, line>>
       [] OTHER ->
            /\ line' = line + 1
            /\ carry' = SubSeq(carry, NextFeed + 1, Len(carry))
            /\ IF InRange(line + 1)
                 THEN Emit(SubSeq(carry, 1, NextFeed))
                 ELSE pc' = "lines" /\ UNCHANGED out
  /\ UNCHANGED <<control, got, feeds, last, truncated>>

\* Mutant: a last line without a line feed is not counted.
CountFeeds == IF got = <<>> THEN 0 ELSE feeds

\* Lines: a last one that does not end in a line feed counts too.
Lines == feeds + (IF last = "x" THEN 1 ELSE 0)

\* The end of the file; a range yields what is left as its last line.
ReadEnd ==
  /\ pc = "reading" /\ ~ aborted /\ fd # "folder"
  /\ total' = Lines
  /\ IF Ranged /\ ~ RangeComplete /\ carry # <<>> /\ ~ truncated
       THEN line' = line + 1 /\ carry' = <<>>
            /\ IF InRange(line + 1) THEN Emit(carry) ELSE out' = out /\ pc' = "returned"
       ELSE out' = out /\ pc' = "returned" /\ UNCHANGED <<line, carry>>
  /\ UNCHANGED <<tree, request, path, fd, aborted, got, feeds, last, truncated, result>>

\* Where the consumer left off.  A budget that is met is used up.
Resume ==
  /\ pc = "yielded"
  /\ truncated' = (Len(out) >= MaxBytes)
  /\ pc' = CASE total # None -> "returned" [] total = None /\ Ranged -> "lines" [] OTHER -> "reading"
  /\ UNCHANGED <<control, got, out, carry, line, feeds, last>>

\* The consumer is done with it: the finally blocks close and dispose.
Leave ==
  /\ pc = "yielded" /\ pc' = "left" /\ fd' = None
  /\ UNCHANGED <<tree, request, path, aborted, bytes, total, result>>

\* The signal decides, also when it came after the last byte.
Finish ==
  /\ pc = "returned"
  /\ pc' = "done" /\ fd' = None
  /\ result' = IF aborted THEN "timeout" ELSE "ok"
  /\ total' = IF aborted THEN None ELSE total
  /\ UNCHANGED <<tree, request, path, aborted, bytes>>

\* The deadline or the caller, at a yield, a sleep, or the await of the result.
Abort ==
  /\ call = "read" /\ ~ aborted /\ pc \in {"yielded", "sleeping", "returned"}
  /\ aborted' = TRUE
  /\ UNCHANGED <<tree, request, pc, path, fd, bytes, total, result>>

Resolve ==
  Start \/ Probe \/ Ancestor \/ Canonicalize \/ Lstat \/ Open \/ Fstat \/ CanonicalizeAgain \/ UseHandle
Drain == SeesAbort \/ Again \/ ReadFails \/ ReadChunk \/ TakeLine \/ ReadEnd \/ Finish
Step == Resolve \/ Drain

Next == Replace \/ Step \/ Wake \/ Resume \/ Leave \/ Abort

Spec == Init /\ [][Next]_vars

\* Synchronous code runs on, the consumer goes on or leaves, and the deadline,
\* once due, is run when the loop of events gets its turn, as each sleep lets it.
Fairness == WF_vars(Step) /\ WF_vars(Wake) /\ WF_vars(Resume \/ Leave) /\ SF_vars(Abort)

FairSpec == Spec /\ Fairness

-----------------------------------------------------------------------------
(* Properties *)

\* Types; and no call that is over has a handle open, however it ended.
TypeOK ==
  /\ fd \in Entries \cup {"aside", "beyond", None}
  /\ Over => fd = None
  /\ pc = "done" <=> result # None
  /\ Len(got) <= MaxFile /\ Len(out) <= MaxBytes
  /\ total \in {None} \cup 0 .. MaxFile

LineOf(some, i) == 1 + Feeds(SubSeq(some, 1, i - 1))
UpToLine(some, n) == Cardinality({i \in DOMAIN some : LineOf(some, i) <= n})

\* What was asked for of the bytes of a file.
Wanted(some) ==
  IF Ranged THEN SubSeq(some, UpToLine(some, range.start - 1) + 1, UpToLine(some, range.end)) ELSE some

\* What a read yields is, at every yield, a first part of what was asked for of
\* what the file had, however it came in chunks.  A read that ends ok yielded all
\* of it, or as much as the budget allows and says so when the budget was met, and
\* counts the lines of the whole file; one the deadline or the caller stopped says
\* timeout, without a count.
ReadIsExact ==
  /\ IsPrefix(out, Wanted(got))
  /\ result = "ok" =>
       /\ ~ aborted
       /\ out = SubSeq(Wanted(got), 1, Min({Len(Wanted(got)), MaxBytes}))
       /\ truncated <=> Len(Wanted(got)) >= MaxBytes
       /\ total = Cardinality({LineOf(got, i) : i \in DOMAIN got})
  /\ result = "timeout" => aborted /\ total = None

\* What is read, or named to a search, is in the workspace, unless two names
\* changed while it was resolved; and while nothing changes an error says why: a
\* path that leads to a file of the workspace is never refused as an escape, and
\* one that leads beyond it always is.
HandleIsInside ==
  /\ (pc \in {"opened", "reading", "lines", "yielded", "sleeping"} /\ fd = "beyond") => changes >= 2
  /\ (changes = 0 /\ pc = "done" /\ ~ aborted) =>
       /\ result = "escape" <=> (IF call = "cwd" THEN cwd = "d" /\ dir = "link"
                                 ELSE Realpath = "beyond" \/ (cwd = "d" /\ dir = "link"))
       /\ result = "absent" => Realpath = "missing"

\* Every call ends: the bytes of the file do, and a fifo that has none is left at
\* the deadline.
Ends == <>Over
=============================================================================
