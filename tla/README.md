# A verification project for om-code

om-code is a local coding agent: a terminal program that takes a user's messages, asks a
language model what to do, runs the tools the model calls, and keeps every step of it in an
append-only journal from which a session can be resumed. This directory holds TLA+ models of
the parts of it where order, concurrency, failure and time decide whether it is correct, the
TLC runs that check them on small instances, and TLAPS proofs for the parts whose properties
must hold for every size.

Paths below are relative to `src/`. "AC-x.y" is an acceptance criterion of
`docs/om-code-agent-execution-backlog.md`.

- [1. Inventory](#1-inventory): the system's parts
- [2. Modules](#2-modules): what models what, and how
- [3. Runs](#3-runs): what is checked, within which bounds
- [4. Fairness](#4-fairness)
- [5. Proofs](#5-proofs)
- [6. Findings](#6-findings): where code and documents disagree
- [7. What is left out](#7-what-is-left-out)
- [8. Plan](#8-plan)

To check a module: `tlc -workers 2 -config MCJournal.cfg MCJournal`; to check its proofs:
`tlapm JournalProofs.tla`.

## 1. Inventory

### 1.1 How the parts fit

```
 REPL / run command ── turn driver ── runTurn (kernel) ──┬── ModelProvider (providers)
   lines, ^C             pulls states    one generator   │     HTTP, retries, SSE, timers
                                         per user line   ├── ToolRunner (cli) ── tools ── local driver
                                                         │     policy (policy)     rg, child processes, files
                                                         │     bounding ── BlobStore (storage)
                                                         └── JournalWriter (storage) ── session view (session)
```

Everything above runs in one Node process: interleaving happens at each `await` and at each
`yield` of a generator, between promise chains started together (`Promise.all` over the tool
calls of a response), and with what Node's event loop delivers: timers, child-process events,
the user's interrupt. Beyond the process there are: other om-code processes on the same
session or the same blob directory, the file system and its durability rules, ripgrep and the
programs a tool starts, and the model endpoint.

### 1.2 Components

| Component | State | Operations | What is hard | What makes it correct |
|---|---|---|---|---|
| **Session journal** `packages/storage/src/journal` | the JSONL file, its lock, the `.corrupt` backups; per writer: handle, next `seq`, promise queue, `failed`, `closed` | `JournalWriter.open` (lock, scan, repair), `append`, `close`; `JournalReader.read` | short writes, death at any byte, fsync that fails after the write, repair by rename under other readers, power loss between rename and directory sync | what was acknowledged is never lost, changed or reordered; a file always scans; a writer writes to the file the path names; a refused append leaves nothing |
| **Agent loop** `packages/kernel/src/loop.ts` | TurnState, iteration, the pending append, the view | `runTurn`: user message, prompt, stream, assistant message, tools, error, turn_end | errors of an append at any of eight places, interrupt between any two awaits, calls joined by `Promise.all` | results before the next inference; the journal tells the outcome the host is told; a turn throws only when an append fails or is refused |
| **Tool runner** `packages/cli/src/tool-runner.ts`, `packages/tools/src/run.ts` | where each call is | plan, record, authorize, execute, bound, result | calls overlap with each other and with a failing journal | no effect before its own recorded call and recorded permission; a bad call never aborts the turn |
| **Run budget** `packages/context/src/budget.ts` | inferences, cost, unknown usage, start time | `check` before an inference, `recordInference` after | two places of the loop ask it, with different consequences | no inference beyond `--max-turns`, `--max-cost` or `--max-wall-clock` |
| **REPL, turn driver** `packages/cli/src` | line, `AbortController`, budget per line | read a line, drive a turn, interrupt, exit, close the writer | exit while appends are queued | every turn ends; the writer is closed |
| **Session view** `packages/session/src` | conversation, calls, results, pending ids | `materialize`, incremental `with` | kept up by concurrent calls | equals what a reader of the journal would materialize |
| **Blob store** `packages/storage/src/blobs/store.ts` | a file per content address, temporary files | `putBlob`, `readBlob` | overlapping puts share a temporary name; death and power loss between create, write, fsync, rename, directory sync | the address holds all of the bytes or nothing; a reference leads to them |
| **Output bounding** `packages/context/src/bound.ts` | none | cut, put, notice | the put may throw; the head's size depends on the digits of the number the notice tells of it | no context entry above its budget; a cut keeps as much as fits and says how much |
| **Policy** `packages/policy/src` | none (pure), three loops | `decide` = validate, gather per tier, scan rules, elect a tier | lists of one tier accumulate; precedence of outcomes before tiers; segment-wise path cover | an allow is earned by every matching rule; a deny anywhere wins; the decision names the right rule |
| **Model provider** `packages/providers/src` | attempt, abort reason, projection, timers | `stream` | retries, their delays, deadline, idle timer and the caller's abort race; hostile or dead endpoint; malformed behind well-formed | ends; tells the first reason; what it yielded fits the response; a partial response names no call twice |
| **Local driver: exec** `.../local-ts/exec.ts` | queue, budget, `aborted`, `tearingDown`, the child | `runExec` generator | exit, close, deadline, budget and consumer in any order | the terminal frame tells the run; nothing lost silently; ends |
| **Local driver: glob, grep** `.../local-ts/search.ts` | two ripgreps, budget and deadline each | `globSearch`, `grepSearch` | two processes each with its own deadline, one of whose verdicts is dropped | what is listed was asked for; a cut listing says so; no process left |
| **Local driver: paths, read, stat** `.../local-ts/resolve.ts`, `driver.ts` | none between calls | resolve, open, chunk loop | names are replaced between two system calls; the loop is synchronous; lines are split over chunks | what is read is in the workspace; a range gives its lines; every handle is closed |
| **Port, dialect, errors** `packages/stub-client/src` | none | interfaces, pure predicates | none that a model reaches | the predicates' definitions |
| **Tools** `packages/tools/src` | none | validation and formatting of read, grep, glob | what is planned must cover what is executed | the plan's paths cover the execution's |
| **Policy tier files** `packages/cli/src/policy-tiers.ts` | the rule lists of a run | stat, read and parse both files | a file is replaced between stat and read; absent and unreadable must not be confused | what is allowed is allowed by both files; a refusal leaves no lock |
| **Configuration** `packages/storage/src/config` | the settings of a run | read the sources, pick each key, parse what was picked | an invalid value behind a valid one; prices and caps that need each other | the first source that has a key wins; om starts exactly when what it uses is right |
| **Command line, discovery, rendering** `packages/cli/src` | the instructions of a request | read the instruction files, parse, print | files change between and within requests; a terminal that is gone | a prompt has whole instructions, in their order |
| **Protocol schemas** `packages/protocol/src` | none | validation | | what the journal refuses |
| **Session list** `.../journal/list.ts` | none | read all sessions | files come and go | as the reader |
| **Recorder, fake provider** `packages/providers/src` | a fixture | record, replay | | test equipment |

Every component is a row of `PROJECT.json` "components", with the modules that model it or
the reason why none does. The concrete hazards, each at its line, are under "hazards".

## 2. Modules

| Module | Models | Abstracts |
|---|---|---|
| `DurableLog` | what a journal promises its callers: one log, `Commit`, `Promise`, `Lose` | everything else |
| `Journal` | journal files, lock, writer, repair, reader | record contents: a record has a number and an entry |
| `JournalProofs` | proofs about `Journal`, with those of the refinement of `DurableLog` | |
| `Turn`, `TurnProofs` | loop, tool runner, budget, REPL, session view, over a queue of appends that may fail | texts, but for whether the journal can encode them; the provider is a choice among its outcomes |
| `BlobStore`, `BlobStoreProofs` | `putBlob` step by step, and what bounding does with its outcome | all but one address |
| `Bounding` | the arithmetic of the cut, part of `BlobStore` by INSTANCE | a text is its size and the offsets inside its wide characters |
| `Policy`, `PolicyProofs` | `decide` with `gather`, `resolveTiers`, `evaluate`, path cover | rule parsing |
| `Startup`, `StartupProofs` | `om run` from its configuration to a prompt, around `Policy`: settings, policy files, instruction files | a file's content is a kind, with rules or a size |
| `ProviderStream`, `ProviderStreamProofs` | one inference call | SSE framing: an event is a list of fragments |
| `Search`, `SearchProofs` | glob and grep | ripgrep's output is a set of files |
| `LocalExec` | `runExec` | output is a number of chunks |
| `LocalRead` | path resolution, read, stat, search root and cwd | a workspace of one path `d/f`; a byte is a line feed or not |
| `LocalDriver`, `LocalDriverProofs` | the driver's calls: it composes `LocalExec` and `LocalRead`, and is where both are proved about | calls share no state |
| `MC…` | instances for TLC | |

`PROJECT.json` "map" gives the lines behind each definition. The correspondence in words:

**Journal.** A file is its complete lines plus a tail, which is empty, a fragment, zero-filled
blocks or `corrupt`; files are numbered, the variable `journal` is what the path names now and
`durableName` what it names after a power loss. An open is `OpenLock`, `OpenFile`,
`OpenSyncDirectory`, `OpenScan`, then, if the last line is torn, `RepairBackup`,
`RepairReplace` (the complete lines and a repair record, in a new file, synced), `RepairRename` and
`RepairFinish` (sync of the directory, the path opened again). `append` of the code is `CallAppend`, which
puts the call into the queue; the body the queue runs is `RefuseAppend` (closed, failed or
invalid), or `WriteFragment`, `WriteLine`, `SyncAppend`, any of which may be `AppendFail`.
`close` is `CallClose` and, when the queue has drained, `Close`; `OpenFail` is every error on the way
of an open, the refusal of a file the scan does not accept included. `Crash` kills a process at any
of these points and the lock goes with it; `PowerLoss` stops every process, cuts unsynced
content and takes the path back to what it names on disk. A reader opens (`ReaderOpen`) and
reads (`ReaderRead`) in two steps without any lock, so that a repair may come between them, and may
be refused for it (`ReaderRefused`).

**Turn.** Each `await` of `runTurn` is a value of `pc`. An append is put into the queue `jq` as
in the writer and settles with `Committed` or `Rejected`; what the loop does then is the same
step, since continuations run before the next I/O event. Each call of a response is a process
of its own with `tpc`: `StartTool`, `CommitToolCall`, `CommitPermission`, `Execute`,
`CommitResult`, and `RejectToolCall` / `RejectTool` where an append fails. `Promise.all`
rejects as soon as one has, while the others go on: that is `RejectTool` beside the actions of
the other calls. `Begin` is the moment from which a tool may have had its effect, and `effects` keeps
every such moment; nothing that happens later takes one back. A working writer refuses an entry in two
cases: its actor is `tool:<name>` of an unregistered name with a blank (`Refused`), or it holds a lone
surrogate, which only text of the endpoint's does: a response (`RefuseResponse`, with a provider
error's message), the partial response behind an error (`RefusePartial`), and the outcome of a call whose
arguments are not JSON, which quotes them (`RefuseOutcome`). Such an append rejects, the writer goes on
working, and the turn throws. `Verdict` is the budget's check; the
clock is a choice. `Interrupt` may happen whenever a turn runs, and `Die`, a kill or an error that
nothing handles, at any time: the append under way is then on disk or not.

**BlobStore.** `Lookup`, `Create` (exclusive, of `<address>.tmp.<pid>`), `CreateVerify`,
`WriteSome`, `WriteRest`, `Sync`, `Rename`, `SyncDirectory`, `Unlink`. Under `IoMayFail` each of
these system calls may fail, the opening and inspecting of a file too (`WriteFail` stands for write, fsync
and close, and an unlink that fails is ignored and leaves the file). `Throw` is what then reaches the tool
runner, which lets the raw result pass. A result whose put succeeded is
cut: `Bounding` has `CutAtCharBoundary`, `HeadBudget` (the loop in which the head's budget settles)
and `Bound`, over an abstract function `Digits` of which it assumes what decimal numbers have.

**Policy.** `decide` is a pure function with three loops; each loop is an action (`Gather`,
`Scan`, `Elect`) so that its invariant can be stated. `Validate` answers what does not parse as a
capability with "ask", and `Throw` is the `catch` that answers "deny" to whatever goes wrong.

**Startup.** `LoadSettings` picks and checks the settings, `Bootstrap` opens the session,
`StatPolicy` and `ReadPolicy` load one policy file after the other. `Request` is a line of the user,
`StatInstructions` and `ReadInstructions` load the instruction files for it, `Ask` hands the loaded
lists and the built-in rule to `Policy`, `TurnOver` and `Quit` end a turn and the session. `Change`
replaces a file between any two of these steps; `since` keeps what each file has held since om
could first look at it, so that the properties can say "at some moment".

**ProviderStream.** `pc` is the await the generator is at. `FetchStream`, `FetchRetry`,
`FetchError`, `BackoffEnds` and `ErrorBody` are the connection loop, `Receive` and `Project` the
stream and its projection, `Yield` and `Pull` the hand-over to the caller, `Catch`, `Leave` and
`Cleanup` the end. `Deadline`, `Idle` and `CallerAborts` set `reason`, the first of them for good.

**Search.** Per ripgrep (`"selected"`, `"universe"`): `SpawnFails`, `RgWrites`, `RgExits`, `Data`,
`Abort`, `Grace` (SIGKILL behind an ignored SIGTERM), `Close` with what the rg left of a line it died in
(`Remainder`, which counts as a line and may be the front of a path). `kind` is what was asked for: glob with
and without ignored files runs both at once, grep with globs the universe first, grep without globs
the selected run alone, which then honours the ignore files itself. `UniverseFails`, `SelectedFails`,
`StartSelected`, `GlobAnswers`, `GrepAnswers` and `GrepMalformed` are what the driver does with them.

**LocalRead.** One system call is one step: `Start` (the cwd), `Probe` and
`Ancestor` for stat, then for all `Canonicalize`, `Lstat`, `Open`, `Fstat`
(the identity of the handle against that of the name), `CanonicalizeAgain`. `Replace` may change what
the name `d` or `f` is between any two of them. `ReadChunk`, `TakeLine` and `ReadEnd` are the chunk
loop with its range, carry and budget; `Again`, `SeesAbort`, `ReadFails`, `Resume`, `Leave` and
`Finish` its turns, and `Abort` the deadline or the caller, who get in only where the loop yields or
sleeps.

**LocalExec.** The child's side (`Starts`, `Writes`, `ChildExits`, `HeirExits`), Node's side
(`Data`, `ErrorEvent`, `CloseEvent`, `Sigkill`) and the generator's (`Take`, `Resume`, `Leave`,
`Throw`, `Finish`). `Abort` may happen between any two of them. A heir is a process which
inherited the pipes and outlives the child.

## 3. Runs

| Run | Distinct states | Instance |
|---|---|---|
| `journal` | 1.1 M | two processes, two valid appends and an invalid one, three files, one power loss, symmetry over processes |
| `journal_live` | 388 k | the same with two files and no power loss, with fairness and no symmetry |
| `turn` | 560 k | two calls, two inferences, cost cap three, one line, failing journal, refused text, deaths, with fairness |
| `turn_odd_name`, `turn_reused_id` | violations | as `turn`, the journal never fails and all text can be encoded |
| `blob` | 87 k | three puts of two process ids, two deaths, one power loss, any system call failing; texts and budgets about the notice's size |
| `blob_twins` | violation | two puts of one process, nothing fails |
| `policy` | 2.6 M | up to three rule lists of any tiers, three capabilities; and om run with any files, one change, two requests |
| `exec` | 188 k | a budget of two chunks, a child that may write three; a read of up to four bytes, two replaced names |
| `provider` | 16 k | one retry, three chunks of eight kinds, four fragments at most |
| `search` | 1.4 M | all four kinds of search, three files, every pattern, every ignore list, a budget of two lines |
| `search_complete` | violation | two files and a budget they fit in |

**journal** checks that what was acknowledged stays, at its number, in the file the path names
and in the one it would name after a power loss (`AckedDurable`); that an append refused as certain is in no file
(`RefusedNeverWritten`) and that entries stand in the order of their calls (`InOrder`); that a
lock-free reader gets a prefix of a state the journal was in (`ReadsStayPrefix`); that a repair
saves before it replaces (`BackupBeforeRepair`); and that the whole implements `DurableLog`
(`ImplementsDurableLog`), with the records of the named file as `log`. `JournalInv` is the
invariant of the proofs; that no file is ever one `scanJournal` refuses (`AlwaysScans`) and that a
writer which takes appends holds the file the path names (`AppendsReachNamedFile`) follow from it and
are theorems. Two processes are enough for a process that waits for the lock while
another one crashes, repairs or closes, and three files for a creation and two repairs, the
second of a file that is itself the result of one. Two valid entries let one be queued behind
another that fails; more writers or entries repeat these situations, and the proofs cover them.

**journal_live**: every queued append settles, behind a failed or a refused one too, and a close
lets go of the lock.

**turn**: a tool runs only after its own recorded call and permission, and one that ran and has no result is
a pending call to whoever reads the journal, wherever the process died or the turn threw
(`EffectsAccounted`, AC-16.6, AC-21.7); `ResultsBeforeInference` (AC-18.1), `ViewMirrorsJournal` (AC-10.3),
`CapsHold` (with the types), `OutcomeJournaled` (AC-10.4, AC-19.5), `OnlyRefusedTextThrows` and `TurnEnds`.
What AC-18.4 wants, that only a failed journal throws, does not hold: the property says that with a journal
that works a turn throws for text of the endpoint's and nothing else, and only at the response, behind the
error of a response cut off, or for a call that never ran. Two calls are the least that can interfere, and
two inferences the least with a join in between. The cost cap of three lets two cheap inferences pass, and
stops after a cheap and a dear one. With one line the budget's reset between lines is not exercised; it is a
new object in the code.

**blob**: `PublishedIsWhole` (with the types) and `RefRetrievable` (AC-19.3). Two processes with one id
can follow each other, since a process id may be given again after a death; two deaths and a power loss
bring every combination of left-over temporary file and half-durable name. `OnlyOwnTemporaryBlocks`:
where a temporary name is in the way of a put that is about to create it, or is gone when it was created, another
put of the same process id is the cause, under way or left behind. That a put may also fail to
create its file on a full disk or without descriptors is a step of the model, and no part of the property.
`CutIsExact` (AC-19.4): a cut result fits its budget, tells the true number, and one more
character would not have fitted. The budgets surround the size of the notice and the place where the
number gains a digit; the texts have a wide character at every place where a cut may come.

**policy**: `AllowIsEarned`, `DenyAnywhereWins`, `AttributedRule` against every combination of
tiers and rules within the bound; three lists are the least in which a tier has two lists and
another one lies between them. The matchers include a path with a trailing slash and the root. And of
`om run`: what a turn does without asking, each policy file allowed at some moment since om started
(`AllowedByFiles`); a prompt has its instruction files whole and in order (`InstructionsWhole`,
AC-20.2); om starts exactly when its configuration is right, and what fails has its cause in a file and
leaves no lock (`StartsOrTells`). The worlds are every combination of settings that compete (the
model, the credential, the two prices) and every pair of files; one change is the least that comes
between a stat and a read, and two requests the least with a second look at the instructions.

**exec**: of a program, `FrameTellsRun`; its budget is met exactly, and exceeded by one chunk. Of a
path, `HandleIsInside`: what is opened or named to a search is in the workspace unless two names were
replaced during the resolution, an error says why, and no handle outlives its call; and `ReadIsExact`:
at every yield, what was yielded is a first part of what was asked for, and how the call ends tells
whether it was all. Four bytes with room for two hold a line over two chunks, a last line without a line
feed, and a budget met in the middle and at the end. `CallsEnd` is about both.

**provider**: `ResponseMatchesEvents`, `PartialAdmissible`, `AbortIsFinal`, `Ends`. Three chunks
suffice for two that conflict (calls of one id, a call in two parts, a fragment behind the finish) with
something before them.

**search**: `OnlyWanted` (no ignored and no unselected file is listed), `SelectedTold`, `StopIsNoFailure` (a
search that throws has a cause other than having been stopped) and `Ends`. Three files with a budget of two
lines let the budget cut in the middle of what is selected, with a file before and behind an ignored one.

The properties name their exceptions where the code has them: `RefRetrievable` excepts a power
loss for a put that found a file it did not sync, and for a new fan-out directory. `PublishedIsWhole`
and, as to the bytes, `RefRetrievable` except that three puts of one process id have all missed the
address (`Crowded`), when they may fail by the shared name that `blob_twins` shows: the run has no three puts
of one id, and the theorems are for any number of them. `OnlyWanted` allows one file per ripgrep that died by
itself in the middle of a line, the one the front of that line names. `SelectedTold` excepts a ripgrep
that died by itself, whose `null` exit code passes for success. `CallsEnd` excepts a consumer that
leaves and a child which is outlived by a process that has its pipes.

Deadlock is checked for `journal` and `journal_live`. The other systems come to a rightful end
(a turn's session exits, a call or a search is over) and their configurations say so.

## 4. Fairness

- `Journal`: weak fairness of the body of a queued append and of `Close`. They run in a
  promise chain that always continues, and the file system answers. Nothing is assumed of callers,
  of opening, of crashes or of power.
- `Turn`: weak fairness of the turn's steps, and of each call's. A tool ends by its own deadline, and a
  provider call by its own (`Ends` of `ProviderStream`, `Search` and `LocalExec` are about that).
  Nothing is assumed of the user.
- `ProviderStream`: the generator's own steps, the caller that goes on pulling or leaves, and the
  deadline timer. Nothing is assumed of the endpoint.
- `LocalRead`: the loop's own steps, the sleep that ends, the consumer that goes on or leaves; and strong
  fairness of `Abort`, which is possible only at a yield or a sleep, again and again: a timer that
  is due runs when the event loop gets its turn, and each sleep gives it one.
- `Search`: the driver's steps, Node's events of each rg, and the deadline of each. Nothing is
  assumed of ripgrep: it may hang and ignore SIGTERM; SIGKILL is the driver's own step.
- `LocalExec`: Node's events, the generator, the consumer that resumes or leaves, that a spawn succeeds
  or fails, and the deadline. Nothing is assumed of the child or its heir.

## 5. Proofs

All proofs hold for every value of the constants within the assumptions the modules name:
`ConstantsAssumption` of `Journal` (the invalid entries are entries, the repair's entry and "no
writer" are none, bounds are naturals), of `Turn` (each call id has a nature, "no call" is none), of
`LocalExec` (a budget of at least one), of `ProviderStream` (chunks have their shape; the adapter takes at most
two retries), of `Search` (finitely many files) and of `BlobStore` (finitely many
puts); `RulesAssumption` of `Policy` (outcomes are the three, lists are sequences of tier lists);
`ContentsAssumption`, `BudgetAssumption` and `SettingsAssumption` of `Startup` (a world has a content for
each file, one with rules has well-formed ones and a text a size; the budget of a text is positive; each
value of a setting is good or bad); `DriverAssumption` and `NoneAssumption` of `LocalDriver` (the budget
of a read and the lines of a range are positive, as the port's schema says; no value is not a value); `SizesAssumption` and
`DigitsAssumption` of `Bounding` (what decimal numbers have). They bound neither the number of writers,
entries, repairs, power losses, calls, inferences, lines, puts, processes, rules and lists, files, chunks,
fragments, bytes, replacements, budgets and texts nor the output of a program.

The prover has no induction over data, since the library's induction theorems take an operator. Where an
argument needs one it is made by the least counterexample, `Least`: a set of naturals that is not empty
has a least element, which `WFMin` of the well-foundedness of `<` gives without an operator parameter.

**Journal.** `AckedDurable` alone is not inductive: that a writer's next line lands behind every
acknowledged one depends on who holds the lock, what it read when it opened, and what its handle
names. `JournalInv` adds this:

- `TypeOK`;
- `OneHolder`: the lock's holder is the one writer that is not closed, and a writer that is not open
  has nothing queued or under way;
- `FilesDense`: the records of every file, named or not, are numbered 1, 2, 3, ..., nothing stands
  behind a fragment, and no more of a file is durable than is there;
- `HandleNamed`: which file the holder has open at each step of an open and a repair, and that the path
  names it, in memory and, once the directory was synced, on disk;
- `RepairExact`: what a repair read is still what the file holds, it is saved before it is
  replaced, and its replacement is exactly that and one record;
- `AppendExact`: at each step of an append, how much of the line is in the file, behind which number;
- `FailedIsIdle`: a failed append leaves nothing under way;
- `AckedDurable`.

`JournalProofs` proves `Init`, one lemma per action, and from them `InvariantHolds`; `TypeCorrect`,
`AcknowledgedIsDurable`, `FilesAlwaysScan` and `AppendsReachPath` follow, and
`RepairsKeepBackups` is an action property from the same invariant.

What happened to the appends needs a second invariant, `HistoryInv`, inductive with the first: no
append is issued twice (`IssuedOnce`); the queue is the end of what was issued (`QueueIsTail`), and
what was issued is no longer unasked (`IssuedAsked`); each record of a file is a repair's or that of an
append the writer reached and did not refuse (`FilesReached`), in the order of issue and once
(`FilesOrdered`). The line a writer adds is that of the first append not settled, which no file holds
yet, so it is later than all the others. A writer that crashed leaves its queue, and its place in it,
behind: the statement about files must hold for the writers that are gone, and for the files a
power loss may bring back. `AppendsInOrder` and `RefusedNotWritten` follow.

The refinement adds `OnDisk` (`PathIsPrefixOnDisk`): what the path would name after a power
loss is a prefix of what it names. `AckedDurable` says that the acknowledged records are in that
prefix. With both each step of `Journal` maps to a `Commit`, `Promise`, `Lose` or a stutter
of `DurableLog`: `JournalIsDurableLog`. Because a writer's steps only add to that log, and of the
files that exist change only the one that is the log, what a reader has open and what it returned stay
prefixes of it (`ReadInv`): `ReadsArePrefixes`.

**Turn.** `EffectsAccounted` is a statement about the journal, and what keeps it true is what the
processes wait for. `TurnInv` adds this:

- `Types` of what the rest speaks of;
- `QueueInv`: whoever waits has one append in the queue, it is the one that belongs to where it is, and
  nothing else is queued;
- `ToolsInv`: tools are under way only in a turn that waits for them or has thrown, so that a later
  response never starts beside an earlier one's tools;
- `RecordedInv`: a call whose permission is being journaled is recorded, with no result behind it;
- `EffectsInv`: every effect has its call and its permission in the journal, and its result, or it is
  pending there and its tool is still at work, has thrown, or died with the process;
- `ClosedInv`: a writer is closed only when no turn will append any more.

From it follows `EffectsAreAccounted`. `OnlyRefusalsThrow` takes three more conjuncts (`ThrowInv`): only
calls of registered tools are ever recorded and run, and none has run before it starts (`FreshInv`); a stream
is read behind its prompt (`LastInv`); and where a turn has thrown with a working journal, what made it
throw is still to be seen, a call that ended without having run, or the last entry of a journal to which
nothing more is added (`ThrownInv`). Nothing is assumed of names or text. `OutcomeIsJournaled` takes
two more conjuncts, `PendingInv` (a call is pending only while its tool is at work, until something
throws) and `ErrorInv` (where a failed or limited turn's error is at each step of its end).
`ResultsComeFirst` takes `JoinInv`: the responses of earlier inferences have each of their calls
answered once and behind them, the calls of the one being executed have a result exactly when their tool
is done, and no entry of the turn is of a later inference; a `prompt` is only ever queued by the turn
that waits for it, so where it lands every response before it is answered.

`ViewsMirrorTheJournal` is about the view the loop keeps up by single entries, beside concurrent calls whose
appends may fail, and the one a reader materializes from the whole journal. `MirrorInv` says that they
are equal wherever a prompt may still be built, and that with a failed journal none will be: the turn is
over, or one of its calls is not settled and rejects it (`BrokenInv`). What one more entry does to
`Materialized` is a lemma about `Kept`, the entries of some kinds in their order, which is a recursive
function: that it has the values its equations say takes the least counterexample. (`Kept` replaces
`SelectSeq`, whose definition the prover does not expand.)

`CapsAreKept`: a cap is kept when the budget's counters are those of the journal. `BudgetsInv` says that
they are (`Counted`: as many responses of the turn, with these costs) and that a prompt is only asked for
with room under every cap, and bounds the counters; `CapsInv` that each prompt of the journal had such room
before it; `Shapes` has the types that are left.

**BlobStore.** `StoreInv` says what a step needs to know of the other puts: there is an inode for
every put that may still create one (`Room`), a put that writes has a file open (`HeldSome`), a
temporary name was made by a put of its process that has not moved it to the address (`TempMade`), a put whose
temporary file was taken has met another of its process that came to its rename (`TempTaken`). It is
inductive for any number of puts and processes, whatever fails, and `OthersNeverBlock` follows.

For what the address holds, `FilesInv` adds that a put which writes has an inode of its own that is not at
the address (`HeldOwn`); that its temporary name names this inode, or none, and then there is a file at the
address and no other put of the process about to create one (`NameOwn`); that a put whose rename failed
with nothing at the address is alone with the temporary file (`FailOwn`), so that its clean-up takes nobody
else's; and that the address holds synced bytes. With a third put of one id one could take the name away and
the next create another file under it, as the hazard at `store.ts:81` says, so what is inductive is
`StoreInv /\ RefInv /\ (Crowded \/ FilesInv)`: `Crowded` looks at where the puts are, stays once it holds
(`CrowdedStays`), and every step that would break `FilesInv` makes it true. `RefInv` (a put that found
or published leaves a file behind it) holds of any puts. `PublishedWhole` and `RefsRetrieve` follow, with
no assumption about how many puts a process has.

**Bounding.** `CutsAreExact`: the loop of the head's budget settles within its three rounds for every
budget and every digit function of the assumption, and what is then cut satisfies `ExactCut`.

**Policy.** `PolicyInv` says what each loop has found so far: the rules gathered come from the lists
gathered and are all of theirs (`SeenInv`), the pick of a tier is the strongest match among the rules
scanned (`ScanInv`), the elected contender is the strongest of those looked at (`ElectInv`). It is
inductive together with `AllowIsEarned` and `DenyAnywhereWins`, its last conjuncts:
`PolicyInvariant`, `AllowsAreEarned`, `DeniesWin`.

Which rule a decision names is a matter of order, of which `PolicyInv` says nothing. `AttributionInv` adds
that what was gathered for a tier stands in the order of its lists and of the rules in them
(`OrderInv`: each gathered rule has a list and a place, and the places ascend), and that what was picked
comes before all that is as strong (`FirstInv`). The index of the first strongest rule of the gathered ones
is then that of the lists: `DecisionsAreAttributed`.

**Startup.** `RunInv` joins the two: `LoadedInv` says that every policy file looked at was absent at a
moment since om started or has all of its rules loaded, and `CalledInv` that a decision is made on these
lists and the built-in one, with `PolicyInv` for the loops. The lemmas of `PolicyProofs` are cited as they
are. `RunInvariant`, `AllowsComeFromFiles`, and with `AttributionInv` in every turn `SessionsAttribute`.
`StartInv` adds what was picked of the settings and that a path being read had a file a moment ago, which is
the cause of a failure there: `SessionsStartOrTell`. `PromptInv` says of the instruction files looked at so
far that each is whole in the prompt, in its place, or may be missing: `PromptsAreWhole`.

**ProviderStream.** `StreamInv`: the response collected so far is what was yielded and behind it what
waits to be (`EventsInv`), nothing of it waits while a chunk is being received, and an outcome is told once
(`OutcomeInv`). With the types and `PartialAdmissible`, the only other conjunct that projecting a chunk may
disturb, it is inductive for any number of chunks and fragments: `StreamInvariant`, `StreamTypeCorrect`,
`EventsTellResponse`, `PartialsAreAdmissible`; and `AbortsAreFinal`, an action property that holds of each
step alone.

**Search.** `SearchInv` says what each ripgrep has told so far: every line that came is kept
(`LinesKept`), at most one of them is none the rg would have written, and of a grep's events none that names
a file (`LinesOwn`), one is killed at its deadline or budget and for nothing else (`KilledForReason`), what an
exit code says of its output (`CodesTell`), and that an answer is the selected run's (`AnswerKept`). With
them `OnlyWanted` and `StopIsNoFailure` are inductive and `SelectedTold` follows:
`SearchTypeCorrect`, `OnlyWantedFound`, `SelectionTold`, `StoppedIsNotFailed`.

**LocalExec.** `FrameTellsRun` speaks of the end alone. `ExecInv` carries what it needs there: the
verdict is that of the first abort, and only an abort or a used up budget destroys the pipes
(`VerdictKept`); a closed child changes no more and no chunk comes after it (`ClosedIsFinal`); the loop
goes on with a used up budget only when it was told truncated (`BudgetNoticed`); what the frame was made
of stays (`FrameKept`). `ExecInvariant`, `ExecTypeCorrect` and `FrameIsTrue` follow, and `DriverTellsRun`
of the driver that serves other calls too.

**LocalRead.** Two invariants, proved of `LocalDriver`. `ResolveInv` is about names: what each step of a
resolution has (`ControlInv`); that what was seen beyond the workspace at a canonical place inside it
costs one replacement and, to be found in its place again, another (`ReplacedInv`); and what each step has
found out of a tree in which nothing was replaced (`StillInv`), from which the errors follow.
`HandlesAreInside` is its consequence, for any number of replacements.

`BytesInv` is about what was read. `YieldedOf` says of what was yielded that it is, as far as the budget goes, the
bytes from where the wanted ones begin up to those that were looked at; `LinesInv` that of a range these
end with a line, that what is carried is all behind it, and that more is read only when the carry has no
line feed; `EndInv` and `CountsInv` what flags and counters say. A chunk may end in the middle of a line, and
the place where a line begins is defined by counting line feeds over all that was read: the lemmas
`UpToLineIs`, `UpToLineKept` (more bytes behind do not move the beginning of a line read to its end),
`NextLine` and `LastLine` relate that count to the carry's first line feed, and `LinesCounted` to the
number of lines reported at the end. `YieldMore` is the budget's arithmetic. `ReadsAreExact` follows for files, chunks,
ranges and budgets of any size.

The proof asked for one change of the model: `Realpath` and `EntryAt` had arms of a `CASE` that both held
for a path through a replaced directory. TLC takes the first, the semantics any of them; the arms now
exclude each other, with the same states.

**Only model-checked.** Every invariant of the passing runs is a theorem, as the run states it and with no
further premise; so are the action properties. With TLC stay all
liveness properties (`Ends`, `TurnEnds`, `CallsEnd`, the settling of appends and closes), since the prover treats
neither fairness nor `ENABLED`; and the four properties of the runs that expect a violation, which are false.

## 6. Findings

Each is a run of its own with the one property a document states and the code does not keep.

- `turn_odd_name`: a call of an unknown tool whose name has a blank in it makes the turn throw with
  a journal that works. Its failed result is appended by the actor `tool:<name>`, which the schema
  refuses. Documented otherwise at `packages/cli/src/tool-runner.ts:9` (AC-18.4). It is one of two ways in
  which a turn throws with a working journal; the other is the first of the behaviours below.
- `turn_reused_id`: calls and results are joined by id over the whole session and the first result
  wins, so a call id the model uses again is answered with the earlier call's result (AC-18.1).
- `blob_twins`: the temporary name of a put has the process id and nothing else, so two calls of one
  response with the same large output race for it; one of them throws, and its result goes uncut into
  journal and prompt (AC-19.4).
- `search_complete`: the listing of what is not ignored may be stopped at its deadline and the answer be
  `ok`, not truncated, and incomplete, against `budget.ts:8-9`.

Behaviour that the models made plain and no document contradicts, or only in passing:

- An entry with a lone surrogate is refused by the encoding (`canonical.ts:16`) with the writer still at
  work, so a response with an unpaired escape, one cut off between the halves of a pair, an error message
  that has one, or a call whose broken arguments are quoted, makes the turn throw. `OnlyRefusedTextThrows`
  says that there is nothing else.
- A ripgrep killed by a signal the driver did not send leaves the front of a line, which counts as a whole one
  (`search.ts:146`): `a.js` of `a.json` may so be listed though it is ignored or not selected. A `null` exit
  code passes for success, so the search says ok. `OnlyWanted` says that it is one file per ripgrep.
- A put whose clean-up fails leaves its temporary file for good, and every later put of the same bytes
  under that process id throws.
- A read is synchronous between two yields, so `maxMs` cannot stop one that yields nothing: a large file
  of which a range wants a late line is read to that line first (`driver.ts:147`).
- A missing leaf reaches the caller as node raised it: `resolve.ts:137` says that it propagates as `io`,
  but `canonicalize` lets the raw error through.
- Two names replaced one after the other during a resolution, the second undoing what the first showed,
  are not noticed; `HandleIsInside` excepts that.
- A glob of an empty tree throws, since `rg --files` exits 1 there.
- An instruction file that is a pipe is loaded half when its deadline comes, though
  `discovery.ts:75` says it is skipped, and after an interrupt there the next one is loaded empty. A
  directory or an escaping link named `AGENTS.md` ends the session.
- A file that meets its budget exactly is refused (policy) or skipped (instructions) like one above it.
- An error of stdout is handled nowhere and ends the process (`Die`).
- Nothing in the program calls `rulesForMode`.

## 7. What is left out

- Port, dialect and error classes: interfaces and predicates over characters, without state.
- Tools' validation and formatting: stateless; `Turn` takes any outcome of a tool.
- Argument parsing, rendering, the commands that read once and print; the lookup of the credential and
  where the configuration files are.
- Prompt assembly beyond the join of calls to results, and the session view's lists and diagnostics other
  than those the loop reads.
- Session list: it reads with the reader that `Journal` models, one session after the other.
- Recorder and fake provider: test equipment.
- In `Journal`: canonical JSON, hashing and zod; a record passes `parseRecord` or is refused. In
  `LocalExec`: stdout and stderr are one stream. In `LocalRead`: files rewritten in place while they are
  read, and paths deeper than two names. In `Startup`: what a stat or a read does inside, which is
  `LocalRead`; and a policy file that is a pipe and meets the deadline of its read (`policy-tiers.ts:22`).
- In `ProviderStream`: the wait for the body of a refused response to be given up (`adapter.ts:151`), which
  is not raced with the abort signal and which the model takes to be over at once.

## 8. Plan

Built, most important first: `DurableLog` and `Journal` with its proofs, `Turn` over the journal,
`BlobStore`, `Policy`, `ProviderStream`, `Search`, `LocalExec`; then `LocalRead`, `Bounding` and
`Startup`, and the proofs of `Turn`, `BlobStore`, `Bounding`, `Startup`,
`Search`, `ProviderStream` and `LocalDriver`.

What remains, in order:

1. Action properties and their theorems: nothing once told to a caller is taken back (the settling of an
   append, the frame of a run, the answer of a search).
2. Two lines in the `turn` run, which needs a smaller instance of its responses.
3. The plan of a tool against what it executes, for read, grep and glob.
