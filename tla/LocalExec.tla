------------------------------ MODULE LocalExec ------------------------------
(***************************************************************************)
(* Running a program with the local driver: runExec of                     *)
(* packages/stub-client/src/drivers/local-ts/exec.ts.                      *)
(*                                                                         *)
(* An async generator drains a queue which the child's events fill, while  *)
(* the deadline or the caller may abort at every await and every yield.    *)
(* stdout and stderr share the queue and the byte budget and are one       *)
(* stream here, of chunks that cost one of the budget each.  The child is  *)
(* the environment: it may write, hang, trap SIGTERM, fail to start, or    *)
(* leave its pipes to a process that outlives it.                          *)
(***************************************************************************)
EXTENDS Naturals

CONSTANTS
  MaxBytes,  \* the byte budget, in chunks
  MaxChunks  \* bound: what the child and its heirs write

ASSUME ConstantsAssumption == MaxBytes \in Nat \ {0} /\ MaxChunks \in Nat

VARIABLES
  child,      \* starting, running or how it ended: zero, nonzero, signal, unborn
  held,       \* another process has the write ends of its pipes
  wrote, arrived, taken, emitted,  \* chunks written, queued, dequeued, yielded
  destroyed,  \* the driver has destroyed the pipes
  terminated, \* tearingDown: SIGTERM was sent and SIGKILL will be
  spawnError, \* the error event
  closed,     \* the close event, with the exit
  pc,         \* loop, yielded, done, thrown or left
  aborted,    \* the first reason of the deadline's signal
  truncated, status, failure, killSignal,
  frame       \* the terminal frame

process == <<child, held, wrote>>
stream == <<arrived, taken, emitted>>
events == <<spawnError, closed>>
verdict == <<status, failure, killSignal>>
vars == <<process, stream, destroyed, terminated, events, pc, aborted, truncated,
          verdict, frame>>

Exits == {"zero", "nonzero", "signal"}
NoFrame == [status |-> "none", failure |-> "none", truncated |-> FALSE, signal |-> FALSE]

Init ==
  /\ child = "starting" /\ held = FALSE
  /\ wrote = 0 /\ arrived = 0 /\ taken = 0 /\ emitted = 0
  /\ destroyed = FALSE /\ terminated = FALSE
  /\ spawnError = FALSE /\ closed = "none"
  /\ pc = "loop" /\ aborted = "no" /\ truncated = FALSE
  /\ status = "ok" /\ failure = "none" /\ killSignal = FALSE
  /\ frame = NoFrame

-----------------------------------------------------------------------------
(* The child, and node's events *)

driver == <<stream, destroyed, terminated, events, pc, aborted, truncated, verdict, frame>>

Starts ==
  /\ child = "starting" /\ child' = "running"
  /\ held' \in BOOLEAN
  /\ UNCHANGED <<wrote, driver>>

StartFails ==
  /\ child = "starting" /\ child' = "unborn"
  /\ UNCHANGED <<held, wrote, driver>>

Writes ==
  /\ child = "running" \/ held
  /\ ~ destroyed /\ wrote < MaxChunks
  /\ wrote' = wrote + 1
  /\ UNCHANGED <<child, held, driver>>

\* By itself, or of the SIGTERM it may trap.
ChildExits ==
  /\ child = "running" /\ child' \in Exits
  /\ UNCHANGED <<held, wrote, driver>>

HeirExits ==
  /\ held /\ held' = FALSE
  /\ UNCHANGED <<child, wrote, driver>>

Data ==
  /\ arrived < wrote /\ ~ destroyed
  /\ arrived' = arrived + 1
  /\ UNCHANGED <<process, taken, emitted, destroyed, terminated, events, pc, aborted,
                 truncated, verdict, frame>>

ErrorEvent ==
  /\ child = "unborn" /\ ~ spawnError
  /\ spawnError' = TRUE
  /\ UNCHANGED <<process, stream, destroyed, terminated, closed, pc, aborted, truncated,
                 verdict, frame>>

\* The child is gone and its pipes are drained to their end, or destroyed.
CloseEvent ==
  /\ child \in Exits /\ closed = "none"
  /\ destroyed \/ (~ held /\ arrived = wrote)
  /\ closed' = child
  /\ UNCHANGED <<process, stream, destroyed, terminated, spawnError, pc, aborted,
                 truncated, verdict, frame>>

-----------------------------------------------------------------------------
(* tearDown *)

\* Mutant: only SIGTERM and the pipes.
TearDownGently ==
  IF child \in {"starting", "running"} /\ ~ terminated
    THEN destroyed' = TRUE /\ UNCHANGED terminated
    ELSE UNCHANGED <<destroyed, terminated>>

\* Nothing once the child has exited, also while something else has its pipes.
TearDown ==
  IF child \in {"starting", "running"} /\ ~ terminated
    THEN destroyed' = TRUE /\ terminated' = TRUE
    ELSE UNCHANGED <<destroyed, terminated>>

\* The grace period is over: SIGKILL.
Sigkill ==
  /\ terminated /\ child = "running"
  /\ child' = "signal"
  /\ UNCHANGED <<held, wrote, driver>>

Live == pc \in {"loop", "yielded"}

\* The deadline fires, or the caller aborts, with the generator at an await or a
\* yield.  What it finds is kept: the signal is aborted once.
Abort(reason) ==
  /\ Live /\ aborted = "no" /\ aborted' = reason
  /\ status' = "timeout" /\ failure' = reason /\ killSignal' = TRUE
  /\ TearDown
  /\ UNCHANGED <<process, stream, events, pc, truncated, frame>>

-----------------------------------------------------------------------------
(* The generator *)

Pending == arrived # taken

\* Mutant: there is room as long as the budget is not exceeded.
TakeOneMore ==
  /\ pc = "loop" /\ Pending
  /\ taken' = taken + 1
  /\ IF emitted <= MaxBytes
       THEN emitted' = emitted + 1 /\ pc' = "yielded"
       ELSE UNCHANGED <<emitted, pc>>
  /\ UNCHANGED <<process, arrived, destroyed, terminated, events, aborted, truncated,
                 verdict, frame>>

\* The byte counter: whether a chunk may be yielded, and whether one more may.
Exhausted == emitted >= MaxBytes

\* A chunk of the queue is yielded as far as the budget has room, or dropped.
Take ==
  /\ pc = "loop" /\ Pending
  /\ taken' = taken + 1
  /\ IF Exhausted
       THEN UNCHANGED <<emitted, pc>>
       ELSE emitted' = emitted + 1 /\ pc' = "yielded"
  /\ UNCHANGED <<process, arrived, destroyed, terminated, events, aborted, truncated,
                 verdict, frame>>

\* The consumer asks for more; a used up budget tears the child down.
Resume ==
  /\ pc = "yielded" /\ pc' = "loop"
  /\ IF Exhausted
       THEN truncated' = TRUE /\ TearDown
       ELSE UNCHANGED <<truncated, destroyed, terminated>>
  /\ UNCHANGED <<process, stream, events, aborted, verdict, frame>>

\* The consumer stops: the deadline is disposed, and the child left as it is.
Leave ==
  /\ pc = "yielded" /\ pc' = "left"
  /\ UNCHANGED <<process, stream, destroyed, terminated, events, aborted, truncated,
                 verdict, frame>>

Throw ==
  /\ pc = "loop" /\ ~ Pending /\ spawnError
  /\ pc' = "thrown"
  /\ UNCHANGED <<process, stream, destroyed, terminated, events, aborted, truncated,
                 verdict, frame>>

\* Mutant: the close event ends the loop, whatever is still queued.
CloseEndsLoop == pc = "loop" /\ closed # "none"

Drained == pc = "loop" /\ ~ Pending /\ ~ spawnError /\ closed # "none"

\* The exit decides, unless the deadline or the budget has.
Finish ==
  /\ Drained /\ pc' = "done"
  /\ LET byExit == status # "timeout" /\ ~ truncated
     IN  frame' =
           [status |-> IF byExit /\ closed # "zero" THEN "failed" ELSE status,
            failure |-> IF byExit /\ closed # "zero" THEN closed ELSE failure,
            truncated |-> truncated,
            signal |-> closed = "signal" \/ killSignal]
  /\ UNCHANGED <<process, stream, destroyed, terminated, events, aborted, truncated, verdict>>

NodeStep == Data \/ ErrorEvent \/ CloseEvent \/ Sigkill
GeneratorStep == Take \/ Throw \/ Finish

Next ==
  \/ Starts \/ StartFails \/ Writes \/ ChildExits \/ HeirExits
  \/ NodeStep \/ GeneratorStep \/ Resume \/ Leave
  \/ \E reason \in {"deadline", "caller"} : Abort(reason)

Spec == Init /\ [][Next]_vars

\* Events are delivered, timers fire, and the consumer goes on or leaves.  The
\* child and its heirs owe nothing.
Fairness ==
  /\ WF_vars(NodeStep) /\ WF_vars(GeneratorStep) /\ WF_vars(Resume \/ Leave)
  /\ WF_vars(Starts \/ StartFails) /\ WF_vars(Abort("deadline"))

FairSpec == Spec /\ Fairness

-----------------------------------------------------------------------------
(* Properties *)

\* Types; every chunk is counted once, and the budget is kept to: what is yielded
\* is what came first, and a truncated run has yielded all it may.
TypeOK ==
  /\ child \in {"starting", "running", "unborn"} \cup Exits
  /\ wrote \in 0 .. MaxChunks /\ emitted \in 0 .. MaxBytes
  /\ emitted <= taken /\ taken <= arrived /\ arrived <= wrote
  /\ emitted < taken => emitted = MaxBytes
  /\ truncated => emitted = MaxBytes
  /\ closed \in Exits \cup {"none"}
  /\ pc \in {"loop", "yielded", "done", "thrown", "left"}
  /\ aborted \in {"no", "deadline", "caller"}
  /\ frame.status \in {"none", "ok", "failed", "timeout"}

\* The terminal frame tells what became of the run: timeout if the deadline or
\* the caller stopped it, with the first of them; otherwise ok or failed by the
\* exit, with all of the output yielded, unless the budget was used up.
FrameTellsRun ==
  pc = "done" =>
    /\ frame.status = "timeout" <=> aborted # "no"
    /\ aborted # "no" => frame.failure = aborted
    /\ (aborted = "no" /\ ~ frame.truncated) =>
         /\ frame.status = "ok" <=> child = "zero"
         /\ emitted = wrote

\* A process that inherited the pipes has outlived the child, which was gone
\* before tearDown was asked to do anything.
Outlived == held /\ child \in Exits /\ ~ terminated

\* Every run ends, and its child with it, also one that never exits and traps
\* SIGTERM, unless the consumer leaves early or the child is outlived.
Ends ==
  <>[](\/ pc = "done" /\ child \in Exits
       \/ pc = "thrown"
       \/ pc = "left"
       \/ Outlived)
=============================================================================
