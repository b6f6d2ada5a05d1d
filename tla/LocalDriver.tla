----------------------------- MODULE LocalDriver -----------------------------
(***************************************************************************)
(* The local driver, driver.ts of packages/stub-client/src/drivers/        *)
(* local-ts, which serves one call: it runs a program (LocalExec) or       *)
(* resolves a path and reads what it names (LocalRead).  Every call has a  *)
(* generator of its own and shares no state with another.                  *)
(***************************************************************************)
EXTENDS LocalExec

CONSTANTS
  None,        \* no value
  ReadBytes,   \* the byte budget of a read
  MaxFile,     \* bound: bytes a read meets before the end of the file
  MaxChanges,  \* bound: replacements during the resolution
  Ranges       \* line ranges a read may ask for

\* The budget and the lines of a range are positive, as the port's schema says.
ASSUME DriverAssumption ==
  /\ ReadBytes \in Nat \ {0} /\ MaxFile \in Nat /\ MaxChanges \in Nat
  /\ Ranges \subseteq [start : Nat \ {0}, end : Nat \ {0}]

VARIABLES dir, leaf, changes, call, cwd, range, at, depth, canonical, recorded, fd,
          stopped, got, out, carry, line, feeds, last, cut, total, result

Path == INSTANCE LocalRead WITH
  MaxBytes <- ReadBytes, pc <- at, aborted <- stopped, truncated <- cut

\* No value is not a value: an answer, a file, a byte or a number.
ASSUME NoneAssumption ==
  /\ None \notin {"timeout", "io", "escape", "named", "absent", "raw", "entry", "ok"}
  /\ None \notin Path!Entries \cup {"aside", "beyond"} \cup Path!Bytes
  /\ None \notin Nat

pathVars == <<dir, leaf, changes, call, cwd, range, at, depth, canonical, recorded, fd,
              stopped, got, out, carry, line, feeds, last, cut, total, result>>

\* The call that was not made takes no step.
NoExec ==
  /\ child = "zero" /\ closed = "zero" /\ held = FALSE
  /\ wrote = 0 /\ arrived = 0 /\ taken = 0 /\ emitted = 0
  /\ destroyed = FALSE /\ terminated = FALSE /\ spawnError = FALSE
  /\ pc = "left" /\ aborted = "no" /\ truncated = FALSE
  /\ status = "ok" /\ failure = "none" /\ killSignal = FALSE /\ frame = NoFrame

NoPath ==
  /\ dir = "real" /\ leaf = "file1" /\ changes = 0
  /\ call = "cwd" /\ cwd = "root" /\ range = Path!Whole
  /\ at = "done" /\ result = "named"
  /\ depth = 0 /\ canonical = None /\ recorded = None /\ fd = None
  /\ stopped = FALSE /\ got = <<>> /\ out = <<>> /\ carry = <<>> /\ line = 0 /\ feeds = 0
  /\ last = None /\ cut = FALSE /\ total = None

DriverInit == (Init /\ NoPath) \/ (Path!Init /\ NoExec)

DriverNext == (Next /\ UNCHANGED pathVars) \/ (Path!Next /\ UNCHANGED vars)

DriverSpec == DriverInit /\ [][DriverNext]_<<vars, pathVars>> /\ Fairness /\ Path!Fairness

-----------------------------------------------------------------------------

\* What is yielded of a file, and what the end of a read says (LocalRead).
ReadIsExact == Path!ReadIsExact

\* What is opened is in the workspace, and closed when the call is over (LocalRead).
HandleIsInside == Path!TypeOK /\ Path!HandleIsInside

\* Every call of the driver ends: a program's run (LocalExec) and a path's.
CallsEnd == Ends /\ Path!Ends
=============================================================================
