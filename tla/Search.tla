------------------------------- MODULE Search -------------------------------
(***************************************************************************)
(* Glob and grep of the local driver:                                      *)
(* packages/stub-client/src/drivers/local-ts/search.ts with the budgets of *)
(* budget.ts.                                                              *)
(*                                                                         *)
(* A search with a glob runs ripgrep twice.  The "selected" run lists what *)
(* the pattern selects, ignored files included, because rg's --glob        *)
(* overrides ignore files; the "universe" run lists what is not ignored;   *)
(* the result is what both have.  Glob runs them at once, grep the         *)
(* universe first; grep without a glob needs no universe, and a glob of    *)
(* ignored files too has one that ignores nothing.  Each run has a         *)
(* deadline of its own and is killed at it, or when its output is over the *)
(* byte budget.  Files are numbered in rg's order, a line costs one of the *)
(* budget; 0 stands for a line that names no file.  ripgrep is the         *)
(* environment: it may hang, fail, die in the middle of a line or ignore   *)
(* SIGTERM.                                                                *)
(***************************************************************************)
EXTENDS Naturals, FiniteSets

CONSTANTS
  Files,    \* the files below the search's root
  MaxBytes  \* the byte budget of the search

ASSUME ConstantsAssumption ==
  IsFiniteSet(Files) /\ Files = 1 .. Cardinality(Files) /\ MaxBytes \in Nat \ {0}

VARIABLES
  kind,      \* what is asked for, see Kinds
  hits,      \* what the pattern selects
  ignored,   \* what the ignore files name
  rg,        \* idle, running, exited or closed, as far as the driver sees it
  written,   \* what each rg has written
  read,      \* what has come through its pipe
  lines,     \* what the driver has collected
  truncated, timedOut,
  killed,    \* SIGTERM was sent, and the pipe destroyed
  code,      \* the exit code
  result     \* what the search answers

environment == <<kind, hits, ignored>>
collected == <<lines, truncated, timedOut>>
vars == <<environment, rg, written, read, collected, killed, code, result>>

Runs == {"selected", "universe"}

\* glob, without and with includeIgnored; grep, with and without globs.
Globs == {"glob", "globIgnored"}
Greps == {"grepGlobs", "grep"}

\* What an rg writes when nothing stops it.
Output(r) ==
  CASE r = "universe" -> IF kind = "globIgnored" THEN Files ELSE Files \ ignored
    [] r = "selected" /\ kind = "grep" -> hits \ ignored
    [] OTHER -> hits

Pending == [status |-> "none", truncated |-> FALSE, paths |-> {}]
Thrown == [status |-> "thrown", truncated |-> FALSE, paths |-> {}]

\* The runs a search starts with: glob both, grep one after the other.
FirstRuns ==
  CASE kind \in Globs      -> Runs
    [] kind = "grepGlobs" -> {"universe"}
    [] OTHER              -> {"selected"}

Init ==
  /\ kind \in Globs \cup Greps
  /\ hits \in SUBSET Files /\ ignored \in SUBSET Files
  /\ rg = [r \in Runs |-> IF r \in FirstRuns THEN "running" ELSE "idle"]
  /\ written = [r \in Runs |-> {}] /\ read = [r \in Runs |-> {}]
  /\ lines = [r \in Runs |-> {}]
  /\ truncated = [r \in Runs |-> FALSE] /\ timedOut = [r \in Runs |-> FALSE]
  /\ killed = [r \in Runs |-> FALSE]
  /\ code = [r \in Runs |-> "none"]
  /\ result = Pending

Lowest(S) == CHOOSE f \in S : \A g \in S : f <= g

-----------------------------------------------------------------------------
(* ripgrep *)

RgWrites(r) ==
  /\ rg[r] = "running" /\ written[r] # Output(r)
  /\ written' = [written EXCEPT ![r] = @ \cup {Lowest(Output(r) \ written[r])}]
  /\ UNCHANGED <<environment, rg, read, collected, killed, code, result>>

\* It ends when it has written everything, with 1 for nothing; with 2 at any time;
\* once it is killed, or its pipe is gone; and it may die of a signal the driver
\* did not send ("crash"), which has no exit code either.
RgExits(r) ==
  /\ rg[r] = "running" /\ rg' = [rg EXCEPT ![r] = "exited"]
  /\ \E c \in {"0", "1", "2", "signal", "crash"} :
       /\ \/ c = "0" /\ written[r] = Output(r) /\ Output(r) # {}
          \/ c = "1" /\ Output(r) = {}
          \/ c \in {"2", "crash"}
          \/ c \in {"0", "signal"} /\ killed[r]
       /\ code' = [code EXCEPT ![r] = c]
  /\ UNCHANGED <<environment, written, read, collected, killed, result>>

-----------------------------------------------------------------------------
(* runRgLines *)

\* There is no rg, or it cannot be started: the run throws.
SpawnFails(r) ==
  /\ rg[r] = "running" /\ written[r] = {}
  /\ rg' = [rg EXCEPT ![r] = "closed"]
  /\ code' = [code EXCEPT ![r] = "spawn"]
  /\ UNCHANGED <<environment, written, read, collected, killed, result>>

\* The pipe is destroyed and SIGTERM sent; SIGKILL follows after the grace period.
Kill(r) == killed' = [killed EXCEPT ![r] = TRUE]

\* Mutant: the budget is exhausted one line late.
DataLate(r) ==
  /\ rg[r] \in {"running", "exited"} /\ ~ killed[r] /\ read[r] # written[r]
  /\ LET line == Lowest(written[r] \ read[r])
         exhausted == r = "selected" /\ Cardinality(lines[r]) >= MaxBytes
     IN  /\ read' = [read EXCEPT ![r] = @ \cup {line}]
         /\ lines' = [lines EXCEPT ![r] = @ \cup {line}]
         /\ truncated' = [truncated EXCEPT ![r] = exhausted]
         /\ IF exhausted THEN Kill(r) ELSE UNCHANGED killed
  /\ UNCHANGED <<environment, rg, written, timedOut, code, result>>

\* A line.  At the budget the run is truncated and killed; the universe has none.
Data(r) ==
  /\ rg[r] \in {"running", "exited"} /\ ~ killed[r] /\ read[r] # written[r]
  /\ LET line == Lowest(written[r] \ read[r])
         exhausted == r = "selected" /\ Cardinality(lines[r]) + 1 >= MaxBytes
     IN  /\ read' = [read EXCEPT ![r] = @ \cup {line}]
         /\ lines' = [lines EXCEPT ![r] = @ \cup {line}]
         /\ truncated' = [truncated EXCEPT ![r] = exhausted]
         /\ IF exhausted THEN Kill(r) ELSE UNCHANGED killed
  /\ UNCHANGED <<environment, rg, written, timedOut, code, result>>

\* What came of a line its rg died in counts as a line, unless the run was stopped.
\* Of a path it is the front, which may be the name of a file before it in rg's
\* order; of an event it is the whole but the newline, or no JSON.  (An rg that ends
\* by itself with 2 may leave one too, but then the search throws.)
Remainder(r) ==
  /\ code[r] = "crash" /\ ~ truncated[r] /\ ~ timedOut[r] /\ written[r] # Output(r)
  /\ LET next == Lowest(Output(r) \ written[r])
     IN  \E line \in IF r = "selected" /\ kind \in Greps THEN {0, next} ELSE 0 .. next :
           lines' = [lines EXCEPT ![r] = @ \cup {line}]
  /\ \/ UNCHANGED truncated
     \/ /\ r = "selected" /\ Cardinality(lines[r]) + 1 >= MaxBytes
        /\ truncated' = [truncated EXCEPT ![r] = TRUE]

\* The rg has ended and its pipe is drained or destroyed.
Close(r) ==
  /\ rg[r] = "exited" /\ (killed[r] \/ read[r] = written[r])
  /\ rg' = [rg EXCEPT ![r] = "closed"]
  /\ UNCHANGED <<lines, truncated>> \/ Remainder(r)
  /\ UNCHANGED <<environment, written, read, timedOut, killed, code, result>>

\* Mutant: the run is stopped and nobody is told.
AbortSilently(r) ==
  /\ rg[r] \in {"running", "exited"} /\ ~ timedOut[r]
  /\ Kill(r)
  /\ UNCHANGED <<environment, rg, written, read, collected, code, result>>

\* The deadline, or the caller's abort: they look the same.
Abort(r) ==
  /\ rg[r] \in {"running", "exited"} /\ ~ timedOut[r]
  /\ timedOut' = [timedOut EXCEPT ![r] = TRUE]
  /\ Kill(r)
  /\ UNCHANGED <<environment, rg, written, read, lines, truncated, code, result>>

\* Mutant: SIGTERM is trusted.
GraceTrusting(r) ==
  /\ rg[r] = "running" /\ killed[r] /\ written[r] = Output(r)
  /\ rg' = [rg EXCEPT ![r] = "exited"]
  /\ code' = [code EXCEPT ![r] = "signal"]
  /\ UNCHANGED <<environment, written, read, collected, killed, result>>

\* The grace period is over: SIGKILL.
Grace(r) ==
  /\ rg[r] = "running" /\ killed[r]
  /\ rg' = [rg EXCEPT ![r] = "exited"]
  /\ code' = [code EXCEPT ![r] = "signal"]
  /\ UNCHANGED <<environment, written, read, collected, killed, result>>

-----------------------------------------------------------------------------
(* globSearch and grepSearch *)

Closed(r) == rg[r] = "closed"

\* The lines of the selected run are there, and nothing was thrown.
Selected == result = Pending /\ Closed("selected") /\ code["selected"] # "spawn"

\* Mutant: null, of a stopped run, is not taken for 0.
ListedByItself == code["universe"] = "0"

\* 0, or null: rg died of a signal.  To the selected run 1 is an empty result.
Listed == code["universe"] \in {"0", "signal", "crash"}
Failed == code["selected"] = "2"

\* ignoreAwareUniverse throws; glob does not wait for its other rg.
UniverseFails ==
  /\ result = Pending /\ Closed("universe") /\ ~ Listed
  /\ result' = Thrown
  /\ UNCHANGED <<environment, rg, written, read, collected, killed, code>>

\* So does the first of the two to fail to start.
SelectedFails ==
  /\ result = Pending /\ code["selected"] = "spawn"
  /\ result' = Thrown
  /\ UNCHANGED <<environment, rg, written, read, collected, killed, code>>

\* grep goes on to the search itself.
StartSelected ==
  /\ kind = "grepGlobs" /\ rg["selected"] = "idle" /\ result = Pending
  /\ Closed("universe") /\ Listed
  /\ rg' = [rg EXCEPT !["selected"] = "running"]
  /\ UNCHANGED <<environment, written, read, collected, killed, code, result>>

\* Mutant: a universe that could not be listed in time filters nothing.
IntersectionIfListed ==
  IF timedOut["universe"] THEN lines["selected"] ELSE lines["selected"] \cap lines["universe"]

Intersection == lines["selected"] \cap lines["universe"]

\* What the selected run tells of itself, with what is left of its lines.
Told(paths) ==
  result' = [status |-> IF timedOut["selected"] THEN "timeout" ELSE "ok",
             truncated |-> truncated["selected"],
             paths |-> paths]

\* Two lines that name no file may be the same or not.
GlobAnswers ==
  /\ kind \in Globs /\ Selected /\ Closed("universe") /\ Listed
  /\ IF Failed THEN result' = Thrown
     ELSE \E paths \in {Intersection, Intersection \ {0}} : Told(paths)
  /\ UNCHANGED <<environment, rg, written, read, collected, killed, code>>

\* grep yields its matches and a terminal frame ...
GrepAnswers ==
  /\ kind \in Greps /\ Selected /\ 0 \notin lines["selected"]
  /\ IF Failed THEN result' = Thrown
     ELSE Told(IF kind = "grep" THEN lines["selected"] ELSE Intersection)
  /\ UNCHANGED <<environment, rg, written, read, collected, killed, code>>

\* ... or throws at a line that is no event of rg's.
GrepMalformed ==
  /\ kind \in Greps /\ Selected /\ ~ Failed /\ lines["selected"] # {}
  /\ result' = Thrown
  /\ UNCHANGED <<environment, rg, written, read, collected, killed, code>>

RunStep(r) == Data(r) \/ Close(r) \/ Grace(r)
SearchStep ==
  \/ UniverseFails \/ SelectedFails \/ StartSelected
  \/ GlobAnswers \/ GrepAnswers \/ GrepMalformed

Next ==
  \/ \E r \in Runs : RgWrites(r) \/ RgExits(r) \/ SpawnFails(r) \/ RunStep(r) \/ Abort(r)
  \/ SearchStep

Spec == Init /\ [][Next]_vars

\* Events are delivered and timers fire; ripgrep owes nothing.
FairSpec ==
  /\ Spec /\ WF_vars(SearchStep)
  /\ \A r \in Runs : WF_vars(RunStep(r)) /\ WF_vars(Abort(r))

-----------------------------------------------------------------------------
(* Properties *)

\* Types; the selected run keeps within its budget, and an rg that did not die by
\* itself leaves no line but those that came through its pipe.
TypeOK ==
  /\ kind \in Globs \cup Greps /\ hits \subseteq Files /\ ignored \subseteq Files
  /\ rg \in [Runs -> {"idle", "running", "exited", "closed"}]
  /\ code \in [Runs -> {"none", "0", "1", "2", "signal", "crash", "spawn"}]
  /\ written \in [Runs -> SUBSET Files] /\ read \in [Runs -> SUBSET Files]
  /\ lines \in [Runs -> SUBSET (Files \cup {0})]
  /\ \A r \in Runs :
       /\ code[r] # "crash" => lines[r] \subseteq read[r]
       /\ read[r] \subseteq written[r] /\ written[r] \subseteq Output(r)
       /\ (code[r] = "none") = (rg[r] \in {"idle", "running"})
  /\ Cardinality(lines["selected"]) <= MaxBytes
  /\ truncated \in [Runs -> BOOLEAN] /\ timedOut \in [Runs -> BOOLEAN]
  /\ killed \in [Runs -> BOOLEAN]
  /\ result.status \in {"none", "thrown", "ok", "timeout"}

\* What can be wrong with the paths of an answer, by the run that is to keep it out:
\* nothing; or one, the front of the line that an rg died in of a signal of its own.
Spared(r, paths) ==
  IF code[r] = "crash" THEN \A f, g \in paths : f = g ELSE paths = {}

\* Whatever is stopped or fails, and when: no ignored file is a result, unless
\* ignored files were asked for, and no file the pattern does not select.  The one
\* exception is the file whose name is the front of a line some rg died in.
OnlyWanted ==
  /\ kind # "globIgnored" => Spared("universe", result.paths \cap ignored)
  /\ Spared("selected", result.paths \ hits)

\* A search that says ok, and not truncated, has read all that its pattern
\* selects: the selected run was not stopped on the way, whether by its deadline,
\* the caller or the budget.  An rg that died by itself is the exception: its exit
\* code is null, which passes for success.
SelectedTold ==
  (result.status = "ok" /\ ~ result.truncated /\ code["selected"] # "crash")
    => lines["selected"] = Output("selected")

\* To be stopped, at the deadline, by the caller or at the budget, is no failure: a
\* search throws only of an rg that could not start or failed, of a line that is no
\* event, or because there is nothing at all to list, which exits with the 1 that
\* means "no match" for the other run (search.ts 196) and an error for this one.
StopIsNoFailure ==
  result = Thrown =>
    \/ \E r \in Runs : code[r] \in {"2", "spawn"}
    \/ kind \in Greps /\ lines["selected"] # {}
    \/ kind # "grep" /\ Output("universe") = {}

\* Every search answers or throws in the end and leaves no rg behind, even one
\* that hangs and ignores SIGTERM.
Ends == <>[](result # Pending /\ \A r \in Runs : rg[r] # "running")

\* What a search is to find.
Wanted == IF kind = "globIgnored" THEN hits ELSE hits \ ignored

\* What stops a search at its deadline is told by its status: a search that says
\* ok, and not truncated, lacks no file (budget.ts 8-11: "the terminal frame is
\* status timeout").
OkIsComplete ==
  (result.status = "ok" /\ ~ result.truncated /\ \A r \in Runs : code[r] # "crash")
    => result.paths = Wanted
=============================================================================
