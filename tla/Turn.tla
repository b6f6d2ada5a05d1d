-------------------------------- MODULE Turn --------------------------------
(***************************************************************************)
(* One session's agent loop: runTurn of packages/kernel/src/loop.ts driven *)
(* line after line by the REPL, with the CLI's ToolRunner                  *)
(* (packages/cli/src/tool-runner.ts over packages/tools/src/run.ts), the   *)
(* run budget, the user's interrupt, the provider as the source of every   *)
(* outcome it may have, and the journal as a FIFO of appends of which any  *)
(* may fail.                                                               *)
(*                                                                         *)
(* runTurn is one sequential process, "turn"; every tool call of a         *)
(* response is another, started together and joined by Promise.all.  Each  *)
(* has at most one append under way, and what the code does when an append *)
(* settles runs before anything else can happen (microtasks come before    *)
(* the next I/O completion), so a commit and its continuation are one step.*)
(***************************************************************************)
EXTENDS Naturals, Sequences, FiniteSets

CONSTANTS
  CallIds,        \* the call ids the model uses; it may use one again later
  Nature,         \* what the call behind an id is, see below
  NoCall,         \* the call id of entries that have none
  MaxInferences,  \* --max-turns
  MaxCost,        \* --max-cost, in the cost of one cheap inference
  MaxLines,       \* bound: user messages typed into the REPL
  JournalMayFail, \* whether appends may fail for a reason outside the entry
  OddText         \* whether text from outside may hold a lone surrogate

\* What the name of a call is: "known", a registered tool's; "unknown", nobody's;
\* "oddname", nobody's, with a blank in it, which the actor tool:<name> of a
\* record may not have.  The arguments of any of them may be no JSON.

(* arguments that are not JSON.  "oddname": no such tool, and the name has a *)
(* blank in it, which the actor tool:<name> of a record may not have.        *)
Natures == {"known", "unknown", "oddname"}

ASSUME ConstantsAssumption ==
  /\ Nature \in [CallIds -> Natures]
  /\ NoCall \notin CallIds /\ "turn" \notin CallIds
  /\ MaxInferences \in Nat /\ MaxCost \in Nat /\ MaxLines \in Nat
  /\ JournalMayFail \in BOOLEAN /\ OddText \in BOOLEAN

VARIABLES
  pc,         \* what runTurn or the REPL waits for
  phase,      \* the TurnState last yielded
  ending,     \* the terminal phase a turn that is ending will reach
  partial,    \* a partial response is still to be journaled
  turn, iter, \* which user message, and which inference of it
  calls,      \* the tool calls of the response being executed
  tpc,        \* where each of them is
  effects,    \* the tools that have begun to execute
  aborted,    \* the turn's AbortSignal
  inferences, spent,  \* the run budget
  view,       \* the in-memory SessionView
  jq,         \* appends not yet settled, in order
  journal,    \* the entries committed
  broken,     \* JournalWriter.failure
  closed      \* the host called close on the writer

turnVars   == <<pc, phase, ending, partial, turn, iter, aborted>>
toolVars   == <<calls, tpc, effects>>
budgetVars == <<inferences, spent>>
logVars    == <<jq, journal, broken, closed>>
vars == <<turnVars, toolVars, budgetVars, view, logVars>>

Actors == CallIds \cup {"turn"}
Usages == {"cheap", "dear", "unknown"}  \* what a response says it cost

\* TurnState: what the host is shown of a turn.
Phases == {"idle", "building_context", "waiting_for_model", "streaming_model",
           "executing_tools", "yield_candidate", "completed", "failed", "limited",
           "interrupted"}

-----------------------------------------------------------------------------
(* Entries, and the view a reader of the journal would build *)

Entry(kind, call, requested, status) ==
  [kind |-> kind, turn |-> turn, iter |-> iter, call |-> call,
   calls |-> requested, status |-> status]
Plain(kind)     == Entry(kind, NoCall, {}, "")
Failure(reason) == Entry("error", NoCall, {}, reason)
Partial         == Entry("assistant_message", NoCall, {}, "partial")
Result(c)         == Entry("tool_result", c, {}, "")

\* One entry added to a view, as materialize does it for each record.
WithResultKept(v, e) ==      \* mutant: an answered call stays pending
  CASE e.kind \in {"user_message", "assistant_message"} ->
         [v EXCEPT !.conversation = Append(@, e)]
    [] e.kind = "tool_call"   -> [v EXCEPT !.toolCalls = Append(@, e),
                                           !.pending = @ \cup {e.call}]
    [] e.kind = "tool_result" -> [v EXCEPT !.toolResults = Append(@, e)]
    [] OTHER -> v
With(v, e) ==
  CASE e.kind \in {"user_message", "assistant_message"} ->
         [v EXCEPT !.conversation = Append(@, e)]
    [] e.kind = "tool_call"   -> [v EXCEPT !.toolCalls = Append(@, e),
                                           !.pending = @ \cup {e.call}]
    [] e.kind = "tool_result" -> [v EXCEPT !.toolResults = Append(@, e),
                                           !.pending = @ \ {e.call}]
    [] OTHER -> v

\* The calls without a result behind them.
Pending(j) ==
  {c \in CallIds : \E i \in DOMAIN j :
     /\ j[i].kind = "tool_call" /\ j[i].call = c
     /\ \A k \in i .. Len(j) : ~(j[k].kind = "tool_result" /\ j[k].call = c)}

\* The entries of some kinds, in their order.
Kept(j, kinds) ==
  LET upTo[n \in 0 .. Len(j)] ==
        IF n = 0 THEN <<>>
        ELSE IF j[n].kind \in kinds THEN Append(upTo[n - 1], j[n]) ELSE upTo[n - 1]
  IN upTo[Len(j)]

\* What materialize makes of a whole journal.
Materialized(j) ==
  [conversation |-> Kept(j, {"user_message", "assistant_message"}),
   toolCalls    |-> Kept(j, {"tool_call"}),
   toolResults  |-> Kept(j, {"tool_result"}),
   pending      |-> Pending(j)]

\* toModelMessages joins an assistant's call to the first result of its id.
ResultFor(v, c) ==
  LET mine == SelectSeq(v.toolResults, LAMBDA e : e.call = c)
  IN IF mine = <<>> THEN {} ELSE {mine[1]}

-----------------------------------------------------------------------------
(* The journal port *)

Item(who, e) == [who |-> who, entry |-> e, dead |-> closed]
Ask(who, e)  == /\ jq' = Append(jq, Item(who, e))
                /\ UNCHANGED <<journal, broken, closed>>

\* record(), in the queue: a result's actor is tool:<name>, without blanks.
Refused(e) == e.kind = "tool_result" /\ Nature[e.call] = "oddname"
Accepts(item) == ~broken /\ ~item.dead /\ ~Refused(item.entry)

AtHead(who, kind) == jq # <<>> /\ jq[1].who = who /\ jq[1].entry.kind = kind

\* The append of `who' resolves, and `next' is what it appends then.
Committed(who, kind, next) ==
  /\ AtHead(who, kind) /\ Accepts(jq[1])
  /\ journal' = Append(journal, jq[1].entry)
  /\ jq' = Tail(jq) \o next
  /\ UNCHANGED <<broken, closed>>

\* It rejects: the writer is closed or has failed before, the entry does not
\* parse, or the write or fsync fails now, with the entry on disk or not.
Rejected(who, kind, next) ==
  /\ AtHead(who, kind)
  /\ \/ ~Accepts(jq[1]) /\ UNCHANGED <<journal, broken>>
     \/ /\ Accepts(jq[1]) /\ JournalMayFail
        /\ broken' = TRUE
        /\ journal' \in {journal, Append(journal, jq[1].entry)}
  /\ jq' = Tail(jq) \o next
  /\ UNCHANGED closed

-----------------------------------------------------------------------------
(* The budget *)

\* check(), before an inference; the clock passes the wall-clock budget at any
\* time, and once a look at it says so the turn ends.
CheckOffByOne(clock) ==      \* mutant: one inference too many
  IF inferences > MaxInferences THEN "max-turns"
  ELSE IF clock THEN "wall-clock" ELSE "none"
Check(clock) ==
  IF inferences >= MaxInferences THEN "max-turns"
  ELSE IF clock THEN "wall-clock" ELSE "none"

\* recordInference(), after one: the spend happened, the verdict is about
\* everything that would follow.
CostOf(usage) == CASE usage = "cheap" -> 1 [] usage = "dear" -> 2 [] OTHER -> 0
Verdict(usage, clock) ==
  IF usage = "unknown" THEN "max-cost-unknown-usage"
  ELSE IF spent + CostOf(usage) >= MaxCost THEN "max-cost"
  ELSE IF clock THEN "wall-clock" ELSE "none"

Phase(trip) == IF trip = "max-cost-unknown-usage" THEN "failed" ELSE "limited"

-----------------------------------------------------------------------------
(* runTurn *)

Init ==
  /\ pc = "idle" /\ phase = "idle" /\ ending = "none" /\ partial = FALSE
  /\ turn = 0 /\ iter = 0 /\ aborted = FALSE
  /\ calls = {} /\ tpc = [c \in CallIds |-> "none"] /\ effects = {}
  /\ inferences = 0 /\ spent = 0
  /\ view = Materialized(<<>>)
  /\ jq = <<>> /\ journal = <<>> /\ broken = FALSE /\ closed = FALSE

\* A line is typed: a fresh budget and AbortController, and a turn of its own.
StartTurn ==
  /\ pc = "idle" /\ turn < MaxLines /\ ~closed
  /\ turn' = turn + 1 /\ iter' = 1 /\ aborted' = FALSE
  /\ inferences' = 0 /\ spent' = 0
  /\ pc' = "user" /\ phase' = "idle" /\ ending' = "none" /\ partial' = FALSE
  /\ jq' = Append(jq, Item("turn", [Plain("user_message") EXCEPT !.turn = turn + 1,
                                                                 !.iter = 1]))
  /\ UNCHANGED <<toolVars, view, journal, broken, closed>>

CommitUserMessage ==
  /\ pc = "user" /\ Committed("turn", "user_message", <<>>)
  /\ view' = With(view, jq[1].entry)
  /\ pc' = "build" /\ phase' = "building_context"
  /\ UNCHANGED <<ending, partial, turn, iter, aborted, toolVars, budgetVars>>

\* The turn ends in `how'; its error entry is appended first.
Fail(how, reason, withPartial) ==
  /\ ending' = how /\ partial' = withPartial
  /\ pc' = "error"
  /\ Ask("turn", Failure(reason))

\* The top of the loop: the budget's verdict, or the prompt.
BuildContext ==
  /\ pc = "build"
  /\ \E clock \in BOOLEAN :
       \/ Check(clock) # "none" /\ Fail("limited", Check(clock), FALSE)
       \/ /\ Check(clock) = "none"
          /\ Ask("turn", Plain("prompt"))
          /\ pc' = "prompt" /\ UNCHANGED <<ending, partial>>
  /\ UNCHANGED <<phase, turn, iter, aborted, toolVars, inferences, spent, view>>

CommitPrompt ==
  /\ pc = "prompt" /\ Committed("turn", "prompt", <<>>)
  /\ pc' = "connect" /\ phase' = "waiting_for_model"
  /\ UNCHANGED <<ending, partial, turn, iter, aborted, toolVars, budgetVars, view>>

\* The stream is opened, and throws at once on a signal that is aborted.
OpenStream ==
  /\ pc = "connect"
  /\ phase' = "streaming_model"
  /\ \/ /\ aborted
        /\ ending' = "interrupted" /\ pc' = "end"
        /\ Ask("turn", Plain("turn_end"))
     \/ /\ ~aborted
        /\ pc' = "stream" /\ UNCHANGED <<logVars, ending>>
  /\ UNCHANGED <<partial, turn, iter, aborted, toolVars, budgetVars, view>>

\* message_stop: a complete response with any tool calls.
StreamStops ==
  /\ pc = "stream"
  /\ \E requested \in SUBSET CallIds, usage \in Usages :
       Ask("turn", Entry("assistant_message", NoCall, requested, usage))
  /\ pc' = "assistant"
  /\ UNCHANGED <<phase, ending, partial, turn, iter, aborted, toolVars, budgetVars, view>>

\* The provider throws "aborted", with or without a partial response.
StreamAborts ==
  /\ pc = "stream" /\ aborted
  /\ ending' = "interrupted"
  /\ \/ Ask("turn", Partial) /\ pc' = "partial"
     \/ Ask("turn", Plain("turn_end")) /\ pc' = "end"
  /\ UNCHANGED <<phase, partial, turn, iter, aborted, toolVars, budgetVars, view>>

\* Mutant: a provider error is reported and not journaled.
StreamFailsSilently ==
  /\ pc = "stream"
  /\ ending' = "failed" /\ pc' = "end" /\ Ask("turn", Plain("turn_end"))
  /\ UNCHANGED <<phase, partial, turn, iter, aborted, toolVars, budgetVars, view>>

\* The provider throws anything else, or ends without message_stop.
StreamFails ==
  /\ pc = "stream"
  /\ \E withPartial \in BOOLEAN : Fail("failed", "provider", withPartial)
  /\ UNCHANGED <<phase, turn, iter, aborted, toolVars, budgetVars, view>>

\* canonicalJson throws on a lone surrogate when append is called: nothing is
\* queued, the writer has not failed, and runTurn throws.  Here it is in the text
\* of a response, whole or partial, or in a provider error's message ...
RefuseResponse ==
  /\ pc = "stream" /\ OddText
  /\ pc' = "thrown"
  /\ UNCHANGED <<phase, ending, partial, turn, iter, aborted, toolVars, budgetVars, view, logVars>>

\* The response is in the journal: the budget's verdict, then tools or the end.
CommitAssistantMessage ==
  LET e == jq[1].entry
      requested == e.calls
  IN /\ pc = "assistant"
     /\ view' = With(view, e)
     /\ inferences' = inferences + 1
     /\ spent' = spent + CostOf(e.status)
     /\ \E clock \in BOOLEAN :
          LET trip == Verdict(e.status, clock)
             IN \/ /\ trip # "none"
                   /\ Committed("turn", "assistant_message", <<Item("turn", Failure(trip))>>)
                   /\ ending' = Phase(trip) /\ pc' = "error"
                   /\ UNCHANGED <<phase, toolVars>>
                \/ /\ trip = "none" /\ requested = {}
                   /\ Committed("turn", "assistant_message", <<Item("turn", Plain("turn_end"))>>)
                   /\ ending' = "completed" /\ pc' = "end" /\ phase' = "yield_candidate"
                   /\ UNCHANGED toolVars
                \/ /\ trip = "none" /\ requested # {}
                   /\ Committed("turn", "assistant_message", <<>>)
                   /\ pc' = "tools" /\ phase' = "executing_tools"
                   /\ calls' = requested
                   /\ tpc' = [c \in CallIds |-> IF c \in requested THEN "start" ELSE "none"]
                   /\ UNCHANGED <<ending, effects>>
     /\ UNCHANGED <<partial, turn, iter, aborted>>

CommitError ==
  /\ pc = "error"
  /\ \/ /\ partial
        /\ Committed("turn", "error", <<Item("turn", Partial)>>) /\ pc' = "partial"
     \/ /\ ~partial
        /\ Committed("turn", "error", <<Item("turn", Plain("turn_end"))>>) /\ pc' = "end"
  /\ UNCHANGED <<phase, ending, partial, turn, iter, aborted, toolVars, budgetVars, view>>

\* ... and here in the partial response appended behind such an error.
RefusePartial ==
  /\ pc = "error" /\ partial /\ OddText
  /\ Committed("turn", "error", <<>>) /\ pc' = "thrown"
  /\ UNCHANGED <<phase, ending, partial, turn, iter, aborted, toolVars, budgetVars, view>>

CommitPartial ==
  /\ pc = "partial"
  /\ Committed("turn", "assistant_message", <<Item("turn", Plain("turn_end"))>>)
  /\ pc' = "end"
  /\ UNCHANGED <<phase, ending, partial, turn, iter, aborted, toolVars, budgetVars, view>>

CommitTurnEnd ==
  /\ pc = "end" /\ Committed("turn", "turn_end", <<>>)
  /\ pc' = "ended" /\ phase' = ending
  /\ UNCHANGED <<ending, partial, turn, iter, aborted, toolVars, budgetVars, view>>

\* JournalCommitError leaves runTurn as it is: no error entry, no turn_end.
RejectTurn ==
  /\ pc \in {"user", "prompt", "assistant", "error", "partial", "end"}
  /\ \E kind \in {"user_message", "prompt", "assistant_message", "error", "turn_end"} :
       Rejected("turn", kind, <<>>)
  /\ pc' = "thrown"
  /\ UNCHANGED <<phase, ending, partial, turn, iter, aborted, toolVars, budgetVars, view>>

-----------------------------------------------------------------------------
(* One tool call: ToolRunner.run and the append of its result *)

\* An unknown tool or unparsable arguments give a failed outcome at once, and so
\* do a plan that throws and a tool_call whose text the writer refuses at once;
\* otherwise the planned call is recorded.
StartTool(c) ==
  /\ tpc[c] = "start"
  /\ \/ /\ Ask(c, Result(c))
        /\ tpc' = [tpc EXCEPT ![c] = "resulting"]
     \/ /\ Nature[c] = "known"
        /\ Ask(c, Entry("tool_call", c, {}, ""))
        /\ tpc' = [tpc EXCEPT ![c] = "recording"]
  /\ UNCHANGED <<turnVars, calls, effects, budgetVars, view>>

\* The failed outcome of arguments that are not JSON quotes them, perhaps half a
\* surrogate pair: canonicalJson refuses the result and Promise.all rejects.
RefuseOutcome(c) ==
  /\ tpc[c] = "start" /\ Nature[c] = "known" /\ OddText
  /\ tpc' = [tpc EXCEPT ![c] = "thrown"]
  /\ pc' = IF pc = "tools" THEN "thrown" ELSE pc
  /\ UNCHANGED <<phase, ending, partial, turn, iter, aborted, calls, effects, budgetVars, view,
                 logVars>>

\* From here on the tool may have had its effect.
Begin(c) == /\ tpc' = [tpc EXCEPT ![c] = "executing"]
            /\ effects' = effects \cup {[turn |-> turn, iter |-> iter, call |-> c]}

\* Mutant: policy is asked and its answer journaled while the tool runs.
CommitToolCallAndRun(c) ==
  /\ tpc[c] = "recording" /\ Committed(c, "tool_call", <<>>)
  /\ view' = With(view, jq[1].entry)
  /\ Begin(c)
  /\ UNCHANGED <<turnVars, calls, budgetVars>>

\* The call is in the journal and the view; policy decides, and the decision
\* is journaled before anything comes of it.  "ask" is refused like "deny".
CommitToolCall(c) ==
  /\ tpc[c] = "recording"
  /\ \E decision \in {"allow", "refuse"} :
       Committed(c, "tool_call", <<Item(c, Entry("permission", c, {}, decision))>>)
  /\ view' = With(view, jq[1].entry)
  /\ tpc' = [tpc EXCEPT ![c] = "authorizing"]
  /\ UNCHANGED <<turnVars, calls, effects, budgetVars>>

CommitPermission(c) ==
  /\ tpc[c] = "authorizing"
  /\ \/ /\ jq # <<>> /\ jq[1].entry.status = "allow"
        /\ Committed(c, "permission", <<>>)
        /\ Begin(c)
     \/ /\ jq # <<>> /\ jq[1].entry.status # "allow"
        /\ Committed(c, "permission", <<Item(c, Result(c))>>)
        /\ tpc' = [tpc EXCEPT ![c] = "resulting"] /\ UNCHANGED effects
  /\ UNCHANGED <<turnVars, calls, budgetVars, view>>

\* execute(), then the bounding of what it gave; a throw, an abort and a timeout
\* are outcomes like any other, and what an outcome says is not modelled.
Execute(c) ==
  /\ tpc[c] = "executing"
  /\ Ask(c, Result(c))
  /\ tpc' = [tpc EXCEPT ![c] = "resulting"]
  /\ UNCHANGED <<turnVars, calls, effects, budgetVars, view>>

CommitResult(c) ==
  /\ tpc[c] = "resulting" /\ Committed(c, "tool_result", <<>>)
  /\ view' = With(view, jq[1].entry)
  /\ tpc' = [tpc EXCEPT ![c] = "done"]
  /\ UNCHANGED <<turnVars, calls, effects, budgetVars>>

\* executeRaw turns a rejected record into a failed outcome like any other.
RejectToolCall(c) ==
  /\ tpc[c] = "recording"
  /\ Rejected(c, "tool_call", <<Item(c, Result(c))>>)
  /\ tpc' = [tpc EXCEPT ![c] = "resulting"]
  /\ UNCHANGED <<turnVars, calls, effects, budgetVars, view>>

\* Mutant: the rejection of one call does not reject the join.
RejectionSwallowed(c) ==
  /\ \/ tpc[c] = "authorizing" /\ Rejected(c, "permission", <<>>)
     \/ tpc[c] = "resulting" /\ Rejected(c, "tool_result", <<>>)
  /\ tpc' = [tpc EXCEPT ![c] = "thrown"]
  /\ UNCHANGED <<turnVars, calls, effects, budgetVars, view>>

\* A rejected permission or result rejects this call and with it Promise.all,
\* which does not wait for the others: they go on without a turn.
RejectTool(c) ==
  /\ \/ tpc[c] = "authorizing" /\ Rejected(c, "permission", <<>>)
     \/ tpc[c] = "resulting" /\ Rejected(c, "tool_result", <<>>)
  /\ tpc' = [tpc EXCEPT ![c] = "thrown"]
  /\ pc' = IF pc = "tools" THEN "thrown" ELSE pc
  /\ UNCHANGED <<phase, ending, partial, turn, iter, aborted, calls, effects, budgetVars, view>>

\* Promise.all has every outcome.
SomeSettled == \E c \in calls : tpc[c] = "done"  \* mutant: Promise.race
AllSettled == \A c \in calls : tpc[c] = "done"

\* Back to the top of the loop.
LoopBack ==
  /\ pc = "tools" /\ AllSettled
  /\ pc' = "build" /\ phase' = "building_context"
  /\ iter' = iter + 1
  /\ UNCHANGED <<ending, partial, turn, aborted, toolVars, budgetVars, view, logVars>>

-----------------------------------------------------------------------------
(* The host: REPL, run command and user *)

\* The REPL reads the journal again and takes the next line, unless the turn
\* failed or ran into a limit.
Return ==
  /\ pc = "ended"
  /\ pc' = IF ending \in {"completed", "interrupted"} THEN "idle" ELSE "exited"
  /\ view' = Materialized(journal)
  /\ UNCHANGED <<phase, ending, partial, turn, iter, aborted, toolVars, budgetVars, logVars>>

\* Mutant: the command returns runRepl's promise without awaiting it.
CloseWriterUnawaited ==
  /\ ~closed
  /\ closed' = TRUE
  /\ UNCHANGED <<turnVars, toolVars, budgetVars, view, jq, journal, broken>>

\* The run command's finally closes the writer, at the end of the input, after
\* a turn that ended it, and after an exception.
CloseWriter ==
  /\ pc \in {"idle", "exited", "thrown"} /\ ~closed
  /\ closed' = TRUE
  /\ UNCHANGED <<turnVars, toolVars, budgetVars, view, jq, journal, broken>>

Running == pc \notin {"idle", "ended", "exited", "thrown", "dead"}

\* Ctrl-C while a turn runs.
Interrupt ==
  /\ Running /\ ~aborted
  /\ aborted' = TRUE
  /\ UNCHANGED <<pc, phase, ending, partial, turn, iter, toolVars, budgetVars, view, logVars>>

\* The process is killed, or ended by an error nobody handles, as that of a closed
\* stdout is: what was being appended is on disk or not.
Die ==
  /\ pc # "dead"
  /\ pc' = "dead" /\ calls' = {} /\ tpc' = [c \in CallIds |-> "none"]
  /\ \/ UNCHANGED journal
     \/ jq # <<>> /\ Accepts(jq[1]) /\ journal' = Append(journal, jq[1].entry)
  /\ jq' = <<>>
  /\ UNCHANGED <<phase, ending, partial, turn, iter, aborted, effects, budgetVars, view,
                 broken, closed>>

ToolStep(c) ==
  \/ StartTool(c) \/ RefuseOutcome(c) \/ CommitToolCall(c) \/ CommitPermission(c)
  \/ Execute(c) \/ CommitResult(c) \/ RejectToolCall(c) \/ RejectTool(c)

TurnStep ==
  \/ CommitUserMessage \/ BuildContext \/ CommitPrompt \/ OpenStream
  \/ StreamStops \/ StreamAborts \/ StreamFails \/ RefuseResponse
  \/ CommitAssistantMessage \/ CommitError \/ RefusePartial \/ CommitPartial \/ CommitTurnEnd
  \/ RejectTurn \/ LoopBack \/ Return

Next ==
  \/ StartTurn \/ TurnStep
  \/ \E c \in CallIds : ToolStep(c)
  \/ CloseWriter \/ Interrupt \/ Die

Spec == Init /\ [][Next]_vars

(***************************************************************************)
(* Runtime and adapter keep the turn going: appends settle (Journal), the  *)
(* stream ends by its deadline, tools end by their budget.  The user types *)
(* and interrupts when he likes.                                           *)
(***************************************************************************)
Fairness == /\ WF_vars(TurnStep)
            /\ \A c \in CallIds : WF_vars(ToolStep(c))
FairSpec == Spec /\ Fairness

-----------------------------------------------------------------------------
(* Properties *)

Statuses == Usages \cup {"", "partial", "provider", "allow", "refuse", "max-turns", "wall-clock",
                         "max-cost", "max-cost-unknown-usage"}

EntryType == [kind : {"user_message", "prompt", "assistant_message", "tool_call",
                      "permission", "tool_result", "error", "turn_end"},
              turn : 0 .. MaxLines, iter : Nat, call : CallIds \cup {NoCall},
              calls : SUBSET CallIds, status : Statuses]

ViewType == [conversation : Seq(EntryType), toolCalls : Seq(EntryType),
             toolResults : Seq(EntryType), pending : SUBSET CallIds]

TypeOK ==
  /\ pc \in {"idle", "user", "build", "prompt", "connect", "stream", "assistant",
             "tools", "error", "partial", "end", "ended", "exited", "thrown",
             "dead"}
  /\ phase \in Phases
  /\ ending \in {"none", "completed", "failed", "limited", "interrupted"}
  /\ partial \in BOOLEAN /\ aborted \in BOOLEAN
  /\ turn \in 0 .. MaxLines /\ iter \in 0 .. MaxInferences + 1
  /\ calls \subseteq CallIds
  /\ tpc \in [CallIds -> {"none", "start", "recording", "authorizing", "executing",
                          "resulting", "done", "thrown"}]
  /\ effects \subseteq [turn : 1 .. turn, iter : 1 .. MaxInferences, call : CallIds]
  /\ inferences \in 0 .. MaxInferences /\ spent \in 0 .. 2 * inferences
  /\ view \in ViewType
  /\ jq \in Seq([who : Actors, entry : EntryType, dead : BOOLEAN])
  /\ journal \in Seq(EntryType)
  /\ broken \in BOOLEAN /\ closed \in BOOLEAN

At(i, kind, t, n, c) == /\ journal[i].kind = kind /\ journal[i].turn = t
                        /\ journal[i].iter = n /\ journal[i].call = c

\* A tool only ever runs after its own call and then the permission for it were
\* committed (tool-runner.ts 4-6 and 11-13, AC-16.6, AC-21.7), and one that ran and
\* has no result in the journal is a pending call to whoever reads it (session's
\* index.ts 3), whether other calls failed, the turn threw or the process died.
EffectsAccounted ==
  \A e \in effects :
    /\ \E i, k \in DOMAIN journal :
         /\ i < k
         /\ At(i, "tool_call", e.turn, e.iter, e.call)
         /\ At(k, "permission", e.turn, e.iter, e.call) /\ journal[k].status = "allow"
    /\ \/ \E i \in DOMAIN journal : At(i, "tool_result", e.turn, e.iter, e.call)
       \/ e.call \in Pending(journal)

\* Every call of a response has exactly one result in the journal before the
\* turn's next inference is asked for (AC-18.1).
ResultsBeforeInference ==
  \A i, k \in DOMAIN journal :
    (/\ i < k /\ journal[i].kind = "assistant_message" /\ journal[k].kind = "prompt"
     /\ journal[i].turn = journal[k].turn)
      => \A c \in journal[i].calls :
           Cardinality({r \in i .. k : At(r, "tool_result", journal[i].turn,
                                          journal[i].iter, c)}) = 1

\* The view a prompt is built from is the one a reader of the journal gets,
\* though it is kept up by concurrent calls (loop.ts 153-155, AC-10.3).
ViewMirrorsJournal == pc = "build" => view = Materialized(journal)

\* Every counter keeps its bounds and every variable its type, and no inference is
\* asked for once a bound of the run was reached: --max-turns counted over the turn,
\* and cost reached or unknown after one response.
CapsHold ==
  /\ TypeOK
  /\ \A k \in DOMAIN journal : journal[k].kind = "prompt" =>
       LET before == {i \in 1 .. k : /\ journal[i].kind = "assistant_message"
                                     /\ journal[i].turn = journal[k].turn}
           Count(usage) == Cardinality({i \in before : journal[i].status = usage})
       IN /\ Cardinality(before) < MaxInferences
          /\ Count("cheap") + 2 * Count("dear") < MaxCost \/ before = {}
          /\ Count("unknown") = 0

\* What the host is told of a turn's end is what the journal says of it: a
\* failed or limited turn has its error before its turn_end, no other has one,
\* and no call is left without a result (AC-10.4, AC-19.5).
OutcomeJournaled ==
  pc = "ended" =>
    LET mine == {i \in DOMAIN journal : journal[i].turn = turn}
    IN /\ \E i \in mine : journal[i].kind = "turn_end"
       /\ (phase \in {"failed", "limited"}) <=> \E i \in mine : journal[i].kind = "error"
       /\ Pending(journal) = {}

\* A turn throws only when the journal itself failed: no tool call, whatever
\* the model made of it, aborts the turn (tool-runner.ts 9-11, AC-18.4).
OnlyJournalFailureThrows == pc = "thrown" => broken

\* With a working journal a turn throws only because the writer refused text of
\* the endpoint's: the outcome of a call that never ran, or, behind the prompt or
\* behind the error of a response cut off, the response or the error's message.
\* No tool that ran, no recorded call, no permission, no prompt and no turn_end
\* throws, and nothing throws when the text can be written (tool-runner.ts 9-11).
OnlyRefusedTextThrows ==
  (pc = "thrown" /\ ~broken) =>
    \/ \E c \in calls : /\ tpc[c] = "thrown" /\ (OddText \/ Nature[c] = "oddname")
                        /\ [turn |-> turn, iter |-> iter, call |-> c] \notin effects
    \/ /\ OddText /\ journal # <<>>
       /\ LET last == journal[Len(journal)]
          IN /\ last.turn = turn
             /\ last.kind = "prompt" \/ (last.kind = "error" /\ partial)

\* Every call in the prompt is answered by its own result (AC-18.1: a turn
\* "returns all results before the next inference").
PromptShowsOwnResults ==
  pc = "prompt" =>
    \A i \in DOMAIN view.conversation :
      LET a == view.conversation[i]
      IN \A c \in a.calls :
           LET own == {e \in {view.toolResults[n] : n \in DOMAIN view.toolResults} :
                         e.turn = a.turn /\ e.iter = a.iter /\ e.call = c}
           IN own # {} => ResultFor(view, c) \subseteq own

\* Every turn comes to an end, interrupted or not, with the journal working or
\* failing under any of its calls.
TurnEnds == pc = "user" ~> ~Running
=============================================================================
