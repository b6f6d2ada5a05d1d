--------------------------- MODULE ProviderStream ---------------------------
(***************************************************************************)
(* One inference call: OpenAICompatibleProvider.stream of                  *)
(* packages/providers/src/adapter.ts, with the projection of projection.ts *)
(* and the waiting helpers of guards.ts.                                   *)
(*                                                                         *)
(* The endpoint, the caller and the clock are the environment: the         *)
(* endpoint may answer anything or nothing, the caller may abort at any    *)
(* time and pulls one event after the other, or stops pulling.  A chunk of *)
(* the stream is what one SSE event holds: fragments of text and of tool   *)
(* calls, whether it ends the completion, and whether something behind the *)
(* fragments is malformed.                                                 *)
(***************************************************************************)
EXTENDS Naturals, Sequences

CONSTANTS
  Chunks,        \* what the endpoint may send
  MaxRetries,    \* options.maxRetries
  MaxCharacters, \* the response's character limit; a fragment counts one
  MaxChunks      \* bound: how many chunks a stream has

Fragments == UNION {{c.fragments[i] : i \in DOMAIN c.fragments} : c \in Chunks}

\* What a chunk holds; its fragments come in order.
ChunkType == [fragments : Seq(Fragments), finish : BOOLEAN, bad : BOOLEAN]

ASSUME ConstantsAssumption ==
  /\ Chunks \subseteq ChunkType
  /\ MaxRetries \in 0 .. 2 /\ MaxCharacters \in Nat /\ MaxChunks \in Nat

VARIABLES
  pc,
  attempt,
  reason,    \* why the call's own signal is aborted: "no" while it is not
  received,  \* how many chunks have come
  chunk,     \* the one being projected
  items,     \* ResponseProjection: the fragments accepted, in order
  calls,     \* ResponseProjection: id and name of every tool call so far
  stopped,   \* ResponseProjection: finish_reason has come
  out,       \* events of the chunk that are still to be yielded
  yielded,   \* the fragments the caller has been given
  error,     \* the error in flight
  outcome    \* what the caller is told in the end

projection == <<items, calls, stopped>>
vars == <<pc, attempt, reason, received, chunk, projection, out, yielded, error, outcome>>

NoCall == [id |-> "none", named |-> FALSE]
Indexes == {f.index : f \in {g \in Fragments : g.kind = "call"}}
Nothing == [fragments |-> <<>>, finish |-> FALSE, bad |-> FALSE]

Init ==
  /\ pc = "start" /\ attempt = 0 /\ reason \in {"no", "aborted"}
  /\ received = 0 /\ chunk = Nothing
  /\ items = <<>> /\ calls = [i \in {} |-> NoCall] /\ stopped = FALSE
  /\ out = <<>> /\ yielded = <<>> /\ error = "none" /\ outcome = "none"

Goto(where) == pc' = where
Fails(kind) == pc' = "catch" /\ error' = kind

\* The call's signal keeps the reason it was first aborted with.
Abort(why) == reason' = IF reason = "no" THEN why ELSE reason

-----------------------------------------------------------------------------
(* The connection *)

\* Every attempt starts with a look at the signal; before the first one the key
\* is looked up and the request put together, which may throw.
Connect ==
  /\ pc = "start"
  /\ \/ reason = "no" /\ Goto("fetch") /\ UNCHANGED error
     \/ reason = "no" /\ attempt = 0 /\ Fails("disconnected")
     \/ reason # "no" /\ Fails(reason)
  /\ UNCHANGED <<attempt, reason, received, chunk, projection, out, yielded, outcome>>

\* An event stream; its body may be missing.
FetchStream ==
  /\ pc = "fetch"
  /\ \/ Goto("read") /\ UNCHANGED <<error, reason>>
     \/ Fails("malformed-stream") /\ Abort("malformed-stream")
  /\ UNCHANGED <<attempt, received, chunk, projection, out, yielded, outcome>>

\* Mutant: one attempt too many.
FetchRetryLong ==
  /\ pc = "fetch"
  /\ \/ attempt <= MaxRetries /\ Goto("backoff") /\ UNCHANGED error
     \/ attempt > MaxRetries /\ Goto("errorBody") /\ UNCHANGED error
     \/ attempt > MaxRetries /\ Fails("disconnected")
  /\ UNCHANGED <<attempt, reason, received, chunk, projection, out, yielded, outcome>>

\* 429, 5xx or no response at all: again, while there are retries left.
FetchRetry ==
  /\ pc = "fetch"
  /\ \/ attempt < MaxRetries /\ Goto("backoff") /\ UNCHANGED error
     \/ attempt = MaxRetries /\ Goto("errorBody") /\ UNCHANGED error
     \/ attempt = MaxRetries /\ Fails("disconnected")
  /\ UNCHANGED <<attempt, reason, received, chunk, projection, out, yielded, outcome>>

\* Any other response is an error; its body is read for the message.
FetchError ==
  /\ pc = "fetch" /\ Goto("errorBody")
  /\ UNCHANGED <<attempt, reason, received, chunk, projection, out, yielded, error, outcome>>

\* The delay between two attempts is over.
BackoffEnds ==
  /\ pc = "backoff" /\ Goto("start") /\ attempt' = attempt + 1
  /\ UNCHANGED <<reason, received, chunk, projection, out, yielded, error, outcome>>

\* The error's body is read, or the connection is lost on the way.
ErrorBody ==
  /\ pc = "errorBody"
  /\ \/ Fails("http") /\ Abort("http")
     \/ Fails("disconnected") /\ UNCHANGED reason
  /\ UNCHANGED <<attempt, received, chunk, projection, out, yielded, outcome>>

\* Every wait is a race with the signal; what came before the abort may still be
\* handled first.
WaitAborted ==
  /\ pc \in {"fetch", "backoff", "errorBody", "read"} /\ reason # "no"
  /\ Fails(reason)
  /\ UNCHANGED <<attempt, reason, received, chunk, projection, out, yielded, outcome>>

-----------------------------------------------------------------------------
(* The stream *)

Receive ==
  /\ pc = "read" /\ received < MaxChunks
  /\ chunk' \in Chunks /\ received' = received + 1
  /\ Goto("project")
  /\ UNCHANGED <<attempt, reason, projection, out, yielded, error, outcome>>

\* [DONE], or the connection is closed.
ReceiveEnd ==
  /\ pc = "read" /\ Goto("finish")
  /\ UNCHANGED <<attempt, reason, received, chunk, projection, out, yielded, error, outcome>>

\* What comes is no SSE, no UTF-8 or no JSON, or the connection breaks.
ReceiveBroken ==
  /\ pc = "read"
  /\ \E kind \in {"malformed-stream", "disconnected"} : Fails(kind)
  /\ UNCHANGED <<attempt, reason, received, chunk, projection, out, yielded, outcome>>

\* ResponseProjection.tool on a call's fragment, where it is well formed.
Known(i) == IF i \in DOMAIN calls THEN calls[i] ELSE NoCall

\* Mutant: an id is compared with its own call's only.
AcceptsDuplicate(f) ==
  /\ ~ stopped /\ Len(items) < MaxCharacters
  /\ (f.kind = "call" /\ f.id # "none") => Known(f.index).id \in {"none", f.id}

\* A fragment behind the finish reason, over the character limit, or with an id
\* that its call or another one contradicts is malformed.
Accepts(f) ==
  /\ ~ stopped /\ Len(items) < MaxCharacters
  /\ (f.kind = "call" /\ f.id # "none") =>
       /\ Known(f.index).id \in {"none", f.id}
       /\ \A i \in DOMAIN calls \ {f.index} : calls[i].id # f.id

WithCall(f) ==
  LET old == Known(f.index)
      new == [id |-> IF f.id = "none" THEN old.id ELSE f.id, named |-> old.named \/ f.named]
  IN  [i \in DOMAIN calls \cup {f.index} |-> IF i = f.index THEN new ELSE calls[i]]

\* accept, one fragment: it enters the response, and its event waits until the
\* whole chunk is accepted.
Project ==
  /\ pc = "project" /\ chunk.fragments # <<>>
  /\ LET f == Head(chunk.fragments)
     IN  IF Accepts(f)
         THEN /\ items' = Append(items, f)
              /\ calls' = IF f.kind = "call" THEN WithCall(f) ELSE calls
              /\ out' = Append(out, f)
              /\ chunk' = [chunk EXCEPT !.fragments = Tail(@)]
              /\ UNCHANGED <<pc, error>>
         ELSE Fails("malformed-stream") /\ UNCHANGED <<items, calls, out, chunk>>
  /\ UNCHANGED <<attempt, reason, received, stopped, yielded, outcome>>

\* accept, the rest of the chunk.
ProjectEnd ==
  /\ pc = "project" /\ chunk.fragments = <<>>
  /\ IF chunk.bad \/ (chunk.finish /\ stopped)
     THEN Fails("malformed-stream") /\ UNCHANGED stopped
     ELSE stopped' = (stopped \/ chunk.finish) /\ Goto("yield") /\ UNCHANGED error
  /\ chunk' = Nothing
  /\ UNCHANGED <<attempt, reason, received, items, calls, out, yielded, outcome>>

\* The events of the chunk, one by one, with a look at the signal before each and
\* before the next chunk is awaited.
Yield ==
  /\ pc = "yield"
  /\ IF reason # "no" THEN Fails(reason) /\ UNCHANGED <<out, yielded>>
     ELSE IF out = <<>> THEN Goto("read") /\ UNCHANGED <<out, yielded, error>>
     ELSE /\ yielded' = Append(yielded, Head(out)) /\ out' = Tail(out)
          /\ Goto("yielded") /\ UNCHANGED error
  /\ UNCHANGED <<attempt, reason, received, chunk, projection, outcome>>

\* The caller asks for the next event.
Pull ==
  /\ pc = "yielded" /\ Goto("yield")
  /\ UNCHANGED <<attempt, reason, received, chunk, projection, out, yielded, error, outcome>>

Complete == \A i \in DOMAIN calls : calls[i].id # "none" /\ calls[i].named

\* Mutant: an end is an end.
FinishAnyhow ==
  /\ pc = "finish"
  /\ IF reason # "no" THEN Fails(reason) /\ UNCHANGED <<reason, outcome>>
     ELSE /\ reason' = "closed" /\ outcome' = "stop"
          /\ Goto("stopping") /\ UNCHANGED error
  /\ UNCHANGED <<attempt, received, chunk, projection, out, yielded>>

\* The end counts only behind a finish reason and with every call complete.
Finish ==
  /\ pc = "finish"
  /\ IF reason # "no" THEN Fails(reason) /\ UNCHANGED <<reason, outcome>>
     ELSE IF ~ stopped THEN Fails("disconnected") /\ UNCHANGED <<reason, outcome>>
     ELSE IF ~ Complete THEN Fails("malformed-stream") /\ UNCHANGED <<reason, outcome>>
     ELSE /\ reason' = "closed" /\ outcome' = "stop"
          /\ Goto("stopping") /\ UNCHANGED error
  /\ UNCHANGED <<attempt, received, chunk, projection, out, yielded>>

-----------------------------------------------------------------------------
(* The end *)

\* Mutant: the error in flight is told, whatever caused it.
CatchLast ==
  /\ pc = "catch"
  /\ outcome' = error /\ Goto("cleanup")
  /\ UNCHANGED <<attempt, reason, received, chunk, projection, out, yielded, error>>

\* The reason of the signal, where it is aborted, is what the caller is told;
\* unless it is "http", the response goes with it as far as it was accepted.
Catch ==
  /\ pc = "catch"
  /\ outcome' = (IF reason # "no" THEN reason ELSE error) /\ Goto("cleanup")
  /\ UNCHANGED <<attempt, reason, received, chunk, projection, out, yielded, error>>

\* The caller takes message_stop, or returns the generator early.
Leave ==
  /\ pc \in {"stopping", "yielded"}
  /\ outcome' = IF pc = "yielded" THEN "returned" ELSE outcome
  /\ Goto("cleanup")
  /\ UNCHANGED <<attempt, reason, received, chunk, projection, out, yielded, error>>

\* finally: the signal is aborted, the timer cleared, the body closed or left.
Cleanup ==
  /\ pc = "cleanup" /\ Goto("done") /\ Abort("closed")
  /\ UNCHANGED <<attempt, received, chunk, projection, out, yielded, error, outcome>>

-----------------------------------------------------------------------------
(* The environment *)

Open == pc \notin {"cleanup", "done"}

\* Mutant: the deadline is for the stream only.
DeadlineLate ==
  /\ pc \in {"read", "project", "yield", "yielded", "finish"}
  /\ reason = "no" /\ reason' = "stalled"
  /\ UNCHANGED <<pc, attempt, received, chunk, projection, out, yielded, error, outcome>>

\* The deadline runs from the call to its end.
Deadline ==
  /\ Open /\ reason = "no" /\ reason' = "stalled"
  /\ UNCHANGED <<pc, attempt, received, chunk, projection, out, yielded, error, outcome>>

\* The idle timer runs while a chunk is awaited.
Idle ==
  /\ pc = "read" /\ reason = "no" /\ reason' = "stalled"
  /\ UNCHANGED <<pc, attempt, received, chunk, projection, out, yielded, error, outcome>>

CallerAborts ==
  /\ Open /\ reason = "no" /\ reason' = "aborted"
  /\ UNCHANGED <<pc, attempt, received, chunk, projection, out, yielded, error, outcome>>

Endpoint == FetchStream \/ FetchRetry \/ FetchError \/ ErrorBody
            \/ Receive \/ ReceiveEnd \/ ReceiveBroken
Own == Connect \/ BackoffEnds \/ WaitAborted \/ Project \/ ProjectEnd \/ Yield \/ Finish
       \/ Catch \/ Cleanup
Caller == Pull \/ Leave

Next == Endpoint \/ Own \/ Caller \/ Deadline \/ Idle \/ CallerAborts

Spec == Init /\ [][Next]_vars

\* The call's own steps and its deadline happen; a caller takes the next event
\* or leaves.  The endpoint owes nothing.
FairSpec == Spec /\ WF_vars(Own) /\ WF_vars(Caller) /\ WF_vars(Deadline)

-----------------------------------------------------------------------------
(* Properties *)

Kinds == {"aborted", "stalled", "http", "malformed-stream", "disconnected"}

\* Types; no more attempts than maxRetries allows.
TypeOK ==
  /\ pc \in {"start", "fetch", "backoff", "errorBody", "read", "project", "yield", "yielded",
             "finish", "stopping", "catch", "cleanup", "done"}
  /\ attempt \in 0 .. MaxRetries
  /\ reason \in Kinds \cup {"no", "closed"}
  /\ received \in 0 .. MaxChunks
  /\ Len(items) <= MaxCharacters /\ stopped \in BOOLEAN
  /\ DOMAIN calls \subseteq Indexes
  /\ error \in Kinds \cup {"none"}
  /\ outcome \in Kinds \cup {"none", "stop", "returned"}

\* What the caller was given is a beginning of the response it is left with, and
\* all of it where the call succeeds, with a finish reason and complete calls.
ResponseMatchesEvents ==
  /\ Len(yielded) <= Len(items) /\ yielded = SubSeq(items, 1, Len(yielded))
  /\ outcome = "stop" => yielded = items /\ stopped /\ Complete

\* The response so far, which the turn journals also when the call fails, never
\* has two calls of one id, as its schema demands (model.ts validateCalls).  What else
\* the journal refuses, text with a lone surrogate, is a matter of the turn.
PartialAdmissible ==
  \A i, j \in DOMAIN calls : (i # j /\ calls[i].id = calls[j].id) => calls[i].id = "none"

\* Once the call is aborted, by whomever, the caller gets no further event and no
\* finished response.  If it waits for an answer it is told why the call was aborted
\* first, not what failed because of it, whatever was being awaited.
AbortIsFinal ==
  [][reason # "no" => /\ yielded' = yielded
                      /\ outcome' # outcome => outcome' \in {reason, "returned"}]_vars

\* A call ends, though the endpoint may never answer or never stop.
Ends == <>(pc = "done")
-----------------------------------------------------------------------------
(* Why they hold *)

\* What is collected and not yet yielded waits in out, and none waits between two
\* chunks.
EventsInv ==
  /\ items \in Seq(Fragments) /\ yielded \in Seq(Fragments) /\ out \in Seq(Fragments)
  /\ items = yielded \o out
  /\ chunk \in ChunkType
  /\ pc \notin {"project", "yield", "yielded", "catch", "cleanup", "done"} => out = <<>>

\* A delay comes before a retry that is left.
RetryInv == pc = "backoff" => attempt < MaxRetries

\* The call closes its own signal when it is over, and until then nobody is told.
OutcomeInv ==
  /\ reason = "closed" => pc \in {"stopping", "cleanup", "done"}
  /\ outcome # "none" => pc \in {"stopping", "cleanup", "done"}
  /\ pc = "catch" => error # "none"
  /\ outcome = "stop" => out = <<>> /\ stopped /\ Complete

\* The inductive invariant.
StreamInv == TypeOK /\ EventsInv /\ RetryInv /\ OutcomeInv /\ PartialAdmissible
=============================================================================
