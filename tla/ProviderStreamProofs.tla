------------------------ MODULE ProviderStreamProofs ------------------------
(***************************************************************************)
(* Theorems about one inference call (ProviderStream), for any number of   *)
(* chunks and fragments and whatever the endpoint, the caller and the      *)
(* clock do.                                                               *)
(***************************************************************************)
EXTENDS ProviderStream, SequenceTheorems, TLAPS

LEMMA NothingIsChunk == Nothing \in ChunkType
BY EmptySeq DEF Nothing, ChunkType

(* The first of some waiting elements moves behind those given, and one more waits. *)
LEMMA FirstMoves ==
  ASSUME NEW S, NEW given \in Seq(S), NEW waiting \in Seq(S), waiting # <<>>
  PROVE  /\ Append(given, Head(waiting)) \in Seq(S) /\ Tail(waiting) \in Seq(S)
         /\ given \o waiting = Append(given, Head(waiting)) \o Tail(waiting)
<1> DEFINE moved == Append(given, Head(waiting))
<1>1. /\ Head(waiting) \in S /\ Tail(waiting) \in Seq(S)
      /\ Len(waiting) \in Nat \ {0} /\ Len(Tail(waiting)) = Len(waiting) - 1
      /\ \A i \in 1 .. Len(Tail(waiting)) : Tail(waiting)[i] = waiting[i + 1]
      /\ Head(waiting) = waiting[1]
  BY HeadTailProperties, EmptySeq
<1>2. /\ moved \in Seq(S) /\ Len(moved) = Len(given) + 1
      /\ \A i \in 1 .. Len(given) : moved[i] = given[i]
      /\ moved[Len(given) + 1] = Head(waiting)
  BY <1>1, AppendProperties
<1> HIDE DEF moved
<1>3. /\ given \o waiting \in Seq(S) /\ Len(given \o waiting) = Len(given) + Len(waiting)
      /\ \A i \in 1 .. Len(given) + Len(waiting) : (given \o waiting)[i] =
           IF i <= Len(given) THEN given[i] ELSE waiting[i - Len(given)]
  BY ConcatProperties
<1>4. /\ moved \o Tail(waiting) \in Seq(S)
      /\ Len(moved \o Tail(waiting)) = Len(moved) + Len(Tail(waiting))
      /\ \A i \in 1 .. Len(moved) + Len(Tail(waiting)) : (moved \o Tail(waiting))[i] =
           IF i <= Len(moved) THEN moved[i] ELSE Tail(waiting)[i - Len(moved)]
  BY <1>1, <1>2, ConcatProperties
<1>5. Len(given) \in Nat /\ Len(given \o waiting) = Len(moved \o Tail(waiting))
  BY <1>1, <1>2, <1>3, <1>4, LenProperties
<1>6. ASSUME NEW i \in 1 .. Len(given) + Len(waiting)
      PROVE  (given \o waiting)[i] = (moved \o Tail(waiting))[i]
  <2>1. CASE i <= Len(given)
    BY <1>1, <1>2, <1>3, <1>4, <1>5, <2>1
  <2>2. CASE i = Len(given) + 1
    BY <1>1, <1>2, <1>3, <1>4, <1>5, <2>2
  <2>3. CASE i > Len(given) + 1
    <3>1. i - Len(given) - 1 \in 1 .. Len(Tail(waiting))
      BY <1>1, <1>5, <2>3
    <3>2. Tail(waiting)[i - Len(given) - 1] = waiting[i - Len(given)]
      BY <1>1, <1>5, <3>1
    <3> QED
      BY <1>1, <1>2, <1>3, <1>4, <1>5, <2>3, <3>2
  <2> QED
    BY <1>1, <1>5, <2>1, <2>2, <2>3
<1>7. given \o waiting = moved \o Tail(waiting)
  BY <1>3, <1>4, <1>5, <1>6, SeqEqual
<1> QED
  BY <1>1, <1>2, <1>7 DEF moved

LEMMA InitStreamInv == Init => StreamInv
<1> SUFFICES ASSUME Init PROVE StreamInv
  OBVIOUS
<1>1. TypeOK
  <2>1. DOMAIN calls = {}
    BY DEF Init
  <2>2. Len(items) = 0
    BY DEF Init
  <2>3. /\ attempt \in 0 .. MaxRetries /\ received \in 0 .. MaxChunks /\ Len(items) <= MaxCharacters
    BY <2>2, ConstantsAssumption DEF Init
  <2>4. /\ reason \in Kinds \cup {"no", "closed"} /\ pc = "start" /\ stopped \in BOOLEAN
        /\ error = "none" /\ outcome = "none"
    BY DEF Init, Kinds
  <2> QED
    BY <2>1, <2>3, <2>4 DEF TypeOK
<1>2. EventsInv
  <2>1. <<>> \in Seq(Fragments) /\ <<>> = <<>> \o <<>>
    OBVIOUS
  <2> QED
    BY <2>1, NothingIsChunk DEF Init, EventsInv
<1>3. RetryInv /\ OutcomeInv /\ PartialAdmissible
  BY DEF Init, RetryInv, OutcomeInv, PartialAdmissible
<1> QED
  BY <1>1, <1>2, <1>3 DEF StreamInv

(* Where the response stays as it is, so does what the caller was given of it. *)
LEMMA EventsKept ==
  ASSUME EventsInv, UNCHANGED <<items, yielded, out, chunk>>,
         pc' \notin {"project", "yield", "yielded", "catch", "cleanup", "done"} => out = <<>>
  PROVE  EventsInv'
BY DEF EventsInv

(* ... and while no call is added, no two have one id. *)
LEMMA CallsKept == ASSUME PartialAdmissible, calls' = calls PROVE PartialAdmissible'
BY DEF PartialAdmissible

(* The steps that leave the response and its events alone. *)
LEMMA QuietStep ==
  ASSUME StreamInv, UNCHANGED <<items, yielded, out, chunk, calls>>, TypeOK', RetryInv',
         pc' \notin {"project", "yield", "yielded", "catch", "cleanup", "done"} => out = <<>>,
         OutcomeInv'
  PROVE  StreamInv'
BY EventsKept, CallsKept DEF StreamInv

(* The steps of the connection, and those that end the stream. *)
LEMMA ConnectionStep ==
  ASSUME StreamInv,
         \/ Connect \/ FetchStream \/ FetchRetry \/ FetchError \/ BackoffEnds
         \/ ErrorBody \/ WaitAborted \/ ReceiveEnd \/ ReceiveBroken
  PROVE  StreamInv'
<1> USE DEF StreamInv, Goto, Fails, Abort, projection
<1>1. /\ UNCHANGED <<items, yielded, out, chunk, calls, stopped, received, outcome>>
      /\ pc \in {"start", "fetch", "backoff", "errorBody", "read"}
      /\ pc' \in {"start", "fetch", "backoff", "errorBody", "read", "finish", "catch"}
      /\ reason' \in {reason, "malformed-stream", "http"}
      /\ pc' = "catch" => error' \in Kinds
      /\ error' \in Kinds \cup {error}
  BY DEF Connect, FetchStream, FetchRetry, FetchError, BackoffEnds, ErrorBody, WaitAborted,
         ReceiveEnd, ReceiveBroken, TypeOK, OutcomeInv, Kinds
<1>2. attempt' \in 0 .. MaxRetries /\ RetryInv'
  BY ConstantsAssumption
     DEF Connect, FetchStream, FetchRetry, FetchError, BackoffEnds, ErrorBody, WaitAborted,
         ReceiveEnd, ReceiveBroken, TypeOK, RetryInv
<1>3. TypeOK'
  BY <1>1, <1>2 DEF TypeOK, Kinds
<1>4. OutcomeInv'
  BY <1>1 DEF OutcomeInv, Kinds, Complete
<1>5. out = <<>>
  BY <1>1 DEF EventsInv
<1> QED
  BY <1>1, <1>2, <1>3, <1>4, <1>5, QuietStep

(* The end of the call, and what may abort it from outside. *)
LEMMA EndingStep ==
  ASSUME StreamInv,
         Pull \/ Finish \/ Catch \/ Leave \/ Cleanup \/ Deadline \/ Idle \/ CallerAborts
  PROVE  StreamInv'
<1> USE DEF StreamInv, Goto, Fails, Abort, projection, Open
<1>1. UNCHANGED <<items, chunk, calls, stopped, received, attempt>>
  BY DEF Pull, Finish, Catch, Leave, Cleanup, Deadline, Idle, CallerAborts
<1>2. UNCHANGED <<yielded, out>> /\ RetryInv'
  BY DEF Pull, Finish, Catch, Leave, Cleanup, Deadline, Idle, CallerAborts, RetryInv
<1>3. pc' \notin {"project", "yield", "yielded", "catch", "cleanup", "done"} => out = <<>>
  BY DEF Pull, Finish, Catch, Leave, Cleanup, Deadline, Idle, CallerAborts, EventsInv
<1>4. TypeOK'
  BY <1>1, <1>2
     DEF Pull, Finish, Catch, Leave, Cleanup, Deadline, Idle, CallerAborts, TypeOK, OutcomeInv, Kinds
<1>5. OutcomeInv'
  <2>1. Complete' <=> Complete
    BY <1>1 DEF Complete
  <2>2. CASE Finish
    BY <1>1, <1>2, <2>1, <2>2 DEF Finish, EventsInv, TypeOK, Kinds, OutcomeInv
  <2>3. CASE Catch
    BY <1>1, <1>2, <2>1, <2>3 DEF Catch, TypeOK, Kinds, OutcomeInv
  <2>4. CASE Pull \/ Leave \/ Cleanup \/ Deadline \/ Idle \/ CallerAborts
    BY <1>1, <1>2, <2>1, <2>4
       DEF Pull, Leave, Cleanup, Deadline, Idle, CallerAborts, OutcomeInv
  <2> QED
    BY <2>2, <2>3, <2>4
<1> QED
  BY <1>1, <1>2, <1>3, <1>4, <1>5, QuietStep

LEMMA ReceiveStep == ASSUME StreamInv, Receive PROVE StreamInv'
<1> USE DEF StreamInv, Goto, projection, Receive
<1>1. TypeOK'
  BY ConstantsAssumption DEF TypeOK
<1>2. EventsInv'
  BY ConstantsAssumption DEF EventsInv
<1>3. RetryInv' /\ OutcomeInv'
  BY DEF RetryInv, OutcomeInv, Complete
<1> QED
  BY <1>1, <1>2, <1>3, CallsKept

(* An accepted fragment joins the response and the waiting events, and gives no
   call an id that another one has. *)
LEMMA ProjectStep == ASSUME StreamInv, Project PROVE StreamInv'
<1> DEFINE f == Head(chunk.fragments)
<1>1. /\ f \in Fragments /\ Tail(chunk.fragments) \in Seq(Fragments)
      /\ chunk \in ChunkType /\ pc = "project" /\ outcome = "none" /\ reason # "closed"
      /\ UNCHANGED <<attempt, reason, received, stopped, yielded, outcome>>
  <2>1. chunk \in ChunkType /\ chunk.fragments # <<>>
    BY DEF Project, StreamInv, EventsInv
  <2>2. chunk.fragments \in Seq(Fragments)
    BY <2>1 DEF ChunkType
  <2>3. Head(chunk.fragments) \in Fragments /\ Tail(chunk.fragments) \in Seq(Fragments)
    BY <2>1, <2>2, HeadTailProperties
  <2> QED
    BY <2>1, <2>3 DEF Project, StreamInv, OutcomeInv
<1>2. CASE ~ Accepts(f)
  <2>1. /\ UNCHANGED <<items, calls, out, chunk>>
        /\ pc' = "catch" /\ error' = "malformed-stream"
    BY <1>2 DEF Project, Fails
  <2>2. TypeOK'
    BY <1>1, <2>1 DEF StreamInv, TypeOK, Kinds
  <2> QED
    BY <1>1, <2>1, <2>2, QuietStep DEF StreamInv, OutcomeInv, RetryInv
<1>3. CASE Accepts(f)
  <2>1. /\ items' = Append(items, f) /\ out' = Append(out, f)
        /\ calls' = IF f.kind = "call" THEN WithCall(f) ELSE calls
        /\ chunk' = [chunk EXCEPT !.fragments = Tail(chunk.fragments)]
        /\ UNCHANGED <<pc, error>>
    BY <1>3 DEF Project
  <2>2. EventsInv'
    <3>1. /\ Append(items, f) \in Seq(Fragments) /\ Append(out, f) \in Seq(Fragments)
          /\ Append(items, f) = yielded \o Append(out, f)
      <4>1. /\ items \in Seq(Fragments) /\ out \in Seq(Fragments) /\ yielded \in Seq(Fragments)
            /\ items = yielded \o out /\ <<f>> \in Seq(Fragments)
        BY <1>1 DEF StreamInv, EventsInv
      <4>2. /\ Append(items, f) = items \o <<f>> /\ Append(out, f) = out \o <<f>>
            /\ Append(items, f) \in Seq(Fragments) /\ Append(out, f) \in Seq(Fragments)
        BY <1>1, <4>1, AppendIsConcat, AppendProperties
      <4>3. (yielded \o out) \o <<f>> = yielded \o (out \o <<f>>)
        BY <4>1, ConcatAssociative
      <4> QED
        BY <4>1, <4>2, <4>3
    <3>2. chunk' \in ChunkType
      BY <1>1, <2>1 DEF ChunkType
    <3> QED
      BY <1>1, <2>1, <3>1, <3>2 DEF StreamInv, EventsInv
  <2>3. Len(items') <= MaxCharacters
    <3>1. Len(items) < MaxCharacters /\ items \in Seq(Fragments)
      BY <1>3 DEF Accepts, StreamInv, EventsInv
    <3> QED
      BY <1>1, <2>1, <3>1, ConstantsAssumption
  <2>4. DOMAIN calls' \subseteq Indexes /\ PartialAdmissible'
    <3>1. CASE f.kind # "call"
      BY <2>1, <3>1, CallsKept DEF StreamInv, TypeOK
    <3>2. CASE f.kind = "call"
      <4>1. f.index \in Indexes
        BY <1>1, <3>2 DEF Indexes
      <4>2. /\ DOMAIN calls' = DOMAIN calls \cup {f.index}
            /\ \A i \in DOMAIN calls \ {f.index} : calls'[i] = calls[i]
            /\ calls'[f.index].id = IF f.id = "none" THEN Known(f.index).id ELSE f.id
        BY <2>1, <3>2 DEF WithCall
      <4>3. f.id # "none" => \A i \in DOMAIN calls \ {f.index} : calls[i].id # f.id
        BY <1>3, <3>2 DEF Accepts
      <4>4. Known(f.index).id # "none" =>
              f.index \in DOMAIN calls /\ calls[f.index].id = Known(f.index).id
        BY DEF Known, NoCall
      <4>5. ASSUME NEW i \in DOMAIN calls \ {f.index}, calls'[i].id = calls'[f.index].id
            PROVE  calls'[i].id = "none"
        BY <4>2, <4>3, <4>4, <4>5 DEF StreamInv, PartialAdmissible
      <4>6. \A i, j \in DOMAIN calls \ {f.index} :
              (i # j /\ calls'[i].id = calls'[j].id) => calls'[i].id = "none"
        BY <4>2 DEF StreamInv, PartialAdmissible
      <4> QED
        BY <4>1, <4>2, <4>5, <4>6 DEF StreamInv, TypeOK, PartialAdmissible
    <3> QED
      BY <3>1, <3>2
  <2>5. TypeOK'
    BY <1>1, <2>1, <2>3, <2>4 DEF StreamInv, TypeOK
  <2> QED
    BY <1>1, <2>1, <2>2, <2>4, <2>5 DEF StreamInv, RetryInv, OutcomeInv
<1> QED
  BY <1>2, <1>3

LEMMA ProjectEndStep == ASSUME StreamInv, ProjectEnd PROVE StreamInv'
<1>1. /\ UNCHANGED <<attempt, reason, received, items, calls, out, yielded, outcome>>
      /\ pc = "project" /\ pc' \in {"yield", "catch"} /\ chunk' = Nothing
      /\ pc' = "catch" => error' = "malformed-stream"
      /\ error' \in {error, "malformed-stream"}
      /\ stopped' \in BOOLEAN
  <2>1. chunk.finish \in BOOLEAN /\ stopped \in BOOLEAN
    BY DEF StreamInv, EventsInv, ChunkType, TypeOK
  <2> QED
    BY <2>1 DEF ProjectEnd, Goto, Fails
<1>2. TypeOK'
  BY <1>1 DEF StreamInv, TypeOK, Kinds
<1>3. EventsInv'
  BY <1>1, NothingIsChunk DEF StreamInv, EventsInv
<1>4. RetryInv' /\ OutcomeInv' /\ PartialAdmissible'
  BY <1>1, CallsKept DEF StreamInv, RetryInv, OutcomeInv
<1> QED
  BY <1>2, <1>3, <1>4 DEF StreamInv

(* One event goes to the caller, from the front of those that wait. *)
LEMMA YieldStep == ASSUME StreamInv, Yield PROVE StreamInv'
<1>1. /\ UNCHANGED <<attempt, reason, received, items, calls, stopped, chunk, outcome>>
      /\ pc = "yield" /\ outcome = "none" /\ reason # "closed"
  BY DEF Yield, projection, StreamInv, OutcomeInv
<1>2. \/ pc' = "catch" /\ error' = reason /\ reason # "no" /\ UNCHANGED <<out, yielded>>
      \/ pc' = "read" /\ out = <<>> /\ UNCHANGED <<out, yielded, error>>
      \/ /\ pc' = "yielded" /\ out # <<>> /\ UNCHANGED error
         /\ yielded' = Append(yielded, Head(out)) /\ out' = Tail(out)
  BY DEF Yield, Goto, Fails
<1>3. TypeOK'
  BY <1>1, <1>2 DEF StreamInv, TypeOK, Kinds
<1>4. EventsInv'
  <2>1. CASE UNCHANGED <<out, yielded>>
    BY <1>1, <1>2, <2>1, EventsKept DEF StreamInv, EventsInv
  <2>2. CASE /\ pc' = "yielded" /\ out # <<>>
             /\ yielded' = Append(yielded, Head(out)) /\ out' = Tail(out)
    <3>1. /\ out \in Seq(Fragments) /\ yielded \in Seq(Fragments)
          /\ items = yielded \o out
      BY DEF StreamInv, EventsInv
    <3>2. /\ Append(yielded, Head(out)) \in Seq(Fragments) /\ Tail(out) \in Seq(Fragments)
          /\ yielded \o out = Append(yielded, Head(out)) \o Tail(out)
      BY <2>2, <3>1, FirstMoves
    <3> QED
      BY <1>1, <2>2, <3>1, <3>2 DEF StreamInv, EventsInv
  <2> QED
    BY <1>2, <2>1, <2>2
<1>5. RetryInv' /\ OutcomeInv' /\ PartialAdmissible'
  BY <1>1, <1>2, CallsKept DEF StreamInv, TypeOK, RetryInv, OutcomeInv, Kinds
<1> QED
  BY <1>3, <1>4, <1>5 DEF StreamInv

LEMMA NextStreamInv == StreamInv /\ [Next]_vars => StreamInv'
<1> SUFFICES ASSUME StreamInv, [Next]_vars PROVE StreamInv'
  OBVIOUS
<1>1. CASE UNCHANGED vars
  BY <1>1 DEF vars, projection, StreamInv, TypeOK, EventsInv, RetryInv, OutcomeInv, Complete,
              PartialAdmissible
<1>2. CASE \/ Connect \/ FetchStream \/ FetchRetry \/ FetchError \/ BackoffEnds
           \/ ErrorBody \/ WaitAborted \/ ReceiveEnd \/ ReceiveBroken
  BY <1>2, ConnectionStep
<1>3. CASE \/ Pull \/ Finish \/ Catch \/ Leave \/ Cleanup \/ Deadline \/ Idle \/ CallerAborts
  BY <1>3, EndingStep
<1>4. CASE Receive \/ Project \/ ProjectEnd \/ Yield
  BY <1>4, ReceiveStep, ProjectStep, ProjectEndStep, YieldStep
<1> QED
  BY <1>1, <1>2, <1>3, <1>4 DEF Next, Endpoint, Own, Caller

(* What the parts of an inference call hold for each other, at every step
   (adapter.ts, projection.ts). *)
THEOREM StreamInvariant == Spec => []StreamInv
<1> QED
  BY InitStreamInv, NextStreamInv, PTL DEF Spec

(* Types, the response's character limit and the limit of retries (guards.ts). *)
THEOREM StreamTypeCorrect == Spec => []TypeOK
<1>1. StreamInv => TypeOK
  BY DEF StreamInv
<1> QED
  BY <1>1, StreamInvariant, PTL

(* What the caller was given is a beginning of the response it is left with, and
   all of it where the call succeeds (adapter.ts, accept and the yields behind it). *)
THEOREM EventsTellResponse == Spec => []ResponseMatchesEvents
<1>1. StreamInv => ResponseMatchesEvents
  <2> SUFFICES ASSUME StreamInv PROVE ResponseMatchesEvents
    OBVIOUS
  <2>1. /\ yielded \in Seq(Fragments) /\ out \in Seq(Fragments) /\ items = yielded \o out
        /\ items \in Seq(Fragments)
    BY DEF StreamInv, EventsInv
  <2>2. Len(yielded) <= Len(items)
    BY <2>1
  <2>3. yielded = SubSeq(items, 1, Len(yielded))
    BY <2>1, <2>2
  <2>4. out = <<>> => yielded = items
    BY <2>1
  <2> QED
    BY <2>2, <2>3, <2>4 DEF StreamInv, OutcomeInv, ResponseMatchesEvents
<1> QED
  BY <1>1, StreamInvariant, PTL

(* No response, whole or partial, has two calls of one id (projection.ts, tool). *)
THEOREM PartialsAreAdmissible == Spec => []PartialAdmissible
<1>1. StreamInv => PartialAdmissible
  BY DEF StreamInv
<1> QED
  BY <1>1, StreamInvariant, PTL

(* After an abort no event and no finished response, and the reason is the first
   one (guards.ts; the catch of adapter.ts). *)
THEOREM AbortsAreFinal == Spec => AbortIsFinal
<1> DEFINE Final == reason # "no" => /\ yielded' = yielded
                                     /\ outcome' # outcome => outcome' \in {reason, "returned"}
<1>1. [Next]_vars => [Final]_vars
  <2> SUFFICES ASSUME Next, reason # "no" PROVE Final
    OBVIOUS
  <2>1. CASE Endpoint
    BY <2>1 DEF Endpoint, FetchStream, FetchRetry, FetchError, ErrorBody, Receive, ReceiveEnd,
                ReceiveBroken
  <2>2. CASE Own
    BY <2>2 DEF Own, Connect, BackoffEnds, WaitAborted, Project, ProjectEnd, Yield, Finish, Catch,
                Cleanup, Goto, Fails
  <2>3. CASE Caller \/ Deadline \/ Idle \/ CallerAborts
    BY <2>3 DEF Caller, Pull, Leave, Deadline, Idle, CallerAborts
  <2> QED
    BY <2>1, <2>2, <2>3 DEF Next
<1> QED
  BY <1>1, PTL DEF Spec, AbortIsFinal
=============================================================================
