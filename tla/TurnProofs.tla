----------------------------- MODULE TurnProofs -----------------------------
(***************************************************************************)
(* Proofs about Turn: a tool runs only behind its own recorded call and    *)
(* permission, and is accounted for afterwards, for any number of calls,   *)
(* inferences and lines and whatever fails; the journal tells how a turn   *)
(* ended; every call has its one result before the model is asked again,   *)
(* and what it is asked with is built from what the journal holds; no      *)
(* inference passes a cap; and with a working journal a turn throws only   *)
(* because the writer refused a text, never for a tool that ran.           *)
(***************************************************************************)
EXTENDS Turn, SequenceTheorems, FiniteSetTheorems, WellFoundedInduction, TLAPS

-----------------------------------------------------------------------------
(* The invariant *)

Items == [who : Actors, entry : EntryType, dead : BOOLEAN]
ToolKinds == {"tool_call", "permission", "tool_result"}

Types ==
  /\ turn \in 0 .. MaxLines /\ iter \in Nat /\ calls \subseteq CallIds
  /\ tpc \in [CallIds -> {"none", "start", "recording", "authorizing", "executing",
                          "resulting", "done", "thrown"}]
  /\ jq \in Seq(Items) /\ journal \in Seq(EntryType)
  /\ broken \in BOOLEAN /\ closed \in BOOLEAN

\* The turn, or a call of its response, waits for this append.
TurnAwaits(item) ==
  /\ item.who = "turn" /\ item.entry.kind \notin ToolKinds
  /\ item.entry.turn = turn /\ item.entry.iter = iter
  /\ item.entry.kind = "prompt" => pc = "prompt"
  /\ pc \in {"user", "prompt", "assistant", "error", "partial", "end"}

ToolAwaits(item, c) ==
  /\ item.who = c /\ pc \in {"tools", "thrown"}
  /\ item.entry.turn = turn /\ item.entry.iter = iter /\ item.entry.call = c
  /\ \/ item.entry.kind = "tool_call" /\ tpc[c] = "recording"
     \/ item.entry.kind = "permission" /\ tpc[c] = "authorizing"
     \/ item.entry.kind = "tool_result" /\ tpc[c] = "resulting"

Awaited(item) == TurnAwaits(item) \/ \E c \in calls : ToolAwaits(item, c)

\* Whoever waits has one append in the queue.
Distinct(q) == \A i, k \in DOMAIN q : i # k => q[i].who # q[k].who
QueueInv == Distinct(jq) /\ \A i \in DOMAIN jq : Awaited(jq[i])

\* Tools are under way in a turn that waits for them, or that has thrown.
ToolsInv ==
  /\ \A c \in CallIds : tpc[c] # "none" => c \in calls
  /\ pc \notin {"tools", "thrown"} => \A c \in CallIds : tpc[c] \in {"none", "done"}

Is(x, kind, t, n, c) == x.kind = kind /\ x.turn = t /\ x.iter = n /\ x.call = c

\* The call is recorded, and no result is behind it.
Recorded(j, t, n, c) ==
  \E i \in DOMAIN j : /\ Is(j[i], "tool_call", t, n, c)
                      /\ \A k \in i .. Len(j) : ~(j[k].kind = "tool_result" /\ j[k].call = c)

RecordedInv == \A c \in CallIds : tpc[c] = "authorizing" => Recorded(journal, turn, iter, c)

Permitted(j, e) ==
  \E i, k \in DOMAIN j : /\ i < k
                         /\ Is(j[i], "tool_call", e.turn, e.iter, e.call)
                         /\ Is(j[k], "permission", e.turn, e.iter, e.call)
                         /\ j[k].status = "allow"

Answered(j, e) == \E i \in DOMAIN j : Is(j[i], "tool_result", e.turn, e.iter, e.call)

\* What a tool without a result did is a pending call, and the call is still to
\* be settled or never will.
Unsettled(e) ==
  /\ e.call \in Pending(journal)
  /\ \/ pc = "dead"
     \/ /\ e.turn = turn /\ e.iter = iter /\ e.call \in calls
        /\ tpc[e.call] \in {"executing", "resulting", "thrown"}

EffectsInv == \A e \in effects : Permitted(journal, e) /\ (Answered(journal, e) \/ Unsettled(e))

\* The writer is closed when no turn will append any more.
ClosedInv ==
  /\ closed => pc \in {"idle", "exited", "thrown", "dead"}
  /\ \A i \in DOMAIN jq : jq[i].dead => closed

TurnInv == Types /\ QueueInv /\ ToolsInv /\ RecordedInv /\ EffectsInv /\ ClosedInv

-----------------------------------------------------------------------------
(* The queue and the journal *)

LEMMA Pushed ==
  ASSUME NEW q \in Seq(Items), Distinct(q), NEW x \in Items,
         \A i \in DOMAIN q : q[i].who # x.who
  PROVE  /\ Append(q, x) \in Seq(Items) /\ Distinct(Append(q, x))
         /\ \A i \in DOMAIN Append(q, x) :
              (\E k \in DOMAIN q : Append(q, x)[i] = q[k]) \/ Append(q, x)[i] = x
  <1> DEFINE r == Append(q, x)
  <1>1. /\ r \in Seq(Items) /\ Len(r) = Len(q) + 1 /\ r[Len(q) + 1] = x
        /\ \A i \in 1 .. Len(q) : r[i] = q[i]
    BY AppendProperties
  <1>2. /\ DOMAIN q = 1 .. Len(q) /\ DOMAIN r = 1 .. Len(q) + 1 /\ Len(q) \in Nat
    BY <1>1, LenProperties
  <1>3. ASSUME NEW i \in DOMAIN r, i # Len(q) + 1
        PROVE  i \in DOMAIN q /\ r[i] = q[i]
    BY <1>1, <1>2, <1>3
  <1> HIDE DEF r
  <1>4. Distinct(r)
    BY <1>1, <1>2, <1>3 DEF Distinct
  <1> QED
    BY <1>1, <1>3, <1>4 DEF r

\* Once the first append has settled its caller may wait for the next.
Settles(q, who, next, r) ==
  /\ q \in Seq(Items) /\ q # <<>> /\ Distinct(q) /\ q[1].who = who
  /\ next = <<>> \/ \E x \in Items : next = <<x>> /\ x.who = who
  /\ r = Tail(q) \o next

Settled(q, who, next, r) ==
  /\ q[1] \in Items /\ 1 \in DOMAIN q /\ r \in Seq(Items) /\ Distinct(r)
  /\ \A i \in DOMAIN r :
       (\E k \in DOMAIN q : r[i] = q[k] /\ q[k].who # who) \/ next = <<r[i]>>

LEMMA Popped == \A q, who, next, r : Settles(q, who, next, r) => Settled(q, who, next, r)
  <1> SUFFICES ASSUME NEW q, NEW who, NEW next, NEW r, Settles(q, who, next, r)
               PROVE  Settled(q, who, next, r)
    OBVIOUS
  <1>0. /\ q \in Seq(Items) /\ q # <<>> /\ Distinct(q) /\ q[1].who = who
        /\ next = <<>> \/ \E x \in Items : next = <<x>> /\ x.who = who
        /\ r = Tail(q) \o next
    BY DEF Settles
  <1> DEFINE s == Tail(q)
  <1>1. /\ s \in Seq(Items) /\ Len(s) = Len(q) - 1
        /\ \A i \in 1 .. Len(s) : s[i] = q[i + 1]
    BY <1>0, HeadTailProperties
  <1>2. Len(q) \in Nat \ {0} /\ DOMAIN q = 1 .. Len(q) /\ q[1] \in Items
    BY <1>0, EmptySeq, LenProperties, ElementOfSeq
  <1>3. DOMAIN s = 1 .. Len(q) - 1
    BY <1>1
  <1>4. \A i \in DOMAIN s : i + 1 \in DOMAIN q /\ s[i] = q[i + 1] /\ q[i + 1].who # q[1].who
    BY <1>0, <1>1, <1>2, <1>3 DEF Distinct
  <1>5. Distinct(s)
    BY <1>0, <1>2, <1>3, <1>4 DEF Distinct
  <1> HIDE DEF s
  <1>6. ASSUME next = <<>>
        PROVE  /\ s \o next \in Seq(Items) /\ Distinct(s \o next)
               /\ \A i \in DOMAIN (s \o next) : \E k \in DOMAIN s : (s \o next)[i] = s[k]
    <2>1. s \o next = s
      BY <1>1, <1>6, ConcatEmptySeq
    <2> QED
      BY <1>1, <1>5, <2>1
  <1>7. ASSUME NEW x \in Items, next = <<x>>, x.who = who
        PROVE  /\ s \o next \in Seq(Items) /\ Distinct(s \o next)
               /\ \A i \in DOMAIN (s \o next) :
                    (\E k \in DOMAIN s : (s \o next)[i] = s[k]) \/ (s \o next)[i] = x
    <2>1. s \o next = Append(s, x)
      BY <1>1, <1>7, AppendIsConcat
    <2>2. \A i \in DOMAIN s : s[i].who # x.who
      BY <1>0, <1>4, <1>7
    <2> QED
      BY <1>1, <1>5, <2>1, <2>2, Pushed
  <1> QED
    BY <1>0, <1>2, <1>4, <1>6, <1>7 DEF s, Settled

LEMMA Grown ==
  ASSUME NEW j \in Seq(EntryType), NEW x \in EntryType
  PROVE  /\ Append(j, x) \in Seq(EntryType)
         /\ Len(Append(j, x)) = Len(j) + 1 /\ Len(j) \in Nat
         /\ DOMAIN j = 1 .. Len(j) /\ DOMAIN Append(j, x) = 1 .. Len(j) + 1
         /\ \A i \in DOMAIN j : Append(j, x)[i] = j[i]
         /\ Append(j, x)[Len(j) + 1] = x
  BY AppendProperties, LenProperties

LEMMA GrownKeeps ==
  ASSUME NEW j \in Seq(EntryType), NEW x \in EntryType
  PROVE  /\ \A e : Permitted(j, e) => Permitted(Append(j, x), e)
         /\ \A e : Answered(j, e) => Answered(Append(j, x), e)
         /\ \A c \in CallIds : ~(x.kind = "tool_result" /\ x.call = c) =>
              /\ c \in Pending(j) => c \in Pending(Append(j, x))
              /\ \A t, n : Recorded(j, t, n, c) => Recorded(Append(j, x), t, n, c)
  <1> DEFINE r == Append(j, x)
  <1>1. /\ Len(r) = Len(j) + 1 /\ Len(j) \in Nat
        /\ DOMAIN j = 1 .. Len(j) /\ DOMAIN r = 1 .. Len(j) + 1
        /\ \A i \in DOMAIN j : r[i] = j[i]
        /\ r[Len(j) + 1] = x
    BY Grown
  <1> HIDE DEF r
  <1>2. \A i \in DOMAIN j : i \in DOMAIN r
    BY <1>1
  <1>3. \A e : Permitted(j, e) => Permitted(r, e)
    BY <1>1, <1>2 DEF Permitted
  <1>4. \A e : Answered(j, e) => Answered(r, e)
    BY <1>1, <1>2 DEF Answered
  <1>5. ASSUME NEW c \in CallIds, ~(x.kind = "tool_result" /\ x.call = c),
               NEW i \in DOMAIN j,
               \A k \in i .. Len(j) : ~(j[k].kind = "tool_result" /\ j[k].call = c)
        PROVE  \A k \in i .. Len(r) : ~(r[k].kind = "tool_result" /\ r[k].call = c)
    <2>1. TAKE k \in i .. Len(r)
    <2>2. CASE k = Len(j) + 1
      BY <1>1, <1>5, <2>2
    <2>3. CASE k # Len(j) + 1
      <3>1. k \in i .. Len(j) /\ k \in DOMAIN j
        BY <1>1, <2>3
      <3> QED
        BY <1>1, <1>5, <3>1
    <2> QED
      BY <2>2, <2>3
  <1>6. ASSUME NEW c \in CallIds, ~(x.kind = "tool_result" /\ x.call = c)
        PROVE  /\ c \in Pending(j) => c \in Pending(r)
               /\ \A t, n : Recorded(j, t, n, c) => Recorded(r, t, n, c)
    <2>1. c \in Pending(j) => c \in Pending(r)
      BY <1>1, <1>2, <1>5, <1>6 DEF Pending
    <2>2. \A t, n : Recorded(j, t, n, c) => Recorded(r, t, n, c)
      BY <1>1, <1>2, <1>5, <1>6 DEF Recorded
    <2> QED
      BY <2>1, <2>2
  <1> QED
    BY <1>3, <1>4, <1>6 DEF r

-----------------------------------------------------------------------------
(* What the turn appends, while no tool is under way *)

NoTools == pc \notin {"tools", "thrown", "dead"}

LEMMA EntryTyped ==
  ASSUME Types, NEW kind \in {"user_message", "prompt", "assistant_message", "tool_call",
                              "permission", "tool_result", "error", "turn_end"},
         NEW c \in CallIds \cup {NoCall}, NEW requested \in SUBSET CallIds, NEW status \in Statuses
  PROVE  Entry(kind, c, requested, status) \in EntryType
  BY DEF Types, Entry, EntryType

LEMMA TurnAlone ==
  ASSUME TurnInv, pc \notin {"tools", "thrown"}
  PROVE  \A i \in DOMAIN jq : TurnAwaits(jq[i])
  BY DEF TurnInv, QueueInv, Awaited, ToolAwaits

QueueKept ==
  /\ jq' \in Seq(Items) /\ QueueInv'
  /\ \A i \in DOMAIN jq' : jq'[i].dead => closed'

LEMMA TurnAsks ==
  ASSUME TurnInv, NoTools,
         pc \notin {"user", "prompt", "assistant", "error", "partial", "end"},
         NEW e \in EntryType, e.kind \notin ToolKinds, e.turn = turn', e.iter = iter',
         e.kind = "prompt" => pc' = "prompt",
         jq' = Append(jq, Item("turn", e)),
         pc' \in {"user", "prompt", "assistant", "error", "partial", "end"}, closed' = closed
  PROVE  QueueKept
  <1>1. PICK x \in Items : x = Item("turn", e)
    BY DEF Item, Items, Actors, TurnInv, Types
  <1>2. x.who = "turn" /\ x.entry = e /\ x.dead = closed
    BY <1>1 DEF Item
  <1>3. \A i \in DOMAIN jq : FALSE
    BY TurnAlone DEF NoTools, TurnAwaits
  <1>4. jq \in Seq(Items) /\ Distinct(jq)
    BY DEF TurnInv, Types, QueueInv
  <1>5. jq' \in Seq(Items) /\ Distinct(jq') /\ \A i \in DOMAIN jq' : jq'[i] = x
    BY <1>1, <1>2, <1>3, <1>4, Pushed
  <1>6. QueueInv'
    BY <1>2, <1>5 DEF QueueInv, Awaited, TurnAwaits, Distinct
  <1> QED
    BY <1>2, <1>5, <1>6 DEF QueueKept

LEMMA TurnCommits ==
  ASSUME TurnInv, pc \notin {"tools", "thrown"}, jq # <<>>, NEW next,
         \/ next = <<>>
         \/ /\ pc' \in {"user", "prompt", "assistant", "error", "partial", "end"}
            /\ \E e \in EntryType :
                 /\ next = <<Item("turn", e)>>
                 /\ e.kind \notin ToolKinds /\ e.turn = turn /\ e.iter = iter
                 /\ e.kind = "prompt" => pc' = "prompt",
         jq' = Tail(jq) \o next, closed' = closed, turn' = turn, iter' = iter
  PROVE  /\ QueueKept /\ jq[1] \in Items
         /\ jq[1].entry.kind \notin ToolKinds /\ jq[1].entry.turn = turn
  <1>1. jq \in Seq(Items) /\ Distinct(jq)
    BY DEF TurnInv, Types, QueueInv
  <1>2. \A i \in DOMAIN jq : /\ jq[i].who = "turn" /\ jq[i].entry.kind \notin ToolKinds
                             /\ jq[i].entry.turn = turn
    BY TurnAlone DEF TurnAwaits
  <1>3. 1 \in DOMAIN jq
    BY <1>1, EmptySeq, LenProperties
  <1>4. \A e \in EntryType : Item("turn", e) \in Items /\ Item("turn", e).who = "turn"
                             /\ Item("turn", e).entry = e /\ Item("turn", e).dead = closed
    BY DEF Item, Items, Actors, TurnInv, Types
  <1>5. jq[1].who = "turn" /\ (next = <<>> \/ \E x \in Items : next = <<x>> /\ x.who = "turn")
    BY <1>2, <1>3, <1>4
  <1>6. /\ jq[1] \in Items /\ jq' \in Seq(Items) /\ Distinct(jq')
        /\ \A i \in DOMAIN jq' : next = <<jq'[i]>>
    <2>1. Settles(jq, "turn", next, jq')
      BY <1>1, <1>5 DEF Settles
    <2>2. Settled(jq, "turn", next, jq')
      BY <2>1, Popped
    <2> QED
      BY <1>2, <2>2 DEF Settled
  <1>7. CASE next = <<>>
    <2>1. \A i \in DOMAIN jq' : FALSE
      BY <1>6, <1>7
    <2> QED
      BY <1>2, <1>3, <1>6, <2>1 DEF QueueKept, QueueInv
  <1>8. CASE next # <<>>
    <2>1. PICK e \in EntryType :
            /\ next = <<Item("turn", e)>>
            /\ e.kind \notin ToolKinds /\ e.turn = turn /\ e.iter = iter
            /\ e.kind = "prompt" => pc' = "prompt"
      BY <1>8
    <2>2. PICK x \in Items : x = Item("turn", e)
      BY <1>4
    <2>3. \A i \in DOMAIN jq' : jq'[i] = x
      BY <1>6, <2>1, <2>2
    <2>4. x.who = "turn" /\ x.entry = e /\ x.dead = closed
      BY <1>4, <2>2
    <2>5. QueueInv'
      BY <1>6, <1>8, <2>1, <2>3, <2>4 DEF QueueInv, Awaited, TurnAwaits
    <2> QED
      BY <1>2, <1>3, <1>6, <2>3, <2>4, <2>5 DEF QueueKept
  <1> QED
    BY <1>7, <1>8

\* Effects stay accounted for while the journal grows, ...
LEMMA EffectsStay ==
  ASSUME TurnInv, pc # "dead",
         \/ journal' = journal
         \/ \E x \in EntryType :
              /\ journal' = Append(journal, x)
              /\ x.kind = "tool_result" => x.turn = turn /\ x.iter = iter,
         \A c \in calls : tpc[c] \in {"executing", "resulting", "thrown"} =>
           \/ pc' = "dead"
           \/ /\ turn' = turn /\ iter' = iter /\ c \in calls'
              /\ tpc'[c] \in {"executing", "resulting", "thrown"}
           \/ \E i \in DOMAIN journal' : Is(journal'[i], "tool_result", turn, iter, c)
  PROVE  \A e \in effects : Permitted(journal', e) /\ (Answered(journal', e) \/ Unsettled(e)')
  <1> SUFFICES ASSUME NEW e \in effects
               PROVE  Permitted(journal', e) /\ (Answered(journal', e) \/ Unsettled(e)')
    OBVIOUS
  <1>1. Permitted(journal, e) /\ (Answered(journal, e) \/ Unsettled(e))
    BY DEF TurnInv, EffectsInv
  <1>2. journal \in Seq(EntryType)
    BY DEF TurnInv, Types
  <1>3. Permitted(journal', e) /\ (Answered(journal, e) => Answered(journal', e))
    BY <1>1, <1>2, GrownKeeps
  <1>4. ASSUME Unsettled(e), ~ Answered(journal', e)
        PROVE  Unsettled(e)'
    <2>1. /\ e.turn = turn /\ e.iter = iter /\ e.call \in calls /\ e.call \in Pending(journal)
          /\ tpc[e.call] \in {"executing", "resulting", "thrown"}
      BY <1>4 DEF Unsettled
    <2>2. e.call \in CallIds
      BY <2>1 DEF TurnInv, Types
    <2>3. e.call \in Pending(journal')
      <3>1. CASE journal' = journal
        BY <2>1, <3>1
      <3>2. ASSUME NEW x \in EntryType, journal' = Append(journal, x),
                   x.kind = "tool_result" => x.turn = turn /\ x.iter = iter
            PROVE  e.call \in Pending(journal')
        <4>1. ~(x.kind = "tool_result" /\ x.call = e.call)
          <5>1. Len(journal) + 1 \in DOMAIN journal' /\ journal'[Len(journal) + 1] = x
            BY <1>2, <3>2, Grown
          <5> QED
            BY <1>4, <2>1, <3>2, <5>1 DEF Answered, Is
        <4> QED
          BY <1>2, <2>1, <2>2, <3>2, <4>1, GrownKeeps
      <3> QED
        BY <3>1, <3>2
    <2>4. ~ \E i \in DOMAIN journal' : Is(journal'[i], "tool_result", turn, iter, e.call)
      BY <1>4, <2>1 DEF Answered
    <2>5. \/ pc' = "dead"
          \/ /\ turn' = turn /\ iter' = iter /\ e.call \in calls'
             /\ tpc'[e.call] \in {"executing", "resulting", "thrown"}
      BY <2>1, <2>4
    <2> QED
      BY <2>1, <2>3, <2>5 DEF Unsettled
  <1> QED
    BY <1>1, <1>3, <1>4

\* ... and all of the invariant does in a step of the turn that starts no tool.
LEMMA TurnKeeps ==
  ASSUME TurnInv, NoTools, QueueKept, UNCHANGED toolVars,
         \/ journal' = journal
         \/ \E x \in EntryType : journal' = Append(journal, x) /\ x.kind \notin ToolKinds,
         turn' \in 0 .. MaxLines, iter' \in Nat, broken' \in BOOLEAN, closed' \in BOOLEAN,
         closed' => pc' \in {"idle", "exited", "thrown", "dead"}
  PROVE  TurnInv'
  <1>1. \A c \in CallIds : tpc[c] \in {"none", "done"}
    BY DEF TurnInv, ToolsInv, NoTools
  <1>2. journal' \in Seq(EntryType)
    BY Grown DEF TurnInv, Types
  <1>3. Types'
    BY <1>2 DEF TurnInv, Types, toolVars, QueueKept
  <1>4. ToolsInv' /\ RecordedInv'
    BY <1>1 DEF TurnInv, ToolsInv, RecordedInv, toolVars
  <1>5. EffectsInv'
    <2>1. \A c \in calls : tpc[c] \in {"none", "done"}
      BY <1>1 DEF TurnInv, Types
    <2> QED
      BY <2>1, EffectsStay DEF NoTools, toolVars, ToolKinds, EffectsInv
  <1> QED
    BY <1>3, <1>4, <1>5 DEF TurnInv, QueueKept, ClosedInv

LEMMA TurnQuiet ==
  ASSUME TurnInv, NoTools, UNCHANGED <<jq, closed>>,
         pc \notin {"user", "prompt", "assistant", "error", "partial", "end"}
  PROVE  QueueKept
  <1>1. \A i \in DOMAIN jq : FALSE
    BY TurnAlone DEF NoTools, TurnAwaits
  <1> QED
    BY <1>1 DEF QueueKept, QueueInv, TurnInv, Types

-----------------------------------------------------------------------------
(* Steps of the turn *)

LEMMA StartTurnKeeps == TurnInv /\ StartTurn => TurnInv'
  <1> SUFFICES ASSUME TurnInv, StartTurn PROVE TurnInv'
    OBVIOUS
  <1>1. PICK e : e = [Plain("user_message") EXCEPT !.turn = turn + 1, !.iter = 1]
    OBVIOUS
  <1>2. turn + 1 \in 0 .. MaxLines /\ e \in EntryType /\ e.kind = "user_message"
        /\ e.turn = turn + 1 /\ e.iter = 1
    <2>1. turn + 1 \in 0 .. MaxLines
      BY ConstantsAssumption DEF TurnInv, Types, StartTurn
    <2>2. e = [kind |-> "user_message", turn |-> turn + 1, iter |-> 1, call |-> NoCall,
               calls |-> {}, status |-> ""]
      BY <1>1 DEF Plain, Entry
    <2> QED
      BY <2>1, <2>2 DEF EntryType, Statuses
  <1>3. QueueKept
    BY <1>1, <1>2, TurnAsks DEF StartTurn, NoTools, ToolKinds
  <1> QED
    BY <1>2, <1>3, TurnKeeps DEF StartTurn, NoTools, TurnInv, Types

\* An append of the turn settles, and its next is none of a tool.
LEMMA CommittedKeeps ==
  ASSUME TurnInv, NoTools, NEW kind, NEW next, Committed("turn", kind, next),
         \/ next = <<>>
         \/ /\ pc' \in {"user", "prompt", "assistant", "error", "partial", "end"}
            /\ \E e \in EntryType :
                 /\ next = <<Item("turn", e)>>
                 /\ e.kind \notin ToolKinds /\ e.turn = turn /\ e.iter = iter
                 /\ e.kind = "prompt" => pc' = "prompt",
         pc \in {"user", "prompt", "assistant", "error", "partial", "end"},
         UNCHANGED <<turn, iter, toolVars>>
  PROVE  TurnInv'
  <1>1. jq # <<>> /\ jq' = Tail(jq) \o next /\ UNCHANGED <<broken, closed>>
        /\ journal' = Append(journal, jq[1].entry)
    BY DEF Committed, AtHead
  <1>2. QueueKept /\ jq[1] \in Items /\ jq[1].entry.kind \notin ToolKinds
    BY <1>1, TurnCommits DEF NoTools
  <1>3. jq[1].entry \in EntryType
    BY <1>2 DEF Items
  <1>4. ~ closed
    BY DEF TurnInv, ClosedInv
  <1> QED
    BY <1>1, <1>2, <1>3, <1>4, TurnKeeps DEF TurnInv, Types

LEMMA CommitUserMessageKeeps == TurnInv /\ CommitUserMessage => TurnInv'
  BY CommittedKeeps DEF CommitUserMessage, NoTools

LEMMA CommitPromptKeeps == TurnInv /\ CommitPrompt => TurnInv'
  BY CommittedKeeps DEF CommitPrompt, NoTools

LEMMA CommitTurnEndKeeps == TurnInv /\ CommitTurnEnd => TurnInv'
  BY CommittedKeeps DEF CommitTurnEnd, NoTools

\* An append is asked for in a step that settles none.
LEMMA AskedKeeps ==
  ASSUME TurnInv, NoTools, NEW e \in EntryType, e.kind \notin ToolKinds, e.turn = turn, e.iter = iter,
         e.kind = "prompt" => pc' = "prompt", Ask("turn", e),
         pc \in {"build", "connect", "stream"},
         pc' \in {"user", "prompt", "assistant", "error", "partial", "end"},
         UNCHANGED <<turn, iter, toolVars>>
  PROVE  TurnInv'
  <1>1. jq' = Append(jq, Item("turn", e)) /\ UNCHANGED <<journal, broken, closed>>
    BY DEF Ask
  <1>2. QueueKept
    BY <1>1, TurnAsks
  <1>3. ~ closed
    BY DEF TurnInv, ClosedInv
  <1> QED
    BY <1>1, <1>2, <1>3, TurnKeeps DEF TurnInv, Types

LEMMA TurnEntries ==
  ASSUME TurnInv
  PROVE  /\ \A kind \in {"prompt", "turn_end"} :
              /\ Plain(kind) \in EntryType /\ Plain(kind).kind \notin ToolKinds
              /\ Plain(kind).turn = turn /\ Plain(kind).iter = iter /\ Plain(kind).kind = kind
         /\ \A reason \in Statuses :
              /\ Failure(reason) \in EntryType /\ Failure(reason).kind \notin ToolKinds
              /\ Failure(reason).turn = turn /\ Failure(reason).iter = iter
              /\ Failure(reason).kind = "error"
         /\ Partial \in EntryType /\ Partial.kind \notin ToolKinds
         /\ Partial.turn = turn /\ Partial.iter = iter /\ Partial.kind = "assistant_message"
         /\ \A requested \in SUBSET CallIds, usage \in Usages :
              LET e == Entry("assistant_message", NoCall, requested, usage)
              IN  /\ e \in EntryType /\ e.kind \notin ToolKinds
                  /\ e.turn = turn /\ e.iter = iter /\ e.kind = "assistant_message"
  <1>1. Types
    BY DEF TurnInv
  <1>2. ASSUME NEW kind \in {"prompt", "turn_end"}
        PROVE  /\ Plain(kind) \in EntryType /\ Plain(kind).kind \notin ToolKinds
               /\ Plain(kind).turn = turn /\ Plain(kind).iter = iter /\ Plain(kind).kind = kind
    <2>1. "" \in Statuses
      BY DEF Statuses
    <2> QED
      BY <1>1, <2>1, EntryTyped DEF Plain, Entry, ToolKinds
  <1>3. ASSUME NEW reason \in Statuses
        PROVE  /\ Failure(reason) \in EntryType /\ Failure(reason).kind \notin ToolKinds
               /\ Failure(reason).turn = turn /\ Failure(reason).iter = iter
               /\ Failure(reason).kind = "error"
    BY <1>1, EntryTyped DEF Failure, Entry, ToolKinds
  <1>4. /\ Partial \in EntryType /\ Partial.kind \notin ToolKinds
        /\ Partial.turn = turn /\ Partial.iter = iter /\ Partial.kind = "assistant_message"
    <2>1. "partial" \in Statuses
      BY DEF Statuses
    <2> QED
      BY <1>1, <2>1, EntryTyped DEF Partial, Entry, ToolKinds
  <1>5. ASSUME NEW requested \in SUBSET CallIds, NEW usage \in Usages
        PROVE  LET e == Entry("assistant_message", NoCall, requested, usage)
               IN  /\ e \in EntryType /\ e.kind \notin ToolKinds
                   /\ e.turn = turn /\ e.iter = iter /\ e.kind = "assistant_message"
    <2>1. usage \in Statuses
      BY DEF Statuses
    <2> QED
      BY <1>1, <2>1, EntryTyped DEF Entry, ToolKinds
  <1> QED
    BY <1>2, <1>3, <1>4, <1>5

LEMMA Verdicts == /\ "max-turns" \in Statuses /\ "wall-clock" \in Statuses
                  /\ "max-cost" \in Statuses /\ "max-cost-unknown-usage" \in Statuses
  BY DEF Statuses

LEMMA BuildContextKeeps == TurnInv /\ BuildContext => TurnInv'
  <1> SUFFICES ASSUME TurnInv, BuildContext PROVE TurnInv'
    OBVIOUS
  <1>1. PICK clock \in BOOLEAN :
          \/ Check(clock) # "none" /\ Fail("limited", Check(clock), FALSE)
          \/ Check(clock) = "none" /\ Ask("turn", Plain("prompt")) /\ pc' = "prompt"
    BY DEF BuildContext
  <1>2. Check(clock) # "none" => Check(clock) \in Statuses
    <2>1. Check(clock) = "max-turns" \/ Check(clock) = "wall-clock" \/ Check(clock) = "none"
      BY Zenon DEF Check
    <2> QED
      BY <2>1, Verdicts, Zenon
  <1>3. pc = "build" /\ NoTools /\ UNCHANGED <<turn, iter, toolVars>>
    BY DEF BuildContext, NoTools
  <1>4. CASE Check(clock) # "none" /\ Fail("limited", Check(clock), FALSE)
    BY <1>2, <1>3, <1>4, TurnEntries, AskedKeeps DEF Fail
  <1>5. CASE Ask("turn", Plain("prompt")) /\ pc' = "prompt"
    BY <1>3, <1>5, TurnEntries, AskedKeeps
  <1> QED
    BY <1>1, <1>4, <1>5

LEMMA OpenStreamKeeps == TurnInv /\ OpenStream => TurnInv'
  <1> SUFFICES ASSUME TurnInv, OpenStream PROVE TurnInv'
    OBVIOUS
  <1>1. pc = "connect" /\ NoTools /\ UNCHANGED <<turn, iter, toolVars>>
    BY DEF OpenStream, NoTools
  <1>2. CASE Ask("turn", Plain("turn_end")) /\ pc' = "end"
    BY <1>1, <1>2, TurnEntries, AskedKeeps
  <1>3. CASE UNCHANGED logVars /\ pc' = "stream"
    <2>1. QueueKept
      BY <1>1, <1>3, TurnQuiet DEF logVars
    <2>2. ~ closed
      BY <1>1 DEF TurnInv, ClosedInv
    <2> QED
      BY <1>1, <1>3, <2>1, <2>2, TurnKeeps DEF logVars, TurnInv, Types
  <1> QED
    BY <1>2, <1>3 DEF OpenStream

LEMMA StreamStopsKeeps == TurnInv /\ StreamStops => TurnInv'
  <1> SUFFICES ASSUME TurnInv, StreamStops PROVE TurnInv'
    OBVIOUS
  <1>1. PICK requested \in SUBSET CallIds, usage \in Usages :
          Ask("turn", Entry("assistant_message", NoCall, requested, usage))
    BY DEF StreamStops
  <1>2. pc = "stream" /\ pc' = "assistant" /\ NoTools /\ UNCHANGED <<turn, iter, toolVars>>
    BY DEF StreamStops, NoTools
  <1> QED
    BY <1>1, <1>2, TurnEntries, AskedKeeps

LEMMA StreamAbortsKeeps == TurnInv /\ StreamAborts => TurnInv'
  <1> SUFFICES ASSUME TurnInv, StreamAborts PROVE TurnInv'
    OBVIOUS
  <1>1. pc = "stream" /\ NoTools /\ UNCHANGED <<turn, iter, toolVars>>
    BY DEF StreamAborts, NoTools
  <1> QED
    BY <1>1, TurnEntries, AskedKeeps DEF StreamAborts

LEMMA StreamFailsKeeps == TurnInv /\ StreamFails => TurnInv'
  <1> SUFFICES ASSUME TurnInv, StreamFails PROVE TurnInv'
    OBVIOUS
  <1>1. pc = "stream" /\ NoTools /\ UNCHANGED <<turn, iter, toolVars>>
    BY DEF StreamFails, NoTools
  <1>2. Ask("turn", Failure("provider")) /\ pc' = "error"
    BY DEF StreamFails, Fail
  <1>3. Failure("provider") \in EntryType /\ Failure("provider").kind \notin ToolKinds
        /\ Failure("provider").turn = turn /\ Failure("provider").iter = iter
        /\ Failure("provider").kind = "error"
    <2>1. "provider" \in Statuses
      BY DEF Statuses
    <2> QED
      BY <2>1, TurnEntries
  <1> QED
    BY <1>1, <1>2, <1>3, AskedKeeps

LEMMA RefuseResponseKeeps == TurnInv /\ RefuseResponse => TurnInv'
  <1> SUFFICES ASSUME TurnInv, RefuseResponse PROVE TurnInv'
    OBVIOUS
  <1>1. /\ pc = "stream" /\ pc' = "thrown" /\ NoTools /\ UNCHANGED toolVars
        /\ UNCHANGED <<turn, iter, jq, journal, broken, closed>>
    BY DEF RefuseResponse, NoTools, logVars
  <1>2. QueueKept
    BY <1>1, TurnQuiet
  <1> QED
    BY <1>1, <1>2, TurnKeeps DEF TurnInv, Types

LEMMA RefusePartialKeeps == TurnInv /\ RefusePartial => TurnInv'
  <1> SUFFICES ASSUME TurnInv, RefusePartial PROVE TurnInv'
    OBVIOUS
  <1>1. /\ pc = "error" /\ NoTools /\ UNCHANGED <<turn, iter, toolVars>>
        /\ Committed("turn", "error", <<>>)
    BY DEF RefusePartial, NoTools
  <1> QED
    BY <1>1, CommittedKeeps

LEMMA CommitErrorKeeps == TurnInv /\ CommitError => TurnInv'
  <1> SUFFICES ASSUME TurnInv, CommitError PROVE TurnInv'
    OBVIOUS
  <1>1. pc = "error" /\ NoTools /\ UNCHANGED <<turn, iter, toolVars>>
    BY DEF CommitError, NoTools
  <1>2. CASE Committed("turn", "error", <<Item("turn", Partial)>>) /\ pc' = "partial"
    BY <1>1, <1>2, TurnEntries, CommittedKeeps
  <1>3. CASE Committed("turn", "error", <<Item("turn", Plain("turn_end"))>>) /\ pc' = "end"
    BY <1>1, <1>3, TurnEntries, CommittedKeeps
  <1> QED
    BY <1>2, <1>3 DEF CommitError

LEMMA CommitPartialKeeps == TurnInv /\ CommitPartial => TurnInv'
  <1> SUFFICES ASSUME TurnInv, CommitPartial PROVE TurnInv'
    OBVIOUS
  <1>1. pc = "partial" /\ pc' = "end" /\ NoTools /\ UNCHANGED <<turn, iter, toolVars>>
        /\ Committed("turn", "assistant_message", <<Item("turn", Plain("turn_end"))>>)
    BY DEF CommitPartial, NoTools
  <1> QED
    BY <1>1, TurnEntries, CommittedKeeps

LEMMA AssistantMessageKeeps == TurnInv /\ CommitAssistantMessage => TurnInv'
  <1> SUFFICES ASSUME TurnInv, CommitAssistantMessage PROVE TurnInv'
    OBVIOUS
  <1> DEFINE e == jq[1].entry
  <1>1. pc = "assistant" /\ NoTools /\ UNCHANGED <<turn, iter>>
    BY DEF CommitAssistantMessage, NoTools
  <1>2. PICK clock \in BOOLEAN :
          LET trip == Verdict(e.status, clock)
          IN  \/ /\ trip # "none"
                 /\ Committed("turn", "assistant_message", <<Item("turn", Failure(trip))>>)
                 /\ pc' = "error" /\ UNCHANGED toolVars
              \/ /\ Committed("turn", "assistant_message", <<Item("turn", Plain("turn_end"))>>)
                 /\ pc' = "end" /\ UNCHANGED toolVars
              \/ /\ Committed("turn", "assistant_message", <<>>)
                 /\ pc' = "tools" /\ calls' = e.calls /\ UNCHANGED effects
                 /\ tpc' = [c \in CallIds |-> IF c \in e.calls THEN "start" ELSE "none"]
    BY DEF CommitAssistantMessage
  <1>3. ASSUME NEW trip, trip = Verdict(e.status, clock), trip # "none",
               Committed("turn", "assistant_message", <<Item("turn", Failure(trip))>>),
               pc' = "error", UNCHANGED toolVars
        PROVE  TurnInv'
    <2>1. trip = "max-cost-unknown-usage" \/ trip = "max-cost" \/ trip = "wall-clock"
          \/ trip = "none"
      BY <1>3, Zenon DEF Verdict
    <2>2. trip \in Statuses
      BY <1>3, <2>1, Verdicts, Zenon
    <2>3. Failure(trip) \in EntryType /\ Failure(trip).kind \notin ToolKinds
          /\ Failure(trip).turn = turn /\ Failure(trip).iter = iter /\ Failure(trip).kind = "error"
      BY <2>2, TurnEntries
    <2> QED
      BY <1>1, <1>3, <2>3, CommittedKeeps DEF toolVars
  <1>4. CASE /\ Committed("turn", "assistant_message", <<Item("turn", Plain("turn_end"))>>)
             /\ pc' = "end" /\ UNCHANGED toolVars
    BY <1>1, <1>4, TurnEntries, CommittedKeeps
  <1>5. CASE /\ Committed("turn", "assistant_message", <<>>)
             /\ pc' = "tools" /\ calls' = e.calls /\ UNCHANGED effects
             /\ tpc' = [c \in CallIds |-> IF c \in e.calls THEN "start" ELSE "none"]
    <2>1. /\ jq # <<>> /\ jq' = Tail(jq) \o <<>> /\ UNCHANGED <<broken, closed>>
          /\ journal' = Append(journal, e)
      BY <1>5 DEF Committed, AtHead
    <2>2. QueueKept /\ jq[1] \in Items /\ e.kind \notin ToolKinds
      BY <1>1, <2>1, TurnCommits DEF NoTools
    <2>3. e \in EntryType /\ e.calls \subseteq CallIds
      BY <2>2 DEF Items, EntryType
    <2>4. journal' \in Seq(EntryType)
      BY <2>1, <2>3, Grown DEF TurnInv, Types
    <2>5. Types'
      BY <1>1, <1>5, <2>1, <2>2, <2>3, <2>4 DEF TurnInv, Types, QueueKept
    <2>6. ToolsInv' /\ RecordedInv'
      BY <1>5, <2>3 DEF ToolsInv, RecordedInv
    <2>7. EffectsInv'
      <3>1. \A c \in calls : tpc[c] \in {"none", "done"}
        BY <1>1 DEF TurnInv, Types, ToolsInv
      <3> QED
        BY <1>1, <1>5, <2>1, <2>2, <2>3, <3>1, EffectsStay DEF ToolKinds, EffectsInv, NoTools
    <2>8. ClosedInv'
      BY <1>1, <2>1, <2>2 DEF TurnInv, ClosedInv, QueueKept
    <2> QED
      BY <2>2, <2>5, <2>6, <2>7, <2>8 DEF TurnInv, QueueKept
  <1> QED
    BY <1>2, <1>3, <1>4, <1>5

\* A rejected append leaves the journal as it was or longer by its entry.
LEMMA RejectedJournal ==
  ASSUME TurnInv, NEW who, NEW kind, NEW next, Rejected(who, kind, next)
  PROVE  /\ jq # <<>> /\ jq[1].who = who /\ jq[1].entry.kind = kind
         /\ jq' = Tail(jq) \o next /\ closed' = closed /\ broken' \in BOOLEAN
         /\ journal' = journal \/ journal' = Append(journal, jq[1].entry)
  BY DEF Rejected, AtHead, TurnInv, Types

LEMMA RejectTurnKeeps == TurnInv /\ RejectTurn => TurnInv'
  <1> SUFFICES ASSUME TurnInv, RejectTurn PROVE TurnInv'
    OBVIOUS
  <1>1. NoTools /\ pc' = "thrown" /\ UNCHANGED <<turn, iter, toolVars>>
    BY DEF RejectTurn, NoTools
  <1>2. PICK kind : Rejected("turn", kind, <<>>)
    BY DEF RejectTurn
  <1>3. /\ jq # <<>> /\ jq' = Tail(jq) \o <<>> /\ closed' = closed /\ broken' \in BOOLEAN
        /\ journal' = journal \/ journal' = Append(journal, jq[1].entry)
    BY <1>2, RejectedJournal
  <1>4. QueueKept /\ jq[1] \in Items /\ jq[1].entry.kind \notin ToolKinds
    BY <1>1, <1>3, TurnCommits DEF NoTools
  <1>5. jq[1].entry \in EntryType
    BY <1>4 DEF Items
  <1> QED
    BY <1>1, <1>3, <1>4, <1>5, TurnKeeps DEF TurnInv, Types

LEMMA ReturnKeeps == TurnInv /\ Return => TurnInv'
  <1> SUFFICES ASSUME TurnInv, Return PROVE TurnInv'
    OBVIOUS
  <1>1. pc = "ended" /\ NoTools /\ UNCHANGED <<turn, iter, toolVars, jq, journal, broken, closed>>
    BY DEF Return, NoTools, logVars
  <1>2. pc' \in {"idle", "exited"}
    BY DEF Return
  <1>3. QueueKept
    BY <1>1, TurnQuiet
  <1> QED
    BY <1>1, <1>2, <1>3, TurnKeeps DEF TurnInv, Types

LEMMA CloseWriterKeeps == TurnInv /\ CloseWriter => TurnInv'
  <1> SUFFICES ASSUME TurnInv, CloseWriter PROVE TurnInv'
    OBVIOUS
  <1>1. /\ pc \in {"idle", "exited", "thrown"} /\ closed' = TRUE
        /\ UNCHANGED <<pc, turn, iter, calls, tpc, effects, jq, journal, broken>>
    BY DEF CloseWriter, turnVars, toolVars
  <1>2. Types' /\ QueueInv' /\ ToolsInv' /\ RecordedInv' /\ ClosedInv'
    BY <1>1 DEF TurnInv, Types, QueueInv, Awaited, TurnAwaits, ToolAwaits, ToolsInv,
                RecordedInv, ClosedInv
  <1>3. EffectsInv'
    BY <1>1 DEF TurnInv, EffectsInv, Unsettled
  <1> QED
    BY <1>2, <1>3 DEF TurnInv

LEMMA InterruptKeeps == TurnInv /\ Interrupt => TurnInv'
  <1> SUFFICES ASSUME TurnInv, Interrupt PROVE TurnInv'
    OBVIOUS
  <1>1. UNCHANGED <<pc, turn, iter, calls, tpc, effects, jq, journal, broken, closed>>
    BY DEF Interrupt, toolVars, logVars
  <1>2. Types' /\ QueueInv' /\ ToolsInv' /\ RecordedInv' /\ ClosedInv'
    BY <1>1 DEF TurnInv, Types, QueueInv, Awaited, TurnAwaits, ToolAwaits, ToolsInv,
                RecordedInv, ClosedInv
  <1>3. EffectsInv'
    BY <1>1 DEF TurnInv, EffectsInv, Unsettled
  <1> QED
    BY <1>2, <1>3 DEF TurnInv

-----------------------------------------------------------------------------
(* Steps of the tools *)

UnderWay == pc \in {"tools", "thrown"}

LEMMA ToolUnderWay ==
  ASSUME TurnInv, NEW c \in CallIds, tpc[c] \notin {"none", "done"}
  PROVE  UnderWay /\ c \in calls
  BY DEF TurnInv, ToolsInv, UnderWay

\* What the others wait for they wait for still.
LEMMA StillAwaited ==
  ASSUME TurnInv, NEW c \in CallIds, NEW y, y.who # c, Awaited(y), UnderWay, UnderWay',
         \A d \in CallIds : d # c => tpc'[d] = tpc[d], UNCHANGED <<turn, iter, calls>>
  PROVE  Awaited(y)'
  BY DEF Awaited, TurnAwaits, ToolAwaits, UnderWay, TurnInv, Types

\* The append a tool waits for behind a step that leaves it in state s.
Follows(e, c, s) ==
  /\ e.turn = turn /\ e.iter = iter /\ e.call = c
  /\ \/ e.kind = "tool_call" /\ s = "recording"
     \/ e.kind = "permission" /\ s = "authorizing"
     \/ e.kind = "tool_result" /\ s = "resulting"

LEMMA QueueOfTools ==
  ASSUME TurnInv, UnderWay, UnderWay', NEW c \in calls, NEW s,
         tpc' = [tpc EXCEPT ![c] = s], UNCHANGED <<turn, iter, calls, closed>>,
         jq' \in Seq(Items), Distinct(jq'),
         \A i \in DOMAIN jq' :
           \/ \E k \in DOMAIN jq : jq'[i] = jq[k] /\ jq[k].who # c
           \/ \E e \in EntryType : jq'[i] = Item(c, e) /\ Follows(e, c, s)
  PROVE  QueueKept
  <1>1. c \in CallIds /\ \A d \in CallIds : tpc'[d] = IF d = c THEN s ELSE tpc[d]
    BY DEF TurnInv, Types
  <1>2. ASSUME NEW i \in DOMAIN jq'
        PROVE  \E y : jq'[i] = y /\ Awaited(y)' /\ (y.dead => closed)
    <2>1. ASSUME NEW k \in DOMAIN jq, jq'[i] = jq[k], jq[k].who # c
          PROVE  \E y : jq'[i] = y /\ Awaited(y)' /\ (y.dead => closed)
      <3>1. PICK y : y = jq[k]
        OBVIOUS
      <3>2. Awaited(y) /\ (y.dead => closed)
        BY <3>1 DEF TurnInv, QueueInv, ClosedInv
      <3> QED
        BY <1>1, <2>1, <3>1, <3>2, StillAwaited
    <2>2. ASSUME NEW e \in EntryType, jq'[i] = Item(c, e), Follows(e, c, s)
          PROVE  \E y : jq'[i] = y /\ Awaited(y)' /\ (y.dead => closed)
      <3>1. PICK y : y = Item(c, e)
        OBVIOUS
      <3>2. y.who = c /\ y.entry = e /\ y.dead = closed
        BY <3>1 DEF Item
      <3>3. ToolAwaits(y, c)'
        BY <1>1, <2>2, <3>2 DEF ToolAwaits, Follows, UnderWay
      <3> QED
        BY <2>2, <3>1, <3>2, <3>3 DEF Awaited
    <2> QED
      BY <2>1, <2>2
  <1>3. \A i \in DOMAIN jq' : jq'[i].dead => closed'
    BY <1>2
  <1>4. QueueInv'
    BY <1>2 DEF QueueInv, Awaited, TurnAwaits, ToolAwaits
  <1> QED
    BY <1>3, <1>4 DEF QueueKept

LEMMA ItemTyped ==
  ASSUME TurnInv, NEW c \in CallIds, NEW e \in EntryType
  PROVE  Item(c, e) \in Items /\ Item(c, e).who = c
  BY DEF Item, Items, Actors, TurnInv, Types

LEMMA ToolAsks ==
  ASSUME TurnInv, NEW c \in CallIds, tpc[c] \in {"start", "executing"}, NEW e \in EntryType,
         NEW s, Follows(e, c, s), tpc' = [tpc EXCEPT ![c] = s], jq' = Append(jq, Item(c, e)),
         UNCHANGED <<pc, turn, iter, calls, closed>>
  PROVE  QueueKept
  <1>1. UnderWay /\ c \in calls /\ UnderWay'
    BY ToolUnderWay DEF UnderWay
  <1>2. PICK x \in Items : x = Item(c, e) /\ x.who = c
    BY ItemTyped
  <1>3. \A i \in DOMAIN jq : jq[i].who # c
    BY ConstantsAssumption DEF TurnInv, QueueInv, Awaited, TurnAwaits, ToolAwaits
  <1>4. jq \in Seq(Items) /\ Distinct(jq)
    BY DEF TurnInv, Types, QueueInv
  <1>5. /\ jq' \in Seq(Items) /\ Distinct(jq')
        /\ \A i \in DOMAIN jq' : (\E k \in DOMAIN jq : jq'[i] = jq[k]) \/ jq'[i] = x
    BY <1>2, <1>3, <1>4, Pushed
  <1> QED
    BY <1>1, <1>2, <1>3, <1>5, QueueOfTools

LEMMA ToolPops ==
  ASSUME TurnInv, NEW c \in CallIds, tpc[c] \notin {"none", "done"}, jq # <<>>, jq[1].who = c,
         NEW next, NEW s,
         next = <<>> \/ \E e \in EntryType : next = <<Item(c, e)>> /\ Follows(e, c, s),
         jq' = Tail(jq) \o next, tpc' = [tpc EXCEPT ![c] = s], UnderWay',
         UNCHANGED <<turn, iter, calls, closed>>
  PROVE  QueueKept /\ jq[1].entry \in EntryType /\ Follows(jq[1].entry, c, tpc[c])
  <1>1. UnderWay /\ c \in calls
    BY ToolUnderWay
  <1>2. jq \in Seq(Items) /\ Distinct(jq)
    BY DEF TurnInv, Types, QueueInv
  <1>3. next = <<>> \/ \E x \in Items : next = <<x>> /\ x.who = c
    BY ItemTyped
  <1>4. /\ jq[1] \in Items /\ 1 \in DOMAIN jq /\ jq' \in Seq(Items) /\ Distinct(jq')
        /\ \A i \in DOMAIN jq' :
             \/ \E k \in DOMAIN jq : jq'[i] = jq[k] /\ jq[k].who # c
             \/ next = <<jq'[i]>>
    <2>1. Settles(jq, c, next, jq')
      BY <1>2, <1>3 DEF Settles
    <2>2. Settled(jq, c, next, jq')
      BY <2>1, Popped
    <2> QED
      BY <2>2 DEF Settled
  <1>5. \A i \in DOMAIN jq' : next = <<jq'[i]>> =>
          \E e \in EntryType : jq'[i] = Item(c, e) /\ Follows(e, c, s)
    <2>1. TAKE i \in DOMAIN jq'
    <2>2. CASE next = <<>>
      BY <2>2
    <2>3. ASSUME NEW e \in EntryType, next = <<Item(c, e)>>, Follows(e, c, s)
          PROVE  next = <<jq'[i]>> => jq'[i] = Item(c, e)
      BY <2>3
    <2> QED
      BY <2>2, <2>3
  <1>6. QueueKept
    BY <1>1, <1>4, <1>5, QueueOfTools
  <1>7. ToolAwaits(jq[1], c)
    BY <1>4, ConstantsAssumption DEF TurnInv, QueueInv, Awaited, TurnAwaits, ToolAwaits
  <1> QED
    BY <1>4, <1>6, <1>7 DEF Items, ToolAwaits, Follows

LEMMA ToolKeeps ==
  ASSUME TurnInv, NEW c \in calls, UnderWay, UnderWay', QueueKept, EffectsInv',
         NEW s \in {"start", "recording", "authorizing", "executing", "resulting", "done",
                    "thrown"},
         tpc' = [tpc EXCEPT ![c] = s], UNCHANGED <<turn, iter, calls, closed>>,
         \/ journal' = journal
         \/ \E x \in EntryType : journal' = Append(journal, x) /\ x.call = c,
         s = "authorizing" => Recorded(journal', turn, iter, c),
         broken' \in BOOLEAN, pc = "thrown" => pc' = "thrown"
  PROVE  TurnInv'
  <1>1. c \in CallIds /\ \A d \in CallIds : tpc'[d] = IF d = c THEN s ELSE tpc[d]
    BY DEF TurnInv, Types
  <1>2. journal \in Seq(EntryType) /\ journal' \in Seq(EntryType)
    BY Grown DEF TurnInv, Types
  <1>3. Types'
    BY <1>2 DEF TurnInv, Types, QueueKept
  <1>4. ToolsInv'
    BY <1>1 DEF TurnInv, ToolsInv, UnderWay
  <1>5. ASSUME NEW d \in CallIds, d # c, tpc[d] = "authorizing"
        PROVE  Recorded(journal', turn, iter, d)
    <2>1. Recorded(journal, turn, iter, d)
      BY <1>5 DEF TurnInv, RecordedInv
    <2> QED
      BY <1>2, <1>5, <2>1, GrownKeeps
  <1>6. RecordedInv'
    BY <1>1, <1>5 DEF RecordedInv
  <1>7. ClosedInv'
    BY DEF TurnInv, ClosedInv, QueueKept, UnderWay
  <1> QED
    BY <1>3, <1>4, <1>6, <1>7 DEF TurnInv, QueueKept

LEMMA ToolEntries ==
  ASSUME TurnInv, NEW c \in CallIds
  PROVE  /\ Result(c) \in EntryType /\ Follows(Result(c), c, "resulting")
         /\ LET e == Entry("tool_call", c, {}, "")
            IN  e \in EntryType /\ Follows(e, c, "recording")
         /\ \A decision \in {"allow", "refuse"} :
              LET e == Entry("permission", c, {}, decision)
              IN  e \in EntryType /\ Follows(e, c, "authorizing")
  <1>1. Types /\ "" \in Statuses /\ "allow" \in Statuses /\ "refuse" \in Statuses
    BY DEF TurnInv, Statuses
  <1>2. Result(c) \in EntryType /\ Follows(Result(c), c, "resulting")
    BY <1>1, EntryTyped DEF Result, Entry, Follows
  <1>3. LET e == Entry("tool_call", c, {}, "")
        IN  e \in EntryType /\ Follows(e, c, "recording")
    BY <1>1, EntryTyped DEF Entry, Follows
  <1>4. ASSUME NEW decision \in {"allow", "refuse"}
        PROVE  LET e == Entry("permission", c, {}, decision)
               IN  e \in EntryType /\ Follows(e, c, "authorizing")
    BY <1>1, EntryTyped DEF Entry, Follows
  <1> QED
    BY <1>2, <1>3, <1>4

\* A tool asks for an append.
LEMMA ToolAskKeeps ==
  ASSUME TurnInv, NEW c \in CallIds, tpc[c] \in {"start", "executing"}, NEW e \in EntryType,
         NEW s \in {"recording", "resulting"}, tpc[c] = "executing" => s = "resulting",
         Follows(e, c, s), Ask(c, e), tpc' = [tpc EXCEPT ![c] = s],
         UNCHANGED <<turnVars, calls, effects>>
  PROVE  TurnInv'
  <1>1. jq' = Append(jq, Item(c, e)) /\ UNCHANGED <<pc, turn, iter, journal, broken, closed>>
    BY DEF Ask, turnVars
  <1>2. QueueKept
    BY <1>1, ToolAsks
  <1>3. UnderWay /\ c \in calls
    BY ToolUnderWay
  <1>4. \A d \in CallIds : tpc'[d] = IF d = c THEN s ELSE tpc[d]
    BY DEF TurnInv, Types
  <1>5. EffectsInv'
    <2>1. \A d \in calls : tpc[d] \in {"executing", "resulting", "thrown"} =>
                             tpc'[d] \in {"executing", "resulting", "thrown"}
      BY <1>4 DEF TurnInv, Types
    <2> QED
      BY <1>1, <1>3, <2>1, EffectsStay DEF UnderWay, EffectsInv
  <1>6. UnderWay' /\ broken' \in BOOLEAN
    BY <1>1, <1>3 DEF UnderWay, TurnInv, Types
  <1> QED
    BY <1>1, <1>2, <1>3, <1>5, <1>6, ToolKeeps

LEMMA StartToolKeeps == \A c \in CallIds : TurnInv /\ StartTool(c) => TurnInv'
  <1> SUFFICES ASSUME NEW c \in CallIds, TurnInv, StartTool(c) PROVE TurnInv'
    OBVIOUS
  <1>1. tpc[c] = "start" /\ UNCHANGED <<turnVars, calls, effects>>
    BY DEF StartTool
  <1>2. CASE Ask(c, Result(c)) /\ tpc' = [tpc EXCEPT ![c] = "resulting"]
    BY <1>1, <1>2, ToolEntries, ToolAskKeeps
  <1>3. CASE /\ Ask(c, Entry("tool_call", c, {}, ""))
             /\ tpc' = [tpc EXCEPT ![c] = "recording"]
    <2>1. PICK e \in EntryType : e = Entry("tool_call", c, {}, "") /\ Follows(e, c, "recording")
      BY ToolEntries
    <2> QED
      BY <1>1, <1>3, <2>1, ToolAskKeeps
  <1> QED
    BY <1>2, <1>3 DEF StartTool

LEMMA RefuseOutcomeKeeps == \A c \in CallIds : TurnInv /\ RefuseOutcome(c) => TurnInv'
  <1> SUFFICES ASSUME NEW c \in CallIds, TurnInv, RefuseOutcome(c) PROVE TurnInv'
    OBVIOUS
  <1>1. /\ tpc[c] = "start" /\ tpc' = [tpc EXCEPT ![c] = "thrown"]
        /\ pc' = pc \/ (pc = "tools" /\ pc' = "thrown")
        /\ UNCHANGED <<turn, iter, calls, effects, jq, journal, broken, closed>>
    BY DEF RefuseOutcome, logVars
  <1>2. UnderWay /\ c \in calls /\ UnderWay' /\ (pc = "thrown" => pc' = "thrown")
    BY <1>1, ToolUnderWay DEF UnderWay
  <1>3. \A d \in CallIds : tpc'[d] = IF d = c THEN "thrown" ELSE tpc[d]
    BY <1>1 DEF TurnInv, Types
  <1>4. QueueKept
    <2>1. \A i \in DOMAIN jq : Awaited(jq[i])'
      <3>1. TAKE i \in DOMAIN jq
      <3>2. Awaited(jq[i])
        BY DEF TurnInv, QueueInv
      <3>3. PICK d \in calls : ToolAwaits(jq[i], d)
        BY <1>2, <3>2 DEF Awaited, TurnAwaits, UnderWay
      <3>4. d \in CallIds /\ d # c
        BY <1>1, <3>3 DEF ToolAwaits, TurnInv, Types
      <3>5. tpc'[d] = tpc[d]
        BY <1>3, <3>4
      <3>6. ToolAwaits(jq[i], d)'
        BY <1>1, <1>2, <3>3, <3>5 DEF ToolAwaits, UnderWay
      <3> QED
        BY <1>1, <3>6 DEF Awaited
    <2> QED
      BY <1>1, <2>1 DEF QueueKept, QueueInv, TurnInv, Types, ClosedInv
  <1>5. EffectsInv'
    <2>1. \A d \in calls : tpc[d] \in {"executing", "resulting", "thrown"} =>
                             tpc'[d] \in {"executing", "resulting", "thrown"}
      BY <1>3 DEF TurnInv, Types
    <2> QED
      BY <1>1, <1>2, <2>1, EffectsStay DEF UnderWay, EffectsInv
  <1> QED
    BY <1>1, <1>2, <1>4, <1>5, ToolKeeps DEF TurnInv, Types

LEMMA ExecuteKeeps == \A c \in CallIds : TurnInv /\ Execute(c) => TurnInv'
  BY ToolEntries, ToolAskKeeps DEF Execute

\* An append of a tool settles: which one it was, and what it does to the effects.
LEMMA ToolSettles ==
  ASSUME TurnInv, NEW c \in CallIds, tpc[c] \in {"recording", "authorizing", "resulting"},
         jq # <<>>, jq[1].who = c, NEW next,
         NEW s \in {"authorizing", "executing", "resulting", "done", "thrown"},
         next = <<>> \/ \E e \in EntryType : next = <<Item(c, e)>> /\ Follows(e, c, s),
         jq' = Tail(jq) \o next, tpc' = [tpc EXCEPT ![c] = s],
         pc' = pc \/ (pc = "tools" /\ pc' = "thrown"),
         UNCHANGED <<turn, iter, calls, closed>>, broken' \in BOOLEAN,
         journal' = journal \/ journal' = Append(journal, jq[1].entry),
         s = "authorizing" => tpc[c] = "recording" /\ journal' # journal,
         tpc[c] = "resulting" => \/ s = "thrown"
                                 \/ s = "done" /\ journal' = Append(journal, jq[1].entry),
         effects' = effects \/
           /\ s = "executing" /\ tpc[c] = "authorizing" /\ jq[1].entry.status = "allow"
           /\ journal' = Append(journal, jq[1].entry)
           /\ effects' = effects \cup {[turn |-> turn, iter |-> iter, call |-> c]}
  PROVE  TurnInv'
  <1> DEFINE x == jq[1].entry
  <1>1. UnderWay /\ c \in calls /\ UnderWay' /\ (pc = "thrown" => pc' = "thrown")
    BY ToolUnderWay DEF UnderWay
  <1>2. QueueKept /\ x \in EntryType /\ Follows(x, c, tpc[c])
    BY <1>1, ToolPops
  <1>3. x.turn = turn /\ x.iter = iter /\ x.call = c /\ journal \in Seq(EntryType)
    BY <1>2 DEF Follows, TurnInv, Types
  <1>4. \A d \in CallIds : tpc'[d] = IF d = c THEN s ELSE tpc[d]
    BY DEF TurnInv, Types
  <1>5. journal' # journal => journal' = Append(journal, x)
    OBVIOUS
  <1> HIDE DEF x
  <1>6. s = "authorizing" => Recorded(journal', turn, iter, c)
    <2>1. SUFFICES ASSUME s = "authorizing" PROVE Recorded(journal', turn, iter, c)
      OBVIOUS
    <2>2. x.kind = "tool_call" /\ journal' = Append(journal, x)
      BY <1>2, <1>5, <2>1 DEF Follows
    <2>3. /\ Len(journal') \in DOMAIN journal' /\ journal'[Len(journal')] = x
          /\ Len(journal') \in Nat
      BY <1>2, <1>3, <2>2, Grown
    <2>4. Is(journal'[Len(journal')], "tool_call", turn, iter, c)
      BY <1>3, <2>2, <2>3 DEF Is
    <2>5. \A k \in Len(journal') .. Len(journal') : journal'[k].kind # "tool_result"
      BY <2>2, <2>3
    <2> QED
      BY <2>3, <2>4, <2>5 DEF Recorded
  <1>7. \A e \in effects : Permitted(journal', e) /\ (Answered(journal', e) \/ Unsettled(e)')
    <2>1. ASSUME NEW d \in calls, tpc[d] \in {"executing", "resulting", "thrown"}
          PROVE  \/ d \in calls' /\ tpc'[d] \in {"executing", "resulting", "thrown"}
                 \/ \E i \in DOMAIN journal' : Is(journal'[i], "tool_result", turn, iter, d)
      <3>1. CASE d = c /\ s = "done"
        <4>1. x.kind = "tool_result" /\ journal' = Append(journal, x)
          BY <1>2, <2>1, <3>1 DEF Follows, x
        <4>2. Len(journal) + 1 \in DOMAIN journal' /\ journal'[Len(journal) + 1] = x
          BY <1>2, <1>3, <4>1, Grown
        <4> QED
          BY <1>3, <3>1, <4>1, <4>2 DEF Is
      <3>2. CASE ~(d = c /\ s = "done")
        BY <1>4, <2>1, <3>2 DEF TurnInv, Types
      <3> QED
        BY <3>1, <3>2
    <2>2. journal' = journal \/ \E y \in EntryType :
            /\ journal' = Append(journal, y)
            /\ y.kind = "tool_result" => y.turn = turn /\ y.iter = iter
      BY <1>2, <1>3, <1>5
    <2> QED
      BY <1>1, <2>1, <2>2, EffectsStay DEF UnderWay
  <1>8. EffectsInv'
    <2>1. CASE effects' = effects
      BY <1>7, <2>1 DEF EffectsInv
    <2>2. ASSUME s = "executing", tpc[c] = "authorizing", x.status = "allow",
                 journal' = Append(journal, x),
                 effects' = effects \cup {[turn |-> turn, iter |-> iter, call |-> c]}
          PROVE  EffectsInv'
      <3>1. PICK e : e = [turn |-> turn, iter |-> iter, call |-> c]
        OBVIOUS
      <3>2. x.kind = "permission"
        BY <1>2, <2>2 DEF Follows
      <3>3. Recorded(journal, turn, iter, c)
        BY <2>2 DEF TurnInv, RecordedInv
      <3>4. PICK i \in DOMAIN journal :
              /\ Is(journal[i], "tool_call", turn, iter, c)
              /\ \A k \in i .. Len(journal) :
                   ~(journal[k].kind = "tool_result" /\ journal[k].call = c)
        BY <3>3 DEF Recorded
      <3>5. c \in Pending(journal)
        BY <3>4 DEF Pending, Is
      <3>6. c \in Pending(journal')
        BY <1>2, <1>3, <2>2, <3>2, <3>5, GrownKeeps
      <3>7. /\ Len(journal) + 1 \in DOMAIN journal' /\ journal'[Len(journal) + 1] = x
            /\ i \in DOMAIN journal' /\ journal'[i] = journal[i] /\ i < Len(journal) + 1
        BY <1>2, <1>3, <2>2, Grown
      <3>8. Is(x, "permission", turn, iter, c)
        BY <1>3, <3>2 DEF Is
      <3>9. Permitted(journal', e)
        BY <2>2, <3>1, <3>4, <3>7, <3>8 DEF Permitted
      <3>10. Unsettled(e)'
        BY <1>1, <1>4, <2>2, <3>1, <3>6 DEF Unsettled
      <3> QED
        BY <1>7, <2>2, <3>1, <3>9, <3>10 DEF EffectsInv
    <2> QED
      BY <2>1, <2>2 DEF x
  <1> QED
    BY <1>1, <1>2, <1>3, <1>5, <1>6, <1>8, ToolKeeps

LEMMA CommitToolCallKeeps == \A c \in CallIds : TurnInv /\ CommitToolCall(c) => TurnInv'
  <1> SUFFICES ASSUME NEW c \in CallIds, TurnInv, CommitToolCall(c) PROVE TurnInv'
    OBVIOUS
  <1>1. PICK decision \in {"allow", "refuse"} :
          Committed(c, "tool_call", <<Item(c, Entry("permission", c, {}, decision))>>)
    BY DEF CommitToolCall
  <1>2. PICK e \in EntryType :
          e = Entry("permission", c, {}, decision) /\ Follows(e, c, "authorizing")
    BY ToolEntries
  <1>3. /\ jq # <<>> /\ jq[1].who = c /\ jq' = Tail(jq) \o <<Item(c, e)>>
        /\ journal' = Append(journal, jq[1].entry) /\ UNCHANGED <<broken, closed>>
    BY <1>1, <1>2 DEF Committed, AtHead
  <1>4. /\ tpc[c] = "recording" /\ tpc' = [tpc EXCEPT ![c] = "authorizing"]
        /\ UNCHANGED <<pc, turn, iter, calls, effects>>
    BY DEF CommitToolCall, turnVars
  <1>5. journal' # journal
    <2>1. jq[1] \in Items
      BY <1>3, EmptySeq, LenProperties, ElementOfSeq DEF TurnInv, Types
    <2>2. jq[1].entry \in EntryType /\ journal \in Seq(EntryType)
      BY <2>1 DEF Items, TurnInv, Types
    <2>3. Len(journal') = Len(journal) + 1 /\ Len(journal) \in Nat
      BY <1>3, <2>2, Grown
    <2> QED
      BY <2>3
  <1>6. broken' \in BOOLEAN
    BY <1>3 DEF TurnInv, Types
  <1> QED
    BY <1>2, <1>3, <1>4, <1>5, <1>6, ToolSettles

LEMMA CommitPermissionKeeps == \A c \in CallIds : TurnInv /\ CommitPermission(c) => TurnInv'
  <1> SUFFICES ASSUME NEW c \in CallIds, TurnInv, CommitPermission(c) PROVE TurnInv'
    OBVIOUS
  <1>1. tpc[c] = "authorizing" /\ UNCHANGED <<pc, turn, iter, calls>>
    BY DEF CommitPermission, turnVars
  <1>2. CASE jq[1].entry.status = "allow" /\ Committed(c, "permission", <<>>) /\ Begin(c)
    <2>1. /\ jq # <<>> /\ jq[1].who = c /\ jq' = Tail(jq) \o <<>>
          /\ journal' = Append(journal, jq[1].entry) /\ UNCHANGED <<broken, closed>>
      BY <1>2 DEF Committed, AtHead
    <2>2. /\ tpc' = [tpc EXCEPT ![c] = "executing"]
          /\ effects' = effects \cup {[turn |-> turn, iter |-> iter, call |-> c]}
      BY <1>2 DEF Begin
    <2>3. broken' \in BOOLEAN
      BY <2>1 DEF TurnInv, Types
    <2> QED
      BY <1>1, <1>2, <2>1, <2>2, <2>3, ToolSettles
  <1>3. CASE /\ Committed(c, "permission", <<Item(c, Result(c))>>)
             /\ tpc' = [tpc EXCEPT ![c] = "resulting"] /\ UNCHANGED effects
    <2>1. /\ jq # <<>> /\ jq[1].who = c /\ jq' = Tail(jq) \o <<Item(c, Result(c))>>
          /\ journal' = Append(journal, jq[1].entry) /\ UNCHANGED <<broken, closed>>
      BY <1>3 DEF Committed, AtHead
    <2>2. broken' \in BOOLEAN
      BY <2>1 DEF TurnInv, Types
    <2> QED
      BY <1>1, <1>3, <2>1, <2>2, ToolEntries, ToolSettles
  <1> QED
    BY <1>2, <1>3 DEF CommitPermission

LEMMA CommitResultKeeps == \A c \in CallIds : TurnInv /\ CommitResult(c) => TurnInv'
  <1> SUFFICES ASSUME NEW c \in CallIds, TurnInv, CommitResult(c) PROVE TurnInv'
    OBVIOUS
  <1>1. /\ tpc[c] = "resulting" /\ tpc' = [tpc EXCEPT ![c] = "done"]
        /\ UNCHANGED <<pc, turn, iter, calls, effects>>
    BY DEF CommitResult, turnVars
  <1>2. /\ jq # <<>> /\ jq[1].who = c /\ jq' = Tail(jq) \o <<>>
        /\ journal' = Append(journal, jq[1].entry) /\ UNCHANGED <<broken, closed>>
    BY DEF CommitResult, Committed, AtHead
  <1>3. broken' \in BOOLEAN
    BY <1>2 DEF TurnInv, Types
  <1> QED
    BY <1>1, <1>2, <1>3, ToolSettles

LEMMA RejectToolCallKeeps == \A c \in CallIds : TurnInv /\ RejectToolCall(c) => TurnInv'
  <1> SUFFICES ASSUME NEW c \in CallIds, TurnInv, RejectToolCall(c) PROVE TurnInv'
    OBVIOUS
  <1>1. /\ tpc[c] = "recording" /\ tpc' = [tpc EXCEPT ![c] = "resulting"]
        /\ UNCHANGED <<pc, turn, iter, calls, effects>>
    BY DEF RejectToolCall, turnVars
  <1>2. /\ jq # <<>> /\ jq[1].who = c /\ jq' = Tail(jq) \o <<Item(c, Result(c))>>
        /\ closed' = closed /\ broken' \in BOOLEAN
        /\ journal' = journal \/ journal' = Append(journal, jq[1].entry)
    BY RejectedJournal DEF RejectToolCall
  <1> QED
    BY <1>1, <1>2, ToolEntries, ToolSettles

LEMMA RejectToolKeeps == \A c \in CallIds : TurnInv /\ RejectTool(c) => TurnInv'
  <1> SUFFICES ASSUME NEW c \in CallIds, TurnInv, RejectTool(c) PROVE TurnInv'
    OBVIOUS
  <1>1. /\ tpc[c] \in {"authorizing", "resulting"} /\ tpc' = [tpc EXCEPT ![c] = "thrown"]
        /\ pc' = pc \/ (pc = "tools" /\ pc' = "thrown")
        /\ UNCHANGED <<turn, iter, calls, effects>>
    BY DEF RejectTool
  <1>2. /\ jq # <<>> /\ jq[1].who = c /\ jq' = Tail(jq) \o <<>>
        /\ closed' = closed /\ broken' \in BOOLEAN
        /\ journal' = journal \/ journal' = Append(journal, jq[1].entry)
    BY RejectedJournal DEF RejectTool
  <1> QED
    BY <1>1, <1>2, ToolSettles

LEMMA LoopBackKeeps == TurnInv /\ LoopBack => TurnInv'
  <1> SUFFICES ASSUME TurnInv, LoopBack PROVE TurnInv'
    OBVIOUS
  <1>1. /\ pc = "tools" /\ pc' = "build" /\ iter' = iter + 1
        /\ UNCHANGED <<turn, calls, tpc, effects, jq, journal, broken, closed>>
    BY DEF LoopBack, toolVars, logVars
  <1>2. \A c \in calls : tpc[c] = "done"
    BY DEF LoopBack, AllSettled
  <1>3. \A i \in DOMAIN jq : FALSE
    BY <1>1, <1>2 DEF TurnInv, QueueInv, Awaited, TurnAwaits, ToolAwaits
  <1>4. QueueInv'
    BY <1>1, <1>3 DEF QueueInv, Distinct
  <1>5. \A c \in CallIds : tpc[c] \in {"none", "done"}
    BY <1>2 DEF TurnInv, ToolsInv
  <1>6. Types' /\ ToolsInv' /\ RecordedInv' /\ ClosedInv'
    BY <1>1, <1>5 DEF TurnInv, Types, ToolsInv, RecordedInv, ClosedInv
  <1>7. EffectsInv'
    <2>1. \A c \in calls : tpc[c] = "done"
      BY <1>2
    <2> QED
      BY <1>1, <2>1, EffectsStay DEF EffectsInv
  <1> QED
    BY <1>4, <1>6, <1>7 DEF TurnInv

LEMMA DieKeeps == TurnInv /\ Die => TurnInv'
  <1> SUFFICES ASSUME TurnInv, Die PROVE TurnInv'
    OBVIOUS
  <1>1. /\ pc # "dead" /\ pc' = "dead" /\ calls' = {} /\ tpc' = [c \in CallIds |-> "none"]
        /\ jq' = <<>> /\ UNCHANGED <<turn, iter, effects, broken, closed>>
    BY DEF Die
  <1>2. journal' = journal \/ (jq # <<>> /\ journal' = Append(journal, jq[1].entry))
    BY DEF Die
  <1>3. ASSUME jq # <<>>
        PROVE  /\ jq[1].entry \in EntryType
               /\ jq[1].entry.kind = "tool_result" =>
                    jq[1].entry.turn = turn /\ jq[1].entry.iter = iter
    <2>1. 1 \in DOMAIN jq /\ jq[1] \in Items
      BY <1>3, EmptySeq, LenProperties, ElementOfSeq DEF TurnInv, Types
    <2>2. Awaited(jq[1])
      BY <2>1 DEF TurnInv, QueueInv
    <2> QED
      BY <2>1, <2>2 DEF Items, Awaited, TurnAwaits, ToolAwaits, ToolKinds
  <1>4. EffectsInv'
    BY <1>1, <1>2, <1>3, EffectsStay DEF EffectsInv
  <1>5. journal' \in Seq(EntryType)
    BY <1>2, <1>3, Grown DEF TurnInv, Types
  <1>6. Types' /\ ToolsInv' /\ RecordedInv' /\ ClosedInv' /\ QueueInv'
    BY <1>1, <1>5 DEF TurnInv, Types, ToolsInv, RecordedInv, ClosedInv, QueueInv, Distinct
  <1> QED
    BY <1>4, <1>6 DEF TurnInv

-----------------------------------------------------------------------------
(* The theorems *)

LEMMA InitTurnInv == Init => TurnInv
  <1> SUFFICES ASSUME Init PROVE TurnInv
    OBVIOUS
  <1>1. Types
    <2>1. jq \in Seq(Items) /\ journal \in Seq(EntryType)
      BY EmptySeq DEF Init
    <2>2. turn \in 0 .. MaxLines /\ iter \in Nat
      BY ConstantsAssumption DEF Init
    <2>3. /\ tpc \in [CallIds -> {"none", "start", "recording", "authorizing", "executing",
                                 "resulting", "done", "thrown"}]
          /\ calls \subseteq CallIds /\ broken \in BOOLEAN /\ closed \in BOOLEAN
      BY DEF Init
    <2> QED
      BY <2>1, <2>2, <2>3 DEF Types
  <1>2. QueueInv /\ ToolsInv /\ RecordedInv /\ EffectsInv /\ ClosedInv
    BY DEF Init, QueueInv, Distinct, ToolsInv, RecordedInv, EffectsInv, ClosedInv
  <1> QED
    BY <1>1, <1>2 DEF TurnInv

LEMMA NextTurnInv == TurnInv /\ [Next]_vars => TurnInv'
  <1> SUFFICES ASSUME TurnInv, [Next]_vars PROVE TurnInv'
    OBVIOUS
  <1>1. CASE TurnStep
    BY <1>1, CommitUserMessageKeeps, BuildContextKeeps, CommitPromptKeeps, OpenStreamKeeps,
       StreamStopsKeeps, StreamAbortsKeeps, StreamFailsKeeps, RefuseResponseKeeps,
       AssistantMessageKeeps, CommitErrorKeeps, RefusePartialKeeps, CommitPartialKeeps,
       CommitTurnEndKeeps, RejectTurnKeeps,
       LoopBackKeeps, ReturnKeeps
    DEF TurnStep
  <1>2. ASSUME NEW c \in CallIds, ToolStep(c) PROVE TurnInv'
    BY <1>2, StartToolKeeps, RefuseOutcomeKeeps, CommitToolCallKeeps, CommitPermissionKeeps,
       ExecuteKeeps,
       CommitResultKeeps, RejectToolCallKeeps, RejectToolKeeps
    DEF ToolStep
  <1>3. CASE UNCHANGED vars
    <2>1. UNCHANGED <<pc, turn, iter, calls, tpc, effects, jq, journal, broken, closed>>
      BY <1>3 DEF vars, turnVars, toolVars, logVars
    <2>2. Types' /\ QueueInv' /\ ToolsInv' /\ RecordedInv' /\ ClosedInv'
      BY <2>1 DEF TurnInv, Types, QueueInv, Awaited, TurnAwaits, ToolAwaits, ToolsInv,
                  RecordedInv, ClosedInv
    <2>3. EffectsInv'
      BY <2>1 DEF TurnInv, EffectsInv, Unsettled
    <2> QED
      BY <2>2, <2>3 DEF TurnInv
  <1> QED
    BY <1>1, <1>2, <1>3, StartTurnKeeps, CloseWriterKeeps, InterruptKeeps, DieKeeps DEF Next

\* At every step the queue holds what the turn and its tools wait for and no more, and
\* every tool that has begun stands behind its own recorded call and permission.
THEOREM TurnInvariant == Spec => []TurnInv
  BY InitTurnInv, NextTurnInv, PTL DEF Spec

\* Whatever fails, and wherever the process dies, no tool has run unpermitted, and none
\* that ran is missing from what a reader of the journal sees.
THEOREM EffectsAreAccounted == Spec => []EffectsAccounted
  <1>1. TurnInv => EffectsAccounted
    BY DEF TurnInv, EffectsInv, Permitted, Answered, Unsettled, Is, At, EffectsAccounted
  <1> QED
    BY <1>1, TurnInvariant, PTL

-----------------------------------------------------------------------------
(* What the journal tells of a turn's end *)

Tells(j, kind, t) == \E i \in DOMAIN j : j[i].kind = kind /\ j[i].turn = t

\* A call is pending only while its tool is at work, as long as nothing was thrown.
PendingInv ==
  pc \notin {"thrown", "dead"} =>
    \A c \in Pending(journal) : tpc[c] \in {"authorizing", "executing", "resulting"}

\* A turn's error is in the journal from the commit of it on, if it fails or is limited.
ErrorInv ==
  /\ \A i \in DOMAIN journal : journal[i].turn <= turn
  /\ pc = "error" => ending \in {"failed", "limited"}
  /\ pc \in {"user", "build", "prompt", "connect", "stream", "assistant", "tools", "error"} =>
       ~ Tells(journal, "error", turn)
  /\ pc \in {"partial", "end", "ended"} =>
       (Tells(journal, "error", turn) <=> ending \in {"failed", "limited"})
  /\ pc = "ended" => phase = ending /\ Tells(journal, "turn_end", turn)

EndInv == PendingInv /\ ErrorInv

LEMMA GrownTells ==
  ASSUME NEW j \in Seq(EntryType), NEW x \in EntryType
  PROVE  /\ \A kind, t : Tells(Append(j, x), kind, t) <=>
                           Tells(j, kind, t) \/ (x.kind = kind /\ x.turn = t)
         /\ \A t : (\A i \in DOMAIN j : j[i].turn <= t) /\ x.turn <= t =>
                    \A i \in DOMAIN Append(j, x) : Append(j, x)[i].turn <= t
         /\ \A c \in Pending(Append(j, x)) :
              /\ ~(x.kind = "tool_result" /\ x.call = c)
              /\ c \in Pending(j) \/ (x.kind = "tool_call" /\ x.call = c)
  <1> DEFINE r == Append(j, x)
  <1>1. /\ Len(r) = Len(j) + 1 /\ Len(j) \in Nat
        /\ DOMAIN j = 1 .. Len(j) /\ DOMAIN r = 1 .. Len(j) + 1
        /\ \A i \in DOMAIN j : r[i] = j[i]
        /\ r[Len(j) + 1] = x
    BY Grown
  <1> HIDE DEF r
  <1>2. \A i \in DOMAIN r : i \in DOMAIN j \/ i = Len(j) + 1
    BY <1>1
  <1>3. \A i \in DOMAIN j : i \in DOMAIN r
    BY <1>1
  <1>4. \A kind, t : Tells(r, kind, t) <=> Tells(j, kind, t) \/ (x.kind = kind /\ x.turn = t)
    BY <1>1, <1>2, <1>3 DEF Tells
  <1>5. \A t : (\A i \in DOMAIN j : j[i].turn <= t) /\ x.turn <= t =>
               \A i \in DOMAIN r : r[i].turn <= t
    BY <1>1, <1>2
  <1>6. ASSUME NEW c \in Pending(r)
        PROVE  /\ ~(x.kind = "tool_result" /\ x.call = c)
               /\ c \in Pending(j) \/ (x.kind = "tool_call" /\ x.call = c)
    <2>1. PICK i \in DOMAIN r :
            /\ r[i].kind = "tool_call" /\ r[i].call = c
            /\ \A k \in i .. Len(r) : ~(r[k].kind = "tool_result" /\ r[k].call = c)
      BY <1>6 DEF Pending
    <2>2. Len(j) + 1 \in i .. Len(r) /\ c \in CallIds
      BY <1>1, <1>6 DEF Pending
    <2>3. ASSUME i \in DOMAIN j PROVE c \in Pending(j)
      <3>1. \A k \in i .. Len(j) : k \in i .. Len(r) /\ r[k] = j[k]
        BY <1>1, <2>3
      <3> QED
        BY <1>1, <2>1, <2>2, <2>3, <3>1 DEF Pending
    <2> QED
      BY <1>1, <1>2, <2>1, <2>2, <2>3
  <1> QED
    BY <1>4, <1>5, <1>6 DEF r

\* The first append of the queue is one of this turn, and of the call that waits for it.
LEMMA HeadOf ==
  ASSUME TurnInv, jq # <<>>
  PROVE  /\ jq[1].entry \in EntryType /\ jq[1].entry.turn = turn /\ jq[1].entry.iter = iter
         /\ jq[1].entry.kind = "prompt" => pc = "prompt"
         /\ jq[1].who = "turn" => jq[1].entry.kind \notin ToolKinds
         /\ \A c \in CallIds : jq[1].who = c =>
              jq[1].entry.call = c /\ jq[1].entry.kind \in ToolKinds
  <1>1. 1 \in DOMAIN jq /\ jq[1] \in Items
    BY EmptySeq, LenProperties, ElementOfSeq DEF TurnInv, Types
  <1>2. Awaited(jq[1])
    BY <1>1 DEF TurnInv, QueueInv
  <1> QED
    BY <1>1, <1>2, ConstantsAssumption
    DEF Items, Awaited, TurnAwaits, ToolAwaits, ToolKinds, TurnInv, Types

\* What one more entry of this turn does to what the journal tells.
LEMMA OneMore ==
  ASSUME TurnInv, EndInv, jq # <<>>, journal' = Append(journal, jq[1].entry)
  PROVE  /\ \A i \in DOMAIN journal' : journal'[i].turn <= turn
         /\ \A kind : Tells(journal', kind, turn) <=>
                        Tells(journal, kind, turn) \/ jq[1].entry.kind = kind
         /\ \A c \in Pending(journal') :
              /\ ~(jq[1].entry.kind = "tool_result" /\ jq[1].entry.call = c)
              /\ \/ c \in Pending(journal)
                 \/ jq[1].entry.kind = "tool_call" /\ jq[1].entry.call = c
  <1>1. jq[1].entry \in EntryType /\ jq[1].entry.turn = turn
    BY HeadOf
  <1>2. journal \in Seq(EntryType) /\ turn \in Nat
    BY ConstantsAssumption DEF TurnInv, Types
  <1>3. jq[1].entry.turn <= turn /\ \A i \in DOMAIN journal : journal[i].turn <= turn
    BY <1>1, <1>2 DEF EndInv, ErrorInv
  <1> QED
    BY <1>1, <1>2, <1>3, GrownTells

LEMMA NoneAtWork ==
  ASSUME TurnInv, EndInv, pc \notin {"tools", "thrown", "dead"}
  PROVE  Pending(journal) = {}
  <1>1. \A c \in CallIds : tpc[c] \in {"none", "done"}
    BY DEF TurnInv, ToolsInv
  <1>2. \A c \in Pending(journal) : c \in CallIds
    BY DEF Pending
  <1> QED
    BY <1>1, <1>2 DEF EndInv, PendingInv

LEMMA QuietTurnEnds ==
  ASSUME TurnInv, EndInv,
         \/ BuildContext \/ OpenStream \/ StreamStops \/ StreamAborts \/ StreamFails
         \/ LoopBack \/ Return \/ CloseWriter \/ Interrupt
  PROVE  EndInv'
  <1>1. UNCHANGED <<turn, journal, tpc>>
    BY DEF BuildContext, OpenStream, StreamStops, StreamAborts, StreamFails, LoopBack, Return,
           CloseWriter, Interrupt, Fail, Ask, turnVars, toolVars, logVars
  <1>2. PendingInv'
    <2>1. pc' \notin {"thrown", "dead"} => pc \notin {"thrown", "dead"}
      BY DEF BuildContext, OpenStream, StreamStops, StreamAborts, StreamFails, LoopBack, Return,
             CloseWriter, Interrupt, turnVars
    <2> QED
      BY <1>1, <2>1 DEF EndInv, PendingInv
  <1>3. ErrorInv'
    <2>1. CASE BuildContext \/ StreamFails
      BY <1>1, <2>1 DEF BuildContext, StreamFails, Fail, EndInv, ErrorInv
    <2>2. CASE OpenStream \/ StreamStops \/ StreamAborts \/ LoopBack \/ Return
      BY <1>1, <2>2 DEF OpenStream, StreamStops, StreamAborts, LoopBack, Return, EndInv, ErrorInv
    <2>3. CASE CloseWriter \/ Interrupt
      BY <1>1, <2>3 DEF CloseWriter, Interrupt, turnVars, EndInv, ErrorInv
    <2> QED
      BY <2>1, <2>2, <2>3
  <1> QED
    BY <1>2, <1>3 DEF EndInv

LEMMA CommitEnds ==
  ASSUME TurnInv, EndInv,
         \/ CommitUserMessage \/ CommitPrompt \/ CommitAssistantMessage \/ CommitError
         \/ CommitPartial \/ CommitTurnEnd
  PROVE  EndInv'
  <1>1. /\ turn' = turn /\ jq # <<>> /\ jq[1].who = "turn"
        /\ journal' = Append(journal, jq[1].entry)
        /\ pc \notin {"tools", "thrown", "dead"} /\ pc' \notin {"thrown", "dead"}
    BY DEF CommitUserMessage, CommitPrompt, CommitAssistantMessage, CommitError, CommitPartial,
           CommitTurnEnd, Committed, AtHead
  <1>2. Pending(journal') = {}
    BY <1>1, HeadOf, OneMore, NoneAtWork DEF ToolKinds
  <1>3. PendingInv'
    BY <1>2 DEF PendingInv
  <1>4. ErrorInv'
    <2>1. CASE CommitUserMessage \/ CommitPrompt
      BY <1>1, <2>1, OneMore DEF CommitUserMessage, CommitPrompt, Committed, AtHead, EndInv,
         ErrorInv
    <2>2. CASE CommitAssistantMessage
      <3>1. jq[1].entry.kind = "assistant_message" /\ pc = "assistant"
        BY <2>2 DEF CommitAssistantMessage, Committed, AtHead
      <3>2. \/ pc' = "error" /\ ending' \in {"failed", "limited"}
            \/ pc' = "end" /\ ending' = "completed"
            \/ pc' = "tools"
        BY <2>2, Zenon DEF CommitAssistantMessage, Phase
      <3> QED
        BY <1>1, <3>1, <3>2, OneMore DEF EndInv, ErrorInv
    <2>3. CASE CommitError \/ CommitPartial
      BY <1>1, <2>3, OneMore DEF CommitError, CommitPartial, Committed, AtHead, EndInv, ErrorInv
    <2>4. CASE CommitTurnEnd
      BY <1>1, <2>4, OneMore DEF CommitTurnEnd, Committed, AtHead, EndInv, ErrorInv
    <2> QED
      BY <2>1, <2>2, <2>3, <2>4
  <1> QED
    BY <1>3, <1>4 DEF EndInv

LEMMA LastStepsEnd ==
  ASSUME TurnInv, EndInv, RefuseResponse \/ RefusePartial \/ RejectTurn \/ Die PROVE EndInv'
  <1>1. turn' = turn /\ pc' \in {"thrown", "dead"}
        /\ (journal' = journal \/ (jq # <<>> /\ journal' = Append(journal, jq[1].entry)))
    BY DEF RefuseResponse, RefusePartial, RejectTurn, Committed, Rejected, AtHead, Die, logVars
  <1>2. \A i \in DOMAIN journal' : journal'[i].turn <= turn
    BY <1>1, OneMore DEF EndInv, ErrorInv
  <1> QED
    BY <1>1, <1>2 DEF EndInv, PendingInv, ErrorInv

LEMMA StartTurnEnds ==
  ASSUME TurnInv, EndInv, StartTurn PROVE EndInv'
  <1>1. turn \in Nat /\ turn' = turn + 1 /\ UNCHANGED <<journal, tpc>>
        /\ pc = "idle" /\ pc' = "user"
    BY ConstantsAssumption DEF StartTurn, toolVars, TurnInv, Types
  <1>2. PendingInv'
    BY <1>1 DEF EndInv, PendingInv
  <1>3. \A i \in DOMAIN journal : journal[i].turn \in Nat
    <2>1. TAKE i \in DOMAIN journal
    <2>2. journal \in Seq(EntryType) /\ i \in 1 .. Len(journal)
      BY LenProperties DEF TurnInv, Types
    <2>3. journal[i] \in EntryType
      BY <2>2, ElementOfSeq
    <2> QED
      BY <2>3, ConstantsAssumption DEF EntryType
  <1>4. \A i \in DOMAIN journal : journal[i].turn <= turn' /\ journal[i].turn # turn'
    BY <1>1, <1>3 DEF EndInv, ErrorInv
  <1>5. ErrorInv'
    BY <1>1, <1>4 DEF ErrorInv, Tells
  <1> QED
    BY <1>2, <1>5 DEF EndInv

\* A tool's step leaves the turn where it is, or makes it throw.
LEMMA ToolEnds ==
  ASSUME TurnInv, EndInv, NEW c \in CallIds, ToolStep(c) PROVE EndInv'
  <1>1. /\ UNCHANGED <<turn, ending, phase>> /\ (pc' = pc \/ (pc = "tools" /\ pc' = "thrown"))
        /\ \A d \in CallIds : d # c => tpc'[d] = tpc[d]
        /\ \/ journal' = journal
           \/ jq # <<>> /\ jq[1].who = c /\ journal' = Append(journal, jq[1].entry)
    BY DEF ToolStep, StartTool, RefuseOutcome, CommitToolCall, CommitPermission, Begin, Execute,
           CommitResult, RejectToolCall, RejectTool, Ask, Committed, Rejected, AtHead, logVars,
           turnVars, TurnInv, Types
  <1>2. pc \in {"tools", "thrown"}
    <2>1. tpc[c] \notin {"none", "done"}
      BY DEF ToolStep, StartTool, RefuseOutcome, CommitToolCall, CommitPermission, Execute,
             CommitResult, RejectToolCall, RejectTool
    <2> QED
      BY <2>1 DEF TurnInv, ToolsInv
  <1>3. \A i \in DOMAIN journal' : journal'[i].turn <= turn
    BY <1>1, OneMore DEF EndInv, ErrorInv
  <1>4. PendingInv'
    <2>1. SUFFICES ASSUME pc' \notin {"thrown", "dead"}, NEW d \in Pending(journal')
                   PROVE  tpc'[d] \in {"authorizing", "executing", "resulting"}
      BY DEF PendingInv
    <2>2. d \in CallIds
      BY DEF Pending
    <2>3. d # c => d \in Pending(journal)
      BY <1>1, HeadOf, OneMore
    <2>4. pc = "tools" /\ pc' = "tools"
      BY <1>1, <1>2, <2>1
    <2>5. CASE d # c
      BY <1>1, <2>2, <2>3, <2>4, <2>5 DEF EndInv, PendingInv
    <2>6. CASE d = c
      <3>1. ~ StartTool(c)
        <4>1. ASSUME StartTool(c) PROVE FALSE
          <5>1. tpc[c] = "start" /\ journal' = journal
            BY <4>1 DEF StartTool, Ask
          <5> QED
            BY <2>4, <2>6, <5>1 DEF EndInv, PendingInv
        <4> QED
          BY <4>1
      <3>2. ~ CommitResult(c)
        <4>1. ASSUME CommitResult(c) PROVE FALSE
          <5>1. jq # <<>> /\ jq[1].entry.kind = "tool_result" /\ jq[1].who = c
                /\ journal' = Append(journal, jq[1].entry)
            BY <4>1 DEF CommitResult, Committed, AtHead
          <5> QED
            BY <2>6, <5>1, HeadOf, OneMore
        <4> QED
          BY <4>1
      <3>3. ~ RejectTool(c) /\ ~ RefuseOutcome(c)
        BY <2>4 DEF RejectTool, RefuseOutcome
      <3> QED
        BY <2>6, <3>1, <3>2, <3>3 DEF ToolStep, CommitToolCall, CommitPermission, Begin, Execute,
           RejectToolCall, TurnInv, Types
    <2> QED
      BY <2>5, <2>6
  <1>5. pc' = "tools" => ~ Tells(journal', "error", turn)
    <2>1. SUFFICES ASSUME pc' = "tools" PROVE ~ Tells(journal', "error", turn)
      OBVIOUS
    <2>2. pc = "tools"
      BY <1>1, <2>1
    <2>3. CASE journal' = journal
      BY <2>2, <2>3 DEF EndInv, ErrorInv
    <2>4. CASE jq # <<>> /\ jq[1].who = c /\ journal' = Append(journal, jq[1].entry)
      <3>1. jq[1].entry.kind # "error"
        BY <2>4, HeadOf DEF ToolKinds
      <3> QED
        BY <2>2, <2>4, <3>1, OneMore DEF EndInv, ErrorInv
    <2> QED
      BY <1>1, <2>3, <2>4
  <1> QED
    BY <1>1, <1>2, <1>3, <1>4, <1>5 DEF EndInv, ErrorInv

LEMMA NextEndInv == TurnInv /\ EndInv /\ [Next]_vars => EndInv'
  <1> SUFFICES ASSUME TurnInv, EndInv, [Next]_vars PROVE EndInv'
    OBVIOUS
  <1>1. CASE TurnStep
    BY <1>1, QuietTurnEnds, CommitEnds, LastStepsEnd DEF TurnStep
  <1>2. CASE UNCHANGED vars
    BY <1>2 DEF vars, turnVars, toolVars, logVars, EndInv, PendingInv, ErrorInv
  <1> QED
    BY <1>1, <1>2, StartTurnEnds, ToolEnds, QuietTurnEnds, LastStepsEnd DEF Next

\* The journal tells how each turn ended, and nothing of it is left open.
THEOREM OutcomeIsJournaled == Spec => []OutcomeJournaled
  <1>1. Init => EndInv
    <2>1. Init => DOMAIN journal = {} /\ Pending(journal) = {}
      BY DEF Init, Pending
    <2> QED
      BY <2>1 DEF Init, EndInv, PendingInv, ErrorInv, Tells
  <1>2. TurnInv /\ EndInv => OutcomeJournaled
    <2> SUFFICES ASSUME TurnInv, EndInv, pc = "ended" PROVE OutcomeJournaled
      BY DEF OutcomeJournaled
    <2>1. Pending(journal) = {}
      BY NoneAtWork
    <2>2. phase = ending /\ Tells(journal, "turn_end", turn)
          /\ (Tells(journal, "error", turn) <=> ending \in {"failed", "limited"})
      BY DEF EndInv, ErrorInv
    <2> QED
      BY <2>1, <2>2 DEF OutcomeJournaled, Tells
  <1> QED
    BY <1>1, <1>2, NextEndInv, TurnInvariant, PTL DEF Spec

-----------------------------------------------------------------------------
(* All results before the next inference *)

Answers(j, t, n, c) == {r \in DOMAIN j : Is(j[r], "tool_result", t, n, c)}

\* A call of the response at i has one result, and it is behind the response.
Once(j, i, c) ==
  \E r \in DOMAIN j : i < r /\ Answers(j, j[i].turn, j[i].iter, c) = {r}

\* From a line of the user, or from the results of an inference, to the next response.
Asking == {"user", "build", "prompt", "connect", "stream", "assistant"}

\* The calls of a response are answered, or are those the turn now waits for.
Joined(i) ==
  \/ journal[i].iter < iter /\ \A c \in journal[i].calls : Once(journal, i, c)
  \/ /\ pc = "tools" /\ journal[i].iter = iter /\ journal[i].calls = calls
     /\ \A c \in calls : tpc[c] = "done" => Once(journal, i, c)

JoinInv ==
  /\ \A i \in DOMAIN journal : journal[i].turn = turn => journal[i].iter <= iter
  /\ pc \in Asking \cup {"tools"} =>
       \A i \in DOMAIN journal :
         journal[i].kind = "assistant_message" /\ journal[i].turn = turn => Joined(i)
  /\ pc \in Asking => \A c \in CallIds : Answers(journal, turn, iter, c) = {}
  /\ pc = "tools" => \A c \in calls : tpc[c] # "done" => Answers(journal, turn, iter, c) = {}

LEMMA GrownAnswers ==
  ASSUME NEW j \in Seq(EntryType), NEW x \in EntryType
  PROVE  /\ \A t, n, c : ~ Is(x, "tool_result", t, n, c) =>
              Answers(Append(j, x), t, n, c) = Answers(j, t, n, c)
         /\ \A i \in DOMAIN j, c \in CallIds :
              /\ ~ Is(x, "tool_result", j[i].turn, j[i].iter, c) /\ Once(j, i, c) =>
                   Once(Append(j, x), i, c)
              /\ /\ Is(x, "tool_result", j[i].turn, j[i].iter, c)
                 /\ Answers(j, j[i].turn, j[i].iter, c) = {}
                 => Once(Append(j, x), i, c)
  <1> DEFINE r == Append(j, x)
  <1>1. /\ Len(r) = Len(j) + 1 /\ Len(j) \in Nat
        /\ DOMAIN j = 1 .. Len(j) /\ DOMAIN r = 1 .. Len(j) + 1
        /\ \A i \in DOMAIN j : r[i] = j[i]
        /\ r[Len(j) + 1] = x
    BY Grown
  <1> HIDE DEF r
  <1>2. DOMAIN r = DOMAIN j \cup {Len(j) + 1} /\ Len(j) + 1 \notin DOMAIN j
    BY <1>1
  <1>3. \A t, n, c : ~ Is(x, "tool_result", t, n, c) => Answers(r, t, n, c) = Answers(j, t, n, c)
    BY <1>1, <1>2 DEF Answers
  <1>4. \A t, n, c : Is(x, "tool_result", t, n, c) =>
          Answers(r, t, n, c) = Answers(j, t, n, c) \cup {Len(j) + 1}
    BY <1>1, <1>2 DEF Answers
  <1>5. ASSUME NEW i \in DOMAIN j, NEW c \in CallIds,
               ~ Is(x, "tool_result", j[i].turn, j[i].iter, c), Once(j, i, c)
        PROVE  Once(r, i, c)
    BY <1>1, <1>2, <1>3, <1>5 DEF Once
  <1>6. ASSUME NEW i \in DOMAIN j, NEW c \in CallIds,
               Is(x, "tool_result", j[i].turn, j[i].iter, c),
               Answers(j, j[i].turn, j[i].iter, c) = {}
        PROVE  Once(r, i, c)
    <2>1. Answers(r, j[i].turn, j[i].iter, c) = {Len(j) + 1}
      BY <1>4, <1>6
    <2>2. i < Len(j) + 1 /\ Len(j) + 1 \in DOMAIN r /\ r[i] = j[i]
      BY <1>1
    <2> QED
      BY <2>1, <2>2 DEF Once
  <1> QED
    BY <1>3, <1>5, <1>6 DEF r

\* What is committed is an entry of the turn and of its inference under way.
LEMMA IterBound ==
  ASSUME TurnInv, JoinInv, turn' = turn, iter' = iter,
         journal' = journal \/ (jq # <<>> /\ journal' = Append(journal, jq[1].entry))
  PROVE  \A i \in DOMAIN journal' : journal'[i].turn = turn' => journal'[i].iter <= iter'
  <1>1. CASE journal' = journal
    BY <1>1 DEF JoinInv
  <1>2. CASE jq # <<>> /\ journal' = Append(journal, jq[1].entry)
    <2>1. /\ jq[1].entry \in EntryType /\ jq[1].entry.iter = iter /\ iter \in Nat
          /\ journal \in Seq(EntryType)
      BY <1>2, HeadOf DEF TurnInv, Types
    <2>2. \A i \in DOMAIN journal' : \/ i \in DOMAIN journal /\ journal'[i] = journal[i]
                                     \/ journal'[i] = jq[1].entry
      <3>1. /\ DOMAIN journal = 1 .. Len(journal) /\ DOMAIN journal' = 1 .. Len(journal) + 1
            /\ \A i \in DOMAIN journal : journal'[i] = journal[i]
            /\ journal'[Len(journal) + 1] = jq[1].entry /\ Len(journal) \in Nat
        BY <1>2, <2>1, Grown
      <3> QED
        BY <3>1
    <2> QED
      BY <2>1, <2>2 DEF JoinInv
  <1> QED
    BY <1>1, <1>2

LEMMA QuietJoin ==
  ASSUME TurnInv, JoinInv,
         \/ BuildContext \/ OpenStream \/ StreamStops \/ StreamAborts \/ StreamFails
         \/ Return \/ CloseWriter \/ Interrupt
  PROVE  JoinInv'
  <1>1. UNCHANGED <<turn, iter, journal, calls, tpc>>
    BY DEF BuildContext, OpenStream, StreamStops, StreamAborts, StreamFails, Return,
           CloseWriter, Interrupt, Fail, Ask, turnVars, toolVars, logVars
  <1>2. (pc' \in Asking => pc \in Asking) /\ (pc' = "tools" => pc = "tools")
    BY DEF BuildContext, OpenStream, StreamStops, StreamAborts, StreamFails, Return,
           CloseWriter, Interrupt, Fail, turnVars, Asking
  <1>3. "tools" \notin Asking
    BY DEF Asking
  <1> QED
    BY <1>1, <1>2, <1>3 DEF JoinInv, Joined

\* A line of the user has no entries yet.
LEMMA StartTurnJoin ==
  ASSUME TurnInv, EndInv, JoinInv, StartTurn PROVE JoinInv'
  <1>1. turn \in Nat /\ turn' = turn + 1 /\ journal' = journal /\ pc' = "user"
    BY ConstantsAssumption DEF StartTurn, TurnInv, Types
  <1>2. \A i \in DOMAIN journal : journal[i].turn # turn'
    <2>1. TAKE i \in DOMAIN journal
    <2>2. journal \in Seq(EntryType) /\ i \in 1 .. Len(journal)
      BY LenProperties DEF TurnInv, Types
    <2>3. journal[i] \in EntryType
      BY <2>2, ElementOfSeq
    <2>4. journal[i].turn \in Nat /\ journal[i].turn <= turn
      BY <2>3, ConstantsAssumption DEF EntryType, EndInv, ErrorInv
    <2> QED
      BY <1>1, <2>4
  <1> QED
    BY <1>1, <1>2 DEF JoinInv, Answers, Is, Asking

\* The joined calls leave none of the turn's responses open.
LEMMA LoopBackJoin ==
  ASSUME TurnInv, JoinInv, LoopBack PROVE JoinInv'
  <1>1. /\ pc = "tools" /\ pc' = "build" /\ iter' = iter + 1 /\ iter \in Nat
        /\ UNCHANGED <<turn, journal, calls, tpc>> /\ \A c \in calls : tpc[c] = "done"
    BY DEF LoopBack, AllSettled, toolVars, logVars, TurnInv, Types
  <1>2. journal \in Seq(EntryType) /\ \A i \in DOMAIN journal : journal[i].iter \in Nat
    <2>1. journal \in Seq(EntryType)
      BY DEF TurnInv, Types
    <2>2. ASSUME NEW i \in DOMAIN journal PROVE journal[i].iter \in Nat
      <3>1. i \in 1 .. Len(journal)
        BY <2>1, LenProperties
      <3>2. journal[i] \in EntryType
        BY <2>1, <3>1, ElementOfSeq
      <3> QED
        BY <3>2 DEF EntryType
    <2> QED
      BY <2>1, <2>2
  <1>3. \A i \in DOMAIN journal : journal[i].turn = turn => journal[i].iter < iter'
    BY <1>1, <1>2 DEF JoinInv
  <1>4. ASSUME NEW i \in DOMAIN journal, journal[i].kind = "assistant_message",
               journal[i].turn = turn
        PROVE  \A c \in journal[i].calls : Once(journal, i, c)
    BY <1>1, <1>4 DEF JoinInv, Joined, Asking
  <1>5. \A c \in CallIds : Answers(journal, turn, iter', c) = {}
    BY <1>1, <1>2, <1>3 DEF Answers, Is
  <1> QED
    BY <1>1, <1>2, <1>3, <1>4, <1>5 DEF JoinInv, Joined, Asking

\* An entry that is neither a result nor a response leaves what is joined as it is.
LEMMA PlainJoin ==
  ASSUME TurnInv, JoinInv, jq # <<>>, journal' = Append(journal, jq[1].entry),
         jq[1].entry.kind # "tool_result", UNCHANGED <<turn, iter, calls>>,
         jq[1].entry.kind = "assistant_message" => pc' \notin Asking \cup {"tools"},
         pc' \in Asking => pc \in Asking,
         pc' = "tools" => pc = "tools",
         \A c \in CallIds : tpc'[c] = "done" <=> tpc[c] = "done"
  PROVE  JoinInv'
  <1> DEFINE x == jq[1].entry
  <1>1. x \in EntryType /\ journal \in Seq(EntryType) /\ calls \subseteq CallIds
    BY HeadOf DEF TurnInv, Types
  <1>2. \A t, n, c : ~ Is(x, "tool_result", t, n, c)
    BY DEF Is
  <1>3. /\ \A t, n, c : Answers(journal', t, n, c) = Answers(journal, t, n, c)
        /\ \A i \in DOMAIN journal, c \in CallIds : Once(journal, i, c) => Once(journal', i, c)
    BY <1>1, <1>2, GrownAnswers
  <1>4. \A i \in DOMAIN journal' : \/ i \in DOMAIN journal /\ journal'[i] = journal[i]
                                   \/ journal'[i] = x
    <2>1. /\ DOMAIN journal = 1 .. Len(journal) /\ DOMAIN journal' = 1 .. Len(journal) + 1
          /\ \A i \in DOMAIN journal : journal'[i] = journal[i]
          /\ journal'[Len(journal) + 1] = x /\ Len(journal) \in Nat
      BY <1>1, Grown
    <2> QED
      BY <2>1
  <1>5. \A i \in DOMAIN journal : journal[i].calls \subseteq CallIds
    <2>1. TAKE i \in DOMAIN journal
    <2>2. i \in 1 .. Len(journal)
      BY <1>1, LenProperties
    <2>3. journal[i] \in EntryType
      BY <1>1, <2>2, ElementOfSeq
    <2> QED
      BY <2>3 DEF EntryType
  <1>6. \A i \in DOMAIN journal' : journal'[i].turn = turn' => journal'[i].iter <= iter'
    BY IterBound
  <1> HIDE DEF x
  <1>7. ASSUME pc' \in Asking \cup {"tools"}, NEW i \in DOMAIN journal',
               journal'[i].kind = "assistant_message", journal'[i].turn = turn'
        PROVE  Joined(i)'
    <2>1. i \in DOMAIN journal /\ journal'[i] = journal[i]
      BY <1>4, <1>7 DEF x
    <2>2. Joined(i)
      BY <1>7, <2>1 DEF JoinInv
    <2>3. CASE journal[i].iter < iter /\ \A c \in journal[i].calls : Once(journal, i, c)
      BY <1>3, <1>5, <2>1, <2>3 DEF Joined
    <2>4. CASE /\ pc = "tools" /\ journal[i].iter = iter /\ journal[i].calls = calls
               /\ \A c \in calls : tpc[c] = "done" => Once(journal, i, c)
      <3>1. pc' = "tools"
        BY <1>7, <2>4 DEF Asking
      <3> QED
        BY <1>1, <1>3, <2>1, <2>4, <3>1 DEF Joined
    <2> QED
      BY <2>2, <2>3, <2>4 DEF Joined
  <1> QED
    BY <1>1, <1>3, <1>6, <1>7 DEF JoinInv

LEMMA CommitJoin ==
  ASSUME TurnInv, JoinInv,
         CommitUserMessage \/ CommitPrompt \/ CommitError \/ CommitPartial \/ CommitTurnEnd
  PROVE  JoinInv'
  <1>1. /\ jq # <<>> /\ jq[1].who = "turn" /\ journal' = Append(journal, jq[1].entry)
        /\ UNCHANGED <<turn, iter, calls, tpc>> /\ pc' # "tools"
        /\ pc' \in Asking => pc \in Asking /\ jq[1].entry.kind # "assistant_message"
    BY DEF CommitUserMessage, CommitPrompt, CommitError, CommitPartial, CommitTurnEnd, Committed,
           AtHead, toolVars, Asking
  <1>2. jq[1].entry.kind # "tool_result"
    BY <1>1, HeadOf DEF ToolKinds
  <1> QED
    BY <1>1, <1>2, PlainJoin

LEMMA LastStepsJoin ==
  ASSUME TurnInv, JoinInv, RefuseResponse \/ RefusePartial \/ RejectTurn \/ Die PROVE JoinInv'
  <1>1. turn' = turn /\ iter' = iter /\ pc' \in {"thrown", "dead"}
        /\ (journal' = journal \/ (jq # <<>> /\ journal' = Append(journal, jq[1].entry)))
    BY DEF RefuseResponse, RefusePartial, RejectTurn, Committed, Rejected, AtHead, Die, logVars
  <1> QED
    BY <1>1, IterBound DEF JoinInv, Asking

\* A response opens its calls, and only they are open.
LEMMA AssistantMessageJoin ==
  ASSUME TurnInv, JoinInv, CommitAssistantMessage PROVE JoinInv'
  <1> DEFINE x == jq[1].entry
  <1>1. /\ jq # <<>> /\ jq[1].who = "turn" /\ journal' = Append(journal, x)
        /\ x.kind = "assistant_message" /\ UNCHANGED <<turn, iter>> /\ pc = "assistant"
        /\ pc' \notin Asking
    BY DEF CommitAssistantMessage, Committed, AtHead, Asking
  <1>2. \A i \in DOMAIN journal' : journal'[i].turn = turn' => journal'[i].iter <= iter'
    BY <1>1, IterBound
  <1>3. CASE pc' # "tools"
    BY <1>1, <1>2, <1>3 DEF JoinInv
  <1>4. CASE pc' = "tools"
    <2>1. /\ calls' = x.calls
          /\ tpc' = [c \in CallIds |-> IF c \in calls' THEN "start" ELSE "none"]
      BY <1>4 DEF CommitAssistantMessage
    <2>2. /\ x \in EntryType /\ journal \in Seq(EntryType) /\ x.iter = iter
          /\ calls' \subseteq CallIds
      BY <1>1, <2>1, HeadOf DEF TurnInv, Types, EntryType
    <2>3. \A t, n, c : ~ Is(x, "tool_result", t, n, c)
      BY <1>1 DEF Is
    <2>4. /\ \A t, n, c : Answers(journal', t, n, c) = Answers(journal, t, n, c)
          /\ \A i \in DOMAIN journal, c \in CallIds : Once(journal, i, c) => Once(journal', i, c)
      BY <1>1, <2>2, <2>3, GrownAnswers
    <2>5. \A i \in DOMAIN journal' : \/ i \in DOMAIN journal /\ journal'[i] = journal[i]
                                     \/ journal'[i] = x
      <3>1. /\ DOMAIN journal = 1 .. Len(journal) /\ DOMAIN journal' = 1 .. Len(journal) + 1
            /\ \A i \in DOMAIN journal : journal'[i] = journal[i]
            /\ journal'[Len(journal) + 1] = x /\ Len(journal) \in Nat
        BY <1>1, <2>2, Grown
      <3> QED
        BY <3>1
    <2>6. \A i \in DOMAIN journal : journal[i].calls \subseteq CallIds
      <3>1. TAKE i \in DOMAIN journal
      <3>2. i \in 1 .. Len(journal)
        BY <2>2, LenProperties
      <3>3. journal[i] \in EntryType
        BY <2>2, <3>2, ElementOfSeq
      <3> QED
        BY <3>3 DEF EntryType
    <2> HIDE DEF x
    <2>7. \A c \in calls' : tpc'[c] # "done" /\ Answers(journal', turn', iter', c) = {}
      BY <1>1, <2>1, <2>2, <2>4 DEF JoinInv, Asking
    <2>8. ASSUME NEW i \in DOMAIN journal', journal'[i].kind = "assistant_message",
                 journal'[i].turn = turn'
          PROVE  Joined(i)'
      <3>1. CASE i \in DOMAIN journal /\ journal'[i] = journal[i]
        <4>1. Joined(i) /\ pc # "tools"
          BY <1>1, <2>8, <3>1 DEF JoinInv, Asking
        <4> QED
          BY <1>1, <2>4, <2>6, <3>1, <4>1 DEF Joined
      <3>2. CASE journal'[i] = x
        BY <1>1, <1>4, <2>1, <2>2, <2>7, <3>2 DEF Joined
      <3> QED
        BY <2>5, <3>1, <3>2
    <2> QED
      BY <1>1, <1>2, <1>4, <2>7, <2>8 DEF JoinInv
  <1> QED
    BY <1>3, <1>4

\* A result settles the call it is of, and no other.
LEMMA CommitResultJoin ==
  ASSUME TurnInv, JoinInv, NEW c \in CallIds, CommitResult(c), pc = "tools" PROVE JoinInv'
  <1> DEFINE x == jq[1].entry
  <1>1. /\ jq # <<>> /\ jq[1].who = c /\ journal' = Append(journal, x) /\ x.kind = "tool_result"
        /\ UNCHANGED <<pc, turn, iter, calls>> /\ tpc[c] = "resulting"
        /\ tpc' = [tpc EXCEPT ![c] = "done"]
    BY DEF CommitResult, Committed, AtHead, turnVars
  <1>2. /\ x \in EntryType /\ journal \in Seq(EntryType) /\ calls \subseteq CallIds
        /\ Is(x, "tool_result", turn, iter, c) /\ c \in calls
    BY <1>1, HeadOf DEF TurnInv, Types, ToolsInv, Is
  <1>3. \A d \in CallIds : (d # c => tpc'[d] = tpc[d]) /\ tpc'[c] = "done"
    BY <1>1 DEF TurnInv, Types
  <1>4. \A i \in DOMAIN journal' : journal'[i].turn = turn' => journal'[i].iter <= iter'
    BY <1>1, IterBound
  <1>5. \A i \in DOMAIN journal' : \/ i \in DOMAIN journal /\ journal'[i] = journal[i]
                                   \/ journal'[i] = x
    <2>1. /\ DOMAIN journal = 1 .. Len(journal) /\ DOMAIN journal' = 1 .. Len(journal) + 1
          /\ \A i \in DOMAIN journal : journal'[i] = journal[i]
          /\ journal'[Len(journal) + 1] = x /\ Len(journal) \in Nat
      BY <1>1, <1>2, Grown
    <2> QED
      BY <2>1
  <1>6. \A i \in DOMAIN journal : journal[i].calls \subseteq CallIds /\ journal[i].iter \in Nat
    <2>1. TAKE i \in DOMAIN journal
    <2>2. i \in 1 .. Len(journal)
      BY <1>2, LenProperties
    <2>3. journal[i] \in EntryType
      BY <1>2, <2>2, ElementOfSeq
    <2> QED
      BY <2>3 DEF EntryType
  <1>7. Answers(journal, turn, iter, c) = {}
    BY <1>1, <1>2 DEF JoinInv
  <1>8. \A d \in calls : tpc'[d] # "done" => Answers(journal', turn, iter, d) = {}
    <2>1. TAKE d \in calls
    <2>2. d # c => ~ Is(x, "tool_result", turn, iter, d)
      BY <1>2 DEF Is
    <2>3. d # c => Answers(journal', turn, iter, d) = Answers(journal, turn, iter, d)
      BY <1>1, <1>2, <2>2, GrownAnswers
    <2> QED
      BY <1>1, <1>2, <1>3, <2>3 DEF JoinInv
  <1> HIDE DEF x
  <1>9. ASSUME NEW i \in DOMAIN journal', journal'[i].kind = "assistant_message",
               journal'[i].turn = turn'
        PROVE  Joined(i)'
    <2>1. i \in DOMAIN journal /\ journal'[i] = journal[i] /\ journal[i].turn = turn
      BY <1>1, <1>5, <1>9
    <2>2. Joined(i)
      BY <1>1, <1>9, <2>1 DEF JoinInv
    <2>3. CASE journal[i].iter < iter /\ \A d \in journal[i].calls : Once(journal, i, d)
      <3>1. \A d : ~ Is(x, "tool_result", journal[i].turn, journal[i].iter, d)
        BY <1>2, <1>6, <2>1, <2>3 DEF Is, TurnInv, Types
      <3>2. \A d \in journal[i].calls : Once(journal', i, d)
        BY <1>1, <1>2, <1>6, <2>1, <2>3, <3>1, GrownAnswers
      <3> QED
        BY <1>1, <2>1, <2>3, <3>2 DEF Joined
    <2>4. CASE /\ journal[i].iter = iter /\ journal[i].calls = calls
               /\ \A d \in calls : tpc[d] = "done" => Once(journal, i, d)
      <3>1. Once(journal', i, c)
        BY <1>1, <1>2, <1>7, <2>1, <2>4, GrownAnswers
      <3>2. ASSUME NEW d \in calls, d # c, tpc'[d] = "done" PROVE Once(journal', i, d)
        <4>1. ~ Is(x, "tool_result", journal[i].turn, journal[i].iter, d)
          BY <1>2, <3>2 DEF Is
        <4>2. d \in CallIds /\ Once(journal, i, d)
          BY <1>2, <1>3, <2>4, <3>2
        <4> QED
          BY <1>1, <1>2, <2>1, <4>1, <4>2, GrownAnswers
      <3> QED
        BY <1>1, <2>1, <2>4, <3>1, <3>2 DEF Joined
    <2> QED
      BY <2>2, <2>3, <2>4 DEF Joined
  <1> QED
    BY <1>1, <1>4, <1>8, <1>9 DEF JoinInv, Asking

LEMMA ToolJoin ==
  ASSUME TurnInv, JoinInv, NEW c \in CallIds, ToolStep(c) PROVE JoinInv'
  <1>1. /\ UNCHANGED <<turn, iter, calls>> /\ (pc' = pc \/ (pc = "tools" /\ pc' = "thrown"))
        /\ \A d \in CallIds : d # c => tpc'[d] = tpc[d]
        /\ \/ journal' = journal
           \/ jq # <<>> /\ jq[1].who = c /\ journal' = Append(journal, jq[1].entry)
    BY DEF ToolStep, StartTool, RefuseOutcome, CommitToolCall, CommitPermission, Begin, Execute,
           CommitResult, RejectToolCall, RejectTool, Ask, Committed, Rejected, AtHead, logVars,
           turnVars, TurnInv, Types
  <1>2. /\ tpc[c] \notin {"none", "done"} /\ pc \in {"tools", "thrown"}
        /\ CommitResult(c) \/ tpc'[c] # "done"
    <2>1. tpc[c] \notin {"none", "done"}
      BY DEF ToolStep, StartTool, RefuseOutcome, CommitToolCall, CommitPermission, Execute,
             CommitResult, RejectToolCall, RejectTool
    <2>2. CommitResult(c) \/ tpc'[c] # "done"
      BY DEF ToolStep, StartTool, RefuseOutcome, CommitToolCall, CommitPermission, Begin, Execute,
             RejectToolCall, RejectTool, TurnInv, Types
    <2> QED
      BY <2>1, <2>2 DEF TurnInv, ToolsInv
  <1>3. CASE pc' # "tools"
    BY <1>1, <1>2, <1>3, IterBound DEF JoinInv, Asking
  <1>4. CASE pc' = "tools" /\ CommitResult(c)
    BY <1>1, <1>4, CommitResultJoin
  <1>5. CASE pc' = "tools" /\ tpc'[c] # "done"
    <2>1. pc = "tools" /\ \A d \in CallIds : tpc'[d] = "done" <=> tpc[d] = "done"
      BY <1>1, <1>2, <1>5
    <2>2. CASE journal' = journal
      BY <1>1, <1>5, <2>1, <2>2 DEF JoinInv, Joined, Asking, TurnInv, Types
    <2>3. CASE journal' # journal
      <3>1. /\ jq # <<>> /\ jq[1].who = c /\ journal' = Append(journal, jq[1].entry)
            /\ jq[1].entry.kind \in ToolKinds
        BY <1>1, <2>3, HeadOf
      <3>2. jq[1].entry.kind # "tool_result"
        BY <1>5, <2>1, <2>3 DEF ToolStep, StartTool, RefuseOutcome, CommitToolCall,
           CommitPermission, Execute, CommitResult, RejectToolCall, RejectTool, Ask, Committed,
           Rejected, AtHead, TurnInv, Types
      <3> QED
        BY <1>1, <1>5, <2>1, <3>1, <3>2, PlainJoin DEF ToolKinds, Asking
    <2> QED
      BY <2>2, <2>3
  <1> QED
    BY <1>2, <1>3, <1>4, <1>5

LEMMA NextJoinInv == TurnInv /\ EndInv /\ JoinInv /\ [Next]_vars => JoinInv'
  <1> SUFFICES ASSUME TurnInv, EndInv, JoinInv, [Next]_vars PROVE JoinInv'
    OBVIOUS
  <1>1. CASE TurnStep
    BY <1>1, QuietJoin, CommitJoin, LastStepsJoin, AssistantMessageJoin, LoopBackJoin DEF TurnStep
  <1>2. CASE UNCHANGED vars
    BY <1>2 DEF vars, turnVars, toolVars, logVars, JoinInv, Joined
  <1> QED
    BY <1>1, <1>2, StartTurnJoin, ToolJoin, QuietJoin, LastStepsJoin DEF Next

\* What the journal grows by, in any step, is the entry at the head of the queue.
LEMMA JournalGrows ==
  ASSUME TurnInv, [Next]_vars
  PROVE  journal' = journal \/ (jq # <<>> /\ journal' = Append(journal, jq[1].entry))
  <1>1. CASE TurnStep
    BY <1>1 DEF TurnStep, CommitUserMessage, BuildContext, CommitPrompt, OpenStream, StreamStops,
       StreamAborts, StreamFails, RefuseResponse, CommitAssistantMessage, CommitError,
       RefusePartial, CommitPartial, CommitTurnEnd, RejectTurn, LoopBack, Return, Fail, Ask, Committed, Rejected, AtHead, logVars
  <1>2. ASSUME NEW c \in CallIds, ToolStep(c)
        PROVE  journal' = journal \/ (jq # <<>> /\ journal' = Append(journal, jq[1].entry))
    BY <1>2 DEF ToolStep, StartTool, RefuseOutcome, CommitToolCall, CommitPermission, Execute,
       CommitResult, RejectToolCall, RejectTool, Ask, Committed, Rejected, AtHead, logVars
  <1>3. CASE StartTurn \/ CloseWriter \/ Interrupt \/ Die \/ UNCHANGED vars
    BY <1>3 DEF StartTurn, CloseWriter, Interrupt, Die, vars, logVars
  <1> QED
    BY <1>1, <1>2, <1>3 DEF Next

\* ResultsBeforeInference of any journal j.
OneBetween(j, i, k, c) ==
  Cardinality({r \in i .. k : Is(j[r], "tool_result", j[i].turn, j[i].iter, c)}) = 1

AllBetween(j) ==
  \A i, k \in DOMAIN j :
    i < k /\ j[i].kind = "assistant_message" /\ j[k].kind = "prompt" /\ j[i].turn = j[k].turn
      => \A c \in j[i].calls : OneBetween(j, i, k, c)

LEMMA BetweenIsBefore == ResultsBeforeInference <=> AllBetween(journal)
  <1>1. ASSUME NEW i, NEW k, NEW c
        PROVE  {r \in i .. k : At(r, "tool_result", journal[i].turn, journal[i].iter, c)} =
               {r \in i .. k : Is(journal[r], "tool_result", journal[i].turn, journal[i].iter, c)}
    BY DEF At, Is
  <1>2. ASSUME ResultsBeforeInference PROVE AllBetween(journal)
    <2>1. SUFFICES ASSUME NEW i \in DOMAIN journal, NEW k \in DOMAIN journal, i < k,
                          journal[i].kind = "assistant_message", journal[k].kind = "prompt",
                          journal[i].turn = journal[k].turn, NEW c \in journal[i].calls
                   PROVE  OneBetween(journal, i, k, c)
      BY DEF AllBetween
    <2>2. Cardinality({r \in i .. k :
            At(r, "tool_result", journal[i].turn, journal[i].iter, c)}) = 1
      BY <1>2, <2>1 DEF ResultsBeforeInference
    <2> QED
      BY <1>1, <2>2 DEF OneBetween
  <1>3. ASSUME AllBetween(journal) PROVE ResultsBeforeInference
    <2>1. SUFFICES ASSUME NEW i \in DOMAIN journal, NEW k \in DOMAIN journal, i < k,
                          journal[i].kind = "assistant_message", journal[k].kind = "prompt",
                          journal[i].turn = journal[k].turn, NEW c \in journal[i].calls
                   PROVE  Cardinality({r \in i .. k :
                            At(r, "tool_result", journal[i].turn, journal[i].iter, c)}) = 1
      BY DEF ResultsBeforeInference
    <2>2. OneBetween(journal, i, k, c)
      BY <1>3, <2>1 DEF AllBetween
    <2> QED
      BY <1>1, <2>2 DEF OneBetween
  <1> QED
    BY <1>2, <1>3

LEMMA JoinKeepsResults ==
  ASSUME TurnInv, JoinInv, AllBetween(journal),
         journal' = journal \/ (jq # <<>> /\ journal' = Append(journal, jq[1].entry))
  PROVE  AllBetween(journal')
  <1>1. CASE journal' = journal
    BY <1>1
  <1>2. CASE jq # <<>> /\ journal' = Append(journal, jq[1].entry)
    <2> DEFINE x == jq[1].entry
    <2>1. /\ x \in EntryType /\ journal \in Seq(EntryType) /\ x.turn = turn
          /\ x.kind = "prompt" => pc = "prompt"
      BY <1>2, HeadOf DEF TurnInv, Types
    <2>2. /\ DOMAIN journal = 1 .. Len(journal) /\ DOMAIN journal' = 1 .. Len(journal) + 1
          /\ \A i \in DOMAIN journal : journal'[i] = journal[i]
          /\ journal'[Len(journal) + 1] = x /\ Len(journal) \in Nat
      BY <1>2, <2>1, Grown
    <2> HIDE DEF x
    <2>3. SUFFICES ASSUME NEW i \in DOMAIN journal', NEW k \in DOMAIN journal', i < k,
                          journal'[i].kind = "assistant_message", journal'[k].kind = "prompt",
                          journal'[i].turn = journal'[k].turn, NEW c \in journal'[i].calls
                   PROVE  OneBetween(journal', i, k, c)
      BY DEF AllBetween
    <2>4. i \in DOMAIN journal /\ journal'[i] = journal[i]
      BY <2>2, <2>3
    <2>5. CASE k \in DOMAIN journal
      <3>1. \A r \in i .. k : journal'[r] = journal[r]
        BY <2>2, <2>4, <2>5
      <3>2. {r \in i .. k : Is(journal'[r], "tool_result", journal'[i].turn, journal'[i].iter, c)}
            = {r \in i .. k : Is(journal[r], "tool_result", journal[i].turn, journal[i].iter, c)}
        BY <2>4, <3>1 DEF Is
      <3>3. OneBetween(journal, i, k, c)
        BY <2>2, <2>3, <2>4, <2>5 DEF AllBetween
      <3> QED
        BY <3>2, <3>3 DEF OneBetween
    <2>6. CASE k = Len(journal) + 1
      <3>1. journal[i].turn = turn /\ pc = "prompt"
        BY <2>1, <2>2, <2>3, <2>4, <2>6
      <3>2. Once(journal, i, c)
        BY <2>3, <2>4, <3>1 DEF JoinInv, Joined, Asking
      <3>3. PICK r \in DOMAIN journal :
              i < r /\ Answers(journal, journal[i].turn, journal[i].iter, c) = {r}
        BY <3>2 DEF Once
      <3>4. {s \in i .. k : Is(journal'[s], "tool_result", journal'[i].turn, journal'[i].iter, c)}
            = {r}
        <4>1. \A s \in i .. k : s # k => s \in DOMAIN journal /\ journal'[s] = journal[s]
          BY <2>2, <2>4, <2>6
        <4>2. r \in i .. k /\ r # k
          BY <2>2, <2>4, <2>6, <3>3
        <4>3. ~ Is(journal'[k], "tool_result", journal'[i].turn, journal'[i].iter, c)
          BY <2>3 DEF Is
        <4>4. \A s \in DOMAIN journal :
                Is(journal[s], "tool_result", journal[i].turn, journal[i].iter, c) <=> s = r
          BY <3>3 DEF Answers
        <4> QED
          BY <2>4, <4>1, <4>2, <4>3, <4>4
      <3> QED
        BY <3>4, FS_Singleton DEF OneBetween
    <2> QED
      BY <2>2, <2>5, <2>6
  <1> QED
    BY <1>1, <1>2

\* However the calls of a response interleave, fail or are refused, each has exactly one
\* result in the journal before the model is asked again.
THEOREM ResultsComeFirst == Spec => []ResultsBeforeInference
  <1>1. Init => EndInv /\ JoinInv /\ AllBetween(journal)
    <2>1. Init => DOMAIN journal = {} /\ Pending(journal) = {}
      BY DEF Init, Pending
    <2>2. Init => EndInv
      BY <2>1 DEF Init, EndInv, PendingInv, ErrorInv, Tells
    <2>3. Init => JoinInv /\ AllBetween(journal)
      BY <2>1 DEF Init, JoinInv, Asking, AllBetween
    <2> QED
      BY <2>2, <2>3
  <1>2. TurnInv /\ JoinInv /\ AllBetween(journal) /\ [Next]_vars => AllBetween(journal)'
    BY JournalGrows, JoinKeepsResults
  <1> QED
    BY <1>1, <1>2, NextEndInv, NextJoinInv, BetweenIsBefore, TurnInvariant, PTL DEF Spec

-----------------------------------------------------------------------------
(* What materialize makes of one more entry *)

\* A set of naturals has a least element: what holds at no least counterexample holds.
LEMMA Least == \A T \in SUBSET Nat : T # {} => \E x \in T : \A y \in T : x <= y
  <1> SUFFICES ASSUME NEW T \in SUBSET Nat, T # {} PROVE \E x \in T : \A y \in T : x <= y
    OBVIOUS
  <1> DEFINE R == OpToRel(<,Nat)
  <1>1. R = {ss \in Nat \X Nat : ss[1] < ss[2]}
    BY DEF OpToRel
  <1>2. IsWellFoundedOn(R, Nat)
    BY NatLessThanWellFounded, Zenon
  <1> HIDE DEF R
  <1>3. PICK x \in T : \A y \in T : ~ (<<y, x>> \in R)
    BY <1>2, WFMin
  <1>4. \A y \in T : ~(y < x)
    BY <1>1, <1>3
  <1> QED
    BY <1>4

\* What Kept's recursion does with the first entries of j, up to the n-th.
KeepStep(j, kinds, n, s) == IF j[n].kind \in kinds THEN Append(s, j[n]) ELSE s
Keeps(f, j, kinds, m) ==
  f = [n \in 0 .. m |-> IF n = 0 THEN <<>> ELSE KeepStep(j, kinds, n, f[n - 1])]

LEMMA KeepsExists == \A j, kinds : \A m \in Nat : \E f : Keeps(f, j, kinds, m)
  <1> SUFFICES ASSUME NEW j, NEW kinds, NEW m \in Nat,
                      \A f : ~ Keeps(f, j, kinds, m)
               PROVE  FALSE
    OBVIOUS
  <1> DEFINE T == {n \in Nat : \A f : ~ Keeps(f, j, kinds, n)}
  <1>1. PICK n \in T : \A k \in T : n <= k
    BY Least
  <1>2. n # 0
    <2>1. Keeps([k \in 0 .. 0 |-> <<>>], j, kinds, 0)
      BY DEF Keeps
    <2> QED
      BY <1>1, <2>1
  <1>3. PICK f : Keeps(f, j, kinds, n - 1)
    <2>1. n - 1 \in Nat /\ n - 1 < n
      BY <1>1, <1>2
    <2> QED
      BY <1>1, <2>1
  <1> DEFINE g == [k \in 0 .. n |-> IF k = n THEN KeepStep(j, kinds, n, f[n - 1]) ELSE f[k]]
  <1>4. Keeps(g, j, kinds, n)
    <2>1. f = [k \in 0 .. n - 1 |-> IF k = 0 THEN <<>> ELSE KeepStep(j, kinds, k, f[k - 1])]
      BY <1>3 DEF Keeps
    <2>2. ASSUME NEW k \in 0 .. n
          PROVE  g[k] = IF k = 0 THEN <<>> ELSE KeepStep(j, kinds, k, g[k - 1])
      <3>1. CASE k = n
        BY <1>1, <1>2, <3>1
      <3>2. CASE k # n
        <4>1. k \in 0 .. n - 1 /\ g[k] = f[k] /\ n \in Nat
          BY <1>1, <3>2
        <4>2. f[k] = IF k = 0 THEN <<>> ELSE KeepStep(j, kinds, k, f[k - 1])
          BY <2>1, <4>1
        <4>3. k # 0 => k - 1 \in 0 .. n /\ k - 1 # n
          BY <4>1
        <4>4. k # 0 => g[k - 1] = f[k - 1]
          BY <4>3
        <4> QED
          BY <4>1, <4>2, <4>4
      <3> QED
        BY <3>1, <3>2
    <2> QED
      BY <2>2 DEF Keeps
  <1> QED
    BY <1>1, <1>4

LEMMA KeptKeeps ==
  \A kinds : \A j \in Seq(EntryType) :
    \E f : Keeps(f, j, kinds, Len(j)) /\ Kept(j, kinds) = f[Len(j)]
  <1> SUFFICES ASSUME NEW j \in Seq(EntryType), NEW kinds
               PROVE  \E f : Keeps(f, j, kinds, Len(j)) /\ Kept(j, kinds) = f[Len(j)]
    OBVIOUS
  <1> DEFINE F == CHOOSE f : Keeps(f, j, kinds, Len(j))
  <1>1. Keeps(F, j, kinds, Len(j))
    BY KeepsExists, LenProperties
  <1>2. Kept(j, kinds) = F[Len(j)]
    BY DEF Kept, Keeps, KeepStep
  <1> HIDE DEF F
  <1> QED
    BY <1>1, <1>2

\* One more entry is kept at the end, or not at all.
LEMMA KeptAppend ==
  \A kinds : \A j \in Seq(EntryType), x \in EntryType :
    Kept(Append(j, x), kinds) =
      IF x.kind \in kinds THEN Append(Kept(j, kinds), x) ELSE Kept(j, kinds)
  <1> SUFFICES ASSUME NEW j \in Seq(EntryType), NEW x \in EntryType, NEW kinds
               PROVE  Kept(Append(j, x), kinds) =
                        IF x.kind \in kinds THEN Append(Kept(j, kinds), x) ELSE Kept(j, kinds)
    OBVIOUS
  <1>1. PICK r \in Seq(EntryType) : r = Append(j, x)
    BY Grown
  <1>2. /\ Len(r) = Len(j) + 1 /\ Len(j) \in Nat /\ r[Len(r)] = x
        /\ \A i \in 1 .. Len(j) : r[i] = j[i]
    BY <1>1, Grown
  <1>3. PICK f : Keeps(f, j, kinds, Len(j)) /\ Kept(j, kinds) = f[Len(j)]
    BY KeptKeeps
  <1>4. PICK g : Keeps(g, r, kinds, Len(r)) /\ Kept(r, kinds) = g[Len(r)]
    BY KeptKeeps
  <1> DEFINE T == {n \in 0 .. Len(j) : f[n] # g[n]}
  <1>5. T = {}
    <2>1. SUFFICES ASSUME T # {} PROVE FALSE
      OBVIOUS
    <2>2. PICK n \in T : \A k \in T : n <= k
      <3>1. T \in SUBSET Nat
        BY <1>2
      <3> QED
        BY <2>1, <3>1, Least
    <2>3. /\ \A k \in 0 .. Len(j) : f[k] = IF k = 0 THEN <<>> ELSE KeepStep(j, kinds, k, f[k - 1])
          /\ \A k \in 0 .. Len(j) : g[k] = IF k = 0 THEN <<>> ELSE KeepStep(r, kinds, k, g[k - 1])
      <3>1. \A k \in 0 .. Len(j) : f[k] = IF k = 0 THEN <<>> ELSE KeepStep(j, kinds, k, f[k - 1])
        BY <1>3 DEF Keeps
      <3>2. \A k \in 0 .. Len(r) : g[k] = IF k = 0 THEN <<>> ELSE KeepStep(r, kinds, k, g[k - 1])
        BY <1>4 DEF Keeps
      <3> QED
        BY <1>2, <3>1, <3>2
    <2>4. n \in 0 .. Len(j) /\ n # 0 /\ f[n] # g[n]
      BY <2>2, <2>3
    <2>5. f[n - 1] = g[n - 1]
      <3>1. n - 1 \in 0 .. Len(j) /\ n - 1 < n
        BY <1>2, <2>4
      <3> QED
        BY <2>2, <3>1
    <2>6. r[n] = j[n]
      BY <1>2, <2>4
    <2> QED
      BY <2>3, <2>4, <2>5, <2>6 DEF KeepStep
  <1>6. g[Len(r)] = KeepStep(r, kinds, Len(r), g[Len(j)])
    BY <1>2, <1>4 DEF Keeps
  <1> QED
    BY <1>1, <1>2, <1>3, <1>4, <1>5, <1>6 DEF KeepStep

LEMMA KeptTyped == \A kinds : \A j \in Seq(EntryType) : Kept(j, kinds) \in Seq(EntryType)
  <1> SUFFICES ASSUME NEW j \in Seq(EntryType), NEW kinds
               PROVE  Kept(j, kinds) \in Seq(EntryType)
    OBVIOUS
  <1>1. PICK f : Keeps(f, j, kinds, Len(j)) /\ Kept(j, kinds) = f[Len(j)]
    BY KeptKeeps
  <1>2. Len(j) \in Nat /\ \A n \in 1 .. Len(j) : j[n] \in EntryType
    BY LenProperties, ElementOfSeq
  <1> DEFINE T == {n \in 0 .. Len(j) : f[n] \notin Seq(EntryType)}
  <1>3. \A n \in 0 .. Len(j) : f[n] = IF n = 0 THEN <<>> ELSE KeepStep(j, kinds, n, f[n - 1])
    BY <1>1 DEF Keeps
  <1>4. T = {}
    <2>1. SUFFICES ASSUME T # {} PROVE FALSE
      OBVIOUS
    <2>2. PICK n \in T : \A k \in T : n <= k
      <3>1. T \in SUBSET Nat
        BY <1>2
      <3> QED
        BY <2>1, <3>1, Least
    <2>3. n \in 0 .. Len(j) /\ n # 0
      <3>1. <<>> \in Seq(EntryType)
        BY EmptySeq
      <3> QED
        BY <1>2, <1>3, <2>2, <3>1
    <2>4. f[n - 1] \in Seq(EntryType)
      <3>1. n - 1 \in 0 .. Len(j) /\ n - 1 < n
        BY <1>2, <2>3
      <3> QED
        BY <2>2, <3>1
    <2>5. j[n] \in EntryType
      BY <1>2, <2>3
    <2>6. f[n] \in Seq(EntryType)
      <3>1. f[n] = KeepStep(j, kinds, n, f[n - 1])
        BY <1>3, <2>3
      <3> QED
        BY <2>4, <2>5, <3>1, AppendProperties DEF KeepStep
    <2> QED
      BY <2>2, <2>6
  <1> QED
    BY <1>1, <1>2, <1>4

LEMMA PendingAppend ==
  ASSUME NEW j \in Seq(EntryType), NEW x \in EntryType,
         x.kind = "tool_call" => x.call \in CallIds
  PROVE  /\ x.kind = "tool_call" => Pending(Append(j, x)) = Pending(j) \cup {x.call}
         /\ x.kind = "tool_result" => Pending(Append(j, x)) = Pending(j) \ {x.call}
         /\ x.kind \notin {"tool_call", "tool_result"} => Pending(Append(j, x)) = Pending(j)
  <1>1. \A c \in Pending(j) \cup Pending(Append(j, x)) : c \in CallIds
    BY DEF Pending
  <1>2. \A c \in CallIds : ~(x.kind = "tool_result" /\ x.call = c) /\ c \in Pending(j) =>
                            c \in Pending(Append(j, x))
    BY GrownKeeps
  <1>3. \A c \in Pending(Append(j, x)) :
          /\ ~(x.kind = "tool_result" /\ x.call = c)
          /\ c \in Pending(j) \/ (x.kind = "tool_call" /\ x.call = c)
    BY GrownTells
  <1>4. x.kind = "tool_call" => x.call \in Pending(Append(j, x))
    <2> SUFFICES ASSUME x.kind = "tool_call" PROVE x.call \in Pending(Append(j, x))
      OBVIOUS
    <2>1. PICK r \in Seq(EntryType) : r = Append(j, x)
      BY Grown
    <2>2. Len(r) \in DOMAIN r /\ r[Len(r)] = x /\ Len(r) \in Nat
      BY <2>1, Grown
    <2>3. \A k \in Len(r) .. Len(r) : ~(r[k].kind = "tool_result" /\ r[k].call = x.call)
      BY <2>2
    <2> QED
      BY <2>1, <2>2, <2>3 DEF Pending
  <1> QED
    BY <1>1, <1>2, <1>3, <1>4

LEMMA MaterializedAppend ==
  ASSUME NEW j \in Seq(EntryType), NEW x \in EntryType,
         x.kind = "tool_call" => x.call \in CallIds
  PROVE  Materialized(Append(j, x)) = With(Materialized(j), x)
  <1> DEFINE said == {"user_message", "assistant_message"}
             r == Append(j, x)
  <1>1. /\ Kept(r, said) = IF x.kind \in said THEN Append(Kept(j, said), x) ELSE Kept(j, said)
        /\ Kept(r, {"tool_call"}) =
             IF x.kind \in {"tool_call"} THEN Append(Kept(j, {"tool_call"}), x)
             ELSE Kept(j, {"tool_call"})
        /\ Kept(r, {"tool_result"}) =
             IF x.kind \in {"tool_result"} THEN Append(Kept(j, {"tool_result"}), x)
             ELSE Kept(j, {"tool_result"})
    BY KeptAppend
  <1>2. /\ x.kind = "tool_call" => Pending(r) = Pending(j) \cup {x.call}
        /\ x.kind = "tool_result" => Pending(r) = Pending(j) \ {x.call}
        /\ x.kind \notin {"tool_call", "tool_result"} => Pending(r) = Pending(j)
    BY PendingAppend
  <1> HIDE DEF r
  <1> DEFINE v == Materialized(j)
  <1>3. CASE x.kind \in said
    <2>1. /\ Kept(r, said) = Append(Kept(j, said), x) /\ Pending(r) = Pending(j)
          /\ Kept(r, {"tool_call"}) = Kept(j, {"tool_call"})
          /\ Kept(r, {"tool_result"}) = Kept(j, {"tool_result"})
      BY <1>1, <1>2, <1>3
    <2>2. With(v, x) = [v EXCEPT !.conversation = Append(@, x)]
      BY <1>3, Zenon DEF With
    <2> QED
      BY <2>1, <2>2 DEF Materialized, r
  <1>4. CASE x.kind = "tool_call"
    <2>1. /\ Kept(r, {"tool_call"}) = Append(Kept(j, {"tool_call"}), x)
          /\ Pending(r) = Pending(j) \cup {x.call}
          /\ Kept(r, said) = Kept(j, said)
          /\ Kept(r, {"tool_result"}) = Kept(j, {"tool_result"})
      BY <1>1, <1>2, <1>4
    <2>2. With(v, x) = [v EXCEPT !.toolCalls = Append(@, x), !.pending = @ \cup {x.call}]
      BY <1>4 DEF With
    <2> QED
      BY <2>1, <2>2 DEF Materialized, r
  <1>5. CASE x.kind = "tool_result"
    <2>1. /\ Kept(r, {"tool_result"}) = Append(Kept(j, {"tool_result"}), x)
          /\ Pending(r) = Pending(j) \ {x.call}
          /\ Kept(r, said) = Kept(j, said)
          /\ Kept(r, {"tool_call"}) = Kept(j, {"tool_call"})
      BY <1>1, <1>2, <1>5
    <2>2. With(v, x) = [v EXCEPT !.toolResults = Append(@, x), !.pending = @ \ {x.call}]
      BY <1>5 DEF With
    <2> QED
      BY <2>1, <2>2 DEF Materialized, r
  <1>6. CASE x.kind \notin said \cup {"tool_call", "tool_result"}
    <2>1. /\ Kept(r, said) = Kept(j, said) /\ Pending(r) = Pending(j)
          /\ Kept(r, {"tool_call"}) = Kept(j, {"tool_call"})
          /\ Kept(r, {"tool_result"}) = Kept(j, {"tool_result"})
      BY <1>1, <1>2, <1>6
    <2>2. With(v, x) = v
      BY <1>6 DEF With
    <2> QED
      BY <2>1, <2>2 DEF Materialized, r
  <1> QED
    BY <1>3, <1>4, <1>5, <1>6 DEF r

LEMMA MaterializedTyped == \A j \in Seq(EntryType) : Materialized(j) \in ViewType
  BY KeptTyped DEF Materialized, ViewType, Pending

LEMMA WithTyped ==
  ASSUME NEW v \in ViewType, NEW x \in EntryType, x.kind = "tool_call" => x.call \in CallIds
  PROVE  With(v, x) \in ViewType
  <1>1. \A s \in Seq(EntryType) : Append(s, x) \in Seq(EntryType)
    BY AppendProperties
  <1> QED
    BY <1>1 DEF With, ViewType

-----------------------------------------------------------------------------
(* The view a prompt is built from *)

\* A failed journal ends the turn: at once, or through a call that is not settled.
BrokenInv ==
  /\ pc \notin {"tools", "thrown", "dead"} => ~broken
  /\ pc = "tools" /\ broken => \E c \in calls : tpc[c] # "done"

\* The view is kept up wherever a prompt may still be built from it.
ViewInv ==
  pc \in Asking \cup {"idle", "tools"} /\ ~broken => view = Materialized(journal)

MirrorInv == BrokenInv /\ ViewInv

LEMMA HeadCalls ==
  ASSUME TurnInv, jq # <<>>, jq[1].entry.kind = "tool_call"
  PROVE  jq[1].entry.call \in CallIds
  <1>1. 1 \in DOMAIN jq
    BY EmptySeq, LenProperties DEF TurnInv, Types
  <1>2. Awaited(jq[1])
    BY <1>1 DEF TurnInv, QueueInv
  <1> QED
    BY <1>2 DEF Awaited, TurnAwaits, ToolAwaits, ToolKinds, TurnInv, Types

\* The first append of the queue, seen by a reader and by the turn.
LEMMA HeadMirrored ==
  ASSUME TurnInv, jq # <<>>, journal' = Append(journal, jq[1].entry)
  PROVE  Materialized(journal') = With(Materialized(journal), jq[1].entry)
  <1>1. jq[1].entry \in EntryType /\ journal \in Seq(EntryType)
    BY HeadOf DEF TurnInv, Types
  <1>2. jq[1].entry.kind = "tool_call" => jq[1].entry.call \in CallIds
    BY HeadCalls
  <1> QED
    BY <1>1, <1>2, MaterializedAppend

LEMMA TurnStepMirrors ==
  ASSUME TurnInv, MirrorInv, StartTurn \/ TurnStep PROVE MirrorInv'
  <1>1. CASE StartTurn
    BY <1>1 DEF StartTurn, MirrorInv, BrokenInv, ViewInv, Asking
  <1>2. CASE CommitUserMessage \/ CommitAssistantMessage
    <2>1. /\ jq # <<>> /\ journal' = Append(journal, jq[1].entry) /\ broken' = broken
          /\ view' = With(view, jq[1].entry) /\ ~ broken
          /\ pc \in Asking /\ pc' \notin {"thrown", "dead"}
      BY <1>2 DEF CommitUserMessage, CommitAssistantMessage, Committed, AtHead, Accepts, Asking
    <2>2. view' = Materialized(journal')
      BY <2>1, HeadMirrored DEF MirrorInv, ViewInv
    <2> QED
      BY <2>1, <2>2 DEF MirrorInv, BrokenInv, ViewInv
  <1>3. CASE CommitPrompt
    <2>1. /\ jq # <<>> /\ journal' = Append(journal, jq[1].entry) /\ broken' = broken
          /\ jq[1].entry.kind = "prompt" /\ view' = view /\ ~ broken
          /\ pc \in Asking /\ pc' = "connect"
      BY <1>3 DEF CommitPrompt, Committed, AtHead, Accepts, Asking
    <2>2. view' = Materialized(journal')
      <3>1. With(view, jq[1].entry) = view
        BY <2>1 DEF With
      <3> QED
        BY <2>1, <3>1, HeadMirrored DEF MirrorInv, ViewInv
    <2> QED
      BY <2>1, <2>2 DEF MirrorInv, BrokenInv, ViewInv
  <1>4. CASE BuildContext \/ OpenStream \/ StreamStops \/ StreamAborts \/ StreamFails
    <2>1. /\ UNCHANGED <<view, journal, broken>> /\ pc \in Asking
          /\ pc' \notin {"tools", "thrown", "dead"}
      BY <1>4 DEF BuildContext, OpenStream, StreamStops, StreamAborts, StreamFails, Fail, Ask,
         logVars, Asking
    <2> QED
      BY <2>1 DEF MirrorInv, BrokenInv, ViewInv, Asking
  <1>5. CASE \/ CommitError \/ CommitPartial \/ CommitTurnEnd \/ RejectTurn
             \/ RefuseResponse \/ RefusePartial
    <2>1. /\ pc \notin {"tools", "thrown", "dead"} /\ pc' \notin Asking \cup {"idle", "tools"}
          /\ pc' \in {"thrown", "dead"} \/ broken' = broken
      BY <1>5 DEF CommitError, CommitPartial, CommitTurnEnd, RejectTurn, RefuseResponse,
         RefusePartial, Committed, Asking
    <2> QED
      BY <2>1 DEF MirrorInv, BrokenInv, ViewInv
  <1>6. CASE LoopBack
    BY <1>6 DEF LoopBack, AllSettled, logVars, MirrorInv, BrokenInv, ViewInv, Asking
  <1>7. CASE Return
    BY <1>7 DEF Return, logVars, MirrorInv, BrokenInv, ViewInv, Asking
  <1> QED
    BY <1>1, <1>2, <1>3, <1>4, <1>5, <1>6, <1>7 DEF TurnStep

LEMMA ToolMirrors ==
  ASSUME TurnInv, MirrorInv, NEW c \in CallIds, ToolStep(c) PROVE MirrorInv'
  <1>1. /\ pc \in {"tools", "thrown"} /\ c \in calls /\ calls' = calls
        /\ pc' = pc \/ (pc = "tools" /\ pc' = "thrown")
    <2>1. tpc[c] \notin {"none", "done"}
      BY DEF ToolStep, StartTool, RefuseOutcome, CommitToolCall, CommitPermission, Execute,
             CommitResult, RejectToolCall, RejectTool
    <2>2. calls' = calls /\ (pc' = pc \/ (pc = "tools" /\ pc' = "thrown"))
      BY DEF ToolStep, StartTool, RefuseOutcome, CommitToolCall, CommitPermission, Execute,
             CommitResult, RejectToolCall, RejectTool, turnVars
    <2> QED
      BY <2>1, <2>2 DEF TurnInv, ToolsInv
  <1>2. CASE pc' = "thrown"
    BY <1>2 DEF MirrorInv, BrokenInv, ViewInv, Asking
  <1>3. CASE pc = "tools" /\ pc' = "tools"
    <2>1. tpc \in [CallIds -> {"none", "start", "recording", "authorizing", "executing",
                               "resulting", "done", "thrown"}]
      BY DEF TurnInv, Types
    <2>2. CASE CommitToolCall(c) \/ CommitResult(c)
      <3>1. /\ jq # <<>> /\ journal' = Append(journal, jq[1].entry) /\ broken' = broken
            /\ view' = With(view, jq[1].entry) /\ ~ broken
        BY <2>2 DEF CommitToolCall, CommitResult, Committed, AtHead, Accepts
      <3>2. view' = Materialized(journal')
        BY <1>3, <3>1, HeadMirrored DEF MirrorInv, ViewInv
      <3> QED
        BY <1>3, <3>1, <3>2 DEF MirrorInv, BrokenInv, ViewInv
    <2>3. CASE CommitPermission(c)
      <3>1. /\ jq # <<>> /\ journal' = Append(journal, jq[1].entry) /\ broken' = broken
            /\ jq[1].entry.kind = "permission" /\ view' = view /\ ~ broken
        BY <2>3 DEF CommitPermission, Committed, AtHead, Accepts
      <3>2. view' = Materialized(journal')
        <4>1. With(view, jq[1].entry) = view
          BY <3>1 DEF With
        <4> QED
          BY <1>3, <3>1, <4>1, HeadMirrored DEF MirrorInv, ViewInv
      <3> QED
        BY <1>3, <3>1, <3>2 DEF MirrorInv, BrokenInv, ViewInv
    <2>4. CASE StartTool(c) \/ Execute(c) \/ RejectToolCall(c)
      <3>1. tpc'[c] # "done"
        BY <2>1, <2>4 DEF StartTool, Execute, RejectToolCall
      <3>2. view' = view
        BY <2>4 DEF StartTool, Execute, RejectToolCall
      <3>3. ~ broken' => ~ broken /\ journal' = journal
        <4>1. CASE StartTool(c) \/ Execute(c)
          BY <4>1 DEF StartTool, Execute, Ask
        <4>2. CASE RejectToolCall(c)
          BY <4>2 DEF RejectToolCall, Rejected
        <4> QED
          BY <2>4, <4>1, <4>2
      <3> QED
        BY <1>1, <1>3, <3>1, <3>2, <3>3 DEF MirrorInv, BrokenInv, ViewInv
    <2>5. ~ RejectTool(c) /\ ~ RefuseOutcome(c)
      BY <1>3 DEF RejectTool, RefuseOutcome
    <2> QED
      BY <2>2, <2>3, <2>4, <2>5 DEF ToolStep
  <1> QED
    BY <1>1, <1>2, <1>3

LEMMA NextMirrorInv == TurnInv /\ MirrorInv /\ [Next]_vars => MirrorInv'
  <1> SUFFICES ASSUME TurnInv, MirrorInv, [Next]_vars PROVE MirrorInv'
    OBVIOUS
  <1>1. CASE CloseWriter \/ Interrupt \/ UNCHANGED vars
    BY <1>1 DEF CloseWriter, Interrupt, vars, turnVars, toolVars, logVars, MirrorInv, BrokenInv,
       ViewInv
  <1>2. CASE Die
    BY <1>2 DEF Die, MirrorInv, BrokenInv, ViewInv, Asking
  <1> QED
    BY <1>1, <1>2, TurnStepMirrors, ToolMirrors DEF Next

\* Whatever the concurrent calls of a response add to the view, and in whatever order
\* they settle, the next prompt is built from what a reader of the journal would get.
THEOREM ViewsMirrorTheJournal == Spec => []ViewMirrorsJournal
  <1>1. Init => MirrorInv
    BY DEF Init, MirrorInv, BrokenInv, ViewInv
  <1>2. MirrorInv => ViewMirrorsJournal
    BY DEF MirrorInv, BrokenInv, ViewInv, ViewMirrorsJournal, Asking
  <1> QED
    BY <1>1, <1>2, NextMirrorInv, TurnInvariant, PTL DEF Spec

-----------------------------------------------------------------------------
(* The counters and the types *)

Shapes ==
  /\ pc \in {"idle", "user", "build", "prompt", "connect", "stream", "assistant",
             "tools", "error", "partial", "end", "ended", "exited", "thrown",
             "dead"}
  /\ phase \in Phases
  /\ ending \in {"none", "completed", "failed", "limited", "interrupted"}
  /\ pc \in {"error", "partial", "end", "ended"} => ending # "none"
  /\ partial \in BOOLEAN /\ aborted \in BOOLEAN
  /\ view \in ViewType

LEMMA HeadWith ==
  ASSUME TurnInv, Shapes, jq # <<>> PROVE With(view, jq[1].entry) \in ViewType
  <1>1. jq[1].entry \in EntryType
    BY HeadOf
  <1>2. jq[1].entry.kind = "tool_call" => jq[1].entry.call \in CallIds
    BY HeadCalls
  <1> QED
    BY <1>1, <1>2, WithTyped DEF Shapes

LEMMA NextShapes == TurnInv /\ Shapes /\ [Next]_vars => Shapes'
  <1> SUFFICES ASSUME TurnInv, Shapes, [Next]_vars PROVE Shapes'
    OBVIOUS
  <1>1. view' \in ViewType
    <2>1. \/ view' = view \/ view' = Materialized(journal)
          \/ jq # <<>> /\ view' = With(view, jq[1].entry)
      <3>1. CASE TurnStep
        BY <3>1 DEF TurnStep, CommitUserMessage, BuildContext, CommitPrompt, OpenStream,
           StreamStops, StreamAborts, StreamFails, RefuseResponse, CommitAssistantMessage,
           CommitError, RefusePartial, CommitPartial, CommitTurnEnd, RejectTurn, LoopBack, Return, Committed, AtHead
      <3>2. ASSUME NEW c \in CallIds, ToolStep(c)
            PROVE  view' = view \/ (jq # <<>> /\ view' = With(view, jq[1].entry))
        BY <3>2 DEF ToolStep, StartTool, RefuseOutcome, CommitToolCall, CommitPermission,
           Execute, CommitResult, RejectToolCall, RejectTool, Committed, AtHead
      <3>3. CASE StartTurn \/ CloseWriter \/ Interrupt \/ Die \/ UNCHANGED vars
        BY <3>3 DEF StartTurn, CloseWriter, Interrupt, Die, vars
      <3> QED
        BY <3>1, <3>2, <3>3 DEF Next
    <2> QED
      BY <2>1, HeadWith, MaterializedTyped DEF Shapes, TurnInv, Types
  <1>2. ASSUME NEW c \in CallIds, ToolStep(c) PROVE Shapes'
    <2>1. /\ UNCHANGED <<phase, ending, partial, aborted>>
          /\ pc' = pc \/ pc' = "thrown"
      BY <1>2 DEF ToolStep, StartTool, RefuseOutcome, CommitToolCall, CommitPermission, Execute,
         CommitResult, RejectToolCall, RejectTool, turnVars
    <2> QED
      BY <1>1, <2>1 DEF Shapes
  <1>3. CASE StartTurn \/ CloseWriter \/ Interrupt \/ Die \/ UNCHANGED vars
    <2>1. CASE StartTurn
      BY <1>1, <2>1 DEF StartTurn, Shapes, Phases
    <2>2. CASE CloseWriter \/ Interrupt \/ Die \/ UNCHANGED vars
      BY <1>1, <2>2 DEF CloseWriter, Interrupt, Die, vars, turnVars, Shapes
    <2> QED
      BY <1>3, <2>1, <2>2
  <1>4. CASE \/ CommitUserMessage \/ CommitPrompt \/ StreamStops \/ RejectTurn \/ LoopBack
             \/ RefuseResponse \/ RefusePartial
    BY <1>1, <1>4 DEF CommitUserMessage, CommitPrompt, StreamStops, RejectTurn, LoopBack,
       RefuseResponse, RefusePartial, Shapes, Phases
  <1>5. CASE BuildContext \/ StreamFails
    BY <1>1, <1>5 DEF BuildContext, StreamFails, Fail, Shapes
  <1>6. CASE OpenStream \/ StreamAborts
    BY <1>1, <1>6 DEF OpenStream, StreamAborts, Shapes, Phases
  <1>7. CASE CommitAssistantMessage
    <2>1. /\ UNCHANGED <<partial, aborted>>
          /\ \/ phase' = phase /\ pc' = "error" /\ ending' \in {"failed", "limited"}
             \/ phase' = "yield_candidate" /\ pc' = "end" /\ ending' = "completed"
             \/ phase' = "executing_tools" /\ pc' = "tools" /\ ending' = ending
      BY <1>7, Zenon DEF CommitAssistantMessage, Phase
    <2> QED
      BY <1>1, <2>1 DEF Shapes, Phases
  <1>8. CASE CommitError \/ CommitPartial \/ CommitTurnEnd \/ Return
    BY <1>1, <1>8 DEF CommitError, CommitPartial, CommitTurnEnd, Return, Shapes, Phases
  <1> QED
    BY <1>2, <1>3, <1>4, <1>5, <1>6, <1>7, <1>8 DEF Next, TurnStep

\* The responses of a turn, and those of them that cost so much.
Responses(j, t) == {i \in DOMAIN j : j[i].kind = "assistant_message" /\ j[i].turn = t}
Costing(j, t, usage) == {i \in Responses(j, t) : j[i].status = usage}

\* The budget counts what the journal holds of the turn.
Counted(j, t, n, cost) ==
  /\ Cardinality(Responses(j, t)) = n
  /\ Cardinality(Costing(j, t, "cheap")) + 2 * Cardinality(Costing(j, t, "dear")) = cost
  /\ Costing(j, t, "unknown") = {}

LEMMA ResponsesAppend ==
  ASSUME NEW j \in Seq(EntryType), NEW x \in EntryType, NEW t
  PROVE  /\ IsFiniteSet(Responses(j, t)) /\ \A i \in Responses(j, t) : i \in 1 .. Len(j)
         /\ Len(j) + 1 \notin Responses(j, t) /\ Len(j) \in Nat
         /\ Responses(Append(j, x), t) =
              IF x.kind = "assistant_message" /\ x.turn = t THEN Responses(j, t) \cup {Len(j) + 1}
              ELSE Responses(j, t)
         /\ \A usage : Costing(Append(j, x), t, usage) =
              IF x.kind = "assistant_message" /\ x.turn = t /\ x.status = usage
              THEN Costing(j, t, usage) \cup {Len(j) + 1}
              ELSE Costing(j, t, usage)
  <1> DEFINE r == Append(j, x)
  <1>1. /\ Len(r) = Len(j) + 1 /\ Len(j) \in Nat
        /\ DOMAIN j = 1 .. Len(j) /\ DOMAIN r = 1 .. Len(j) + 1
        /\ \A i \in DOMAIN j : r[i] = j[i]
        /\ r[Len(j) + 1] = x
    BY Grown
  <1> HIDE DEF r
  <1>2. DOMAIN r = DOMAIN j \cup {Len(j) + 1} /\ Len(j) + 1 \notin DOMAIN j
    BY <1>1
  <1>3. IsFiniteSet(Responses(j, t)) /\ \A i \in Responses(j, t) : i \in 1 .. Len(j)
    <2>1. Responses(j, t) \in SUBSET (1 .. Len(j))
      BY <1>1 DEF Responses
    <2>2. IsFiniteSet(1 .. Len(j))
      BY <1>1, FS_Interval
    <2> QED
      BY <2>1, <2>2, FS_Subset
  <1>4. Responses(r, t) =
          IF x.kind = "assistant_message" /\ x.turn = t THEN Responses(j, t) \cup {Len(j) + 1}
          ELSE Responses(j, t)
    BY <1>1, <1>2 DEF Responses
  <1>5. ASSUME NEW usage
        PROVE  Costing(r, t, usage) =
                 IF x.kind = "assistant_message" /\ x.turn = t /\ x.status = usage
                 THEN Costing(j, t, usage) \cup {Len(j) + 1}
                 ELSE Costing(j, t, usage)
    BY <1>1, <1>2 DEF Responses, Costing
  <1> QED
    BY <1>1, <1>2, <1>3, <1>4, <1>5 DEF r

\* A response is counted by the budget's own sum, anything else is not.
LEMMA CountedAppend ==
  ASSUME NEW j \in Seq(EntryType), NEW x \in EntryType, NEW t, NEW n \in Nat, NEW cost \in Nat,
         Counted(j, t, n, cost)
  PROVE  /\ x.kind # "assistant_message" => Counted(Append(j, x), t, n, cost)
         /\ x.kind = "assistant_message" /\ x.turn = t /\ x.status # "unknown" =>
              Counted(Append(j, x), t, n + 1, cost + CostOf(x.status))
  <1>1. PICK r : r = Append(j, x)
    OBVIOUS
  <1>2. /\ IsFiniteSet(Responses(j, t)) /\ Len(j) + 1 \notin Responses(j, t)
        /\ Responses(r, t) =
              IF x.kind = "assistant_message" /\ x.turn = t THEN Responses(j, t) \cup {Len(j) + 1}
              ELSE Responses(j, t)
        /\ \A usage : Costing(r, t, usage) =
              IF x.kind = "assistant_message" /\ x.turn = t /\ x.status = usage
              THEN Costing(j, t, usage) \cup {Len(j) + 1}
              ELSE Costing(j, t, usage)
    BY <1>1, ResponsesAppend
  <1>3. x.kind # "assistant_message" => Counted(r, t, n, cost)
    BY <1>2 DEF Counted
  <1>4. ASSUME x.kind = "assistant_message", x.turn = t, x.status # "unknown"
        PROVE  Counted(r, t, n + 1, cost + CostOf(x.status))
    <2>1. Cardinality(Responses(r, t)) = n + 1
      BY <1>2, <1>4, FS_AddElement DEF Counted
    <2>2. \A usage : /\ IsFiniteSet(Costing(j, t, usage)) /\ Len(j) + 1 \notin Costing(j, t, usage)
                     /\ Cardinality(Costing(j, t, usage)) \in Nat
      <3>1. TAKE usage
      <3>2. Costing(j, t, usage) \in SUBSET Responses(j, t)
        BY DEF Costing
      <3>3. IsFiniteSet(Costing(j, t, usage))
        BY <1>2, <3>2, FS_Subset
      <3> QED
        BY <1>2, <3>2, <3>3, FS_CardinalityType
    <2>3. \A usage : Cardinality(Costing(r, t, usage)) =
                       IF x.status = usage THEN Cardinality(Costing(j, t, usage)) + 1
                       ELSE Cardinality(Costing(j, t, usage))
      <3>1. TAKE usage
      <3>2. Costing(r, t, usage) = IF x.status = usage THEN Costing(j, t, usage) \cup {Len(j) + 1}
                                   ELSE Costing(j, t, usage)
        BY <1>2, <1>4
      <3> QED
        BY <2>2, <3>2, FS_AddElement
    <2>4. Costing(r, t, "unknown") = {}
      BY <1>2, <1>4 DEF Counted
    <2> DEFINE C(usage) == Cardinality(Costing(j, t, usage))
               D(usage) == Cardinality(Costing(r, t, usage))
    <2>5. C("cheap") \in Nat /\ C("dear") \in Nat /\ C("cheap") + 2 * C("dear") = cost
      BY <2>2 DEF Counted
    <2>6. D("cheap") + 2 * D("dear") = cost + CostOf(x.status)
      <3>1. CASE x.status = "cheap"
        <4>1. D("cheap") = C("cheap") + 1 /\ D("dear") = C("dear") /\ CostOf(x.status) = 1
          BY <2>3, <3>1 DEF CostOf
        <4> HIDE DEF C, D
        <4> QED
          BY <2>5, <4>1
      <3>2. CASE x.status = "dear"
        <4>1. D("cheap") = C("cheap") /\ D("dear") = C("dear") + 1 /\ CostOf(x.status) = 2
          BY <2>3, <3>2 DEF CostOf
        <4> HIDE DEF C, D
        <4> QED
          BY <2>5, <4>1
      <3>3. CASE x.status \notin {"cheap", "dear"}
        <4>1. D("cheap") = C("cheap") /\ D("dear") = C("dear") /\ CostOf(x.status) = 0
          BY <2>3, <3>3 DEF CostOf
        <4> HIDE DEF C, D
        <4> QED
          BY <2>5, <4>1
      <3> QED
        BY <3>1, <3>2, <3>3
    <2> QED
      BY <2>1, <2>4, <2>6 DEF Counted
  <1> QED
    BY <1>1, <1>3, <1>4

\* The caps were kept when the prompt at k was asked for.
Before(j, k) == {i \in Responses(j, j[k].turn) : i <= k}
BeforeAt(j, k, usage) == {i \in Before(j, k) : j[i].status = usage}
PromptCapped(j, k) ==
  /\ Cardinality(Before(j, k)) < MaxInferences
  /\ \/ Cardinality(BeforeAt(j, k, "cheap")) + 2 * Cardinality(BeforeAt(j, k, "dear")) < MaxCost
     \/ Before(j, k) = {}
  /\ BeforeAt(j, k, "unknown") = {}

CapsInv == \A k \in DOMAIN journal : journal[k].kind = "prompt" => PromptCapped(journal, k)

LEMMA CappedAppend ==
  ASSUME NEW j \in Seq(EntryType), NEW x \in EntryType,
         \A k \in DOMAIN j : j[k].kind = "prompt" => PromptCapped(j, k),
         x.kind = "prompt" => \E n, cost \in Nat :
           /\ Counted(j, x.turn, n, cost)
           /\ n < MaxInferences /\ (cost < MaxCost \/ n = 0)
  PROVE  \A k \in DOMAIN Append(j, x) : Append(j, x)[k].kind = "prompt" =>
           PromptCapped(Append(j, x), k)
  <1>1. PICK r : r = Append(j, x)
    OBVIOUS
  <1>2. /\ Len(r) = Len(j) + 1 /\ Len(j) \in Nat
        /\ DOMAIN j = 1 .. Len(j) /\ DOMAIN r = 1 .. Len(j) + 1
        /\ \A i \in DOMAIN j : r[i] = j[i]
        /\ r[Len(j) + 1] = x
    BY <1>1, Grown
  <1>3. ASSUME NEW k \in DOMAIN r, r[k].kind = "prompt", k # Len(j) + 1 PROVE PromptCapped(r, k)
    <2>1. k \in DOMAIN j /\ k \in 1 .. Len(j) /\ r[k] = j[k]
      BY <1>2, <1>3
    <2>2. Before(r, k) = Before(j, k)
      BY <1>2, <2>1 DEF Before, Responses
    <2>3. \A usage : BeforeAt(r, k, usage) = BeforeAt(j, k, usage)
      <3>1. \A i \in Before(j, k) : r[i] = j[i]
        BY <1>2 DEF Before, Responses
      <3> QED
        BY <2>2, <3>1 DEF BeforeAt
    <2>4. PromptCapped(j, k)
      BY <1>3, <2>1
    <2> QED
      BY <2>2, <2>3, <2>4 DEF PromptCapped
  <1>4. ASSUME x.kind = "prompt" PROVE PromptCapped(r, Len(j) + 1)
    <2>1. PICK n \in Nat, cost \in Nat :
            /\ Counted(j, x.turn, n, cost)
            /\ n < MaxInferences /\ (cost < MaxCost \/ n = 0)
      BY <1>4
    <2>2. /\ Responses(r, x.turn) = Responses(j, x.turn)
          /\ IsFiniteSet(Responses(j, x.turn))
          /\ \A i \in Responses(j, x.turn) : i \in 1 .. Len(j)
          /\ \A usage : Costing(r, x.turn, usage) = Costing(j, x.turn, usage)
      BY <1>1, <1>4, ResponsesAppend
    <2>3. Before(r, Len(j) + 1) = Responses(r, x.turn)
      <3>1. \A i \in Responses(r, x.turn) : i <= Len(j) + 1
        BY <1>2, <2>2
      <3> QED
        BY <1>2, <3>1 DEF Before
    <2>4. \A usage : BeforeAt(r, Len(j) + 1, usage) = Costing(j, x.turn, usage)
      BY <2>2, <2>3 DEF BeforeAt, Costing
    <2>5. n = 0 => Responses(j, x.turn) = {}
      BY <2>1, <2>2, FS_EmptySet DEF Counted
    <2> QED
      BY <2>1, <2>2, <2>3, <2>4, <2>5 DEF PromptCapped, Counted
  <1> QED
    BY <1>1, <1>2, <1>3, <1>4

\* The budget's counters are those of the journal, with room for what is asked next.
BudgetInv ==
  /\ pc \in Asking \cup {"tools"} =>
       /\ Counted(journal, turn, inferences, spent)
       /\ spent < MaxCost \/ inferences = 0
  /\ pc \in Asking => iter = inferences + 1
  /\ pc = "tools" => iter = inferences
  /\ pc \in {"prompt", "connect", "stream", "assistant"} => inferences < MaxInferences

AtWork == \E c \in CallIds : tpc[c] \notin {"none", "done"}

BoundsInv ==
  /\ inferences \in 0 .. MaxInferences /\ spent \in 0 .. 2 * inferences
  /\ iter \in 0 .. inferences + 1
  /\ pc \notin {"idle", "dead"} => turn >= 1
  /\ pc = "tools" \/ AtWork => iter \in 1 .. MaxInferences
  /\ effects \subseteq [turn : 1 .. turn, iter : 1 .. MaxInferences, call : CallIds]

BudgetsInv == BudgetInv /\ BoundsInv

LEMMA StartTurnBudgets ==
  ASSUME TurnInv, EndInv, BudgetsInv, StartTurn PROVE BudgetsInv'
  <1>1. /\ turn' = turn + 1 /\ iter' = 1 /\ inferences' = 0 /\ spent' = 0 /\ pc' = "user"
        /\ pc = "idle" /\ UNCHANGED <<calls, tpc, effects, journal>> /\ turn \in Nat
        /\ MaxInferences \in Nat /\ journal \in Seq(EntryType)
    BY ConstantsAssumption DEF StartTurn, toolVars, TurnInv, Types
  <1>2. \A i \in DOMAIN journal : journal[i].turn # turn + 1
    <2>1. TAKE i \in DOMAIN journal
    <2>2. i \in 1 .. Len(journal)
      BY <1>1, LenProperties
    <2>3. journal[i] \in EntryType
      BY <1>1, <2>2, ElementOfSeq
    <2>4. journal[i].turn \in Nat /\ journal[i].turn <= turn
      BY <2>3, ConstantsAssumption DEF EntryType, EndInv, ErrorInv
    <2> QED
      BY <1>1, <2>4
  <1>3. Counted(journal, turn + 1, 0, 0)
    <2>1. Responses(journal, turn + 1) = {}
      BY <1>2 DEF Responses
    <2>2. \A usage : Costing(journal, turn + 1, usage) = {}
      BY <2>1 DEF Costing
    <2> QED
      BY <2>1, <2>2, FS_EmptySet DEF Counted
  <1>4. BudgetInv'
    BY <1>1, <1>3 DEF BudgetInv
  <1>5. \A c \in CallIds : tpc[c] \in {"none", "done"}
    BY <1>1 DEF TurnInv, ToolsInv
  <1>6. BoundsInv'
    <2>1. effects' \subseteq [turn : 1 .. turn', iter : 1 .. MaxInferences, call : CallIds]
      BY <1>1 DEF BudgetsInv, BoundsInv
    <2> QED
      BY <1>1, <1>5, <2>1 DEF BoundsInv, AtWork
  <1> QED
    BY <1>4, <1>6 DEF BudgetsInv

\* Nothing but a response moves the counters, and no tool starts.
LEMMA QuietBudgets ==
  ASSUME TurnInv, BudgetsInv, UNCHANGED <<turn, iter, effects, inferences, spent>>,
         tpc' = tpc \/ tpc' = [c \in CallIds |-> "none"],
         \/ journal' = journal
         \/ /\ jq # <<>> /\ journal' = Append(journal, jq[1].entry)
            /\ jq[1].entry.kind # "assistant_message"
         \/ pc' \notin Asking \cup {"tools"},
         pc' \in Asking => pc \in Asking,
         pc' = "tools" => pc = "tools",
         pc' \in {"prompt", "connect", "stream", "assistant"} => inferences < MaxInferences,
         pc' \notin {"idle", "dead"} => pc \notin {"idle", "dead"}
  PROVE  BudgetsInv'
  <1>1. pc' \in Asking \cup {"tools"} => Counted(journal', turn, inferences, spent)
    <2> SUFFICES ASSUME pc' \in Asking \cup {"tools"}
                 PROVE  Counted(journal', turn, inferences, spent)
      OBVIOUS
    <2>1. Counted(journal, turn, inferences, spent)
      BY DEF BudgetsInv, BudgetInv
    <2>2. ASSUME jq # <<>>, journal' = Append(journal, jq[1].entry),
                 jq[1].entry.kind # "assistant_message"
          PROVE  Counted(journal', turn, inferences, spent)
      <3>1. inferences \in Nat /\ spent \in Nat
        BY ConstantsAssumption DEF BudgetsInv, BoundsInv
      <3>2. jq[1].entry \in EntryType /\ journal \in Seq(EntryType)
        BY <2>2, HeadOf DEF TurnInv, Types
      <3> QED
        BY <2>1, <2>2, <3>1, <3>2, CountedAppend
    <2> QED
      BY <2>1, <2>2
  <1>2. BudgetInv'
    BY <1>1 DEF BudgetsInv, BudgetInv
  <1>3. AtWork' => AtWork
    BY DEF AtWork
  <1>4. BoundsInv'
    BY <1>3 DEF BudgetsInv, BoundsInv
  <1> QED
    BY <1>2, <1>4 DEF BudgetsInv

\* A response counts, costs, and leaves room or ends the turn.
LEMMA AssistantMessageBudgets ==
  ASSUME TurnInv, BudgetsInv, CommitAssistantMessage PROVE BudgetsInv'
  <1> DEFINE x == jq[1].entry
  <1>1. /\ pc = "assistant" /\ jq # <<>> /\ journal' = Append(journal, x)
        /\ x.kind = "assistant_message" /\ UNCHANGED <<turn, iter, effects>>
        /\ inferences' = inferences + 1 /\ spent' = spent + CostOf(x.status)
        /\ pc' \in {"error", "end", "tools"}
    BY Zenon DEF CommitAssistantMessage, Committed, AtHead, toolVars
  <1>2. /\ x \in EntryType /\ x.turn = turn /\ journal \in Seq(EntryType)
        /\ CostOf(x.status) \in 0 .. 2
    <2>1. x \in EntryType /\ x.turn = turn /\ journal \in Seq(EntryType)
      BY <1>1, HeadOf DEF TurnInv, Types
    <2>2. CostOf(x.status) \in 0 .. 2
      BY DEF CostOf
    <2> QED
      BY <2>1, <2>2
  <1>3. /\ Counted(journal, turn, inferences, spent) /\ iter = inferences + 1
        /\ inferences < MaxInferences /\ inferences \in Nat /\ spent \in Nat
        /\ spent <= 2 * inferences /\ MaxInferences \in Nat /\ turn >= 1
    BY <1>1, ConstantsAssumption DEF BudgetsInv, BudgetInv, BoundsInv, Asking
  <1> HIDE DEF x
  <1>4. pc' = "tools" => x.status # "unknown" /\ spent' < MaxCost
    <2>1. pc' = "tools" => \E clock \in BOOLEAN : Verdict(x.status, clock) = "none"
      BY Zenon DEF CommitAssistantMessage, x
    <2>2. ASSUME NEW clock \in BOOLEAN, Verdict(x.status, clock) = "none"
          PROVE  x.status # "unknown" /\ spent + CostOf(x.status) < MaxCost
      <3>1. x.status # "unknown" /\ ~(spent + CostOf(x.status) >= MaxCost)
        BY <2>2 DEF Verdict
      <3> QED
        BY <1>2, <1>3, <3>1, ConstantsAssumption
    <2> QED
      BY <1>1, <2>1, <2>2
  <1>5. pc' = "tools" => Counted(journal', turn', inferences', spent')
    BY <1>1, <1>2, <1>3, <1>4, CountedAppend
  <1>6. BudgetInv'
    BY <1>1, <1>3, <1>4, <1>5 DEF BudgetInv, Asking
  <1>7. BoundsInv'
    <2>1. inferences' \in 0 .. MaxInferences /\ iter' \in 0 .. inferences' + 1
          /\ iter' \in 1 .. MaxInferences
      BY <1>1, <1>3
    <2>2. spent' \in 0 .. 2 * inferences'
      BY <1>1, <1>2, <1>3
    <2>3. effects' \subseteq [turn : 1 .. turn', iter : 1 .. MaxInferences, call : CallIds]
      BY <1>1 DEF BudgetsInv, BoundsInv
    <2> QED
      BY <1>1, <1>3, <2>1, <2>2, <2>3 DEF BoundsInv
  <1> QED
    BY <1>6, <1>7 DEF BudgetsInv

LEMMA ToolBudgets ==
  ASSUME TurnInv, BudgetsInv, NEW c \in CallIds, ToolStep(c) PROVE BudgetsInv'
  <1>1. tpc[c] \notin {"none", "done"}
    BY DEF ToolStep, StartTool, RefuseOutcome, CommitToolCall, CommitPermission, Execute,
           CommitResult, RejectToolCall, RejectTool
  <1>2. /\ UNCHANGED <<turn, iter, inferences, spent>>
        /\ pc' = pc \/ (pc = "tools" /\ pc' = "thrown")
        /\ \/ journal' = journal
           \/ jq # <<>> /\ jq[1].who = c /\ journal' = Append(journal, jq[1].entry)
        /\ \/ effects' = effects
           \/ effects' = effects \cup {[turn |-> turn, iter |-> iter, call |-> c]}
    BY DEF ToolStep, StartTool, RefuseOutcome, CommitToolCall, CommitPermission, Begin, Execute,
           CommitResult, RejectToolCall, RejectTool, Ask, Committed, Rejected, AtHead, logVars,
           turnVars, budgetVars
  <1>3. pc \in {"tools", "thrown"} /\ turn >= 1 /\ iter \in 1 .. MaxInferences
    BY <1>1 DEF TurnInv, ToolsInv, BudgetsInv, BoundsInv, AtWork
  <1>4. effects' \subseteq [turn : 1 .. turn, iter : 1 .. MaxInferences, call : CallIds]
    <2>1. turn \in 1 .. turn
      BY <1>3, ConstantsAssumption DEF TurnInv, Types
    <2> QED
      BY <1>2, <1>3, <2>1 DEF BudgetsInv, BoundsInv
  <1>5. pc' = "tools" => Counted(journal', turn, inferences, spent)
    <2> SUFFICES ASSUME pc' = "tools" PROVE Counted(journal', turn, inferences, spent)
      OBVIOUS
    <2>1. Counted(journal, turn, inferences, spent)
      BY <1>2 DEF BudgetsInv, BudgetInv
    <2>2. ASSUME jq # <<>>, jq[1].who = c, journal' = Append(journal, jq[1].entry)
          PROVE  Counted(journal', turn, inferences, spent)
      <3>1. inferences \in Nat /\ spent \in Nat
        BY ConstantsAssumption DEF BudgetsInv, BoundsInv
      <3>2. /\ jq[1].entry \in EntryType /\ journal \in Seq(EntryType)
            /\ jq[1].entry.kind # "assistant_message"
        BY <2>2, HeadOf DEF TurnInv, Types, ToolKinds
      <3> QED
        BY <2>1, <2>2, <3>1, <3>2, CountedAppend
    <2> QED
      BY <1>2, <2>1, <2>2
  <1>6. BudgetInv'
    BY <1>2, <1>3, <1>5 DEF BudgetsInv, BudgetInv, Asking
  <1>7. BoundsInv'
    BY <1>2, <1>3, <1>4 DEF BudgetsInv, BoundsInv
  <1> QED
    BY <1>6, <1>7 DEF BudgetsInv

LEMMA NextBudgets == TurnInv /\ EndInv /\ BudgetsInv /\ [Next]_vars => BudgetsInv'
  <1> SUFFICES ASSUME TurnInv, EndInv, BudgetsInv, [Next]_vars PROVE BudgetsInv'
    OBVIOUS
  <1>1. ASSUME CommitUserMessage \/ CommitPrompt PROVE BudgetsInv'
    <2>1. /\ UNCHANGED <<turn, iter, effects, inferences, spent, tpc>>
          /\ jq # <<>> /\ journal' = Append(journal, jq[1].entry)
          /\ jq[1].entry.kind # "assistant_message"
          /\ (pc = "user" /\ pc' = "build") \/ (pc = "prompt" /\ pc' = "connect")
      BY <1>1 DEF CommitUserMessage, CommitPrompt, Committed, AtHead, toolVars, budgetVars
    <2> QED
      BY <2>1, QuietBudgets DEF Asking, BudgetsInv, BudgetInv
  <1>2. ASSUME BuildContext PROVE BudgetsInv'
    <2>1. /\ UNCHANGED <<turn, iter, effects, inferences, spent, tpc, journal>>
          /\ pc = "build" /\ pc' \in {"prompt", "error"}
      BY <1>2 DEF BuildContext, Fail, Ask, toolVars
    <2>2. pc' = "prompt" => \E clock \in BOOLEAN : Check(clock) = "none"
      BY <1>2 DEF BuildContext, Fail
    <2>3. ASSUME NEW clock \in BOOLEAN, Check(clock) = "none" PROVE inferences < MaxInferences
      <3>1. ~(inferences >= MaxInferences)
        BY <2>3 DEF Check
      <3> QED
        BY <3>1, ConstantsAssumption DEF BudgetsInv, BoundsInv
    <2> QED
      BY <2>1, <2>2, <2>3, QuietBudgets DEF Asking
  <1>3. ASSUME OpenStream \/ StreamStops \/ StreamAborts \/ StreamFails PROVE BudgetsInv'
    <2>1. /\ UNCHANGED <<turn, iter, effects, inferences, spent, tpc, journal>>
          /\ pc \in {"connect", "stream"} /\ pc' \in {"stream", "assistant", "error", "partial", "end"}
      BY <1>3 DEF OpenStream, StreamStops, StreamAborts, StreamFails, Fail, Ask, toolVars,
         budgetVars, logVars
    <2> QED
      BY <2>1, QuietBudgets DEF Asking, BudgetsInv, BudgetInv
  <1>4. ASSUME \/ CommitError \/ CommitPartial \/ CommitTurnEnd \/ RejectTurn \/ Return
               \/ RefuseResponse \/ RefusePartial
        PROVE  BudgetsInv'
    <2>1. /\ UNCHANGED <<turn, iter, effects, inferences, spent, tpc>>
          /\ pc \notin {"idle", "dead"} /\ pc' \notin Asking \cup {"tools"}
      BY <1>4 DEF CommitError, CommitPartial, CommitTurnEnd, RejectTurn, Return, RefuseResponse,
         RefusePartial, toolVars, budgetVars, Asking
    <2> QED
      BY <2>1, QuietBudgets DEF Asking
  <1>5. ASSUME CloseWriter \/ Interrupt \/ Die \/ UNCHANGED vars PROVE BudgetsInv'
    <2>1. /\ UNCHANGED <<turn, iter, effects, inferences, spent>>
          /\ \/ UNCHANGED <<pc, tpc, journal>>
             \/ pc' = "dead" /\ tpc' = [c \in CallIds |-> "none"]
      BY <1>5 DEF CloseWriter, Interrupt, Die, vars, turnVars, toolVars, budgetVars, logVars
    <2> QED
      BY <2>1, QuietBudgets DEF Asking, BudgetsInv, BudgetInv
  <1>6. ASSUME LoopBack PROVE BudgetsInv'
    <2>1. /\ pc = "tools" /\ pc' = "build" /\ iter' = iter + 1
          /\ UNCHANGED <<turn, effects, inferences, spent, tpc, journal>>
          /\ \A c \in calls : tpc[c] = "done"
      BY <1>6 DEF LoopBack, AllSettled, toolVars, budgetVars, logVars
    <2>2. ~ AtWork
      BY <2>1 DEF AtWork, TurnInv, ToolsInv
    <2>3. ~ AtWork'
      BY <2>1, <2>2 DEF AtWork
    <2>4. BudgetInv'
      BY <2>1 DEF BudgetsInv, BudgetInv, Asking
    <2>5. BoundsInv'
      BY <2>1, <2>3, ConstantsAssumption DEF BudgetsInv, BudgetInv, BoundsInv
    <2> QED
      BY <2>4, <2>5 DEF BudgetsInv
  <1> QED
    BY <1>1, <1>2, <1>3, <1>4, <1>5, <1>6, StartTurnBudgets, AssistantMessageBudgets, ToolBudgets
    DEF Next, TurnStep

LEMMA NextCapsInv == TurnInv /\ BudgetsInv /\ CapsInv /\ [Next]_vars => CapsInv'
  <1> SUFFICES ASSUME TurnInv, BudgetsInv, CapsInv, [Next]_vars PROVE CapsInv'
    OBVIOUS
  <1>1. CASE journal' = journal
    BY <1>1 DEF CapsInv
  <1>2. CASE jq # <<>> /\ journal' = Append(journal, jq[1].entry)
    <2>1. jq[1].entry \in EntryType /\ journal \in Seq(EntryType) /\ jq[1].entry.turn = turn
      BY <1>2, HeadOf DEF TurnInv, Types
    <2>2. inferences \in Nat /\ spent \in Nat
      BY ConstantsAssumption DEF BudgetsInv, BoundsInv
    <2>3. jq[1].entry.kind = "prompt" =>
            /\ Counted(journal, turn, inferences, spent)
            /\ inferences < MaxInferences /\ (spent < MaxCost \/ inferences = 0)
      BY <1>2, HeadOf DEF BudgetsInv, BudgetInv, Asking
    <2> QED
      BY <1>2, <2>1, <2>2, <2>3, CappedAppend DEF CapsInv
  <1> QED
    BY <1>1, <1>2, JournalGrows

\* Every variable keeps its type and every counter its bounds, and no inference is asked
\* for behind a response that reached a cap, whatever the responses cost.
THEOREM CapsAreKept == Spec => []CapsHold
  <1>1. Init => Shapes /\ BudgetsInv /\ CapsInv
    <2> SUFFICES ASSUME Init PROVE Shapes /\ BudgetsInv /\ CapsInv
      OBVIOUS
    <2>1. journal = <<>> /\ journal \in Seq(EntryType) /\ view = Materialized(journal)
      BY EmptySeq DEF Init
    <2>2. Shapes
      BY <2>1, MaterializedTyped DEF Init, Shapes, Phases
    <2>3. BudgetsInv
      BY ConstantsAssumption DEF Init, BudgetsInv, BudgetInv, BoundsInv, AtWork, Asking
    <2>4. CapsInv
      BY <2>1 DEF CapsInv
    <2> QED
      BY <2>2, <2>3, <2>4
  <1>2. TurnInv /\ Shapes /\ BudgetsInv => TypeOK
    <2> SUFFICES ASSUME TurnInv, Shapes, BudgetsInv PROVE TypeOK
      OBVIOUS
    <2>1. iter \in 0 .. MaxInferences + 1
      BY ConstantsAssumption DEF BudgetsInv, BoundsInv
    <2>2. jq \in Seq([who : Actors, entry : EntryType, dead : BOOLEAN])
      BY DEF TurnInv, Types, Items
    <2> QED
      BY <2>1, <2>2 DEF TypeOK, TurnInv, Types, Shapes, BudgetsInv, BoundsInv
  <1>3. TypeOK /\ CapsInv => CapsHold
    <2> SUFFICES ASSUME TypeOK, CapsInv, NEW k \in DOMAIN journal, journal[k].kind = "prompt"
                 PROVE  LET before == {i \in 1 .. k : /\ journal[i].kind = "assistant_message"
                                                      /\ journal[i].turn = journal[k].turn}
                            Count(usage) == Cardinality({i \in before : journal[i].status = usage})
                        IN /\ Cardinality(before) < MaxInferences
                           /\ Count("cheap") + 2 * Count("dear") < MaxCost \/ before = {}
                           /\ Count("unknown") = 0
      BY DEF CapsHold
    <2>1. k \in 1 .. Len(journal) /\ DOMAIN journal = 1 .. Len(journal) /\ Len(journal) \in Nat
      BY LenProperties DEF TypeOK
    <2>2. {i \in 1 .. k : /\ journal[i].kind = "assistant_message"
                          /\ journal[i].turn = journal[k].turn} = Before(journal, k)
      BY <2>1 DEF Before, Responses
    <2>3. PromptCapped(journal, k)
      BY DEF CapsInv
    <2>4. Cardinality({i \in Before(journal, k) : journal[i].status = "unknown"}) = 0
      BY <2>3, FS_EmptySet DEF PromptCapped, BeforeAt
    <2> QED
      BY <2>2, <2>3, <2>4 DEF PromptCapped, BeforeAt
  <1>4. Init => EndInv
    <2>1. Init => DOMAIN journal = {} /\ Pending(journal) = {}
      BY DEF Init, Pending
    <2> QED
      BY <2>1 DEF Init, EndInv, PendingInv, ErrorInv, Tells
  <1> QED
    BY <1>1, <1>2, <1>3, <1>4, NextShapes, NextBudgets, NextCapsInv, NextEndInv, TurnInvariant, PTL
    DEF Spec

-----------------------------------------------------------------------------
(* Who throws *)

Run(c) == [turn |-> turn, iter |-> iter, call |-> c]

\* Only calls of registered tools are recorded and run, and none has run before it starts.
FreshInv ==
  /\ \A e \in effects : Nature[e.call] = "known"
  /\ \A c \in CallIds : tpc[c] \in {"recording", "authorizing", "executing"} => Nature[c] = "known"
  /\ pc \in Asking \cup {"tools"} => \A e \in effects : e.turn = turn => e.iter <= iter
  /\ pc \in Asking => \A e \in effects : e.turn = turn => e.iter # iter
  /\ \A c \in CallIds : tpc[c] = "start" => Run(c) \notin effects

LastIs(kind) == /\ journal # <<>>
                /\ journal[Len(journal)].turn = turn /\ journal[Len(journal)].kind = kind

\* The stream is read behind the prompt.
LastInv == pc \in {"connect", "stream"} => LastIs("prompt")

\* What made the turn throw is still to be seen: a call that ended without having run,
\* or the last entry, behind which nothing is at work.
RefusedCall(c) ==
  /\ c \in calls /\ tpc[c] = "thrown" /\ (OddText \/ Nature[c] = "oddname")
  /\ Run(c) \notin effects
RefusedReply ==
  /\ OddText /\ \A c \in CallIds : tpc[c] \in {"none", "done"}
  /\ LastIs("prompt") \/ (LastIs("error") /\ partial)
ThrownInv == pc = "thrown" /\ ~broken => RefusedReply \/ \E c \in calls : RefusedCall(c)

ThrowInv == FreshInv /\ LastInv /\ ThrownInv

\* Its own turn's entry is the last one, once it is committed.
LEMMA CommittedIsLast ==
  ASSUME TurnInv, jq # <<>>, journal' = Append(journal, jq[1].entry), turn' = turn,
         NEW CONSTANT kind, jq[1].entry.kind = kind
  PROVE  LastIs(kind)'
  <1>1. jq[1].entry \in EntryType /\ jq[1].entry.turn = turn /\ journal \in Seq(EntryType)
    BY HeadOf DEF TurnInv, Types
  <1>2. /\ journal' \in Seq(EntryType) /\ Len(journal') = Len(journal) + 1
        /\ journal'[Len(journal) + 1] = jq[1].entry /\ Len(journal) \in Nat
    BY <1>1, Grown
  <1>3. journal' # <<>>
    BY <1>2, EmptySeq
  <1> QED
    BY <1>1, <1>2, <1>3 DEF LastIs

\* While the turn runs the writer is open, and a working one refuses only a result
\* whose actor has a blank in it.
LEMMA RefusalIsFailure ==
  ASSUME TurnInv, pc \notin {"idle", "exited", "thrown", "dead"},
         NEW who, NEW kind, Rejected(who, kind, <<>>), ~ broken'
  PROVE  Refused(jq[1].entry) /\ kind = "tool_result"
  <1>1. jq # <<>> /\ 1 \in DOMAIN jq /\ jq[1].entry.kind = kind
    BY EmptySeq, LenProperties DEF Rejected, AtHead, TurnInv, Types
  <1>2. ~ jq[1].dead
    BY <1>1 DEF TurnInv, ClosedInv
  <1>3. ~ Accepts(jq[1]) /\ ~ broken
    BY DEF Rejected, TurnInv, Types
  <1>4. Refused(jq[1].entry)
    BY <1>2, <1>3 DEF Accepts
  <1> QED
    BY <1>1, <1>4 DEF Refused

LEMMA BrokenStays == TurnInv /\ [Next]_vars => (broken => broken')
  <1> USE DEF Ask, Committed, Rejected, Fail, logVars
  <1> SUFFICES ASSUME TurnInv, [Next]_vars, broken PROVE broken'
    OBVIOUS
  <1>1. CASE TurnStep
    BY <1>1 DEF TurnStep, CommitUserMessage, BuildContext, CommitPrompt, OpenStream, StreamStops,
       StreamAborts, StreamFails, RefuseResponse, CommitAssistantMessage, CommitError,
       RefusePartial, CommitPartial, CommitTurnEnd, RejectTurn, LoopBack, Return
  <1>2. ASSUME NEW c \in CallIds, ToolStep(c) PROVE broken'
    BY <1>2 DEF ToolStep, StartTool, RefuseOutcome, CommitToolCall, CommitPermission, Execute,
       CommitResult, RejectToolCall, RejectTool
  <1>3. CASE StartTurn \/ CloseWriter \/ Interrupt \/ Die \/ UNCHANGED vars
    BY <1>3 DEF StartTurn, CloseWriter, Interrupt, Die, vars
  <1> QED
    BY <1>1, <1>2, <1>3 DEF Next

\* Steps in which no tool takes part.
LEMMA TurnFresh ==
  ASSUME TurnInv, BudgetsInv, FreshInv, StartTurn \/ TurnStep PROVE FreshInv'
  <1>0. /\ effects \subseteq [turn : 1 .. turn, iter : 1 .. MaxInferences, call : CallIds]
        /\ turn \in Nat /\ iter \in Nat /\ MaxInferences \in Nat
    BY ConstantsAssumption DEF BudgetsInv, BoundsInv, TurnInv, Types
  <1>1. CASE StartTurn
    <2>1. /\ turn' = turn + 1 /\ UNCHANGED <<tpc, effects>>
          /\ pc = "idle" /\ pc' = "user"
      BY <1>1 DEF StartTurn, toolVars
    <2>2. \A e \in effects : e.turn # turn'
      BY <1>0, <2>1
    <2>3. \A c \in CallIds : tpc[c] \in {"none", "done"}
      BY <2>1 DEF TurnInv, ToolsInv
    <2> QED
      BY <2>1, <2>2, <2>3 DEF FreshInv
  <1>2. CASE CommitAssistantMessage
    <2>1. /\ pc = "assistant" /\ pc' \in {"error", "end", "tools"}
          /\ UNCHANGED <<turn, iter, effects>>
      BY <1>2, Zenon DEF CommitAssistantMessage, toolVars
    <2>2. tpc' = tpc \/ \A c \in CallIds : tpc'[c] \in {"start", "none"}
      BY <1>2, Zenon DEF CommitAssistantMessage, toolVars
    <2>3. \A c \in CallIds : Run(c) \notin effects
      BY <2>1 DEF FreshInv, Run, Asking
    <2>4. \A c \in CallIds : Run(c)' = Run(c)
      BY <2>1 DEF Run
    <2>5. pc \in Asking /\ pc' \notin Asking
      BY <2>1 DEF Asking
    <2> QED
      BY <2>1, <2>2, <2>3, <2>4, <2>5 DEF FreshInv
  <1>3. CASE LoopBack
    <2>1. /\ pc = "tools" /\ pc' = "build" /\ iter' = iter + 1
          /\ UNCHANGED <<turn, tpc, effects>>
          /\ \A c \in calls : tpc[c] = "done"
      BY <1>3 DEF LoopBack, AllSettled, toolVars
    <2>2. \A c \in CallIds : tpc[c] \in {"none", "done"}
      BY <2>1 DEF TurnInv, ToolsInv
    <2>3. \A e \in effects : e.turn = turn => e.iter <= iter /\ e.iter \in Nat
      BY <1>0, <2>1 DEF FreshInv
    <2>4. \A e \in effects : e.turn = turn' => e.iter <= iter' /\ e.iter # iter'
      BY <1>0, <2>1, <2>3
    <2> QED
      BY <2>1, <2>2, <2>4 DEF FreshInv
  <1>4. CASE TurnStep /\ ~ CommitAssistantMessage /\ ~ LoopBack
    <2>1. UNCHANGED <<turn, iter, tpc, effects>>
      BY <1>4 DEF TurnStep, CommitUserMessage, BuildContext, CommitPrompt, OpenStream, StreamStops,
         StreamAborts, StreamFails, RefuseResponse, CommitError, RefusePartial, CommitPartial,
         CommitTurnEnd, RejectTurn, Return, Fail, toolVars
    <2>2. pc' \in Asking \cup {"tools"} => pc \in Asking /\ pc' # "tools"
      BY <1>4 DEF TurnStep, CommitUserMessage, BuildContext, CommitPrompt, OpenStream, StreamStops,
         StreamAborts, StreamFails, RefuseResponse, CommitError, RefusePartial, CommitPartial,
         CommitTurnEnd, RejectTurn, Return, Fail, Asking
    <2> QED
      BY <2>1, <2>2 DEF FreshInv, Run
  <1> QED
    BY <1>1, <1>2, <1>3, <1>4

LEMMA ToolFresh ==
  ASSUME TurnInv, FreshInv, NEW c \in CallIds, ToolStep(c) PROVE FreshInv'
  <1>1. /\ UNCHANGED <<turn, iter>> /\ (pc' = pc \/ (pc = "tools" /\ pc' = "thrown"))
        /\ \A d \in CallIds : d # c => tpc'[d] = tpc[d]
        /\ tpc[c] \notin {"none", "done"} /\ tpc'[c] # "start"
        /\ tpc'[c] \in {"recording", "authorizing", "executing"} =>
             \/ tpc[c] = "start" /\ Nature[c] = "known"
             \/ tpc[c] \in {"recording", "authorizing"}
        /\ \/ effects' = effects
           \/ tpc[c] = "authorizing" /\ effects' = effects \cup {Run(c)}
    BY DEF ToolStep, StartTool, RefuseOutcome, CommitToolCall, CommitPermission, Begin, Execute,
           CommitResult, RejectToolCall, RejectTool, turnVars, TurnInv, Types, Run
  <1>2. pc \in {"tools", "thrown"}
    BY <1>1 DEF TurnInv, ToolsInv
  <1>3. \A d \in CallIds : Run(d)' = Run(d) /\ (d # c => Run(d) # Run(c))
    BY <1>1 DEF Run
  <1>4. \A e \in effects' : e \in effects \/ (e = Run(c) /\ tpc[c] = "authorizing")
    BY <1>1
  <1>5. Run(c).turn = turn /\ Run(c).iter = iter /\ Run(c).call = c /\ iter \in Nat
    BY DEF Run, TurnInv, Types
  <1>6. \A e \in effects' : Nature[e.call] = "known"
    BY <1>4, <1>5 DEF FreshInv
  <1>7. \A d \in CallIds : tpc'[d] \in {"recording", "authorizing", "executing"} =>
                              Nature[d] = "known"
    BY <1>1 DEF FreshInv
  <1>8. pc' = "tools" => \A e \in effects' : e.turn = turn => e.iter <= iter
    BY <1>1, <1>4, <1>5 DEF FreshInv
  <1>9. \A d \in CallIds : tpc'[d] = "start" => Run(d) \notin effects'
    BY <1>1, <1>3, <1>4 DEF FreshInv
  <1> QED
    BY <1>1, <1>2, <1>3, <1>6, <1>7, <1>8, <1>9 DEF FreshInv, Asking

LEMMA NextFreshInv == TurnInv /\ BudgetsInv /\ FreshInv /\ [Next]_vars => FreshInv'
  <1> SUFFICES ASSUME TurnInv, BudgetsInv, FreshInv, [Next]_vars PROVE FreshInv'
    OBVIOUS
  <1>1. CASE CloseWriter \/ Interrupt \/ UNCHANGED vars
    BY <1>1 DEF CloseWriter, Interrupt, vars, turnVars, toolVars, FreshInv, Run
  <1>2. CASE Die
    BY <1>2 DEF Die, FreshInv, Asking
  <1> QED
    BY <1>1, <1>2, TurnFresh, ToolFresh DEF Next

LEMMA NextLastInv == TurnInv /\ LastInv /\ [Next]_vars => LastInv'
  <1> SUFFICES ASSUME TurnInv, LastInv, [Next]_vars, pc' \in {"connect", "stream"}
               PROVE  LastIs("prompt")'
    BY DEF LastInv
  <1>1. CASE CommitPrompt
    BY <1>1, CommittedIsLast DEF CommitPrompt, Committed, AtHead
  <1>2. CASE TurnStep /\ ~ CommitPrompt
    <2>1. OpenStream
      BY <1>2, Zenon DEF TurnStep, CommitUserMessage, BuildContext, StreamStops, StreamAborts,
         StreamFails, RefuseResponse, CommitAssistantMessage, CommitError, RefusePartial,
         CommitPartial, CommitTurnEnd, RejectTurn, LoopBack, Return, Fail
    <2> QED
      BY <2>1 DEF OpenStream, logVars, LastInv, LastIs
  <1>3. ASSUME NEW c \in CallIds, ToolStep(c) PROVE LastIs("prompt")'
    <2>1. pc' = pc \/ pc' = "thrown"
      BY <1>3 DEF ToolStep, StartTool, RefuseOutcome, CommitToolCall, CommitPermission, Execute,
         CommitResult, RejectToolCall, RejectTool, turnVars
    <2>2. pc \in {"tools", "thrown"}
      <3>1. tpc[c] \notin {"none", "done"}
        BY <1>3 DEF ToolStep, StartTool, RefuseOutcome, CommitToolCall, CommitPermission, Execute,
           CommitResult, RejectToolCall, RejectTool
      <3> QED
        BY <3>1 DEF TurnInv, ToolsInv
    <2> QED
      BY <2>1, <2>2
  <1>4. CASE StartTurn \/ Die
    BY <1>4 DEF StartTurn, Die
  <1>5. CASE CloseWriter \/ Interrupt \/ UNCHANGED vars
    BY <1>5 DEF CloseWriter, Interrupt, vars, turnVars, logVars, LastInv, LastIs
  <1> QED
    BY <1>1, <1>2, <1>3, <1>4, <1>5 DEF Next

\* A turn that throws while the journal works was refused a text.
LEMMA TurnThrows ==
  ASSUME TurnInv, LastInv, TurnStep, pc' = "thrown", ~ broken'
  PROVE  RefusedReply'
  <1>1. \A c \in CallIds : pc \notin {"tools", "thrown"} => tpc[c] \in {"none", "done"}
    BY DEF TurnInv, ToolsInv
  <1>2. RefuseResponse \/ RefusePartial \/ RejectTurn
    BY Zenon DEF TurnStep, CommitUserMessage, BuildContext, CommitPrompt, OpenStream, StreamStops,
       StreamAborts, StreamFails, CommitAssistantMessage, CommitError, CommitPartial,
       CommitTurnEnd, LoopBack, Return, Fail
  <1>3. CASE RefuseResponse
    <2>1. LastIs("prompt")'
      BY <1>3 DEF RefuseResponse, logVars, LastInv, LastIs
    <2> QED
      BY <1>1, <1>3, <2>1 DEF RefuseResponse, toolVars, RefusedReply
  <1>4. CASE RefusePartial
    <2>1. LastIs("error")'
      BY <1>4, CommittedIsLast DEF RefusePartial, Committed, AtHead
    <2> QED
      BY <1>1, <1>4, <2>1 DEF RefusePartial, toolVars, RefusedReply
  <1>5. CASE RejectTurn
    <2>1. PICK kind \in {"user_message", "prompt", "assistant_message", "error", "turn_end"} :
            Rejected("turn", kind, <<>>)
      BY <1>5 DEF RejectTurn
    <2>2. pc \notin {"idle", "exited", "thrown", "dead"}
      BY <1>5 DEF RejectTurn
    <2>3. kind = "tool_result"
      BY <2>1, <2>2, RefusalIsFailure
    <2> QED
      BY <2>3
  <1> QED
    BY <1>2, <1>3, <1>4, <1>5

\* A call that makes the turn throw while the journal works never ran.
LEMMA ToolThrows ==
  ASSUME TurnInv, FreshInv, NEW c \in CallIds, ToolStep(c),
         pc = "tools", pc' = "thrown", ~ broken'
  PROVE  \E d \in calls' : RefusedCall(d)'
  <1>1. RefuseOutcome(c) \/ RejectTool(c)
    BY DEF ToolStep, StartTool, CommitToolCall, CommitPermission, Execute, CommitResult,
           RejectToolCall, turnVars
  <1>2. /\ UNCHANGED <<turn, iter, calls, effects>> /\ tpc' = [tpc EXCEPT ![c] = "thrown"]
        /\ tpc[c] # "none"
    BY <1>1 DEF RefuseOutcome, RejectTool
  <1>3. c \in calls' /\ tpc'[c] = "thrown" /\ Run(c)' = Run(c)
    BY <1>2 DEF TurnInv, ToolsInv, Types, Run
  <1>4. CASE RefuseOutcome(c)
    <2>1. OddText /\ Run(c) \notin effects
      BY <1>4 DEF RefuseOutcome, FreshInv
    <2> QED
      BY <1>2, <1>3, <2>1 DEF RefusedCall
  <1>5. CASE RejectTool(c)
    <2>1. Refused(jq[1].entry) /\ jq # <<>> /\ jq[1].who = c
      BY <1>5, RefusalIsFailure DEF RejectTool, Rejected, AtHead
    <2>2. Nature[c] = "oddname"
      BY <2>1, HeadOf DEF Refused
    <2>3. Run(c) \notin effects
      <3>1. Run(c).call = c
        BY DEF Run
      <3> QED
        BY <2>2, <3>1 DEF FreshInv
    <2> QED
      BY <1>2, <1>3, <2>2, <2>3 DEF RefusedCall
  <1> QED
    BY <1>1, <1>4, <1>5

\* What the calls that go on without the turn do hides nothing.
LEMMA ToolStaysThrown ==
  ASSUME TurnInv, FreshInv, ThrownInv, NEW c \in CallIds, ToolStep(c), pc = "thrown", ~ broken
  PROVE  \E d \in calls' : RefusedCall(d)'
  <1>1. /\ UNCHANGED <<turn, iter, calls>>
        /\ \A d \in CallIds : d # c => tpc'[d] = tpc[d]
        /\ tpc[c] \notin {"none", "done", "thrown"}
        /\ effects' = effects \/ effects' = effects \cup {Run(c)}
    BY DEF ToolStep, StartTool, RefuseOutcome, CommitToolCall, CommitPermission, Begin, Execute,
           CommitResult, RejectToolCall, RejectTool, turnVars, TurnInv, Types, Run
  <1>2. PICK d \in calls : RefusedCall(d)
    BY <1>1 DEF ThrownInv, RefusedReply
  <1>3. d \in CallIds /\ d # c
    BY <1>1, <1>2 DEF RefusedCall, TurnInv, Types
  <1>4. Run(d)' = Run(d) /\ Run(d) # Run(c)
    BY <1>1, <1>3 DEF Run
  <1> QED
    BY <1>1, <1>2, <1>3, <1>4 DEF RefusedCall

LEMMA NextThrownInv ==
  TurnInv /\ FreshInv /\ LastInv /\ ThrownInv /\ [Next]_vars => ThrownInv'
  <1> SUFFICES ASSUME TurnInv, FreshInv, LastInv, ThrownInv, [Next]_vars, pc' = "thrown", ~ broken'
               PROVE  RefusedReply' \/ \E c \in calls' : RefusedCall(c)'
    BY DEF ThrownInv
  <1>0. ~ broken
    BY BrokenStays
  <1>1. CASE TurnStep
    BY <1>1, TurnThrows
  <1>2. ASSUME NEW c \in CallIds, ToolStep(c) PROVE \E d \in calls' : RefusedCall(d)'
    <2>1. pc \in {"tools", "thrown"}
      <3>1. tpc[c] \notin {"none", "done"}
        BY <1>2 DEF ToolStep, StartTool, RefuseOutcome, CommitToolCall, CommitPermission, Execute,
           CommitResult, RejectToolCall, RejectTool
      <3> QED
        BY <3>1 DEF TurnInv, ToolsInv
    <2> QED
      BY <1>0, <1>2, <2>1, ToolThrows, ToolStaysThrown
  <1>3. CASE StartTurn \/ Die
    BY <1>3 DEF StartTurn, Die
  <1>4. CASE CloseWriter \/ Interrupt \/ UNCHANGED vars
    <2>1. UNCHANGED <<pc, partial, turn, iter, calls, tpc, effects, journal, broken>>
      BY <1>4 DEF CloseWriter, Interrupt, vars, turnVars, toolVars, logVars
    <2>2. RefusedReply \/ \E c \in calls : RefusedCall(c)
      BY <1>0, <2>1 DEF ThrownInv
    <2> QED
      BY <2>1, <2>2 DEF RefusedReply, RefusedCall, LastIs, Run
  <1> QED
    BY <1>1, <1>2, <1>3, <1>4 DEF Next

\* With a working journal a turn throws only because the writer refused a text of the
\* endpoint's or the outcome of a call that never ran: for any calls, inferences and
\* lines, and however the calls of a response overlap.
THEOREM OnlyRefusalsThrow == Spec => []OnlyRefusedTextThrows
  <1>1. Init => BudgetsInv /\ ThrowInv
    <2>1. Init => BudgetsInv
      <3> SUFFICES ASSUME Init PROVE BudgetsInv
        OBVIOUS
      <3> QED
        BY ConstantsAssumption DEF Init, BudgetsInv, BudgetInv, BoundsInv, AtWork, Asking
    <2>2. Init => ThrowInv
      BY DEF Init, ThrowInv, FreshInv, LastInv, ThrownInv, Asking
    <2> QED
      BY <2>1, <2>2
  <1>2. TurnInv /\ BudgetsInv /\ ThrowInv /\ [Next]_vars => ThrowInv'
    BY NextFreshInv, NextLastInv, NextThrownInv DEF ThrowInv
  <1>3. ThrowInv => OnlyRefusedTextThrows
    BY DEF ThrowInv, ThrownInv, RefusedReply, RefusedCall, Run, LastIs, OnlyRefusedTextThrows
  <1>4. Init => EndInv
    <2>1. Init => DOMAIN journal = {} /\ Pending(journal) = {}
      BY DEF Init, Pending
    <2> QED
      BY <2>1 DEF Init, EndInv, PendingInv, ErrorInv, Tells
  <1> QED
    BY <1>1, <1>2, <1>3, <1>4, NextEndInv, NextBudgets, TurnInvariant, PTL DEF Spec
=============================================================================
