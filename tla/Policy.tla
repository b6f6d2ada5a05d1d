------------------------------- MODULE Policy -------------------------------
(***************************************************************************)
(* The policy decision: packages/policy/src (decide.ts, tiers.ts,          *)
(* evaluate.ts, rule.ts).                                                  *)
(*                                                                         *)
(* decide is a pure function of a capability request and the rule lists of *)
(* the tiers.  Its loops are modelled step by step, so that what they have *)
(* found so far can be stated, and proved, for lists of any length.        *)
(*                                                                         *)
(* Tiers are numbered in the order of POLICY_TIERS: user, project,         *)
(* session.  A path is the sequence of what lies between its slashes, so   *)
(* "src/a.ts" is <<"src", "a.ts">> and "/" is <<"", "">>.                  *)
(***************************************************************************)
EXTENDS Integers, Sequences

CONSTANTS
  Requests,    \* the capabilities asked for
  Rules,       \* the rules the tiers may hold
  TierLists    \* what decide is called with: sequences of [tier, rules]

POLICY_TIERS == 1 .. 3
Session == 3
Outcomes == {"allow", "ask", "deny"}
Unrecognized == [risk_class |-> "unrecognized", paths |-> {}]
Wildcard == {}

PRECEDENCE == [deny |-> 0, ask |-> 1, allow |-> 2]

BUILTIN_ALLOW_READ ==
  [id |-> "builtin/allow-read", outcome |-> "allow",
   risk_class |-> {"read"}, paths |-> Wildcard]

AllRules == Rules \cup {BUILTIN_ALLOW_READ}
TierRules == [tier : POLICY_TIERS, rules : Seq(AllRules)]

\* The schema refuses empty lists of classes and of paths, so that the empty set
\* can stand for an omitted one.
ASSUME RulesAssumption ==
  /\ \A rule \in Rules : rule.outcome \in Outcomes
  /\ TierLists \subseteq Seq(TierRules)

-----------------------------------------------------------------------------
(* Matching *)

\* Trailing slashes of a rule's path do not count; "/" is left alone.
NormalizeRulePath(path) ==
  IF path = <<"", "">> THEN path
  ELSE LET n == CHOOSE k \in 1 .. Len(path) :
                  /\ k = 1 \/ path[k] # ""
                  /\ \A j \in k + 1 .. Len(path) : path[j] = ""
       IN  SubSeq(path, 1, n)

\* The path itself or anything below it, on whole segments.
PathCovers(rulePath, requestPath) ==
  LET base == NormalizeRulePath(rulePath)
  IN  Len(base) <= Len(requestPath) /\ SubSeq(requestPath, 1, Len(base)) = base

Matches(rule, request) ==
  /\ rule.risk_class = Wildcard \/ request.risk_class \in rule.risk_class
  /\ \/ rule.paths = Wildcard
     \/ \E path \in rule.paths, requested \in request.paths : PathCovers(path, requested)

Stronger(r, s) == PRECEDENCE[r.outcome] < PRECEDENCE[s.outcome]

-----------------------------------------------------------------------------
(* The state of one decision *)

VARIABLES
  raw,        \* the capability asked for
  tiers,      \* the rule lists given, and the built-in one behind them
  pc,
  entry,      \* resolveTiers: the list being gathered
  seen,       \* the rules of every tier
  tier,       \* the tier being evaluated, or elected
  at,         \* evaluate: the rule being looked at
  winner,     \* evaluate: the winning rule so far, 0 for none
  contenders, \* the winning rule of every tier evaluated, 0 where it abstains
  elected,    \* resolveTiers: the winning tier so far, 0 for none
  decision

inputs == <<raw, tiers>>
vars == <<raw, tiers, pc, entry, seen, tier, at, winner, contenders, elected, decision>>

Undecided == [outcome |-> "none", id |-> "none", tier |-> 0]
Default == [outcome |-> "ask", id |-> "none", tier |-> 0]
Failed == [outcome |-> "deny", id |-> "none", tier |-> 0]

\* decide is called, with the built-in rule behind all the others.
Init ==
  /\ raw \in Requests \cup {Unrecognized}
  /\ \E list \in TierLists :
       tiers = Append(list, [tier |-> Session, rules |-> <<BUILTIN_ALLOW_READ>>])
  /\ pc = "validate"
  /\ entry = 1 /\ seen = [t \in POLICY_TIERS |-> <<>>]
  /\ tier = 1 /\ at = 1 /\ winner = 0
  /\ contenders = [t \in POLICY_TIERS |-> 0] /\ elected = 0
  /\ decision = Undecided

Decide(d) == pc' = "decided" /\ decision' = d

\* What does not parse as a capability is asked about.
Validate ==
  /\ pc = "validate"
  /\ IF raw = Unrecognized
     THEN Decide(Default)
     ELSE pc' = "gather" /\ UNCHANGED decision
  /\ UNCHANGED <<inputs, entry, seen, tier, at, winner, contenders, elected>>

\* Mutant: a second list of a tier takes the first one's place.
GatherLast ==
  /\ pc = "gather"
  /\ IF entry <= Len(tiers)
     THEN /\ seen' = [seen EXCEPT ![tiers[entry].tier] = tiers[entry].rules]
          /\ entry' = entry + 1 /\ UNCHANGED pc
     ELSE pc' = "scan" /\ UNCHANGED <<entry, seen>>
  /\ UNCHANGED <<inputs, tier, at, winner, contenders, elected, decision>>

\* The lists of one tier accumulate.
Gather ==
  /\ pc = "gather"
  /\ IF entry <= Len(tiers)
     THEN /\ seen' = [seen EXCEPT ![tiers[entry].tier] = @ \o tiers[entry].rules]
          /\ entry' = entry + 1 /\ UNCHANGED pc
     ELSE pc' = "scan" /\ UNCHANGED <<entry, seen>>
  /\ UNCHANGED <<inputs, tier, at, winner, contenders, elected, decision>>

\* Mutant: the last match wins within a precedence.
BeatsOrTies(rule) ==
  Matches(rule, raw) /\ (winner = 0 \/ ~ Stronger(seen[tier][winner], rule))

\* The first match wins within a precedence; a stronger one always does.
Beats(rule) ==
  Matches(rule, raw) /\ (winner = 0 \/ Stronger(rule, seen[tier][winner]))

\* evaluate, one rule of a tier.
Scan ==
  /\ pc = "scan" /\ at <= Len(seen[tier])
  /\ winner' = IF Beats(seen[tier][at]) THEN at ELSE winner
  /\ at' = at + 1
  /\ UNCHANGED <<inputs, pc, entry, seen, tier, contenders, elected, decision>>

\* The tier is through; with no matching rule it abstains.
Contend ==
  /\ pc = "scan" /\ at > Len(seen[tier])
  /\ contenders' = [contenders EXCEPT ![tier] = winner]
  /\ at' = 1 /\ winner' = 0
  /\ IF tier = Session THEN tier' = 1 /\ pc' = "elect"
                       ELSE tier' = tier + 1 /\ UNCHANGED pc
  /\ UNCHANGED <<inputs, entry, seen, elected, decision>>

\* Mutant: the nearest tier wins.
SupersedesAlways(t) == contenders[t] # 0

\* The higher tier wins within a precedence.
Supersedes(t) ==
  /\ contenders[t] # 0
  /\ elected = 0 \/ Stronger(seen[t][contenders[t]], seen[elected][contenders[elected]])

\* resolveTiers, one contender; a tier that abstained is none.
Elect ==
  /\ pc = "elect" /\ tier \in POLICY_TIERS
  /\ elected' = IF Supersedes(tier) THEN tier ELSE elected
  /\ tier' = tier + 1
  /\ UNCHANGED <<inputs, pc, entry, seen, at, winner, contenders, decision>>

Resolve ==
  /\ pc = "elect" /\ tier \notin POLICY_TIERS
  /\ LET rule == seen[elected][contenders[elected]]
     IN  Decide(IF elected = 0 THEN Default
                ELSE [outcome |-> rule.outcome, id |-> rule.id, tier |-> elected])
  /\ UNCHANGED <<inputs, entry, seen, tier, at, winner, contenders, elected>>

\* Anything thrown on the way denies.
Throw ==
  /\ pc # "decided"
  /\ Decide(Failed)
  /\ UNCHANGED <<inputs, entry, seen, tier, at, winner, contenders, elected>>

Next == Validate \/ Gather \/ Scan \/ Contend \/ Elect \/ Resolve \/ Throw

Spec == Init /\ [][Next]_vars

-----------------------------------------------------------------------------
(* Properties *)

TypeOK ==
  /\ raw \in Requests \cup {Unrecognized}
  /\ tiers \in Seq(TierRules)
  /\ pc \in {"validate", "gather", "scan", "elect", "decided"}
  /\ entry \in 1 .. Len(tiers) + 1
  /\ seen \in [POLICY_TIERS -> Seq(AllRules)]
  /\ tier \in 1 .. 4 /\ (pc = "scan" => tier \in POLICY_TIERS)
  /\ pc = "scan" => at \in 1 .. Len(seen[tier]) + 1
  /\ at \in Nat /\ winner \in Nat
  /\ contenders \in [POLICY_TIERS -> Nat]
  /\ \A t \in POLICY_TIERS : contenders[t] \in 0 .. Len(seen[t])
  /\ elected \in 0 .. 3
  /\ decision.outcome \in Outcomes \cup {"none"} /\ decision.tier \in 0 .. 3

\* A rule that matches the request, in a list of tier t.
Applies(t, rule) ==
  \E e \in DOMAIN tiers :
    /\ tiers[e].tier = t
    /\ \E i \in DOMAIN tiers[e].rules : tiers[e].rules[i] = rule
    /\ Matches(rule, raw)

\* An allow is earned: the capability was recognized, a matching rule of some
\* tier allows it, and no matching rule of any tier denies it or asks
\* (AC-21.2a, AC-21.3, AC-21.5).
AllowIsEarned ==
  decision.outcome = "allow" =>
    /\ raw # Unrecognized
    /\ \E t \in POLICY_TIERS, rule \in AllRules : Applies(t, rule) /\ rule.outcome = "allow"
    /\ \A t \in POLICY_TIERS, rule \in AllRules : Applies(t, rule) => rule.outcome = "allow"

\* A matching deny of any tier is never answered with less than a deny.
DenyAnywhereWins ==
  (/\ pc = "decided" /\ raw # Unrecognized
   /\ \E t \in POLICY_TIERS, rule \in AllRules : Applies(t, rule) /\ rule.outcome = "deny")
    => decision.outcome = "deny"

\* The places of the rules that match the request: the list, and the rule in it.
Places ==
  UNION {{<<e, i>> : i \in {j \in DOMAIN tiers[e].rules : Matches(tiers[e].rules[j], raw)}} :
           e \in DOMAIN tiers}

RuleAt(p) == tiers[p[1]].rules[p[2]]

\* The stronger outcome first, then the higher tier, then the earlier place.
Before(p, q) ==
  \/ Stronger(RuleAt(p), RuleAt(q))
  \/ /\ RuleAt(p).outcome = RuleAt(q).outcome
     /\ \/ tiers[p[1]].tier < tiers[q[1]].tier
        \/ /\ tiers[p[1]].tier = tiers[q[1]].tier
           /\ p[1] < q[1] \/ (p[1] = q[1] /\ p[2] <= q[2])

\* The decision names the rule that made it: of all matching ones the first of
\* the strongest outcome in the highest tier that has one (AC-21.2b).
AttributedRule ==
  (pc = "decided" /\ decision # Failed /\ raw # Unrecognized) =>
    IF Places = {} THEN decision = Default
    ELSE \E p \in Places :
           /\ \A q \in Places : Before(p, q)
           /\ decision = [outcome |-> RuleAt(p).outcome, id |-> RuleAt(p).id,
                           tier |-> tiers[p[1]].tier]

-----------------------------------------------------------------------------
(* Why they hold: what the loops have found so far *)

PickOf(t) == seen[t][contenders[t]]

\* The rules gathered come from the lists gathered ...
SeenFrom ==
  \A t \in POLICY_TIERS : \A j \in 1 .. Len(seen[t]) :
    \E e \in 1 .. entry - 1 :
      tiers[e].tier = t /\ \E i \in DOMAIN tiers[e].rules : tiers[e].rules[i] = seen[t][j]

\* ... and are all of theirs.
SeenAll ==
  \A e \in 1 .. entry - 1 : \A i \in 1 .. Len(tiers[e].rules) :
    \E j \in 1 .. Len(seen[tiers[e].tier]) : seen[tiers[e].tier][j] = tiers[e].rules[i]

SeenInv ==
  /\ SeenFrom /\ SeenAll
  /\ pc \in {"scan", "elect"} => entry = Len(tiers) + 1

\* w is the strongest match among the first n rules of tier t, or there is none.
Picks(t, w, n) ==
  /\ w = 0 => \A j \in 1 .. n : ~ Matches(seen[t][j], raw)
  /\ w # 0 => /\ w \in 1 .. n /\ Matches(seen[t][w], raw)
              /\ \A j \in 1 .. n :
                   Matches(seen[t][j], raw) => ~ Stronger(seen[t][j], seen[t][w])

ScanInv ==
  /\ pc = "scan" => /\ Picks(tier, winner, at - 1)
                    /\ \A t \in 1 .. tier - 1 : Picks(t, contenders[t], Len(seen[t]))
  /\ pc = "elect" => \A t \in POLICY_TIERS : Picks(t, contenders[t], Len(seen[t]))

\* The elected contender is the strongest of those looked at.
ElectInv ==
  /\ pc # "decided" => decision = Undecided
  /\ pc \notin {"elect", "decided"} => elected = 0
  /\ pc \in {"gather", "scan", "elect"} => raw # Unrecognized
  /\ pc \in {"validate", "gather"} => tier = 1 /\ at = 1 /\ winner = 0
  /\ (pc = "elect" /\ elected = 0) => \A t \in POLICY_TIERS : t < tier => contenders[t] = 0
  /\ (pc = "elect" /\ elected # 0) =>
       /\ elected < tier /\ contenders[elected] # 0
       /\ \A t \in POLICY_TIERS :
            (t < tier /\ contenders[t] # 0) => ~ Stronger(PickOf(t), PickOf(elected))

\* The inductive invariant: the two properties follow at the decision.
PolicyInv ==
  /\ TypeOK /\ SeenInv /\ ScanInv /\ ElectInv
  /\ AllowIsEarned /\ DenyAnywhereWins

\* The rules gathered for a tier are those of its lists, each from its own place and
\* all in the order of their places.
LaidOut(t, list, place) ==
  /\ \A j \in 1 .. Len(seen[t]) :
       /\ list[j] \in 1 .. entry - 1 /\ tiers[list[j]].tier = t
       /\ place[j] \in 1 .. Len(tiers[list[j]].rules)
       /\ seen[t][j] = tiers[list[j]].rules[place[j]]
  /\ \A j, k \in 1 .. Len(seen[t]) :
       j < k => list[j] < list[k] \/ (list[j] = list[k] /\ place[j] < place[k])
  /\ \A e \in 1 .. entry - 1 : tiers[e].tier = t =>
       \A i \in 1 .. Len(tiers[e].rules) :
         \E j \in 1 .. Len(seen[t]) : list[j] = e /\ place[j] = i

OrderInv ==
  \A t \in POLICY_TIERS :
    \E list, place \in [1 .. Len(seen[t]) -> Nat] : LaidOut(t, list, place)

\* The pick of a tier comes before all that are as strong, ...
PicksFirst(t, w) ==
  w # 0 => \A j \in 1 .. w - 1 :
             Matches(seen[t][j], raw) => Stronger(seen[t][w], seen[t][j])

\* ... and the elected tier before all that have one.
FirstInv ==
  /\ pc = "scan" => PicksFirst(tier, winner)
  /\ pc = "scan" => \A t \in 1 .. tier - 1 : PicksFirst(t, contenders[t])
  /\ pc = "elect" => \A t \in POLICY_TIERS : PicksFirst(t, contenders[t])
  /\ (pc = "elect" /\ elected # 0) =>
       \A t \in POLICY_TIERS :
         (t < elected /\ contenders[t] # 0) => Stronger(PickOf(elected), PickOf(t))

\* The inductive invariant of the attribution, on top of PolicyInv.
AttributionInv == OrderInv /\ FirstInv /\ AttributedRule
=============================================================================
