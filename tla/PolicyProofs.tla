---------------------------- MODULE PolicyProofs ----------------------------
(***************************************************************************)
(* Proofs about Policy, for any requests, rules and rule lists: PolicyInv  *)
(* is inductive, and an allow is earned and a deny wins because of it; on  *)
(* top of it AttributionInv is, which tells the rule that decided.         *)
(***************************************************************************)
EXTENDS Policy, TLAPS

\* Concatenation, element by element.
LEMMA ConcatElements ==
  ASSUME NEW S, NEW s \in Seq(S), NEW u \in Seq(S)
  PROVE  /\ s \o u \in Seq(S)
         /\ Len(s \o u) = Len(s) + Len(u)
         /\ \A j \in 1 .. Len(s) : (s \o u)[j] = s[j]
         /\ \A j \in 1 .. Len(u) : (s \o u)[Len(s) + j] = u[j]
         /\ \A j \in 1 .. Len(s \o u) :
              \/ j \in 1 .. Len(s)
              \/ j - Len(s) \in 1 .. Len(u) /\ (s \o u)[j] = u[j - Len(s)]
  OBVIOUS

\* Every rule a call can meet has one of the three outcomes.
LEMMA RuleOutcomes ==
  \A rule \in AllRules : rule.outcome \in Outcomes
  BY RulesAssumption DEF AllRules, BUILTIN_ALLOW_READ, Outcomes

\* Among three outcomes, "not stronger" is a total preorder with deny on top.
LEMMA NotStronger ==
  ASSUME NEW r \in AllRules, NEW s \in AllRules, ~ Stronger(r, s)
  PROVE  /\ s.outcome = "allow" => r.outcome = "allow"
         /\ r.outcome = "deny" => s.outcome = "deny"
         /\ \A q \in AllRules : ~ Stronger(s, q) => ~ Stronger(r, q)
         /\ \A q \in AllRules : Stronger(q, s) => ~ Stronger(r, q)
  BY RuleOutcomes DEF Stronger, PRECEDENCE, Outcomes

-----------------------------------------------------------------------------
(* The invariant *)

LEMMA InitPolicyInv == Init => PolicyInv
  <1> SUFFICES ASSUME Init PROVE PolicyInv
    OBVIOUS
  <1>1. tiers \in Seq(TierRules) /\ Len(tiers) \in Nat
    <2>1. PICK list \in TierLists :
            tiers = Append(list, [tier |-> Session, rules |-> <<BUILTIN_ALLOW_READ>>])
      BY DEF Init
    <2>2. list \in Seq(TierRules)
      BY RulesAssumption
    <2>3. <<BUILTIN_ALLOW_READ>> \in Seq(AllRules)
      BY DEF AllRules
    <2>4. [tier |-> Session, rules |-> <<BUILTIN_ALLOW_READ>>] \in TierRules
      BY <2>3 DEF TierRules, Session, POLICY_TIERS
    <2> QED
      BY <2>1, <2>2, <2>4
  <1>2. TypeOK
    BY <1>1 DEF Init, TypeOK, POLICY_TIERS, Undecided, Outcomes
  <1>3. SeenInv
    BY <1>1 DEF Init, SeenInv, SeenFrom, SeenAll, POLICY_TIERS
  <1>4. ScanInv /\ ElectInv
    BY <1>1 DEF Init, ScanInv, ElectInv, POLICY_TIERS
  <1>5. AllowIsEarned /\ DenyAnywhereWins
    BY DEF Init, AllowIsEarned, DenyAnywhereWins, Undecided
  <1> QED
    BY <1>2, <1>3, <1>4, <1>5 DEF PolicyInv

\* What has been gathered stays gathered while nothing more is.
LEMMA SeenKept ==
  ASSUME UNCHANGED <<tiers, entry, seen>>
  PROVE  (SeenFrom => SeenFrom') /\ (SeenAll => SeenAll')
  BY DEF SeenFrom, SeenAll

LEMMA NextPolicyInv == PolicyInv /\ [Next]_vars => PolicyInv'
  <1> SUFFICES ASSUME PolicyInv, [Next]_vars PROVE PolicyInv'
    OBVIOUS
  <1> USE DEF PolicyInv
  <1>1. CASE Validate
    <2>1. TypeOK'
      BY <1>1 DEF TypeOK, Validate, Decide, inputs, Default, Outcomes
    <2>2. SeenInv' /\ ScanInv'
      <3>1. SeenFrom' /\ SeenAll'
        BY <1>1, SeenKept DEF Validate, inputs, SeenInv
      <3> QED
        BY <1>1, <3>1 DEF Validate, Decide, SeenInv, ScanInv
    <2>3. ElectInv'
      BY <1>1 DEF Validate, Decide, inputs, ElectInv
    <2>4. AllowIsEarned' /\ DenyAnywhereWins'
      BY <1>1 DEF Validate, Decide, inputs, AllowIsEarned, DenyAnywhereWins, ElectInv,
                  Default, Undecided
    <2> QED
      BY <2>1, <2>2, <2>3, <2>4
  <1>2. CASE Gather
    <2> DEFINE t == tiers[entry].tier
               u == tiers[entry].rules
    <2>1. CASE entry <= Len(tiers)
      <3>1. tiers[entry] \in TierRules
        BY <2>1 DEF TypeOK
      <3>2. t \in POLICY_TIERS /\ u \in Seq(AllRules) /\ seen[t] \in Seq(AllRules)
        BY <3>1 DEF TierRules, TypeOK
      <3>3. /\ seen' = [seen EXCEPT ![t] = seen[t] \o u]
            /\ entry' = entry + 1 /\ UNCHANGED <<pc, inputs, tier, at, winner>>
            /\ UNCHANGED <<contenders, elected, decision>> /\ pc = "gather"
        BY <1>2, <2>1 DEF Gather
      <3> HIDE DEF t, u
      <3>4. /\ seen'[t] = seen[t] \o u /\ seen'[t] \in Seq(AllRules)
            /\ Len(seen'[t]) = Len(seen[t]) + Len(u)
            /\ \A j \in 1 .. Len(seen[t]) : seen'[t][j] = seen[t][j]
            /\ \A j \in 1 .. Len(u) : seen'[t][Len(seen[t]) + j] = u[j]
            /\ \A j \in 1 .. Len(seen'[t]) :
                 \/ j \in 1 .. Len(seen[t])
                 \/ j - Len(seen[t]) \in 1 .. Len(u) /\ seen'[t][j] = u[j - Len(seen[t])]
        <4>1. seen'[t] = seen[t] \o u
          BY <3>2, <3>3 DEF TypeOK
        <4> QED
          BY <4>1, <3>2, ConcatElements
      <3>5. \A v \in POLICY_TIERS : v # t => seen'[v] = seen[v]
        BY <3>2, <3>3 DEF TypeOK
      <3>6. TypeOK'
        <4>1. seen' \in [POLICY_TIERS -> Seq(AllRules)]
          BY <3>2, <3>3, <3>4 DEF TypeOK
        <4>2. \A v \in POLICY_TIERS : contenders[v] \in 0 .. Len(seen'[v])
          <5> TAKE v \in POLICY_TIERS
          <5>1. contenders[v] \in 0 .. Len(seen[v]) /\ Len(seen[v]) \in Nat
            BY DEF TypeOK
          <5>2. Len(u) \in Nat
            BY <3>2
          <5> QED
            BY <5>1, <5>2, <3>4, <3>5
        <4>3. entry' \in 1 .. Len(tiers') + 1
          BY <2>1, <3>3 DEF inputs, TypeOK
        <4> QED
          BY <3>3, <4>1, <4>2, <4>3 DEF TypeOK, inputs
      <3>7. SeenInv'
        <4>1. ASSUME NEW v \in POLICY_TIERS, NEW j \in 1 .. Len(seen'[v])
              PROVE  \E e \in 1 .. entry :
                       /\ tiers[e].tier = v
                       /\ \E i \in DOMAIN tiers[e].rules : tiers[e].rules[i] = seen'[v][j]
          <5>1. CASE v # t \/ j \in 1 .. Len(seen[t])
            <6>1. j \in 1 .. Len(seen[v]) /\ seen'[v][j] = seen[v][j]
              BY <5>1, <3>4, <3>5
            <6>2. PICK e \in 1 .. entry - 1 :
                    /\ tiers[e].tier = v
                    /\ \E i \in DOMAIN tiers[e].rules : tiers[e].rules[i] = seen[v][j]
              BY <6>1 DEF SeenInv, SeenFrom
            <6>3. e \in 1 .. entry
              BY <6>2 DEF TypeOK
            <6> QED
              BY <6>1, <6>2, <6>3
          <5>3. CASE /\ v = t
                     /\ j - Len(seen[t]) \in 1 .. Len(u)
                     /\ seen'[t][j] = u[j - Len(seen[t])]
            <6>1. entry \in 1 .. entry
              BY DEF TypeOK
            <6>2. j - Len(seen[t]) \in DOMAIN u
              BY <5>3, <3>2
            <6> QED
              BY <5>3, <6>1, <6>2 DEF t, u
          <5> QED
            BY <5>1, <5>3, <3>4
        <4>2. ASSUME NEW e \in 1 .. entry, NEW i \in 1 .. Len(tiers[e].rules)
              PROVE  \E j \in 1 .. Len(seen'[tiers[e].tier]) :
                       seen'[tiers[e].tier][j] = tiers[e].rules[i]
          <5>1. CASE e = entry
            <6>1. i \in 1 .. Len(u) /\ tiers[e].tier = t /\ tiers[e].rules[i] = u[i]
              BY <5>1 DEF t, u
            <6>2. Len(seen[t]) + i \in 1 .. Len(seen'[t])
              BY <6>1, <3>2, <3>4
            <6> QED
              BY <6>1, <6>2, <3>4
          <5>2. CASE e # entry
            <6>1. e \in 1 .. entry - 1 /\ tiers[e] \in TierRules
              BY <5>2, <2>1 DEF TypeOK
            <6>2. PICK j \in 1 .. Len(seen[tiers[e].tier]) :
                    seen[tiers[e].tier][j] = tiers[e].rules[i]
              BY <6>1 DEF SeenInv, SeenAll
            <6>3. tiers[e].tier \in POLICY_TIERS
              BY <6>1 DEF TierRules
            <6>4. CASE tiers[e].tier # t
              BY <6>4, <6>2, <6>3, <3>5
            <6>5. CASE tiers[e].tier = t
              <7>1. j \in 1 .. Len(seen'[t])
                BY <6>2, <6>5, <3>2, <3>4
              <7> QED
                BY <7>1, <6>2, <6>5, <3>4
            <6> QED
              BY <6>4, <6>5
          <5> QED
            BY <5>1, <5>2
        <4>3. entry' - 1 = entry
          BY <3>3 DEF TypeOK
        <4> QED
          <5>1. tiers' = tiers /\ pc' = "gather"
            BY <3>3 DEF inputs
          <5>2. SeenFrom'
            BY <4>1, <4>3, <5>1 DEF SeenFrom
          <5>3. SeenAll'
            BY <4>2, <4>3, <5>1 DEF SeenAll
          <5> QED
            BY <5>1, <5>2, <5>3 DEF SeenInv
      <3>8. ScanInv' /\ ElectInv'
        BY <3>3 DEF ScanInv, ElectInv, inputs
      <3>9. AllowIsEarned' /\ DenyAnywhereWins'
        BY <3>3 DEF AllowIsEarned, DenyAnywhereWins, ElectInv, Undecided, inputs
      <3> QED
        BY <3>6, <3>7, <3>8, <3>9
    <2>2. CASE ~ (entry <= Len(tiers))
      <3>1. /\ pc = "gather" /\ pc' = "scan" /\ entry = Len(tiers) + 1
            /\ UNCHANGED <<entry, seen, inputs, tier, at, winner, contenders, elected, decision>>
        BY <1>2, <2>2 DEF Gather, TypeOK
      <3>2. tier = 1 /\ at = 1 /\ winner = 0 /\ raw # Unrecognized /\ elected = 0
        BY <3>1 DEF ElectInv
      <3>3. TypeOK'
        BY <3>1, <3>2 DEF TypeOK, inputs, POLICY_TIERS
      <3>4. SeenInv'
        BY <3>1, SeenKept DEF SeenInv, inputs
      <3>5. ScanInv'
        BY <3>1, <3>2 DEF ScanInv, Picks
      <3>6. ElectInv'
        BY <3>1, <3>2 DEF ElectInv, inputs
      <3>7. AllowIsEarned' /\ DenyAnywhereWins'
        BY <3>1 DEF AllowIsEarned, DenyAnywhereWins, ElectInv, Undecided, inputs
      <3> QED
        BY <3>3, <3>4, <3>5, <3>6, <3>7
    <2> QED
      BY <2>1, <2>2
  <1>3. CASE Scan
    <2>1. /\ pc = "scan" /\ at <= Len(seen[tier]) /\ at \in 1 .. Len(seen[tier])
          /\ winner' = IF Beats(seen[tier][at]) THEN at ELSE winner
          /\ at' = at + 1 /\ tier \in POLICY_TIERS
          /\ UNCHANGED <<inputs, pc, entry, seen, tier, contenders, elected, decision>>
      BY <1>3 DEF Scan, TypeOK
    <2>2. seen[tier] \in Seq(AllRules) /\ Len(seen[tier]) \in Nat
      BY <2>1 DEF TypeOK
    <2>3. TypeOK'
      BY <2>1, <2>2 DEF TypeOK, inputs
    <2>4. SeenInv'
      BY <2>1, SeenKept DEF SeenInv, inputs
    <2>5. Picks(tier, winner', at)
      <3>1. Picks(tier, winner, at - 1)
        BY <2>1 DEF ScanInv
      <3>2. \A j \in 1 .. at : seen[tier][j] \in AllRules
        BY <2>1, <2>2
      <3>3. CASE Beats(seen[tier][at])
        <4>1. winner' = at /\ Matches(seen[tier][at], raw)
          BY <3>3, <2>1 DEF Beats
        <4>2. ASSUME NEW j \in 1 .. at, Matches(seen[tier][j], raw)
              PROVE  ~ Stronger(seen[tier][j], seen[tier][at])
          <5>1. CASE j = at
            BY <5>1, <3>2, RuleOutcomes DEF Stronger, PRECEDENCE, Outcomes
          <5>2. CASE j # at
            <6>1. j \in 1 .. at - 1
              BY <5>2, <2>1
            <6>2. winner # 0 /\ winner \in 1 .. at - 1
              BY <6>1, <3>1, <4>2 DEF Picks
            <6>3. ~ Stronger(seen[tier][j], seen[tier][winner])
              BY <6>1, <6>2, <3>1, <4>2 DEF Picks
            <6>4. Stronger(seen[tier][at], seen[tier][winner])
              BY <3>3, <6>2 DEF Beats
            <6>5. /\ seen[tier][j] \in AllRules /\ seen[tier][at] \in AllRules
                  /\ seen[tier][winner] \in AllRules
              BY <3>2, <6>2, <2>1
            <6> QED
              BY <6>3, <6>4, <6>5, NotStronger
          <5> QED
            BY <5>1, <5>2
        <4> QED
          BY <4>1, <4>2, <2>1 DEF Picks
      <3>4. CASE ~ Beats(seen[tier][at])
        <4>1. winner' = winner
          BY <3>4, <2>1
        <4>2. \A j \in 1 .. at : j \in 1 .. at - 1 \/ j = at
          BY <2>1
        <4>3. winner # 0 => winner \in 1 .. at
          BY <3>1, <2>1 DEF Picks
        <4> QED
          BY <4>1, <4>2, <4>3, <3>1, <3>4 DEF Picks, Beats
      <3> QED
        BY <3>3, <3>4
    <2>6. ScanInv'
      <3>1. at' - 1 = at
        BY <2>1
      <3>2. Picks(tier, winner, at - 1)'
        BY <2>1, <2>5, <3>1 DEF Picks, inputs
      <3>3. \A v \in 1 .. tier' - 1 : Picks(v, contenders[v], Len(seen[v]))'
        BY <2>1 DEF Picks, inputs, ScanInv
      <3> QED
        BY <2>1, <3>2, <3>3 DEF ScanInv
    <2>7. ElectInv'
      BY <2>1 DEF ElectInv, inputs
    <2>8. AllowIsEarned' /\ DenyAnywhereWins'
      BY <2>1 DEF AllowIsEarned, DenyAnywhereWins, ElectInv, Undecided, inputs
    <2> QED
      BY <2>3, <2>4, <2>6, <2>7, <2>8
  <1>4. CASE Contend
    <2>1. /\ pc = "scan" /\ at > Len(seen[tier]) /\ at' = 1 /\ winner' = 0
          /\ contenders' = [contenders EXCEPT ![tier] = winner]
          /\ IF tier = Session THEN tier' = 1 /\ pc' = "elect"
                               ELSE tier' = tier + 1 /\ UNCHANGED pc
          /\ tier \in POLICY_TIERS /\ at \in 1 .. Len(seen[tier]) + 1
          /\ UNCHANGED <<inputs, entry, seen, elected, decision>>
      BY <1>4 DEF Contend, TypeOK
    <2>2. \A v \in POLICY_TIERS : seen[v] \in Seq(AllRules) /\ Len(seen[v]) \in Nat
      BY DEF TypeOK
    <2>3. at - 1 = Len(seen[tier]) /\ Picks(tier, winner, Len(seen[tier]))
      <3>1. at - 1 = Len(seen[tier])
        BY <2>1, <2>2
      <3> QED
        BY <2>1, <3>1 DEF ScanInv
    <2>4. winner \in 0 .. Len(seen[tier])
      BY <2>1, <2>2, <2>3 DEF Picks
    <2>5. contenders'[tier] = winner
          /\ \A v \in POLICY_TIERS : v # tier => contenders'[v] = contenders[v]
      BY <2>1 DEF TypeOK
    <2>6. TypeOK'
      <3>1. tier' \in POLICY_TIERS
        BY <2>1 DEF POLICY_TIERS, Session
      <3>2. at' \in 1 .. Len(seen'[tier']) + 1
        BY <2>1, <2>2, <3>1
      <3>3. contenders' \in [POLICY_TIERS -> Nat]
        BY <2>1, <2>4 DEF TypeOK
      <3>4. \A v \in POLICY_TIERS : contenders'[v] \in 0 .. Len(seen'[v])
        BY <2>1, <2>4, <2>5 DEF TypeOK
      <3>5. pc' \in {"scan", "elect"} /\ tier' \in 1 .. 4 /\ winner' \in Nat /\ at' \in Nat
        BY <2>1, <3>1 DEF POLICY_TIERS
      <3> QED
        BY <2>1, <3>1, <3>2, <3>3, <3>4, <3>5 DEF TypeOK, inputs
    <2>7. SeenInv'
      BY <2>1, SeenKept DEF SeenInv, inputs
    <2>8. \A v \in 1 .. tier : Picks(v, contenders[v], Len(seen[v]))'
      <3> SUFFICES ASSUME NEW v \in 1 .. tier
                   PROVE  Picks(v, contenders'[v], Len(seen[v]))
        BY <2>1 DEF Picks, inputs
      <3>1. CASE v = tier
        BY <3>1, <2>3, <2>5
      <3>2. CASE v # tier
        <4>1. v \in 1 .. tier - 1 /\ v \in POLICY_TIERS
          BY <3>2, <2>1 DEF POLICY_TIERS
        <4> QED
          BY <4>1, <3>2, <2>1, <2>5 DEF ScanInv
      <3> QED
        BY <3>1, <3>2
    <2>9. ScanInv'
      <3>1. CASE tier = Session
        BY <3>1, <2>1, <2>8 DEF ScanInv, Session, POLICY_TIERS
      <3>2. CASE tier # Session
        <4>1. pc' = "scan" /\ tier' - 1 = tier /\ at' - 1 = 0
          BY <3>2, <2>1 DEF POLICY_TIERS
        <4>2. Picks(tier, winner, at - 1)'
          BY <4>1, <2>1 DEF Picks
        <4> QED
          BY <4>1, <4>2, <2>8 DEF ScanInv
      <3> QED
        BY <3>1, <3>2
    <2>10. ElectInv'
      BY <2>1 DEF ElectInv, inputs, POLICY_TIERS
    <2>11. AllowIsEarned' /\ DenyAnywhereWins'
      BY <2>1 DEF AllowIsEarned, DenyAnywhereWins, ElectInv, Undecided, inputs
    <2> QED
      BY <2>6, <2>7, <2>9, <2>10, <2>11
  <1>5. CASE Elect
    <2>1. /\ pc = "elect" /\ tier \in POLICY_TIERS
          /\ elected' = IF Supersedes(tier) THEN tier ELSE elected
          /\ tier' = tier + 1
          /\ UNCHANGED <<inputs, pc, entry, seen, at, winner, contenders, decision>>
      BY <1>5 DEF Elect
    <2>2. TypeOK'
      BY <2>1 DEF TypeOK, inputs, POLICY_TIERS
    <2>3. SeenInv'
      BY <2>1, SeenKept DEF SeenInv, inputs
    <2>4. ScanInv'
      BY <2>1 DEF ScanInv, Picks, inputs
    <2>5. \A v \in POLICY_TIERS : contenders[v] # 0 => PickOf(v) \in AllRules
      BY DEF TypeOK, PickOf
    <2>6. \A v \in POLICY_TIERS : v < tier' => v < tier \/ v = tier
      BY <2>1 DEF POLICY_TIERS
    <2>7. \A v \in POLICY_TIERS : ~ Stronger(PickOf(v), PickOf(v)) \/ contenders[v] = 0
      BY <2>5, RuleOutcomes DEF Stronger, PRECEDENCE, Outcomes
    <2>8. elected' = 0 => \A v \in POLICY_TIERS : v < tier' => contenders[v] = 0
      BY <2>1, <2>6 DEF Supersedes, ElectInv, POLICY_TIERS
    <2>9. ASSUME elected' # 0
          PROVE  /\ elected' < tier' /\ contenders[elected'] # 0
                 /\ \A v \in POLICY_TIERS :
                      (v < tier' /\ contenders[v] # 0) => ~ Stronger(PickOf(v), PickOf(elected'))
      <3>1. CASE Supersedes(tier)
        <4>1. elected' = tier /\ contenders[tier] # 0
          BY <3>1, <2>1 DEF Supersedes
        <4>2. ASSUME NEW v \in POLICY_TIERS, v < tier, contenders[v] # 0
              PROVE  ~ Stronger(PickOf(v), PickOf(tier))
          <5>1. elected # 0 /\ elected \in POLICY_TIERS
            BY <4>2, <2>1 DEF ElectInv, TypeOK, POLICY_TIERS
          <5>2. ~ Stronger(PickOf(v), PickOf(elected)) /\ contenders[elected] # 0
            BY <4>2, <5>1, <2>1 DEF ElectInv
          <5>3. Stronger(PickOf(tier), PickOf(elected))
            BY <3>1, <5>1 DEF Supersedes, PickOf
          <5> QED
            BY <2>1, <2>5, <4>1, <4>2, <5>1, <5>2, <5>3, NotStronger
        <4>3. ~ Stronger(PickOf(tier), PickOf(tier))
          BY <4>1, <2>1, <2>7
        <4>4. tier < tier'
          BY <2>1 DEF POLICY_TIERS
        <4>5. \A v \in POLICY_TIERS :
                (v < tier' /\ contenders[v] # 0) => ~ Stronger(PickOf(v), PickOf(tier))
          BY <4>2, <4>3, <2>6
        <4> QED
          BY <4>1, <4>4, <4>5
      <3>2. CASE ~ Supersedes(tier)
        <4>1. elected' = elected
          BY <3>2, <2>1
        <4>2. elected < tier' /\ contenders[elected] # 0
          BY <4>1, <2>1, <2>9 DEF ElectInv, TypeOK, POLICY_TIERS
        <4>3. contenders[tier] # 0 => ~ Stronger(PickOf(tier), PickOf(elected))
          BY <4>1, <2>9, <3>2 DEF Supersedes, PickOf
        <4> QED
          BY <4>1, <4>2, <4>3, <2>1, <2>6, <2>9 DEF ElectInv
      <3> QED
        BY <3>1, <3>2
    <2>10. ElectInv'
      BY <2>1, <2>8, <2>9 DEF ElectInv, inputs, PickOf
    <2>11. AllowIsEarned' /\ DenyAnywhereWins'
      BY <2>1 DEF AllowIsEarned, DenyAnywhereWins, ElectInv, Undecided, inputs
    <2> QED
      BY <2>2, <2>3, <2>4, <2>10, <2>11
  <1>6. CASE Resolve
    <2> DEFINE rule == PickOf(elected)
    <2>1. /\ pc = "elect" /\ tier \notin POLICY_TIERS /\ pc' = "decided"
          /\ decision' = IF elected = 0 THEN Default
                         ELSE [outcome |-> rule.outcome, id |-> rule.id, tier |-> elected]
          /\ UNCHANGED <<inputs, entry, seen, tier, at, winner, contenders, elected>>
      BY <1>6 DEF Resolve, Decide, PickOf
    <2> HIDE DEF rule
    <2>2. \A v \in POLICY_TIERS : v < tier
      BY <2>1 DEF TypeOK, POLICY_TIERS
    <2>3. entry - 1 = Len(tiers) /\ raw # Unrecognized
      BY <2>1 DEF SeenInv, ElectInv, TypeOK
    <2>4. ASSUME NEW v \in POLICY_TIERS, NEW r \in AllRules, Applies(v, r)
          PROVE  contenders[v] # 0 /\ ~ Stronger(r, PickOf(v)) /\ PickOf(v) \in AllRules
      <3>1. PICK e \in DOMAIN tiers :
              /\ tiers[e].tier = v
              /\ \E i \in DOMAIN tiers[e].rules : tiers[e].rules[i] = r
              /\ Matches(r, raw)
        BY <2>4 DEF Applies
      <3>2. e \in 1 .. entry - 1 /\ tiers[e] \in TierRules
        BY <3>1, <2>3 DEF TypeOK
      <3>3. PICK i \in 1 .. Len(tiers[e].rules) : tiers[e].rules[i] = r
        BY <3>1, <3>2 DEF TierRules
      <3>4. PICK j \in 1 .. Len(seen[v]) : seen[v][j] = r
        BY <3>1, <3>2, <3>3 DEF SeenInv, SeenAll
      <3>5. Picks(v, contenders[v], Len(seen[v]))
        BY <2>1 DEF ScanInv
      <3>6. contenders[v] # 0 /\ contenders[v] \in 1 .. Len(seen[v])
            /\ ~ Stronger(r, PickOf(v))
        BY <3>1, <3>4, <3>5 DEF Picks, PickOf
      <3> QED
        BY <3>6 DEF TypeOK, PickOf
    <2>5. ASSUME NEW v \in POLICY_TIERS, NEW r \in AllRules, Applies(v, r)
          PROVE  elected # 0 /\ ~ Stronger(r, rule)
      <3>1. elected # 0
        BY <2>1, <2>2, <2>4, <2>5 DEF ElectInv
      <3>2. elected \in POLICY_TIERS /\ contenders[elected] # 0
        BY <3>1, <2>1 DEF ElectInv, TypeOK, POLICY_TIERS
      <3>3. ~ Stronger(PickOf(v), rule)
        BY <3>1, <2>1, <2>2, <2>4, <2>5 DEF ElectInv, rule
      <3>4. rule \in AllRules
        BY <3>2 DEF TypeOK, PickOf, rule
      <3> QED
        BY <3>1, <3>3, <3>4, <2>4, <2>5, NotStronger
    <2>6. ASSUME elected # 0
          PROVE  /\ elected \in POLICY_TIERS /\ rule \in AllRules
                 /\ Applies(elected, rule)
      <3>1. elected \in POLICY_TIERS /\ contenders[elected] # 0
        BY <2>6, <2>1 DEF ElectInv, TypeOK, POLICY_TIERS
      <3>2. contenders[elected] \in 1 .. Len(seen[elected]) /\ Matches(rule, raw)
        BY <3>1, <2>1 DEF ScanInv, Picks, PickOf, rule
      <3>3. PICK e \in 1 .. entry - 1 :
              /\ tiers[e].tier = elected
              /\ \E i \in DOMAIN tiers[e].rules : tiers[e].rules[i] = rule
        BY <3>1, <3>2 DEF SeenInv, SeenFrom, PickOf, rule
      <3>4. e \in DOMAIN tiers
        BY <3>3, <2>3 DEF TypeOK
      <3>5. rule \in AllRules
        BY <3>1, <3>2 DEF TypeOK, PickOf, rule
      <3> QED
        BY <3>1, <3>2, <3>3, <3>4, <3>5 DEF Applies
    <2>7. \A v, r : Applies(v, r)' <=> Applies(v, r)
      BY <2>1 DEF Applies, inputs
    <2>8. TypeOK'
      <3>1. decision'.outcome \in Outcomes /\ decision'.tier \in 0 .. 3
        BY <2>1, <2>6, RuleOutcomes DEF Default, Outcomes, POLICY_TIERS
      <3> QED
        BY <3>1, <2>1 DEF TypeOK, inputs
    <2>9. SeenInv' /\ ScanInv' /\ ElectInv'
      BY <2>1, SeenKept DEF SeenInv, ScanInv, ElectInv, inputs
    <2>10. AllowIsEarned'
      <3> SUFFICES ASSUME decision'.outcome = "allow"
                   PROVE  /\ raw # Unrecognized
                          /\ \E v \in POLICY_TIERS, r \in AllRules :
                               Applies(v, r) /\ r.outcome = "allow"
                          /\ \A v \in POLICY_TIERS, r \in AllRules :
                               Applies(v, r) => r.outcome = "allow"
        BY <2>1, <2>7 DEF AllowIsEarned, inputs
      <3>1. elected # 0 /\ rule.outcome = "allow"
        BY <2>1 DEF Default
      <3> QED
        BY <3>1, <2>3, <2>5, <2>6, NotStronger
    <2>11. DenyAnywhereWins'
      <3> SUFFICES ASSUME NEW v \in POLICY_TIERS, NEW r \in AllRules,
                          Applies(v, r), r.outcome = "deny"
                   PROVE  decision'.outcome = "deny"
        BY <2>7 DEF DenyAnywhereWins
      <3>1. elected # 0 /\ rule \in AllRules /\ ~ Stronger(r, rule)
        BY <2>5, <2>6
      <3> QED
        BY <3>1, <2>1, NotStronger
    <2> QED
      BY <2>8, <2>9, <2>10, <2>11
  <1>7. CASE Throw
    <2>1. pc # "decided" /\ pc' = "decided" /\ decision' = Failed
          /\ UNCHANGED <<inputs, entry, seen, tier, at, winner, contenders, elected>>
      BY <1>7 DEF Throw, Decide
    <2>2. TypeOK'
      BY <2>1 DEF TypeOK, inputs, Failed, Outcomes
    <2>3. SeenInv' /\ ScanInv' /\ ElectInv'
      BY <2>1, SeenKept DEF SeenInv, ScanInv, ElectInv, inputs
    <2>4. AllowIsEarned' /\ DenyAnywhereWins'
      BY <2>1 DEF AllowIsEarned, DenyAnywhereWins, Failed
    <2> QED
      BY <2>2, <2>3, <2>4
  <1>8. CASE UNCHANGED vars
    <2>1. TypeOK' /\ ElectInv'
      BY <1>8 DEF vars, TypeOK, ElectInv, PickOf
    <2>2. SeenInv' /\ ScanInv'
      BY <1>8, SeenKept DEF vars, SeenInv, ScanInv, Picks
    <2>3. AllowIsEarned' /\ DenyAnywhereWins'
      BY <1>8 DEF vars, AllowIsEarned, DenyAnywhereWins, Applies
    <2> QED
      BY <2>1, <2>2, <2>3
  <1> QED
    BY <1>1, <1>2, <1>3, <1>4, <1>5, <1>6, <1>7, <1>8 DEF Next

-----------------------------------------------------------------------------
(* The theorems *)

\* The invariant of the loops of decide holds at every step of them.
THEOREM PolicyInvariant == Spec => []PolicyInv
  <1>1. Init => PolicyInv
    BY InitPolicyInv
  <1>2. PolicyInv /\ [Next]_vars => PolicyInv'
    BY NextPolicyInv
  <1> QED
    BY <1>1, <1>2, PTL DEF Spec

\* No rule lists make decide allow what a matching rule of some tier denies or
\* asks about, or what no rule allows.
THEOREM AllowsAreEarned == Spec => []AllowIsEarned
  <1>1. PolicyInv => AllowIsEarned
    BY DEF PolicyInv
  <1> QED
    BY <1>1, PolicyInvariant, PTL

\* A deny of any tier decides, whatever other tiers say and wherever it stands.
THEOREM DeniesWin == Spec => []DenyAnywhereWins
  <1>1. PolicyInv => DenyAnywhereWins
    BY DEF PolicyInv
  <1> QED
    BY <1>1, PolicyInvariant, PTL

-----------------------------------------------------------------------------
(* The rule that decided *)

\* Where nothing is gathered yet, nothing is out of order.
LEMMA EmptyAttribution ==
  ASSUME entry = 1, seen = [t \in POLICY_TIERS |-> <<>>], pc = "validate"
  PROVE  AttributionInv
  <1>1. ASSUME NEW t \in POLICY_TIERS
        PROVE  \E list, place \in [1 .. Len(seen[t]) -> Nat] : LaidOut(t, list, place)
    <2>1. Len(seen[t]) = 0
      OBVIOUS
    <2>2. \A list, place : LaidOut(t, list, place)
      BY <2>1 DEF LaidOut
    <2>3. [j \in 1 .. Len(seen[t]) |-> 0] \in [1 .. Len(seen[t]) -> Nat]
      OBVIOUS
    <2> QED
      BY <2>2, <2>3
  <1> QED
    BY <1>1 DEF AttributionInv, OrderInv, FirstInv, AttributedRule

LEMMA InitAttribution == Init => AttributionInv
  BY EmptyAttribution DEF Init

LEMMA OrderKept ==
  ASSUME OrderInv, UNCHANGED <<tiers, entry, seen>>
  PROVE  OrderInv'
  <1> SUFFICES ASSUME NEW t \in POLICY_TIERS
               PROVE  \E list, place \in [1 .. Len(seen'[t]) -> Nat] : LaidOut(t, list, place)'
    BY DEF OrderInv
  <1>1. PICK list, place \in [1 .. Len(seen[t]) -> Nat] : LaidOut(t, list, place)
    BY DEF OrderInv
  <1>2. LaidOut(t, list, place)'
    BY <1>1 DEF LaidOut
  <1> QED
    BY <1>1, <1>2

LEMMA GatherKeepsOrder ==
  ASSUME PolicyInv, OrderInv, Gather
  PROVE  OrderInv'
  <1> USE DEF PolicyInv
  <1>1. CASE ~ (entry <= Len(tiers))
    BY <1>1, OrderKept DEF Gather, inputs
  <1>2. CASE entry <= Len(tiers)
    <2> DEFINE t == tiers[entry].tier
               u == tiers[entry].rules
    <2>1. tiers[entry] \in TierRules /\ entry \in 1 .. Len(tiers) /\ entry \in Nat
      BY <1>2 DEF TypeOK
    <2>2. t \in POLICY_TIERS /\ u \in Seq(AllRules) /\ seen[t] \in Seq(AllRules)
      BY <2>1 DEF TierRules, TypeOK
    <2>3. /\ seen' = [seen EXCEPT ![t] = seen[t] \o u]
          /\ entry' = entry + 1 /\ tiers' = tiers
      BY <1>2 DEF Gather, inputs
    <2>4. \A v \in POLICY_TIERS : v # t => seen'[v] = seen[v]
      BY <2>2, <2>3 DEF TypeOK
    <2>5. seen'[t] = seen[t] \o u
      BY <2>2, <2>3 DEF TypeOK
    <2> SUFFICES ASSUME NEW v \in POLICY_TIERS
                 PROVE  \E list, place \in [1 .. Len(seen'[v]) -> Nat] :
                          LaidOut(v, list, place)'
      BY <2>3 DEF OrderInv
    <2>6. PICK list, place \in [1 .. Len(seen[v]) -> Nat] : LaidOut(v, list, place)
      BY DEF OrderInv
    <2>7. CASE v # t
      <3>1. seen'[v] = seen[v]
        BY <2>4, <2>7
      <3>2. entry' - 1 = entry
        BY <2>1, <2>3
      <3>3. \A e \in 1 .. entry : e \in 1 .. entry - 1 \/ tiers[e].tier # v
        BY <2>1, <2>7
      <3>4. \A j \in 1 .. Len(seen[v]) : list[j] \in 1 .. entry
        BY <2>1, <2>6 DEF LaidOut
      <3> HIDE DEF t, u
      <3>5. LaidOut(v, list, place)'
        <4>1. \A j \in 1 .. Len(seen'[v]) :
                /\ list[j] \in 1 .. entry' - 1 /\ tiers'[list[j]].tier = v
                /\ place[j] \in 1 .. Len(tiers'[list[j]].rules)
                /\ seen'[v][j] = tiers'[list[j]].rules[place[j]]
          BY <2>3, <2>6, <3>1, <3>2, <3>4 DEF LaidOut
        <4>2. \A j, k \in 1 .. Len(seen'[v]) :
                j < k => list[j] < list[k] \/ (list[j] = list[k] /\ place[j] < place[k])
          BY <2>6, <3>1 DEF LaidOut
        <4>3. \A e \in 1 .. entry' - 1 : tiers'[e].tier = v =>
                \A i \in 1 .. Len(tiers'[e].rules) :
                  \E j \in 1 .. Len(seen'[v]) : list[j] = e /\ place[j] = i
          BY <2>3, <2>6, <3>1, <3>2, <3>3 DEF LaidOut
        <4> QED
          BY <4>1, <4>2, <4>3 DEF LaidOut
      <3> QED
        BY <2>6, <3>1, <3>5
    <2>8. CASE v = t
      <3> DEFINE n == Len(seen[t])
                 m == Len(seen'[t])
                 list2 == [j \in 1 .. m |-> IF j <= n THEN list[j] ELSE entry]
                 place2 == [j \in 1 .. m |-> IF j <= n THEN place[j] ELSE j - n]
      <3>1. n \in Nat /\ Len(u) \in Nat
        BY <2>2
      <3> HIDE DEF t, u
      <3>2. /\ m = n + Len(u)
            /\ \A j \in 1 .. n : seen'[t][j] = seen[t][j]
            /\ \A j \in 1 .. m :
                 \/ j \in 1 .. n
                 \/ j - n \in 1 .. Len(u) /\ seen'[t][j] = u[j - n]
        BY <2>2, <2>5, ConcatElements
      <3>3. LaidOut(t, list, place) /\ list \in [1 .. n -> Nat] /\ place \in [1 .. n -> Nat]
        BY <2>6, <2>8
      <3> HIDE DEF n, m
      <3>4. list2 \in [1 .. m -> Nat] /\ place2 \in [1 .. m -> Nat]
        BY <2>1, <3>1, <3>2, <3>3
      <3>5. /\ \A j \in 1 .. n : j \in 1 .. m /\ list2[j] = list[j] /\ place2[j] = place[j]
            /\ \A j \in 1 .. m : ~ (j \in 1 .. n) =>
                 j > n /\ list2[j] = entry /\ place2[j] = j - n /\ j - n \in 1 .. Len(u)
        BY <3>1, <3>2
      <3>6. \A j \in 1 .. n :
              /\ list[j] \in 1 .. entry - 1 /\ tiers[list[j]].tier = t
              /\ place[j] \in 1 .. Len(tiers[list[j]].rules)
              /\ seen[t][j] = tiers[list[j]].rules[place[j]]
        BY <3>3 DEF LaidOut, n
      <3> HIDE DEF list2, place2
      <3>7. ASSUME NEW j \in 1 .. m
            PROVE  /\ list2[j] \in 1 .. entry /\ tiers[list2[j]].tier = t
                   /\ place2[j] \in 1 .. Len(tiers[list2[j]].rules)
                   /\ seen'[t][j] = tiers[list2[j]].rules[place2[j]]
        <4>1. CASE j \in 1 .. n
          <5>1. list2[j] = list[j] /\ place2[j] = place[j] /\ seen'[t][j] = seen[t][j]
            BY <3>2, <3>5, <4>1
          <5>2. /\ list[j] \in 1 .. entry - 1 /\ tiers[list[j]].tier = t
                /\ place[j] \in 1 .. Len(tiers[list[j]].rules)
                /\ seen[t][j] = tiers[list[j]].rules[place[j]]
            BY <3>6, <4>1
          <5>3. list[j] \in 1 .. entry
            BY <2>1, <5>2
          <5> QED
            BY <5>1, <5>2, <5>3
        <4>2. CASE ~ (j \in 1 .. n)
          <5>1. /\ list2[j] = entry /\ place2[j] = j - n /\ j - n \in 1 .. Len(u)
                /\ seen'[t][j] = u[j - n]
            BY <3>2, <3>5, <4>2
          <5>2. entry \in 1 .. entry
            BY <2>1
          <5> QED
            BY <5>1, <5>2 DEF t, u
        <4> QED
          BY <4>1, <4>2
      <3>8. ASSUME NEW j \in 1 .. m, NEW k \in 1 .. m, j < k
            PROVE  list2[j] < list2[k] \/ (list2[j] = list2[k] /\ place2[j] < place2[k])
        <4>1. CASE k \in 1 .. n
          <5>1. j \in 1 .. n
            BY <3>1, <3>2, <3>8, <4>1
          <5>2. list[j] < list[k] \/ (list[j] = list[k] /\ place[j] < place[k])
            BY <3>3, <3>8, <4>1, <5>1 DEF LaidOut, n
          <5> QED
            BY <3>1, <3>5, <4>1, <5>1, <5>2
        <4>2. CASE ~ (k \in 1 .. n)
          <5>1. list2[k] = entry /\ place2[k] = k - n
            BY <3>5, <4>2
          <5>2. CASE j \in 1 .. n
            <6>1. list2[j] = list[j] /\ list[j] \in 1 .. entry - 1
              BY <3>5, <3>6, <5>2
            <6> QED
              BY <2>1, <5>1, <6>1
          <5>3. CASE ~ (j \in 1 .. n)
            BY <3>1, <3>2, <3>5, <3>8, <5>1, <5>3
          <5> QED
            BY <5>2, <5>3
        <4> QED
          BY <4>1, <4>2
      <3>9. ASSUME NEW e \in 1 .. entry, tiers[e].tier = t, NEW i \in 1 .. Len(tiers[e].rules)
            PROVE  \E j \in 1 .. m : list2[j] = e /\ place2[j] = i
        <4>1. CASE e = entry
          <5>1. i \in 1 .. Len(u)
            BY <4>1 DEF u
          <5>2. PICK j \in 1 .. m : j = n + i
            BY <3>1, <3>2, <5>1
          <5>3. ~ (j \in 1 .. n) /\ j - n = i
            BY <3>1, <5>1, <5>2
          <5>4. list2[j] = entry /\ place2[j] = j - n
            BY <3>5, <5>3
          <5> QED
            BY <4>1, <5>3, <5>4
        <4>2. CASE e # entry
          <5>1. e \in 1 .. entry - 1
            BY <2>1, <4>2
          <5>2. PICK j \in 1 .. n : list[j] = e /\ place[j] = i
            BY <3>3, <3>9, <5>1 DEF LaidOut, n
          <5> QED
            BY <3>5, <5>2
        <4> QED
          BY <4>1, <4>2
      <3>10. entry' - 1 = entry
        BY <2>1, <2>3
      <3>11. PICK list3, place3 \in [1 .. m -> Nat] : list3 = list2 /\ place3 = place2
        BY <3>4
      <3>12. Len(seen'[v]) = m
        BY <2>8 DEF m
      <3>13. LaidOut(v, list3, place3)'
        <4>1. \A j \in 1 .. Len(seen'[v]) :
                /\ list3[j] \in 1 .. entry' - 1 /\ tiers'[list3[j]].tier = v
                /\ place3[j] \in 1 .. Len(tiers'[list3[j]].rules)
                /\ seen'[v][j] = tiers'[list3[j]].rules[place3[j]]
          BY <2>3, <2>8, <3>7, <3>10, <3>11, <3>12
        <4>2. \A j, k \in 1 .. Len(seen'[v]) :
                j < k => \/ list3[j] < list3[k]
                         \/ list3[j] = list3[k] /\ place3[j] < place3[k]
          BY <3>8, <3>11, <3>12
        <4>3. \A e \in 1 .. entry' - 1 : tiers'[e].tier = v =>
                \A i \in 1 .. Len(tiers'[e].rules) :
                  \E j \in 1 .. Len(seen'[v]) : list3[j] = e /\ place3[j] = i
          BY <2>3, <2>8, <3>9, <3>10, <3>11, <3>12
        <4> QED
          BY <4>1, <4>2, <4>3 DEF LaidOut
      <3> QED
        BY <3>12, <3>13
    <2> QED
      BY <2>7, <2>8
  <1> QED
    BY <1>1, <1>2

\* Before the decision there is no attribution, and after it nothing moves.
LEMMA NotYetAttributed == pc' # "decided" => AttributedRule'
  BY DEF AttributedRule

LEMMA ScanKeepsFirst ==
  ASSUME PolicyInv, FirstInv, Scan
  PROVE  FirstInv'
  <1> USE DEF PolicyInv
  <1>1. /\ pc = "scan" /\ at \in 1 .. Len(seen[tier]) /\ tier \in POLICY_TIERS
        /\ winner' = IF Beats(seen[tier][at]) THEN at ELSE winner
        /\ UNCHANGED <<inputs, pc, seen, tier, contenders>>
    BY DEF Scan, TypeOK
  <1>2. seen[tier] \in Seq(AllRules) /\ Len(seen[tier]) \in Nat
    BY <1>1 DEF TypeOK
  <1>3. Picks(tier, winner, at - 1) /\ PicksFirst(tier, winner)
    BY <1>1 DEF ScanInv, FirstInv
  <1>4. PicksFirst(tier, winner')
    <2>1. CASE ~ Beats(seen[tier][at])
      BY <1>1, <1>3, <2>1
    <2>2. CASE Beats(seen[tier][at])
      <3>1. SUFFICES ASSUME NEW j \in 1 .. at - 1, Matches(seen[tier][j], raw)
                     PROVE  Stronger(seen[tier][at], seen[tier][j])
        BY <1>1, <2>2 DEF PicksFirst
      <3>2. winner # 0 /\ winner \in 1 .. at - 1
            /\ ~ Stronger(seen[tier][j], seen[tier][winner])
        BY <1>3, <3>1 DEF Picks
      <3>3. Stronger(seen[tier][at], seen[tier][winner])
        BY <2>2, <3>2 DEF Beats
      <3>4. /\ seen[tier][j] \in AllRules /\ seen[tier][at] \in AllRules
            /\ seen[tier][winner] \in AllRules
        BY <1>1, <1>2, <3>2
      <3> QED
        BY <3>2, <3>3, <3>4, RuleOutcomes DEF Stronger, PRECEDENCE, Outcomes
    <2> QED
      BY <2>1, <2>2
  <1>5. PicksFirst(tier, winner)'
    BY <1>1, <1>4 DEF PicksFirst, inputs
  <1>6. \A t \in 1 .. tier' - 1 : PicksFirst(t, contenders[t])'
    BY <1>1 DEF PicksFirst, FirstInv, inputs
  <1> QED
    BY <1>1, <1>5, <1>6 DEF FirstInv

LEMMA ContendKeepsFirst ==
  ASSUME PolicyInv, FirstInv, Contend
  PROVE  FirstInv'
  <1> USE DEF PolicyInv
  <1>1. /\ pc = "scan" /\ tier \in POLICY_TIERS /\ winner' = 0 /\ elected = 0
        /\ contenders' = [contenders EXCEPT ![tier] = winner]
        /\ IF tier = Session THEN tier' = 1 /\ pc' = "elect"
                             ELSE tier' = tier + 1 /\ UNCHANGED pc
        /\ UNCHANGED <<inputs, seen, elected>>
    BY DEF Contend, TypeOK, ElectInv
  <1>2. /\ contenders'[tier] = winner
        /\ \A t \in POLICY_TIERS : t # tier => contenders'[t] = contenders[t]
    BY <1>1 DEF TypeOK
  <1>3. \A t \in 1 .. tier : PicksFirst(t, contenders[t])'
    <2> SUFFICES ASSUME NEW t \in 1 .. tier PROVE PicksFirst(t, contenders'[t])
      BY <1>1 DEF PicksFirst, inputs
    <2>1. CASE t = tier
      BY <1>1, <1>2, <2>1 DEF FirstInv
    <2>2. CASE t # tier
      <3>1. t \in 1 .. tier - 1 /\ t \in POLICY_TIERS
        BY <1>1, <2>2 DEF POLICY_TIERS
      <3> QED
        BY <1>1, <1>2, <2>2, <3>1 DEF FirstInv
    <2> QED
      BY <2>1, <2>2
  <1>4. CASE tier = Session
    BY <1>1, <1>3, <1>4 DEF FirstInv, Session, POLICY_TIERS
  <1>5. CASE tier # Session
    <2>1. pc' = "scan" /\ tier' - 1 = tier /\ PicksFirst(tier, winner)'
      BY <1>1, <1>5 DEF POLICY_TIERS, PicksFirst
    <2> QED
      BY <1>1, <1>3, <2>1 DEF FirstInv
  <1> QED
    BY <1>4, <1>5

LEMMA ElectKeepsFirst ==
  ASSUME PolicyInv, FirstInv, Elect
  PROVE  FirstInv'
  <1> USE DEF PolicyInv
  <1>1. /\ pc = "elect" /\ tier \in POLICY_TIERS
        /\ elected' = IF Supersedes(tier) THEN tier ELSE elected
        /\ UNCHANGED <<inputs, pc, seen, contenders>>
    BY DEF Elect
  <1>2. \A t \in POLICY_TIERS : PicksFirst(t, contenders[t])'
    BY <1>1 DEF FirstInv, PicksFirst, inputs
  <1>3. ASSUME elected' # 0, NEW t \in POLICY_TIERS, t < elected', contenders[t] # 0
        PROVE  Stronger(PickOf(elected'), PickOf(t))
    <2>1. CASE ~ Supersedes(tier)
      BY <1>1, <1>3, <2>1 DEF FirstInv
    <2>2. CASE Supersedes(tier)
      <3>1. elected' = tier /\ contenders[tier] # 0
        BY <1>1, <2>2 DEF Supersedes
      <3>2. elected # 0 /\ elected \in POLICY_TIERS
        BY <1>1, <1>3, <3>1 DEF ElectInv, TypeOK, POLICY_TIERS
      <3>3. ~ Stronger(PickOf(t), PickOf(elected)) /\ contenders[elected] # 0
        BY <1>1, <1>3, <3>1, <3>2 DEF ElectInv
      <3>4. Stronger(PickOf(tier), PickOf(elected))
        BY <2>2, <3>2 DEF Supersedes, PickOf
      <3>5. \A v \in POLICY_TIERS : contenders[v] # 0 => PickOf(v) \in AllRules
        BY DEF TypeOK, PickOf
      <3>6. PickOf(t) \in AllRules /\ PickOf(tier) \in AllRules /\ PickOf(elected) \in AllRules
        BY <1>1, <1>3, <3>1, <3>2, <3>3, <3>5
      <3> QED
        BY <3>1, <3>3, <3>4, <3>6, RuleOutcomes DEF Stronger, PRECEDENCE, Outcomes
    <2> QED
      BY <2>1, <2>2
  <1> QED
    BY <1>1, <1>2, <1>3 DEF FirstInv, PickOf

LEMMA ResolveAttributes ==
  ASSUME PolicyInv, OrderInv, FirstInv, Resolve
  PROVE  AttributedRule'
  <1> USE DEF PolicyInv
  <1> DEFINE rule == PickOf(elected)
  <1>1. /\ pc = "elect" /\ tier \notin POLICY_TIERS /\ UNCHANGED <<raw, tiers>>
        /\ decision' = IF elected = 0 THEN Default
                       ELSE [outcome |-> rule.outcome, id |-> rule.id, tier |-> elected]
    BY DEF Resolve, Decide, PickOf, inputs
  <1> HIDE DEF rule
  <1>2. \A v \in POLICY_TIERS : v < tier
    BY <1>1 DEF TypeOK, POLICY_TIERS
  <1>3. entry - 1 = Len(tiers)
    BY <1>1 DEF SeenInv, TypeOK
  <1>4. \A v \in POLICY_TIERS : Picks(v, contenders[v], Len(seen[v]))
                                 /\ PicksFirst(v, contenders[v])
    BY <1>1 DEF ScanInv, FirstInv
  <1>5. \A v \in POLICY_TIERS : contenders[v] # 0 => PickOf(v) \in AllRules
    BY DEF TypeOK, PickOf
  <1>6. UNCHANGED Places /\ \A p, q : Before(p, q)' <=> Before(p, q)
    BY <1>1 DEF Places, Before, RuleAt
  <1>7. \A p : RuleAt(p)' = RuleAt(p)
    BY <1>1 DEF RuleAt
  <1>8. ASSUME NEW q \in Places
        PROVE  /\ q = <<q[1], q[2]>> /\ q[1] \in 1 .. Len(tiers)
               /\ tiers[q[1]].tier \in POLICY_TIERS
               /\ q[2] \in 1 .. Len(tiers[q[1]].rules)
               /\ Matches(RuleAt(q), raw) /\ RuleAt(q) \in AllRules
    <2>0. PICK e \in DOMAIN tiers :
            \E i \in DOMAIN tiers[e].rules : q = <<e, i>> /\ Matches(tiers[e].rules[i], raw)
      BY DEF Places
    <2>1. PICK i \in DOMAIN tiers[e].rules : q = <<e, i>> /\ Matches(tiers[e].rules[i], raw)
      BY <2>0
    <2>2. tiers[e] \in TierRules /\ e \in 1 .. Len(tiers)
      BY DEF TypeOK
    <2>3. tiers[e].tier \in POLICY_TIERS /\ tiers[e].rules \in Seq(AllRules)
      BY <2>2 DEF TierRules
    <2>4. i \in 1 .. Len(tiers[e].rules) /\ tiers[e].rules[i] \in AllRules
      BY <2>3
    <2>5. q[1] = e /\ q[2] = i
      BY <2>1
    <2> QED
      BY <2>1, <2>2, <2>3, <2>4, <2>5 DEF RuleAt
  <1>9. ASSUME NEW q \in Places, NEW v \in POLICY_TIERS, tiers[q[1]].tier = v,
               NEW list, NEW place, LaidOut(v, list, place)
        PROVE  contenders[v] # 0 /\ ~ Stronger(RuleAt(q), PickOf(v))
    <2>1. q[1] \in 1 .. entry - 1 /\ q[2] \in 1 .. Len(tiers[q[1]].rules)
      BY <1>3, <1>8
    <2>2. PICK j \in 1 .. Len(seen[v]) : list[j] = q[1] /\ place[j] = q[2]
      BY <1>9, <2>1 DEF LaidOut
    <2>3. seen[v][j] = RuleAt(q)
      BY <1>9, <2>2 DEF LaidOut, RuleAt
    <2>4. Matches(seen[v][j], raw)
      BY <1>8, <2>3
    <2> QED
      BY <1>4, <2>3, <2>4 DEF Picks, PickOf
  <1>10. CASE elected = 0
    <2>1. \A v \in POLICY_TIERS : contenders[v] = 0
      BY <1>1, <1>2, <1>10 DEF ElectInv
    <2>2. ASSUME NEW q \in Places PROVE FALSE
      <3>1. PICK v \in POLICY_TIERS : tiers[q[1]].tier = v
        BY <1>8
      <3>2. PICK list, place \in [1 .. Len(seen[v]) -> Nat] : LaidOut(v, list, place)
        BY DEF OrderInv
      <3> QED
        BY <1>9, <2>1, <3>1, <3>2
    <2>3. Places = {}
      BY <2>2
    <2> QED
      BY <1>1, <1>6, <1>10, <2>3 DEF AttributedRule
  <1>11. CASE elected # 0
    <2>1. elected \in POLICY_TIERS /\ contenders[elected] # 0
      BY <1>1, <1>11 DEF ElectInv, TypeOK, POLICY_TIERS
    <2>2. PICK w \in 1 .. Len(seen[elected]) :
            w = contenders[elected] /\ Matches(seen[elected][w], raw)
      BY <1>4, <2>1 DEF Picks
    <2>3. rule = seen[elected][w] /\ rule \in AllRules
      BY <1>5, <2>1, <2>2 DEF PickOf, rule
    <2>4. PICK list, place \in [1 .. Len(seen[elected]) -> Nat] : LaidOut(elected, list, place)
      BY <2>1 DEF OrderInv
    <2> DEFINE p == <<list[w], place[w]>>
    <2>5. /\ p[1] = list[w] /\ p[2] = place[w] /\ RuleAt(p) = rule
          /\ tiers[p[1]].tier = elected /\ p[1] \in 1 .. Len(tiers)
          /\ p[2] \in 1 .. Len(tiers[p[1]].rules)
      BY <1>3, <2>2, <2>3, <2>4 DEF LaidOut, RuleAt
    <2> HIDE DEF p
    <2>6. p \in Places
      <3>1. p[1] \in DOMAIN tiers /\ tiers[p[1]] \in TierRules
        BY <2>5 DEF TypeOK
      <3>2. p[2] \in DOMAIN tiers[p[1]].rules
        BY <2>5, <3>1 DEF TierRules
      <3>3. Matches(tiers[p[1]].rules[p[2]], raw)
        BY <2>2, <2>3, <2>5 DEF RuleAt
      <3>4. p = <<p[1], p[2]>>
        BY DEF p
      <3> QED
        BY <3>1, <3>2, <3>3, <3>4 DEF Places
    <2>7. ASSUME NEW q \in Places PROVE Before(p, q)
      <3>1. PICK v \in POLICY_TIERS : tiers[q[1]].tier = v
        BY <1>8
      <3>2. PICK listq, placeq \in [1 .. Len(seen[v]) -> Nat] : LaidOut(v, listq, placeq)
        BY DEF OrderInv
      <3>3. contenders[v] # 0 /\ ~ Stronger(RuleAt(q), PickOf(v))
        BY <1>9, <3>1, <3>2
      <3>4. RuleAt(q) \in AllRules /\ PickOf(v) \in AllRules
        BY <1>5, <1>8, <3>3
      <3>5. ~ Stronger(PickOf(v), rule)
        BY <1>1, <1>2, <1>11, <3>3 DEF ElectInv, rule
      <3>6. ~ Stronger(RuleAt(q), rule)
        BY <2>3, <3>3, <3>4, <3>5, RuleOutcomes DEF Stronger, PRECEDENCE, Outcomes
      <3>7. Stronger(rule, RuleAt(q)) \/ rule.outcome = RuleAt(q).outcome
        BY <2>3, <3>4, <3>6, RuleOutcomes DEF Stronger, PRECEDENCE, Outcomes
      <3>8. CASE v < elected
        <4>1. Stronger(rule, PickOf(v))
          BY <1>1, <1>11, <3>3, <3>8 DEF FirstInv, rule
        <4>2. Stronger(rule, RuleAt(q))
          BY <2>3, <3>3, <3>4, <4>1, RuleOutcomes DEF Stronger, PRECEDENCE, Outcomes
        <4> QED
          BY <2>5, <4>2 DEF Before
      <3>9. CASE elected < v
        BY <2>5, <3>1, <3>7, <3>9 DEF Before
      <3>10. CASE v = elected
        <4>1. PICK j \in 1 .. Len(seen[elected]) :
                list[j] = q[1] /\ place[j] = q[2] /\ seen[elected][j] = RuleAt(q)
          <5>1. /\ q[1] \in 1 .. entry - 1 /\ q[2] \in 1 .. Len(tiers[q[1]].rules)
                /\ tiers[q[1]].tier = elected
            BY <1>3, <1>8, <3>1, <3>10
          <5>2. PICK j \in 1 .. Len(seen[elected]) : list[j] = q[1] /\ place[j] = q[2]
            BY <2>4, <5>1 DEF LaidOut
          <5>3. seen[elected][j] = RuleAt(q)
            BY <2>4, <5>2 DEF LaidOut, RuleAt
          <5> QED
            BY <5>2, <5>3
        <4>2. CASE j < w
          <5>1. j \in 1 .. w - 1 /\ Matches(seen[elected][j], raw)
            BY <1>8, <4>1, <4>2
          <5>2. Stronger(rule, RuleAt(q))
            BY <1>4, <2>1, <2>2, <2>3, <4>1, <5>1 DEF PicksFirst
          <5> QED
            BY <2>5, <5>2 DEF Before
        <4>3. CASE j = w
          <5>1. p[1] = q[1] /\ p[2] = q[2] /\ p[2] <= q[2]
            BY <1>8, <2>5, <4>1, <4>3
          <5> QED
            BY <2>5, <3>7, <5>1 DEF Before
        <4>4. CASE w < j
          <5>1. p[1] < q[1] \/ (p[1] = q[1] /\ p[2] < q[2])
            BY <2>4, <2>5, <4>1, <4>4 DEF LaidOut
          <5>2. p[2] \in Int /\ q[2] \in Int /\ tiers[p[1]].tier = tiers[q[1]].tier
            BY <1>8, <2>5, <3>1, <3>10
          <5> QED
            BY <2>5, <3>7, <5>1, <5>2 DEF Before
        <4> QED
          BY <4>2, <4>3, <4>4
      <3> QED
        BY <2>1, <3>8, <3>9, <3>10 DEF POLICY_TIERS
    <2>8. decision' = [outcome |-> RuleAt(p).outcome, id |-> RuleAt(p).id,
                       tier |-> tiers[p[1]].tier]
      BY <1>1, <1>11, <2>5
    <2>9. /\ \E p2 \in Places :
               /\ \A q \in Places : Before(p2, q)
               /\ decision' = [outcome |-> RuleAt(p2).outcome, id |-> RuleAt(p2).id,
                               tier |-> tiers[p2[1]].tier]
          /\ Places # {}
      BY <2>6, <2>7, <2>8
    <2> QED
      BY <1>1, <1>6, <1>7, <2>9 DEF AttributedRule
  <1> QED
    BY <1>10, <1>11

LEMMA NextAttribution == PolicyInv /\ AttributionInv /\ [Next]_vars => AttributionInv'
  <1> SUFFICES ASSUME PolicyInv, OrderInv, FirstInv, AttributedRule, [Next]_vars
               PROVE  AttributionInv'
    BY DEF AttributionInv
  <1>1. CASE Validate
    <2>1. /\ pc = "validate" /\ UNCHANGED <<tiers, entry, seen, raw>>
          /\ pc' = "gather" \/ (pc' = "decided" /\ raw = Unrecognized)
      BY <1>1 DEF Validate, Decide, inputs
    <2> QED
      BY <2>1, OrderKept DEF AttributionInv, FirstInv, AttributedRule
  <1>2. CASE Gather
    <2>1. /\ pc = "gather" /\ pc' \in {"gather", "scan"}
          /\ UNCHANGED <<winner, tier, contenders, elected>>
      BY <1>2 DEF Gather
    <2>2. winner = 0 /\ tier = 1
      BY <2>1 DEF PolicyInv, ElectInv
    <2>3. FirstInv'
      BY <2>1, <2>2 DEF FirstInv, PicksFirst
    <2> QED
      BY <1>2, <2>1, <2>3, GatherKeepsOrder, NotYetAttributed DEF AttributionInv
  <1>3. CASE Scan
    <2>1. pc' # "decided" /\ UNCHANGED <<tiers, entry, seen>>
      BY <1>3 DEF Scan, inputs
    <2> QED
      BY <1>3, <2>1, OrderKept, ScanKeepsFirst, NotYetAttributed DEF AttributionInv
  <1>4. CASE Contend
    <2>1. pc' # "decided" /\ UNCHANGED <<tiers, entry, seen>>
      BY <1>4 DEF Contend, inputs
    <2> QED
      BY <1>4, <2>1, OrderKept, ContendKeepsFirst, NotYetAttributed DEF AttributionInv
  <1>5. CASE Elect
    <2>1. pc' # "decided" /\ UNCHANGED <<tiers, entry, seen>>
      BY <1>5 DEF Elect, inputs
    <2> QED
      BY <1>5, <2>1, OrderKept, ElectKeepsFirst, NotYetAttributed DEF AttributionInv
  <1>6. CASE Resolve
    <2>1. pc' = "decided" /\ UNCHANGED <<tiers, entry, seen>>
      BY <1>6 DEF Resolve, Decide, inputs
    <2> QED
      BY <1>6, <2>1, OrderKept, ResolveAttributes DEF AttributionInv, FirstInv
  <1>7. CASE Throw
    <2>1. pc' = "decided" /\ decision' = Failed /\ UNCHANGED <<tiers, entry, seen>>
      BY <1>7 DEF Throw, Decide, inputs
    <2> QED
      BY <2>1, OrderKept DEF AttributionInv, FirstInv, AttributedRule
  <1>8. CASE UNCHANGED vars
    <2>1. UNCHANGED <<raw, tiers, pc, entry, seen, tier, winner, contenders, elected, decision>>
      BY <1>8 DEF vars
    <2>2. FirstInv'
      BY <2>1 DEF FirstInv, PicksFirst, PickOf
    <2>3. AttributedRule'
      BY <2>1 DEF AttributedRule, Places, Before, RuleAt
    <2> QED
      BY <2>1, <2>2, <2>3, OrderKept DEF AttributionInv
  <1> QED
    BY <1>1, <1>2, <1>3, <1>4, <1>5, <1>6, <1>7, <1>8 DEF Next

\* For rule lists of any number and length, the rule a decision names is the first
\* of the strongest outcome in the highest tier that has one, and a decision that
\* names none meets no matching rule.
THEOREM DecisionsAreAttributed == Spec => []AttributedRule
  <1>1. Init => PolicyInv /\ AttributionInv
    BY InitPolicyInv, InitAttribution
  <1>2. PolicyInv /\ AttributionInv /\ [Next]_vars => PolicyInv' /\ AttributionInv'
    BY NextPolicyInv, NextAttribution
  <1>3. AttributionInv => AttributedRule
    BY DEF AttributionInv
  <1> QED
    BY <1>1, <1>2, <1>3, PTL DEF Spec
=============================================================================
