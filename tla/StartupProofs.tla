---------------------------- MODULE StartupProofs ----------------------------
(***************************************************************************)
(* Proofs about Startup, for any configurations, files, contents, rules    *)
(* and changes of them: what a turn does without asking is allowed by the  *)
(* policy files, om starts exactly when its configuration is right, and a  *)
(* prompt has whole instructions.                                          *)
(***************************************************************************)
EXTENDS Startup, PolicyProofs

allVars == <<vars, startupVars>>

\* decide as it is called.
Fresh ==
  /\ raw \in Requests \cup {Unrecognized} /\ tiers \in Seq(TierRules) /\ pc = "validate"
  /\ entry = 1 /\ seen = [t \in POLICY_TIERS |-> <<>>]
  /\ tier = 1 /\ at = 1 /\ winner = 0
  /\ contenders = [t \in POLICY_TIERS |-> 0] /\ elected = 0
  /\ decision = Undecided

LEMMA FreshPolicyInv == Fresh => PolicyInv
  <1> SUFFICES ASSUME Fresh PROVE PolicyInv
    OBVIOUS
  <1>1. TypeOK
    <2>1. \A t \in POLICY_TIERS : seen[t] = <<>> /\ contenders[t] = 0
      BY DEF Fresh
    <2>2. seen \in [POLICY_TIERS -> Seq(AllRules)] /\ contenders \in [POLICY_TIERS -> Nat]
      BY DEF Fresh
    <2>3. \A t \in POLICY_TIERS : contenders[t] \in 0 .. Len(seen[t])
      BY <2>1
    <2>4. Len(tiers) \in Nat
      BY DEF Fresh
    <2> QED
      BY <2>2, <2>3, <2>4 DEF Fresh, TypeOK, Undecided
  <1>2. SeenInv /\ ScanInv /\ ElectInv
    <2>1. SeenFrom
      BY DEF Fresh, SeenFrom, POLICY_TIERS
    <2>2. SeenAll
      BY DEF Fresh, SeenAll
    <2> QED
      BY <2>1, <2>2 DEF Fresh, SeenInv, ScanInv, ElectInv
  <1>3. AllowIsEarned /\ DenyAnywhereWins
    BY DEF Fresh, AllowIsEarned, DenyAnywhereWins, Undecided
  <1> QED
    BY <1>1, <1>2, <1>3 DEF PolicyInv

LEMMA FreshNext == Fresh' => PolicyInv'
  BY FreshPolicyInv, PTL

-----------------------------------------------------------------------------
(* What is loaded *)

Later == {"line", "statInstructions", "readInstructions", "turn"}

LEMMA InitRunInv == StartupInit => RunInv
  <1> SUFFICES ASSUME StartupInit PROVE RunInv
    OBVIOUS
  <1>1. disk \in [FilesRead -> Contents]
    BY ContentsAssumption DEF StartupInit
  <1>2. since \in [FilesRead -> SUBSET Contents] /\ \A f \in FilesRead : disk[f] \in since[f]
    BY <1>1 DEF StartupInit
  <1>3. LoadedInv
    BY <1>1, <1>2 DEF StartupInit, LoadedInv
  <1>4. CalledInv
    BY DEF StartupInit, CalledInv
  <1> QED
    BY <1>3, <1>4 DEF RunInv

LEMMA PolicyFileNames == \A t \in 1 .. 2 : PolicyFiles[t] \in FilesRead
  BY DEF FilesRead

LEMMA KeepsLoaded ==
  ASSUME LoadedInv, UNCHANGED <<disk, since, file, loaded, stage>>
  PROVE  LoadedInv'
  <1>1. \A t \in 1 .. 2 : RulesOfFile(t) => RulesOfFile(t)'
    BY DEF RulesOfFile
  <1> QED
    BY <1>1 DEF LoadedInv

LEMMA StatKeepsLoaded == LoadedInv /\ StatPolicy => LoadedInv'
  <1> SUFFICES ASSUME LoadedInv, StatPolicy PROVE LoadedInv'
    OBVIOUS
  <1>1. PICK n \in 1 .. 2 : n = file
    BY DEF LoadedInv
  <1> DEFINE f == PolicyFiles[n]
  <1>2. /\ stage = "stat" /\ UNCHANGED <<disk, since, loaded>>
        /\ \A t \in 1 .. n - 1 : RulesOfFile(t)
    BY <1>1 DEF StatPolicy, LoadedInv
  <1>3. \A t \in 1 .. 2 : RulesOfFile(t) => RulesOfFile(t)'
    BY <1>2 DEF RulesOfFile
  <1>4. CASE disk[f].kind = "absent" /\ NextPolicyFile
    <2>1. RulesOfFile(n)
      BY <1>4, PolicyFileNames DEF LoadedInv, RulesOfFile
    <2>2. \A t \in 1 .. n : RulesOfFile(t)'
      BY <1>2, <1>3, <2>1
    <2>3. /\ n = 1 => file' = 2 /\ stage' = "stat"
          /\ n = 2 => file' = 1 /\ stage' = "line"
      BY <1>1, <1>4 DEF NextPolicyFile
    <2> QED
      BY <1>2, <2>2, <2>3 DEF LoadedInv
  <1>5. CASE stage' = "read" /\ UNCHANGED file
    BY <1>1, <1>2, <1>3, <1>5 DEF LoadedInv
  <1>6. CASE stage' = "failed" /\ UNCHANGED file
    BY <1>2, <1>6 DEF LoadedInv
  <1> QED
    BY <1>1, <1>4, <1>5, <1>6 DEF StatPolicy, Fail

LEMMA ReadKeepsLoaded == LoadedInv /\ ReadPolicy => LoadedInv'
  <1> SUFFICES ASSUME LoadedInv, ReadPolicy PROVE LoadedInv'
    OBVIOUS
  <1>1. PICK n \in 1 .. 2 : n = file
    BY DEF LoadedInv
  <1> DEFINE f == PolicyFiles[n]
             list == [tier |-> n, rules |-> disk[f].rules]
  <1>2. /\ stage = "read" /\ UNCHANGED <<disk, since>>
        /\ \A t \in 1 .. n - 1 : RulesOfFile(t)
    BY <1>1 DEF ReadPolicy, LoadedInv
  <1>3. CASE disk[f].kind = "rules" /\ NextPolicyFile /\ loaded' = Append(loaded, list)
    <2>1. f \in FilesRead /\ disk[f] \in Contents /\ disk[f] \in since[f]
      BY PolicyFileNames DEF LoadedInv
    <2>2. list \in TierRules
      BY <1>3, <2>1, ContentsAssumption DEF TierRules, POLICY_TIERS
    <2>3. loaded \in Seq(TierRules) /\ loaded' \in Seq(TierRules)
      BY <1>3, <2>2 DEF LoadedInv
    <2>4. /\ \A e \in DOMAIN loaded : e \in DOMAIN loaded' /\ loaded'[e] = loaded[e]
          /\ Len(loaded) + 1 \in DOMAIN loaded' /\ loaded'[Len(loaded) + 1] = list
      BY <1>3, <2>2, <2>3
    <2>5. RulesOfFile(n)'
      BY <1>2, <1>3, <2>1, <2>4 DEF RulesOfFile
    <2>6. \A t \in 1 .. n - 1 : RulesOfFile(t)'
      BY <1>2, <2>4 DEF RulesOfFile
    <2>7. \A t \in 1 .. n : RulesOfFile(t)'
      BY <2>5, <2>6
    <2>8. /\ n = 1 => file' = 2 /\ stage' = "stat"
          /\ n = 2 => file' = 1 /\ stage' = "line"
      BY <1>1, <1>3 DEF NextPolicyFile
    <2> QED
      BY <1>2, <2>3, <2>7, <2>8 DEF LoadedInv
  <1>4. CASE stage' = "failed" /\ UNCHANGED <<file, loaded>>
    BY <1>2, <1>4 DEF LoadedInv
  <1> QED
    BY <1>1, <1>3, <1>4 DEF ReadPolicy, Fail

LEMMA RequestKeepsLoaded == LoadedInv /\ Request => LoadedInv'
  <1> SUFFICES ASSUME LoadedInv, Request PROVE LoadedInv'
    OBVIOUS
  <1>1. /\ stage = "line" /\ stage' = "statInstructions" /\ UNCHANGED <<disk, loaded>>
        /\ file' = 1
        /\ since' = [f \in FilesRead |-> IF f \in {PolicyFiles[1], PolicyFiles[2]} THEN since[f]
                                         ELSE {disk[f]}]
    BY DEF Request
  <1>2. since' \in [FilesRead -> SUBSET Contents] /\ \A f \in FilesRead : disk[f] \in since'[f]
    BY <1>1 DEF LoadedInv
  <1>3. \A t \in 1 .. 2 : since'[PolicyFiles[t]] = since[PolicyFiles[t]]
    BY <1>1, PolicyFileNames
  <1>4. \A t \in 1 .. 2 : RulesOfFile(t)'
    <2>1. SUFFICES ASSUME NEW t \in 1 .. 2 PROVE RulesOfFile(t)'
      OBVIOUS
    <2>2. RulesOfFile(t)
      BY <1>1 DEF LoadedInv
    <2>3. loaded' = loaded /\ since'[PolicyFiles[t]] = since[PolicyFiles[t]]
      BY <1>1, <1>3
    <2>4. PolicyFiles' = PolicyFiles
      BY DEF PolicyFiles
    <2> QED
      BY <2>2, <2>3 DEF RulesOfFile
  <1> QED
    BY <1>1, <1>2, <1>4 DEF LoadedInv

LEMMA ChangeKeepsLoaded == LoadedInv /\ Change => LoadedInv'
  <1> SUFFICES ASSUME LoadedInv, Change PROVE LoadedInv'
    OBVIOUS
  <1>1. PICK f \in FilesRead, content \in Contents :
          /\ disk' = [disk EXCEPT ![f] = content]
          /\ since' = [since EXCEPT ![f] = @ \cup {disk'[f]}]
    <2>1. PolicyContents \subseteq Contents /\ InstructionContents \subseteq Contents
      BY DEF Contents
    <2>2. PICK f \in FilesRead :
            /\ \/ \E content \in PolicyContents : disk' = [disk EXCEPT ![f] = content]
               \/ \E content \in InstructionContents : disk' = [disk EXCEPT ![f] = content]
            /\ since' = [since EXCEPT ![f] = @ \cup {disk'[f]}]
      BY DEF Change
    <2> QED
      BY <2>1, <2>2
  <1>2. disk' \in [FilesRead -> Contents] /\ since' \in [FilesRead -> SUBSET Contents]
    BY <1>1 DEF LoadedInv
  <1>3. \A g \in FilesRead : disk'[g] \in since'[g] /\ since[g] \subseteq since'[g]
    BY <1>1 DEF LoadedInv
  <1>4. UNCHANGED <<stage, file, loaded>>
    BY DEF Change
  <1>5. \A t \in 1 .. 2 : RulesOfFile(t) => RulesOfFile(t)'
    BY <1>3, <1>4, PolicyFileNames DEF RulesOfFile
  <1> QED
    BY <1>2, <1>3, <1>4, <1>5 DEF LoadedInv

\* Every other step leaves the files alone and comes behind their load or before it.
LEMMA OthersKeepLoaded ==
  ASSUME LoadedInv, UNCHANGED <<disk, since, loaded>>, file' \in 1 .. 2,
         \/ stage' \in {"failed", "exited"}
         \/ stage' \in {"open", "stat"} /\ file' = 1
         \/ stage \in Later /\ stage' \in Later
  PROVE  LoadedInv'
  <1>1. \A t \in 1 .. 2 : RulesOfFile(t) => RulesOfFile(t)'
    BY DEF RulesOfFile
  <1>2. CASE stage' \in {"failed", "exited"}
    BY <1>2 DEF LoadedInv
  <1>3. CASE stage' \in {"open", "stat"} /\ file' = 1
    BY <1>3 DEF LoadedInv
  <1>4. CASE stage \in Later /\ stage' \in Later
    BY <1>1, <1>4 DEF LoadedInv, Later
  <1> QED
    BY <1>2, <1>3, <1>4

LEMMA StartupKeepsLoaded == LoadedInv /\ Startup => LoadedInv'
  <1> SUFFICES ASSUME LoadedInv, Startup PROVE LoadedInv'
    OBVIOUS
  <1>1. file \in 1 .. 2
    BY DEF LoadedInv
  <1>2. CASE LoadSettings
    <2>1. /\ stage = "configure" /\ stage' \in {"open", "failed"}
          /\ UNCHANGED <<disk, since, loaded, file>>
      BY <1>2 DEF LoadSettings
    <2>2. file = 1
      BY <2>1 DEF LoadedInv
    <2> QED
      BY <1>1, <2>1, <2>2, OthersKeepLoaded
  <1>3. CASE Bootstrap
    <2>1. /\ stage = "open" /\ stage' \in {"stat", "failed"}
          /\ UNCHANGED <<disk, since, loaded, file>>
      BY <1>3 DEF Bootstrap
    <2>2. file = 1
      BY <2>1 DEF LoadedInv
    <2> QED
      BY <1>1, <2>1, <2>2, OthersKeepLoaded
  <1>4. CASE StatPolicy
    BY <1>4, StatKeepsLoaded
  <1>5. CASE ReadPolicy
    BY <1>5, ReadKeepsLoaded
  <1>6. CASE Request
    BY <1>6, RequestKeepsLoaded
  <1>7. CASE StatInstructions
    BY <1>1, <1>7, OthersKeepLoaded DEF StatInstructions, NextInstructionFile, Fail, Later
  <1>8. CASE ReadInstructions
    BY <1>1, <1>8, OthersKeepLoaded DEF ReadInstructions, NextInstructionFile, Fail, Later
  <1>9. CASE Quit
    BY <1>1, <1>9, OthersKeepLoaded DEF Quit
  <1>10. CASE Change
    BY <1>10, ChangeKeepsLoaded
  <1> QED
    BY <1>2, <1>3, <1>4, <1>5, <1>6, <1>7, <1>8, <1>9, <1>10 DEF Startup

-----------------------------------------------------------------------------
(* What is decided *)

LEMMA StartupKeepsCalled == CalledInv /\ Startup /\ UNCHANGED vars => CalledInv'
  <1> SUFFICES ASSUME CalledInv, Startup, UNCHANGED vars PROVE CalledInv'
    OBVIOUS
  <1>1. pc' = pc /\ (pc # "waiting" => stage = "turn")
    BY DEF CalledInv, vars
  <1>2. stage # "turn"
    BY DEF Startup, LoadSettings, Bootstrap, StatPolicy, ReadPolicy, Request, StatInstructions,
           ReadInstructions, Quit, Change
  <1>3. pc = "waiting"
    BY <1>1, <1>2
  <1> QED
    BY <1>1, <1>3 DEF CalledInv, vars

LEMMA AskCalled == LoadedInv /\ CalledInv /\ Ask => CalledInv'
  <1> SUFFICES ASSUME LoadedInv, CalledInv, Ask PROVE CalledInv'
    OBVIOUS
  <1>1. /\ stage' = "turn" /\ pc = "waiting" /\ pc' = "validate" /\ loaded' = loaded
        /\ tiers' = Append(loaded, [tier |-> Session, rules |-> <<BUILTIN_ALLOW_READ>>])
        /\ raw' \in Requests
        /\ UNCHANGED <<entry, seen, tier, at, winner, contenders, elected, decision>>
    BY DEF Ask, startupVars
  <1>2. [tier |-> Session, rules |-> <<BUILTIN_ALLOW_READ>>] \in TierRules
    <2>1. <<BUILTIN_ALLOW_READ>> \in Seq(AllRules)
      BY DEF AllRules
    <2> QED
      BY <2>1 DEF TierRules, Session, POLICY_TIERS
  <1>3. tiers' \in Seq(TierRules)
    BY <1>1, <1>2 DEF LoadedInv
  <1>4. Fresh'
    BY <1>1, <1>3 DEF Fresh, CalledInv
  <1> QED
    BY <1>1, <1>4, FreshNext DEF CalledInv

LEMMA DecidingKeepsCalled ==
  ASSUME CalledInv, stage = "turn", pc # "waiting", Next, UNCHANGED startupVars
  PROVE  CalledInv'
  <1>1. PolicyInv'
    BY NextPolicyInv DEF CalledInv
  <1>2. pc' # "waiting"
    BY <1>1 DEF PolicyInv, TypeOK
  <1>3. UNCHANGED <<tiers, loaded, stage>>
    BY DEF Next, Validate, Gather, Scan, Contend, Elect, Resolve, Throw, inputs, startupVars
  <1> QED
    BY <1>1, <1>2, <1>3 DEF CalledInv

LEMMA NextRunInv == RunInv /\ [RunNext]_allVars => RunInv'
  <1> SUFFICES ASSUME RunInv, [RunNext]_allVars PROVE RunInv'
    OBVIOUS
  <1> USE DEF RunInv
  <1>1. CASE Startup /\ UNCHANGED vars
    BY <1>1, StartupKeepsLoaded, StartupKeepsCalled
  <1>2. CASE Ask
    <2>1. UNCHANGED <<disk, since, file, loaded, stage>>
      BY <1>2 DEF Ask, startupVars
    <2> QED
      BY <1>2, <2>1, KeepsLoaded, AskCalled
  <1>3. CASE TurnOver
    <2>1. LoadedInv'
      BY <1>3, OthersKeepLoaded DEF TurnOver, LoadedInv, Later
    <2>2. CalledInv'
      BY <1>3 DEF TurnOver, CalledInv
    <2> QED
      BY <2>1, <2>2
  <1>4. CASE stage = "turn" /\ pc # "waiting" /\ Next /\ UNCHANGED startupVars
    <2>1. UNCHANGED <<disk, since, file, loaded, stage>>
      BY <1>4 DEF startupVars
    <2> QED
      BY <1>4, <2>1, KeepsLoaded, DecidingKeepsCalled
  <1>5. CASE UNCHANGED allVars
    <2>1. UNCHANGED <<disk, since, file, loaded, stage>> /\ UNCHANGED vars
      BY <1>5 DEF allVars, startupVars
    <2>2. PolicyInv => PolicyInv'
      BY <2>1, NextPolicyInv
    <2>3. CalledInv'
      BY <2>1, <2>2 DEF CalledInv, vars
    <2> QED
      BY <2>1, <2>3, KeepsLoaded
  <1> QED
    BY <1>1, <1>2, <1>3, <1>4, <1>5 DEF RunNext

-----------------------------------------------------------------------------
(* The theorems *)

\* What om has loaded is, at every step, all the rules of the files it looked at.
THEOREM RunInvariant == RunSpec => []RunInv
  <1>1. StartupInit => RunInv
    BY InitRunInv
  <1>2. RunInv /\ [RunNext]_allVars => RunInv'
    BY NextRunInv
  <1> QED
    BY <1>1, <1>2, PTL DEF RunSpec, allVars

LEMMA AllowedByInv == RunInv => AllowedByFiles
  <1> SUFFICES ASSUME RunInv, stage = "turn", decision.outcome = "allow", NEW t \in 1 .. 2
               PROVE  \E content \in since[PolicyFiles[t]] :
                        \/ content.kind = "absent"
                        \/ /\ content.kind = "rules"
                           /\ \A i \in DOMAIN content.rules :
                                Matches(content.rules[i], raw) =>
                                  content.rules[i].outcome = "allow"
    BY DEF AllowedByFiles
  <1>1. pc # "waiting"
    BY DEF RunInv, CalledInv, Undecided
  <1>2. /\ AllowIsEarned
        /\ tiers = Append(loaded, [tier |-> Session, rules |-> <<BUILTIN_ALLOW_READ>>])
    BY <1>1 DEF RunInv, CalledInv, PolicyInv
  <1>3. PICK content \in since[PolicyFiles[t]] :
          \/ content.kind = "absent"
          \/ /\ content.kind = "rules"
             /\ \E e \in DOMAIN loaded : loaded[e].tier = t /\ loaded[e].rules = content.rules
    BY DEF RunInv, LoadedInv, RulesOfFile
  <1>4. CASE content.kind = "rules" /\ content.kind # "absent"
    <2>1. PICK e \in DOMAIN loaded : loaded[e].tier = t /\ loaded[e].rules = content.rules
      BY <1>3, <1>4
    <2>2. loaded \in Seq(TierRules) /\ content \in Contents
      BY PolicyFileNames DEF RunInv, LoadedInv
    <2>3. e \in DOMAIN tiers /\ tiers[e] = loaded[e]
      BY <1>2, <2>2
    <2>4. content.rules \in Seq(AllRules)
      BY <1>4, <2>2, ContentsAssumption
    <2>5. ASSUME NEW i \in DOMAIN content.rules, Matches(content.rules[i], raw)
          PROVE  content.rules[i].outcome = "allow"
      <3>1. content.rules[i] \in AllRules /\ t \in POLICY_TIERS
        BY <2>4 DEF POLICY_TIERS
      <3>2. Applies(t, content.rules[i])
        BY <2>1, <2>3, <2>5 DEF Applies
      <3> QED
        BY <1>2, <3>1, <3>2 DEF AllowIsEarned
    <2> QED
      BY <1>4, <2>5
  <1> QED
    BY <1>3, <1>4

\* No change of the files, wherever it falls, lets a turn do without asking what a
\* rule of a policy file denies or asks about.
THEOREM AllowsComeFromFiles == RunSpec => []AllowedByFiles
  <1>1. RunInv => AllowedByFiles
    BY AllowedByInv
  <1> QED
    BY <1>1, RunInvariant, PTL

-----------------------------------------------------------------------------
(* The decisions of a session *)

Attributed == pc # "waiting" => AttributionInv

Empty == entry = 1 /\ seen = [t \in POLICY_TIERS |-> <<>>] /\ pc = "validate"

LEMMA EmptyAttributed == Empty => AttributionInv
  BY EmptyAttribution DEF Empty

LEMMA EmptyNextAttributed == Empty' => AttributionInv'
  BY EmptyAttributed, PTL

LEMMA NextAttributed == RunInv /\ Attributed /\ [RunNext]_allVars => Attributed'
  <1> SUFFICES ASSUME RunInv, Attributed, [RunNext]_allVars, pc' # "waiting"
               PROVE  AttributionInv'
    BY DEF Attributed
  <1>1. CASE pc # "waiting" /\ [Next]_vars
    BY <1>1, NextAttribution DEF Attributed, RunInv, CalledInv
  <1>2. CASE Ask
    <2>1. /\ pc = "waiting" /\ pc' = "validate" /\ UNCHANGED <<entry, seen>>
          /\ entry = 1 /\ seen = [t \in POLICY_TIERS |-> <<>>]
      BY <1>2 DEF Ask, RunInv, CalledInv
    <2> QED
      BY <2>1, EmptyNextAttributed DEF Empty
  <1> QED
    BY <1>1, <1>2 DEF RunNext, Startup, TurnOver, allVars, vars

\* A decision names its rule in every turn of a session.
THEOREM SessionsAttribute == RunSpec => []AttributedRule
  <1>1. StartupInit => Attributed
    BY DEF StartupInit, Attributed
  <1>2. RunInv /\ Attributed /\ [RunNext]_allVars => Attributed'
    BY NextAttributed
  <1>3. Attributed => AttributedRule
    BY DEF Attributed, AttributionInv, AttributedRule
  <1> QED
    BY <1>1, <1>2, <1>3, RunInvariant, PTL DEF RunSpec, allVars

-----------------------------------------------------------------------------
(* The settings *)

\* pickRaw finds the first source that has the setting.
LEMMA FirstSource ==
  ASSUME NEW key
  PROVE  \/ PickRaw(key) = 0 /\ \A s \in 1 .. 4 : ~ Sets(s, key)
         \/ /\ PickRaw(key) \in 1 .. 4 /\ Sets(PickRaw(key), key)
            /\ \A s \in 1 .. 4 : Sets(s, key) => PickRaw(key) <= s
  <1> DEFINE setting == {s \in 1 .. 4 : Sets(s, key)}
  <1>1. CASE setting = {}
    BY <1>1 DEF PickRaw
  <1>2. CASE setting # {}
    <2>1. \E s \in setting : \A o \in setting : s <= o
      <3>1. CASE 1 \in setting
        BY <3>1
      <3>2. CASE 1 \notin setting /\ 2 \in setting
        BY <3>2
      <3>3. CASE 1 \notin setting /\ 2 \notin setting /\ 3 \in setting
        BY <3>3
      <3>4. CASE 1 \notin setting /\ 2 \notin setting /\ 3 \notin setting
        BY <1>2, <3>4
      <3> QED
        BY <3>1, <3>2, <3>3, <3>4
    <2>2. PickRaw(key) = CHOOSE s \in setting : \A o \in setting : s <= o
      BY <1>2 DEF PickRaw
    <2>3. PickRaw(key) \in setting /\ \A o \in setting : PickRaw(key) <= o
      <3> DEFINE P(s) == \A o \in setting : s <= o
      <3>1. \E s \in setting : P(s)
        BY <2>1
      <3>2. PickRaw(key) = CHOOSE s \in setting : P(s)
        BY <2>2
      <3> HIDE DEF P, setting
      <3>3. PickRaw(key) \in setting /\ P(PickRaw(key))
        BY <3>1, <3>2
      <3> QED
        BY <3>3 DEF P
    <2> QED
      BY <2>3
  <1> QED
    BY <1>1, <1>2

\* The settings are loaded from a configuration that is right, and from no other.
LEMMA RightOrMisconfigured ==
  ASSUME Judged(config)
  PROVE  (config.project.parses /\ config.user.parses /\ ValuesValid /\ Complete)
           <=> ~ Misconfigured
  <1> DEFINE Has(key) == \E s \in 1 .. 4 : Sets(s, key)
             FirstIsBad(key, s) ==
               /\ Sets(s, key) /\ config[Sources[s]].sets[key] = "bad"
               /\ \A higher \in 1 .. s - 1 : ~ Sets(higher, key)
  <1>1. \A key : Has(key) <=> PickRaw(key) # 0
    BY FirstSource
  <1>2. ValuesValid <=> ~ \E key \in SETTINGS, s \in 1 .. 4 : FirstIsBad(key, s)
    <2>1. ASSUME NEW key \in SETTINGS, NEW s \in 1 .. 4, FirstIsBad(key, s)
          PROVE  ~ ValuesValid
      <3>1. PickRaw(key) \in 1 .. 4 /\ Sets(PickRaw(key), key) /\ PickRaw(key) <= s
        BY <2>1, FirstSource
      <3>2. ~ (PickRaw(key) \in 1 .. s - 1)
        BY <2>1, <3>1
      <3>3. PickRaw(key) = s
        BY <3>1, <3>2
      <3> QED
        BY <2>1, <3>3 DEF ValuesValid
    <2>2. ASSUME ~ ValuesValid
          PROVE  \E key \in SETTINGS, s \in 1 .. 4 : FirstIsBad(key, s)
      <3>1. PICK key \in SETTINGS :
              PickRaw(key) # 0 /\ config[Sources[PickRaw(key)]].sets[key] # "good"
        BY <2>2 DEF ValuesValid
      <3>2. PICK s \in 1 .. 4 : s = PickRaw(key)
        BY <3>1, FirstSource
      <3>3. Sets(s, key) /\ \A o \in 1 .. 4 : Sets(o, key) => s <= o
        BY <3>1, <3>2, FirstSource
      <3>4. config[Sources[s]].sets[key] = "bad"
        BY <3>1, <3>2, <3>3 DEF Judged, Sets
      <3>5. \A higher \in 1 .. s - 1 : ~ Sets(higher, key)
        BY <3>3
      <3> QED
        BY <3>3, <3>4, <3>5
    <2> QED
      BY <2>1, <2>2
  <1>3. Complete <=>
          /\ \A key \in Required : Has(key)
          /\ ~ \E price \in Pricing :
                 ~ Has(price) /\ (config.maxCost \/ \E p \in Pricing : Has(p))
    <2> HIDE DEF Has
    <2> QED
      BY <1>1 DEF Complete, Pricing
  <1> HIDE DEF FirstIsBad, Has
  <1>4. Misconfigured <=>
          \/ ~ config.project.parses \/ ~ config.user.parses
          \/ \E key \in SETTINGS, s \in 1 .. 4 : FirstIsBad(key, s)
          \/ \E key \in Required : ~ Has(key)
          \/ \E price \in Pricing :
               ~ Has(price) /\ (config.maxCost \/ \E p \in Pricing : Has(p))
    BY DEF Misconfigured, FirstIsBad, Has
  <1> QED
    BY <1>2, <1>3, <1>4

LEMMA InitStartInv == StartupInit => StartInv
  <1> SUFFICES ASSUME StartupInit PROVE StartInv
    OBVIOUS
  <1>1. Judged(config)
    BY SettingsAssumption DEF StartupInit
  <1> QED
    BY <1>1 DEF StartupInit, StartInv, StartsOrTells

\* The configuration does not change.
LEMMA ConfigKept ==
  ASSUME UNCHANGED config
  PROVE  /\ Judged(config) => Judged(config)'
         /\ Misconfigured' <=> Misconfigured
         /\ ValuesValid' <=> ValuesValid
         /\ \A key : PickRaw(key)' = PickRaw(key)
         /\ \A s, key : Sets(s, key)' <=> Sets(s, key)
  BY DEF Judged, Misconfigured, ValuesValid, PickRaw, Sets

LEMMA LoadSettingsStarts == StartInv /\ LoadSettings => StartInv'
  <1> SUFFICES ASSUME StartInv, LoadSettings PROVE StartInv'
    OBVIOUS
  <1>1. /\ stage = "configure" /\ failure = "none" /\ ~ locked /\ Judged(config)
        /\ UNCHANGED <<config, disk, since, locked>>
    BY DEF LoadSettings, StartInv, StartsOrTells
  <1>2. CASE Misconfigured
    <2>1. stage' = "failed" /\ failure' = "config"
      BY <1>1, <1>2, RightOrMisconfigured DEF LoadSettings
    <2> QED
      BY <1>1, <1>2, <2>1, ConfigKept DEF StartInv, StartsOrTells
  <1>3. CASE ~ Misconfigured
    <2>1. /\ ValuesValid /\ stage' = "open" /\ failure' = "none"
          /\ settings' = [key \in SETTINGS |-> PickRaw(key)]
      BY <1>1, <1>3, RightOrMisconfigured DEF LoadSettings
    <2>2. ASSUME NEW key \in SETTINGS, NEW s \in 1 .. 4, Sets(s, key)
          PROVE  settings'[key] \in 1 .. s /\ config[Sources[settings'[key]]].sets[key] = "good"
      <3>1. settings'[key] = PickRaw(key) /\ PickRaw(key) \in 1 .. 4 /\ PickRaw(key) <= s
        BY <2>1, <2>2, FirstSource
      <3> QED
        BY <2>1, <3>1 DEF ValuesValid
    <2>3. StartsOrTells'
      BY <1>1, <1>3, <2>1, <2>2, ConfigKept DEF StartsOrTells
    <2> QED
      BY <1>1, <2>1, <2>3, ConfigKept DEF StartInv
  <1> QED
    BY <1>2, <1>3

\* A step after the configuration owes what it says of its own failure, its lock and
\* what it found.
LEMMA OthersKeepStart ==
  ASSUME StartInv, UNCHANGED <<config, settings>>,
         stage \notin {"configure", "failed"}, stage' \notin {"configure", "open"},
         failure' \in {"none", "journal", "policy", "instructions"},
         stage' = "failed" <=> failure' # "none",
         stage' \in {"failed", "exited"} => ~ locked',
         (failure = "policy" =>
            \E t \in 1 .. 2 : \/ since[PolicyFiles[t]] # {disk[PolicyFiles[t]]}
                              \/ disk[PolicyFiles[t]].kind \notin {"absent", "rules"})',
         (failure = "instructions" =>
            \E k \in 1 .. 2 : \/ since[INSTRUCTION_FILES[k]] # {disk[INSTRUCTION_FILES[k]]}
                              \/ disk[INSTRUCTION_FILES[k]].kind = "unreadable")',
         (stage = "read" => \E content \in since[PolicyFiles[file]] : content.kind # "absent")',
         (stage = "readInstructions" =>
            \E content \in since[INSTRUCTION_FILES[file]] : content.kind # "absent")'
  PROVE  StartInv'
  <1>1. ~ Misconfigured
    BY DEF StartInv, StartsOrTells
  <1>2. ValuesValid /\ settings = [key \in SETTINGS |-> PickRaw(key)] /\ Judged(config)
    BY DEF StartInv
  <1>3. \A key \in SETTINGS, s \in 1 .. 4 : Sets(s, key) =>
          settings[key] \in 1 .. s /\ config[Sources[settings[key]]].sets[key] = "good"
    BY DEF StartInv, StartsOrTells
  <1>4. StartsOrTells'
    BY <1>1, <1>3, ConfigKept DEF StartsOrTells
  <1> QED
    BY <1>2, <1>4, ConfigKept DEF StartInv

LEMMA StartKept == StartInv /\ UNCHANGED startupVars => StartInv'
  BY ConfigKept DEF startupVars, StartInv, StartsOrTells

LEMMA PolicyFilesStart == StartInv /\ LoadedInv /\ (StatPolicy \/ ReadPolicy) => StartInv'
  <1> SUFFICES ASSUME StartInv, LoadedInv, StatPolicy \/ ReadPolicy PROVE StartInv'
    OBVIOUS
  <1>1. PICK n \in 1 .. 2 : n = file
    BY DEF LoadedInv
  <1> DEFINE f == PolicyFiles[n]
  <1>2. /\ stage \in {"stat", "read"} /\ UNCHANGED <<config, settings, disk, since>>
        /\ failure = "none" /\ disk[f] \in since[f]
    BY <1>1, PolicyFileNames DEF StatPolicy, ReadPolicy, StartInv, StartsOrTells, LoadedInv
  <1>3. CASE NextPolicyFile
    <2>1. stage' \in {"line", "stat"} /\ failure' = "none"
      BY <1>2, <1>3 DEF NextPolicyFile
    <2> QED
      BY <1>2, <2>1, OthersKeepStart
  <1>4. CASE disk[f].kind # "absent" /\ stage' = "read" /\ UNCHANGED <<file, failure, locked>>
    <2>1. (\E content \in since[PolicyFiles[file]] : content.kind # "absent")'
      BY <1>1, <1>2, <1>4
    <2> QED
      BY <1>2, <1>4, <2>1, OthersKeepStart
  <1>5. CASE Fail("policy") /\ (CallFails(f) \/ (stage = "read" /\ disk[f].kind # "rules"))
    <2>1. stage = "read" => \E content \in since[f] : content.kind # "absent"
      BY <1>1 DEF StartInv
    <2>2. since[f] # {disk[f]} \/ disk[f].kind \notin {"absent", "rules"}
      <3>1. CASE CallFails(f)
        BY <3>1 DEF CallFails
      <3>2. CASE stage = "read" /\ disk[f].kind # "rules"
        <4>1. PICK content \in since[f] : content.kind # "absent"
          BY <2>1, <3>2
        <4> QED
          BY <3>2, <4>1
      <3> QED
        BY <1>5, <3>1, <3>2
    <2>3. (\E t \in 1 .. 2 : \/ since[PolicyFiles[t]] # {disk[PolicyFiles[t]]}
                             \/ disk[PolicyFiles[t]].kind \notin {"absent", "rules"})'
      BY <1>2, <2>2
    <2>4. stage' = "failed" /\ failure' = "policy" /\ locked' = FALSE
      BY <1>5 DEF Fail
    <2> QED
      BY <1>2, <2>3, <2>4, OthersKeepStart
  <1> QED
    BY <1>1, <1>3, <1>4, <1>5 DEF StatPolicy, ReadPolicy

LEMMA InstructionFileNames == \A k \in 1 .. 2 : INSTRUCTION_FILES[k] \in FilesRead
  BY DEF FilesRead

LEMMA InstructionFilesStart ==
  StartInv /\ LoadedInv /\ (StatInstructions \/ ReadInstructions) => StartInv'
  <1> SUFFICES ASSUME StartInv, LoadedInv, StatInstructions \/ ReadInstructions PROVE StartInv'
    OBVIOUS
  <1>1. PICK n \in 1 .. 2 : n = file
    BY DEF LoadedInv
  <1> DEFINE f == INSTRUCTION_FILES[n]
  <1>2. /\ stage \in {"statInstructions", "readInstructions"}
        /\ UNCHANGED <<config, settings, disk, since>>
        /\ failure = "none" /\ disk[f] \in since[f]
    BY <1>1, InstructionFileNames
       DEF StatInstructions, ReadInstructions, StartInv, StartsOrTells, LoadedInv
  <1>3. CASE NextInstructionFile
    <2>1. stage' \in {"turn", "statInstructions"} /\ failure' = "none"
      BY <1>2, <1>3 DEF NextInstructionFile
    <2> QED
      BY <1>2, <2>1, OthersKeepStart
  <1>4. CASE disk[f].kind # "absent" /\ stage' = "readInstructions"
               /\ UNCHANGED <<file, failure, locked>>
    <2>1. (\E content \in since[INSTRUCTION_FILES[file]] : content.kind # "absent")'
      BY <1>1, <1>2, <1>4
    <2> QED
      BY <1>2, <1>4, <2>1, OthersKeepStart
  <1>5. CASE Fail("instructions")
               /\ (CallFails(f) \/ (stage = "readInstructions" /\ disk[f].kind = "absent"))
    <2>1. stage = "readInstructions" => \E content \in since[f] : content.kind # "absent"
      BY <1>1 DEF StartInv
    <2>2. since[f] # {disk[f]} \/ disk[f].kind = "unreadable"
      <3>1. CASE CallFails(f)
        BY <3>1 DEF CallFails
      <3>2. CASE stage = "readInstructions" /\ disk[f].kind = "absent"
        <4>1. PICK content \in since[f] : content.kind # "absent"
          BY <2>1, <3>2
        <4> QED
          BY <3>2, <4>1
      <3> QED
        BY <1>5, <3>1, <3>2
    <2>3. (\E k \in 1 .. 2 : \/ since[INSTRUCTION_FILES[k]] # {disk[INSTRUCTION_FILES[k]]}
                             \/ disk[INSTRUCTION_FILES[k]].kind = "unreadable")'
      BY <1>2, <2>2
    <2>4. stage' = "failed" /\ failure' = "instructions" /\ locked' = FALSE
      BY <1>5 DEF Fail
    <2> QED
      BY <1>2, <2>3, <2>4, OthersKeepStart
  <1> QED
    BY <1>1, <1>3, <1>4, <1>5 DEF StatInstructions, ReadInstructions

LEMMA ChangeKeepsStart == StartInv /\ LoadedInv /\ Change => StartInv'
  <1> SUFFICES ASSUME StartInv, LoadedInv, Change PROVE StartInv'
    OBVIOUS
  <1>1. /\ stage \in {"stat", "read", "statInstructions", "readInstructions"}
        /\ UNCHANGED <<stage, failure, config, settings, file, locked>> /\ failure = "none"
    BY DEF Change, StartInv, StartsOrTells
  <1>2. \A f \in FilesRead : since[f] \subseteq since'[f]
    BY DEF Change, LoadedInv
  <1>3. PolicyFiles[file] \in FilesRead /\ INSTRUCTION_FILES[file] \in FilesRead
    BY PolicyFileNames, InstructionFileNames DEF LoadedInv
  <1>4. stage = "read" => \E content \in since'[PolicyFiles[file]] : content.kind # "absent"
    BY <1>2, <1>3 DEF StartInv
  <1>5. stage = "readInstructions" =>
          \E content \in since'[INSTRUCTION_FILES[file]] : content.kind # "absent"
    BY <1>2, <1>3 DEF StartInv
  <1> QED
    BY <1>1, <1>4, <1>5, OthersKeepStart

LEMMA BootstrapStarts == StartInv /\ Bootstrap => StartInv'
  <1> SUFFICES ASSUME StartInv, Bootstrap PROVE StartInv'
    OBVIOUS
  <1>1. /\ stage = "open" /\ failure = "none" /\ ~ locked /\ UNCHANGED <<config, settings>>
        /\ \/ stage' = "stat" /\ failure' = "none"
           \/ stage' = "failed" /\ failure' = "journal" /\ UNCHANGED locked
    BY DEF Bootstrap, StartInv, StartsOrTells
  <1> QED
    BY <1>1, OthersKeepStart

LEMMA NextStartInv == RunInv /\ StartInv /\ [RunNext]_allVars => StartInv'
  <1> SUFFICES ASSUME LoadedInv, StartInv, [RunNext]_allVars PROVE StartInv'
    BY DEF RunInv
  <1>1. CASE LoadSettings
    BY <1>1, LoadSettingsStarts
  <1>2. CASE Bootstrap
    BY <1>2, BootstrapStarts
  <1>3. CASE StatPolicy \/ ReadPolicy
    BY <1>3, PolicyFilesStart
  <1>4. CASE StatInstructions \/ ReadInstructions
    BY <1>4, InstructionFilesStart
  <1>5. CASE Change
    BY <1>5, ChangeKeepsStart
  <1>6. CASE Request \/ Quit \/ TurnOver
    <2>1. /\ stage \in {"line", "turn"} /\ failure = "none" /\ failure' = "none"
          /\ UNCHANGED <<config, settings>>
          /\ stage' \in {"statInstructions", "line", "exited"}
          /\ stage' = "exited" => locked' = FALSE
      BY <1>6 DEF Request, Quit, TurnOver, StartInv, StartsOrTells
    <2> QED
      BY <2>1, OthersKeepStart
  <1>7. CASE UNCHANGED startupVars
    BY <1>7, StartKept
  <1> QED
    BY <1>1, <1>2, <1>3, <1>4, <1>5, <1>6, <1>7 DEF RunNext, Startup, Ask, allVars

\* For any configuration and any files: om starts exactly when its configuration is
\* right, with the first value of each setting; a later failure has its cause in a
\* file, and a lock is left by none.
THEOREM SessionsStartOrTell == RunSpec => []StartsOrTells
  <1>1. StartupInit => StartInv
    BY InitStartInv
  <1>2. RunInv /\ StartInv /\ [RunNext]_allVars => StartInv'
    BY NextStartInv
  <1>3. StartInv => StartsOrTells
    BY DEF StartInv
  <1> QED
    BY <1>1, <1>2, <1>3, RunInvariant, PTL DEF RunSpec, allVars

-----------------------------------------------------------------------------
(* The instructions *)

LEMMA InitPromptInv == StartupInit => PromptInv
  <1>1. <<>> \in Seq(InstructionFiles)
    OBVIOUS
  <1> QED
    BY <1>1 DEF StartupInit, PromptInv

\* What a file has held since the request is not forgotten before the next one.
LEMMA PromptKept ==
  ASSUME PromptInv, NEW n \in 0 .. 2, PromptOf(n), UNCHANGED prompt,
         \A f \in FilesRead : since[f] \subseteq since'[f]
  PROVE  PromptOf(n)'
  <1>1. UNCHANGED <<instructions, interrupted>>
    BY DEF prompt
  <1>2. ASSUME NEW i \in DOMAIN instructions PROVE Whole(instructions[i])'
    <2>1. Whole(instructions[i])
      BY DEF PromptOf
    <2>2. instructions[i] \in InstructionFiles
      BY DEF PromptInv
    <2>3. instructions[i].path \in FilesRead
      BY <2>2, InstructionFileNames DEF InstructionFiles
    <2> QED
      BY <1>1, <2>1, <2>3 DEF Whole
  <1>3. \A k \in 1 .. n : MayBeMissing(INSTRUCTION_FILES[k]) => MayBeMissing(INSTRUCTION_FILES[k])'
    BY InstructionFileNames DEF MayBeMissing
  <1>4. \A i \in DOMAIN instructions' :
          /\ Whole(instructions[i])'
          /\ \E k \in 1 .. n : instructions'[i].path = INSTRUCTION_FILES[k]
    BY <1>1, <1>2 DEF PromptOf
  <1>5. \A k \in 1 .. n :
          \/ \E i \in DOMAIN instructions' : instructions'[i].path = INSTRUCTION_FILES[k]
          \/ MayBeMissing(INSTRUCTION_FILES[k])'
    BY <1>1, <1>3 DEF PromptOf
  <1>6. \A i, j \in DOMAIN instructions', k, l \in 1 .. 2 :
          (/\ i < j
           /\ instructions'[i].path = INSTRUCTION_FILES[k]
           /\ instructions'[j].path = INSTRUCTION_FILES[l]) => k < l
    BY <1>1 DEF PromptOf
  <1> QED
    BY <1>4, <1>5, <1>6 DEF PromptOf

\* A file that is left out has its reason.
LEMMA SkipKeepsPrompt ==
  ASSUME NEW n \in 1 .. 2, PromptOf(n - 1), MayBeMissing(INSTRUCTION_FILES[n]),
         UNCHANGED <<instructions, since>>, interrupted => interrupted'
  PROVE  PromptOf(n)'
  <1>1. \A i \in DOMAIN instructions : Whole(instructions[i]) => Whole(instructions[i])'
    BY DEF Whole
  <1>2. \A k : MayBeMissing(INSTRUCTION_FILES[k]) => MayBeMissing(INSTRUCTION_FILES[k])'
    BY DEF MayBeMissing
  <1>3. \A i \in DOMAIN instructions' :
          /\ Whole(instructions[i])'
          /\ \E k \in 1 .. n : instructions'[i].path = INSTRUCTION_FILES[k]
    BY <1>1 DEF PromptOf
  <1>4. \A k \in 1 .. n : k = n \/ k \in 1 .. n - 1
    OBVIOUS
  <1>5. \A k \in 1 .. n :
          \/ \E i \in DOMAIN instructions' : instructions'[i].path = INSTRUCTION_FILES[k]
          \/ MayBeMissing(INSTRUCTION_FILES[k])'
    BY <1>2, <1>4 DEF PromptOf
  <1>6. \A i, j \in DOMAIN instructions', k, l \in 1 .. 2 :
          (/\ i < j
           /\ instructions'[i].path = INSTRUCTION_FILES[k]
           /\ instructions'[j].path = INSTRUCTION_FILES[l]) => k < l
    BY DEF PromptOf
  <1> QED
    BY <1>3, <1>5, <1>6 DEF PromptOf

\* A file that is loaded comes behind the ones before it.
LEMMA LoadKeepsPrompt ==
  ASSUME PromptInv, NEW n \in 1 .. 2, PromptOf(n - 1),
         NEW content \in Contents \cup {[kind |-> "text", size |-> 0]},
         instructions' = Append(instructions, [path |-> INSTRUCTION_FILES[n], content |-> content]),
         UNCHANGED since, interrupted => interrupted',
         \/ content \in since[INSTRUCTION_FILES[n]]
         \/ interrupted' /\ content.size = 0,
         \/ content.kind = "pipe"
         \/ content.kind = "text" /\ content.size < InstructionBudget
  PROVE  PromptOf(n)' /\ instructions' \in Seq(InstructionFiles)
  <1> DEFINE new == [path |-> INSTRUCTION_FILES[n], content |-> content]
             last == Len(instructions) + 1
  <1>1. new \in InstructionFiles
    BY DEF InstructionFiles
  <1>2. /\ instructions \in Seq(InstructionFiles) /\ instructions' \in Seq(InstructionFiles)
        /\ DOMAIN instructions' = 1 .. last /\ last \in Nat \ {0}
        /\ DOMAIN instructions = 1 .. last - 1
        /\ \A i \in DOMAIN instructions : instructions'[i] = instructions[i]
        /\ instructions'[last] = new
    BY <1>1 DEF PromptInv
  <1>3. new.path = INSTRUCTION_FILES[n] /\ new.content = content
    OBVIOUS
  <1> HIDE DEF new, last
  <1>4. ASSUME NEW i \in DOMAIN instructions'
        PROVE  /\ Whole(instructions[i])'
               /\ \E k \in 1 .. n : instructions'[i].path = INSTRUCTION_FILES[k]
    <2>1. CASE i = last
      BY <1>2, <1>3, <2>1 DEF Whole
    <2>2. CASE i # last
      <3>1. i \in DOMAIN instructions /\ instructions'[i] = instructions[i]
        BY <1>2, <2>2
      <3>2. /\ Whole(instructions[i])
            /\ \E k \in 1 .. n - 1 : instructions[i].path = INSTRUCTION_FILES[k]
        BY <3>1 DEF PromptOf
      <3> QED
        BY <3>1, <3>2 DEF Whole
    <2> QED
      BY <2>1, <2>2
  <1>5. ASSUME NEW k \in 1 .. n
        PROVE  \/ \E i \in DOMAIN instructions' : instructions'[i].path = INSTRUCTION_FILES[k]
               \/ MayBeMissing(INSTRUCTION_FILES[k])'
    <2>1. CASE k = n
      BY <1>2, <1>3, <2>1
    <2>2. CASE k # n
      <3>1. k \in 1 .. n - 1
        BY <2>2
      <3>2. CASE MayBeMissing(INSTRUCTION_FILES[k])
        BY <3>2 DEF MayBeMissing
      <3>3. CASE \E i \in DOMAIN instructions : instructions[i].path = INSTRUCTION_FILES[k]
        BY <1>2, <3>3
      <3> QED
        BY <3>1, <3>2, <3>3 DEF PromptOf
    <2> QED
      BY <2>1, <2>2
  <1>6. ASSUME NEW i \in DOMAIN instructions', NEW j \in DOMAIN instructions',
               NEW k \in 1 .. 2, NEW l \in 1 .. 2, i < j,
               instructions'[i].path = INSTRUCTION_FILES[k],
               instructions'[j].path = INSTRUCTION_FILES[l]
        PROVE  k < l
    <2>1. i \in DOMAIN instructions /\ instructions'[i] = instructions[i]
      BY <1>2, <1>6
    <2>2. CASE j = last
      <3>1. INSTRUCTION_FILES[l] = INSTRUCTION_FILES[n]
        BY <1>2, <1>3, <1>6, <2>2
      <3>2. PICK h \in 1 .. n - 1 : instructions[i].path = INSTRUCTION_FILES[h]
        BY <2>1 DEF PromptOf
      <3>3. INSTRUCTION_FILES[k] = INSTRUCTION_FILES[h]
        BY <1>6, <2>1, <3>2
      <3> QED
        BY <3>1, <3>3 DEF INSTRUCTION_FILES
    <2>3. CASE j # last
      <3>1. j \in DOMAIN instructions /\ instructions'[j] = instructions[j]
        BY <1>2, <2>3
      <3> QED
        BY <1>6, <2>1, <3>1 DEF PromptOf
    <2> QED
      BY <2>2, <2>3
  <1>7. PromptOf(n)'
    <2>1. \A i \in DOMAIN instructions' : Whole(instructions[i])'
      BY <1>4
    <2> QED
      BY <1>4, <2>1, <1>5, <1>6 DEF PromptOf
  <1> QED
    BY <1>2, <1>7

\* What comes after the n-th instruction file.
LEMMA NextFileKeepsPrompt ==
  ASSUME NEW n \in 1 .. 2, n = file, NextInstructionFile, PromptOf(n)',
         instructions' \in Seq(InstructionFiles), interrupted' \in BOOLEAN
  PROVE  PromptInv'
  <1>1. CASE n = 1
    <2>1. file' = 2 /\ stage' = "statInstructions" /\ file' - 1 = n
      BY <1>1 DEF NextInstructionFile
    <2>2. PromptOf(file - 1)'
      BY <2>1
    <2> QED
      BY <2>1, <2>2 DEF PromptInv
  <1>2. CASE n = 2
    <2>1. stage' = "turn"
      BY <1>2 DEF NextInstructionFile
    <2> QED
      BY <1>2, <2>1 DEF PromptInv
  <1> QED
    BY <1>1, <1>2

LEMMA InstructionFilesKeepPrompt ==
  PromptInv /\ LoadedInv /\ (StatInstructions \/ ReadInstructions) => PromptInv'
  <1> SUFFICES ASSUME PromptInv, LoadedInv, StatInstructions \/ ReadInstructions
               PROVE  PromptInv'
    OBVIOUS
  <1>1. PICK n \in 1 .. 2 : n = file
    BY DEF LoadedInv
  <1> DEFINE f == INSTRUCTION_FILES[n]
             Load(content) == instructions' = Append(instructions, [path |-> f, content |-> content])
  <1>2. /\ stage \in {"statInstructions", "readInstructions"} /\ UNCHANGED <<disk, since>>
        /\ disk[f] \in since[f] /\ disk[f] \in Contents
    BY <1>1, InstructionFileNames DEF StatInstructions, ReadInstructions, LoadedInv
  <1>3. /\ PromptOf(n - 1) /\ instructions \in Seq(InstructionFiles)
        /\ interrupted \in BOOLEAN
    BY <1>1, <1>2 DEF PromptInv
  <1>4. ASSUME MayBeMissing(f), NextInstructionFile, UNCHANGED instructions,
               interrupted => interrupted', interrupted' \in BOOLEAN
        PROVE  PromptInv'
    BY <1>1, <1>2, <1>3, <1>4, SkipKeepsPrompt, NextFileKeepsPrompt
  <1>5. ASSUME NEW content \in Contents \cup {[kind |-> "text", size |-> 0]}, Load(content),
               NextInstructionFile, interrupted => interrupted', interrupted' \in BOOLEAN,
               content \in since[f] \/ (interrupted' /\ content.size = 0),
               \/ content.kind = "pipe"
               \/ content.kind = "text" /\ content.size < InstructionBudget
        PROVE  PromptInv'
    <2>1. PromptOf(n)' /\ instructions' \in Seq(InstructionFiles)
      BY <1>2, <1>3, <1>5, LoadKeepsPrompt
    <2> QED
      BY <1>1, <1>5, <2>1, NextFileKeepsPrompt
  <1>6. CASE stage' = "readInstructions" /\ UNCHANGED <<file, prompt>>
    <2>1. PromptOf(n - 1)'
      BY <1>2, <1>3, <1>6, PromptKept
    <2>2. PromptOf(file - 1)'
      BY <1>1, <1>6, <2>1
    <2> QED
      BY <1>3, <1>6, <2>2 DEF PromptInv, prompt
  <1>7. CASE stage' = "failed" /\ UNCHANGED prompt
    BY <1>3, <1>7 DEF PromptInv, prompt
  <1>8. CASE StatInstructions
    <2>1. UNCHANGED <<prompt, instructions, interrupted>>
      BY <1>8 DEF StatInstructions, prompt
    <2>2. CASE /\ disk[f].kind = "absent" \/ Size(disk[f]) > InstructionBudget
               /\ NextInstructionFile
      <3>1. disk[f].kind = "absent"
              \/ (disk[f].kind = "text" /\ disk[f].size >= InstructionBudget)
        BY <1>2, <2>2, BudgetAssumption, ContentsAssumption DEF Size
      <3>2. MayBeMissing(f)
        BY <1>2, <3>1 DEF MayBeMissing
      <3> QED
        BY <1>3, <1>4, <2>1, <2>2, <3>2
    <2> QED
      BY <1>1, <1>6, <1>7, <1>8, <2>1, <2>2 DEF StatInstructions, Fail
  <1>9. CASE ReadInstructions
    <2>1. CASE interrupted /\ Load([kind |-> "text", size |-> 0]) /\ NextInstructionFile
                 /\ UNCHANGED interrupted
      BY <1>3, <1>5, <2>1, BudgetAssumption
    <2>2. CASE /\ ~ interrupted /\ disk[f].kind = "text"
               /\ IF Keeps(disk[f]) THEN Load(disk[f]) ELSE UNCHANGED instructions
               /\ NextInstructionFile /\ UNCHANGED interrupted
      <3>1. CASE Keeps(disk[f])
        BY <1>2, <1>3, <1>5, <2>2, <3>1 DEF Keeps
      <3>2. CASE ~ Keeps(disk[f])
        <4>1. disk[f].size >= InstructionBudget
          BY <1>2, <2>2, <3>2, BudgetAssumption, ContentsAssumption DEF Keeps
        <4>2. MayBeMissing(f)
          BY <1>2, <2>2, <4>1 DEF MayBeMissing
        <4> QED
          BY <1>3, <1>4, <2>2, <3>2, <4>2
      <3> QED
        BY <3>1, <3>2
    <2>3. CASE /\ ~ interrupted /\ disk[f].kind = "pipe"
               /\ Load(disk[f]) \/ UNCHANGED instructions
               /\ NextInstructionFile /\ interrupted' \in BOOLEAN
      <3>1. MayBeMissing(f)
        BY <1>2, <2>3 DEF MayBeMissing
      <3> QED
        BY <1>2, <1>4, <1>5, <2>3, <3>1
    <2> QED
      BY <1>1, <1>7, <1>9, <2>1, <2>2, <2>3 DEF ReadInstructions, Fail
  <1> QED
    BY <1>8, <1>9

LEMMA NextPromptInv == RunInv /\ PromptInv /\ [RunNext]_allVars => PromptInv'
  <1> SUFFICES ASSUME LoadedInv, PromptInv, [RunNext]_allVars PROVE PromptInv'
    BY DEF RunInv
  <1>1. CASE StatInstructions \/ ReadInstructions
    BY <1>1, InstructionFilesKeepPrompt
  <1>2. CASE Request
    <2>1. /\ instructions' = <<>> /\ interrupted' = FALSE /\ file' - 1 = 0
          /\ stage' = "statInstructions"
      BY <1>2 DEF Request
    <2>2. PromptOf(file - 1)'
      BY <2>1 DEF PromptOf
    <2>3. instructions' \in Seq(InstructionFiles)
      BY <2>1
    <2> QED
      BY <2>1, <2>2, <2>3 DEF PromptInv
  <1>3. CASE Change
    <2>1. UNCHANGED <<stage, file, prompt>> /\ file \in 1 .. 2 /\ stage # "turn"
      BY <1>3 DEF Change, LoadedInv
    <2>2. \A f \in FilesRead : since[f] \subseteq since'[f]
      BY <1>3 DEF Change, LoadedInv
    <2>3. PICK n \in 0 .. 2 : n = file - 1
      BY <2>1
    <2>4. stage \in {"statInstructions", "readInstructions"} => PromptOf(n)'
      BY <2>1, <2>2, <2>3, PromptKept DEF PromptInv
    <2>5. n = file' - 1
      BY <2>1, <2>3
    <2> QED
      BY <2>1, <2>4, <2>5 DEF PromptInv, prompt
  <1>4. CASE LoadSettings \/ Bootstrap \/ StatPolicy \/ ReadPolicy \/ Quit \/ TurnOver
    <2>1. /\ UNCHANGED <<instructions, interrupted>>
          /\ stage' \notin {"statInstructions", "readInstructions", "turn"}
      BY <1>4 DEF LoadSettings, Bootstrap, StatPolicy, ReadPolicy, Quit, TurnOver,
                  NextPolicyFile, Fail, prompt
    <2> QED
      BY <2>1 DEF PromptInv
  <1>5. CASE UNCHANGED startupVars
    <2>1. UNCHANGED <<stage, file, instructions, interrupted, since, prompt>>
      BY <1>5 DEF startupVars, prompt
    <2>2. \A n : PromptOf(n) => PromptOf(n)'
      BY <2>1 DEF PromptOf, Whole, MayBeMissing
    <2> QED
      BY <2>1, <2>2 DEF PromptInv
  <1> QED
    BY <1>1, <1>2, <1>3, <1>4, <1>5 DEF RunNext, Startup, Ask, allVars

\* For files of any size that other programs replace at any time: every request gets
\* AGENTS.md before CLAUDE.md, each whole or left out for a reason.
THEOREM PromptsAreWhole == RunSpec => []InstructionsWhole
  <1>1. StartupInit => PromptInv
    BY InitPromptInv
  <1>2. RunInv /\ PromptInv /\ [RunNext]_allVars => PromptInv'
    BY NextPromptInv
  <1>3. PromptInv => InstructionsWhole
    BY DEF PromptInv, PromptOf, InstructionsWhole
  <1> QED
    BY <1>1, <1>2, <1>3, RunInvariant, PTL DEF RunSpec, allVars
=============================================================================
