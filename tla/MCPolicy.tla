------------------------------ MODULE MCPolicy ------------------------------
(* Model-checking instance of Policy, called with any lists, and of Startup, which
   calls it with those of the policy files. *)
EXTENDS Startup

CONSTANT Entries   \* bound: how many rule lists a call has

Ids == <<"rule-1", "rule-2", "rule-3">>

\* A rule for everything; one for two classes below src, written with a slash, and
\* for the root directory alone.
Matchers ==
  {[risk_class |-> {}, paths |-> {}],
   [risk_class |-> {"read", "write_workspace"}, paths |-> {<<"src", "">>, <<"", "">>}]}

RulesOf(id) ==
  {[id |-> id, outcome |-> o, risk_class |-> m.risk_class, paths |-> m.paths] :
     o \in Outcomes, m \in Matchers}

\* What a policy file may say: one rule for everything or, below src, a refusal.
FileRules ==
  {[id |-> Ids[1], outcome |-> o, risk_class |-> {}, paths |-> {}] : o \in {"allow", "ask"}}
    \cup {[id |-> Ids[2], outcome |-> "deny", risk_class |-> {}, paths |-> {<<"src">>}]}

MCRules == FileRules \cup UNION {RulesOf(Ids[e]) : e \in 1 .. Entries}

\* Lists of one rule, which is named for the list's place: those of one tier
\* accumulate to longer ones.
MCTierLists ==
  LET Entry(e) == [tier : POLICY_TIERS, rules : {<<rule>> : rule \in RulesOf(Ids[e])}]
  IN  {<<>>} \cup {<<a>> : a \in Entry(1)} \cup {<<a, b>> : a \in Entry(1), b \in Entry(2)}
        \cup (IF Entries < 3 THEN {}
              ELSE {<<a, b, c>> : a \in Entry(1), b \in Entry(2), c \in Entry(3)})

\* Reading below src, in src-evil and in an absolute path; writing the one and
\* reading the other.
MCRequests ==
  {[risk_class |-> "read", paths |-> {<<"src", "a.ts">>}],
   [risk_class |-> "read", paths |-> {<<"src-evil", "x">>}],
   [risk_class |-> "write_workspace", paths |-> {<<"src">>, <<"", "etc">>}]}

\* Files of every kind.
MCPolicyContents ==
  {[kind |-> k] : k \in {"absent", "unreadable", "malformed", "large"}}
    \cup {[kind |-> "rules", rules |-> <<rule>>] : rule \in FileRules}

\* Texts below, at and above the budget.
MCInstructionContents ==
  {[kind |-> k] : k \in {"absent", "unreadable", "pipe"}}
    \cup {[kind |-> "text", size |-> n] : n \in InstructionBudget - 1 .. InstructionBudget + 1}

Document(sets) == [parses |-> TRUE, sets |-> sets]
Nothing == Document([key \in {} |-> "good"])
Without(keys) == Document([key \in Required \ keys |-> "good"])

\* The user's file has what is required, but for the settings under test, and each
\* source any value of these or none.
Configurations(keys) ==
  LET Over(base) == {Document([key \in DOMAIN base.sets \cup K |->
                                 IF key \in K THEN values[key] ELSE base.sets[key]]) :
                       K \in SUBSET keys, values \in [keys -> {"good", "bad"}]}
      Unparsed == [parses |-> FALSE, sets |-> Nothing.sets]
      Flags == IF keys \subseteq {"baseUrl", "model", "credential"} THEN Over(Nothing)
               ELSE {Nothing}
  IN  [flag : Flags, env : Over(Nothing), project : Over(Nothing) \cup {Unparsed},
       user : Over(Without(keys)) \cup {Unparsed}, maxCost : BOOLEAN]

Configured == [flag |-> Nothing, env |-> Nothing, project |-> Nothing,
               user |-> Without({}), maxCost |-> FALSE]

Absent == [kind |-> "absent"]
DiskOf(policy, texts) ==
  [f \in FilesRead |-> IF f \in DOMAIN policy THEN policy[f] ELSE texts[f]]
NoPolicy == [f \in {PolicyFiles[1], PolicyFiles[2]} |-> Absent]
NoText == [f \in {INSTRUCTION_FILES[1], INSTRUCTION_FILES[2]} |-> Absent]

\* Any configuration without files, and any files under one that is right.
MCWorlds ==
  {[config |-> c, disk |-> DiskOf(NoPolicy, NoText)] :
     c \in Configurations({"model"}) \cup Configurations({"credential"})
             \cup Configurations(Pricing)}
  \cup {[config |-> Configured, disk |-> DiskOf(policy, NoText)] :
          policy \in [DOMAIN NoPolicy -> MCPolicyContents]}
  \cup {[config |-> Configured, disk |-> DiskOf(NoPolicy, texts)] :
          texts \in [DOMAIN NoText -> MCInstructionContents]}

\* decide is called, by whomever: nothing is loaded.
Called ==
  /\ Init
  /\ config = Configured /\ disk = DiskOf(NoPolicy, NoText)
  /\ stage = "none" /\ failure = "none" /\ settings = [key \in SETTINGS |-> PickRaw(key)]
  /\ since = [f \in FilesRead |-> {disk[f]}]
  /\ file = 1 /\ loaded = <<>>
  /\ instructions = <<>> /\ interrupted = FALSE
  /\ locked = FALSE /\ changes = 0 /\ requests = 0

PolicyNext == RunNext \/ (stage = "none" /\ Next /\ UNCHANGED startupVars)

PolicySpec == (Called \/ StartupInit) /\ [][PolicyNext]_<<vars, startupVars>>
=============================================================================
