------------------------------- MODULE Startup -------------------------------
(***************************************************************************)
(* What "om run" goes by: the settings of its configuration, the rules of  *)
(* the two policy files, and before every request the instruction files    *)
(* (commands/run.ts, policy-tiers.ts, discovery.ts, config/).  Of a turn   *)
(* there is one decision of Policy, on the lists that were loaded.         *)
(*                                                                         *)
(* Other programs replace the files at any time, so also between the stat  *)
(* of one and its read.  What a stat or a read does inside is LocalRead.   *)
(***************************************************************************)
EXTENDS Policy

CONSTANTS
  Worlds,             \* [config, disk]: what om is started with
  PolicyContents,     \* what other programs put into a policy file
  InstructionContents,
  InstructionBudget,  \* MAX_INSTRUCTION_BYTES
  MaxChanges,         \* bound: how often a file changes
  MaxRequests         \* bound: how many requests the user makes

\* A file of policy rules is absent, unreadable, malformed, as large as its budget,
\* or has rules; a file of instructions is absent, unreadable, a pipe or a text.
PolicyFiles == <<"policy.json", ".om-code/policy.json">>
INSTRUCTION_FILES == <<"AGENTS.md", "CLAUDE.md">>
FilesRead == {PolicyFiles[i] : i \in 1 .. 2} \cup {INSTRUCTION_FILES[i] : i \in 1 .. 2}

Contents == PolicyContents \cup InstructionContents
              \cup {world.disk[f] : world \in Worlds, f \in FilesRead}

\* parseRuleFile passes lists of well-formed rules alone; a text has a size.
ASSUME ContentsAssumption ==
  /\ \A world \in Worlds : world.disk \in [FilesRead -> Contents]
  /\ \A content \in Contents : /\ content.kind = "rules" => content.rules \in Seq(AllRules)
                               /\ content.kind = "text" => content.size \in Nat

ASSUME BudgetAssumption == InstructionBudget \in Nat \ {0}

\* A document of the configuration gives some of the settings a value, which its
\* parser accepts ("good") or refuses ("bad").
SETTINGS == {"baseUrl", "model", "credential", "maxWallClockMs",
             "pricingInputPerMTok", "pricingOutputPerMTok"}
Required == {"baseUrl", "model"}
Sources == <<"flag", "env", "project", "user">>
Pricing == {"pricingInputPerMTok", "pricingOutputPerMTok"}

\* A value is accepted or refused, whatever its source.
Judged(configuration) ==
  \A s \in 1 .. 4 : \A key \in DOMAIN configuration[Sources[s]].sets :
    configuration[Sources[s]].sets[key] \in {"good", "bad"}

ASSUME SettingsAssumption == \A world \in Worlds : Judged(world.config)

VARIABLES
  stage,        \* what om waits for
  failure,      \* what it failed for
  config, disk,
  settings,     \* where the value of each setting is from, 0 for nowhere
  since,        \* what each file has held since om could first look at it
  file,         \* the policy or instruction file looked at, by its place
  loaded,       \* the rule lists of the policy files
  instructions, \* what the prompt of the request gets
  interrupted,  \* the signal of the request
  locked,       \* the session's journal is open
  changes, requests

prompt == <<instructions, interrupted>>
startupVars == <<stage, failure, config, disk, settings, since, file, loaded, prompt,
                 locked, changes, requests>>

StartupInit ==
  /\ \E world \in Worlds : config = world.config /\ disk = world.disk
  /\ stage = "configure" /\ failure = "none"
  /\ settings = [key \in SETTINGS |-> 0]
  /\ since = [f \in FilesRead |-> {disk[f]}]
  /\ file = 1 /\ loaded = <<>>
  /\ instructions = <<>> /\ interrupted = FALSE
  /\ locked = FALSE /\ changes = 0 /\ requests = 0
  /\ raw = Unrecognized /\ tiers = <<>> /\ pc = "waiting"
  /\ entry = 1 /\ seen = [t \in POLICY_TIERS |-> <<>>]
  /\ tier = 1 /\ at = 1 /\ winner = 0
  /\ contenders = [t \in POLICY_TIERS |-> 0] /\ elected = 0
  /\ decision = Undecided

-----------------------------------------------------------------------------
(* The configuration *)

Sets(source, key) == key \in DOMAIN config[Sources[source]].sets

\* The first source that has the setting, whatever it says.
PickRaw(key) ==
  LET setting == {s \in 1 .. 4 : Sets(s, key)}
  IN  IF setting = {} THEN 0 ELSE CHOOSE s \in setting : \A o \in setting : s <= o

\* Mutant: every value has to be valid, whether it is the one that counts or not.
AllValid == \A s \in 1 .. 4 : \A key \in DOMAIN config[Sources[s]].sets :
              config[Sources[s]].sets[key] = "good"

\* resolveSettings parses the values that count alone.
ValuesValid == \A key \in SETTINGS :
                 PickRaw(key) # 0 => config[Sources[PickRaw(key)]].sets[key] = "good"

\* requireComplete, and what run asks of a cap on the cost.
Complete ==
  /\ \A key \in Required : PickRaw(key) # 0
  /\ (PickRaw("pricingInputPerMTok") = 0) <=> (PickRaw("pricingOutputPerMTok") = 0)
  /\ config.maxCost => \A key \in Pricing : PickRaw(key) # 0

\* Files that do not parse fail, also where nothing in them would count.
LoadSettings ==
  /\ stage = "configure"
  /\ IF config.project.parses /\ config.user.parses /\ ValuesValid /\ Complete
     THEN /\ settings' = [key \in SETTINGS |-> PickRaw(key)]
          /\ stage' = "open" /\ UNCHANGED failure
     ELSE stage' = "failed" /\ failure' = "config" /\ UNCHANGED settings
  /\ UNCHANGED <<config, disk, since, file, loaded, prompt, locked, changes, requests>>

\* bootstrapSession: the journal is opened, or it is not; a failed session_start
\* closes it again.
Bootstrap ==
  /\ stage = "open"
  /\ \/ stage' = "stat" /\ locked' = TRUE /\ UNCHANGED failure
     \/ stage' = "failed" /\ failure' = "journal" /\ UNCHANGED locked
  /\ UNCHANGED <<config, disk, settings, since, file, loaded, prompt, changes, requests>>

-----------------------------------------------------------------------------
(* The policy files *)

\* A call on a path fails for what is there, or for a change in the midst of it.
CallFails(f) == disk[f].kind = "unreadable" \/ since[f] # {disk[f]}

\* Any error of the load closes the journal.
Fail(cause) == stage' = "failed" /\ failure' = cause /\ locked' = FALSE

NextPolicyFile ==
  /\ file' = IF file = 2 THEN 1 ELSE file + 1
  /\ stage' = IF file = 2 THEN "line" ELSE "stat"
  /\ UNCHANGED <<failure, locked>>

\* An absent file is an empty tier.
StatPolicy ==
  LET f == PolicyFiles[file]
  IN  /\ stage = "stat"
      /\ \/ disk[f].kind = "absent" /\ NextPolicyFile
         \/ disk[f].kind # "absent" /\ stage' = "read" /\ UNCHANGED <<file, failure, locked>>
         \/ CallFails(f) /\ Fail("policy") /\ UNCHANGED file
      /\ UNCHANGED <<config, disk, settings, since, loaded, prompt, changes, requests>>

\* Mutant: what is not a file of rules is an empty tier too.
ReadPolicyLeniently ==
  LET f == PolicyFiles[file]
  IN  /\ stage = "read" /\ NextPolicyFile
      /\ loaded' = IF disk[f].kind = "rules"
                   THEN Append(loaded, [tier |-> file, rules |-> disk[f].rules])
                   ELSE loaded
      /\ UNCHANGED <<config, disk, settings, since, prompt, changes, requests>>

\* All of the file, below its budget, and every rule of it well-formed.
ReadPolicy ==
  LET f == PolicyFiles[file]
  IN  /\ stage = "read"
      /\ \/ /\ disk[f].kind = "rules" /\ NextPolicyFile
            /\ loaded' = Append(loaded, [tier |-> file, rules |-> disk[f].rules])
         \/ /\ disk[f].kind # "rules" \/ CallFails(f)
            /\ Fail("policy") /\ UNCHANGED <<file, loaded>>
      /\ UNCHANGED <<config, disk, settings, since, prompt, changes, requests>>

-----------------------------------------------------------------------------
(* A request *)

\* The user's next line: the instruction files are read again.
Request ==
  /\ stage = "line" /\ requests < MaxRequests
  /\ stage' = "statInstructions" /\ requests' = requests + 1
  /\ since' = [f \in FilesRead |-> IF f \in {PolicyFiles[1], PolicyFiles[2]} THEN since[f]
                                   ELSE {disk[f]}]
  /\ file' = 1 /\ instructions' = <<>> /\ interrupted' = FALSE
  /\ UNCHANGED <<failure, config, disk, settings, loaded, locked, changes>>

NextInstructionFile ==
  /\ file' = IF file = 2 THEN 1 ELSE file + 1
  /\ stage' = IF file = 2 THEN "turn" ELSE "statInstructions"
  /\ UNCHANGED <<failure, locked>>

Size(content) == IF content.kind = "text" THEN content.size ELSE 0

\* An absent file and one above the budget are left out.
StatInstructions ==
  LET f == INSTRUCTION_FILES[file]
      skipped == disk[f].kind = "absent" \/ Size(disk[f]) > InstructionBudget
  IN  /\ stage = "statInstructions"
      /\ \/ skipped /\ NextInstructionFile
         \/ ~ skipped /\ stage' = "readInstructions" /\ UNCHANGED <<file, failure, locked>>
         \/ CallFails(f) /\ Fail("instructions") /\ UNCHANGED file
      /\ UNCHANGED <<config, disk, settings, since, loaded, prompt, changes, requests>>

\* Mutant: what the budget has room for is loaded.
KeepsAnything(content) == content.kind = "text"

\* The read is told truncated also when the budget is met exactly.
Keeps(content) == content.kind = "text" /\ content.size < InstructionBudget

\* The loaded file has all of its text; only a pipe is cut where its writer or the
\* deadline left it, or an interrupt, which nothing else of the request lets in.
\* After it the next file is told read, and has no text.
ReadInstructions ==
  LET f == INSTRUCTION_FILES[file]
      Load(content) ==
        instructions' = Append(instructions, [path |-> f, content |-> content])
      Skip == UNCHANGED instructions
  IN  /\ stage = "readInstructions"
      /\ \/ /\ interrupted /\ Load([kind |-> "text", size |-> 0])
            /\ NextInstructionFile /\ UNCHANGED interrupted
         \/ /\ ~ interrupted /\ disk[f].kind = "text"
            /\ IF Keeps(disk[f]) THEN Load(disk[f]) ELSE Skip
            /\ NextInstructionFile /\ UNCHANGED interrupted
         \/ /\ ~ interrupted /\ disk[f].kind = "pipe"
            /\ Load(disk[f]) \/ Skip
            /\ NextInstructionFile /\ interrupted' \in BOOLEAN
         \/ /\ ~ interrupted /\ (disk[f].kind = "absent" \/ CallFails(f))
            /\ Fail("instructions") /\ UNCHANGED <<file, prompt>>
      /\ UNCHANGED <<config, disk, settings, since, loaded, changes, requests>>

\* A tool of the turn asks for its permission.
Ask ==
  /\ stage = "turn" /\ pc = "waiting" /\ raw' \in Requests
  /\ tiers' = Append(loaded, [tier |-> Session, rules |-> <<BUILTIN_ALLOW_READ>>])
  /\ pc' = "validate"
  /\ UNCHANGED <<startupVars, entry, seen, tier, at, winner, contenders, elected, decision>>

\* The turn is over, and the session with it or not; decide keeps nothing.
TurnOver ==
  /\ stage = "turn" /\ pc \in {"waiting", "decided"}
  /\ \/ stage' = "line" /\ UNCHANGED locked
     \/ stage' = "exited" /\ locked' = FALSE
  /\ raw' = Unrecognized /\ tiers' = <<>> /\ pc' = "waiting"
  /\ entry' = 1 /\ seen' = [t \in POLICY_TIERS |-> <<>>]
  /\ tier' = 1 /\ at' = 1 /\ winner' = 0
  /\ contenders' = [t \in POLICY_TIERS |-> 0] /\ elected' = 0
  /\ decision' = Undecided
  /\ UNCHANGED <<failure, config, disk, settings, since, file, loaded, prompt, changes,
                 requests>>

\* The end of the user's input.
Quit ==
  /\ stage = "line"
  /\ stage' = "exited" /\ locked' = FALSE
  /\ UNCHANGED <<failure, config, disk, settings, since, file, loaded, prompt, changes,
                 requests>>

\* External: another program replaces or removes, at once, the file om is about to
\* look at.  A change of another one is seen as one before its stat, or never.
Change ==
  /\ changes < MaxChanges /\ changes' = changes + 1
  /\ \E f \in FilesRead :
       /\ \/ /\ stage \in {"stat", "read"} /\ f = PolicyFiles[file]
             /\ \E content \in PolicyContents : disk' = [disk EXCEPT ![f] = content]
          \/ /\ stage \in {"statInstructions", "readInstructions"}
             /\ f = INSTRUCTION_FILES[file]
             /\ \E content \in InstructionContents : disk' = [disk EXCEPT ![f] = content]
       /\ since' = [since EXCEPT ![f] = @ \cup {disk'[f]}]
  /\ UNCHANGED <<stage, failure, config, settings, file, loaded, prompt, locked, requests>>

Startup ==
  \/ LoadSettings \/ Bootstrap \/ StatPolicy \/ ReadPolicy
  \/ Request \/ StatInstructions \/ ReadInstructions \/ Quit \/ Change

RunNext ==
  \/ Startup /\ UNCHANGED vars
  \/ Ask \/ TurnOver
  \/ stage = "turn" /\ pc # "waiting" /\ Next /\ UNCHANGED startupVars

RunSpec == StartupInit /\ [][RunNext]_<<vars, startupVars>>

-----------------------------------------------------------------------------
(* Properties *)

\* What a turn does without asking is what the policy files let it: each had been
\* absent since om started, or had rules of which every matching one allows.  One
\* that is malformed, too large or unreadable never passes for an empty tier
\* (policy-tiers.ts 5-9), also where it becomes so between the stat and the read.
AllowedByFiles ==
  (stage = "turn" /\ decision.outcome = "allow") =>
    \A t \in 1 .. 2 : \E content \in since[PolicyFiles[t]] :
      \/ content.kind = "absent"
      \/ /\ content.kind = "rules"
         /\ \A i \in DOMAIN content.rules :
              Matches(content.rules[i], raw) => content.rules[i].outcome = "allow"

\* As it was at a moment of this request and, but for a pipe and what the user
\* interrupted, with all of its text.
Whole(loadedFile) ==
  LET content == loadedFile.content
  IN  /\ \/ content \in since[loadedFile.path]
         \/ interrupted /\ content.size = 0
      /\ \/ content.kind = "pipe"
         \/ content.kind = "text" /\ content.size < InstructionBudget

\* Left out: it was absent or a pipe, or met its budget.
MayBeMissing(f) ==
  \E content \in since[f] :
    \/ content.kind \in {"absent", "pipe"}
    \/ content.kind = "text" /\ content.size >= InstructionBudget

\* The prompt has AGENTS.md before CLAUDE.md (AC-20.2), each of them whole; what is
\* left out has a reason (discovery.ts 37 and 75).
InstructionsWhole ==
  stage = "turn" =>
    /\ \A i, j \in DOMAIN instructions, k, l \in 1 .. 2 :
         (/\ i < j
          /\ instructions[i].path = INSTRUCTION_FILES[k]
          /\ instructions[j].path = INSTRUCTION_FILES[l]) => k < l
    /\ \A i \in DOMAIN instructions : Whole(instructions[i])
    /\ \A k \in 1 .. 2 :
         \/ \E i \in DOMAIN instructions : instructions[i].path = INSTRUCTION_FILES[k]
         \/ MayBeMissing(INSTRUCTION_FILES[k])

\* Nothing may take effect: a file that is none, a value that is first and refused,
\* a setting that nobody has, a price without the other or a cap without both.
Misconfigured ==
  LET Has(key) == \E s \in 1 .. 4 : Sets(s, key)
  IN  \/ ~ config.project.parses \/ ~ config.user.parses
      \/ \E key \in SETTINGS, s \in 1 .. 4 :
           /\ Sets(s, key) /\ config[Sources[s]].sets[key] = "bad"
           /\ \A higher \in 1 .. s - 1 : ~ Sets(higher, key)
      \/ \E key \in Required : ~ Has(key)
      \/ \E price \in Pricing : ~ Has(price) /\ (config.maxCost \/ \E p \in Pricing : Has(p))

\* om starts exactly when its configuration is right, and with the first value of
\* each setting: an invalid one behind it stops nothing.  What fails later has its
\* cause in a file, and leaves no lock (run.ts 136-137).
StartsOrTells ==
  /\ stage # "configure" => (failure = "config" <=> Misconfigured)
  /\ stage \notin {"configure", "failed"} =>
       \A key \in SETTINGS, s \in 1 .. 4 : Sets(s, key) =>
         settings[key] \in 1 .. s /\ config[Sources[settings[key]]].sets[key] = "good"
  /\ stage \in {"failed", "exited"} => ~ locked
  /\ stage = "failed" <=> failure # "none"
  /\ failure = "policy" =>
       \E t \in 1 .. 2 : \/ since[PolicyFiles[t]] # {disk[PolicyFiles[t]]}
                         \/ disk[PolicyFiles[t]].kind \notin {"absent", "rules"}
  /\ failure = "instructions" =>
       \E k \in 1 .. 2 : \/ since[INSTRUCTION_FILES[k]] # {disk[INSTRUCTION_FILES[k]]}
                         \/ disk[INSTRUCTION_FILES[k]].kind = "unreadable"
-----------------------------------------------------------------------------
(* Why what is allowed is allowed by the files *)

RulesOfFile(t) ==
  \E content \in since[PolicyFiles[t]] :
    \/ content.kind = "absent"
    \/ /\ content.kind = "rules"
       /\ \E e \in DOMAIN loaded : loaded[e].tier = t /\ loaded[e].rules = content.rules

\* The policy files looked at have brought all of their rules, ...
LoadedInv ==
  /\ disk \in [FilesRead -> Contents] /\ since \in [FilesRead -> SUBSET Contents]
  /\ \A f \in FilesRead : disk[f] \in since[f]
  /\ file \in 1 .. 2 /\ loaded \in Seq(TierRules)
  /\ stage \in {"configure", "open"} => file = 1
  /\ stage \in {"stat", "read"} => \A t \in 1 .. file - 1 : RulesOfFile(t)
  /\ stage \in {"line", "statInstructions", "readInstructions", "turn"} =>
       \A t \in 1 .. 2 : RulesOfFile(t)

\* ... and a decision is made on them and the built-in rule.
CalledInv ==
  /\ pc = "waiting" => /\ entry = 1 /\ seen = [t \in POLICY_TIERS |-> <<>>]
                       /\ tier = 1 /\ at = 1 /\ winner = 0
                       /\ contenders = [t \in POLICY_TIERS |-> 0] /\ elected = 0
                       /\ decision = Undecided
  /\ pc # "waiting" =>
       /\ PolicyInv
       /\ tiers = Append(loaded, [tier |-> Session, rules |-> <<BUILTIN_ALLOW_READ>>])
       /\ stage = "turn"

RunInv == LoadedInv /\ CalledInv

-----------------------------------------------------------------------------
(* Why om starts or tells, and the instructions are whole *)

\* What takes effect was first and is valid; what was found at a path was there.
StartInv ==
  /\ StartsOrTells /\ Judged(config)
  /\ stage \notin {"configure", "failed"} =>
       ValuesValid /\ settings = [key \in SETTINGS |-> PickRaw(key)]
  /\ stage \in {"configure", "open"} => ~ locked
  /\ stage = "read" => \E content \in since[PolicyFiles[file]] : content.kind # "absent"
  /\ stage = "readInstructions" =>
       \E content \in since[INSTRUCTION_FILES[file]] : content.kind # "absent"

\* The first n instruction files have been looked at.
PromptOf(n) ==
  /\ \A i \in DOMAIN instructions :
       /\ Whole(instructions[i])
       /\ \E k \in 1 .. n : instructions[i].path = INSTRUCTION_FILES[k]
  /\ \A i, j \in DOMAIN instructions, k, l \in 1 .. 2 :
       (/\ i < j
        /\ instructions[i].path = INSTRUCTION_FILES[k]
        /\ instructions[j].path = INSTRUCTION_FILES[l]) => k < l
  /\ \A k \in 1 .. n :
       \/ \E i \in DOMAIN instructions : instructions[i].path = INSTRUCTION_FILES[k]
       \/ MayBeMissing(INSTRUCTION_FILES[k])

InstructionFiles ==
  [path : {INSTRUCTION_FILES[k] : k \in 1 .. 2},
   content : Contents \cup {[kind |-> "text", size |-> 0]}]

PromptInv ==
  /\ instructions \in Seq(InstructionFiles) /\ interrupted \in BOOLEAN
  /\ stage \in {"statInstructions", "readInstructions"} => PromptOf(file - 1)
  /\ stage = "turn" => PromptOf(2)
=============================================================================
