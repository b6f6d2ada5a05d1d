\* Up to three rule lists, of any tiers, over two matchers and three requests; and
\* what om loads, with one file that changes and two requests.
CONSTANTS
  Entries = 3
  InstructionBudget = 2
  MaxChanges = 1
  MaxRequests = 2
  Requests <- MCRequests
  Rules <- MCRules
  TierLists <- MCTierLists
  Worlds <- MCWorlds
  PolicyContents <- MCPolicyContents
  InstructionContents <- MCInstructionContents
SPECIFICATION PolicySpec
INVARIANTS
  AllowIsEarned
  DenyAnywhereWins
  AttributedRule
  AllowedByFiles
  InstructionsWhole
  StartsOrTells
CHECK_DEADLOCK FALSE
