\* A tool name with a blank in it; the journal works.
CONSTANTS
  c1 = c1
  c2 = c2
  CallIds = {c1, c2}
  Nature <- OneOddName
  NoCall = NoCall
  MaxInferences = 1
  MaxCost = 3
  MaxLines = 1
  JournalMayFail = FALSE
  OddText = FALSE
SPECIFICATION Spec
INVARIANT OnlyJournalFailureThrows
CHECK_DEADLOCK FALSE
