\* One call id, which the model uses again in its second response.
CONSTANTS
  c1 = c1
  c2 = c2
  CallIds = {c1}
  Nature <- OneKnown
  NoCall = NoCall
  MaxInferences = 3
  MaxCost = 3
  MaxLines = 1
  JournalMayFail = FALSE
  OddText = FALSE
SPECIFICATION Spec
INVARIANT PromptShowsOwnResults
CHECK_DEADLOCK FALSE
