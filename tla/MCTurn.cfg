\* Two calls, the same ids in every response, up to two inferences, one line;
\* appends may fail, and text from outside may be refused.
CONSTANTS
  c1 = c1
  c2 = c2
  CallIds = {c1, c2}
  Nature <- BothKnown
  NoCall = NoCall
  MaxInferences = 2
  MaxCost = 3
  MaxLines = 1
  JournalMayFail = TRUE
  OddText = TRUE
SPECIFICATION FairSpec
INVARIANTS
  EffectsAccounted
  ResultsBeforeInference
  ViewMirrorsJournal
  CapsHold
  OutcomeJournaled
  
PROPERTY TurnEnds
CHECK_DEADLOCK FALSE
