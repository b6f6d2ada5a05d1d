\* Three files, every choice of hits and ignored ones, a budget of two lines.
CONSTANTS
  Count = 3
  Files <- MCFiles
  MaxBytes = 2
SPECIFICATION FairSpec
INVARIANTS
  TypeOK
  OnlyWanted
  SelectedTold
  StopIsNoFailure
PROPERTY Ends
CHECK_DEADLOCK FALSE
