\* Two files, and a budget they fit in.
CONSTANTS
  Count = 2
  Files <- MCFiles
  MaxBytes = 4
SPECIFICATION Spec
INVARIANT OkIsComplete
CHECK_DEADLOCK FALSE
