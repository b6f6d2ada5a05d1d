\* Three puts, two of them in one process, where they may overlap, or in two that
\* have one id after each other; two deaths, one power loss, failing system calls.
CONSTANTS
  p1 = p1
  p2 = p2
  p3 = p3
  Puts = {p1, p2, p3}
  Pid <- ThreePuts
  FanoutDurable = TRUE
  IoMayFail = TRUE
  MaxCrash = 2
  MaxPowerLoss = 1
  Digits <- MCDigits
  Fixed = 4
  FixedInner = {2, 3}
  Budgets <- MCBudgets
  Texts <- MCTexts
SPECIFICATION Spec
INVARIANTS
  PublishedIsWhole
  RefRetrievable
  CutIsExact
  OnlyOwnTemporaryBlocks
CHECK_DEADLOCK FALSE
