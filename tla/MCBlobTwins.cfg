\* Two puts of one process; nothing fails.
CONSTANTS
  p1 = p1
  p2 = p2
  p3 = p3
  Puts = {p1, p2}
  Pid <- Twins
  FanoutDurable = TRUE
  IoMayFail = FALSE
  MaxCrash = 0
  MaxPowerLoss = 0
  Digits <- MCDigits
  Fixed = 4
  FixedInner = {2, 3}
  Budgets <- MCBudgets
  Texts <- MCTexts
SPECIFICATION Spec
INVARIANT OutcomesBounded
CHECK_DEADLOCK FALSE
