CONSTANTS
  Openers = {o1}
  Migrators = {m1}
  Overlap = TRUE
  MaxCrashes = 0
SPECIFICATION Spec
INVARIANT BalanceNeverForgotten
CHECK_DEADLOCK FALSE
