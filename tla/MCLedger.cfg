CONSTANTS
  Handles = {h1, h2}
  Calls = {c1, c2}
  WorstCase <- MCWorstCase
  Budget = 1
  Overrun = 0
  StrongScope = TRUE
  MaxFaults = 2
  MaxReconciles = 1
SPECIFICATION Spec
INVARIANTS BudgetHeld AckedSurvives NothingLaundered SettlementsLawful
SYMMETRY MCSymmetry
CHECK_DEADLOCK FALSE
