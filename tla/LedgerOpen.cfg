\* Two runs and two migrating operators on one directory, with two crashes.
CONSTANTS
  Openers = {o1, o2}
  Migrators = {m1, m2}
  Overlap = FALSE
  MaxCrashes = 2
SPECIFICATION Spec
INVARIANTS GenerationsSound BalanceNeverForgotten
PROPERTIES RecoveryCompletes
CHECK_DEADLOCK FALSE
