CONSTANTS
  Handles = {h1, h2}
  Calls = {c1, c2}
  WorstCase <- MCWorstCase
  Budget = 1
  Overrun = 0
  StrongScope = TRUE
  MaxFaults = 1
  MaxReconciles = 0
SPECIFICATION FairSpec
PROPERTIES NothingStuck
CHECK_DEADLOCK FALSE
