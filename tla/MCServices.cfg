CONSTANTS
  Subjects = {"publication", "observer", "provider", "cutover", "integration", "provision"}
  MaxPubCrashes = 2
  MaxForeignMoves = 2
  Items = {x, y}
  MaxFeedback = 2
  Listings = {"a"}
  Pages = 2
  MaxGuardAge = 2
  MaxTicks = 4
  LegacyLeaves = 2
  LegacyRoles = {"r", "q"}
  MaxHistory = 3
  MaxLegacyWrites = 3
  MaxCutoverCrashes = 2
  IntTasks = {"a", "b"}
  MaxRepairs = 1
  PostMergeVerify = TRUE
  MaxOutside = 1
  MaxIntCrashes = 2
  Checkouts = {"c"}
  MaxProvisions = 5
  MaxProvCrashes = 3
SPECIFICATION Spec
INVARIANTS PublicationIsTrue FeedbackTracksFacts StalenessBounded MarkerIsProof TreeNeverLost
PROPERTIES ForeignBranchKept NothingClobbered
SYMMETRY MCSymmetry
CHECK_DEADLOCK FALSE
