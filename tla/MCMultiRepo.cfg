SPECIFICATION Spec
INVARIANTS ReceiptTellsTruth EffectsFollowTheJournal OneWorkerEver CompletedMeansDelivered DisplacerNeverHolds
PROPERTIES WorkSurvivesCleanup VectorSettles DispatchedIsSettled
CONSTANTS
  Width = 2
  MaxGroupCrashes = 2
  MaxGroupEdits = 2
  Repositories = 2
  MaxVectorCrashes = 2
  MaxRefMoves = 1
  MaxTaskCrashes = 3
  Claimants = {a, b, c, d}
  Nobody = Nobody
  Subjects = {"group", "vector", "task", "lock"}
CHECK_DEADLOCK FALSE
