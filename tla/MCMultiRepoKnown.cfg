SPECIFICATION Spec
INVARIANT CompensatedMeansUndone
PROPERTY ReconcileFinishes
CONSTANTS
  Width = 2
  MaxGroupCrashes = 2
  MaxGroupEdits = 2
  Repositories = 2
  MaxVectorCrashes = 2
  MaxRefMoves = 1
  MaxTaskCrashes = 3
  Claimants = {a, b, c, d}
  Nobody = Nobody
  Subjects = {"vector", "task"}
CHECK_DEADLOCK FALSE
