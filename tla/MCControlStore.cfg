SPECIFICATION Spec
CONSTANTS
    None = None
    Tasks = {"t1"}
    Sessions = {"s1"}
    Attempts = {"a1", "a2"}
    Commands = {"k1"}
    EventIds <- MCEventIds
    Sources = {"x1"}
    Roles = {"dev"}
    MaxGen = 2
    Clients = {c1, c2}
    Ids = {e1, e2}
    Batches <- MCBatches
    Effects <- MCEffects
    Seeds <- MCSeeds
    MaxUpkeep = 1
SYMMETRY Symmetry
CHECK_DEADLOCK FALSE
INVARIANTS ProjectionIsFold ReceiptsHold WritersFenced
PROPERTIES ImplementsEventLog
