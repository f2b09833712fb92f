CONSTANTS
    t1 = t1
    Tasks = {t1}
    c1 = c1
    OpCmds = {c1}
    MaxRepairs = 1
    BoundaryMax = 1
    MaxCrashes = 2
    None = None
SPECIFICATION SteadySpec
INVARIANTS DeliveredOnce
PROPERTIES WorkEnds
CHECK_DEADLOCK FALSE
