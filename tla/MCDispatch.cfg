CONSTANTS
    t1 = t1
    t2 = t2
    Tasks = {t1, t2}
    OpCmds = {}
    MaxRepairs = 1
    BoundaryMax = 1
    MaxCrashes = 1
    None = None
SPECIFICATION Spec
SYMMETRY Symmetry
INVARIANTS AgentsKnown AttemptsCounted
CHECK_DEADLOCK FALSE
