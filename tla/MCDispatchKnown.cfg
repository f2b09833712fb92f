CONSTANTS
    t1 = t1
    Tasks = {t1}
    OpCmds = {}
    MaxRepairs = 1
    BoundaryMax = 1
    MaxCrashes = 1
    None = None
SPECIFICATION Spec
INVARIANTS LocatorFree StoppedMeansNoWork OneAgentPerTask
CHECK_DEADLOCK FALSE
