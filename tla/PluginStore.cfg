CONSTANTS
    Procs = {c1, c2}
    Plugins = {x1}
    Versions = {1, 2}
    Free = Free
    Present = {{1}, {1, 2}}
    MaxOps = 2
    MaxFaults = 1
    MaxCrashes = 1
SPECIFICATION Spec
INVARIANTS OneHolder CommitHeals 
CHECK_DEADLOCK FALSE
