SPECIFICATION Spec
CONSTANTS
    Kinds = {TRUE}
    Counts = {2}
    Overlap = TRUE
    Faults = {}
    MaxStarts = 2
    MaxPids = 2
INVARIANT FileLeadsToBackend
CHECK_DEADLOCK FALSE
