SPECIFICATION FairSpec
CONSTANTS
    Kinds = {TRUE, FALSE}
    Counts = {0, 2}
    Overlap = TRUE
    Faults = {"kill", "fork", "exec", "pid"}
    MaxStarts = 2
    MaxPids = 4
INVARIANT FilesSound
INVARIANT Supervised
INVARIANT OneListener
PROPERTY Replaced
CHECK_DEADLOCK FALSE
