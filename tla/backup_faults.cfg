SPECIFICATION FairSpec
CONSTANTS
    d1 = d1
    n1 = n1
    n2 = n2
    Dirs = {d1}
    Names = {n1}
    Interval = 1
    DayLength = 3
    Chunk = 1
    MaxDelete = 2
    Devices = {TRUE, FALSE}
    Faults = {"crash", "open", "reopen", "log", "rename", "copy", "read", "unlink", "mark"}
    MaxFiles = 3
    MaxSize = 3
    MaxTime = 2
INVARIANT RecordIsMine
INVARIANT ErrorMeansKept
PROPERTY Finishes
CHECK_DEADLOCK FALSE
