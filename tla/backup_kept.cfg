SPECIFICATION Spec
CONSTANTS
    d1 = d1
    n1 = n1
    n2 = n2
    Dirs = {d1}
    Names = {n1, n2}
    Interval = 1
    DayLength = 3
    Chunk = 1
    MaxDelete = 2
    Devices = {TRUE, FALSE}
    Faults = {"crash", "read"}
    MaxFiles = 3
    MaxSize = 2
    MaxTime = 3
INVARIANT BackupsSound
PROPERTY NothingLost
PROPERTY WholeIsKept
CHECK_DEADLOCK FALSE
