SPECIFICATION Spec
CONSTANTS
    s1 = s1
    s2 = s2
    u1 = u1
    u2 = u2
    Servers = {s1, s2}
    Users = {u1, u2}
    Home <- HomeShared
    NoOne = NoOne
    Retries = 2
    Faults = {"split"}
    MaxCalls = 4
    MaxFaults = 1
INVARIANT OkIsMine
CHECK_DEADLOCK FALSE
