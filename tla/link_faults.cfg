SPECIFICATION FairSpec
CONSTANTS
    s1 = s1
    s2 = s2
    u1 = u1
    u2 = u2
    Servers = {s1, s2}
    Users = {u1, u2}
    Home <- HomeApart
    NoOne = NoOne
    Retries = 2
    Faults = {"down", "refuse", "split"}
    MaxCalls = 4
    MaxFaults = 2
INVARIANT RepliesSound
INVARIANT ServedOnceOrTwice
INVARIANT RequestsGoHome
INVARIANT OneConnection
PROPERTY Returns
CHECK_DEADLOCK FALSE
