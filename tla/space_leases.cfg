SPECIFICATION FairSpec
CONSTANTS
    Workers = {w1}
    Users = {u1, u2}
    NoUser = NoUser
    Sizes = {1}
    PoolSize = 2
    Word = 16
    LockAtQuery = FALSE
    Faults = {"statusLost", "expire", "nolog", "sendLost", "crash"}
    MaxRequests = 2
    MaxItems = 1
PROPERTY ForeignAnchorOnlyByCopy
PROPERTY LockReleased
