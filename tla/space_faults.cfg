SPECIFICATION Spec
CONSTANTS
    Workers = {w1, w2}
    Users = {u1, u2}
    NoUser = NoUser
    Sizes = {1}
    PoolSize = 2
    Word = 4
    LockAtQuery = TRUE
    Faults = {"io", "query", "sendLost", "backup", "copy", "alloc", "crash"}
    MaxRequests = 2
    MaxItems = 1
SYMMETRY Symmetry
INVARIANT SpaceInv
INVARIANT WriterOwnsSpace
INVARIANT PublishedExists
INVARIANT TypeOK
PROPERTY ImplementsJournal
