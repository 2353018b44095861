SPECIFICATION Spec
CONSTANTS
    Workers = {w1, w2}
    Users = {u1}
    NoUser = NoUser
    Sizes = {1}
    PoolSize = 2
    Word = 5
    LockAtQuery = FALSE
    Faults = {}
    MaxRequests = 3
    MaxItems = 2
SYMMETRY Symmetry
INVARIANT OneWriter
INVARIANT AnchorsDense
INVARIANT OffsetsOrdered
INVARIANT LogReadable
INVARIANT CapacitySound
