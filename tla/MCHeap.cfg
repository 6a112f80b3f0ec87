SPECIFICATION Spec
CONSTANTS
    Start = 65536
    InitialPages = 1
    MaxPages = 3
    Requests <- MCRequests
INVARIANTS
    TypeOK
    Tiled
    Aligned
    Coalesced
    BlocksInSegments
    RecursionBounded
PROPERTIES
    MallocReturns
    ImplementsStore
